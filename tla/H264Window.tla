------------------------------ MODULE H264Window ------------------------------
(***************************************************************************)
(* What the sliding window of clause 8.2.5.3 promises a stream that uses   *)
(* no memory management commands: the reference frames are the newest Cap  *)
(* frames in decoding order, the inferred ones included, since the last    *)
(* refresh.  H264WindowRefinement shows that H264Dpb, which picks victims  *)
(* by FrameNumWrap and works on fields, keeps this promise.                *)
(***************************************************************************)
EXTENDS Naturals, FiniteSets

CONSTANT Cap        \* Max(max_num_ref_frames, 1)

VARIABLE window     \* the keys of the reference frames, which rise in decoding order

Init == window = {}

Newer(s, k) == {j \in s : j > k}

\* The n newest keys of s.
Newest(s, n) == {k \in s : Cardinality(Newer(s, k)) < n}

IsNewest(k) == \A j \in window : j < k

\* A reference frame, or the first field of one, enters.
Enter == \E k \in window' : IsNewest(k) /\ window' = Newest(window \cup {k}, Cap)

\* An IDR picture is the only reference left.
Refresh == \E k \in window' : IsNewest(k) /\ window' = {k}

\* A restart, or a gap wide enough to push everything out.
Flush == window' = {}

\* A gap that ended in an error had made room already.
MakeRoom == window' = Newest(window, Cap - 1)

Next == Enter \/ Refresh \/ Flush \/ MakeRoom

Spec == Init /\ [][Next]_window

=============================================================================
