----------------------------- MODULE MCH264Bridge -----------------------------
(***************************************************************************)
(* Small instances of H264Bridge.  One follows a bridge through streams of  *)
(* every count type with fields, long-term pictures and gaps of up to six   *)
(* frames over a window of two, next to the frame-by-frame walk of every    *)
(* gap (H264GapShortcut); in the other a lost picture is an error.          *)
(***************************************************************************)
EXTENDS H264Bridge, H264GapShortcut, MCH264Dpb

SurfacesInit == BridgeInit /\ entry = None
SurfacesNext == BridgeNext /\ RecordEntry
SurfacesSpec == SurfacesInit /\ [][SurfacesNext]_<<bridgeVars, entry>>

CycleOfEight == [maxNumRefFrames |-> 2, gapsAllowed |-> TRUE, maxFrameNum |-> 8,
                 pocType |-> 0, maxLsb |-> 4, offsetsForRefFrame |-> <<2, 3>>,
                 offsetForNonRefPic |-> -1, offsetTopToBottom |-> 1]

\* Every count type, and a parameter set that takes gaps for losses.
GapSps == {[CycleOfEight EXCEPT !.pocType = t] : t \in 0 .. 2}
            \cup {[CycleOfEight EXCEPT !.gapsAllowed = FALSE]}

\* One long-term picture at most: a buffer full of them drops the picture that was
\* just stored, see the README.
GapHeaders ==
    {Idr, LongTermIdr, [Idr EXCEPT !.structure = "TopField"]}
      \cup {Coded(n, "Frame", r) : n \in {1, 3, 7}, r \in BOOLEAN}
      \cup {Coded(n, "TopField", r) : n \in {1, 6}, r \in BOOLEAN}
      \cup {Coded(1, "BottomField", r) : r \in BOOLEAN}

=============================================================================
