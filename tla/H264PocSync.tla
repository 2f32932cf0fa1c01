----------------------------- MODULE H264PocSync -----------------------------
(***************************************************************************)
(* Picture order count type 0 between an encoder and PocState              *)
(* (src/h264/poc.rs).  The encoder sends lsb = count mod maxLsb and keeps  *)
(* every count within half a cycle of the previous reference picture; the  *)
(* decoder rebuilds the count.  Pictures may be lost on the way, reference *)
(* pictures too, which is what desynchronises the two.                     *)
(*                                                                         *)
(* The encoder is not part of the crate: it is the reading of clause       *)
(* 8.2.1.1 under which the derivation must be an inverse.  The decoder     *)
(* steps are Derive and FinishPoc, as begin_picture and finish_picture     *)
(* call them.                                                              *)
(***************************************************************************)
EXTENDS H264Poc

CONSTANTS
    SyncSps,    \* the sequence parameter set
    Deltas,     \* delta_pic_order_cnt_bottom of frames
    Span        \* bound: counts stay in -Span..Span

\* The bottom field of a frame is less than a cycle before its top field: operation 5
\* leaves the distance as prevPicOrderCntLsb, which is taken for an lsb.
ASSUME SyncAssumption ==
    /\ SyncSps.pocType = 0 /\ SyncSps.maxLsb \in Nat \ {0} /\ SyncSps.maxLsb % 2 = 0
    /\ SyncSps.maxLsb <= PocLimit
    /\ Deltas \subseteq Int /\ \A d \in Deltas : -SyncSps.maxLsb < d /\ d < PocLimit
    /\ Span \in Nat

VARIABLES
    anchor,     \* encoder: the count the next picture is coded against
    ps,         \* decoder: PocState
    seen,       \* the anchor of the last reference picture the decoder got
    behind,     \* a refresh was lost, or a reference picture arrived out of
                \* reach, and no refresh has arrived since
    sentCounts, \* counts of the last picture that arrived, as the encoder has them
    derived     \* and as the decoder derived them

pocSyncVars == <<anchor, ps, seen, behind, sentCounts, derived>>

PocSyncInit ==
    /\ anchor = 0 /\ seen = 0
    /\ ps = InitPocState
    /\ behind = FALSE
    /\ sentCounts = [top |-> 0, bottom |-> 0, structure |-> "Frame", inReach |-> TRUE]
    /\ derived = ZeroPoc

\* The counts whose lsb names them for someone who knows the anchor a.
InReach(v, a) == -(SyncSps.maxLsb \div 2) < v - a /\ v - a <= SyncSps.maxLsb \div 2

PocSlice(v, structure, idr, reference, delta) ==
    [idr |-> idr, reference |-> reference, frameNum |-> 0, structure |-> structure,
     lsb |-> v % SyncSps.maxLsb, deltaBottom |-> delta, delta |-> <<0, 0>>]

\* The counts the encoder means; a frame's bottom field is delta later.
MeantCounts(v, structure, delta) ==
    [top |-> v, bottom |-> IF IsField(structure) THEN v ELSE v + delta]

Smallest(pair, structure) ==
    CASE structure = "TopField" -> pair.top
      [] structure = "BottomField" -> pair.bottom
      [] OTHER -> IF pair.top < pair.bottom THEN pair.top ELSE pair.bottom

\* Operation 5 makes the picture's own smallest count zero.
Rebased(pair, structure) ==
    LET base == Smallest(pair, structure)
    IN  [top |-> pair.top - base, bottom |-> pair.bottom - base]

\* A picture arrives: begin_picture derives, finish_picture keeps.  One whose
\* counts overflow is refused and changes nothing, as if it had been lost.
Arrive(v, structure, idr, reference, delta, mmco5) ==
    LET slice == PocSlice(v, structure, idr, reference, delta)
        counts == Derive(ps, SyncSps, slice)
        meantCounts == MeantCounts(v, structure, delta)
        pair == IF mmco5 THEN Rebased(meantCounts, structure) ELSE meantCounts
    IN  /\ counts # None
        /\ derived' = IF mmco5 THEN AfterMmco5(counts, structure) ELSE counts
        /\ sentCounts' = [top |-> pair.top, bottom |-> pair.bottom, structure |-> structure,
                          inReach |-> idr \/ mmco5 \/ InReach(v, seen)]
        /\ ps' = FinishPoc(ps, SyncSps, slice, counts, mmco5)

\* What the next picture is coded against: a frame or top field gives its top
\* count, a bottom field its own; operation 5 leaves 0 for a bottom field.
NextAnchor(v, structure, delta, mmco5) ==
    IF ~mmco5 THEN v
    ELSE IF structure = "BottomField" THEN 0
    ELSE Rebased(MeantCounts(v, structure, delta), structure).top

FrameDeltas(structure) == IF IsField(structure) THEN {0} ELSE Deltas

\* A picture that is no refresh; lost or not.
SendPicture(v, structure, reference, delta) ==
    /\ InReach(v, anchor)
    /\ anchor' = IF reference THEN v ELSE anchor
    /\ \/ /\ Arrive(v, structure, FALSE, reference, delta, FALSE)
          /\ seen' = IF reference THEN v ELSE seen
          /\ behind' = (behind \/ (reference /\ ~InReach(v, seen)))
       \/ UNCHANGED <<ps, seen, behind, sentCounts, derived>>

\* An IDR picture: counts start again at zero or at the lsb it sends.
SendIdr(v, structure, delta) ==
    /\ InReach(v, 0)
    /\ anchor' = v
    /\ \/ /\ Arrive(v, structure, TRUE, TRUE, delta, FALSE)
          /\ seen' = v /\ behind' = FALSE
       \/ /\ behind' = TRUE
          /\ UNCHANGED <<ps, seen, sentCounts, derived>>

\* A picture with memory management operation 5.
SendRefresh(v, structure, delta) ==
    /\ InReach(v, anchor)
    /\ anchor' = NextAnchor(v, structure, delta, TRUE)
    /\ \/ /\ Arrive(v, structure, FALSE, TRUE, delta, TRUE)
          /\ seen' = anchor' /\ behind' = FALSE
       \/ /\ behind' = TRUE
          /\ UNCHANGED <<ps, seen, sentCounts, derived>>

PocSyncNext ==
    \E v \in -Span .. Span, structure \in Structures :
       \E delta \in FrameDeltas(structure) :
          \/ \E reference \in BOOLEAN : SendPicture(v, structure, reference, delta)
          \/ SendIdr(v, structure, delta)
          \/ SendRefresh(v, structure, delta)

PocSyncSpec == PocSyncInit /\ [][PocSyncNext]_pocSyncVars

-----------------------------------------------------------------------------
(* Safety *)

\* Nobody is behind and the picture was within reach of the last reference
\* picture that arrived.
InStep == ~behind /\ sentCounts.inReach

\* The decoder's counts are the encoder's whenever they can be: lost pictures,
\* references among them, cost nothing while the count stays in reach, and a
\* refresh, IDR or operation 5, repairs whatever was lost before it.
CountsAgree ==
    InStep => /\ sentCounts.structure # "BottomField" => derived.top = sentCounts.top
              /\ sentCounts.structure # "TopField" => derived.bottom = sentCounts.bottom
              /\ derived.count = Smallest(sentCounts, sentCounts.structure)

=============================================================================
