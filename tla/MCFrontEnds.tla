------------------------------ MODULE MCFrontEnds ------------------------------
(***************************************************************************)
(* FrontEnds for TLC.  The headers of H.264 differ from a plain frame in    *)
(* one of the elements that tell pictures apart; the frames of AV1 and      *)
(* VP9 take each path of their headers: loaded or carried, inferred and     *)
(* coded parameters.                                                        *)
(***************************************************************************)
EXTENDS FrontEnds

SpsChoices == {[pocType |-> 0, yuv444 |-> FALSE], [pocType |-> 1, yuv444 |-> TRUE]}

PlainHeader == [frameNum |-> 0, field |-> "Frame", reference |-> TRUE, lsb |-> 0, deltaBottom |-> 0, delta |-> 0,
                idr |-> FALSE, idrPicId |-> 0]
HeaderChoices ==
    {PlainHeader, [PlainHeader EXCEPT !.idr = TRUE], [PlainHeader EXCEPT !.idr = TRUE, !.idrPicId = 1],
     [PlainHeader EXCEPT !.lsb = 1, !.delta = 1], [PlainHeader EXCEPT !.field = "Bottom"]}

Inter == [type |-> "inter", shown |-> TRUE, resilient |-> FALSE, refresh |-> {0}, short |-> FALSE, last |-> 0,
          gold |-> 0, loads |-> TRUE, size |-> 2, deltas |-> 0, lossless |-> FALSE, features |-> 0, grain |-> 0]
Key == [Inter EXCEPT !.type = "key", !.deltas = 1]
FrameChoices ==
    {Key,
     [Key EXCEPT !.shown = FALSE, !.refresh = {2}, !.features = 1, !.size = 1],
     [Inter EXCEPT !.type = "intra_only", !.refresh = {1}, !.grain = 1, !.size = 1],
     [Inter EXCEPT !.deltas = 1, !.features = 1, !.refresh = {1}],
     [Inter EXCEPT !.lossless = TRUE, !.last = 1, !.refresh = {2}],
     [Inter EXCEPT !.grain = 1, !.last = 1, !.size = 1, !.refresh = {}],
     [Inter EXCEPT !.resilient = TRUE, !.last = 1, !.gold = 2, !.features = 1, !.refresh = {1}],
     [Inter EXCEPT !.short = TRUE, !.last = 1, !.shown = FALSE, !.refresh = {0, 2}],
     [Inter EXCEPT !.type = "switch", !.last = 2, !.size = 1, !.deltas = 1]}

Vp9Inter == [type |-> "inter", resilient |-> FALSE, refresh |-> {0}, color |-> 1, size |-> 1, last |-> 0,
             filtered |-> TRUE, deltas |-> [ref |-> 0, mode |-> 0], segmented |-> TRUE, features |-> 0]
Vp9Key == [Vp9Inter EXCEPT !.type = "key"]
Vp9Choices ==
    {Vp9Key,
     [Vp9Key EXCEPT !.color = 2, !.size = 2, !.deltas.mode = 1, !.features = 1],
     [Vp9Inter EXCEPT !.type = "intra_only", !.refresh = {1}, !.features = 1],
     [Vp9Inter EXCEPT !.type = "intra_only", !.refresh = {0}, !.color = 2, !.deltas.ref = 1],
     Vp9Inter,
     [Vp9Inter EXCEPT !.deltas.ref = 1, !.features = 1, !.refresh = {1}],
     [Vp9Inter EXCEPT !.deltas.mode = 1, !.segmented = FALSE, !.last = 1],
     [Vp9Inter EXCEPT !.resilient = TRUE, !.size = 2, !.last = 1],
     [Vp9Inter EXCEPT !.filtered = FALSE, !.size = 2, !.refresh = {1}]}

\* A cycle of four counts: every step of the count, in reach and at its edge, wraps
\* within Span.
FourCycle == [pocType |-> 0, maxLsb |-> 4, maxFrameNum |-> 1]
BottomDeltas == {-1, 2}

=============================================================================
