------------------------------ MODULE MCHevcSync ------------------------------
(* Random access over CRA, RASL and RADL pictures, two temporal sub-layers,    *)
(* and long-term references, on cycles of four counts.                         *)
EXTENDS HevcSync

FourCycle == [maxLsb |-> 4, maxDecPicBufferingMinus1 |-> 4]

Access == [types |-> {1, 7, 9, 19, 21}, topLayer |-> 0, losses |-> TRUE,
           maxLong |-> 0, span |-> 3, maxKey |-> 4]
Layers == [types |-> {0, 1, 19}, topLayer |-> 1, losses |-> FALSE,
           maxLong |-> 0, span |-> 4, maxKey |-> 4]
LongTerm == [types |-> {1, 19}, topLayer |-> 0, losses |-> FALSE,
             maxLong |-> 1, span |-> 7, maxKey |-> 5]

AllProfiles == {Access, Layers, LongTerm}
=============================================================================
