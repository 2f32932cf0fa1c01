------------------------------- MODULE MCHevcDpb -------------------------------
(* A buffer bounded at two pictures, counts of four bits, headers no           *)
(* encoder would write next to ordinary ones: a picture named twice, short-    *)
(* and long-term at once, by its lsb where two pictures share it.              *)
EXTENDS HevcDpb

FourCycle == {[maxLsb |-> 4, maxDecPicBufferingMinus1 |-> n] : n \in {0, 4}}

Base == [type |-> 1, layerId |-> 0, dependent |-> FALSE, temporalId |-> 0, lsb |-> 0,
         s0 |-> <<>>, s1 |-> <<>>, longTerm |-> <<>>]

St(d, used) == [delta |-> d, used |-> used]
Lt(lsb, cycle, used) == [lsb |-> lsb, cycle |-> cycle, used |-> used]

McHeaders ==
    {[Base EXCEPT !.type = t, !.lsb = n] : t \in {19, 20}, n \in {0}}
      \cup {[Base EXCEPT !.type = t, !.lsb = n, !.s0 = s] :
              t \in {1, 9, 16, 21}, n \in {0, 3}, s \in {<<>>, <<St(-1, TRUE), St(-3, FALSE)>>}}
      \cup {[Base EXCEPT !.lsb = n, !.s0 = s0, !.s1 = s1, !.longTerm = l] :
              n \in {1, 2},
              s0 \in {<<St(-1, TRUE)>>, <<St(-1, FALSE), St(-1, TRUE)>>, <<St(-2, TRUE), St(-1, TRUE)>>},
              s1 \in {<<>>, <<St(1, TRUE)>>},
              l \in {<<>>, <<Lt(0, None, TRUE)>>, <<Lt(1, 1, FALSE), Lt(0, 0, TRUE)>>}}
      \cup {[Base EXCEPT !.dependent = TRUE], [Base EXCEPT !.layerId = 1]}
=============================================================================
