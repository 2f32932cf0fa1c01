---------------------------- MODULE MCH264RefLists ----------------------------
(***************************************************************************)
(* Commands over a buffer of two, and the lists of every picture: frames,  *)
(* pairs, single and half-referenced fields, long-term pictures and        *)
(* inferred frames.                                                        *)
(***************************************************************************)
EXTENDS H264RefLists, MCH264Dpb

\* Gaps the stream allows, and gaps taken for a loss.
ListSps == FieldSps

\* Counts follow frame_num, but for a frame that comes later in output order.
WithLsb(h, lsb) == [h EXCEPT !.lsb = lsb]

ListHeaders ==
    {WithLsb(h, h.frameNum) : h \in {g \in MmcoHeaders :
        /\ g.frameNum # 2
        /\ g.adaptive /\ g.structure = "BottomField" /\ g.frameNum = 0 => g.mmco[1].code = 3
        /\ g.adaptive /\ g.structure = "TopField" => g.mmco[1].code \in {5, 6}}}
      \cup {WithLsb(Coded(0, "Frame", TRUE), 3)}

Subtract(d) == [op |-> "Subtract", value |-> d]
Add(d) == [op |-> "Add", value |-> d]
Long(n) == [op |-> "LongTerm", value |-> n]

\* A P slice has one list to modify, a B slice both.
ListSlices ==
    {[type |-> "P", active |-> 2, commands |-> <<Long(0), Subtract(1)>>],
     [type |-> "P", active |-> 4, commands |-> <<Add(1), Add(1), Add(1)>>],
     [type |-> "B", active |-> 3, commands |-> <<Subtract(1), Long(0), Add(2)>>]}
=============================================================================
