----------------------------- MODULE H264Marking -----------------------------
(***************************************************************************)
(* Frame stores of the H.264 decoded picture buffer and the marking        *)
(* processes over them (src/h264/dpb.rs, clauses 8.2.4.1 and 8.2.5).       *)
(*                                                                         *)
(* The code keeps a Vec<FrameStore> in insertion order and names a store   *)
(* by its key.  Keys are handed out in increasing order and every push     *)
(* puts the newest key at the end, so a function from the live keys to     *)
(* their stores carries the same information: "first in the Vec" is "of    *)
(* the smallest key".  Loops that unmark one victim per iteration are      *)
(* written as the set of all their victims.                                *)
(***************************************************************************)
EXTENDS H264Poc, FiniteSets, Functions

-----------------------------------------------------------------------------
(* Fields and stores *)

Parities == {"Top", "Bottom"}

Other(p) == IF p = "Top" THEN "Bottom" ELSE "Top"

ParityOf(structure) ==
    CASE structure = "TopField" -> "Top"
      [] structure = "BottomField" -> "Bottom"
      [] OTHER -> None

Markings == {"Unused", "ShortTerm", "LongTerm"}

FieldState == [decoded : BOOLEAN, marking : Markings, poc : PocRange,
               longTermFrameIdx : Nat]

EmptyField == [decoded |-> FALSE, marking |-> "Unused", poc |-> 0,
               longTermFrameIdx |-> 0]

FrameStore == [frameNum : Nat, fields : [Parities -> FieldState],
               codedFrame : BOOLEAN, nonExisting : BOOLEAN]

\* A function from live keys to frame stores.
AreStores(st) == DOMAIN st \subseteq Nat /\ st \in [DOMAIN st -> FrameStore]

IsMarked(f, m) == f.decoded /\ f.marking = m

AnyMarked(s, m) == \E p \in Parities : IsMarked(s.fields[p], m)

BothMarked(s, m) == \A p \in Parities : IsMarked(s.fields[p], m)

IsReference(s) ==
    \E p \in Parities : s.fields[p].decoded /\ s.fields[p].marking # "Unused"

\* LongTermFrameIdx of a store that has a long-term field: the top one's first.
LongTermFrameIdx(s) ==
    IF IsMarked(s.fields["Top"], "LongTerm")
    THEN s.fields["Top"].longTermFrameIdx
    ELSE s.fields["Bottom"].longTermFrameIdx

References(st) == {k \in DOMAIN st : IsReference(st[k])}

Holders(st, m) == {k \in DOMAIN st : AnyMarked(st[k], m)}

\* Does store k hold LongTermFrameIdx idx in one of its fields?
HoldsIdx(s, idx) ==
    \E p \in Parities : /\ IsMarked(s.fields[p], "LongTerm")
                        /\ s.fields[p].longTermFrameIdx = idx

\* Mutant of FrameNumWrap: a frame_num above the current one is not older.
FrameNumWrapRaw(s, currentFrameNum, maxFrameNum) == s.frameNum

FrameNumWrap(s, currentFrameNum, maxFrameNum) ==
    IF s.frameNum > currentFrameNum THEN s.frameNum - maxFrameNum
    ELSE s.frameNum

RefCap(sps) == IF sps.maxNumRefFrames < 1 THEN 1
               ELSE IF sps.maxNumRefFrames > 16 THEN 16
               ELSE sps.maxNumRefFrames

-----------------------------------------------------------------------------
(* Changing markings *)

AsUnused(f) == [f EXCEPT !.marking = "Unused"]

AsLongTerm(f, idx) == [f EXCEPT !.marking = "LongTerm", !.longTermFrameIdx = idx]

\* The fields named by the pairs <<key, parity>> of dropped become unused.
Unmark(st, dropped) ==
    [k \in DOMAIN st |->
       [st[k] EXCEPT !.fields = [p \in Parities |->
          IF <<k, p>> \in dropped
          THEN AsUnused(st[k].fields[p])
          ELSE st[k].fields[p]]]]

AllFields(st) == (DOMAIN st) \X Parities

FieldsMarked(st, m) ==
    {e \in AllFields(st) : st[e[1]].fields[e[2]].marking = m}

\* Mutant of EvictUnused: unused stores stay.
EvictUnusedKeeps(st) == st

\* retain(is_reference): what stays, and the keys that leave.
EvictUnused(st) == [k \in References(st) |-> st[k]]

UnusedKeys(st) == (DOMAIN st) \ References(st)

-----------------------------------------------------------------------------
(* Sliding window and the capacity safety net *)

\* min_by_key over FrameNumWrap, the first of equals.
Older(st, frameNum, maxFrameNum, j, k) ==
    LET wj == FrameNumWrap(st[j], frameNum, maxFrameNum)
        wk == FrameNumWrap(st[k], frameNum, maxFrameNum)
    IN  wj < wk \/ (wj = wk /\ j < k)

\* The short-term fields that slide out for a picture of frameNum.  A store
\* with one short-term and one long-term field counts twice and loses only its
\* short-term field.
SlidOut(st, sps, frameNum, maxFrameNum) ==
    LET short == Holders(st, "ShortTerm")
        excess == Cardinality(short) + Cardinality(Holders(st, "LongTerm"))
                    - RefCap(sps) + 1
        victims == {k \in short :
                      Cardinality({j \in short :
                         Older(st, frameNum, maxFrameNum, j, k)}) < excess}
    IN  {e \in FieldsMarked(st, "ShortTerm") : e[1] \in victims}

\* Clause 8.2.5.3; second is the store of which the picture is the second
\* field, or None.
SlidingWindow(st, sps, frameNum, maxFrameNum, second) ==
    IF second # None /\ second \in Holders(st, "ShortTerm") THEN st
    ELSE Unmark(st, SlidOut(st, sps, frameNum, maxFrameNum))

\* Order in which the safety net drops stores: those without a long-term
\* field, oldest first, then by falling LongTermFrameIdx, the last of equals.
DropsBefore(st, frameNum, maxFrameNum, j, k) ==
    LET long == Holders(st, "LongTerm")
    IN  \/ j \notin long /\ k \in long
        \/ /\ j \notin long /\ k \notin long
           /\ Older(st, frameNum, maxFrameNum, j, k)
        \/ /\ j \in long /\ k \in long
           /\ \/ LongTermFrameIdx(st[j]) > LongTermFrameIdx(st[k])
              \/ LongTermFrameIdx(st[j]) = LongTermFrameIdx(st[k]) /\ j > k

\* Mutant of OverCapacity: long-term references do not count.
OverCapacityShortOnly(st, sps, frameNum, maxFrameNum) ==
    LET short == Holders(st, "ShortTerm")
    IN  {e \in AllFields(st) :
           /\ e[1] \in short
           /\ Cardinality({j \in short : Older(st, frameNum, maxFrameNum, j, e[1])})
                < Cardinality(short) - RefCap(sps)}

OverCapacity(st, sps, frameNum, maxFrameNum) ==
    LET refs == References(st)
        excess == Cardinality(refs) - RefCap(sps)
        victims == {k \in refs :
                      Cardinality({j \in refs :
                         DropsBefore(st, frameNum, maxFrameNum, j, k)}) < excess}
    IN  {e \in AllFields(st) : e[1] \in victims}

EnforceCapacity(st, sps, frameNum, maxFrameNum) ==
    Unmark(st, OverCapacity(st, sps, frameNum, maxFrameNum))

-----------------------------------------------------------------------------
(* Picture numbers: c is the parity of the field looked at, cur the parity *)
(* of the current picture; both are None for frames                        *)

PicNum(s, c, cur, frameNum, maxFrameNum) ==
    LET wrap == FrameNumWrap(s, frameNum, maxFrameNum)
    IN  CASE c = None -> wrap
          [] c # None /\ c = cur -> 2 * wrap + 1
          [] OTHER -> 2 * wrap

LongTermPicNum(s, c, cur) ==
    CASE c = None -> LongTermFrameIdx(s)
      [] c # None /\ c = cur -> 2 * s.fields[c].longTermFrameIdx + 1
      [] OTHER -> 2 * s.fields[c].longTermFrameIdx

EntryIs(s, c, m) == IF c = None THEN BothMarked(s, m) ELSE IsMarked(s.fields[c], m)

\* The entries find() walks: fields of each store, or whole stores.
Entries(st, cur) == (DOMAIN st) \X (IF cur = None THEN {None} ELSE Parities)

ShortTermEntries(st, cur, frameNum, maxFrameNum, picNum) ==
    {e \in Entries(st, cur) :
       /\ EntryIs(st[e[1]], e[2], "ShortTerm")
       /\ PicNum(st[e[1]], e[2], cur, frameNum, maxFrameNum) = picNum}

LongTermEntries(st, cur, picNum) ==
    {e \in Entries(st, cur) :
       /\ EntryIs(st[e[1]], e[2], "LongTerm")
       /\ LongTermPicNum(st[e[1]], e[2], cur) = picNum}

\* find() stops at the first store, and looks at a top field before a bottom.
FirstEntry(entries) ==
    CHOOSE e \in entries : \A f \in entries :
        e[1] < f[1] \/ (e[1] = f[1] /\ (e[2] = f[2] \/ e[2] = "Top"))

\* Both fields of a frame entry, the one field of a field entry.
EntryFields(e) == {e[1]} \X (IF e[2] = None THEN Parities ELSE {e[2]})

CurrPicNum(cur, frameNum) == IF cur = None THEN frameNum ELSE 2 * frameNum + 1

-----------------------------------------------------------------------------
(* Memory management control operations *)

MmcoOp == [code : 1 .. 6, diff : Nat, idx : Nat]

\* Mutant of HoldersOfIdx: only complete long-term frames are looked at.
HoldersOfIdxFrames(st, idx, spare) ==
    {e \in FieldsMarked(st, "LongTerm") :
       /\ e[1] # spare
       /\ BothMarked(st[e[1]], "LongTerm")
       /\ HoldsIdx(st[e[1]], idx)}

\* Every holder of idx but the store spare: a long-term frame or pair goes
\* whole, a single long-term field alone.
HoldersOfIdx(st, idx, spare) ==
    {e \in FieldsMarked(st, "LongTerm") :
       /\ e[1] # spare
       /\ HoldsIdx(st[e[1]], idx)
       /\ \/ BothMarked(st[e[1]], "LongTerm")
          \/ st[e[1]].fields[e[2]].longTermFrameIdx = idx}

EvictLongTermIdx(st, idx, spare) == Unmark(st, HoldersOfIdx(st, idx, spare))

AssignLongTerm(st, chosen, idx) ==
    [k \in DOMAIN st |->
       [st[k] EXCEPT !.fields = [p \in Parities |->
          IF <<k, p>> \in chosen
          THEN AsLongTerm(st[k].fields[p], idx)
          ELSE st[k].fields[p]]]]

\* Operation 1: a short-term picture becomes unused.
MarkShortTermUnused(st, op, cur, frameNum, maxFrameNum) ==
    LET found == ShortTermEntries(st, cur, frameNum, maxFrameNum,
                                  CurrPicNum(cur, frameNum) - (op.diff + 1))
    IN  IF found = {} THEN st
        ELSE Unmark(st, EntryFields(FirstEntry(found)))

\* Operation 2: a long-term picture becomes unused.
MarkLongTermUnused(st, op, cur) ==
    LET found == LongTermEntries(st, cur, op.idx)
    IN  IF found = {} THEN st
        ELSE Unmark(st, EntryFields(FirstEntry(found)))

\* Operation 3: the index is freed even when no picture takes it.
AssignShortTermToLong(st, op, cur, frameNum, maxFrameNum) ==
    LET found == ShortTermEntries(st, cur, frameNum, maxFrameNum,
                                  CurrPicNum(cur, frameNum) - (op.diff + 1))
        target == FirstEntry(found)
        freed == EvictLongTermIdx(st, op.idx,
                    IF cur # None /\ found # {} THEN target[1] ELSE None)
    IN  IF found = {} THEN freed
        ELSE AssignLongTerm(freed, EntryFields(target), op.idx)

\* Operation 4: every index from op.idx (the maximum plus one) on is dropped.
FromIdxOn(st, idx) ==
    {e \in FieldsMarked(st, "LongTerm") : st[e[1]].fields[e[2]].longTermFrameIdx >= idx}

SetMaxLongTermFrameIdx(st, op) == Unmark(st, FromIdxOn(st, op.idx))

\* Mutant of ApplyMmco: operation 5 spares the long-term fields.
ApplyMmcoSparing(st, op, cur, frameNum, maxFrameNum, spare) ==
    CASE op.code = 1 -> MarkShortTermUnused(st, op, cur, frameNum, maxFrameNum)
      [] op.code = 2 -> MarkLongTermUnused(st, op, cur)
      [] op.code = 3 -> AssignShortTermToLong(st, op, cur, frameNum, maxFrameNum)
      [] op.code = 4 -> SetMaxLongTermFrameIdx(st, op)
      [] op.code = 5 -> Unmark(st, FieldsMarked(st, "ShortTerm"))
      [] op.code = 6 -> EvictLongTermIdx(st, op.idx, spare)

\* The stores after one operation; spare is the store of the first field
\* when the current picture is a second field, else None.
ApplyMmco(st, op, cur, frameNum, maxFrameNum, spare) ==
    CASE op.code = 1 -> MarkShortTermUnused(st, op, cur, frameNum, maxFrameNum)
      [] op.code = 2 -> MarkLongTermUnused(st, op, cur)
      [] op.code = 3 -> AssignShortTermToLong(st, op, cur, frameNum, maxFrameNum)
      [] op.code = 4 -> SetMaxLongTermFrameIdx(st, op)
      [] op.code = 5 -> Unmark(st, AllFields(st))
      [] op.code = 6 -> EvictLongTermIdx(st, op.idx, spare)

=============================================================================
