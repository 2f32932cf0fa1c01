----------------------------- MODULE H264RefLists -----------------------------
(***************************************************************************)
(* Reference picture lists of H.264 (src/h264/dpb.rs, clauses 8.2.4.2 and  *)
(* 8.2.4.3).  ref_pic_lists reads the stores and the picture in progress   *)
(* and changes nothing: lists are operators over the state of H264Dpb, and *)
(* the properties compare them in every state the buffer reaches with what *)
(* the clauses say.                                                        *)
(*                                                                         *)
(* An entry is <<key, parity>>, the parity None for a frame; the entry     *)
(* "no reference picture" is None.                                         *)
(***************************************************************************)
EXTENDS H264Dpb

CONSTANT Slices     \* the slices the picture in progress may have

Command == [op : {"Subtract", "Add", "LongTerm"}, value : Nat]

Slice == [type : {"P", "B"}, active : Nat \ {0}, commands : Seq(Command)]

\* The absent value is not a picture number.
ASSUME SlicesAssumption == Slices \subseteq Slice /\ None \notin Int

-----------------------------------------------------------------------------
(* Initial lists *)

\* The members of a finite set in the order R, total on it.
InOrder(S, R) ==
    [i \in 1 .. Cardinality(S) |->
       CHOOSE k \in S : Cardinality({j \in S : <<j, k>> \in R}) = i - 1]

\* The entries of a sequence at the positions in I (a filter, an iterator that
\* skips).
Only(s, I) ==
    LET order == InOrder(I, {e \in I \X I : e[1] < e[2]})
    IN  [i \in DOMAIN order |-> s[order[i]]]

\* Stable sorts over the stores in insertion order.
Ascending(keys, value) ==
    InOrder(keys, {e \in keys \X keys :
                     \/ value[e[1]] < value[e[2]]
                     \/ value[e[1]] = value[e[2]] /\ e[1] < e[2]})

Descending(keys, value) == Ascending(keys, [k \in keys |-> -value[k]])

\* PicOrderCnt() of a store: the smallest count of its decoded fields.
PicOrderCnt(s) ==
    LET top == s.fields["Top"]
        bottom == s.fields["Bottom"]
    IN  CASE top.decoded /\ bottom.decoded ->
               IF top.poc < bottom.poc THEN top.poc ELSE bottom.poc
          [] top.decoded /\ ~bottom.decoded -> top.poc
          [] ~top.decoded /\ bottom.decoded -> bottom.poc
          [] OTHER -> 0

Frames(keys) == [i \in DOMAIN keys |-> <<keys[i], None>>]

\* Frames, or stores with a field, that are references of the class.
Holding(cur, class) ==
    {k \in DOMAIN stores : IF cur = None THEN BothMarked(stores[k], class)
                           ELSE AnyMarked(stores[k], class)}

\* Inferred frames have no counts in type 0 and stay out of B lists.
ShortTermFor(sps, slice, cur) ==
    {k \in Holding(cur, "ShortTerm") :
       ~(slice.type = "B" /\ stores[k].nonExisting /\ sps.pocType = 0)}

ByFrameNumWrap(keys) ==
    Descending(keys, [k \in keys |-> FrameNumWrap(stores[k], pending.header.frameNum,
                                                  pending.maxFrameNum)])

ByPoc(keys) == Ascending(keys, [k \in keys |-> PicOrderCnt(stores[k])])

LongTermByIdx(cur) ==
    LET keys == Holding(cur, "LongTerm")
    IN  Ascending(keys, [k \in keys |-> LongTermFrameIdx(stores[k])])

\* One turn of the alternation of 8.2.4.2.5: a field of the wanted parity, or
\* of the other one when none is left, then the other's turn if it has one.
TakeField(turn) ==
    LET p == IF turn.left[turn.want] # <<>> THEN turn.want ELSE Other(turn.want)
    IN  [taken |-> Append(turn.taken, <<Head(turn.left[p]), p>>),
         left |-> [turn.left EXCEPT ![p] = Tail(@)],
         want |-> IF turn.left[Other(p)] # <<>> THEN Other(p) ELSE p]

\* The fields of a class out of an ordered list of stores.
FieldsOf(keys, p, class) ==
    Only(keys, {i \in DOMAIN keys : IsMarked(stores[keys[i]].fields[p], class)})

InterleaveFields(keys, cur, class) ==
    LET left == [p \in Parities |-> FieldsOf(keys, p, class)]
        fields == Len(left["Top"]) + Len(left["Bottom"])
        turns[i \in 0 .. fields] ==
            IF i = 0 THEN [taken |-> <<>>, left |-> left, want |-> cur]
            ELSE TakeField(turns[i - 1])
    IN  turns[fields].taken

\* Entries of ordered stores: whole frames, or fields by turns.
EntriesOf(keys, cur, class) ==
    IF cur = None THEN Frames(keys) ELSE InterleaveFields(keys, cur, class)

InitialP(sps, slice, cur) ==
    EntriesOf(ByFrameNumWrap(ShortTermFor(sps, slice, cur)), cur, "ShortTerm")
      \o EntriesOf(LongTermByIdx(cur), cur, "LongTerm")

\* Mutant of PocOrder: those before the current picture are not taken backwards.
PocOrderUpwards(sps, slice, cur, list) ==
    LET count == pending.poc.count
        all == ByPoc(ShortTermFor(sps, slice, cur))
        higher == {i \in DOMAIN all : PicOrderCnt(stores[all[i]]) > count}
        before == Only(all, (DOMAIN all) \ higher)
        after == Only(all, higher)
    IN  IF list = 0 THEN before \o after ELSE after \o before

\* The stores in the order of the counts: in list 0 those before the current
\* picture backwards and then those after it, in list 1 the other way round.
\* A frame equal to the picture comes between; for fields it counts as before.
PocOrder(sps, slice, cur, list) ==
    LET count == pending.poc.count
        all == ByPoc(ShortTermFor(sps, slice, cur))
        lower == {i \in DOMAIN all : PicOrderCnt(stores[all[i]]) < count}
        higher == {i \in DOMAIN all : PicOrderCnt(stores[all[i]]) > count}
        between == IF cur = None THEN (DOMAIN all) \ (lower \cup higher) ELSE {}
        before == Only(all, (DOMAIN all) \ (higher \cup between))
        after == Only(all, higher)
        equal == Only(all, between)
    IN  IF list = 0 THEN Reverse(before) \o equal \o after
        ELSE after \o Reverse(equal) \o Reverse(before)

InitialB(sps, slice, cur, list) ==
    EntriesOf(PocOrder(sps, slice, cur, list), cur, "ShortTerm")
      \o EntriesOf(LongTermByIdx(cur), cur, "LongTerm")

SwapFirst(s) == <<s[2], s[1]>> \o SubSeq(s, 3, Len(s))

InitLists(sps, slice) ==
    LET cur == ParityOf(pending.header.structure)
        l0 == InitialB(sps, slice, cur, 0)
        l1 == InitialB(sps, slice, cur, 1)
    IN  IF slice.type = "P" THEN <<InitialP(sps, slice, cur), <<>>>>
        ELSE <<l0, IF Len(l1) > 1 /\ l1 = l0 THEN SwapFirst(l1) ELSE l1>>

-----------------------------------------------------------------------------
(* Modification *)

\* The number an entry is matched on, None if it is not of the class.
NumberOf(k, c, class) ==
    LET cur == ParityOf(pending.header.structure)
    IN  CASE ~EntryIs(stores[k], c, class) -> None
          [] EntryIs(stores[k], c, class) /\ class = "LongTerm" ->
               LongTermPicNum(stores[k], c, cur)
          [] OTHER -> PicNum(stores[k], c, cur, pending.header.frameNum, pending.maxFrameNum)

MaxPicNum == IF IsField(pending.header.structure) THEN 2 * pending.maxFrameNum
             ELSE pending.maxFrameNum

CurrentPicNum == CurrPicNum(ParityOf(pending.header.structure), pending.header.frameNum)

\* Mutant of Predict: each command starts from the current picture again.
PredictAfresh(pred, command) ==
    LET d == command.value + 1
        next == IF command.op = "Subtract" THEN CurrentPicNum - d ELSE CurrentPicNum + d
    IN  next % MaxPicNum

\* The prediction after a short-term command (eq. 8-34, 8-35).
Predict(pred, command) ==
    LET d == command.value + 1
    IN  IF command.op = "Subtract"
        THEN IF pred - d < 0 THEN pred - d + MaxPicNum ELSE pred - d
        ELSE IF pred + d >= MaxPicNum THEN pred + d - MaxPicNum ELSE pred + d

\* The first entry with the number, or None.
Target(class, number) ==
    LET found == {e \in Entries(stores, ParityOf(pending.header.structure)) :
                    NumberOf(e[1], e[2], class) = number}
    IN  IF found = {} THEN None ELSE FirstEntry(found)

\* Is the entry the picture with the number?
Named(e, class, number) == e # None /\ NumberOf(e[1], e[2], class) = number

\* One command: the entries from idx on move up, the target enters, and what
\* follows closes up over the entries of its number (eq. 8-37, 8-38).  The
\* list has one slot to spare, cut off at the end.
Place(work, command) ==
    LET class == IF command.op = "LongTerm" THEN "LongTerm" ELSE "ShortTerm"
        pred == IF class = "LongTerm" THEN work.pred ELSE Predict(work.pred, command)
        number == CASE class = "LongTerm" -> command.value
                    [] class # "LongTerm" /\ pred > CurrentPicNum -> pred - MaxPicNum
                    [] OTHER -> pred
        moved == SubSeq(work.list, work.idx, Len(work.list) - 1)
        keeps == Only(moved, {i \in DOMAIN moved : ~Named(moved[i], class, number)})
        stale == SubSeq(moved, Len(keeps) + 1, Len(moved))
    IN  IF work.idx >= Len(work.list) THEN work
        ELSE [list |-> SubSeq(work.list, 1, work.idx - 1)
                         \o <<Target(class, number)>> \o keeps \o stale,
              pred |-> pred,
              idx |-> work.idx + 1]

\* Truncated or padded to n.
Sized(s, n) == [i \in 1 .. n |-> IF i <= Len(s) THEN s[i] ELSE None]

\* The list, the prediction and the index after each number of commands.
Works(initial, commands, n) ==
    LET works[i \in 0 .. Len(commands)] ==
            IF i = 0
            THEN [list |-> Append(Sized(initial, n), None), pred |-> CurrentPicNum, idx |-> 1]
            ELSE Place(works[i - 1], commands[i])
    IN  works

Modify(initial, commands, n) == SubSeq(Works(initial, commands, n)[Len(commands)].list, 1, n)

\* Both lists of a slice; the commands given are used for both.
RefPicLists(sps, slice) ==
    LET initial == InitLists(sps, slice)
    IN  <<Modify(initial[1], slice.commands, slice.active),
          IF slice.type = "P" THEN <<>> ELSE Modify(initial[2], slice.commands, slice.active)>>

-----------------------------------------------------------------------------
(* What the clauses say *)

\* The pictures a slice may refer to.
Usable(sps, slice) ==
    {e \in Entries(stores, ParityOf(pending.header.structure)) :
       \/ /\ EntryIs(stores[e[1]], e[2], "ShortTerm")
          /\ slice.type = "B" /\ sps.pocType = 0 => ~stores[e[1]].nonExisting
       \/ EntryIs(stores[e[1]], e[2], "LongTerm")}

\* a, b, a, b, ... until one runs out, then the rest of the other.
Alternate(a, b) ==
    LET m == IF Len(a) < Len(b) THEN Len(a) ELSE Len(b)
    IN  [i \in 1 .. Len(a) + Len(b) |->
           CASE i <= 2 * m -> IF i % 2 = 1 THEN a[(i + 1) \div 2] ELSE b[i \div 2]
             [] i > 2 * m /\ Len(a) > m -> a[i - m]
             [] OTHER -> b[i - m]]

\* What a command adds to the picture number before it.
Difference(c) == CASE c.op = "Subtract" -> -(c.value + 1)
                   [] c.op = "Add" -> c.value + 1
                   [] OTHER -> 0

\* The sum of the differences after each number of commands.
Totals(commands) ==
    LET totals[i \in 0 .. Len(commands)] ==
            IF i = 0 THEN 0 ELSE totals[i - 1] + Difference(commands[i])
    IN  totals

\* The picture number of the i-th command: the current one and the differences
\* so far, modulo MaxPicNum, among the MaxPicNum numbers up to the current one.
Meant(commands, i) ==
    IF commands[i].op = "LongTerm" THEN <<"LongTerm", commands[i].value>>
    ELSE <<"ShortTerm",
           CHOOSE v \in CurrentPicNum - MaxPicNum + 1 .. CurrentPicNum :
              (v - CurrentPicNum - Totals(commands)[i]) % MaxPicNum = 0>>

\* The named pictures in the order of the commands, then the initial list
\* without them.
ModifiedAsMeant(initial, commands, n) ==
    LET named == {Meant(commands, i) : i \in DOMAIN commands}
        targets == [i \in DOMAIN commands |->
                      Target(Meant(commands, i)[1], Meant(commands, i)[2])]
        sized == Sized(initial, n)
        rest == Only(sized, {i \in 1 .. n : \A m \in named : ~Named(sized[i], m[1], m[2])})
    IN  Sized(targets \o rest, n)

\* Conforming streams never give two references one number; the code stores
\* reference pictures of the same frame_num all the same.
DistinctNumbers ==
    \A class \in {"ShortTerm", "LongTerm"} :
       \A e, f \in Entries(stores, ParityOf(pending.header.structure)) :
          e # f /\ NumberOf(e[1], e[2], class) # None
             => NumberOf(e[1], e[2], class) # NumberOf(f[1], f[2], class)

-----------------------------------------------------------------------------
(* Safety *)

\* An initial list names every usable reference exactly once (fields of
\* half-referenced stores, inferred frames and long-term fields beside short-term
\* ones included).
NamesEveryUsable(list, sps, slice) ==
    IsInjective(list) /\ ToSet(list) = Usable(sps, slice)

IsShortTerm(e) == EntryIs(stores[e[1]], e[2], "ShortTerm")

\* Does a store come after the picture in progress in output order?
IsLater(k) == PicOrderCnt(stores[k]) > pending.poc.count

\* The clause has no place for a frame that shares its count with the current one.
SharesCount(k) ==
    ParityOf(pending.header.structure) = None /\ PicOrderCnt(stores[k]) = pending.poc.count

\* May short-term store k stand before store l?  In a P list the picture decoded
\* last comes first.  In list 0 of a B slice come the earlier pictures and then the
\* later ones, in list 1 the other way round, the nearest of either side first.
ShortTermBefore(slice, x, k, l) ==
    IF slice.type = "P"
    THEN FrameNumWrap(stores[k], pending.header.frameNum, pending.maxFrameNum)
           >= FrameNumWrap(stores[l], pending.header.frameNum, pending.maxFrameNum)
    ELSE \/ SharesCount(k) \/ SharesCount(l)
         \/ ~IsLater(k) /\ IsLater(l) /\ x = 0
         \/ IsLater(k) /\ ~IsLater(l) /\ x = 1
         \/ IsLater(k) /\ IsLater(l) /\ PicOrderCnt(stores[k]) <= PicOrderCnt(stores[l])
         \/ ~IsLater(k) /\ ~IsLater(l) /\ PicOrderCnt(stores[k]) >= PicOrderCnt(stores[l])

LongTermBefore(k, l) == LongTermFrameIdx(stores[k]) <= LongTermFrameIdx(stores[l])

\* Entries of one class, frames or fields of one parity.
Alike(e, f) == (IsShortTerm(e) <=> IsShortTerm(f)) /\ e[2] = f[2]

\* Short-term entries come before long-term ones, entries of one class and parity
\* in their order (8.2.4.2.1 to 8.2.4.2.4).
InItsOrder(list, slice, x) ==
    \A i, j \in DOMAIN list :
       i < j => /\ IsShortTerm(list[j]) => IsShortTerm(list[i])
                /\ Alike(list[i], list[j]) =>
                     IF IsShortTerm(list[i]) THEN ShortTermBefore(slice, x, list[i][1], list[j][1])
                     ELSE LongTermBefore(list[i][1], list[j][1])

\* In each class the fields of both parities take turns, the current parity first:
\* two of one parity follow each other only when the other has run out (8.2.4.2.5).
FieldsTakeTurns(list) ==
    \A i \in DOMAIN list :
       LET rest == {j \in DOMAIN list : j > i /\ (IsShortTerm(list[j]) <=> IsShortTerm(list[i]))}
       IN  /\ i + 1 \in rest /\ list[i][2] = list[i + 1][2] => \A j \in rest : list[j][2] = list[i][2]
           /\ list[i][2] # ParityOf(pending.header.structure)
              /\ (i = 1 \/ ~(IsShortTerm(list[i - 1]) <=> IsShortTerm(list[i])))
                => \A j \in rest : list[j][2] = list[i][2]

\* b is a with the first two entries exchanged.
Exchanged(a, b) ==
    /\ Len(a) = Len(b) /\ Len(a) > 1 /\ a[1] = b[2] /\ a[2] = b[1]
    /\ \A i \in 3 .. Len(a) : a[i] = b[i]

\* Is the list in the order of the clauses?
Ordered(list, slice, x) == InItsOrder(list, slice, x) /\ FieldsTakeTurns(list)

\* Each list of a slice in its order, except that lists 0 and 1 of more than one
\* entry are never the same: list 1 then has its first two exchanged (8.2.4.2.3).
ListsOrdered(lists, slice) ==
    /\ Ordered(lists[1], slice, 0)
    /\ slice.type = "B" =>
         \/ Ordered(lists[2], slice, 1) /\ (lists[1] = lists[2] => Len(lists[1]) <= 1)
         \/ Ordered(lists[1], slice, 1) /\ Exchanged(lists[1], lists[2])

\* No list names the picture in progress, and the second field of a reference
\* frame still finds its first field while that is a reference: the store they
\* share is read while the picture that will complete it decodes.
FirstFieldNotItself(lists) ==
    LET own == <<pending.key, ParityOf(pending.header.structure)>>
        first == <<pending.key, Other(own[2])>>
    IN  /\ own \notin ToSet(lists[1]) \cup ToSet(lists[2])
        /\ pending.secondField /\ pending.key \in References(stores)
             => first \in ToSet(lists[1])

\* A picture has just begun: from here to its finish_picture the lists of its slices
\* are the same, whatever calls fail in between.
HasBegun == pending # None /\ reply = [result |-> "begun"]

\* What the initial lists of a slice must be, for frames and for both fields: every
\* usable reference once, in the order of its class and parity, never the picture in
\* progress, and its own first field when it is a second field.
InitialListsAsMeant ==
    HasBegun =>
        \A sps \in SpsSet, slice \in Slices :
           LET lists == InitLists(sps, slice)
           IN  /\ \A i \in 1 .. (IF slice.type = "P" THEN 1 ELSE 2) : NamesEveryUsable(lists[i], sps, slice)
               /\ ListsOrdered(lists, slice)
               /\ FirstFieldNotItself(lists)

\* Every difference of picture numbers is below MaxPicNum, as the clause wants
\* it (7.4.3.1); the parser lets larger ones through.
DifferencesInRange(commands) ==
    \A i \in DOMAIN commands : commands[i].op = "LongTerm" \/ commands[i].value < MaxPicNum

\* Modification commands put the pictures they name first, in their order, and
\* leave the rest as it was (8.2.4.3, against the shifting loop in place, its
\* spare slot and the stale entries behind it, and the wrapped prediction).
ModificationAsMeant ==
    HasBegun /\ DistinctNumbers =>
        \A sps \in SpsSet, slice \in Slices :
           DifferencesInRange(slice.commands) =>
              LET initial == InitLists(sps, slice)
                  lists == RefPicLists(sps, slice)
              IN  \A i \in 1 .. (IF slice.type = "P" THEN 1 ELSE 2) :
                    lists[i] = ModifiedAsMeant(initial[i], slice.commands, slice.active)

=============================================================================
