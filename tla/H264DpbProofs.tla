---------------------------- MODULE H264DpbProofs ----------------------------
(***************************************************************************)
(* Proofs about H264Dpb for every set of parameter sets and headers:       *)
(* lemmas about the picture order counts of H264Poc and the marking        *)
(* operators of H264Marking, what range they stay in and what they leave   *)
(* alone; then the inductive invariant IInv, one lemma per action, and the *)
(* safety properties that follow from it.                                  *)
(***************************************************************************)
EXTENDS H264Dpb, TLAPS, WellFoundedInduction, FiniteSetTheorems

-----------------------------------------------------------------------------
(* Counting up *)

\* A set that holds zero and with each number the next one holds all up to m.
LEMMA UpTo ==
    ASSUME NEW m \in Nat, NEW P, 0 \in P,
           \A n \in 1 .. m : n - 1 \in P => n \in P
    PROVE  \A n \in 0 .. m : n \in P
  <1> DEFINE bad == {n \in 0 .. m : n \notin P}
  <1> SUFFICES ASSUME bad # {}  PROVE FALSE
    OBVIOUS
  <1>1. bad \subseteq Nat
    OBVIOUS
  <1>2. PICK k \in bad : \A j \in bad : ~ (<<j, k>> \in OpToRel(<, Nat))
    <2> HIDE DEF bad
    <2> QED
      BY <1>1, NatLessThanWellFounded, WFMin
  <1>3. k \in 1 .. m /\ k \notin P
    OBVIOUS
  <1>4. k - 1 \in 0 .. m /\ k - 1 < k /\ k - 1 \in Nat /\ k \in Nat
    BY <1>3
  <1>5. k - 1 \notin bad
    <2> HIDE DEF bad
    <2> QED
      BY <1>2, <1>4 DEF OpToRel
  <1> QED
    BY <1>3, <1>4, <1>5

-----------------------------------------------------------------------------
(* Picture order counts *)

\* A wrapped value is in range.
LEMMA WrapInRange ==
    ASSUME NEW v \in Int
    PROVE  Wrap(v) \in PocRange
  <1> DEFINE n == 2 * PocLimit
  <1>1. n \in Nat \ {0}
    BY PocLimitAssumption
  <1>2. (v + PocLimit) \in Int
    BY PocLimitAssumption
  <1> HIDE DEF n
  <1>3. \A a \in Int : a % n \in 0 .. n - 1
    BY <1>1
  <1>4. (v + PocLimit) % n \in 0 .. n - 1
    BY <1>2, <1>3
  <1> QED
    BY <1>4, PocLimitAssumption DEF Wrap, PocRange, n

\* Counts within the range of their parts are a Poc.
LEMMA CheckedType ==
    ASSUME NEW top, NEW bottom, NEW msb \in PocRange, NEW offset \in PocRange,
           NEW structure \in Structures,
           Checked(top, bottom, msb, offset, structure) # None
    PROVE  Checked(top, bottom, msb, offset, structure) \in Poc
  BY PocLimitAssumption
     DEF Checked, WithStructure, Fits, Poc, PocRange, Structures

\* A derivation that does not fail yields counts in range.
LEMMA DeriveType ==
    ASSUME NEW ps \in PocState, NEW sps, NEW h,
           h.structure \in Structures,
           Derive(ps, sps, h) # None
    PROVE  Derive(ps, sps, h) \in Poc
  <1>0. 0 \in PocRange
    BY PocLimitAssumption DEF PocRange
  <1>1. CASE sps.pocType = 0
    <2>1. Derive(ps, sps, h) = Type0(ps, sps, h)
      BY <1>1 DEF Derive
    <2> QED
      BY <1>0, <2>1, CheckedType DEF Type0, Fits
  <1>2. CASE sps.pocType = 1
    <2>1. Derive(ps, sps, h) = Type1(ps, sps, h)
      BY <1>2 DEF Derive
    <2> QED
      BY <1>0, <2>1, CheckedType DEF Type1, Fits
  <1>3. CASE sps.pocType = 2
    <2>1. Derive(ps, sps, h) = Type2(ps, sps, h)
      BY <1>3 DEF Derive
    <2> QED
      BY <1>0, <2>1, CheckedType DEF Type2, Fits
  <1>4. CASE sps.pocType \notin {0, 1, 2}
    BY <1>4 DEF Derive
  <1> QED
    BY <1>1, <1>2, <1>3, <1>4

\* The adjusted counts of operation 5 are in range.
LEMMA AfterMmco5Type ==
    ASSUME NEW counts \in Poc, NEW structure \in Structures
    PROVE  AfterMmco5(counts, structure) \in Poc
  <1>1. /\ counts.top \in Int /\ counts.bottom \in Int /\ counts.count \in Int
    BY PocLimitAssumption DEF Poc, PocRange
  <1> DEFINE t == Wrap(counts.top - counts.count)
             b == Wrap(counts.bottom - counts.count)
             c == CASE structure = "TopField" -> t
                    [] structure = "BottomField" -> b
                    [] OTHER -> IF t < b THEN t ELSE b
  <1>2. t \in PocRange /\ b \in PocRange
    BY <1>1, WrapInRange
  <1>3. c \in PocRange
    <2> HIDE DEF t, b
    <2> QED  BY <1>2 DEF Structures
  <1>4. AfterMmco5(counts, structure)
          = [counts EXCEPT !.top = t, !.bottom = b, !.count = c]
    BY DEF AfterMmco5
  <1> HIDE DEF t, b, c
  <1> QED
    BY <1>2, <1>3, <1>4 DEF Poc

\* The state a picture leaves is in range.
LEMMA FinishPocType ==
    ASSUME NEW ps \in PocState, NEW sps, NEW h,
           h.structure \in Structures, h.frameNum \in Nat, h.lsb \in PocRange,
           NEW counts \in Poc, NEW mmco5 \in BOOLEAN
    PROVE  FinishPoc(ps, sps, h, counts, mmco5) \in PocState
  <1>2. AfterMmco5(counts, h.structure).top \in PocRange
    BY AfterMmco5Type DEF Poc
  <1>3. 0 \in PocRange
    BY PocLimitAssumption DEF PocRange
  <1> QED
    BY <1>2, <1>3 DEF FinishPoc, PocState, Poc

-----------------------------------------------------------------------------
(* Operators on the stores *)

\* The parts of a store.
LEMMA StoreParts ==
    ASSUME NEW st, AreStores(st), NEW k \in DOMAIN st
    PROVE  /\ k \in Nat
           /\ st[k] \in FrameStore
           /\ st[k].fields \in [Parities -> FieldState]
           /\ st[k].frameNum \in Nat
           /\ \A p \in Parities : st[k].fields[p] \in FieldState
  BY DEF AreStores, FrameStore

\* What unmarking and assigning an index do to one field.
LEMMA AsUnusedField ==
    ASSUME NEW f \in FieldState
    PROVE  /\ AsUnused(f) \in FieldState
           /\ AsUnused(f).marking = "Unused"
           /\ AsUnused(f).decoded = f.decoded
           /\ AsUnused(f).poc = f.poc
           /\ AsUnused(f).longTermFrameIdx = f.longTermFrameIdx
  <1>1. AsUnused(f) \in FieldState
    BY DEF FieldState, Markings, AsUnused
  <1> QED
    BY <1>1 DEF FieldState, AsUnused

\* What giving a field an index does to it.
LEMMA AsLongTermField ==
    ASSUME NEW f \in FieldState, NEW idx \in Nat
    PROVE  /\ AsLongTerm(f, idx) \in FieldState
           /\ AsLongTerm(f, idx).marking = "LongTerm"
           /\ AsLongTerm(f, idx).decoded = f.decoded
           /\ AsLongTerm(f, idx).poc = f.poc
           /\ AsLongTerm(f, idx).longTermFrameIdx = idx
  <1>1. AsLongTerm(f, idx) \in FieldState
    BY DEF FieldState, Markings, AsLongTerm
  <1> QED
    BY <1>1 DEF FieldState, AsLongTerm

\* Unmarking keeps the stores and changes nothing but the markings it names.
LEMMA UnmarkType ==
    ASSUME NEW st, AreStores(st), NEW dropped
    PROVE  /\ AreStores(Unmark(st, dropped))
           /\ DOMAIN Unmark(st, dropped) = DOMAIN st
           /\ \A k \in DOMAIN st :
                /\ Unmark(st, dropped)[k].frameNum = st[k].frameNum
                /\ Unmark(st, dropped)[k].codedFrame = st[k].codedFrame
                /\ Unmark(st, dropped)[k].nonExisting = st[k].nonExisting
                /\ \A p \in Parities :
                     Unmark(st, dropped)[k].fields[p] =
                       IF <<k, p>> \in dropped THEN AsUnused(st[k].fields[p])
                       ELSE st[k].fields[p]
  <1>1. DOMAIN Unmark(st, dropped) = DOMAIN st
    BY DEF Unmark
  <1> DEFINE F(k) == [p \in Parities |->
                        IF <<k, p>> \in dropped THEN AsUnused(st[k].fields[p])
                        ELSE st[k].fields[p]]
  <1>2. \A k \in DOMAIN st : F(k) \in [Parities -> FieldState]
    BY StoreParts, AsUnusedField
  <1> DEFINE G(k) == [st[k] EXCEPT !.fields = F(k)]
  <1>3. Unmark(st, dropped) = [k \in DOMAIN st |-> G(k)]
    BY DEF Unmark
  <1>4. \A k \in DOMAIN st : \A p \in Parities :
           F(k)[p] = IF <<k, p>> \in dropped THEN AsUnused(st[k].fields[p])
                     ELSE st[k].fields[p]
    OBVIOUS
  <1> HIDE DEF F
  <1>5. \A k \in DOMAIN st :
           /\ G(k) \in FrameStore
           /\ G(k).frameNum = st[k].frameNum
           /\ G(k).codedFrame = st[k].codedFrame
           /\ G(k).nonExisting = st[k].nonExisting
           /\ G(k).fields = F(k)
    BY <1>2, StoreParts DEF FrameStore
  <1> HIDE DEF G
  <1> QED
    BY <1>1, <1>3, <1>4, <1>5 DEF AreStores

\* Assigning an index marks the chosen fields and touches no other.
LEMMA AssignType ==
    ASSUME NEW st, AreStores(st), NEW chosen, NEW idx \in Nat
    PROVE  /\ AreStores(AssignLongTerm(st, chosen, idx))
           /\ DOMAIN AssignLongTerm(st, chosen, idx) = DOMAIN st
           /\ \A k \in DOMAIN st :
                /\ AssignLongTerm(st, chosen, idx)[k].frameNum = st[k].frameNum
                /\ AssignLongTerm(st, chosen, idx)[k].codedFrame = st[k].codedFrame
                /\ AssignLongTerm(st, chosen, idx)[k].nonExisting = st[k].nonExisting
                /\ \A p \in Parities :
                     AssignLongTerm(st, chosen, idx)[k].fields[p] =
                       IF <<k, p>> \in chosen THEN AsLongTerm(st[k].fields[p], idx)
                       ELSE st[k].fields[p]
  <1>1. DOMAIN AssignLongTerm(st, chosen, idx) = DOMAIN st
    BY DEF AssignLongTerm
  <1> DEFINE F(k) == [p \in Parities |->
                        IF <<k, p>> \in chosen THEN AsLongTerm(st[k].fields[p], idx)
                        ELSE st[k].fields[p]]
  <1>2. \A k \in DOMAIN st : F(k) \in [Parities -> FieldState]
    BY StoreParts, AsLongTermField
  <1> DEFINE G(k) == [st[k] EXCEPT !.fields = F(k)]
  <1>3. AssignLongTerm(st, chosen, idx) = [k \in DOMAIN st |-> G(k)]
    BY DEF AssignLongTerm
  <1>4. \A k \in DOMAIN st : \A p \in Parities :
           F(k)[p] = IF <<k, p>> \in chosen THEN AsLongTerm(st[k].fields[p], idx)
                     ELSE st[k].fields[p]
    OBVIOUS
  <1> HIDE DEF F
  <1>5. \A k \in DOMAIN st :
           /\ G(k) \in FrameStore
           /\ G(k).frameNum = st[k].frameNum
           /\ G(k).codedFrame = st[k].codedFrame
           /\ G(k).nonExisting = st[k].nonExisting
           /\ G(k).fields = F(k)
    BY <1>2, StoreParts DEF FrameStore
  <1> HIDE DEF G
  <1> QED
    BY <1>1, <1>3, <1>4, <1>5 DEF AreStores

\* st2 is st with some fields unmarked.
Unmarks(st, st2) ==
    /\ AreStores(st2)
    /\ DOMAIN st2 = DOMAIN st
    /\ \A k \in DOMAIN st :
         /\ st2[k].frameNum = st[k].frameNum
         /\ st2[k].codedFrame = st[k].codedFrame
         /\ st2[k].nonExisting = st[k].nonExisting
         /\ \A p \in Parities :
              \/ st2[k].fields[p] = st[k].fields[p]
              \/ /\ st2[k].fields[p].marking = "Unused"
                 /\ st2[k].fields[p].decoded = st[k].fields[p].decoded
                 /\ st2[k].fields[p].poc = st[k].fields[p].poc

\* st2 is st with some fields unmarked and some short-term ones made long-term.
Remarks(st, st2) ==
    /\ AreStores(st2)
    /\ DOMAIN st2 = DOMAIN st
    /\ \A k \in DOMAIN st :
         /\ st2[k].frameNum = st[k].frameNum
         /\ st2[k].codedFrame = st[k].codedFrame
         /\ st2[k].nonExisting = st[k].nonExisting
         /\ \A p \in Parities :
              LET f == st[k].fields[p]
                  g == st2[k].fields[p]
              IN  /\ g.decoded = f.decoded
                  /\ g.poc = f.poc
                  /\ \/ g = f
                     \/ g.marking = "Unused"
                     \/ g.marking = "LongTerm" /\ f.marking # "Unused"

\* Unmarking is a special case of what commands do.
LEMMA UnmarksIsRemarks ==
    ASSUME NEW st, NEW st2, Unmarks(st, st2)
    PROVE  Remarks(st, st2)
  BY DEF Unmarks, Remarks

\* Unmark only unmarks, whatever it is given.
LEMMA UnmarkUnmarks ==
    ASSUME NEW st, AreStores(st), NEW dropped
    PROVE  Unmarks(st, Unmark(st, dropped))
  <1> DEFINE new == Unmark(st, dropped)
  <1>1. /\ AreStores(new)
        /\ DOMAIN new = DOMAIN st
        /\ \A k \in DOMAIN st :
             /\ new[k].frameNum = st[k].frameNum
             /\ new[k].codedFrame = st[k].codedFrame
             /\ new[k].nonExisting = st[k].nonExisting
    BY UnmarkType
  <1>2. ASSUME NEW k \in DOMAIN st, NEW p \in Parities
        PROVE  \/ new[k].fields[p] = st[k].fields[p]
               \/ /\ new[k].fields[p].marking = "Unused"
                  /\ new[k].fields[p].decoded = st[k].fields[p].decoded
                  /\ new[k].fields[p].poc = st[k].fields[p].poc
    <2>1. new[k].fields[p] = IF <<k, p>> \in dropped THEN AsUnused(st[k].fields[p])
                             ELSE st[k].fields[p]
      BY UnmarkType
    <2>2. st[k].fields[p] \in FieldState
      BY StoreParts
    <2> HIDE DEF new
    <2> QED
      BY <2>1, <2>2, AsUnusedField
  <1> HIDE DEF new
  <1> QED
    BY <1>1, <1>2 DEF Unmarks, new

\* The sliding window only unmarks.
LEMMA SlidingWindowUnmarks ==
    ASSUME NEW st, AreStores(st), NEW sps, NEW frameNum, NEW max, NEW second
    PROVE  Unmarks(st, SlidingWindow(st, sps, frameNum, max, second))
  <1>1. Unmarks(st, st)
    BY DEF Unmarks
  <1> QED
    BY <1>1, UnmarkUnmarks DEF SlidingWindow

\* The capacity safety net only unmarks.
LEMMA EnforceCapacityUnmarks ==
    ASSUME NEW st, AreStores(st), NEW sps, NEW frameNum, NEW max
    PROVE  Unmarks(st, EnforceCapacity(st, sps, frameNum, max))
  BY UnmarkUnmarks DEF EnforceCapacity

\* The entry find() returns is one of those it looked for.
LEMMA FirstEntryFound ==
    ASSUME NEW st, AreStores(st), NEW cur \in Parities \cup {None},
           NEW found, found \subseteq Entries(st, cur), found # {}
    PROVE  FirstEntry(found) \in found
  <1> DEFINE ks == {e[1] : e \in found}
             R == OpToRel(<, Nat)
  <1>1. ks \subseteq Nat /\ ks # {}
    BY DEF Entries, AreStores
  <1> HIDE DEF ks
  <1>2. PICK k \in ks : \A j \in ks : k <= j
    <2>1. PICK k \in ks : \A j \in ks : <<j, k>> \notin R
      BY <1>1, NatLessThanWellFounded, WFMin
    <2>2. \A j \in Nat : j < k => <<j, k>> \in R
      <3>1. R = {ss \in Nat \X Nat : ss[1] < ss[2]}
        BY DEF OpToRel
      <3> HIDE DEF R
      <3>2. ASSUME NEW j \in Nat, j < k  PROVE  <<j, k>> \in R
        <4>1. <<j, k>> \in Nat \X Nat /\ <<j, k>>[1] = j /\ <<j, k>>[2] = k
          BY <1>1
        <4> QED
          BY <3>1, <3>2, <4>1
      <3> QED
        BY <3>2
    <2> HIDE DEF R
    <2>3. ASSUME NEW j \in ks  PROVE  k <= j
      <3>1. j \in Nat /\ k \in Nat /\ ~(j < k)
        BY <1>1, <2>1, <2>2
      <3> QED
        BY <3>1
    <2> QED
      BY <2>3
  <1>3. PICK e \in found : e[1] = k
    BY <1>2 DEF ks
  <1>4. \A f \in found : f[1] \in Nat /\ f[1] >= k /\ f[2] \in Parities \cup {None}
    BY <1>1, <1>2 DEF Entries, ks
  <1>5. \E m \in found : \A f \in found :
           m[1] < f[1] \/ (m[1] = f[1] /\ (m[2] = f[2] \/ m[2] = "Top"))
    <2>1. CASE cur = None
      <3>1. \A f \in found : f[2] = None
        BY <2>1 DEF Entries
      <3> QED
        BY <1>1, <1>3, <1>4, <3>1
    <2>2. CASE cur # None
      <3>1. \A f \in found : f[2] \in {"Top", "Bottom"}
        BY <2>2 DEF Entries, Parities
      <3>2. CASE \E t \in found : t[1] = k /\ t[2] = "Top"
        BY <1>1, <1>2, <1>4, <3>2
      <3>3. CASE \A t \in found : t[1] = k => t[2] # "Top"
        BY <1>1, <1>2, <1>3, <1>4, <3>1, <3>3
      <3> QED
        BY <3>2, <3>3
    <2> QED
      BY <2>1, <2>2
  <1> QED
    BY <1>5 DEF FirstEntry

\* Operation 3 makes long-term only fields that were short-term.
LEMMA AssignRemarks ==
    ASSUME NEW st, AreStores(st), NEW op \in MmcoOp,
           NEW cur \in Parities \cup {None}, NEW frameNum, NEW max
    PROVE  Remarks(st, AssignShortTermToLong(st, op, cur, frameNum, max))
  <1> DEFINE found == ShortTermEntries(st, cur, frameNum, max,
                                       CurrPicNum(cur, frameNum) - (op.diff + 1))
             target == FirstEntry(found)
             spare == IF cur # None /\ found # {} THEN target[1] ELSE None
             freed == EvictLongTermIdx(st, op.idx, spare)
             long == AssignLongTerm(freed, EntryFields(target), op.idx)
  <1>1. AssignShortTermToLong(st, op, cur, frameNum, max)
          = IF found = {} THEN freed ELSE long
    BY DEF AssignShortTermToLong
  <1>2. Unmarks(st, freed)
    BY UnmarkUnmarks DEF EvictLongTermIdx
  <1>3. op.idx \in Nat
    BY DEF MmcoOp
  <1>4. ASSUME found # {}
        PROVE  Remarks(st, long)
    <2>1. target \in found
      <3>1. found \subseteq Entries(st, cur)
        BY DEF ShortTermEntries
      <3> HIDE DEF found
      <3> QED
        BY <1>4, <3>1, FirstEntryFound
    <2>2. /\ target[1] \in DOMAIN st
          /\ \A p \in Parities : <<target[1], p>> \in EntryFields(target)
               => st[target[1]].fields[p].marking = "ShortTerm"
      <3>1. /\ target[1] \in DOMAIN st
            /\ EntryIs(st[target[1]], target[2], "ShortTerm")
        BY <2>1 DEF ShortTermEntries, Entries
      <3> HIDE DEF target
      <3> QED
        BY <3>1 DEF EntryIs, EntryFields, BothMarked, IsMarked
    <2>3. \A k, p : <<k, p>> \in EntryFields(target) => k = target[1]
      BY DEF EntryFields
    <2> HIDE DEF found, target, spare, freed
    <2>4. AreStores(freed) /\ DOMAIN freed = DOMAIN st
      BY <1>2 DEF Unmarks
    <2>5. /\ AreStores(long)
          /\ DOMAIN long = DOMAIN st
          /\ \A k \in DOMAIN st :
               /\ long[k].frameNum = st[k].frameNum
               /\ long[k].codedFrame = st[k].codedFrame
               /\ long[k].nonExisting = st[k].nonExisting
      BY <1>2, <1>3, <2>4, AssignType DEF Unmarks
    <2>6. ASSUME NEW k \in DOMAIN st, NEW p \in Parities
          PROVE  LET f == st[k].fields[p]
                     g == long[k].fields[p]
                 IN  /\ g.decoded = f.decoded
                     /\ g.poc = f.poc
                     /\ \/ g = f
                        \/ g.marking = "Unused"
                        \/ g.marking = "LongTerm" /\ f.marking # "Unused"
      <3>1. long[k].fields[p] = IF <<k, p>> \in EntryFields(target)
                                THEN AsLongTerm(freed[k].fields[p], op.idx)
                                ELSE freed[k].fields[p]
        BY <1>3, <2>4, AssignType
      <3>2. /\ freed[k].fields[p].decoded = st[k].fields[p].decoded
            /\ freed[k].fields[p].poc = st[k].fields[p].poc
            /\ \/ freed[k].fields[p] = st[k].fields[p]
               \/ freed[k].fields[p].marking = "Unused"
        BY <1>2 DEF Unmarks
      <3>3. freed[k].fields[p] \in FieldState
        BY <2>4, StoreParts
      <3>4. CASE <<k, p>> \in EntryFields(target)
        <4>1. st[k].fields[p].marking = "ShortTerm"
          BY <2>2, <2>3, <3>4
        <4> HIDE DEF long
        <4>2. long[k].fields[p] = AsLongTerm(freed[k].fields[p], op.idx)
          BY <3>1, <3>4
        <4>3. /\ long[k].fields[p].marking = "LongTerm"
              /\ long[k].fields[p].decoded = freed[k].fields[p].decoded
              /\ long[k].fields[p].poc = freed[k].fields[p].poc
          BY <1>3, <3>3, <4>2, AsLongTermField
        <4> QED
          BY <3>2, <4>1, <4>3
      <3>5. CASE <<k, p>> \notin EntryFields(target)
        <4> HIDE DEF long
        <4> QED
          BY <3>1, <3>2, <3>5
      <3> QED
        BY <3>4, <3>5
    <2> HIDE DEF long
    <2> QED
      BY <2>5, <2>6 DEF Remarks
  <1> HIDE DEF found, freed, long
  <1> QED
    BY <1>1, <1>2, <1>4, UnmarksIsRemarks

\* One command of memory management, whatever it is.
LEMMA ApplyMmcoRemarks ==
    ASSUME NEW st, AreStores(st), NEW op \in MmcoOp,
           NEW cur \in Parities \cup {None}, NEW frameNum, NEW max, NEW spare
    PROVE  Remarks(st, ApplyMmco(st, op, cur, frameNum, max, spare))
  <1> DEFINE result == ApplyMmco(st, op, cur, frameNum, max, spare)
  <1>0. op.code \in 1 .. 6
    BY DEF MmcoOp
  <1>1. Unmarks(st, st)
    BY DEF Unmarks
  <1>2. \A dropped : Unmarks(st, Unmark(st, dropped))
    BY UnmarkUnmarks
  <1>3. CASE op.code = 1
    <2>1. result = MarkShortTermUnused(st, op, cur, frameNum, max)
      BY <1>3 DEF ApplyMmco
    <2> QED
      BY <1>1, <1>2, <2>1, UnmarksIsRemarks DEF MarkShortTermUnused
  <1>4. CASE op.code = 2
    <2>1. result = MarkLongTermUnused(st, op, cur)
      BY <1>4 DEF ApplyMmco
    <2> QED
      BY <1>1, <1>2, <2>1, UnmarksIsRemarks DEF MarkLongTermUnused
  <1>5. CASE op.code = 3
    <2>1. result = AssignShortTermToLong(st, op, cur, frameNum, max)
      BY <1>5 DEF ApplyMmco
    <2> QED
      BY <2>1, AssignRemarks
  <1>6. CASE op.code = 4
    <2>1. result = Unmark(st, FromIdxOn(st, op.idx))
      BY <1>6 DEF ApplyMmco, SetMaxLongTermFrameIdx
    <2> QED
      BY <1>2, <2>1, UnmarksIsRemarks
  <1>7. CASE op.code = 5
    <2>1. result = Unmark(st, AllFields(st))
      BY <1>7 DEF ApplyMmco
    <2> QED
      BY <1>2, <2>1, UnmarksIsRemarks
  <1>8. CASE op.code = 6
    <2>1. result = Unmark(st, HoldersOfIdx(st, op.idx, spare))
      BY <1>8 DEF ApplyMmco, EvictLongTermIdx
    <2> QED
      BY <1>2, <2>1, UnmarksIsRemarks
  <1> QED
    BY <1>0, <1>3, <1>4, <1>5, <1>6, <1>7, <1>8

-----------------------------------------------------------------------------
(* Victims by rank *)

\* Of a finite set in a strict order, the elements with e others before them are fewer
\* than the whole by e: the first of them has its e predecessors outside.
Before(S, R, k) == {j \in S : <<j, k>> \in R}

LEMMA RankedFew ==
    ASSUME NEW S, IsFiniteSet(S), NEW R, NEW e \in Int,
           \A j \in S : <<j, j>> \notin R,
           \A i, j, k \in S : <<i, j>> \in R /\ <<j, k>> \in R => <<i, k>> \in R
    PROVE  LET left == S \ {k \in S : Cardinality(Before(S, R, k)) < e}
           IN  /\ left \in SUBSET S /\ IsFiniteSet(left)
               /\ left = {} \/ Cardinality(left) <= Cardinality(S) - e
  <1> DEFINE left == S \ {k \in S : Cardinality(Before(S, R, k)) < e}
             rank(k) == Cardinality(Before(S, R, k))
  <1>1. left \in SUBSET S /\ IsFiniteSet(left) /\ Cardinality(S) \in Nat /\ Cardinality(left) \in Nat
    BY FS_Subset, FS_CardinalityType
  <1>2. \A k \in S : Before(S, R, k) \in SUBSET S /\ IsFiniteSet(Before(S, R, k)) /\ rank(k) \in Nat
    BY FS_Subset, FS_CardinalityType DEF Before
  <1>3. ASSUME left # {}
        PROVE  Cardinality(left) <= Cardinality(S) - e
    <2> DEFINE ranks == {rank(k) : k \in left}
    <2>1. ranks \subseteq Nat /\ ranks # {}
      BY <1>1, <1>2, <1>3
    <2>2. \E r \in ranks : \A q \in ranks : ~ (<<q, r>> \in OpToRel(<, Nat))
      BY <2>1, NatLessThanWellFounded, WFMin
    <2>3. PICK k0 \in left : \A q \in ranks : ~ (<<q, rank(k0)>> \in OpToRel(<, Nat))
      BY <2>2
    <2>4. \A k \in left : ~(rank(k) < rank(k0))
      BY <1>1, <1>2, <2>3 DEF OpToRel
    <2>5. ASSUME NEW k \in left, <<k, k0>> \in R
          PROVE  FALSE
      <3>1. k \in S /\ k0 \in S
        BY <1>1
      <3>2. Before(S, R, k) \subseteq Before(S, R, k0) /\ k \in Before(S, R, k0) /\ k \notin Before(S, R, k)
        BY <2>5, <3>1 DEF Before
      <3>3. rank(k) <= rank(k0) /\ rank(k) # rank(k0)
        BY <1>2, <3>1, <3>2, FS_Subset
      <3> QED
        BY <1>2, <2>4, <3>1, <3>3
    <2>6. left \subseteq S \ Before(S, R, k0)
      BY <1>1, <2>5 DEF Before
    <2>7. IsFiniteSet(S \ Before(S, R, k0))
          /\ Cardinality(S \ Before(S, R, k0)) = Cardinality(S) - Cardinality(Before(S, R, k0))
      <3>1. Before(S, R, k0) \in SUBSET S /\ S \cap Before(S, R, k0) = Before(S, R, k0)
        BY <1>1, <1>2
      <3> QED
        BY <3>1, FS_Difference
    <2>8. Cardinality(left) <= Cardinality(S \ Before(S, R, k0))
      BY <2>6, <2>7, FS_Subset
    <2>9. ~(rank(k0) < e) /\ rank(k0) \in Nat
      BY <1>1, <1>2
    <2> QED
      BY <1>1, <2>7, <2>8, <2>9
  <1> QED
    BY <1>1, <1>3

\* The orders of the window and of the safety net are strict.
OlderThan(st, frameNum, max) == {e \in Nat \X Nat : Older(st, frameNum, max, e[1], e[2])}
DroppedBefore(st, frameNum, max) == {e \in Nat \X Nat : DropsBefore(st, frameNum, max, e[1], e[2])}

LEMMA OlderStrict ==
    ASSUME NEW st, AreStores(st), NEW frameNum \in Nat, NEW max \in Nat
    PROVE  /\ \A j \in DOMAIN st : ~Older(st, frameNum, max, j, j)
           /\ \A i, j, k \in DOMAIN st :
                Older(st, frameNum, max, i, j) /\ Older(st, frameNum, max, j, k) => Older(st, frameNum, max, i, k)
  <1> DEFINE W(k) == FrameNumWrap(st[k], frameNum, max)
  <1>1. \A k \in DOMAIN st : k \in Nat /\ W(k) \in Int
    BY StoreParts DEF FrameNumWrap
  <1>2. \A j, k \in DOMAIN st : Older(st, frameNum, max, j, k) <=> W(j) < W(k) \/ (W(j) = W(k) /\ j < k)
    BY DEF Older
  <1> HIDE DEF W
  <1> QED
    BY <1>1, <1>2

LEMMA DropsStrict ==
    ASSUME NEW st, AreStores(st), NEW frameNum \in Nat, NEW max \in Nat
    PROVE  /\ \A j \in DOMAIN st : ~DropsBefore(st, frameNum, max, j, j)
           /\ \A i, j, k \in DOMAIN st :
                DropsBefore(st, frameNum, max, i, j) /\ DropsBefore(st, frameNum, max, j, k)
                  => DropsBefore(st, frameNum, max, i, k)
  <1> DEFINE long == Holders(st, "LongTerm")
             idx(k) == LongTermFrameIdx(st[k])
  <1>1. \A k \in DOMAIN st : k \in Nat /\ idx(k) \in Nat
    BY StoreParts DEF LongTermFrameIdx, FieldState, Parities
  <1>2. \A j, k \in DOMAIN st : DropsBefore(st, frameNum, max, j, k) <=>
           \/ j \notin long /\ k \in long
           \/ j \notin long /\ k \notin long /\ Older(st, frameNum, max, j, k)
           \/ j \in long /\ k \in long /\ (idx(j) > idx(k) \/ (idx(j) = idx(k) /\ j > k))
    BY DEF DropsBefore
  <1> HIDE DEF long, idx
  <1> QED
    BY <1>1, <1>2, OlderStrict

-----------------------------------------------------------------------------
(* The picture joins the stores *)

\* The parts of a header and the parity its structure names.
LEMMA HeaderParts ==
    ASSUME NEW h \in Headers
    PROVE  /\ h \in Header
           /\ h.idr \in BOOLEAN /\ h.reference \in BOOLEAN /\ h.frameNum \in Nat
           /\ h.structure \in Structures
           /\ h.idr => h.reference
           /\ h.mmco \in Seq(MmcoOp)
           /\ ParityOf(h.structure) \in Parities \cup {None}
           /\ IsField(h.structure) => ParityOf(h.structure) \in Parities
           /\ ~IsField(h.structure) => ParityOf(h.structure) = None
  <1>1. h \in Header /\ (h.idr => h.reference)
    BY InputsAssumption
  <1>2. h.structure \in Structures
    BY <1>1 DEF Header
  <1>3. /\ ParityOf(h.structure) \in Parities \cup {None}
        /\ IsField(h.structure) => ParityOf(h.structure) \in Parities
        /\ ~IsField(h.structure) => ParityOf(h.structure) = None
    BY <1>2 DEF ParityOf, IsField, Structures, Parities
  <1> QED
    BY <1>1, <1>2, <1>3 DEF Header

\* The parts of a picture in progress.
LEMMA CurrentParts ==
    ASSUME NEW cur \in CurrentPicture
    PROVE  /\ cur.key \in Nat /\ cur.poc \in Poc /\ cur.secondField \in BOOLEAN
           /\ cur.header \in Headers /\ cur.maxFrameNum \in Nat \ {0}
  BY DEF CurrentPicture

\* A field the picture brings is decoded, and long-term exactly when the
\* picture was given an index.
LEMMA OwnFieldType ==
    ASSUME NEW h \in Headers, NEW p \in Parities, NEW counts \in Poc,
           NEW long \in Nat \cup {None}
    PROVE  /\ OwnField(h, p, counts, long) \in FieldState
           /\ OwnField(h, p, counts, long).decoded
           /\ OwnField(h, p, counts, long).marking =
                (IF ~h.reference THEN "Unused"
                 ELSE IF long = None THEN "ShortTerm" ELSE "LongTerm")
           /\ long # None => OwnField(h, p, counts, long).longTermFrameIdx = long
  <1>1. counts.top \in PocRange /\ counts.bottom \in PocRange
    BY DEF Poc
  <1> QED
    BY <1>1 DEF OwnField, FieldState, Markings

\* The store a picture opens holds its own fields and nothing else.
LEMMA NewStoreType ==
    ASSUME NEW h \in Headers, NEW counts \in Poc, NEW long \in Nat \cup {None},
           NEW mmco5 \in BOOLEAN
    PROVE  LET s == NewStore(h, counts, long, mmco5)
           IN  /\ s \in FrameStore
               /\ \A p \in Parities :
                    s.fields[p] = (IF IsField(h.structure) /\ p # ParityOf(h.structure)
                                   THEN EmptyField ELSE OwnField(h, p, counts, long))
               /\ s.codedFrame = ~IsField(h.structure)
               /\ ~s.nonExisting
  <1> DEFINE F == OwnFields(h, counts, long)
  <1>1. EmptyField \in FieldState
    BY PocLimitAssumption DEF EmptyField, FieldState, Markings, PocRange
  <1>2. /\ F \in [Parities -> FieldState]
        /\ \A p \in Parities :
             F[p] = (IF IsField(h.structure) /\ p # ParityOf(h.structure)
                     THEN EmptyField ELSE OwnField(h, p, counts, long))
    BY <1>1, OwnFieldType DEF OwnFields
  <1>3. h.frameNum \in Nat
    BY HeaderParts
  <1>4. IsField(h.structure) \in BOOLEAN
    BY DEF IsField
  <1> HIDE DEF F
  <1> QED
    BY <1>2, <1>3, <1>4 DEF NewStore, FrameStore, F

\* A second field changes its own parity, and the index of a long-term other.
LEMMA JoinFieldsType ==
    ASSUME NEW s \in FrameStore, NEW p \in Parities, NEW field \in FieldState,
           NEW long \in Nat \cup {None}
    PROVE  LET t == JoinFields(s, p, field, long)
           IN  /\ t \in FrameStore
               /\ t.frameNum = s.frameNum
               /\ t.codedFrame = s.codedFrame
               /\ t.nonExisting = s.nonExisting
               /\ \A q \in Parities :
                    t.fields[q] = (IF q = p THEN field
                                   ELSE IF long # None /\ IsMarked(s.fields[q], "LongTerm")
                                        THEN AsLongTerm(s.fields[q], long)
                                        ELSE s.fields[q])
  <1> DEFINE F == [q \in Parities |->
                     IF q = p THEN field
                     ELSE IF long # None /\ IsMarked(s.fields[q], "LongTerm")
                          THEN AsLongTerm(s.fields[q], long)
                          ELSE s.fields[q]]
  <1>1. \A q \in Parities : s.fields[q] \in FieldState
    BY DEF FrameStore
  <1>2. \A q \in Parities : long # None => AsLongTerm(s.fields[q], long) \in FieldState
    BY <1>1, AsLongTermField
  <1>3. F \in [Parities -> FieldState]
    BY <1>1, <1>2
  <1>4. JoinFields(s, p, field, long) = [s EXCEPT !.fields = F]
    BY DEF JoinFields
  <1>5. \A q \in Parities :
          F[q] = (IF q = p THEN field
                  ELSE IF long # None /\ IsMarked(s.fields[q], "LongTerm")
                       THEN AsLongTerm(s.fields[q], long)
                       ELSE s.fields[q])
    OBVIOUS
  <1> HIDE DEF F
  <1> QED
    BY <1>3, <1>4, <1>5 DEF FrameStore

\* What Insert does, store by store.
LEMMA InsertType ==
    ASSUME NEW st, AreStores(st), NEW cur \in CurrentPicture, NEW counts \in Poc,
           NEW long \in Nat \cup {None}, NEW mmco5 \in BOOLEAN,
           cur.secondField => IsField(cur.header.structure)
    PROVE  LET ins == Insert(st, cur, counts, long, mmco5)
               h == cur.header
               p == ParityOf(h.structure)
           IN  /\ AreStores(ins)
               /\ DOMAIN ins = (IF h.reference THEN DOMAIN st \cup {cur.key} ELSE DOMAIN st)
               /\ \A k \in DOMAIN st : k # cur.key \/ ~h.reference => ins[k] = st[k]
               /\ h.reference /\ cur.key \in DOMAIN st /\ cur.secondField =>
                    ins[cur.key] =
                      JoinFields(st[cur.key], p, OwnField(h, p, counts, long), long)
               /\ h.reference /\ ~(cur.key \in DOMAIN st /\ cur.secondField) =>
                    ins[cur.key] = NewStore(h, counts, long, mmco5)
  <1> DEFINE h == cur.header
             p == ParityOf(h.structure)
             ins == Insert(st, cur, counts, long, mmco5)
             joined == JoinFields(st[cur.key], p, OwnField(h, p, counts, long), long)
             new == NewStore(h, counts, long, mmco5)
             mine == IF cur.key \in DOMAIN st /\ cur.secondField THEN joined ELSE new
  <1>1. h \in Headers /\ cur.key \in Nat
    BY CurrentParts
  <1>2. new \in FrameStore
    BY <1>1, NewStoreType
  <1>3. cur.key \in DOMAIN st /\ cur.secondField => joined \in FrameStore
    <2> SUFFICES ASSUME cur.key \in DOMAIN st, cur.secondField
                 PROVE  joined \in FrameStore
      OBVIOUS
    <2>1. p \in Parities
      BY <1>1, HeaderParts
    <2>2. OwnField(h, p, counts, long) \in FieldState
      BY <1>1, <2>1, OwnFieldType
    <2>3. st[cur.key] \in FrameStore
      BY StoreParts
    <2> QED
      BY <2>1, <2>2, <2>3, JoinFieldsType
  <1>4. h.reference =>
          ins = [k \in DOMAIN st \cup {cur.key} |-> IF k # cur.key THEN st[k] ELSE mine]
    BY DEF Insert
  <1>5. ~h.reference => ins = st
    BY DEF Insert
  <1>6. mine \in FrameStore
    BY <1>2, <1>3
  <1>7. \A k \in DOMAIN st : st[k] \in FrameStore /\ k \in Nat
    BY StoreParts
  <1>8. h.reference \in BOOLEAN
    BY <1>1, HeaderParts
  <1> HIDE DEF mine, joined, new, ins
  <1>9. CASE h.reference
    BY <1>1, <1>4, <1>6, <1>7, <1>9 DEF AreStores, mine, joined, new, ins
  <1>10. CASE ~h.reference
    BY <1>5, <1>10 DEF ins
  <1> QED
    BY <1>8, <1>9, <1>10

-----------------------------------------------------------------------------
(* One holder for every LongTermFrameIdx *)

\* Unmarking takes no index from its store to another.
LEMMA UnmarksUnique ==
    ASSUME NEW st, NEW st2, Unmarks(st, st2), UniqueIdx(st)
    PROVE  UniqueIdx(st2)
  <1>1. \A k \in DOMAIN st2 : \A p \in Parities :
          IsMarked(st2[k].fields[p], "LongTerm") =>
            k \in DOMAIN st /\ st2[k].fields[p] = st[k].fields[p]
    BY DEF Unmarks, IsMarked
  <1> QED
    BY <1>1 DEF UniqueIdx

\* A store that holds an index after unmarking held it before.
LEMMA UnmarksHolds ==
    ASSUME NEW st, NEW st2, Unmarks(st, st2), NEW k \in DOMAIN st2, NEW idx,
           HoldsIdx(st2[k], idx)
    PROVE  k \in DOMAIN st /\ HoldsIdx(st[k], idx)
  BY DEF Unmarks, HoldsIdx, IsMarked

\* Unmarking makes no reference.
LEMMA UnmarksReferences ==
    ASSUME NEW st, NEW st2, Unmarks(st, st2)
    PROVE  References(st2) \subseteq References(st)
  BY DEF Unmarks, References, IsReference

\* Eviction keeps the references as they are and nothing else.
LEMMA EvictUnusedType ==
    ASSUME NEW st, AreStores(st)
    PROVE  /\ AreStores(EvictUnused(st))
           /\ DOMAIN EvictUnused(st) = References(st)
           /\ References(st) \subseteq DOMAIN st
           /\ UnusedKeys(st) \subseteq DOMAIN st
           /\ \A k \in References(st) : EvictUnused(st)[k] = st[k]
           /\ UniqueIdx(st) => UniqueIdx(EvictUnused(st))
  <1>1. /\ DOMAIN EvictUnused(st) = References(st)
        /\ References(st) \subseteq DOMAIN st
        /\ UnusedKeys(st) \subseteq DOMAIN st
        /\ \A k \in References(st) : EvictUnused(st)[k] = st[k]
    BY DEF EvictUnused, References, UnusedKeys
  <1>2. AreStores(EvictUnused(st))
    BY DEF EvictUnused, References, AreStores
  <1>3. UniqueIdx(st) => UniqueIdx(EvictUnused(st))
    BY <1>1 DEF UniqueIdx
  <1> QED
    BY <1>1, <1>2, <1>3

\* The long-term fields of the store a picture is in after Insert.
LEMMA InsertedLong ==
    ASSUME NEW st, AreStores(st), NEW cur \in CurrentPicture, NEW counts \in Poc,
           NEW long \in Nat \cup {None}, NEW mmco5 \in BOOLEAN,
           cur.secondField => IsField(cur.header.structure),
           cur.header.reference, NEW p \in Parities,
           IsMarked(Insert(st, cur, counts, long, mmco5)[cur.key].fields[p], "LongTerm")
    PROVE  LET f == Insert(st, cur, counts, long, mmco5)[cur.key].fields[p]
           IN  \/ long # None /\ f.longTermFrameIdx = long
               \/ long = None /\ cur.key \in DOMAIN st /\ f = st[cur.key].fields[p]
  <1> DEFINE h == cur.header
             q == ParityOf(h.structure)
             ins == Insert(st, cur, counts, long, mmco5)
             own == OwnField(h, q, counts, long)
  <1>1. h \in Headers
    BY CurrentParts
  <1>2. \A r \in Parities : /\ OwnField(h, r, counts, long).marking = "LongTerm" => long # None
                            /\ long # None => OwnField(h, r, counts, long).longTermFrameIdx = long
    BY <1>1, OwnFieldType
  <1>3. CASE cur.key \in DOMAIN st /\ cur.secondField
    <2>1. ins[cur.key] = JoinFields(st[cur.key], q, own, long)
      BY <1>3, InsertType
    <2>2. q \in Parities
      BY <1>1, <1>3, HeaderParts
    <2>3. st[cur.key] \in FrameStore /\ st[cur.key].fields[p] \in FieldState
      BY <1>3, StoreParts
    <2>4. own \in FieldState
      BY <1>1, <2>2, OwnFieldType
    <2> HIDE DEF own, q, ins, h
    <2>5. ins[cur.key].fields[p] =
            (IF p = q THEN own
             ELSE IF long # None /\ IsMarked(st[cur.key].fields[p], "LongTerm")
                  THEN AsLongTerm(st[cur.key].fields[p], long)
                  ELSE st[cur.key].fields[p])
      BY <2>1, <2>2, <2>3, <2>4, JoinFieldsType
    <2>6. CASE p = q
      BY <1>2, <2>2, <2>5, <2>6 DEF own, ins, IsMarked
    <2>7. CASE p # q /\ long # None /\ IsMarked(st[cur.key].fields[p], "LongTerm")
      <3>1. ins[cur.key].fields[p] = AsLongTerm(st[cur.key].fields[p], long)
        BY <2>5, <2>7
      <3>2. AsLongTerm(st[cur.key].fields[p], long).longTermFrameIdx = long
        BY <2>3, <2>7, AsLongTermField
      <3> QED
        BY <2>7, <3>1, <3>2 DEF ins
    <2>8. CASE p # q /\ ~(long # None /\ IsMarked(st[cur.key].fields[p], "LongTerm"))
      <3>1. ins[cur.key].fields[p] = st[cur.key].fields[p]
        BY <2>5, <2>8
      <3> QED
        BY <1>3, <2>8, <3>1 DEF ins
    <2> QED
      BY <2>6, <2>7, <2>8
  <1>4. CASE ~(cur.key \in DOMAIN st /\ cur.secondField)
    <2>1. ins[cur.key] = NewStore(h, counts, long, mmco5)
      <3>1. ins = [k \in DOMAIN st \cup {cur.key} |->
                     IF k # cur.key THEN st[k] ELSE NewStore(h, counts, long, mmco5)]
        BY <1>4 DEF Insert
      <3> HIDE DEF ins
      <3> QED
        BY <3>1
    <2>2. ins[cur.key].fields[p] = (IF IsField(h.structure) /\ p # q
                                    THEN EmptyField ELSE OwnField(h, p, counts, long))
      <3> HIDE DEF ins, h
      <3> QED
        BY <1>1, <2>1, NewStoreType
    <2>3. ins[cur.key].fields[p] = OwnField(h, p, counts, long)
      <3>1. EmptyField.marking # "LongTerm"
        BY DEF EmptyField
      <3>2. ins[cur.key].fields[p].marking = "LongTerm"
        BY DEF IsMarked
      <3> HIDE DEF ins
      <3> QED
        BY <2>2, <3>1, <3>2
    <2> HIDE DEF ins, h
    <2> QED
      BY <1>2, <2>3 DEF IsMarked, ins
  <1> QED
    BY <1>3, <1>4

\* The picture joins without a second holder of any index.
LEMMA InsertUnique ==
    ASSUME NEW st, AreStores(st), NEW cur \in CurrentPicture, NEW counts \in Poc,
           NEW long \in Nat \cup {None}, NEW mmco5 \in BOOLEAN,
           cur.secondField => IsField(cur.header.structure),
           UniqueIdx(st),
           long # None => \A k \in DOMAIN st : HoldsIdx(st[k], long) => k = cur.key
    PROVE  UniqueIdx(Insert(st, cur, counts, long, mmco5))
  <1> DEFINE ins == Insert(st, cur, counts, long, mmco5)
  <1>1. CASE ~cur.header.reference
    BY <1>1 DEF Insert
  <1>2. CASE cur.header.reference
    <2>1. /\ DOMAIN ins = DOMAIN st \cup {cur.key}
          /\ \A k \in DOMAIN st : k # cur.key => ins[k] = st[k]
      BY <1>2 DEF Insert
    <2>2. ASSUME NEW p \in Parities, IsMarked(ins[cur.key].fields[p], "LongTerm")
          PROVE  \/ long # None /\ ins[cur.key].fields[p].longTermFrameIdx = long
                 \/ /\ long = None /\ cur.key \in DOMAIN st
                    /\ ins[cur.key].fields[p] = st[cur.key].fields[p]
      BY <1>2, <2>2, InsertedLong
    <2> HIDE DEF ins
    <2>3. \A k \in DOMAIN st : \A p, q \in Parities :
            /\ k # cur.key
            /\ IsMarked(ins[cur.key].fields[p], "LongTerm")
            /\ IsMarked(st[k].fields[q], "LongTerm")
            => ins[cur.key].fields[p].longTermFrameIdx # st[k].fields[q].longTermFrameIdx
      <3> TAKE k \in DOMAIN st
      <3> TAKE p, q \in Parities
      <3> HAVE /\ k # cur.key
               /\ IsMarked(ins[cur.key].fields[p], "LongTerm")
               /\ IsMarked(st[k].fields[q], "LongTerm")
      <3> SUFFICES ASSUME ins[cur.key].fields[p].longTermFrameIdx
                            = st[k].fields[q].longTermFrameIdx
                   PROVE  FALSE
        OBVIOUS
      <3>1. CASE long # None /\ ins[cur.key].fields[p].longTermFrameIdx = long
        <4>1. HoldsIdx(st[k], long)
          BY <3>1 DEF HoldsIdx
        <4> QED
          BY <3>1, <4>1
      <3>2. CASE /\ cur.key \in DOMAIN st
                 /\ ins[cur.key].fields[p] = st[cur.key].fields[p]
        BY <3>2 DEF UniqueIdx
      <3> QED
        BY <2>2, <3>1, <3>2
    <2> QED
      BY <2>1, <2>3 DEF UniqueIdx, ins
  <1> QED
    BY <1>1, <1>2

-----------------------------------------------------------------------------
(* The end of finish_picture *)

\* What Remarks keeps of the store a second field is to join.
LEMMA RemarksLacks ==
    ASSUME NEW st, NEW st2, Remarks(st, st2), NEW k \in DOMAIN st, NEW p \in Parities,
           Lacks(st[k], p)
    PROVE  Lacks(st2[k], p)
  BY DEF Remarks, Lacks, Parities, Other

\* What a finished picture leaves: ins with the picture, full after the
\* capacity is enforced, then what is still a reference.
Settled(st, cur, ins, full) ==
    /\ AreStores(ins) /\ AreStores(full) /\ Unmarks(ins, full)
    /\ AreStores(EvictUnused(full))
    /\ References(full) \subseteq DOMAIN full
    /\ UnusedKeys(full) \subseteq DOMAIN full
    /\ DOMAIN EvictUnused(full) = References(full)
    /\ \A k \in References(full) : EvictUnused(full)[k] = full[k]
    /\ DOMAIN full = DOMAIN ins
    /\ DOMAIN ins \subseteq DOMAIN st \cup {cur.key}
    /\ UniqueIdx(ins) => UniqueIdx(EvictUnused(full))
    /\ References(EvictUnused(full)) \subseteq References(ins)

\* The stores a finished picture leaves: what is left of those the marking
\* process left, with the store of the picture changed or added.
LEMMA CompleteStores ==
    ASSUME NEW st, AreStores(st), NEW cur \in CurrentPicture, NEW counts \in Poc,
           NEW long \in Nat \cup {None}, NEW mmco5 \in BOOLEAN, NEW sps,
           cur.secondField => IsField(cur.header.structure)
    PROVE  LET ins == Insert(st, cur, counts, long, mmco5)
           IN  Settled(st, cur, ins,
                       EnforceCapacity(ins, sps, cur.header.frameNum, cur.maxFrameNum))
  <1> DEFINE ins == Insert(st, cur, counts, long, mmco5)
             full == EnforceCapacity(ins, sps, cur.header.frameNum, cur.maxFrameNum)
  <1>1. AreStores(ins)
    BY InsertType
  <1>2. DOMAIN ins \subseteq DOMAIN st \cup {cur.key}
    BY DEF Insert
  <1> HIDE DEF ins
  <1>4. Unmarks(ins, full)
    BY <1>1, EnforceCapacityUnmarks
  <1> HIDE DEF full
  <1>5. AreStores(full) /\ DOMAIN full = DOMAIN ins
    BY <1>4 DEF Unmarks
  <1>6. /\ AreStores(EvictUnused(full))
        /\ DOMAIN EvictUnused(full) = References(full)
        /\ References(full) \subseteq DOMAIN full
        /\ UnusedKeys(full) \subseteq DOMAIN full
        /\ \A k \in References(full) : EvictUnused(full)[k] = full[k]
        /\ UniqueIdx(full) => UniqueIdx(EvictUnused(full))
    BY <1>5, EvictUnusedType
  <1>7. UniqueIdx(ins) => UniqueIdx(full)
    BY <1>4, UnmarksUnique
  <1>8. References(EvictUnused(full)) \subseteq References(full)
    BY <1>6 DEF References
  <1>9. References(full) \subseteq References(ins)
    BY <1>4, UnmarksReferences
  <1> QED
    BY <1>1, <1>2, <1>4, <1>5, <1>6, <1>7, <1>8, <1>9 DEF ins, full, Settled

\* A first field leaves a store that still lacks the other parity.
LEMMA FirstFieldLacks ==
    ASSUME NEW st, AreStores(st), NEW cur \in CurrentPicture, NEW counts \in Poc,
           NEW long \in Nat \cup {None}, NEW mmco5 \in BOOLEAN, NEW full,
           Unmarks(Insert(st, cur, counts, long, mmco5), full),
           IsField(cur.header.structure), ~cur.secondField,
           cur.key \notin DOMAIN st, cur.key \in DOMAIN full
    PROVE  Lacks(full[cur.key], Other(ParityOf(cur.header.structure)))
  <1> DEFINE h == cur.header
             p == ParityOf(h.structure)
             ins == Insert(st, cur, counts, long, mmco5)
             s == NewStore(h, counts, long, mmco5)
  <1>1. h \in Headers /\ p \in Parities
    BY CurrentParts, HeaderParts
  <1>2. h.reference
    BY DEF Insert, Unmarks
  <1>3. ins[cur.key] = s
    BY <1>2 DEF Insert
  <1>4. Other(p) \in Parities /\ Other(p) # p /\ Other(Other(p)) = p
    BY <1>1 DEF Other, Parities
  <1>5. /\ s.fields[Other(p)] = (IF IsField(h.structure) /\ Other(p) # p
                                 THEN EmptyField ELSE OwnField(h, Other(p), counts, long))
        /\ s.fields[p] = (IF IsField(h.structure) /\ p # p
                          THEN EmptyField ELSE OwnField(h, p, counts, long))
        /\ s.codedFrame = ~IsField(h.structure)
        /\ ~s.nonExisting
    BY <1>1, <1>4, NewStoreType
  <1>6. OwnField(h, p, counts, long).decoded
    BY <1>1, OwnFieldType
  <1> HIDE DEF s, h, p, ins
  <1>7. Lacks(s, Other(p))
    <2>1. IsField(h.structure)
      BY DEF h
    <2>2. s.fields[Other(p)] = EmptyField /\ s.fields[p] = OwnField(h, p, counts, long)
      BY <1>4, <1>5, <2>1
    <2>3. ~s.codedFrame /\ ~s.nonExisting
      BY <1>5, <2>1 DEF IsField
    <2> QED
      BY <1>4, <1>6, <2>2, <2>3 DEF Lacks, EmptyField
  <1>8. cur.key \in DOMAIN ins
    BY DEF Unmarks, ins
  <1> QED
    BY <1>3, <1>4, <1>7, <1>8, UnmarksIsRemarks, RemarksLacks DEF ins, p, h

\* The references of the stores after Insert are older ones or the picture.
LEMMA InsertReferences ==
    ASSUME NEW st, NEW cur, NEW counts, NEW long, NEW mmco5
    PROVE  References(Insert(st, cur, counts, long, mmco5))
             \subseteq References(st) \cup {cur.key}
  BY DEF Insert, References

\* What finish_picture knows when its marking process has run.
Marked(cur, st, long, mmco5) ==
    /\ cur \in CurrentPicture
    /\ PictureInv(cur)
    /\ AreStores(st) /\ DOMAIN st = DOMAIN stores
    /\ long \in Nat \cup {None}
    /\ mmco5 \in BOOLEAN
    /\ mmco5 => References(st) = {}
    /\ (\A h \in Headers : CommandsAgree(h)) =>
         /\ UniqueIdx(st)
         /\ long # None => \A k \in DOMAIN st : HoldsIdx(st[k], long) => k = cur.key

\* The end of finish_picture keeps the invariant.
LEMMA CompleteInv ==
    ASSUME IInv, gap = None, lastField = None,
           NEW sps \in SpsSet, NEW cur, NEW st, NEW long, NEW mmco5,
           Marked(cur, st, long, mmco5),
           Complete(sps, cur, st, long, mmco5),
           maxLongTermFrameIdx' \in Nat \cup {None}
    PROVE  IInv'
  <1> DEFINE h == cur.header
             counts == IF mmco5 THEN AfterMmco5(cur.poc, h.structure) ELSE cur.poc
             ins == Insert(st, cur, counts, long, mmco5)
             full == EnforceCapacity(ins, sps, h.frameNum, cur.maxFrameNum)
             awaiting == IsField(h.structure) /\ ~cur.secondField
             last == [key |-> cur.key, parity |-> ParityOf(h.structure),
                      frameNum |-> h.frameNum, reference |-> h.reference, idr |-> h.idr]
             result == [result |-> "finished", key |-> cur.key,
                        stored |-> cur.key \in References(full),
                        mmco5 |-> mmco5, pictureOrderCount |-> counts.count,
                        awaitingSecondField |-> awaiting,
                        released |-> releasedEarly \cup UnusedKeys(full)]
  <1>1. /\ stores' = EvictUnused(full)
        /\ poc' = FinishPoc(poc, sps, h, cur.poc, mmco5)
        /\ prevRefFrameNum' = (IF ~h.reference THEN prevRefFrameNum
                               ELSE IF mmco5 THEN 0 ELSE h.frameNum)
        /\ lastField' = (IF awaiting THEN last ELSE lastField)
        /\ releasedEarly' = {}
        /\ pending' = None
        /\ marking' = None
        /\ reply' = result
        /\ nextKey' = nextKey /\ gap' = gap
    BY DEF Complete
  <1>2. /\ cur \in CurrentPicture /\ AreStores(st) /\ DOMAIN st = DOMAIN stores
        /\ long \in Nat \cup {None} /\ mmco5 \in BOOLEAN
        /\ cur.secondField => IsField(h.structure)
        /\ cur.key < nextKey
        /\ ~cur.secondField => cur.key \notin DOMAIN stores
    BY DEF Marked, PictureInv
  <1>3. /\ h \in Headers /\ h \in Header /\ h.frameNum \in Nat /\ h.structure \in Structures
        /\ h.reference \in BOOLEAN /\ h.idr \in BOOLEAN
        /\ cur.key \in Nat /\ cur.poc \in Poc /\ cur.secondField \in BOOLEAN
        /\ IsField(h.structure) => ParityOf(h.structure) \in Parities
    BY <1>2, CurrentParts, HeaderParts
  <1>4. counts \in Poc
    BY <1>3, AfterMmco5Type
  <1>5. /\ AreStores(ins) /\ Unmarks(ins, full)
        /\ AreStores(EvictUnused(full))
        /\ References(full) \subseteq DOMAIN full
        /\ UnusedKeys(full) \subseteq DOMAIN full
        /\ DOMAIN EvictUnused(full) = References(full)
        /\ \A k \in References(full) : EvictUnused(full)[k] = full[k]
        /\ DOMAIN full = DOMAIN ins
        /\ DOMAIN ins \subseteq DOMAIN st \cup {cur.key}
        /\ UniqueIdx(ins) => UniqueIdx(EvictUnused(full))
        /\ References(EvictUnused(full)) \subseteq References(ins)
    <2> HIDE DEF counts
    <2>1. Settled(st, cur, ins, full)
      BY <1>2, <1>4, CompleteStores
    <2> HIDE DEF ins, full
    <2> QED
      BY <2>1 DEF Settled
  <1>6. UniqueIdx(st) /\ (long # None => \A k \in DOMAIN st : HoldsIdx(st[k], long) => k = cur.key)
          => UniqueIdx(ins)
    <2> HIDE DEF counts
    <2> QED
      BY <1>2, <1>4, InsertUnique
  <1>7. awaiting /\ cur.key \in DOMAIN full => Lacks(full[cur.key], Other(ParityOf(h.structure)))
    <2> HIDE DEF counts, full
    <2> QED
      BY <1>2, <1>4, <1>5, FirstFieldLacks
  <1>8. References(ins) \subseteq References(st) \cup {cur.key}
    BY InsertReferences
  <1> HIDE DEF ins, full, counts
  <1>9. DOMAIN stores' \subseteq DOMAIN stores \cup {cur.key}
    BY <1>1, <1>2, <1>5
  <1>10. TypeOK'
    <2>1. AreStores(stores)'
      BY <1>1, <1>5
    <2>2. poc' \in PocState
      <3>1. poc \in PocState
        BY DEF IInv, TypeOK
      <3> HIDE DEF h
      <3>2. h.lsb \in PocRange
        BY <1>3, PocLimitAssumption DEF Header, PocRange
      <3>3. FinishPoc(poc, sps, h, cur.poc, mmco5) \in PocState
        BY <1>2, <1>3, <3>1, <3>2, FinishPocType
      <3> QED
        BY <1>1, <3>3
    <2>3. prevRefFrameNum' \in Nat /\ nextKey' \in Nat
      BY <1>1, <1>3 DEF IInv, TypeOK
    <2>4. lastField' \in LastField \cup {None}
      BY <1>1, <1>3 DEF LastField
    <2>5. reply' \in Reply
      <3>1. awaiting \in BOOLEAN
        BY DEF IsField
      <3>2. counts.count \in PocRange
        BY <1>4 DEF Poc
      <3>3. releasedEarly \cup UnusedKeys(full) \in SUBSET Nat
        BY <1>5 DEF IInv, TypeOK, AreStores
      <3>4. (cur.key \in References(full)) \in BOOLEAN
        OBVIOUS
      <3> HIDE DEF awaiting, h
      <3>5. result \in Finished
        BY <1>2, <1>3, <3>1, <3>2, <3>3, <3>4 DEF Finished
      <3> QED
        BY <1>1, <3>5 DEF Reply
    <2>6. gap' \in GapLoop \cup {None}
      BY <1>1 DEF IInv, TypeOK
    <2> HIDE DEF awaiting, last, result
    <2> QED
      BY <1>1, <2>1, <2>2, <2>3, <2>4, <2>5, <2>6 DEF TypeOK
  <1>11. ControlInv'
    BY <1>1 DEF ControlInv
  <1>12. KeysInv'
    <2>1. \A k \in DOMAIN stores' : k < nextKey'
      BY <1>1, <1>2, <1>9 DEF IInv, KeysInv
    <2>2. ASSUME lastField' # None
          PROVE  /\ lastField'.key < nextKey'
                 /\ lastField'.key \in DOMAIN stores' =>
                      Lacks(stores'[lastField'.key], Other(lastField'.parity))
      <3>1. awaiting /\ lastField' = last
        BY <1>1, <2>2
      <3>2. lastField'.key = cur.key /\ lastField'.parity = ParityOf(h.structure)
        BY <3>1
      <3> HIDE DEF awaiting, last, h
      <3> QED
        BY <1>1, <1>2, <1>5, <1>7, <3>1, <3>2
    <2> HIDE DEF awaiting, last, result
    <2> QED
      BY <1>1, <2>1, <2>2 DEF KeysInv, Lacks
  <1>13. LongTermIdxUnique'
    BY <1>1, <1>5, <1>6 DEF LongTermIdxUnique, Marked
  <1>14. RefreshIsolates'
    <2>1. reply'.mmco5 = mmco5 /\ reply'.key = cur.key
      BY <1>1
    <2>2. mmco5 => References(stores') \subseteq {cur.key}
      BY <1>1, <1>5, <1>8 DEF Marked
    <2> QED
      BY <2>1, <2>2 DEF RefreshIsolates
  <1> QED
    BY <1>1, <1>10, <1>11, <1>12, <1>13, <1>14 DEF IInv, LongTermInv, RefreshInv

-----------------------------------------------------------------------------
(* The calls of begin_picture *)

\* The end of begin_picture: PictureInv of the picture it starts.
LEMMA StartInv ==
    ASSUME TypeOK, NEW sps \in SpsSet, NEW h \in Headers,
           NEW firstKey \in Nat \cup {None}, NEW abandoned \in Nat \cup {None},
           NEW nonExisting \in SUBSET Nat,
           StartPicture(sps, h, firstKey, abandoned, nonExisting)
    PROVE  /\ nextKey' \in Nat /\ nextKey' >= nextKey
           /\ reply' \in Reply
           /\ reply'.result \in {"begun", "error"}
           /\ \/ pending' = pending
              \/ /\ pending' \in CurrentPicture
                 /\ pending'.header = h
                 /\ firstKey # None => /\ pending'.key = firstKey /\ nextKey' = nextKey
                                       /\ pending'.secondField
                 /\ firstKey = None => /\ pending'.key = nextKey /\ nextKey' = nextKey + 1
                                      /\ ~pending'.secondField
  <1>1. nextKey \in Nat /\ poc \in PocState
    BY DEF TypeOK
  <1>2. sps.maxFrameNum \in Nat \ {0}
    BY InputsAssumption DEF Sps
  <1>3. h.structure \in Structures
    BY HeaderParts
  <1>4. CASE Derive(poc, sps, h) = None
    BY <1>1, <1>4 DEF StartPicture, Reply, Failed
  <1>5. CASE Derive(poc, sps, h) # None
    <2> DEFINE counts == Derive(poc, sps, h)
               key == IF firstKey = None THEN nextKey ELSE firstKey
               cur == [key |-> key, poc |-> counts, secondField |-> firstKey # None,
                       nonExisting |-> nonExisting, abandonedFirstField |-> abandoned,
                       header |-> h, maxFrameNum |-> sps.maxFrameNum]
    <2>1. counts \in Poc
      BY <1>1, <1>3, <1>5, DeriveType
    <2>2. /\ pending' = cur
          /\ nextKey' = (IF firstKey = None THEN nextKey + 1 ELSE nextKey)
          /\ reply' = [result |-> "begun"]
      BY <1>5 DEF StartPicture
    <2>3. key \in Nat
      BY <1>1
    <2>4. (firstKey # None) \in BOOLEAN
      OBVIOUS
    <2> HIDE DEF counts
    <2>5. cur \in CurrentPicture
      <3> HIDE DEF key
      <3> QED
        BY <1>2, <2>1, <2>3, <2>4 DEF CurrentPicture
    <2>6. /\ cur.header = h
          /\ firstKey = None => ~cur.secondField
          /\ firstKey # None => cur.secondField
          /\ cur.key = key
      OBVIOUS
    <2>7. reply' \in Reply /\ reply'.result = "begun"
      BY <2>2 DEF Reply
    <2> HIDE DEF cur
    <2> QED
      BY <1>1, <2>2, <2>5, <2>6, <2>7
  <1> QED
    BY <1>4, <1>5

\* A picture without a gap: its key is fresh, or that of its first field.
LEMMA BeginPictureInv ==
    ASSUME IInv, NEW sps \in SpsSet, NEW h \in Headers, BeginPicture(sps, h)
    PROVE  IInv'
  <1> DEFINE firstKey == IF Pairs(h) THEN lastField.key ELSE None
  <1>1. TypeOK /\ ControlInv /\ KeysInv /\ LongTermIdxUnique
    BY DEF IInv
  <1>2. /\ gap = None /\ marking = None /\ pending = None
        /\ prevRefFrameNum' \in Nat
        /\ lastField' = None
        /\ stores' = stores /\ maxLongTermFrameIdx' = maxLongTermFrameIdx /\ poc' = poc
        /\ releasedEarly' = releasedEarly /\ gap' = None /\ marking' = None
        /\ StartPicture(sps, h, firstKey, AbandonedFirstField(h), {})
    BY <1>1 DEF BeginPicture, Idle, TypeOK
  <1>3. firstKey \in Nat \cup {None} /\ AbandonedFirstField(h) \in Nat \cup {None}
    BY <1>1 DEF TypeOK, LastField, AbandonedFirstField, Pairs
  <1>4. firstKey # None =>
          /\ Pairs(h) /\ lastField # None /\ firstKey = lastField.key
    <2>1. CASE Pairs(h)
      BY <2>1 DEF Pairs
    <2>2. CASE ~Pairs(h)
      BY <2>2
    <2> QED
      BY <2>1, <2>2
  <1> HIDE DEF firstKey
  <1>5. /\ nextKey' \in Nat /\ nextKey' >= nextKey
        /\ reply' \in Reply
        /\ reply'.result \in {"begun", "error"}
        /\ \/ pending' = pending
           \/ /\ pending' \in CurrentPicture
              /\ pending'.header = h
              /\ firstKey # None => /\ pending'.key = firstKey /\ nextKey' = nextKey
                                    /\ pending'.secondField
              /\ firstKey = None => /\ pending'.key = nextKey /\ nextKey' = nextKey + 1
                                   /\ ~pending'.secondField
    <2>1. {} \in SUBSET Nat
      OBVIOUS
    <2> QED
      BY <1>1, <1>2, <1>3, <2>1, StartInv
  <1>6. TypeOK'
    BY <1>1, <1>2, <1>5 DEF TypeOK
  <1>7. ControlInv'
    BY <1>2, <1>5 DEF ControlInv
  <1>8. nextKey \in Nat /\ \A k \in DOMAIN stores \cup releasedEarly : k \in Nat /\ k < nextKey
    BY <1>1 DEF TypeOK, KeysInv, AreStores
  <1>9. PictureInv(pending)' \/ pending' = None
    <2>1. CASE pending' = pending
      BY <1>2, <2>1
    <2>2. CASE pending' # pending /\ firstKey = None
      BY <1>2, <1>5, <1>8, <2>2 DEF PictureInv
    <2>3. CASE pending' # pending /\ firstKey # None
      <3>1. /\ IsField(h.structure)
            /\ ParityOf(h.structure) = Other(lastField.parity)
            /\ h.reference => ~HasMmco5(h)
        BY <1>4, <2>3 DEF Pairs
      <3>2. /\ lastField.key < nextKey
            /\ releasedEarly = {}
            /\ lastField.key \in DOMAIN stores =>
                 Lacks(stores[lastField.key], Other(lastField.parity))
        BY <1>1, <1>4, <2>3 DEF KeysInv
      <3> QED
        BY <1>2, <1>4, <1>5, <2>3, <3>1, <3>2 DEF PictureInv, Lacks
    <2> QED
      BY <2>1, <2>2, <2>3
  <1>10. KeysInv'
    BY <1>1, <1>2, <1>5, <1>8, <1>9 DEF KeysInv
  <1>11. LongTermIdxUnique'
    BY <1>1, <1>2 DEF LongTermIdxUnique
  <1>12. RefreshIsolates'
    BY <1>5 DEF RefreshIsolates
  <1> QED
    BY <1>2, <1>6, <1>7, <1>10, <1>11, <1>12 DEF IInv, LongTermInv, RefreshInv

\* A gap the stream does not allow ends the call at once.
LEMMA BeginAfterLossInv ==
    ASSUME IInv, NEW sps \in SpsSet, NEW h \in Headers, BeginAfterLoss(sps, h)
    PROVE  IInv'
  <1>1. /\ gap = None /\ marking = None /\ lastField' = None /\ reply' = Failed
        /\ UNCHANGED <<stores, maxLongTermFrameIdx, poc, prevRefFrameNum, nextKey,
                       pending, releasedEarly, gap, marking>>
    BY DEF BeginAfterLoss, Idle
  <1>2. TypeOK'
    BY <1>1 DEF IInv, TypeOK, Reply
  <1>3. RefreshIsolates'
    BY <1>1 DEF RefreshIsolates, Failed
  <1>4. KeysInv'
    BY <1>1 DEF IInv, KeysInv, PictureInv, Lacks
  <1> QED
    BY <1>1, <1>2, <1>3, <1>4
       DEF IInv, ControlInv, LongTermIdxUnique, LongTermInv, RefreshInv

\* A gap to fill: at most short-term fields are unmarked.
LEMMA BeginWithGapInv ==
    ASSUME IInv, NEW sps \in SpsSet, NEW h \in Headers, BeginWithGap(sps, h)
    PROVE  IInv'
  <1> DEFINE unused == (prevRefFrameNum + 1) % sps.maxFrameNum
             missing == (h.frameNum + sps.maxFrameNum - unused) % sps.maxFrameNum
             wide == missing > RefCap(sps)
             loop == [sps |-> sps, header |-> h,
                      abandonedFirstField |-> AbandonedFirstField(h),
                      unused |-> unused,
                      skip |-> IF wide THEN missing - RefCap(sps) ELSE 0,
                      nonExisting |-> {}]
  <1>1. TypeOK /\ ControlInv /\ KeysInv /\ LongTermIdxUnique
    BY DEF IInv
  <1>2. /\ gap = None /\ marking = None /\ pending = None
        /\ lastField' = None /\ reply' = None
        /\ stores' = IF wide THEN Unmark(stores, FieldsMarked(stores, "ShortTerm"))
                     ELSE stores
        /\ gap' = loop
        /\ UNCHANGED <<maxLongTermFrameIdx, poc, prevRefFrameNum, nextKey, pending,
                       releasedEarly, marking>>
    BY DEF BeginWithGap, Idle
  <1>3. /\ prevRefFrameNum \in Nat /\ sps.maxFrameNum \in Nat \ {0}
        /\ sps.maxNumRefFrames \in Nat /\ h.frameNum \in Nat
    BY <1>1, InputsAssumption, HeaderParts DEF TypeOK, Sps
  <1>4. unused \in Nat
    BY <1>3
  <1>5. missing \in Nat
    <2>1. h.frameNum + sps.maxFrameNum - unused \in Int
      BY <1>3, <1>4
    <2> HIDE DEF unused
    <2> QED
      BY <1>3, <2>1
  <1>6. RefCap(sps) \in Nat
    BY <1>3 DEF RefCap
  <1> HIDE DEF unused, missing
  <1>7. AbandonedFirstField(h) \in Nat \cup {None}
    BY <1>1 DEF TypeOK, LastField, AbandonedFirstField
  <1>8. loop \in GapLoop
    BY <1>4, <1>5, <1>6, <1>7 DEF GapLoop
  <1>9. Unmarks(stores, stores')
    <2>1. AreStores(stores)
      BY <1>1 DEF TypeOK
    <2>2. Unmarks(stores, stores)
      BY <2>1 DEF Unmarks
    <2> HIDE DEF wide
    <2> QED
      BY <1>2, <2>1, <2>2, UnmarkUnmarks
  <1> HIDE DEF wide, loop
  <1>10. AreStores(stores)' /\ DOMAIN stores' = DOMAIN stores
    BY <1>9 DEF Unmarks
  <1>11. TypeOK'
    BY <1>1, <1>2, <1>8, <1>10 DEF TypeOK, Reply
  <1>12. KeysInv'
    BY <1>1, <1>2, <1>10 DEF KeysInv
  <1>13. LongTermIdxUnique'
    BY <1>1, <1>9, UnmarksUnique DEF LongTermIdxUnique
  <1> QED
    BY <1>2, <1>11, <1>12, <1>13
       DEF IInv, ControlInv, LongTermInv, RefreshIsolates, RefreshInv

\* A skipped frame moves only the picture order count state.
LEMMA SkipFrameInv ==
    ASSUME IInv, SkipFrame
    PROVE  IInv'
  <1> DEFINE loop == [gap EXCEPT !.unused = (@ + 1) % gap.sps.maxFrameNum, !.skip = @ - 1]
  <1>1. TypeOK /\ ControlInv /\ KeysInv /\ LongTermIdxUnique
    BY DEF IInv
  <1>2. /\ gap # None /\ gap.skip > 0
        /\ poc' = SkipNonExisting(poc, gap.sps, gap.unused)
        /\ gap' = loop
        /\ UNCHANGED <<stores, maxLongTermFrameIdx, prevRefFrameNum, nextKey, pending,
                       lastField, releasedEarly, marking, reply>>
    BY DEF SkipFrame
  <1>3. gap \in GapLoop /\ poc \in PocState
    BY <1>1, <1>2 DEF TypeOK
  <1>4. gap.unused \in Nat /\ gap.skip \in Nat /\ gap.sps.maxFrameNum \in Nat \ {0}
    BY <1>3, InputsAssumption DEF GapLoop, Sps
  <1>5. loop \in GapLoop
    <2>1. (gap.unused + 1) % gap.sps.maxFrameNum \in Nat
      BY <1>4
    <2>2. gap.skip - 1 \in Nat
      BY <1>2, <1>4
    <2> QED
      BY <1>3, <2>1, <2>2 DEF GapLoop
  <1>6. poc' \in PocState
    <2> DEFINE sum == poc.prevFrameNumOffset + gap.sps.maxFrameNum
               offset == IF poc.prevFrameNum <= gap.unused THEN poc.prevFrameNumOffset
                         ELSE IF Fits(sum) THEN sum ELSE PocLimit - 1
    <2>1. offset \in PocRange
      BY <1>3, <1>4, PocLimitAssumption DEF PocState, Fits, PocRange
    <2>2. poc' = [poc EXCEPT !.prevFrameNum = gap.unused, !.prevFrameNumOffset = offset]
      BY <1>2 DEF SkipNonExisting
    <2> HIDE DEF offset
    <2> QED
      BY <1>3, <1>4, <2>1, <2>2 DEF PocState
  <1> HIDE DEF loop
  <1>7. TypeOK'
    BY <1>1, <1>2, <1>5, <1>6 DEF TypeOK
  <1>8. /\ pending = None /\ marking = None /\ lastField = None /\ reply = None
    BY <1>1, <1>2 DEF ControlInv
  <1>9. ControlInv' /\ KeysInv'
    BY <1>1, <1>2, <1>8 DEF ControlInv, KeysInv
  <1> QED
    BY <1>1, <1>2, <1>7, <1>8, <1>9
       DEF IInv, LongTermIdxUnique, LongTermInv, RefreshIsolates, RefreshInv

\* The counts of an inserted frame are in range.
LEMMA NonExistingPoc ==
    ASSUME NEW ps \in PocState, NEW sps, NEW frameNum,
           DeriveNonExisting(ps, sps, frameNum) # None
    PROVE  DeriveNonExisting(ps, sps, frameNum) \in Poc
  <1>1. ZeroPoc \in Poc
    BY PocLimitAssumption DEF ZeroPoc, Poc, PocRange
  <1>2. NonExistingInput(frameNum).structure \in Structures
    BY DEF NonExistingInput, Structures
  <1> QED
    BY <1>1, <1>2, DeriveType DEF DeriveNonExisting

\* The store of an inserted frame is short-term in both fields.
LEMMA NonExistingStoreType ==
    ASSUME NEW frameNum \in Nat, NEW counts \in Poc
    PROVE  /\ NonExistingStore(frameNum, counts) \in FrameStore
           /\ \A p \in Parities :
                NonExistingStore(frameNum, counts).fields[p].marking = "ShortTerm"
  <1> DEFINE F(p) == [decoded |-> TRUE, marking |-> "ShortTerm", longTermFrameIdx |-> 0,
                      poc |-> IF p = "Top" THEN counts.top ELSE counts.bottom]
             G == [p \in Parities |-> F(p)]
  <1>1. counts.top \in PocRange /\ counts.bottom \in PocRange
    BY DEF Poc
  <1>2. \A p \in Parities : F(p) \in FieldState /\ F(p).marking = "ShortTerm"
    BY <1>1 DEF FieldState, Markings
  <1> HIDE DEF F
  <1>3. G \in [Parities -> FieldState] /\ \A p \in Parities : G[p].marking = "ShortTerm"
    BY <1>2
  <1>4. NonExistingStore(frameNum, counts)
          = [frameNum |-> frameNum, codedFrame |-> TRUE, nonExisting |-> TRUE,
             fields |-> G]
    BY DEF NonExistingStore, F
  <1> HIDE DEF G
  <1> QED
    BY <1>3, <1>4 DEF FrameStore

\* An inserted frame takes a fresh key and no long-term index.
LEMMA FillFrameInv ==
    ASSUME IInv, FillFrame
    PROVE  IInv'
  <1> DEFINE max == gap.sps.maxFrameNum
             slid == SlidingWindow(stores, gap.sps, gap.unused, max, None)
             counts == DeriveNonExisting(poc, gap.sps, gap.unused)
             new == NonExistingStore(gap.unused, counts)
             loop == [gap EXCEPT !.unused = (@ + 1) % max,
                                 !.nonExisting = @ \cup {nextKey}]
  <1>1. TypeOK /\ ControlInv /\ KeysInv /\ LongTermIdxUnique
    BY DEF IInv
  <1>2. /\ gap # None
        /\ UNCHANGED <<maxLongTermFrameIdx, pending, lastField, releasedEarly, marking>>
    BY DEF FillFrame
  <1>3. pending = None /\ marking = None /\ lastField = None /\ reply = None
    BY <1>1, <1>2 DEF ControlInv
  <1>4. /\ AreStores(stores) /\ poc \in PocState /\ nextKey \in Nat /\ gap \in GapLoop
        /\ releasedEarly \in SUBSET Nat
    BY <1>1, <1>2 DEF TypeOK
  <1>5. gap.unused \in Nat /\ max \in Nat \ {0}
    BY <1>4, InputsAssumption DEF GapLoop, Sps
  <1>6. Unmarks(stores, slid)
    BY <1>4, SlidingWindowUnmarks
  <1>7. AreStores(slid) /\ DOMAIN slid = DOMAIN stores
    <2> HIDE DEF slid
    <2> QED
      BY <1>6 DEF Unmarks
  <1>8. LongTermIdxUnique => ((\A h \in Headers : CommandsAgree(h)) => UniqueIdx(slid))
    BY <1>6, UnmarksUnique DEF LongTermIdxUnique
  <1>9. CASE counts = None
    <2>1. /\ stores' = slid /\ gap' = None /\ reply' = Failed
          /\ UNCHANGED <<poc, prevRefFrameNum, nextKey>>
      BY <1>9 DEF FillFrame
    <2> HIDE DEF slid
    <2>2. TypeOK'
      BY <1>1, <1>2, <1>7, <2>1 DEF TypeOK, Reply
    <2>3. KeysInv'
      BY <1>1, <1>2, <1>3, <1>7, <2>1 DEF KeysInv
    <2>4. RefreshIsolates'
      BY <2>1 DEF RefreshIsolates, Failed
    <2> QED
      BY <1>1, <1>2, <1>3, <1>8, <2>1, <2>2, <2>3, <2>4
         DEF IInv, ControlInv, LongTermIdxUnique, LongTermInv, RefreshInv
  <1>10. CASE counts # None
    <2>1. /\ stores' = [k \in DOMAIN slid \cup {nextKey} |->
                          IF k = nextKey THEN new ELSE slid[k]]
          /\ poc' = FinishNonExisting(poc, gap.unused, counts)
          /\ prevRefFrameNum' = gap.unused
          /\ nextKey' = nextKey + 1
          /\ gap' = loop
          /\ reply' = reply
      BY <1>10 DEF FillFrame
    <2>2. counts \in Poc
      BY <1>4, <1>10, NonExistingPoc
    <2>3. new \in FrameStore /\ \A p \in Parities : new.fields[p].marking = "ShortTerm"
      <3> HIDE DEF counts
      <3> QED
        BY <1>5, <2>2, NonExistingStoreType
    <2>4. poc' \in PocState
      <3> HIDE DEF counts
      <3> QED
        BY <1>4, <1>5, <2>1, <2>2 DEF FinishNonExisting, PocState, Poc
    <2>5. loop \in GapLoop
      <3>1. (gap.unused + 1) % max \in Nat
        BY <1>5
      <3>2. gap.nonExisting \cup {nextKey} \in SUBSET Nat
        BY <1>4 DEF GapLoop
      <3> HIDE DEF max
      <3> QED
        BY <1>4, <3>1, <3>2 DEF GapLoop
    <2> HIDE DEF slid, new, loop, counts
    <2>6. /\ AreStores(stores)'
          /\ DOMAIN stores' = DOMAIN stores \cup {nextKey}
          /\ stores'[nextKey] = new
          /\ \A k \in DOMAIN stores : k # nextKey => stores'[k] = slid[k]
      BY <1>4, <1>7, <2>1, <2>3 DEF AreStores
    <2>7. TypeOK'
      BY <1>1, <1>2, <1>4, <1>5, <2>1, <2>4, <2>5, <2>6 DEF TypeOK
    <2>8. KeysInv'
      <3>1. \A k \in DOMAIN stores \cup releasedEarly : k \in Nat /\ k < nextKey
        BY <1>1, <1>4 DEF KeysInv, AreStores
      <3>2. DOMAIN stores \cap releasedEarly = {}
        BY <1>1 DEF KeysInv
      <3> QED
        BY <1>2, <1>3, <1>4, <2>1, <2>6, <3>1, <3>2 DEF KeysInv
    <2>9. UniqueIdx(slid) => UniqueIdx(stores')
      BY <1>7, <2>3, <2>6 DEF UniqueIdx, IsMarked
    <2> QED
      BY <1>1, <1>2, <1>3, <1>8, <2>1, <2>7, <2>8, <2>9
         DEF IInv, ControlInv, LongTermIdxUnique, LongTermInv, RefreshIsolates, RefreshInv
  <1> QED
    BY <1>9, <1>10

\* What the window dropped leaves; the picture starts with a fresh key.
LEMMA EndGapInv ==
    ASSUME IInv, EndGap
    PROVE  IInv'
  <1>1. TypeOK /\ ControlInv /\ KeysInv /\ LongTermIdxUnique
    BY DEF IInv
  <1>2. /\ gap # None /\ gap' = None
        /\ stores' = EvictUnused(stores)
        /\ releasedEarly' = releasedEarly \cup UnusedKeys(stores)
        /\ StartPicture(gap.sps, gap.header, None, gap.abandonedFirstField,
                        gap.nonExisting)
        /\ UNCHANGED <<maxLongTermFrameIdx, poc, prevRefFrameNum, lastField, marking>>
    BY DEF EndGap
  <1>3. pending = None /\ marking = None /\ lastField = None
    BY <1>1, <1>2 DEF ControlInv
  <1>4. /\ AreStores(stores) /\ nextKey \in Nat /\ gap \in GapLoop
        /\ releasedEarly \in SUBSET Nat
    BY <1>1, <1>2 DEF TypeOK
  <1>5. /\ AreStores(EvictUnused(stores))
        /\ DOMAIN EvictUnused(stores) = References(stores)
        /\ References(stores) \subseteq DOMAIN stores
        /\ UnusedKeys(stores) \subseteq DOMAIN stores
        /\ UniqueIdx(stores) => UniqueIdx(EvictUnused(stores))
    BY <1>4, EvictUnusedType
  <1>6. /\ nextKey' \in Nat /\ nextKey' >= nextKey
        /\ reply' \in Reply
        /\ reply'.result \in {"begun", "error"}
        /\ \/ pending' = pending
           \/ /\ pending' \in CurrentPicture
              /\ pending'.key = nextKey /\ nextKey' = nextKey + 1
              /\ ~pending'.secondField
    <2>1. /\ gap.sps \in SpsSet /\ gap.header \in Headers
          /\ gap.abandonedFirstField \in Nat \cup {None}
          /\ gap.nonExisting \in SUBSET Nat
      BY <1>4 DEF GapLoop
    <2> QED
      BY <1>1, <1>2, <2>1, StartInv
  <1>7. TypeOK'
    <2>1. releasedEarly' \in SUBSET Nat
      BY <1>2, <1>4, <1>5 DEF AreStores
    <2> QED
      BY <1>1, <1>2, <1>3, <1>5, <1>6, <2>1 DEF TypeOK
  <1>8. ControlInv'
    BY <1>2, <1>3 DEF ControlInv
  <1>9. KeysInv'
    <2>1. \A k \in DOMAIN stores \cup releasedEarly : k \in Nat /\ k < nextKey
      BY <1>1, <1>4 DEF KeysInv, AreStores
    <2>2. DOMAIN stores' \cup releasedEarly' \subseteq DOMAIN stores \cup releasedEarly
      BY <1>2, <1>5
    <2>3. DOMAIN stores' \cap releasedEarly' = {}
      BY <1>1, <1>2, <1>5 DEF KeysInv, UnusedKeys
    <2>4. pending' # None => PictureInv(pending)'
      BY <1>3, <1>4, <1>6, <2>1, <2>2 DEF PictureInv
    <2> QED
      BY <1>2, <1>3, <1>4, <1>6, <2>1, <2>2, <2>3, <2>4 DEF KeysInv
  <1>10. LongTermIdxUnique'
    BY <1>1, <1>2, <1>5 DEF LongTermIdxUnique
  <1>11. RefreshIsolates'
    BY <1>6 DEF RefreshIsolates
  <1> QED
    BY <1>2, <1>3, <1>7, <1>8, <1>9, <1>10, <1>11 DEF IInv, LongTermInv, RefreshInv

-----------------------------------------------------------------------------
(* The calls of finish_picture *)

\* What the calls of finish_picture start from.
LEMMA PendingParts ==
    ASSUME IInv, Idle, pending # None
    PROVE  /\ pending \in CurrentPicture /\ PictureInv(pending)
           /\ gap = None /\ marking = None /\ lastField = None
           /\ AreStores(stores)
           /\ maxLongTermFrameIdx \in Nat \cup {None}
           /\ (\A h \in Headers : CommandsAgree(h)) => UniqueIdx(stores)
  BY DEF IInv, TypeOK, ControlInv, KeysInv, Idle, LongTermIdxUnique

\* A marking process that only unmarks leaves what Complete needs.
LEMMA UnmarksMarked ==
    ASSUME IInv, Idle, pending # None, NEW st, Unmarks(stores, st)
    PROVE  Marked(pending, st, None, FALSE)
  <1>1. (\A h \in Headers : CommandsAgree(h)) => UniqueIdx(st)
    BY PendingParts, UnmarksUnique
  <1>2. AreStores(st) /\ DOMAIN st = DOMAIN stores
    BY DEF Unmarks
  <1> QED
    BY <1>1, <1>2, PendingParts DEF Marked

\* A non-reference picture runs no marking process.
LEMMA FinishNonReferenceInv ==
    ASSUME IInv, NEW sps \in SpsSet, FinishNonReference(sps)
    PROVE  IInv'
  <1>1. /\ Idle /\ pending # None
        /\ Complete(sps, pending, stores, None, FALSE)
        /\ maxLongTermFrameIdx' = maxLongTermFrameIdx
    BY DEF FinishNonReference
  <1>2. AreStores(stores)
    BY DEF IInv, TypeOK
  <1>3. Unmarks(stores, stores)
    BY <1>2 DEF Unmarks
  <1>4. Marked(pending, stores, None, FALSE)
    BY <1>1, <1>3, UnmarksMarked
  <1> QED
    BY <1>1, <1>4, PendingParts, CompleteInv

\* The sliding window before the picture joins.
LEMMA FinishSlidingInv ==
    ASSUME IInv, NEW sps \in SpsSet, FinishSliding(sps)
    PROVE  IInv'
  <1> DEFINE st == SlidingWindow(stores, sps, pending.header.frameNum, pending.maxFrameNum,
                                 IF pending.secondField THEN pending.key ELSE None)
  <1>1. /\ Idle /\ pending # None
        /\ Complete(sps, pending, st, None, FALSE)
        /\ maxLongTermFrameIdx' = maxLongTermFrameIdx
    BY DEF FinishSliding
  <1>2. AreStores(stores)
    BY DEF IInv, TypeOK
  <1>3. Unmarks(stores, st)
    BY <1>2, SlidingWindowUnmarks
  <1> HIDE DEF st
  <1>4. Marked(pending, st, None, FALSE)
    BY <1>1, <1>3, UnmarksMarked
  <1> QED
    BY <1>1, <1>4, PendingParts, CompleteInv

\* After every field of every store is unmarked nothing is a reference.
LEMMA UnmarkAll ==
    ASSUME NEW st, AreStores(st)
    PROVE  /\ Unmarks(st, Unmark(st, AllFields(st)))
           /\ References(Unmark(st, AllFields(st))) = {}
           /\ \A k \in DOMAIN st : \A idx : ~HoldsIdx(Unmark(st, AllFields(st))[k], idx)
  <1> DEFINE new == Unmark(st, AllFields(st))
  <1>1. Unmarks(st, new)
    BY UnmarkUnmarks
  <1>2. \A k \in DOMAIN st, p \in Parities : new[k].fields[p].marking = "Unused"
    <2>1. ASSUME NEW k \in DOMAIN st, NEW p \in Parities
          PROVE  new[k].fields[p].marking = "Unused"
      <3>1. new[k].fields[p] = (IF <<k, p>> \in AllFields(st) THEN AsUnused(st[k].fields[p])
                                ELSE st[k].fields[p])
        BY UnmarkType
      <3>2. <<k, p>> \in AllFields(st)
        BY DEF AllFields
      <3>3. st[k].fields[p] \in FieldState
        BY StoreParts
      <3> HIDE DEF new
      <3> QED
        BY <3>1, <3>2, <3>3, AsUnusedField
    <2> QED
      BY <2>1
  <1>3. DOMAIN new = DOMAIN st
    BY <1>1 DEF Unmarks
  <1> HIDE DEF new
  <1>4. References(new) = {}
    BY <1>2, <1>3 DEF References, IsReference
  <1>5. \A k \in DOMAIN st : \A idx : ~HoldsIdx(new[k], idx)
    BY <1>2 DEF HoldsIdx, IsMarked
  <1> QED
    BY <1>1, <1>4, <1>5 DEF new

\* An IDR picture unmarks everything and may take index 0.
LEMMA FinishIdrInv ==
    ASSUME IInv, NEW sps \in SpsSet, FinishIdr(sps)
    PROVE  IInv'
  <1> DEFINE long == IF pending.header.longTermReference THEN 0 ELSE None
             st == Unmark(stores, AllFields(stores))
  <1>1. /\ Idle /\ pending # None
        /\ Complete(sps, pending, st, long, FALSE)
        /\ maxLongTermFrameIdx' = long
    BY DEF FinishIdr
  <1>2. AreStores(stores)
    BY DEF IInv, TypeOK
  <1>3. /\ Unmarks(stores, st) /\ \A k \in DOMAIN stores : \A idx : ~HoldsIdx(st[k], idx)
    BY <1>2, UnmarkAll
  <1>4. long \in Nat \cup {None}
    OBVIOUS
  <1> HIDE DEF st, long
  <1>5. Marked(pending, st, None, FALSE)
    BY <1>1, <1>3, UnmarksMarked
  <1>6. Marked(pending, st, long, FALSE)
    BY <1>3, <1>4, <1>5 DEF Marked
  <1> QED
    BY <1>1, <1>4, <1>6, PendingParts, CompleteInv

\* The picture moves from pending to the command loop.
LEMMA BeginMarkingInv ==
    ASSUME IInv, NEW sps \in SpsSet, BeginMarking(sps)
    PROVE  IInv'
  <1> DEFINE loop == [sps |-> sps, current |-> pending, next |-> 1,
                      currentLong |-> None, mmco5 |-> FALSE]
  <1>1. /\ Idle /\ pending # None /\ pending.header.reference
        /\ marking' = loop /\ pending' = None /\ reply' = None
        /\ UNCHANGED <<stores, maxLongTermFrameIdx, poc, prevRefFrameNum, nextKey,
                       lastField, releasedEarly, gap>>
    BY DEF BeginMarking
  <1>2. /\ pending \in CurrentPicture /\ PictureInv(pending)
        /\ gap = None /\ lastField = None
    BY <1>1, PendingParts
  <1>3. loop \in CommandLoop
    BY <1>2 DEF CommandLoop
  <1>4. loop.current = pending /\ loop.currentLong = None /\ loop.mmco5 = FALSE
    OBVIOUS
  <1> HIDE DEF loop
  <1>5. TypeOK'
    BY <1>1, <1>3 DEF IInv, TypeOK, Reply
  <1>6. KeysInv'
    BY <1>1, <1>2, <1>4 DEF IInv, KeysInv, PictureInv, Lacks
  <1> QED
    BY <1>1, <1>2, <1>4, <1>5, <1>6
       DEF IInv, ControlInv, LongTermIdxUnique, LongTermInv, RefreshIsolates, RefreshInv

\* What finish_picture knows after its last command.
LEMMA MarkingMarked ==
    ASSUME IInv, marking # None
    PROVE  Marked(marking.current, stores, marking.currentLong, marking.mmco5)
  <1> DEFINE cur == marking.current
  <1>1. marking \in CommandLoop /\ AreStores(stores)
    BY DEF IInv, TypeOK
  <1>2. /\ cur \in CurrentPicture
        /\ marking.currentLong \in Nat \cup {None} /\ marking.mmco5 \in BOOLEAN
    BY <1>1 DEF CommandLoop
  <1>3. PictureInv(cur)
    BY DEF IInv, KeysInv
  <1>4. marking.mmco5 => References(stores) = {}
    BY DEF IInv, RefreshInv
  <1>5. (\A h \in Headers : CommandsAgree(h)) =>
          /\ UniqueIdx(stores)
          /\ marking.currentLong # None =>
               \A k \in DOMAIN stores :
                  HoldsIdx(stores[k], marking.currentLong) => k = cur.key
    BY DEF IInv, LongTermIdxUnique, LongTermInv
  <1> QED
    BY <1>1, <1>2, <1>3, <1>4, <1>5 DEF Marked

\* The end of a call that ran commands.
LEMMA EndMarkingInv ==
    ASSUME IInv, EndMarking
    PROVE  IInv'
  <1>1. /\ marking # None
        /\ Complete(marking.sps, marking.current, stores, marking.currentLong, marking.mmco5)
        /\ maxLongTermFrameIdx' = maxLongTermFrameIdx
    BY DEF EndMarking
  <1>2. marking \in CommandLoop /\ maxLongTermFrameIdx \in Nat \cup {None}
    BY <1>1 DEF IInv, TypeOK
  <1>3. gap = None /\ lastField = None
    BY <1>1 DEF IInv, ControlInv
  <1>4. Marked(marking.current, stores, marking.currentLong, marking.mmco5)
    BY <1>1, MarkingMarked
  <1>5. marking.sps \in SpsSet
    BY <1>2 DEF CommandLoop
  <1> QED
    BY <1>1, <1>2, <1>3, <1>4, <1>5, CompleteInv

-----------------------------------------------------------------------------
(* One memory management command *)

\* No command turns an unused field into a reference.
LEMMA RemarksReferences ==
    ASSUME NEW st, NEW st2, Remarks(st, st2)
    PROVE  References(st2) \subseteq References(st)
  BY DEF Remarks, References, IsReference

\* After eviction only the spared store holds the index.
LEMMA EvictHolders ==
    ASSUME NEW st, AreStores(st), NEW idx, NEW spare
    PROVE  /\ Unmarks(st, EvictLongTermIdx(st, idx, spare))
           /\ \A k \in DOMAIN st :
                HoldsIdx(EvictLongTermIdx(st, idx, spare)[k], idx) => k = spare
  <1> DEFINE dropped == HoldersOfIdx(st, idx, spare)
             new == Unmark(st, dropped)
  <1>1. Unmarks(st, new)
    BY UnmarkUnmarks
  <1>2. ASSUME NEW k \in DOMAIN st, k # spare, NEW p \in Parities,
               IsMarked(new[k].fields[p], "LongTerm"),
               new[k].fields[p].longTermFrameIdx = idx
        PROVE  FALSE
    <2>1. new[k].fields[p] = (IF <<k, p>> \in dropped THEN AsUnused(st[k].fields[p])
                              ELSE st[k].fields[p])
      BY UnmarkType
    <2>2. st[k].fields[p] \in FieldState
      BY StoreParts
    <2>3. new[k].fields[p] = st[k].fields[p]
      <3> HIDE DEF new
      <3> QED
        BY <1>1, <1>2 DEF Unmarks, IsMarked
    <2>4. <<k, p>> \in dropped
      <3>1. HoldsIdx(st[k], idx)
        BY <1>2, <2>3 DEF HoldsIdx
      <3>2. st[k].fields[p].marking = "LongTerm"
        BY <1>2, <2>3 DEF IsMarked
      <3>3. <<k, p>> \in FieldsMarked(st, "LongTerm")
        BY <3>2 DEF FieldsMarked, AllFields
      <3>4. st[k].fields[p].longTermFrameIdx = idx
        BY <1>2, <2>3
      <3> QED
        BY <1>2, <3>1, <3>3, <3>4 DEF HoldersOfIdx
    <2> HIDE DEF new, dropped
    <2> QED
      BY <1>2, <2>1, <2>2, <2>4, AsUnusedField DEF IsMarked
  <1>3. EvictLongTermIdx(st, idx, spare) = new
    BY DEF EvictLongTermIdx
  <1> HIDE DEF new
  <1>4. \A k \in DOMAIN st : HoldsIdx(new[k], idx) => k = spare
    BY <1>2 DEF HoldsIdx
  <1> QED
    BY <1>1, <1>3, <1>4

\* Operation 3 keeps every index with one store, and gives away only op.idx.
LEMMA AssignUnique ==
    ASSUME NEW st, AreStores(st), UniqueIdx(st), NEW op \in MmcoOp,
           NEW cur \in Parities \cup {None}, NEW frameNum, NEW max
    PROVE  LET new == AssignShortTermToLong(st, op, cur, frameNum, max)
           IN  /\ UniqueIdx(new)
               /\ \A k \in DOMAIN st : \A idx :
                    idx # op.idx /\ HoldsIdx(new[k], idx) => HoldsIdx(st[k], idx)
  <1> DEFINE found == ShortTermEntries(st, cur, frameNum, max,
                                       CurrPicNum(cur, frameNum) - (op.diff + 1))
             target == FirstEntry(found)
             spare == IF cur # None /\ found # {} THEN target[1] ELSE None
             freed == EvictLongTermIdx(st, op.idx, spare)
             long == AssignLongTerm(freed, EntryFields(target), op.idx)
             new == AssignShortTermToLong(st, op, cur, frameNum, max)
  <1>1. new = (IF found = {} THEN freed ELSE long)
    BY DEF AssignShortTermToLong
  <1>2. /\ Unmarks(st, freed)
        /\ \A k \in DOMAIN st : HoldsIdx(freed[k], op.idx) => k = spare
    BY EvictHolders
  <1>3. spare = target[1] \/ spare = None
    OBVIOUS
  <1>4. None \notin DOMAIN st
    BY NoneAssumption DEF AreStores
  <1>5. op.idx \in Nat
    BY DEF MmcoOp
  <1> HIDE DEF found, spare, freed, new
  <1>6. AreStores(freed) /\ DOMAIN freed = DOMAIN st
    BY <1>2 DEF Unmarks
  <1>7. UniqueIdx(freed) /\ \A k \in DOMAIN st : \A idx : HoldsIdx(freed[k], idx) => HoldsIdx(st[k], idx)
    BY <1>2, <1>6, UnmarksUnique, UnmarksHolds
  <1>8. ASSUME NEW k \in DOMAIN st, NEW p \in Parities,
               IsMarked(long[k].fields[p], "LongTerm")
        PROVE  \/ k = target[1] /\ long[k].fields[p].longTermFrameIdx = op.idx
               \/ /\ IsMarked(freed[k].fields[p], "LongTerm")
                  /\ long[k].fields[p] = freed[k].fields[p]
    <2>1. long[k].fields[p] = (IF <<k, p>> \in EntryFields(target)
                               THEN AsLongTerm(freed[k].fields[p], op.idx)
                               ELSE freed[k].fields[p])
      BY <1>5, <1>6, AssignType
    <2>2. freed[k].fields[p] \in FieldState
      BY <1>6, StoreParts
    <2>3. <<k, p>> \in EntryFields(target) => k = target[1]
      BY DEF EntryFields
    <2> HIDE DEF long
    <2>4. CASE <<k, p>> \in EntryFields(target)
      <3>1. long[k].fields[p] = AsLongTerm(freed[k].fields[p], op.idx)
        BY <2>1, <2>4
      <3>2. AsLongTerm(freed[k].fields[p], op.idx).longTermFrameIdx = op.idx
        BY <1>5, <2>2, AsLongTermField
      <3>3. k = target[1]
        BY <2>3, <2>4
      <3> QED
        BY <3>1, <3>2, <3>3
    <2>5. CASE <<k, p>> \notin EntryFields(target)
      <3>1. long[k].fields[p] = freed[k].fields[p]
        BY <2>1, <2>5
      <3> QED
        BY <1>8, <3>1
    <2> QED
      BY <2>4, <2>5
  <1>9. DOMAIN long = DOMAIN st
    BY <1>6 DEF AssignLongTerm
  <1> HIDE DEF long, target
  <1>10. ASSUME NEW k \in DOMAIN st, NEW idx, idx # op.idx, HoldsIdx(long[k], idx)
         PROVE  HoldsIdx(st[k], idx)
    <2>1. PICK p \in Parities : /\ IsMarked(long[k].fields[p], "LongTerm")
                                /\ long[k].fields[p].longTermFrameIdx = idx
      BY <1>10 DEF HoldsIdx
    <2>2. HoldsIdx(freed[k], idx)
      BY <1>8, <1>10, <2>1 DEF HoldsIdx
    <2> QED
      BY <1>7, <2>2
  <1>11. UniqueIdx(long)
    <2>1. ASSUME NEW j \in DOMAIN st, NEW k \in DOMAIN st, NEW p \in Parities, NEW q \in Parities,
                 IsMarked(long[j].fields[p], "LongTerm"),
                 IsMarked(long[k].fields[q], "LongTerm"),
                 long[j].fields[p].longTermFrameIdx = long[k].fields[q].longTermFrameIdx,
                 k = target[1] /\ long[k].fields[q].longTermFrameIdx = op.idx
          PROVE  j = k
      <3>1. CASE j = target[1]
        BY <2>1, <3>1
      <3>2. CASE j # target[1]
        <4>1. HoldsIdx(freed[j], op.idx)
          BY <1>8, <2>1, <3>2 DEF HoldsIdx
        <4> QED
          BY <1>2, <1>3, <1>4, <3>2, <4>1
      <3> QED
        BY <3>1, <3>2
    <2>2. ASSUME NEW j \in DOMAIN st, NEW k \in DOMAIN st, NEW p \in Parities, NEW q \in Parities,
                 IsMarked(long[j].fields[p], "LongTerm"),
                 IsMarked(long[k].fields[q], "LongTerm"),
                 long[j].fields[p].longTermFrameIdx = long[k].fields[q].longTermFrameIdx
          PROVE  j = k
      <3>1. CASE k = target[1] /\ long[k].fields[q].longTermFrameIdx = op.idx
        BY <2>1, <2>2, <3>1
      <3>2. CASE j = target[1] /\ long[j].fields[p].longTermFrameIdx = op.idx
        BY <2>1, <2>2, <3>2
      <3>3. CASE /\ IsMarked(freed[k].fields[q], "LongTerm")
                 /\ long[k].fields[q] = freed[k].fields[q]
                 /\ IsMarked(freed[j].fields[p], "LongTerm")
                 /\ long[j].fields[p] = freed[j].fields[p]
        BY <1>6, <1>7, <2>2, <3>3 DEF UniqueIdx
      <3> QED
        BY <1>8, <2>2, <3>1, <3>2, <3>3
    <2> QED
      BY <1>9, <2>2 DEF UniqueIdx
  <1>12. UniqueIdx(new) /\ \A k \in DOMAIN st : \A idx :
            idx # op.idx /\ HoldsIdx(new[k], idx) => HoldsIdx(st[k], idx)
    BY <1>1, <1>7, <1>10, <1>11
  <1> QED
    BY <1>12 DEF new

\* Whatever the command: every index keeps one store, and one that holds an
\* index held it before, unless the command assigns that index.
LEMMA ApplyMmcoUnique ==
    ASSUME NEW st, AreStores(st), UniqueIdx(st), NEW op \in MmcoOp,
           NEW cur \in Parities \cup {None}, NEW frameNum, NEW max, NEW spare
    PROVE  LET new == ApplyMmco(st, op, cur, frameNum, max, spare)
           IN  /\ UniqueIdx(new)
               /\ \A k \in DOMAIN st : \A idx :
                    HoldsIdx(new[k], idx) /\ ~(op.code = 3 /\ idx = op.idx)
                      => HoldsIdx(st[k], idx)
  <1> DEFINE new == ApplyMmco(st, op, cur, frameNum, max, spare)
  <1>0. op.code \in 1 .. 6
    BY DEF MmcoOp
  <1>1. Unmarks(st, st)
    BY DEF Unmarks
  <1>2. \A dropped : Unmarks(st, Unmark(st, dropped))
    BY UnmarkUnmarks
  <1>3. CASE op.code = 3
    <2>1. new = AssignShortTermToLong(st, op, cur, frameNum, max)
      BY <1>3 DEF ApplyMmco
    <2> HIDE DEF new
    <2> QED
      BY <1>3, <2>1, AssignUnique DEF new
  <1>4. CASE op.code # 3
    <2>1. Unmarks(st, new)
      <3>1. CASE op.code = 1
        BY <1>1, <1>2, <3>1 DEF ApplyMmco, MarkShortTermUnused
      <3>2. CASE op.code = 2
        BY <1>1, <1>2, <3>2 DEF ApplyMmco, MarkLongTermUnused
      <3>3. CASE op.code = 4
        BY <1>2, <3>3 DEF ApplyMmco, SetMaxLongTermFrameIdx
      <3>4. CASE op.code = 5
        BY <1>2, <3>4 DEF ApplyMmco
      <3>5. CASE op.code = 6
        BY <1>2, <3>5 DEF ApplyMmco, EvictLongTermIdx
      <3> QED
        BY <1>0, <1>4, <3>1, <3>2, <3>3, <3>4, <3>5
    <2> HIDE DEF new
    <2>2. DOMAIN new = DOMAIN st
      BY <2>1 DEF Unmarks
    <2> QED
      BY <2>1, <2>2, UnmarksUnique, UnmarksHolds DEF new
  <1> QED
    BY <1>3, <1>4

\* The step of one memory management command.
LEMMA MarkNextInv ==
    ASSUME IInv, MarkNext
    PROVE  IInv'
  <1> DEFINE cur == marking.current
             op == cur.header.mmco[marking.next]
             parity == ParityOf(cur.header.structure)
             spare == IF cur.secondField THEN cur.key ELSE None
             new == ApplyMmco(stores, op, parity, cur.header.frameNum, cur.maxFrameNum, spare)
             loop == [marking EXCEPT !.next = @ + 1,
                                     !.mmco5 = @ \/ op.code = 5,
                                     !.currentLong = IF op.code = 6 THEN op.idx ELSE @]
  <1>1. TypeOK /\ ControlInv /\ KeysInv /\ LongTermIdxUnique /\ LongTermInv /\ RefreshInv
    BY DEF IInv
  <1>2. /\ marking # None /\ marking.next <= Len(cur.header.mmco)
        /\ stores' = new
        /\ maxLongTermFrameIdx' = (CASE op.code = 4 -> IF op.idx = 0 THEN None ELSE op.idx - 1
                                     [] op.code = 5 -> None
                                     [] OTHER -> maxLongTermFrameIdx)
        /\ marking' = loop
        /\ UNCHANGED <<poc, prevRefFrameNum, nextKey, pending, lastField, releasedEarly,
                       gap, reply>>
    BY DEF MarkNext
  <1>3. /\ AreStores(stores) /\ marking \in CommandLoop
        /\ maxLongTermFrameIdx \in Nat \cup {None}
    BY <1>1, <1>2 DEF TypeOK
  <1>4. /\ pending = None /\ lastField = None /\ reply = None /\ gap = None
        /\ PictureInv(cur) /\ cur.header.reference
    BY <1>1, <1>2 DEF ControlInv, KeysInv
  <1>5. /\ cur \in CurrentPicture /\ marking.next \in Nat \ {0}
        /\ marking.currentLong \in Nat \cup {None} /\ marking.mmco5 \in BOOLEAN
    BY <1>3 DEF CommandLoop
  <1>6. /\ cur.header \in Headers /\ cur.key \in Nat
        /\ cur.header.mmco \in Seq(MmcoOp)
        /\ parity \in Parities \cup {None}
        /\ IsField(cur.header.structure) => parity \in Parities
    BY <1>5, CurrentParts, HeaderParts
  <1>7. marking.next \in DOMAIN cur.header.mmco /\ op \in MmcoOp
    <2> DEFINE list == cur.header.mmco
               i == marking.next
    <2>1. list \in Seq(MmcoOp) /\ i \in Nat \ {0} /\ i <= Len(list)
      BY <1>2, <1>5, <1>6
    <2> HIDE DEF list, i
    <2>2. i \in DOMAIN list /\ list[i] \in MmcoOp
      BY <2>1
    <2> QED
      BY <2>2 DEF list, i
  <1>8. op.code \in 1 .. 6 /\ op.idx \in Nat
    BY <1>7 DEF MmcoOp
  <1>9. Remarks(stores, new)
    BY <1>3, <1>6, <1>7, ApplyMmcoRemarks
  <1>10. UniqueIdx(stores) =>
           /\ UniqueIdx(new)
           /\ \A k \in DOMAIN stores : \A idx :
                HoldsIdx(new[k], idx) /\ ~(op.code = 3 /\ idx = op.idx)
                  => HoldsIdx(stores[k], idx)
    <2> HIDE DEF op, parity, spare
    <2> QED
      BY <1>3, <1>6, <1>7, ApplyMmcoUnique
  <1>11. op.code = 6 => \A k \in DOMAIN stores : HoldsIdx(new[k], op.idx) => k = spare
    BY <1>3, EvictHolders DEF ApplyMmco
  <1>12. op.code = 5 => References(new) = {}
    BY <1>3, UnmarkAll DEF ApplyMmco
  <1>13. /\ loop \in CommandLoop
         /\ loop.current = cur
         /\ loop.next = marking.next + 1
         /\ loop.mmco5 = (marking.mmco5 \/ op.code = 5)
         /\ loop.currentLong = (IF op.code = 6 THEN op.idx ELSE marking.currentLong)
    <2> DEFINE five == marking.mmco5 \/ op.code = 5
               long == IF op.code = 6 THEN op.idx ELSE marking.currentLong
    <2>1. five \in BOOLEAN /\ long \in Nat \cup {None} /\ marking.next + 1 \in Nat \ {0}
      BY <1>5, <1>8
    <2>2. loop = [marking EXCEPT !.next = marking.next + 1, !.mmco5 = five,
                                 !.currentLong = long]
      OBVIOUS
    <2> HIDE DEF five, long, op
    <2>3. /\ loop \in CommandLoop /\ loop.current = cur /\ loop.next = marking.next + 1
          /\ loop.mmco5 = five /\ loop.currentLong = long
      <3> HIDE DEF loop
      <3> QED
        BY <1>3, <2>1, <2>2 DEF CommandLoop
    <2> QED
      BY <2>3 DEF five, long
  <1>14. AreStores(new) /\ DOMAIN new = DOMAIN stores
    <2> HIDE DEF new
    <2> QED
      BY <1>9 DEF Remarks
  <1>15. spare = cur.key \/ spare = None
    OBVIOUS
  <1>16. None \notin DOMAIN stores
    BY <1>3, NoneAssumption DEF AreStores
  <1> HIDE DEF new, loop, spare
  <1>17. TypeOK'
    <2>1. maxLongTermFrameIdx' \in Nat \cup {None}
      <3> HIDE DEF op
      <3> QED
        BY <1>2, <1>3, <1>8
    <2> HIDE DEF op
    <2> QED
      BY <1>1, <1>2, <1>13, <1>14, <2>1 DEF TypeOK
  <1>18. ControlInv'
    BY <1>2, <1>4 DEF ControlInv
  <1>19. KeysInv'
    <2>1. PictureInv(cur)'
      <3>1. cur.secondField => IsField(cur.header.structure)
        BY <1>4 DEF PictureInv
      <3>2. ASSUME cur.secondField, cur.key \in DOMAIN stores
            PROVE  Lacks(new[cur.key], parity)
        <4>1. Lacks(stores[cur.key], parity) /\ parity \in Parities
          BY <1>4, <1>6, <3>1, <3>2 DEF PictureInv
        <4> QED
          BY <1>9, <3>2, <4>1, RemarksLacks
      <3>3. /\ loop.current = cur /\ stores' = new /\ marking' = loop
            /\ nextKey' = nextKey /\ releasedEarly' = releasedEarly
        BY <1>2, <1>13
      <3> QED
        BY <1>4, <1>14, <3>2, <3>3 DEF PictureInv, Lacks
    <2>2. marking'.current = cur
      BY <1>2, <1>13
    <2> QED
      BY <1>1, <1>2, <1>4, <1>14, <2>1, <2>2 DEF KeysInv, PictureInv, Lacks
  <1>20. LongTermIdxUnique'
    BY <1>1, <1>2, <1>10 DEF LongTermIdxUnique
  <1>21. RefreshInv'
    <2>1. ASSUME loop.mmco5
          PROVE  HasMmco5(cur.header) /\ References(new) = {}
      <3>1. CASE op.code = 5
        BY <1>7, <1>12, <3>1 DEF HasMmco5
      <3>2. CASE op.code # 5
        <4>1. marking.mmco5
          BY <1>13, <2>1, <3>2
        <4> QED
          BY <1>1, <1>2, <1>9, <4>1, RemarksReferences DEF RefreshInv
      <3> QED
        BY <3>1, <3>2
    <2> QED
      BY <1>2, <1>13, <2>1 DEF RefreshInv
  <1>22. LongTermInv'
    <2>1. ASSUME \A h \in Headers : CommandsAgree(h), loop.currentLong # None
          PROVE  /\ \E i \in DOMAIN cur.header.mmco :
                      /\ i < loop.next
                      /\ cur.header.mmco[i].code = 6
                      /\ cur.header.mmco[i].idx = loop.currentLong
                 /\ \A k \in DOMAIN new : HoldsIdx(new[k], loop.currentLong) => k = cur.key
      <3>1. CASE op.code = 6
        <4>1. \A k \in DOMAIN new : HoldsIdx(new[k], op.idx) => k = cur.key
          BY <1>11, <1>14, <1>15, <1>16, <3>1
        <4>2. loop.currentLong = op.idx /\ marking.next < loop.next
          BY <1>5, <1>13, <3>1
        <4> QED
          BY <1>7, <3>1, <4>1, <4>2
      <3>2. CASE op.code # 6
        <4>1. loop.currentLong = marking.currentLong /\ marking.currentLong # None
          BY <1>13, <2>1, <3>2
        <4>2. PICK i \in DOMAIN cur.header.mmco :
                 /\ i < marking.next
                 /\ cur.header.mmco[i].code = 6
                 /\ cur.header.mmco[i].idx = marking.currentLong
          BY <1>1, <1>2, <2>1, <4>1 DEF LongTermInv
        <4>3. \A k \in DOMAIN stores : HoldsIdx(stores[k], marking.currentLong) => k = cur.key
          BY <1>1, <1>2, <2>1, <4>1 DEF LongTermInv
        <4>4. ~(op.code = 3 /\ marking.currentLong = op.idx)
          <5>1. CommandsAgree(cur.header)
            BY <1>6, <2>1
          <5> QED
            BY <1>7, <4>2, <5>1 DEF CommandsAgree
        <4>5. \A k \in DOMAIN new : HoldsIdx(new[k], marking.currentLong) => k = cur.key
          <5>1. \A k \in DOMAIN stores : \A idx :
                  HoldsIdx(new[k], idx) /\ ~(op.code = 3 /\ idx = op.idx)
                    => HoldsIdx(stores[k], idx)
            BY <1>1, <1>10, <2>1 DEF LongTermIdxUnique
          <5>2. \A k \in DOMAIN stores :
                  HoldsIdx(new[k], marking.currentLong) => HoldsIdx(stores[k], marking.currentLong)
            <6> HIDE DEF op
            <6> QED
              BY <4>4, <5>1
          <5> QED
            BY <1>14, <4>3, <5>2
        <4>6. i \in Nat /\ i < loop.next
          <5>1. i \in Nat
            BY <1>6, <4>2
          <5>2. i < marking.next /\ loop.next = marking.next + 1 /\ marking.next \in Nat
            BY <1>5, <1>13, <4>2
          <5> QED
            BY <5>1, <5>2
        <4> QED
          BY <4>1, <4>2, <4>5, <4>6
      <3> QED
        BY <3>1, <3>2
    <2>2. marking' = loop /\ loop.current = cur /\ stores' = new
      BY <1>2, <1>13
    <2> QED
      BY <2>1, <2>2 DEF LongTermInv
  <1>23. RefreshIsolates'
    BY <1>2, <1>4 DEF RefreshIsolates
  <1> QED
    BY <1>17, <1>18, <1>19, <1>20, <1>21, <1>22, <1>23 DEF IInv

-----------------------------------------------------------------------------
(* The other calls, and the theorems *)

\* A refused call changes nothing but its reply.
LEMMA OutOfTurnInv ==
    ASSUME IInv, OutOfTurn
    PROVE  IInv'
  <1>1. /\ gap = None /\ marking = None /\ reply' = Failed
        /\ UNCHANGED <<stores, maxLongTermFrameIdx, poc, prevRefFrameNum, nextKey,
                       pending, lastField, releasedEarly, gap, marking>>
    BY DEF OutOfTurn, Idle
  <1>2. TypeOK'
    BY <1>1 DEF IInv, TypeOK, Reply
  <1>3. KeysInv'
    BY <1>1 DEF IInv, KeysInv, PictureInv, Lacks
  <1>4. RefreshIsolates'
    BY <1>1 DEF RefreshIsolates, Failed
  <1> QED
    BY <1>1, <1>2, <1>3, <1>4
       DEF IInv, ControlInv, LongTermIdxUnique, LongTermInv, RefreshInv

\* No store is a function from no key to stores; nothing is long-term there.
LEMMA NoStores ==
    /\ AreStores(<<>>) /\ DOMAIN <<>> = {} /\ UniqueIdx(<<>>)
  BY DEF AreStores, UniqueIdx

\* The initial counts are in range.
LEMMA InitPocType == InitPocState \in PocState
  BY PocLimitAssumption DEF InitPocState, PocState, PocRange

\* clear() returns to the initial state but for the key counter.
LEMMA ClearInv ==
    ASSUME IInv, Clear
    PROVE  IInv'
  <1>1. /\ gap = None /\ marking = None
        /\ stores' = <<>> /\ maxLongTermFrameIdx' = None /\ poc' = InitPocState
        /\ prevRefFrameNum' = 0 /\ pending' = None /\ lastField' = None
        /\ releasedEarly' = {} /\ reply' = [result |-> "cleared"]
        /\ UNCHANGED <<nextKey, gap, marking>>
    BY DEF Clear, Idle
  <1>2. TypeOK'
    BY <1>1, NoStores, InitPocType DEF IInv, TypeOK, Reply
  <1>3. KeysInv' /\ LongTermIdxUnique'
    BY <1>1, NoStores DEF KeysInv, LongTermIdxUnique
  <1>4. RefreshIsolates'
    BY <1>1 DEF RefreshIsolates
  <1> QED
    BY <1>1, <1>2, <1>3, <1>4 DEF IInv, ControlInv, LongTermInv, RefreshInv

\* A new buffer satisfies the invariant.
LEMMA InitInv == Init => IInv
  <1> SUFFICES ASSUME Init  PROVE IInv
    OBVIOUS
  <1>1. TypeOK
    BY NoStores, InitPocType DEF Init, TypeOK, Reply
  <1>2. KeysInv /\ LongTermIdxUnique
    BY NoStores DEF Init, KeysInv, LongTermIdxUnique
  <1> QED
    BY <1>1, <1>2 DEF Init, IInv, ControlInv, LongTermInv, RefreshIsolates, RefreshInv

\* A step that changes nothing keeps the invariant.
LEMMA StutterInv ==
    ASSUME IInv, UNCHANGED vars
    PROVE  IInv'
  <1>1. /\ TypeOK' /\ ControlInv' /\ KeysInv'
    BY DEF vars, IInv, TypeOK, ControlInv, KeysInv, PictureInv, Lacks
  <1>2. LongTermIdxUnique' /\ LongTermInv' /\ RefreshIsolates' /\ RefreshInv'
    BY DEF vars, IInv, LongTermIdxUnique, LongTermInv, RefreshIsolates, RefreshInv
  <1> QED
    BY <1>1, <1>2 DEF IInv

\* Every step of every call keeps the invariant.
LEMMA NextInv == IInv /\ [Next]_vars => IInv'
  <1> SUFFICES ASSUME IInv, [Next]_vars  PROVE IInv'
    OBVIOUS
  <1>1. ASSUME NEW sps \in SpsSet, NEW h \in Headers, Begin(sps, h)  PROVE IInv'
    BY <1>1, BeginPictureInv, BeginAfterLossInv, BeginWithGapInv DEF Begin
  <1>2. ASSUME NEW sps \in SpsSet, Finish(sps)  PROVE IInv'
    BY <1>2, FinishNonReferenceInv, FinishIdrInv, FinishSlidingInv, BeginMarkingInv
       DEF Finish
  <1>3. CASE Continue
    BY <1>3, SkipFrameInv, FillFrameInv, EndGapInv, MarkNextInv, EndMarkingInv
       DEF Continue
  <1>4. CASE OutOfTurn
    BY <1>4, OutOfTurnInv
  <1>5. CASE Clear
    BY <1>5, ClearInv
  <1>6. CASE UNCHANGED vars
    BY <1>6, StutterInv
  <1> QED
    BY <1>1, <1>2, <1>3, <1>4, <1>5, <1>6 DEF Next

\* The inductive invariant holds in every state of every run.
THEOREM Invariance == Spec => []IInv
  BY InitInv, NextInv, PTL DEF Spec

\* Every value has its type: no count of a store or of the state leaves the
\* 32-bit range, whatever is derived, adjusted by operation 5 or inferred for
\* a gap.
THEOREM TypeCorrect == Spec => []TypeOK
  <1>1. IInv => TypeOK
    BY DEF IInv
  <1> QED
    BY <1>1, Invariance, PTL

\* Whatever marking did in between, a second field finds its own store.
THEOREM SecondFieldFitsAlways == Spec => []SecondFieldFits
  <1>1. IInv => SecondFieldFits
    BY DEF IInv, KeysInv, PictureInv, SecondFieldFits, Lacks
  <1> QED
    BY <1>1, Invariance, PTL

\* A key is one surface for one life.
THEOREM KeysNameOneStoreAlways == Spec => []KeysNameOneStore
  <1>1. IInv => KeysNameOneStore
    BY DEF IInv, KeysInv, PictureInv, KeysNameOneStore
  <1> QED
    BY <1>1, Invariance, PTL

\* One store for each LongTermFrameIdx, for streams whose command lists agree.
THEOREM LongTermIdxUniqueAlways == Spec => []LongTermIdxUnique
  <1>1. IInv => LongTermIdxUnique
    BY DEF IInv
  <1> QED
    BY <1>1, Invariance, PTL

\* Operation 5 leaves no older reference.
THEOREM RefreshIsolatesAlways == Spec => []RefreshIsolates
  <1>1. IInv => RefreshIsolates
    BY DEF IInv
  <1> QED
    BY <1>1, Invariance, PTL

-----------------------------------------------------------------------------
(* Marking only weakens *)

WeakerField(f, g) ==
    f.decoded => /\ g.decoded
                 /\ g.poc = f.poc
                 /\ f.marking = "Unused" => g.marking = "Unused"
                 /\ f.marking = "LongTerm" => g.marking # "ShortTerm"

Weakens(st, st2) ==
    \A k \in DOMAIN st : k \in DOMAIN st2 =>
        \A p \in Parities : WeakerField(st[k].fields[p], st2[k].fields[p])

\* One weakening after another, through stores that are all still there.
LEMMA WeakensTransitive ==
    ASSUME NEW st1, NEW st2, NEW st3, AreStores(st2),
           DOMAIN st1 \subseteq DOMAIN st2,
           Weakens(st1, st2), Weakens(st2, st3)
    PROVE  Weakens(st1, st3)
  <1> SUFFICES ASSUME NEW k \in DOMAIN st1, k \in DOMAIN st3, NEW p \in Parities
               PROVE  WeakerField(st1[k].fields[p], st3[k].fields[p])
    BY DEF Weakens
  <1>1. WeakerField(st1[k].fields[p], st2[k].fields[p])
    BY DEF Weakens
  <1>2. WeakerField(st2[k].fields[p], st3[k].fields[p])
    BY DEF Weakens
  <1>3. st2[k].fields[p].marking \in Markings
    BY StoreParts DEF FieldState
  <1> QED
    BY <1>1, <1>2, <1>3 DEF WeakerField, Markings

\* A command only weakens.
LEMMA RemarksWeakens ==
    ASSUME NEW st, NEW st2, Remarks(st, st2)
    PROVE  Weakens(st, st2)
  BY DEF Remarks, Weakens, WeakerField

\* Unmarking only weakens.
LEMMA UnmarksWeakens ==
    ASSUME NEW st, NEW st2, Unmarks(st, st2)
    PROVE  Weakens(st, st2)
  BY UnmarksIsRemarks, RemarksWeakens

\* The picture joins a store that lacks its field, and touches the other one
\* only to give it the index of the pair.
LEMMA InsertWeakens ==
    ASSUME NEW st, AreStores(st), NEW cur \in CurrentPicture, NEW counts \in Poc,
           NEW long \in Nat \cup {None}, NEW mmco5 \in BOOLEAN,
           cur.secondField => IsField(cur.header.structure),
           ~cur.secondField => cur.key \notin DOMAIN st,
           cur.secondField /\ cur.key \in DOMAIN st =>
             Lacks(st[cur.key], ParityOf(cur.header.structure))
    PROVE  Weakens(st, Insert(st, cur, counts, long, mmco5))
  <1> DEFINE h == cur.header
             p == ParityOf(h.structure)
             ins == Insert(st, cur, counts, long, mmco5)
             own == OwnField(h, p, counts, long)
  <1>1. \A f : WeakerField(f, f)
    BY DEF WeakerField
  <1>2. CASE ~h.reference
    BY <1>1, <1>2 DEF Weakens, Insert
  <1>3. CASE h.reference
    <2>1. \A k \in DOMAIN st : k # cur.key => ins[k] = st[k]
      BY <1>3 DEF Insert
    <2>2. ASSUME cur.key \in DOMAIN st, NEW q \in Parities
          PROVE  WeakerField(st[cur.key].fields[q], ins[cur.key].fields[q])
      <3>1. cur.secondField /\ Lacks(st[cur.key], p) /\ IsField(h.structure)
        BY <2>2
      <3>2. ins[cur.key] = JoinFields(st[cur.key], p, own, long)
        BY <1>3, <2>2, <3>1 DEF Insert
      <3>3. h \in Headers /\ p \in Parities
        BY <3>1, CurrentParts, HeaderParts
      <3>4. own \in FieldState
        BY <3>3, OwnFieldType
      <3>5. st[cur.key] \in FrameStore /\ st[cur.key].fields[q] \in FieldState
        BY <2>2, StoreParts
      <3> HIDE DEF own, p, ins, h
      <3>6. ins[cur.key].fields[q] =
              (IF q = p THEN own
               ELSE IF long # None /\ IsMarked(st[cur.key].fields[q], "LongTerm")
                    THEN AsLongTerm(st[cur.key].fields[q], long)
                    ELSE st[cur.key].fields[q])
        BY <3>2, <3>3, <3>4, <3>5, JoinFieldsType
      <3>7. CASE q = p
        BY <3>1, <3>7 DEF Lacks, WeakerField
      <3>8. CASE q # p /\ long # None /\ IsMarked(st[cur.key].fields[q], "LongTerm")
        <4>1. ins[cur.key].fields[q] = AsLongTerm(st[cur.key].fields[q], long)
          BY <3>6, <3>8
        <4>2. /\ AsLongTerm(st[cur.key].fields[q], long).marking = "LongTerm"
              /\ AsLongTerm(st[cur.key].fields[q], long).decoded
                   = st[cur.key].fields[q].decoded
              /\ AsLongTerm(st[cur.key].fields[q], long).poc = st[cur.key].fields[q].poc
          BY <3>5, <3>8, AsLongTermField
        <4> QED
          BY <3>8, <4>1, <4>2 DEF WeakerField, IsMarked
      <3>9. CASE q # p /\ ~(long # None /\ IsMarked(st[cur.key].fields[q], "LongTerm"))
        <4>1. ins[cur.key].fields[q] = st[cur.key].fields[q]
          BY <3>6, <3>9
        <4> QED
          BY <1>1, <4>1
      <3> QED
        BY <3>7, <3>8, <3>9
    <2> HIDE DEF ins
    <2> QED
      BY <1>1, <2>1, <2>2 DEF Weakens, ins
  <1> QED
    BY <1>2, <1>3

\* The end of finish_picture.
LEMMA CompleteWeakens ==
    ASSUME IInv, NEW sps, NEW cur, NEW st, NEW long, NEW mmco5,
           Marked(cur, st, long, mmco5), Remarks(stores, st),
           Complete(sps, cur, st, long, mmco5)
    PROVE  Weakens(stores, stores')
  <1> DEFINE h == cur.header
             counts == IF mmco5 THEN AfterMmco5(cur.poc, h.structure) ELSE cur.poc
             ins == Insert(st, cur, counts, long, mmco5)
             full == EnforceCapacity(ins, sps, h.frameNum, cur.maxFrameNum)
  <1>1. stores' = EvictUnused(full)
    BY DEF Complete
  <1>2. /\ cur \in CurrentPicture /\ AreStores(st) /\ DOMAIN st = DOMAIN stores
        /\ long \in Nat \cup {None} /\ mmco5 \in BOOLEAN
        /\ cur.secondField => IsField(h.structure)
        /\ ~cur.secondField => cur.key \notin DOMAIN st
    BY DEF Marked, PictureInv
  <1>3. cur.secondField /\ cur.key \in DOMAIN st => Lacks(st[cur.key], ParityOf(h.structure))
    <2>1. cur \in CurrentPicture /\ cur.secondField => ParityOf(h.structure) \in Parities
      BY <1>2, CurrentParts, HeaderParts
    <2>2. cur.secondField /\ cur.key \in DOMAIN stores =>
            Lacks(stores[cur.key], ParityOf(h.structure))
      BY DEF Marked, PictureInv
    <2> QED
      BY <1>2, <2>1, <2>2, RemarksLacks
  <1>4. counts \in Poc
    BY <1>2, CurrentParts, HeaderParts, AfterMmco5Type
  <1> HIDE DEF counts
  <1>5. Weakens(st, ins)
    BY <1>2, <1>3, <1>4, InsertWeakens
  <1>6. Settled(st, cur, ins, full)
    BY <1>2, <1>4, CompleteStores
  <1>7. DOMAIN st \subseteq DOMAIN ins
    BY DEF Insert
  <1> HIDE DEF ins, full
  <1>8. /\ AreStores(ins) /\ AreStores(full) /\ Unmarks(ins, full)
        /\ DOMAIN full = DOMAIN ins
        /\ DOMAIN stores' = References(full)
        /\ \A k \in References(full) : stores'[k] = full[k]
    BY <1>1, <1>6 DEF Settled
  <1>9. Weakens(ins, full)
    BY <1>8, UnmarksWeakens
  <1>10. Weakens(full, stores')
    BY <1>8 DEF Weakens, WeakerField
  <1>11. Weakens(stores, st)
    BY RemarksWeakens
  <1>12. Weakens(stores, ins)
    BY <1>2, <1>5, <1>8, <1>11, WeakensTransitive
  <1>13. Weakens(stores, full)
    BY <1>2, <1>7, <1>8, <1>9, <1>12, WeakensTransitive
  <1> QED
    BY <1>2, <1>7, <1>8, <1>10, <1>13, WeakensTransitive

\* Every step weakens.
LEMMA StepWeakens ==
    ASSUME IInv, Next
    PROVE  Weakens(stores, stores')
  <1>1. AreStores(stores)
    BY DEF IInv, TypeOK
  <1>2. Unmarks(stores, stores) /\ Remarks(stores, stores)
    BY <1>1, UnmarksIsRemarks DEF Unmarks
  <1>3. stores' = stores => Weakens(stores, stores')
    BY <1>2, UnmarksWeakens
  <1>4. ASSUME NEW sps \in SpsSet, NEW h \in Headers, Begin(sps, h)
        PROVE  Weakens(stores, stores')
    <2>1. stores' = stores \/ stores' = Unmark(stores, FieldsMarked(stores, "ShortTerm"))
      BY <1>4 DEF Begin, BeginPicture, BeginAfterLoss, BeginWithGap
    <2> QED
      BY <1>1, <1>3, <2>1, UnmarkUnmarks, UnmarksWeakens
  <1>5. ASSUME NEW sps \in SpsSet, FinishNonReference(sps)
        PROVE  Weakens(stores, stores')
    <2>1. Idle /\ pending # None /\ Complete(sps, pending, stores, None, FALSE)
      BY <1>5 DEF FinishNonReference
    <2> QED
      BY <1>2, <2>1, UnmarksMarked, CompleteWeakens
  <1>6. ASSUME NEW sps \in SpsSet, FinishIdr(sps)
        PROVE  Weakens(stores, stores')
    <2> DEFINE st == Unmark(stores, AllFields(stores))
               long == IF pending.header.longTermReference THEN 0 ELSE None
    <2>1. Idle /\ pending # None /\ Complete(sps, pending, st, long, FALSE)
      BY <1>6 DEF FinishIdr
    <2>2. Unmarks(stores, st) /\ \A k \in DOMAIN stores : \A idx : ~HoldsIdx(st[k], idx)
      BY <1>1, UnmarkAll
    <2>3. long \in Nat \cup {None}
      OBVIOUS
    <2> HIDE DEF st, long
    <2>4. Marked(pending, st, long, FALSE)
      BY <2>1, <2>2, <2>3, UnmarksMarked DEF Marked
    <2> QED
      BY <2>1, <2>2, <2>4, UnmarksIsRemarks, CompleteWeakens
  <1>7. ASSUME NEW sps \in SpsSet, FinishSliding(sps)
        PROVE  Weakens(stores, stores')
    <2> DEFINE st == SlidingWindow(stores, sps, pending.header.frameNum,
                                   pending.maxFrameNum,
                                   IF pending.secondField THEN pending.key ELSE None)
    <2>1. Idle /\ pending # None /\ Complete(sps, pending, st, None, FALSE)
      BY <1>7 DEF FinishSliding
    <2>2. Unmarks(stores, st)
      BY <1>1, SlidingWindowUnmarks
    <2> HIDE DEF st
    <2> QED
      BY <2>1, <2>2, UnmarksMarked, UnmarksIsRemarks, CompleteWeakens
  <1>8. ASSUME FillFrame
        PROVE  Weakens(stores, stores')
    <2> DEFINE slid == SlidingWindow(stores, gap.sps, gap.unused, gap.sps.maxFrameNum, None)
    <2>1. Unmarks(stores, slid)
      BY <1>1, SlidingWindowUnmarks
    <2>2. \A k \in DOMAIN slid : k \in DOMAIN stores' /\ k # nextKey => stores'[k] = slid[k]
      BY <1>8 DEF FillFrame
    <2>3. \A k \in DOMAIN stores : k \in Nat /\ k < nextKey
      BY <1>1 DEF IInv, KeysInv, AreStores
    <2>4. nextKey \in Nat
      BY DEF IInv, TypeOK
    <2> HIDE DEF slid
    <2>5. DOMAIN slid = DOMAIN stores /\ Weakens(stores, slid)
      BY <2>1, UnmarksWeakens DEF Unmarks
    <2>6. nextKey \notin DOMAIN stores
      BY <2>3, <2>4
    <2> QED
      BY <2>2, <2>5, <2>6 DEF Weakens
  <1>9. ASSUME EndGap
        PROVE  Weakens(stores, stores')
    <2>1. stores' = EvictUnused(stores)
      BY <1>9 DEF EndGap
    <2> QED
      BY <2>1 DEF EvictUnused, References, Weakens, WeakerField
  <1>10. ASSUME MarkNext
         PROVE  Weakens(stores, stores')
    <2> DEFINE cur == marking.current
               op == cur.header.mmco[marking.next]
               parity == ParityOf(cur.header.structure)
               spare == IF cur.secondField THEN cur.key ELSE None
    <2>1. /\ marking # None /\ marking.next <= Len(cur.header.mmco)
          /\ stores' = ApplyMmco(stores, op, parity, cur.header.frameNum,
                                 cur.maxFrameNum, spare)
      BY <1>10 DEF MarkNext
    <2>2. cur \in CurrentPicture /\ marking.next \in Nat \ {0}
      BY <2>1 DEF IInv, TypeOK, CommandLoop
    <2>3. cur.header.mmco \in Seq(MmcoOp) /\ parity \in Parities \cup {None}
      BY <2>2, CurrentParts, HeaderParts
    <2>4. op \in MmcoOp
      BY <2>1, <2>2, <2>3
    <2> HIDE DEF op, parity, spare
    <2> QED
      BY <1>1, <2>1, <2>3, <2>4, ApplyMmcoRemarks, RemarksWeakens
  <1>11. ASSUME EndMarking
         PROVE  Weakens(stores, stores')
    <2> DEFINE cur == marking.current
    <2>1. /\ marking # None
          /\ Complete(marking.sps, cur, stores, marking.currentLong, marking.mmco5)
      BY <1>11 DEF EndMarking
    <2>2. Marked(cur, stores, marking.currentLong, marking.mmco5)
      BY <2>1, MarkingMarked
    <2> QED
      BY <1>2, <2>1, <2>2, CompleteWeakens
  <1>12. CASE Clear
    BY <1>12 DEF Clear, Weakens
  <1>13. SkipFrame \/ OutOfTurn => stores' = stores
    BY DEF SkipFrame, OutOfTurn
  <1>14. ASSUME NEW sps \in SpsSet, BeginMarking(sps)
         PROVE  Weakens(stores, stores')
    BY <1>3, <1>14 DEF BeginMarking
  <1> QED
    BY <1>3, <1>4, <1>5, <1>6, <1>7, <1>8, <1>9, <1>10, <1>11, <1>12, <1>13, <1>14
       DEF Next, Finish, Continue

\* No step of any call makes a dropped field a reference again, turns a
\* long-term field short-term or changes the counts of a decoded field.
THEOREM MarkingOnlyWeakensAlways == Spec => MarkingOnlyWeakens
  <1>1. IInv /\ [Next]_vars => [MarkingWeakens]_vars
    <2> SUFFICES ASSUME IInv, Next  PROVE MarkingWeakens
      OBVIOUS
    <2>1. Weakens(stores, stores')
      BY StepWeakens
    <2> QED
      BY <2>1 DEF Weakens, WeakerField, MarkingWeakens
  <1> QED
    BY <1>1, Invariance, PTL DEF Spec, MarkingOnlyWeakens

-----------------------------------------------------------------------------
(* The capacity *)

\* EnforceCapacity leaves as many references as there is capacity.
LEMMA CapacityEnforced ==
    ASSUME NEW st, AreStores(st), IsFiniteSet(DOMAIN st), NEW sps \in SpsSet, NEW frameNum \in Nat, NEW max \in Nat
    PROVE  /\ IsFiniteSet(References(EnforceCapacity(st, sps, frameNum, max)))
           /\ Cardinality(References(EnforceCapacity(st, sps, frameNum, max))) <= RefCap(sps)
  <1> DEFINE refs    == References(st)
             R       == DroppedBefore(st, frameNum, max)
             excess  == Cardinality(refs) - RefCap(sps)
             victims == {k \in refs : Cardinality(Before(refs, R, k)) < excess}
             new     == EnforceCapacity(st, sps, frameNum, max)
  <1>1. RefCap(sps) \in Nat
    BY InputsAssumption DEF Sps, RefCap
  <1>2. refs \subseteq DOMAIN st /\ refs \subseteq Nat /\ IsFiniteSet(refs) /\ Cardinality(refs) \in Nat
    BY FS_Subset, FS_CardinalityType DEF References, AreStores
  <1>3. /\ \A j \in refs : <<j, j>> \notin R
        /\ \A i, j, k \in refs : <<i, j>> \in R /\ <<j, k>> \in R => <<i, k>> \in R
    BY <1>2, DropsStrict DEF DroppedBefore
  <1>4. \A k \in refs : Before(refs, R, k) = {j \in refs : DropsBefore(st, frameNum, max, j, k)}
    BY <1>2 DEF Before, DroppedBefore
  <1>5. OverCapacity(st, sps, frameNum, max) = {e \in AllFields(st) : e[1] \in victims}
    <2>1. victims = {k \in refs : Cardinality({j \in refs : DropsBefore(st, frameNum, max, j, k)}) < excess}
      BY <1>4
    <2> QED
      BY <2>1 DEF OverCapacity
  <1> HIDE DEF R
  <1>6. refs \ victims = {} \/ Cardinality(refs \ victims) <= Cardinality(refs) - excess
    BY <1>1, <1>2, <1>3, RankedFew
  <1>7. References(new) \subseteq refs \ victims
    <2> SUFFICES ASSUME NEW k \in References(new)
                 PROVE  k \in refs /\ k \notin victims
      OBVIOUS
    <2>1. new = Unmark(st, OverCapacity(st, sps, frameNum, max))
      BY DEF EnforceCapacity
    <2>2. k \in DOMAIN st /\ k \in refs
      BY <2>1, UnmarkUnmarks, UnmarksReferences DEF References
    <2>3. PICK p \in Parities : new[k].fields[p].decoded /\ new[k].fields[p].marking # "Unused"
      BY DEF References, IsReference
    <2>4. <<k, p>> \notin OverCapacity(st, sps, frameNum, max)
      <3>1. <<k, p>> \in OverCapacity(st, sps, frameNum, max) => new[k].fields[p] = AsUnused(st[k].fields[p])
        BY <2>1, <2>2, UnmarkType
      <3>2. AsUnused(st[k].fields[p]).marking = "Unused"
        BY <2>2, StoreParts, AsUnusedField
      <3> QED
        BY <2>3, <3>1, <3>2
    <2> QED
      BY <1>5, <2>2, <2>4 DEF AllFields
  <1>8. IsFiniteSet(refs \ victims) /\ Cardinality(refs \ victims) \in Nat /\ Cardinality({}) = 0
    BY <1>2, FS_Subset, FS_CardinalityType, FS_EmptySet
  <1>9. Cardinality(refs \ victims) <= RefCap(sps)
    <2> DEFINE left == refs \ victims
    <2>1. /\ left = {} \/ Cardinality(left) <= Cardinality(refs) - excess
          /\ Cardinality(left) \in Nat /\ Cardinality({}) = 0
      BY <1>6, <1>8
    <2>2. excess = Cardinality(refs) - RefCap(sps)
      OBVIOUS
    <2> HIDE DEF left, excess, refs
    <2>3. Cardinality(left) <= RefCap(sps)
      <3>1. CASE left = {}
        BY <1>1, <2>1, <3>1
      <3>2. CASE Cardinality(left) <= Cardinality(refs) - excess
        <4>1. Cardinality(refs) \in Nat
          BY <1>2
        <4> QED
          BY <1>1, <2>1, <2>2, <3>2, <4>1
      <3> QED
        BY <2>1, <3>1, <3>2
    <2> QED
      BY <2>3 DEF left
  <1> HIDE DEF refs, victims, new
  <1>10. IsFiniteSet(References(new)) /\ Cardinality(References(new)) <= Cardinality(refs \ victims)
         /\ Cardinality(References(new)) \in Nat
    BY <1>7, <1>8, FS_Subset, FS_CardinalityType
  <1> QED
    BY <1>1, <1>8, <1>9, <1>10 DEF new

\* The sliding window leaves room for the picture, or the long-term pictures alone.
LEMMA WindowSlid ==
    ASSUME NEW st, AreStores(st), IsFiniteSet(DOMAIN st), NEW sps \in SpsSet, NEW frameNum \in Nat, NEW max \in Nat,
           Cardinality(Holders(st, "LongTerm")) <= RefCap(sps)
    PROVE  LET new == SlidingWindow(st, sps, frameNum, max, None)
           IN  /\ IsFiniteSet(References(new))
               /\ Cardinality(References(new)) <= RefCap(sps)
               /\ Holders(new, "LongTerm") \subseteq Holders(st, "LongTerm")
  <1> DEFINE short   == Holders(st, "ShortTerm")
             long    == Holders(st, "LongTerm")
             R       == OlderThan(st, frameNum, max)
             excess  == Cardinality(short) + Cardinality(long) - RefCap(sps) + 1
             victims == {k \in short : Cardinality(Before(short, R, k)) < excess}
             left    == short \ victims
             new     == SlidingWindow(st, sps, frameNum, max, None)
  <1>1. RefCap(sps) \in Nat
    BY InputsAssumption DEF Sps, RefCap
  <1>2. /\ short \subseteq DOMAIN st /\ short \subseteq Nat /\ IsFiniteSet(short) /\ Cardinality(short) \in Nat
        /\ long \subseteq DOMAIN st /\ IsFiniteSet(long) /\ Cardinality(long) \in Nat
    BY FS_Subset, FS_CardinalityType DEF Holders, AreStores
  <1>3. /\ \A j \in short : <<j, j>> \notin R
        /\ \A i, j, k \in short : <<i, j>> \in R /\ <<j, k>> \in R => <<i, k>> \in R
    BY <1>2, OlderStrict DEF OlderThan
  <1>4. \A k \in short : Before(short, R, k) = {j \in short : Older(st, frameNum, max, j, k)}
    BY <1>2 DEF Before, OlderThan
  <1>5. SlidOut(st, sps, frameNum, max) = {e \in FieldsMarked(st, "ShortTerm") : e[1] \in victims}
    <2>1. victims = {k \in short : Cardinality({j \in short : Older(st, frameNum, max, j, k)}) < excess}
      BY <1>4
    <2> QED
      BY <2>1 DEF SlidOut
  <1> HIDE DEF R
  <1>6. excess \in Int
    BY <1>1, <1>2
  <1>7. left = {} \/ Cardinality(left) <= Cardinality(short) - excess
    <2> HIDE DEF excess
    <2> QED
      BY <1>2, <1>3, <1>6, RankedFew
  <1>8. IsFiniteSet(left) /\ Cardinality(left) \in Nat /\ Cardinality({}) = 0
    BY <1>2, FS_Subset, FS_CardinalityType, FS_EmptySet
  <1>9. new = Unmark(st, SlidOut(st, sps, frameNum, max))
    BY DEF SlidingWindow
  <1> DEFINE dropped == SlidOut(st, sps, frameNum, max)
  <1>10. ASSUME NEW k \in DOMAIN st, NEW p \in Parities, new[k].fields[p].marking # "Unused"
         PROVE  new[k].fields[p] = st[k].fields[p] /\ <<k, p>> \notin dropped
    <2> HIDE DEF dropped, new
    <2>1. new[k].fields[p] = IF <<k, p>> \in dropped THEN AsUnused(st[k].fields[p]) ELSE st[k].fields[p]
      BY <1>9, UnmarkType DEF dropped
    <2>2. AsUnused(st[k].fields[p]).marking = "Unused"
      BY StoreParts, AsUnusedField
    <2> QED
      BY <1>10, <2>1, <2>2
  <1>11. DOMAIN new = DOMAIN st
    BY <1>9, UnmarkType
  <1>12. Holders(new, "LongTerm") \subseteq long
    <2> HIDE DEF new, dropped
    <2> QED
      BY <1>10, <1>11 DEF Holders, AnyMarked, IsMarked
  <1>13. References(new) \subseteq left \cup long
    <2> SUFFICES ASSUME NEW k \in References(new), k \notin long
                 PROVE  k \in left
      OBVIOUS
    <2>1. k \in DOMAIN st
      BY <1>11 DEF References
    <2>2. PICK p \in Parities : new[k].fields[p].decoded /\ new[k].fields[p].marking # "Unused"
      BY DEF References, IsReference
    <2>3. new[k].fields[p] = st[k].fields[p] /\ <<k, p>> \notin dropped
      BY <1>10, <2>1, <2>2
    <2>4. st[k].fields[p].marking = "ShortTerm" /\ st[k].fields[p].decoded
      <3>1. st[k].fields[p].marking \in Markings /\ st[k].fields[p].decoded /\ st[k].fields[p].marking # "Unused"
        BY <2>1, <2>2, <2>3, StoreParts DEF FieldState
      <3>2. st[k].fields[p].marking # "LongTerm"
        BY <2>1, <3>1 DEF Holders, AnyMarked, IsMarked
      <3> QED
        BY <3>1, <3>2 DEF Markings
    <2>5. k \in short
      BY <2>1, <2>4 DEF Holders, AnyMarked, IsMarked
    <2>6. <<k, p>> \in FieldsMarked(st, "ShortTerm")
      BY <2>1, <2>4 DEF FieldsMarked, AllFields
    <2>7. k \notin victims
      BY <1>5, <2>3, <2>6
    <2> QED
      BY <2>5, <2>7
  <1> HIDE DEF left, long, short, new
  <1>14. IsFiniteSet(left \cup long) /\ Cardinality(left \cup long) <= Cardinality(left) + Cardinality(long)
    <2>1. IsFiniteSet(left \cap long) /\ Cardinality(left \cap long) \in Nat
      BY <1>8, FS_Subset, FS_CardinalityType
    <2>2. IsFiniteSet(long)
      BY <1>2 DEF long
    <2>3. /\ IsFiniteSet(left \cup long)
          /\ Cardinality(left \cup long) = Cardinality(left) + Cardinality(long) - Cardinality(left \cap long)
      BY <1>8, <2>2, FS_Union
    <2>4. Cardinality(long) \in Nat
      BY <1>2 DEF long
    <2> QED
      BY <1>8, <2>1, <2>3, <2>4
  <1>15. Cardinality(left \cup long) \in Nat
    BY <1>14, FS_CardinalityType
  <1>16. Cardinality(left) + Cardinality(long) <= RefCap(sps)
    <2>1. CASE left = {}
      BY <1>1, <1>2, <1>8, <2>1 DEF long
    <2>2. CASE Cardinality(left) <= Cardinality(short) - excess
      BY <1>1, <1>2, <1>8, <2>2
    <2> QED
      BY <1>7, <2>1, <2>2
  <1>17. IsFiniteSet(References(new)) /\ Cardinality(References(new)) <= Cardinality(left \cup long)
         /\ Cardinality(References(new)) \in Nat
    BY <1>13, <1>14, FS_Subset, FS_CardinalityType
  <1> QED
    BY <1>1, <1>2, <1>8, <1>12, <1>14, <1>15, <1>16, <1>17 DEF new, long

\* The keys handed out are finitely many, so are the stores.
LEMMA StoresFinite ==
      ASSUME IInv
      PROVE  AreStores(stores) /\ IsFiniteSet(DOMAIN stores)
  <1>1. AreStores(stores) /\ nextKey \in Nat
    BY DEF IInv, TypeOK
  <1>2. DOMAIN stores \subseteq 0 .. nextKey
    BY <1>1 DEF IInv, KeysInv, AreStores
  <1>3. IsFiniteSet(0 .. nextKey)
    BY <1>1, FS_Interval
  <1> QED
    BY <1>1, <1>2, <1>3, FS_Subset

\* References and holders of finitely many stores are counted.
LEMMA Counted ==
      ASSUME NEW st, IsFiniteSet(DOMAIN st)
      PROVE  /\ IsFiniteSet(References(st)) /\ Cardinality(References(st)) \in Nat
             /\ \A m : IsFiniteSet(Holders(st, m)) /\ Cardinality(Holders(st, m)) \in Nat
  <1>1. References(st) \subseteq DOMAIN st /\ \A m : Holders(st, m) \subseteq DOMAIN st
    BY DEF References, Holders
  <1> QED
    BY <1>1, FS_Subset, FS_CardinalityType

\* The stores that hold a long-term field are references.
LEMMA LongAreReferences ==
      ASSUME NEW st
      PROVE  Holders(st, "LongTerm") \subseteq References(st)
    BY DEF Holders, References, AnyMarked, IsMarked, IsReference

\* A step that leaves no new reference and no new long-term picture keeps the bounds.
LEMMA FewerReferences ==
      ASSUME IInv, NEW cap \in Nat, FewReferences(cap),
             References(stores') \subseteq References(stores),
             marking' = None => /\ marking = None
                                /\ Holders(stores', "LongTerm") \subseteq Holders(stores, "LongTerm"),
             reply' # None /\ reply'.result = "finished" => reply' = reply
      PROVE  FewReferences(cap)'
  <1>1. /\ IsFiniteSet(References(stores)) /\ Cardinality(References(stores)) \in Nat
        /\ IsFiniteSet(Holders(stores, "LongTerm")) /\ Cardinality(Holders(stores, "LongTerm")) \in Nat
    BY StoresFinite, Counted
  <1>2. /\ IsFiniteSet(References(stores')) /\ Cardinality(References(stores')) \in Nat
        /\ Cardinality(References(stores')) <= Cardinality(References(stores))
    BY <1>1, FS_Subset, FS_CardinalityType
  <1>3. marking' = None =>
          /\ Cardinality(Holders(stores', "LongTerm")) \in Nat
          /\ Cardinality(Holders(stores', "LongTerm")) <= Cardinality(Holders(stores, "LongTerm"))
    BY <1>1, FS_Subset, FS_CardinalityType
  <1>4. /\ Cardinality(References(stores)) <= cap + 1
        /\ marking' = None => Cardinality(Holders(stores, "LongTerm")) <= cap
        /\ reply' # None /\ reply'.result = "finished" => Cardinality(References(stores)) <= cap
    BY DEF FewReferences
  <1>5. Cardinality(References(stores')) <= cap + 1
    BY <1>1, <1>2, <1>4
  <1>6. marking' = None => Cardinality(Holders(stores', "LongTerm")) <= cap
    BY <1>1, <1>3, <1>4
  <1>7. reply' # None /\ reply'.result = "finished" => Cardinality(References(stores')) <= cap
    BY <1>1, <1>2, <1>4
  <1> QED
    BY <1>5, <1>6, <1>7 DEF FewReferences

\* Few references in all are few long-term ones.
LEMMA FewSuffice ==
      ASSUME NEW cap \in Nat, IsFiniteSet(References(stores')),
             Cardinality(References(stores')) <= cap
      PROVE  FewReferences(cap)'
  <1>1. Cardinality(References(stores')) \in Nat
    BY FS_CardinalityType
  <1>2. /\ Cardinality(Holders(stores', "LongTerm")) \in Nat
        /\ Cardinality(Holders(stores', "LongTerm")) <= Cardinality(References(stores'))
    BY LongAreReferences, FS_Subset, FS_CardinalityType
  <1>3. /\ Cardinality(References(stores')) <= cap + 1
        /\ Cardinality(Holders(stores', "LongTerm")) <= cap
    BY <1>1, <1>2
  <1> QED
    BY <1>3 DEF FewReferences

\* A finished picture leaves as many references as there is capacity.
LEMMA CompleteFew ==
      ASSUME IInv, NEW cap \in Nat, NEW sps \in SpsSet, RefCap(sps) = cap,
             NEW cur, NEW st, NEW long, NEW mmco5,
             Marked(cur, st, long, mmco5),
             Complete(sps, cur, st, long, mmco5)
      PROVE  FewReferences(cap)'
  <1> DEFINE h == cur.header
             counts == IF mmco5 THEN AfterMmco5(cur.poc, h.structure) ELSE cur.poc
             ins == Insert(st, cur, counts, long, mmco5)
             full == EnforceCapacity(ins, sps, h.frameNum, cur.maxFrameNum)
  <1>1. stores' = EvictUnused(full)
    BY DEF Complete
  <1>2. /\ cur \in CurrentPicture /\ AreStores(st) /\ DOMAIN st = DOMAIN stores
        /\ long \in Nat \cup {None} /\ mmco5 \in BOOLEAN
        /\ cur.secondField => IsField(h.structure)
    BY DEF Marked, PictureInv
  <1>3. /\ h.frameNum \in Nat /\ h.structure \in Structures /\ cur.poc \in Poc /\ cur.key \in Nat
        /\ cur.maxFrameNum \in Nat
    BY <1>2, CurrentParts, HeaderParts DEF CurrentPicture
  <1>4. counts \in Poc
    BY <1>3, AfterMmco5Type
  <1> HIDE DEF counts
  <1>5. Settled(st, cur, ins, full)
    BY <1>2, <1>4, CompleteStores
  <1>6. AreStores(ins) /\ IsFiniteSet(DOMAIN ins)
    <2>1. IsFiniteSet(DOMAIN st \cup {cur.key})
      BY <1>2, StoresFinite, FS_AddElement
    <2> HIDE DEF ins, full
    <2>2. AreStores(ins) /\ DOMAIN ins \subseteq DOMAIN st \cup {cur.key}
      BY <1>5 DEF Settled
    <2> QED
      BY <2>1, <2>2, FS_Subset
  <1> HIDE DEF ins, h
  <1>7. IsFiniteSet(References(full)) /\ Cardinality(References(full)) <= RefCap(sps)
    BY <1>3, <1>6, CapacityEnforced
  <1> HIDE DEF full
  <1>8. References(stores') \subseteq References(full)
    BY <1>1 DEF EvictUnused, References
  <1>9. /\ IsFiniteSet(References(stores')) /\ Cardinality(References(stores')) \in Nat
        /\ Cardinality(References(full)) \in Nat
        /\ Cardinality(References(stores')) <= Cardinality(References(full))
    BY <1>7, <1>8, FS_Subset, FS_CardinalityType
  <1>10. Cardinality(References(stores')) <= cap
    BY <1>7, <1>9
  <1> QED
    BY <1>9, <1>10, FewSuffice

\* An inserted frame takes the room the window made, and one place more at most.
LEMMA FillFrameFew ==
      ASSUME IInv, NEW cap \in Nat, \A sps \in SpsSet : RefCap(sps) = cap, FewReferences(cap),
             FillFrame
      PROVE  FewReferences(cap)'
  <1> DEFINE max == gap.sps.maxFrameNum
             slid == SlidingWindow(stores, gap.sps, gap.unused, max, None)
             counts == DeriveNonExisting(poc, gap.sps, gap.unused)
             new == NonExistingStore(gap.unused, counts)
  <1>1. /\ gap # None /\ marking = None /\ marking' = None /\ reply = None
        /\ AreStores(stores) /\ poc \in PocState /\ gap \in GapLoop /\ nextKey \in Nat
    BY DEF IInv, TypeOK, ControlInv, FillFrame
  <1>2. /\ gap.sps \in SpsSet /\ gap.unused \in Nat /\ max \in Nat
    BY <1>1, InputsAssumption DEF GapLoop, Sps
  <1>3. IsFiniteSet(DOMAIN stores) /\ Cardinality(Holders(stores, "LongTerm")) <= cap
        /\ RefCap(gap.sps) = cap
    BY <1>1, <1>2, StoresFinite DEF FewReferences
  <1>4. /\ IsFiniteSet(References(slid)) /\ Cardinality(References(slid)) <= cap
        /\ Holders(slid, "LongTerm") \subseteq Holders(stores, "LongTerm")
    BY <1>1, <1>2, <1>3, WindowSlid
  <1>5. /\ IsFiniteSet(Holders(stores, "LongTerm")) /\ Cardinality(Holders(stores, "LongTerm")) \in Nat
    BY <1>3, Counted
  <1>6. Cardinality(References(slid)) \in Nat
    BY <1>4, FS_CardinalityType
  <1>7. CASE counts = None
    <2>1. stores' = slid /\ reply' = Failed
      BY <1>7 DEF FillFrame
    <2> HIDE DEF slid
    <2> QED
      BY <1>4, <2>1, FewSuffice
  <1>8. CASE counts # None
    <2>1. /\ stores' = [k \in DOMAIN slid \cup {nextKey} |-> IF k = nextKey THEN new ELSE slid[k]]
          /\ reply' = reply
      BY <1>8 DEF FillFrame
    <2>2. counts \in Poc
      BY <1>1, <1>8, NonExistingPoc
    <2>3. \A p \in Parities : new.fields[p].marking = "ShortTerm"
      <3> HIDE DEF counts
      <3> QED
        BY <1>2, <2>2, NonExistingStoreType
    <2> HIDE DEF slid, new, counts
    <2>4. References(stores') \subseteq References(slid) \cup {nextKey}
      BY <2>1 DEF References
    <2>5. Holders(stores', "LongTerm") \subseteq Holders(stores, "LongTerm")
      <3> SUFFICES ASSUME NEW k \in Holders(stores', "LongTerm")
                   PROVE  k \in Holders(slid, "LongTerm")
        BY <1>4
      <3>1. k \in DOMAIN slid /\ k # nextKey /\ stores'[k] = slid[k] /\ AnyMarked(stores'[k], "LongTerm")
        BY <2>1, <2>3 DEF Holders, AnyMarked, IsMarked
      <3> QED
        BY <3>1 DEF Holders
    <2>6. /\ IsFiniteSet(References(slid) \cup {nextKey})
          /\ Cardinality(References(slid) \cup {nextKey}) \in Nat
          /\ Cardinality(References(slid) \cup {nextKey}) <= Cardinality(References(slid)) + 1
      <3>1. /\ IsFiniteSet(References(slid) \cup {nextKey})
            /\ \/ Cardinality(References(slid) \cup {nextKey}) = Cardinality(References(slid))
               \/ Cardinality(References(slid) \cup {nextKey}) = Cardinality(References(slid)) + 1
        BY <1>4, FS_AddElement
      <3> QED
        BY <1>6, <3>1, FS_CardinalityType
    <2>7. /\ Cardinality(References(stores')) \in Nat
          /\ Cardinality(References(stores')) <= Cardinality(References(slid) \cup {nextKey})
      BY <2>4, <2>6, FS_Subset, FS_CardinalityType
    <2>8. Cardinality(References(stores')) <= cap + 1
      BY <1>4, <1>6, <2>6, <2>7
    <2>9. /\ Cardinality(Holders(stores', "LongTerm")) \in Nat
          /\ Cardinality(Holders(stores', "LongTerm")) <= Cardinality(Holders(stores, "LongTerm"))
      BY <1>5, <2>5, FS_Subset, FS_CardinalityType
    <2>10. Cardinality(Holders(stores', "LongTerm")) <= cap
      BY <1>3, <1>5, <2>9
    <2> QED
      BY <1>1, <2>1, <2>8, <2>10 DEF FewReferences
  <1> QED
    BY <1>7, <1>8

\* The beginning of a gap unmarks at most.
LEMMA BeginWithGapFew ==
      ASSUME IInv, NEW cap \in Nat, FewReferences(cap),
             NEW sps \in SpsSet, NEW h \in Headers, BeginWithGap(sps, h)
      PROVE  FewReferences(cap)'
  <1>1. AreStores(stores) /\ marking = None /\ marking' = marking /\ reply' = None
    BY DEF IInv, TypeOK, BeginWithGap, Idle
  <1>2. Unmarks(stores, stores')
    <2>1. Unmarks(stores, stores) /\ Unmarks(stores, Unmark(stores, FieldsMarked(stores, "ShortTerm")))
      BY <1>1, UnmarkUnmarks DEF Unmarks
    <2>2. stores' = stores \/ stores' = Unmark(stores, FieldsMarked(stores, "ShortTerm"))
      BY DEF BeginWithGap
    <2> QED
      BY <2>1, <2>2
  <1>3. References(stores') \subseteq References(stores)
    BY <1>2, UnmarksReferences
  <1>4. Holders(stores', "LongTerm") \subseteq Holders(stores, "LongTerm")
    BY <1>2 DEF Unmarks, Holders, AnyMarked, IsMarked
  <1> QED
    BY <1>1, <1>3, <1>4, FewerReferences

\* What the window dropped leaves.
LEMMA EndGapFew ==
      ASSUME IInv, NEW cap \in Nat, FewReferences(cap), EndGap
      PROVE  FewReferences(cap)'
  <1>1. /\ stores' = EvictUnused(stores) /\ marking' = marking /\ gap # None
        /\ StartPicture(gap.sps, gap.header, None, gap.abandonedFirstField, gap.nonExisting)
    BY DEF EndGap
  <1>2. marking = None /\ TypeOK /\ gap \in GapLoop
    BY <1>1 DEF IInv, TypeOK, ControlInv
  <1>3. reply'.result \in {"begun", "error"}
    BY <1>1 DEF StartPicture, Failed
  <1>4. /\ References(stores') \subseteq References(stores)
        /\ Holders(stores', "LongTerm") \subseteq Holders(stores, "LongTerm")
    BY <1>1 DEF EvictUnused, References, Holders
  <1> QED
    BY <1>1, <1>2, <1>3, <1>4, FewerReferences

\* A command makes no reference.
LEMMA MarkNextFew ==
      ASSUME IInv, NEW cap \in Nat, FewReferences(cap), MarkNext
      PROVE  FewReferences(cap)'
  <1> DEFINE cur == marking.current
             op == cur.header.mmco[marking.next]
             parity == ParityOf(cur.header.structure)
             spare == IF cur.secondField THEN cur.key ELSE None
             new == ApplyMmco(stores, op, parity, cur.header.frameNum, cur.maxFrameNum, spare)
  <1>1. /\ AreStores(stores) /\ marking # None /\ marking \in CommandLoop
        /\ marking.next <= Len(cur.header.mmco)
        /\ stores' = new /\ reply' = reply /\ reply = None
    BY DEF IInv, TypeOK, ControlInv, MarkNext
  <1>2. /\ cur \in CurrentPicture /\ marking.next \in Nat \ {0}
    BY <1>1 DEF CommandLoop
  <1>3. /\ cur.header.mmco \in Seq(MmcoOp) /\ parity \in Parities \cup {None}
    BY <1>2, CurrentParts, HeaderParts
  <1>4. op \in MmcoOp
    BY <1>1, <1>2, <1>3
  <1>5. marking' # None
    <2> DEFINE five == marking.mmco5 \/ op.code = 5
               long == IF op.code = 6 THEN op.idx ELSE marking.currentLong
    <2>1. five \in BOOLEAN /\ long \in Nat \cup {None} /\ marking.next + 1 \in Nat \ {0}
      BY <1>1, <1>4 DEF CommandLoop, MmcoOp
    <2>2. marking' = [marking EXCEPT !.next = marking.next + 1, !.mmco5 = five,
                                     !.currentLong = long]
      BY DEF MarkNext
    <2> HIDE DEF five, long, op
    <2> QED
      BY <1>1, <2>1, <2>2, LoopAssumption DEF CommandLoop
  <1>6. Remarks(stores, new)
    BY <1>1, <1>3, <1>4, ApplyMmcoRemarks
  <1> HIDE DEF new
  <1>7. References(stores') \subseteq References(stores)
    BY <1>1, <1>6, RemarksReferences
  <1> QED
    BY <1>1, <1>5, <1>7, FewerReferences

\* Every step keeps the bounds of every capacity.
LEMMA CapacityStep == IInv /\ CapacityInv /\ [Next]_vars => CapacityInv'
  <1> SUFFICES ASSUME IInv, CapacityInv, [Next]_vars,
                      NEW cap \in {RefCap(sps) : sps \in SpsSet},
                      \A sps \in SpsSet : RefCap(sps) = cap
               PROVE  FewReferences(cap)'
    BY DEF CapacityInv
  <1>0. cap \in Nat
    BY InputsAssumption DEF Sps, RefCap
  <1>1. FewReferences(cap)
    BY DEF CapacityInv
  <1>2. ASSUME UNCHANGED <<stores, marking>>,
               reply' # None /\ reply'.result = "finished" => reply' = reply
        PROVE  FewReferences(cap)'
    BY <1>1, <1>2 DEF FewReferences
  <1>3. ASSUME NEW sps \in SpsSet, NEW h \in Headers, Begin(sps, h)
        PROVE  FewReferences(cap)'
    <2>1. CASE BeginPicture(sps, h)
      <3>1. UNCHANGED <<stores, marking>> /\ reply'.result # "finished"
        BY <2>1 DEF BeginPicture, StartPicture, Failed
      <3> QED
        BY <1>2, <3>1
    <2>2. CASE BeginAfterLoss(sps, h)
      <3>1. UNCHANGED <<stores, marking>> /\ reply'.result # "finished"
        BY <2>2 DEF BeginAfterLoss, Failed
      <3> QED
        BY <1>2, <3>1
    <2>3. CASE BeginWithGap(sps, h)
      BY <1>0, <1>1, <2>3, BeginWithGapFew
    <2> QED
      BY <1>3, <2>1, <2>2, <2>3 DEF Begin
  <1>4. ASSUME NEW sps \in SpsSet, Finish(sps)
        PROVE  FewReferences(cap)'
    <2>1. RefCap(sps) = cap
      OBVIOUS
    <2>2. CASE FinishNonReference(sps)
      <3>1. Marked(pending, stores, None, FALSE)
        <4>1. Unmarks(stores, stores)
          BY DEF IInv, TypeOK, Unmarks
        <4> QED
          BY <2>2, <4>1, UnmarksMarked DEF FinishNonReference
      <3> QED
        BY <1>0, <2>1, <2>2, <3>1, CompleteFew DEF FinishNonReference
    <2>3. CASE FinishIdr(sps)
      <3> DEFINE long == IF pending.header.longTermReference THEN 0 ELSE None
                 st == Unmark(stores, AllFields(stores))
      <3>1. /\ Idle /\ pending # None
            /\ Complete(sps, pending, st, long, FALSE)
        BY <2>3 DEF FinishIdr
      <3>2. AreStores(stores)
        BY DEF IInv, TypeOK
      <3>3. /\ Unmarks(stores, st) /\ \A k \in DOMAIN stores : \A idx : ~HoldsIdx(st[k], idx)
        BY <3>2, UnmarkAll
      <3>4. long \in Nat \cup {None}
        OBVIOUS
      <3> HIDE DEF st, long
      <3>5. Marked(pending, st, None, FALSE)
        BY <3>1, <3>3, UnmarksMarked
      <3>6. Marked(pending, st, long, FALSE)
        BY <3>3, <3>4, <3>5 DEF Marked
      <3> QED
        BY <1>0, <2>1, <3>1, <3>6, CompleteFew
    <2>4. CASE FinishSliding(sps)
      <3> DEFINE st == SlidingWindow(stores, sps, pending.header.frameNum, pending.maxFrameNum,
                                     IF pending.secondField THEN pending.key ELSE None)
      <3>1. /\ Idle /\ pending # None /\ Complete(sps, pending, st, None, FALSE)
        BY <2>4 DEF FinishSliding
      <3>2. Unmarks(stores, st)
        BY SlidingWindowUnmarks DEF IInv, TypeOK
      <3> HIDE DEF st
      <3>3. Marked(pending, st, None, FALSE)
        BY <3>1, <3>2, UnmarksMarked
      <3> QED
        BY <1>0, <2>1, <3>1, <3>3, CompleteFew
    <2>5. CASE BeginMarking(sps)
      <3>1. /\ stores' = stores /\ marking = None /\ reply' = None
        BY <2>5 DEF BeginMarking, Idle
      <3> QED
        BY <1>0, <1>1, <3>1, FewerReferences
    <2> QED
      BY <1>4, <2>2, <2>3, <2>4, <2>5 DEF Finish
  <1>5. CASE Continue
    <2>1. CASE SkipFrame
      <3>1. UNCHANGED <<stores, marking, reply>>
        BY <2>1 DEF SkipFrame
      <3> QED
        BY <1>2, <3>1
    <2>2. CASE FillFrame
      BY <1>0, <1>1, <2>2, FillFrameFew
    <2>3. CASE EndGap
      BY <1>0, <1>1, <2>3, EndGapFew
    <2>4. CASE MarkNext
      BY <1>0, <1>1, <2>4, MarkNextFew
    <2>5. CASE EndMarking
      <3>1. /\ marking # None
            /\ Complete(marking.sps, marking.current, stores, marking.currentLong, marking.mmco5)
        BY <2>5 DEF EndMarking
      <3>2. marking.sps \in SpsSet
        BY <3>1 DEF IInv, TypeOK, CommandLoop
      <3>3. Marked(marking.current, stores, marking.currentLong, marking.mmco5)
        BY <3>1, MarkingMarked
      <3>4. RefCap(marking.sps) = cap
        BY <3>2
      <3> QED
        BY <1>0, <3>1, <3>2, <3>3, <3>4, CompleteFew
    <2> QED
      BY <1>5, <2>1, <2>2, <2>3, <2>4, <2>5 DEF Continue
  <1>6. CASE OutOfTurn
    <2>1. UNCHANGED <<stores, marking>> /\ reply'.result # "finished"
      BY <1>6 DEF OutOfTurn, Failed
    <2> QED
      BY <1>2, <2>1
  <1>7. CASE Clear
    <2>1. stores' = <<>>
      BY <1>7 DEF Clear
    <2>2. References(stores') = {}
      BY <2>1 DEF References
    <2> QED
      BY <1>0, <2>2, FS_EmptySet, FewSuffice
  <1>8. CASE UNCHANGED vars
    BY <1>2, <1>8 DEF vars
  <1> QED
    BY <1>3, <1>4, <1>5, <1>6, <1>7, <1>8 DEF Next

\* The references never outgrow the capacity: every finished picture leaves at
\* most RefCap of them, a call that fills a gap at most one more, whatever the
\* commands, fields and gaps (enforce_capacity, slide_window).
THEOREM CapacityHoldsAlways == Spec => []CapacityHolds
  <1>1. Init => CapacityInv
    <2>1. Init => References(stores) = {} /\ Holders(stores, "LongTerm") = {} /\ reply = None
      BY DEF Init, References, Holders
    <2>2. Cardinality({}) = 0
      BY FS_EmptySet
    <2>3. \A s \in SpsSet : RefCap(s) \in Nat
      BY InputsAssumption DEF Sps, RefCap
    <2> QED
      BY <2>1, <2>2, <2>3 DEF CapacityInv, FewReferences
  <1>2. IInv /\ CapacityInv => CapacityHolds
    <2> SUFFICES ASSUME IInv, CapacityInv, NEW s \in SpsSet, Idle,
                        \A sps \in SpsSet : RefCap(sps) = RefCap(s)
                 PROVE  Cardinality(References(stores)) <=
                          RefCap(s) + (IF reply # None /\ reply.result = "finished" THEN 0 ELSE 1)
      BY DEF CapacityHolds
    <2>1. RefCap(s) \in Nat
      BY InputsAssumption DEF Sps, RefCap
    <2>2. FewReferences(RefCap(s)) /\ Cardinality(References(stores)) \in Nat
      BY <2>1, StoresFinite, Counted DEF CapacityInv
    <2> QED
      BY <2>1, <2>2 DEF FewReferences
  <1>3. IInv /\ IInv' /\ CapacityInv /\ [Next]_vars => CapacityInv'
    BY CapacityStep
  <1> QED
    BY <1>1, <1>2, <1>3, Invariance, PTL DEF Spec

=============================================================================
