--------------------------- MODULE H264CallerProofs ---------------------------
(***************************************************************************)
(* Proofs about what the caller of H264Dpb sees over many calls: the order *)
(* of the counts of a stream whose count type is 2, the surfaces of a      *)
(* bridge that keeps one per key, and what is left of a gap in frame_num.  *)
(***************************************************************************)
EXTENDS H264DpbProofs, H264Bridge, H264GapShortcut

-----------------------------------------------------------------------------
(* Stores whose counts rise *)

\* st2 has the decoded fields of st, or fewer, and in key others that count own.
Added(st, st2, key, own) ==
    \A k \in DOMAIN st2, p \in Parities : st2[k].fields[p].decoded =>
        \/ /\ k \in DOMAIN st /\ st[k].fields[p].decoded
           /\ st2[k].fields[p].poc = st[k].fields[p].poc
        \/ k = key /\ st2[k].fields[p].poc = own

\* st2 has the decoded fields of st, or fewer.
Kept(st, st2) ==
    \A k \in DOMAIN st2, p \in Parities : st2[k].fields[p].decoded =>
        /\ k \in DOMAIN st /\ st[k].fields[p].decoded
        /\ st2[k].fields[p].poc = st[k].fields[p].poc

\* Marking and unmarking only keep.
LEMMA RemarksKept ==
    ASSUME NEW st, NEW st2, Remarks(st, st2)
    PROVE  Kept(st, st2)
  BY DEF Remarks, Kept

\* Eviction only keeps.
LEMMA EvictKept ==
    ASSUME NEW st
    PROVE  Kept(st, EvictUnused(st))
  BY DEF Kept, EvictUnused, References

\* Keeping composes.
LEMMA KeptKept ==
    ASSUME NEW st, NEW st2, NEW st3, Kept(st, st2), Kept(st2, st3)
    PROVE  Kept(st, st3)
  BY DEF Kept

\* Keeping before and after adding is adding.
LEMMA KeptAdded ==
    ASSUME NEW st, NEW st2, NEW st3, NEW st4, NEW key, NEW own,
           Kept(st, st2), Added(st2, st3, key, own), Kept(st3, st4)
    PROVE  Added(st, st4, key, own)
  BY DEF Kept, Added

\* Fewer fields rise as those they are among.
LEMMA KeptRising ==
    ASSUME NEW st, NEW st2, NEW last \in Int, Rising(st, last), Kept(st, st2)
    PROVE  Rising(st2, last)
  BY DEF Kept, Rising, CountsRise

\* Fields of the newest key rise above all others when their count does.
LEMMA AddedRising ==
    ASSUME NEW st, AreStores(st), NEW st2, AreStores(st2), NEW last \in Int, NEW own \in Int,
           NEW key \in Nat, Rising(st, last), last <= own,
           \A k \in DOMAIN st : k <= key,
           Added(st, st2, key, own)
    PROVE  Rising(st2, own)
  <1>1. \A k \in DOMAIN st : k \in Nat /\ \A p \in Parities : st[k].fields[p].poc \in Int
    BY StoreParts, PocLimitAssumption DEF FieldState, PocRange
  <1>2. \A k \in DOMAIN st2 : k \in Nat /\ \A p \in Parities : st2[k].fields[p].poc \in Int
    BY StoreParts, PocLimitAssumption DEF FieldState, PocRange
  <1>3. ASSUME NEW k \in DOMAIN st2, NEW p \in Parities, st2[k].fields[p].decoded
        PROVE  st2[k].fields[p].poc <= own
    BY <1>1, <1>2, <1>3 DEF Added, Rising
  <1>4. ASSUME NEW j \in DOMAIN st2, NEW k \in DOMAIN st2, j < k, NEW p \in Parities, NEW q \in Parities,
               st2[j].fields[p].decoded, st2[k].fields[q].decoded
        PROVE  st2[j].fields[p].poc <= st2[k].fields[q].poc
    <2>1. CASE k = key /\ st2[k].fields[q].poc = own
      BY <1>3, <1>4, <2>1
    <2>2. CASE k \in DOMAIN st /\ st[k].fields[q].decoded /\ st2[k].fields[q].poc = st[k].fields[q].poc
      <3>1. j \in Nat /\ k \in Nat /\ k <= key
        BY <1>2, <2>2
      <3>2. j # key
        BY <1>4, <3>1
      <3>3. j \in DOMAIN st /\ st[j].fields[p].decoded /\ st2[j].fields[p].poc = st[j].fields[p].poc
        BY <1>4, <3>2 DEF Added
      <3> QED
        BY <1>4, <2>2, <3>3 DEF Rising, CountsRise
    <2> QED
      BY <1>4, <2>1, <2>2 DEF Added
  <1> QED
    BY <1>3, <1>4 DEF Rising, CountsRise

\* The picture brings the fields its structure has.
LEMMA InsertAdded ==
    ASSUME NEW st, AreStores(st), NEW cur \in CurrentPicture, NEW counts \in Poc,
           NEW long \in Nat \cup {None}, NEW mmco5 \in BOOLEAN, NEW own,
           cur.secondField => IsField(cur.header.structure),
           cur.header.reference =>
             /\ cur.header.structure # "BottomField" => counts.top = own
             /\ cur.header.structure # "TopField" => counts.bottom = own
    PROVE  Added(st, Insert(st, cur, counts, long, mmco5), cur.key, own)
  <1> DEFINE h == cur.header
             par == ParityOf(h.structure)
             ins == Insert(st, cur, counts, long, mmco5)
             field == OwnField(h, par, counts, long)
             opened == NewStore(h, counts, long, mmco5)
  <1>1. CASE ~h.reference
    BY <1>1 DEF Added, Insert
  <1>2. CASE h.reference
    <2>1. /\ h \in Headers /\ h.structure \in Structures
          /\ IsField(h.structure) => par \in Parities
      BY CurrentParts, HeaderParts
    <2>2. ASSUME NEW p \in Parities, IsField(h.structure) => p = par
          PROVE  OwnField(h, p, counts, long).poc = own
      <3>1. OwnField(h, p, counts, long).poc = IF p = "Top" THEN counts.top ELSE counts.bottom
        BY DEF OwnField
      <3>2. (p = "Top" => h.structure # "BottomField") /\ (p # "Top" => h.structure # "TopField")
        BY <2>1, <2>2 DEF ParityOf, IsField, Structures, Parities
      <3> QED
        BY <1>2, <3>1, <3>2
    <2>3. ASSUME NEW p \in Parities, opened.fields[p].decoded
          PROVE  opened.fields[p].poc = own
      <3>1. opened.fields[p] = (IF IsField(h.structure) /\ p # par THEN EmptyField
                                ELSE OwnField(h, p, counts, long))
        BY <2>1, NewStoreType
      <3> HIDE DEF opened, par
      <3>2. ~(IsField(h.structure) /\ p # par)
        BY <2>3, <3>1 DEF EmptyField
      <3> QED
        BY <2>2, <3>1, <3>2
    <2>4. ASSUME NEW p \in Parities, cur.key \in DOMAIN st, cur.secondField,
                 JoinFields(st[cur.key], par, field, long).fields[p].decoded
          PROVE  \/ /\ st[cur.key].fields[p].decoded
                    /\ JoinFields(st[cur.key], par, field, long).fields[p].poc = st[cur.key].fields[p].poc
                 \/ JoinFields(st[cur.key], par, field, long).fields[p].poc = own
      <3>1. par \in Parities /\ IsField(h.structure)
        BY <2>1, <2>4
      <3>2. field \in FieldState /\ st[cur.key] \in FrameStore /\ st[cur.key].fields[p] \in FieldState
        BY <2>1, <2>4, <3>1, OwnFieldType, StoreParts
      <3>3. field.poc = own
        BY <2>2, <3>1
      <3> HIDE DEF field, par
      <3>4. JoinFields(st[cur.key], par, field, long).fields[p] =
              (IF p = par THEN field
               ELSE IF long # None /\ IsMarked(st[cur.key].fields[p], "LongTerm")
                    THEN AsLongTerm(st[cur.key].fields[p], long)
                    ELSE st[cur.key].fields[p])
        BY <3>1, <3>2, JoinFieldsType
      <3>5. long # None =>
              /\ AsLongTerm(st[cur.key].fields[p], long).decoded = st[cur.key].fields[p].decoded
              /\ AsLongTerm(st[cur.key].fields[p], long).poc = st[cur.key].fields[p].poc
        BY <3>2, AsLongTermField
      <3> QED
        BY <2>4, <3>3, <3>4, <3>5
    <2> HIDE DEF opened
    <2>5. ins = [k \in DOMAIN st \cup {cur.key} |->
                   IF k # cur.key THEN st[k]
                   ELSE IF k \in DOMAIN st /\ cur.secondField
                        THEN JoinFields(st[k], par, field, long)
                        ELSE opened]
      BY <1>2 DEF Insert, opened
    <2> HIDE DEF ins, field, par
    <2> QED
      BY <2>3, <2>4, <2>5 DEF Added, ins
  <1> QED
    BY <1>1, <1>2

\* The last count is a number.
LEMMA LastCountType ==
    ASSUME IInv
    PROVE  /\ LastCount \in Int
           /\ poc.prevFrameNumOffset \in Int /\ poc.prevFrameNum \in Nat
  BY PocLimitAssumption DEF IInv, TypeOK, PocState, PocRange, LastCount

\* Operation 5 sets the count of a picture to nought when its fields agree.
LEMMA RefreshedCounts ==
    ASSUME NEW counts \in Poc, NEW structure \in Structures,
           structure # "BottomField" => counts.top = counts.count,
           structure # "TopField" => counts.bottom = counts.count
    PROVE  /\ structure # "BottomField" => AfterMmco5(counts, structure).top = 0
           /\ structure # "TopField" => AfterMmco5(counts, structure).bottom = 0
  <1>1. counts.top \in Int /\ counts.bottom \in Int /\ counts.count \in Int
    BY PocLimitAssumption DEF Poc, PocRange
  <1>2. Wrap(0) = 0
    BY PocLimitAssumption DEF Wrap
  <1>3. /\ counts.top = counts.count => counts.top - counts.count = 0
        /\ counts.bottom = counts.count => counts.bottom - counts.count = 0
    BY <1>1
  <1>4. /\ AfterMmco5(counts, structure).top = Wrap(counts.top - counts.count)
        /\ AfterMmco5(counts, structure).bottom = Wrap(counts.bottom - counts.count)
    BY DEF AfterMmco5, Poc
  <1> QED
    BY <1>2, <1>3, <1>4

\* A finished picture joins in order.
LEMMA CompleteCounts ==
    ASSUME IInv, NEW max \in Nat, CountsInv(max), gap = None, lastField = None,
           NEW sps \in SpsSet, NEW cur, NEW st, NEW long, NEW mmco5,
           Marked(cur, st, long, mmco5), Remarks(stores, st),
           Complete(sps, cur, st, long, mmco5),
           PictureCounts(cur, max),
           cur.header.idr \/ mmco5 => ~cur.secondField /\ References(st) = {},
           mmco5 => cur.header.reference /\ ~cur.header.idr
    PROVE  CountsInv(max)'
  <1> DEFINE h == cur.header
             counts == IF mmco5 THEN AfterMmco5(cur.poc, h.structure) ELSE cur.poc
             ins == Insert(st, cur, counts, long, mmco5)
             full == EnforceCapacity(ins, sps, h.frameNum, cur.maxFrameNum)
             at == 2 * (cur.poc.offset + h.frameNum)
             own == IF h.idr \/ mmco5 THEN 0 ELSE at
             awaiting == IsField(h.structure) /\ ~cur.secondField
             last == [key |-> cur.key, parity |-> ParityOf(h.structure),
                      frameNum |-> h.frameNum, reference |-> h.reference, idr |-> h.idr]
  <1>1. /\ stores' = EvictUnused(full)
        /\ poc' = FinishPoc(poc, sps, h, cur.poc, mmco5)
        /\ lastField' = IF awaiting THEN last ELSE lastField
        /\ pending' = None /\ marking' = None /\ gap' = None
    BY DEF Complete
  <1>2. /\ cur \in CurrentPicture /\ AreStores(st) /\ DOMAIN st = DOMAIN stores
        /\ long \in Nat \cup {None} /\ mmco5 \in BOOLEAN
        /\ cur.secondField => IsField(h.structure)
        /\ ~cur.secondField => cur.key \notin DOMAIN stores
        /\ AreStores(stores)
    BY DEF Marked, PictureInv, IInv, TypeOK
  <1>3. /\ h.frameNum \in Nat /\ h.structure \in Structures /\ cur.poc \in Poc /\ cur.key \in Nat
        /\ h.idr \in BOOLEAN /\ h.reference \in BOOLEAN /\ cur.poc.offset \in Int
    BY <1>2, CurrentParts, HeaderParts, PocLimitAssumption DEF Poc, PocRange
  <1>4. counts \in Poc
    BY <1>3, AfterMmco5Type
  <1>5. /\ h.frameNum < max
        /\ \A k \in DOMAIN stores : k <= cur.key
        /\ h.idr => ~cur.secondField /\ cur.poc.offset = 0
        /\ ~h.idr => LastCount <= at
        /\ h.reference => /\ h.structure # "BottomField" => cur.poc.top = IF h.idr THEN 0 ELSE at
                          /\ h.structure # "TopField" => cur.poc.bottom = IF h.idr THEN 0 ELSE at
                          /\ cur.poc.count = IF h.idr THEN 0 ELSE at
    BY DEF PictureCounts
  <1> HIDE DEF at, h
  <1>6. h.reference => /\ h.structure # "BottomField" => counts.top = own
                       /\ h.structure # "TopField" => counts.bottom = own
    <2>1. CASE mmco5
      BY <1>3, <1>5, <2>1, RefreshedCounts
    <2>2. CASE ~mmco5
      BY <1>5, <2>2
    <2> QED
      BY <2>1, <2>2
  <1> HIDE DEF counts, own
  <1>7. Added(st, ins, cur.key, own)
    BY <1>2, <1>4, <1>6, InsertAdded DEF h
  <1>8. Settled(st, cur, ins, full)
    BY <1>2, <1>4, CompleteStores DEF h
  <1>9. Added(stores, stores', cur.key, own)
    <2> HIDE DEF ins, full
    <2>1. Kept(stores, st)
      BY RemarksKept
    <2>2. Kept(ins, stores')
      BY <1>1, <1>8, UnmarksIsRemarks, RemarksKept, EvictKept, KeptKept DEF Settled
    <2> QED
      BY <1>7, <2>1, <2>2, KeptAdded
  <1>10. /\ AreStores(stores') /\ DOMAIN stores' \subseteq DOMAIN stores \cup {cur.key}
         /\ References(st) = {} => DOMAIN stores' \subseteq {cur.key}
    <2>1. References(ins) \subseteq References(st) \cup {cur.key}
      BY InsertReferences
    <2> HIDE DEF ins, full
    <2>2. /\ AreStores(EvictUnused(full)) /\ DOMAIN EvictUnused(full) = References(full)
          /\ References(full) \subseteq DOMAIN ins /\ DOMAIN ins \subseteq DOMAIN st \cup {cur.key}
          /\ Unmarks(ins, full)
      BY <1>8 DEF Settled
    <2>3. References(full) \subseteq References(ins)
      BY <2>2, UnmarksReferences
    <2> QED
      BY <1>1, <1>2, <2>1, <2>2, <2>3
  <1>11. LastCount' = IF mmco5 THEN 0 ELSE at
    BY <1>1, <1>2 DEF LastCount, FinishPoc, at
  <1>12. at \in Int
    BY <1>3 DEF at
  <1> HIDE DEF ins, full
  <1>13. Rising(stores', LastCount')
    <2>1. CASE h.idr \/ mmco5
      <3>1. DOMAIN stores' \subseteq {cur.key} /\ cur.key \notin DOMAIN stores /\ own = 0
        BY <1>2, <1>10, <2>1 DEF h, own
      <3>2. \A k \in DOMAIN stores', p \in Parities :
               stores'[k].fields[p].decoded => stores'[k].fields[p].poc = 0
        BY <1>9, <3>1 DEF Added
      <3>3. 0 <= LastCount'
        BY <1>3, <1>5, <1>11, <2>1 DEF at
      <3> QED
        BY <3>1, <3>2, <3>3 DEF Rising, CountsRise
    <2>2. CASE ~h.idr /\ ~mmco5
      <3>1. own = at /\ LastCount' = at /\ LastCount <= at
        BY <1>5, <1>11, <2>2 DEF own
      <3>2. Rising(stores, LastCount) /\ LastCount \in Int
        BY LastCountType DEF CountsInv
      <3> QED
        BY <1>2, <1>3, <1>5, <1>9, <1>10, <1>12, <3>1, <3>2, AddedRising
    <2> QED
      BY <2>1, <2>2
  <1>14. poc'.prevFrameNum < max
    BY <1>1, <1>2, <1>3, <1>5 DEF FinishPoc
  <1>15. lastField' # None => \A k \in DOMAIN stores' : k <= lastField'.key
    <2>1. \A k \in DOMAIN stores' : k <= cur.key
      BY <1>3, <1>5, <1>10
    <2>2. lastField' # None => lastField'.key = cur.key
      BY <1>1
    <2> QED
      BY <2>1, <2>2
  <1> QED
    BY <1>1, <1>13, <1>14, <1>15 DEF CountsInv, LastCount

\* The counts of count type 2, and why they never fall: when frame_num is lower
\* than the last one it has wrapped, and the offset goes up by a whole cycle.
LEMMA Type2Counts ==
    ASSUME IInv, NEW sps, sps.pocType = 2, NEW max \in Nat, sps.maxFrameNum = max,
           NEW h, h.frameNum \in Nat, h.structure \in Structures, h.idr \in BOOLEAN,
           h.reference \in BOOLEAN,
           poc.prevFrameNum < max,
           Derive(poc, sps, h) # None
    PROVE  LET counts == Derive(poc, sps, h)
               own == IF h.idr THEN 0 ELSE 2 * (counts.offset + h.frameNum)
           IN  /\ counts.offset \in Int
               /\ h.idr => counts.offset = 0
               /\ ~h.idr => LastCount <= own
               /\ h.idr \/ h.reference =>
                     /\ h.structure # "BottomField" => counts.top = own
                     /\ h.structure # "TopField" => counts.bottom = own
                     /\ counts.count = own
  <1> DEFINE offset == FrameNumOffset(poc, sps, h)
             count == IF h.idr THEN 0
                      ELSE 2 * (offset + h.frameNum) - (IF h.reference THEN 0 ELSE 1)
             counts == WithStructure(count, count, 0, offset, h.structure)
  <1>1. Derive(poc, sps, h) = counts
    BY DEF Derive, Type2, Checked
  <1>2. /\ offset \in Int
        /\ h.idr => offset = 0
        /\ ~h.idr => LastCount <= 2 * (offset + h.frameNum)
    BY LastCountType DEF FrameNumOffset, LastCount
  <1> HIDE DEF offset
  <1>3. count \in Int
    BY <1>2
  <1>4. h.idr \/ h.reference => count = IF h.idr THEN 0 ELSE 2 * (offset + h.frameNum)
    BY <1>2
  <1> HIDE DEF count
  <1>5. /\ counts.offset = offset
        /\ h.structure # "BottomField" => counts.top = count
        /\ h.structure # "TopField" => counts.bottom = count
        /\ counts.count = count
    BY <1>3 DEF WithStructure, Structures
  <1> HIDE DEF counts
  <1> QED
    BY <1>1, <1>2, <1>4, <1>5

-----------------------------------------------------------------------------
(* One step *)

\* A picture that starts has the newest key and a count not below the last.
LEMMA StartCounts ==
    ASSUME IInv, NEW max \in Nat, CountsInv(max), NEW sps \in SpsSet,
           sps.pocType = 2, sps.maxFrameNum = max,
           NEW h \in Headers, h.frameNum < max,
           NEW firstKey \in Nat \cup {None}, NEW abandoned, NEW nonExisting,
           StartPicture(sps, h, firstKey, abandoned, nonExisting),
           firstKey # None => ~h.idr /\ \A k \in DOMAIN stores : k <= firstKey,
           pending = None, poc' = poc, DOMAIN stores' \subseteq DOMAIN stores
    PROVE  pending' # None => PictureCounts(pending, max)'
  <1> DEFINE counts == Derive(poc, sps, h)
             key == IF firstKey = None THEN nextKey ELSE firstKey
             cur == [key |-> key, poc |-> counts, secondField |-> firstKey # None,
                     nonExisting |-> nonExisting, abandonedFirstField |-> abandoned,
                     header |-> h, maxFrameNum |-> sps.maxFrameNum]
             own == IF h.idr THEN 0 ELSE 2 * (counts.offset + h.frameNum)
  <1>1. CASE counts = None
    BY <1>1 DEF StartPicture
  <1>2. CASE counts # None
    <2>1. pending' = cur
      BY <1>2 DEF StartPicture
    <2>2. /\ h.frameNum \in Nat /\ h.structure \in Structures
          /\ h.idr \in BOOLEAN /\ h.reference \in BOOLEAN
      BY HeaderParts
    <2>3. poc.prevFrameNum < max
      BY DEF CountsInv
    <2>4. /\ h.idr => counts.offset = 0
          /\ ~h.idr => LastCount <= own
          /\ h.reference => /\ h.structure # "BottomField" => counts.top = own
                            /\ h.structure # "TopField" => counts.bottom = own
                            /\ counts.count = own
      BY <1>2, <2>2, <2>3, Type2Counts
    <2>5. \A k \in DOMAIN stores' : k <= key
      BY DEF IInv, TypeOK, KeysInv, AreStores
    <2> HIDE DEF counts, key
    <2>6. /\ cur.header = h /\ cur.poc = counts /\ cur.key = key
          /\ cur.secondField <=> firstKey # None
      OBVIOUS
    <2>7. LastCount' = LastCount
      BY DEF LastCount
    <2> HIDE DEF cur
    <2> QED
      BY <2>1, <2>4, <2>5, <2>6, <2>7 DEF PictureCounts
  <1> QED
    BY <1>1, <1>2

\* A picture without a gap starts in order.
LEMMA BeginPictureCounts ==
    ASSUME IInv, NEW max \in Nat, CountsInv(max), OutputInDecodingOrder(max),
           NEW sps \in SpsSet, NEW h \in Headers, BeginPicture(sps, h)
    PROVE  CountsInv(max)'
  <1> DEFINE firstKey == IF Pairs(h) THEN lastField.key ELSE None
  <1>1. /\ pending = None /\ gap' = None /\ marking' = None /\ stores' = stores /\ poc' = poc
        /\ lastField' = None /\ h.frameNum < sps.maxFrameNum
        /\ StartPicture(sps, h, firstKey, AbandonedFirstField(h), {})
    BY DEF BeginPicture, Idle, ParsedAgainst
  <1>2. sps.pocType = 2 /\ sps.maxFrameNum = max
    BY DEF OutputInDecodingOrder
  <1>3. firstKey \in Nat \cup {None}
    BY DEF IInv, TypeOK, LastField, Pairs
  <1>4. firstKey # None => ~h.idr /\ \A k \in DOMAIN stores : k <= firstKey
    <2>1. CASE Pairs(h)
      <3>1. lastField # None /\ ~h.idr
        BY <2>1, HeaderParts DEF Pairs
      <3> QED
        BY <2>1, <3>1 DEF CountsInv
    <2>2. CASE ~Pairs(h)
      BY <2>2
    <2> QED
      BY <2>1, <2>2
  <1> HIDE DEF firstKey
  <1>5. pending' # None => PictureCounts(pending, max)'
    BY <1>1, <1>2, <1>3, <1>4, StartCounts
  <1> QED
    BY <1>1, <1>5 DEF CountsInv, LastCount

\* So does the picture after a gap, with the newest key.
LEMMA EndGapCounts ==
    ASSUME IInv, NEW max \in Nat, CountsInv(max), OutputInDecodingOrder(max), EndGap
    PROVE  CountsInv(max)'
  <1>1. /\ gap # None /\ gap' = None /\ marking' = marking /\ poc' = poc
        /\ stores' = EvictUnused(stores)
        /\ lastField' = lastField
        /\ StartPicture(gap.sps, gap.header, None, gap.abandonedFirstField, gap.nonExisting)
    BY DEF EndGap
  <1>2. /\ gap \in GapLoop /\ pending = None /\ marking = None /\ lastField = None
        /\ gap.header.frameNum < max
    BY <1>1 DEF IInv, TypeOK, ControlInv, CountsInv
  <1>3. /\ gap.sps \in SpsSet /\ gap.header \in Headers
    BY <1>2 DEF GapLoop
  <1>4. gap.sps.pocType = 2 /\ gap.sps.maxFrameNum = max
    BY <1>3 DEF OutputInDecodingOrder
  <1>5. DOMAIN stores' \subseteq DOMAIN stores
    BY <1>1 DEF EvictUnused, References
  <1>6. pending' # None => PictureCounts(pending, max)'
    BY <1>1, <1>2, <1>3, <1>4, <1>5, StartCounts
  <1>7. Rising(stores', LastCount)
    BY <1>1, EvictKept, KeptRising, LastCountType DEF CountsInv
  <1> QED
    BY <1>1, <1>2, <1>6, <1>7 DEF CountsInv, LastCount

\* The beginning of a gap unmarks at most.
LEMMA BeginWithGapCounts ==
    ASSUME IInv, NEW max \in Nat, CountsInv(max), OutputInDecodingOrder(max),
           NEW sps \in SpsSet, NEW h \in Headers, BeginWithGap(sps, h)
    PROVE  CountsInv(max)'
  <1> DEFINE unused == (prevRefFrameNum + 1) % sps.maxFrameNum
  <1>1. /\ pending' = None /\ marking' = None /\ poc' = poc /\ lastField' = None
        /\ h.frameNum < sps.maxFrameNum /\ AreStores(stores)
        /\ gap'.unused = unused /\ gap'.header = h
    BY DEF BeginWithGap, Idle, ParsedAgainst, IInv, TypeOK
  <1>2. sps.maxFrameNum = max /\ max \in Nat \ {0} /\ prevRefFrameNum \in Nat
    BY InputsAssumption DEF OutputInDecodingOrder, Sps, IInv, TypeOK
  <1>3. unused < max
    BY <1>2
  <1>4. Kept(stores, stores')
    <2>1. Unmarks(stores, stores) /\ Unmarks(stores, Unmark(stores, FieldsMarked(stores, "ShortTerm")))
      BY <1>1, UnmarkUnmarks DEF Unmarks
    <2>2. stores' = stores \/ stores' = Unmark(stores, FieldsMarked(stores, "ShortTerm"))
      BY DEF BeginWithGap
    <2> QED
      BY <2>1, <2>2, UnmarksIsRemarks, RemarksKept
  <1>5. Rising(stores', LastCount)
    BY <1>4, KeptRising, LastCountType DEF CountsInv
  <1> HIDE DEF unused
  <1> QED
    BY <1>1, <1>2, <1>3, <1>5 DEF CountsInv, LastCount

\* A skipped frame takes the last count up: past every count when the offset saturates.
LEMMA SkipFrameCounts ==
    ASSUME IInv, NEW max \in Nat, CountsInv(max), OutputInDecodingOrder(max), SkipFrame
    PROVE  CountsInv(max)'
  <1>1. /\ gap # None /\ pending' = None /\ marking' = None /\ lastField' = None /\ stores' = stores
        /\ poc' = SkipNonExisting(poc, gap.sps, gap.unused)
        /\ gap' = [gap EXCEPT !.unused = (@ + 1) % gap.sps.maxFrameNum, !.skip = @ - 1]
    BY DEF SkipFrame, IInv, ControlInv
  <1>2. gap \in GapLoop /\ poc \in PocState /\ AreStores(stores)
    BY <1>1 DEF IInv, TypeOK
  <1>3. gap.sps \in SpsSet /\ gap.unused \in Nat /\ gap.unused < max /\ gap.header.frameNum < max
    BY <1>1, <1>2 DEF GapLoop, CountsInv
  <1>4. gap.sps.maxFrameNum = max /\ max \in Nat \ {0}
    BY <1>3, InputsAssumption DEF OutputInDecodingOrder, Sps
  <1>5. gap'.unused < max /\ gap'.header.frameNum < max
    <2>1. (gap.unused + 1) % max < max
      BY <1>3, <1>4
    <2> QED
      BY <1>1, <1>2, <1>3, <1>4, <2>1 DEF GapLoop
  <1> DEFINE sum == poc.prevFrameNumOffset + max
             offset == IF poc.prevFrameNum <= gap.unused THEN poc.prevFrameNumOffset
                       ELSE IF Fits(sum) THEN sum ELSE PocLimit - 1
  <1>6. /\ poc'.prevFrameNum = gap.unused /\ poc'.prevFrameNumOffset = offset
    BY <1>1, <1>2, <1>4 DEF SkipNonExisting, PocState
  <1>7. LastCount' = 2 * (offset + gap.unused)
    BY <1>6 DEF LastCount
  <1>8. LastCount <= LastCount' \/ LastCount' >= PocLimit - 1
    <2>1. CASE poc.prevFrameNum <= gap.unused \/ Fits(sum)
      BY <1>2, <1>3, <1>4, <1>7, <2>1, LastCountType DEF LastCount, CountsInv
    <2>2. CASE ~(poc.prevFrameNum <= gap.unused \/ Fits(sum))
      BY <1>3, <1>7, <2>2, PocLimitAssumption
    <2> QED
      BY <2>1, <2>2
  <1>9. LastCount' \in Int
    BY <1>3, <1>4, <1>7, LastCountType, PocLimitAssumption
  <1>10. Rising(stores', LastCount')
    <2>1. \A k \in DOMAIN stores, p \in Parities :
             stores[k].fields[p].poc \in Int /\ stores[k].fields[p].poc <= PocLimit - 1
      BY <1>2, StoreParts, PocLimitAssumption DEF FieldState, PocRange
    <2> QED
      BY <1>1, <1>8, <1>9, <2>1, LastCountType, PocLimitAssumption DEF CountsInv, Rising
  <1> HIDE DEF offset
  <1> QED
    BY <1>1, <1>3, <1>5, <1>6, <1>10 DEF CountsInv, LastCount

\* An inserted frame joins in order.
LEMMA FillFrameCounts ==
    ASSUME IInv, NEW max \in Nat, CountsInv(max), OutputInDecodingOrder(max), FillFrame
    PROVE  CountsInv(max)'
  <1> DEFINE slid == SlidingWindow(stores, gap.sps, gap.unused, gap.sps.maxFrameNum, None)
             counts == DeriveNonExisting(poc, gap.sps, gap.unused)
             new == NonExistingStore(gap.unused, counts)
             own == 2 * (counts.offset + gap.unused)
  <1>1. /\ gap # None /\ pending' = None /\ marking' = None /\ lastField' = None
    BY DEF FillFrame, IInv, ControlInv
  <1>2. gap \in GapLoop /\ poc \in PocState /\ AreStores(stores) /\ nextKey \in Nat
    BY <1>1 DEF IInv, TypeOK
  <1>3. gap.sps \in SpsSet /\ gap.unused \in Nat /\ gap.unused < max /\ gap.header.frameNum < max
    BY <1>1, <1>2 DEF GapLoop, CountsInv
  <1>4. gap.sps.maxFrameNum = max /\ max \in Nat \ {0} /\ gap.sps.pocType = 2
    BY <1>3, InputsAssumption DEF OutputInDecodingOrder, Sps
  <1>5. Kept(stores, slid)
    BY <1>2, SlidingWindowUnmarks, UnmarksIsRemarks, RemarksKept
  <1>6. CASE counts = None
    <2>1. stores' = slid /\ gap' = None /\ poc' = poc
      BY <1>6 DEF FillFrame
    <2> HIDE DEF slid
    <2>2. Rising(stores', LastCount)
      BY <1>5, <2>1, KeptRising, LastCountType DEF CountsInv
    <2> QED
      BY <1>1, <2>1, <2>2 DEF CountsInv, LastCount
  <1>7. CASE counts # None
    <2>1. /\ stores' = [k \in DOMAIN slid \cup {nextKey} |-> IF k = nextKey THEN new ELSE slid[k]]
          /\ poc' = FinishNonExisting(poc, gap.unused, counts)
          /\ gap' = [gap EXCEPT !.unused = (@ + 1) % gap.sps.maxFrameNum,
                                !.nonExisting = @ \cup {nextKey}]
      BY <1>7 DEF FillFrame
    <2>2. /\ counts.offset \in Int /\ LastCount <= own
          /\ counts.top = own /\ counts.bottom = own
      <3> DEFINE input == NonExistingInput(gap.unused)
      <3>1. /\ input.frameNum = gap.unused /\ input.structure = "Frame"
            /\ input.idr = FALSE /\ input.reference = TRUE
        BY DEF NonExistingInput
      <3>2. counts = Derive(poc, gap.sps, input)
        BY <1>4 DEF DeriveNonExisting
      <3>3. poc.prevFrameNum < max
        BY DEF CountsInv
      <3> HIDE DEF input
      <3>4. input.structure \in Structures /\ input.idr \in BOOLEAN /\ input.reference \in BOOLEAN
        BY <3>1 DEF Structures
      <3> QED
        BY <1>3, <1>4, <1>7, <3>1, <3>2, <3>3, <3>4, Type2Counts
    <2>3. \A p \in Parities : new.fields[p].poc = own
      <3> HIDE DEF own, counts
      <3> QED
        BY <2>2 DEF NonExistingStore, own
    <2>4. own \in Int
      BY <1>3, <2>2
    <2>5. LastCount' = own /\ poc'.prevFrameNum = gap.unused
      BY <1>2, <2>1 DEF LastCount, FinishNonExisting, PocState
    <2>6. gap'.unused < max /\ gap'.header.frameNum < max
      <3>1. (gap.unused + 1) % max < max
        BY <1>3, <1>4
      <3> QED
        BY <1>2, <1>3, <1>4, <2>1, <3>1 DEF GapLoop
    <2> HIDE DEF slid, new, own, counts
    <2>7. Added(stores, stores', nextKey, own)
      BY <1>5, <2>1, <2>3 DEF Kept, Added
    <2>8. AreStores(stores')
      <3>1. IInv'
        BY FillFrameInv
      <3> QED
        BY <3>1 DEF IInv, TypeOK
    <2>9. \A k \in DOMAIN stores : k <= nextKey
      BY <1>2 DEF IInv, KeysInv, AreStores
    <2>10. Rising(stores', LastCount')
      BY <1>2, <2>2, <2>4, <2>5, <2>7, <2>8, <2>9, AddedRising, LastCountType DEF CountsInv, own
    <2> QED
      BY <1>1, <1>3, <2>5, <2>6, <2>10 DEF CountsInv, LastCount
  <1> QED
    BY <1>6, <1>7

\* The calls of finish_picture that run no commands, and the start of those that do.
LEMMA FinishCounts ==
    ASSUME IInv, NEW max \in Nat, CountsInv(max), NEW sps \in SpsSet, Finish(sps)
    PROVE  CountsInv(max)'
  <1>1. Idle /\ pending # None
    BY DEF Finish, FinishNonReference, FinishIdr, FinishSliding, BeginMarking
  <1>2. /\ AreStores(stores) /\ gap = None /\ lastField = None /\ pending \in CurrentPicture
        /\ PictureCounts(pending, max)
    BY <1>1, PendingParts DEF CountsInv
  <1>3. /\ pending.header.idr \in BOOLEAN /\ pending.header.idr => pending.header.reference
        /\ pending.header.idr => ~pending.secondField
    BY <1>2, CurrentParts, HeaderParts DEF PictureCounts
  <1>4. CASE FinishNonReference(sps)
    <2>1. /\ Complete(sps, pending, stores, None, FALSE) /\ ~pending.header.reference
      BY <1>4 DEF FinishNonReference
    <2>2. Unmarks(stores, stores)
      BY <1>2 DEF Unmarks
    <2>3. Marked(pending, stores, None, FALSE) /\ Remarks(stores, stores)
      BY <1>1, <2>2, UnmarksMarked, UnmarksIsRemarks
    <2> QED
      BY <1>2, <1>3, <2>1, <2>3, CompleteCounts
  <1>5. CASE FinishIdr(sps)
    <2> DEFINE long == IF pending.header.longTermReference THEN 0 ELSE None
               st == Unmark(stores, AllFields(stores))
    <2>1. Complete(sps, pending, st, long, FALSE) /\ pending.header.idr
      BY <1>5 DEF FinishIdr
    <2>2. /\ Unmarks(stores, st) /\ References(st) = {}
          /\ \A k \in DOMAIN stores : \A idx : ~HoldsIdx(st[k], idx)
      BY <1>2, UnmarkAll
    <2>3. long \in Nat \cup {None}
      OBVIOUS
    <2> HIDE DEF st, long
    <2>4. Marked(pending, st, None, FALSE)
      BY <1>1, <2>2, UnmarksMarked
    <2>5. Marked(pending, st, long, FALSE) /\ Remarks(stores, st)
      BY <2>2, <2>3, <2>4, UnmarksIsRemarks DEF Marked
    <2> QED
      BY <1>2, <1>3, <2>1, <2>2, <2>5, CompleteCounts
  <1>6. CASE FinishSliding(sps)
    <2> DEFINE st == SlidingWindow(stores, sps, pending.header.frameNum, pending.maxFrameNum,
                                   IF pending.secondField THEN pending.key ELSE None)
    <2>1. /\ Complete(sps, pending, st, None, FALSE) /\ ~pending.header.idr
      BY <1>6 DEF FinishSliding
    <2>2. Unmarks(stores, st)
      BY <1>2, SlidingWindowUnmarks
    <2> HIDE DEF st
    <2>3. Marked(pending, st, None, FALSE) /\ Remarks(stores, st)
      BY <1>1, <2>2, UnmarksMarked, UnmarksIsRemarks
    <2> QED
      BY <1>2, <1>3, <2>1, <2>3, CompleteCounts
  <1>7. CASE BeginMarking(sps)
    <2>1. /\ marking'.current = pending /\ pending' = None /\ ~pending.header.idr
          /\ UNCHANGED <<stores, poc, lastField, gap>>
      BY <1>7 DEF BeginMarking
    <2> QED
      BY <1>2, <2>1 DEF CountsInv, LastCount, PictureCounts
  <1> QED
    BY <1>4, <1>5, <1>6, <1>7 DEF Finish

\* A command changes no count.
LEMMA MarkNextCounts ==
    ASSUME IInv, NEW max \in Nat, CountsInv(max), MarkNext
    PROVE  CountsInv(max)'
  <1> DEFINE cur == marking.current
             op == cur.header.mmco[marking.next]
             parity == ParityOf(cur.header.structure)
             spare == IF cur.secondField THEN cur.key ELSE None
             new == ApplyMmco(stores, op, parity, cur.header.frameNum, cur.maxFrameNum, spare)
  <1>1. /\ AreStores(stores) /\ marking # None /\ marking \in CommandLoop
        /\ marking.next <= Len(cur.header.mmco)
        /\ stores' = new /\ pending' = None /\ lastField' = None /\ gap' = None /\ poc' = poc
    BY DEF IInv, TypeOK, ControlInv, MarkNext
  <1>2. /\ cur \in CurrentPicture /\ marking.next \in Nat \ {0}
    BY <1>1 DEF CommandLoop
  <1>3. /\ cur.header.mmco \in Seq(MmcoOp) /\ parity \in Parities \cup {None}
    BY <1>2, CurrentParts, HeaderParts
  <1>4. op \in MmcoOp
    BY <1>1, <1>2, <1>3
  <1>5. marking'.current = cur
    BY <1>1 DEF MarkNext, CommandLoop
  <1>6. Remarks(stores, new)
    BY <1>1, <1>3, <1>4, ApplyMmcoRemarks
  <1> HIDE DEF new
  <1>7. Rising(stores', LastCount)
    BY <1>1, <1>6, RemarksKept, KeptRising, LastCountType DEF CountsInv
  <1>8. DOMAIN stores' = DOMAIN stores
    BY <1>1, <1>6 DEF Remarks
  <1> QED
    BY <1>1, <1>5, <1>7, <1>8 DEF CountsInv, LastCount, PictureCounts

\* The end of a call that ran commands, operation 5 among them or not.
LEMMA EndMarkingCounts ==
    ASSUME IInv, NEW max \in Nat, CountsInv(max), EndMarking
    PROVE  CountsInv(max)'
  <1>1. /\ marking # None
        /\ Complete(marking.sps, marking.current, stores, marking.currentLong, marking.mmco5)
    BY DEF EndMarking
  <1>2. /\ gap = None /\ lastField = None /\ AreStores(stores) /\ marking.sps \in SpsSet
        /\ marking.current.header.reference /\ PictureInv(marking.current)
    BY <1>1 DEF IInv, TypeOK, ControlInv, KeysInv, CommandLoop
  <1>3. Marked(marking.current, stores, marking.currentLong, marking.mmco5)
    BY <1>1, MarkingMarked
  <1>4. Remarks(stores, stores)
    BY <1>2 DEF Remarks
  <1>5. marking.mmco5 => ~marking.current.secondField /\ References(stores) = {}
    BY <1>1, <1>2 DEF IInv, RefreshInv, PictureInv
  <1>6. PictureCounts(marking.current, max) /\ ~marking.current.header.idr
    BY <1>1 DEF CountsInv
  <1> QED
    BY <1>1, <1>2, <1>3, <1>4, <1>5, <1>6, CompleteCounts

\* Every step keeps the counts rising.
LEMMA Type2Step == IInv /\ Type2Inv /\ [Next]_vars => Type2Inv'
  <1> SUFFICES ASSUME IInv, Type2Inv, [Next]_vars,
                      NEW max \in {sps.maxFrameNum : sps \in SpsSet},
                      OutputInDecodingOrder(max)
               PROVE  CountsInv(max)'
    BY DEF Type2Inv, OutputInDecodingOrder
  <1>1. max \in Nat /\ 0 < max
    BY InputsAssumption DEF Sps
  <1>2. CountsInv(max)
    BY DEF Type2Inv
  <1>3. ASSUME NEW sps \in SpsSet, NEW h \in Headers, Begin(sps, h)  PROVE CountsInv(max)'
    <2>1. CASE BeginAfterLoss(sps, h)
      BY <1>2, <2>1 DEF BeginAfterLoss, CountsInv, LastCount, Idle
    <2> QED
      BY <1>1, <1>2, <1>3, <2>1, BeginPictureCounts, BeginWithGapCounts DEF Begin
  <1>4. ASSUME NEW sps \in SpsSet, Finish(sps)  PROVE CountsInv(max)'
    BY <1>1, <1>2, <1>4, FinishCounts
  <1>5. CASE Continue
    BY <1>1, <1>2, <1>5, SkipFrameCounts, FillFrameCounts, EndGapCounts, MarkNextCounts,
       EndMarkingCounts DEF Continue
  <1>6. CASE OutOfTurn
    BY <1>2, <1>6 DEF OutOfTurn, CountsInv, PictureCounts, LastCount
  <1>7. CASE Clear
    BY <1>1, <1>7 DEF Clear, Idle, CountsInv, Rising, CountsRise, InitPocState
  <1>8. CASE UNCHANGED vars
    BY <1>2, <1>8 DEF vars, CountsInv, PictureCounts, LastCount
  <1> QED
    BY <1>3, <1>4, <1>5, <1>6, <1>7, <1>8 DEF Next

\* In a stream of count type 2 pictures are output in the order they were decoded:
\* for every capacity, mix of fields, gaps, refreshes and failed calls.
THEOREM Type2FollowsDecodingAlways == Spec => []Type2FollowsDecoding
  <1>1. Init => Type2Inv
    BY InputsAssumption DEF Init, InitPocState, Type2Inv, CountsInv, Rising, CountsRise, Sps
  <1>2. Type2Inv => Type2FollowsDecoding
    BY DEF Type2Inv, CountsInv, Rising, Type2FollowsDecoding
  <1> QED
    BY <1>1, <1>2, Type2Step, Invariance, PTL DEF Spec

-----------------------------------------------------------------------------
(* What the bridge does with a reply *)

\* What the bridge does with a reply that is no error.
LEMMA Reacts ==
    ASSUME ClearsAfterError, React, ~lost'
    PROVE  /\ reply' # Failed
           /\ reply' = None => surfaces' = surfaces
           /\ reply' # None /\ reply'.result = "begun" => OnBegun
           /\ reply' # None /\ reply'.result = "finished" => OnFinished
           /\ reply' # None /\ reply'.result = "cleared" => surfaces' = {}
  <1>1. Failed # None /\ Failed.result = "error"
    BY AbsentAssumption DEF Failed
  <1>2. ~OnError
    BY DEF OnError
  <1>3. OnNothing => reply' = None /\ surfaces' = surfaces
    BY DEF OnNothing
  <1>4. OnBegun => reply' # None /\ reply'.result = "begun"
    BY DEF OnBegun, Replies
  <1>5. OnFinished => reply' # None /\ reply'.result = "finished"
    BY DEF OnFinished, Replies
  <1>6. OnCleared => reply' # None /\ reply'.result = "cleared" /\ surfaces' = {}
    BY DEF OnCleared, Replies
  <1>7. OnBegun \/ OnFinished \/ OnCleared \/ OnNothing
    BY <1>2 DEF React
  <1> QED
    BY <1>1, <1>3, <1>4, <1>5, <1>6, <1>7

\* A picture that starts is there, with the key it was given or a fresh one.
LEMMA Started ==
    ASSUME TypeOK, NEW sps \in SpsSet, NEW h \in Headers,
           NEW firstKey \in Nat \cup {None}, NEW abandoned \in Nat \cup {None},
           NEW nonExisting \in SUBSET Nat,
           StartPicture(sps, h, firstKey, abandoned, nonExisting), reply' # Failed
    PROVE  /\ pending' # None /\ pending'.header = h /\ pending'.maxFrameNum = sps.maxFrameNum
           /\ pending'.nonExisting = nonExisting /\ pending'.abandonedFirstField = abandoned
           /\ firstKey # None => /\ pending'.key = firstKey /\ nextKey' = nextKey
                                 /\ pending'.secondField
           /\ firstKey = None => /\ pending'.key = nextKey /\ nextKey' = nextKey + 1
                                 /\ ~pending'.secondField
           /\ reply' # None /\ reply'.result = "begun"
  <1> DEFINE counts == Derive(poc, sps, h)
             key == IF firstKey = None THEN nextKey ELSE firstKey
             second == firstKey # None
             cur == [key |-> key, poc |-> counts, secondField |-> second,
                     nonExisting |-> nonExisting, abandonedFirstField |-> abandoned,
                     header |-> h, maxFrameNum |-> sps.maxFrameNum]
  <1>1. counts # None
    BY DEF StartPicture
  <1>2. /\ pending' = cur
        /\ nextKey' = (IF firstKey = None THEN nextKey + 1 ELSE nextKey)
        /\ reply' = [result |-> "begun"]
    BY <1>1 DEF StartPicture
  <1>3. /\ nextKey \in Nat /\ poc \in PocState /\ sps.maxFrameNum \in Nat \ {0}
        /\ h.structure \in Structures
    BY InputsAssumption, HeaderParts DEF TypeOK, Sps
  <1>4. counts \in Poc
    BY <1>1, <1>3, DeriveType
  <1>5. key \in Nat /\ second \in BOOLEAN
    BY <1>3
  <1> HIDE DEF counts
  <1>6. cur \in CurrentPicture
    <2> HIDE DEF key, second
    <2> QED
      BY <1>3, <1>4, <1>5 DEF CurrentPicture
  <1>7. /\ cur.header = h /\ cur.maxFrameNum = sps.maxFrameNum /\ cur.nonExisting = nonExisting
        /\ cur.abandonedFirstField = abandoned /\ cur.key = key /\ cur.secondField = second
    <2> HIDE DEF key, second
    <2> QED
      OBVIOUS
  <1>8. reply' # None /\ reply'.result = "begun"
    <2>1. reply' \in [result : {"begun", "cleared"}]
      BY <1>2
    <2> QED
      BY <1>2, <2>1, AbsentAssumption
  <1> HIDE DEF cur
  <1>9. pending' # None
    BY <1>2, <1>6, AbsentAssumption
  <1> QED
    BY <1>2, <1>7, <1>8, <1>9

\* The capacity the parameter sets agree on.
LEMMA CapacityPositive ==
    ASSUME NEW sps \in SpsSet
    PROVE  RefCap(sps) \in Nat \ {0} /\ sps.maxFrameNum \in Nat \ {0}
  BY InputsAssumption DEF Sps, RefCap

\* The keys the buffer may still name are numbers below the next one.
LEMMA KeysBelow ==
    ASSUME IInv
    PROVE  /\ nextKey \in Nat /\ None \notin Nat
           /\ DOMAIN stores \subseteq Nat /\ \A k \in DOMAIN stores : k < nextKey
           /\ lastField # None => lastField.key \in Nat /\ lastField.key < nextKey
           /\ releasedEarly \subseteq Nat
           /\ DOMAIN stores \cap releasedEarly = {}
  BY NoneAssumption DEF IInv, TypeOK, KeysInv, AreStores, LastField

\* A new reference picture is not the one the capacity takes out: short-term, it is
\* the newest, and the long-term pictures leave room for it.
LEMMA NewestStays ==
    ASSUME NEW st, AreStores(st), IsFiniteSet(DOMAIN st), NEW cur \in CurrentPicture,
           NEW counts \in Poc, NEW long \in Nat \cup {None}, NEW mmco5 \in BOOLEAN,
           NEW sps \in SpsSet,
           cur.header.reference, ~cur.secondField, \A k \in DOMAIN st : k < cur.key,
           \/ References(st) = {}
           \/ /\ ~mmco5 /\ \A k \in DOMAIN st : st[k].frameNum < cur.maxFrameNum
              /\ Cardinality(Holders(st, "LongTerm") \ {cur.key}) < RefCap(sps)
    PROVE  cur.key \in References(EnforceCapacity(Insert(st, cur, counts, long, mmco5), sps,
                                                  cur.header.frameNum, cur.maxFrameNum))
  <1> DEFINE h == cur.header
             max == cur.maxFrameNum
             key == cur.key
             own == NewStore(h, counts, long, mmco5)
             ins == Insert(st, cur, counts, long, mmco5)
             refs == References(ins)
             others == Holders(st, "LongTerm") \ {key}
             before == {j \in refs : DropsBefore(ins, h.frameNum, max, j, key)}
             excess == Cardinality(refs) - RefCap(sps)
             full == EnforceCapacity(ins, sps, h.frameNum, max)
  <1>1. /\ h \in Headers /\ h.frameNum \in Nat /\ key \in Nat /\ max \in Nat \ {0}
        /\ RefCap(sps) \in Nat \ {0} /\ h.structure \in Structures
    BY CurrentParts, HeaderParts, CapacityPositive
  <1>2. /\ AreStores(ins) /\ DOMAIN ins = DOMAIN st \cup {key} /\ key \notin DOMAIN st
        /\ \A k \in DOMAIN st : ins[k] = st[k]
        /\ ins[key] = own
    <2>1. key \notin DOMAIN st
      BY <1>1
    <2>2. cur.secondField => IsField(cur.header.structure)
      OBVIOUS
    <2>3. AreStores(ins)
      BY <2>2, InsertType
    <2>4. ins = [k \in DOMAIN st \cup {key} |-> IF k # key THEN st[k] ELSE own]
      BY <2>1 DEF Insert
    <2> HIDE DEF ins, own, key
    <2> QED
      BY <2>1, <2>3, <2>4
  <1>3. /\ own.frameNum = (IF mmco5 THEN 0 ELSE h.frameNum)
        /\ \E p \in Parities : IsMarked(own.fields[p], IF long = None THEN "ShortTerm" ELSE "LongTerm")
    <2>1. own.frameNum = (IF mmco5 THEN 0 ELSE h.frameNum)
      BY DEF NewStore
    <2>2. PICK p \in Parities : ~(IsField(h.structure) /\ p # ParityOf(h.structure))
      BY <1>1, HeaderParts DEF Parities
    <2>3. own.fields[p] = OwnField(h, p, counts, long)
      BY <1>1, <2>2, NewStoreType
    <2>4. /\ OwnField(h, p, counts, long).decoded
          /\ OwnField(h, p, counts, long).marking = (IF long = None THEN "ShortTerm" ELSE "LongTerm")
      BY <1>1, OwnFieldType
    <2> QED
      BY <2>1, <2>3, <2>4 DEF IsMarked
  <1> HIDE DEF own
  <1>4. PICK p \in Parities : ins[key].fields[p].decoded /\ ins[key].fields[p].marking # "Unused"
    BY <1>2, <1>3 DEF IsMarked
  <1>5. key \in refs /\ refs \subseteq DOMAIN ins /\ IsFiniteSet(DOMAIN ins)
    BY <1>2, <1>4, FS_AddElement DEF References, IsReference
  <1>6. IsFiniteSet(refs) /\ Cardinality(refs) \in Nat /\ IsFiniteSet(before)
        /\ Cardinality(before) \in Nat /\ before \subseteq refs
    BY <1>5, FS_Subset, FS_CardinalityType
  <1>7. Cardinality(before) >= excess
    <2>1. CASE References(st) = {}
      <3>1. refs \subseteq {key}
        BY <2>1, InsertReferences
      <3>2. IsFiniteSet({key}) /\ Cardinality({key}) = 1
        BY FS_Singleton
      <3>3. Cardinality(refs) <= 1
        BY <3>1, <3>2, FS_Subset
      <3> QED
        BY <1>1, <1>6, <3>3
    <2>2. CASE /\ ~mmco5 /\ \A k \in DOMAIN st : st[k].frameNum < max
               /\ Cardinality(others) < RefCap(sps)
      <3>1. ASSUME NEW j \in refs, j # key, j \notin others
            PROVE  DropsBefore(ins, h.frameNum, max, j, key)
        <4>1. j \in DOMAIN st /\ ins[j] = st[j] /\ j \in Nat /\ j < key /\ st[j].frameNum \in Nat
          BY <1>2, <1>5, <3>1, StoreParts
        <4>2. j \notin Holders(ins, "LongTerm")
          BY <3>1, <4>1 DEF Holders
        <4>3. CASE key \in Holders(ins, "LongTerm")
          BY <4>2, <4>3 DEF DropsBefore
        <4>4. CASE key \notin Holders(ins, "LongTerm")
          <5>1. FrameNumWrap(ins[key], h.frameNum, max) = h.frameNum
            BY <1>1, <1>2, <1>3, <2>2 DEF FrameNumWrap
          <5>2. FrameNumWrap(ins[j], h.frameNum, max) \in Int
                /\ FrameNumWrap(ins[j], h.frameNum, max) <= h.frameNum
            BY <1>1, <2>2, <4>1 DEF FrameNumWrap
          <5>3. Older(ins, h.frameNum, max, j, key)
            BY <1>1, <4>1, <5>1, <5>2 DEF Older
          <5> QED
            BY <4>2, <4>4, <5>3 DEF DropsBefore
        <4> QED
          BY <4>3, <4>4
      <3>2. refs \subseteq before \cup (others \cup {key})
        BY <3>1
      <3> HIDE DEF before, others, refs
      <3>3. IsFiniteSet(others) /\ Cardinality(others) \in Nat
        BY Counted, FS_Subset, FS_CardinalityType DEF others
      <3>4. /\ IsFiniteSet(others \cup {key}) /\ Cardinality(others \cup {key}) \in Nat
            /\ Cardinality(others \cup {key}) <= Cardinality(others) + 1
        <4>1. /\ IsFiniteSet(others \cup {key})
              /\ \/ Cardinality(others \cup {key}) = Cardinality(others)
                 \/ Cardinality(others \cup {key}) = Cardinality(others) + 1
          BY <3>3, FS_AddElement
        <4> QED
          BY <3>3, <4>1
      <3>5. /\ IsFiniteSet(before \cup (others \cup {key}))
            /\ Cardinality(before \cup (others \cup {key})) <= Cardinality(before) + Cardinality(others \cup {key})
            /\ Cardinality(before \cup (others \cup {key})) \in Nat
        <4>1. /\ IsFiniteSet(before \cup (others \cup {key}))
              /\ Cardinality(before \cup (others \cup {key}))
                   = Cardinality(before) + Cardinality(others \cup {key}) - Cardinality(before \cap (others \cup {key}))
          BY <1>6, <3>4, FS_Union
        <4>2. Cardinality(before \cap (others \cup {key})) \in Nat
          BY <1>6, FS_Subset, FS_CardinalityType
        <4> QED
          BY <1>6, <3>4, <4>1, <4>2, FS_CardinalityType
      <3>6. Cardinality(refs) <= Cardinality(before \cup (others \cup {key}))
        BY <3>2, <3>5, FS_Subset
      <3> QED
        BY <1>1, <1>6, <2>2, <3>3, <3>4, <3>5, <3>6
    <2> QED
      BY <2>1, <2>2
  <1> HIDE DEF ins
  <1>8. <<key, p>> \notin OverCapacity(ins, sps, h.frameNum, max)
    <2>1. <<key, p>> \in OverCapacity(ins, sps, h.frameNum, max) => Cardinality(before) < excess
      BY DEF OverCapacity
    <2> QED
      BY <1>1, <1>6, <1>7, <2>1
  <1>9. full = Unmark(ins, OverCapacity(ins, sps, h.frameNum, max))
    BY DEF EnforceCapacity
  <1> HIDE DEF full
  <1>10. key \in DOMAIN full /\ full[key].fields[p] = ins[key].fields[p]
    BY <1>2, <1>5, <1>8, <1>9, UnmarkType
  <1>11. key \in References(full)
    BY <1>4, <1>10 DEF References, IsReference
  <1> QED
    BY <1>11 DEF full, ins

-----------------------------------------------------------------------------
(* The surfaces, call by call *)

\* What the bridge and the buffer agree on is kept by a step.
SurfacesKept ==
    /\ KeysCovered' /\ KeysReported' /\ FrameNumsBelow'
    /\ \A cap \in Nat \ {0} :
          (\A sps \in SpsSet : RefCap(sps) = cap) /\ StoresBounded(cap) => StoresBounded(cap)'

\* A picture without a gap takes the place of the first field it follows or gives up.
LEMMA BeginPictureSurfaces ==
    ASSUME ClearsAfterError, AgreeOnFrameNum, IInv, React, ~lost',
           KeysCovered, KeysReported, FrameNumsBelow,
           NEW sps \in SpsSet, NEW h \in Headers, BeginPicture(sps, h)
    PROVE  SurfacesKept
  <1> DEFINE firstKey == IF Pairs(h) THEN lastField.key ELSE None
             abandoned == AbandonedFirstField(h)
  <1>1. TypeOK /\ ControlInv /\ KeysInv
    BY DEF IInv
  <1>2. /\ gap = None /\ marking = None /\ pending = None
        /\ lastField' = None /\ stores' = stores /\ releasedEarly' = releasedEarly
        /\ gap' = None /\ marking' = None
        /\ StartPicture(sps, h, firstKey, abandoned, {})
        /\ h.frameNum < sps.maxFrameNum
    BY DEF BeginPicture, Idle, ParsedAgainst
  <1>3. firstKey \in Nat \cup {None} /\ abandoned \in Nat \cup {None}
    BY <1>1 DEF TypeOK, LastField, AbandonedFirstField, Pairs
  <1>4. /\ Pairs(h) => lastField # None
        /\ abandoned = (IF lastField # None /\ ~Pairs(h) /\ ~lastField.reference
                       THEN lastField.key ELSE None)
    BY DEF Pairs, AbandonedFirstField
  <1>5. reply' # Failed
    BY Reacts
  <1> HIDE DEF firstKey, abandoned
  <1>6. /\ pending' # None /\ pending'.header = h /\ pending'.maxFrameNum = sps.maxFrameNum
        /\ pending'.nonExisting = {} /\ pending'.abandonedFirstField = abandoned
        /\ firstKey # None => /\ pending'.key = firstKey /\ nextKey' = nextKey
                              /\ pending'.secondField
        /\ firstKey = None => /\ pending'.key = nextKey /\ nextKey' = nextKey + 1
                              /\ ~pending'.secondField
        /\ reply' # None /\ reply'.result = "begun"
    <2> DEFINE inserted == {}
    <2>1. /\ TypeOK
          /\ StartPicture(sps, h, firstKey, abandoned, inserted)
      BY <1>1, <1>2
    <2>2. inserted \in SUBSET Nat
      OBVIOUS
    <2>3. inserted = {}
      OBVIOUS
    <2> HIDE DEF inserted
    <2>4. /\ pending' # None /\ pending'.header = h /\ pending'.maxFrameNum = sps.maxFrameNum
          /\ pending'.nonExisting = inserted /\ pending'.abandonedFirstField = abandoned
          /\ firstKey # None => /\ pending'.key = firstKey /\ nextKey' = nextKey
                                /\ pending'.secondField
          /\ firstKey = None => /\ pending'.key = nextKey /\ nextKey' = nextKey + 1
                                /\ ~pending'.secondField
          /\ reply' # None /\ reply'.result = "begun"
      BY <1>3, <1>5, <2>1, <2>2, Started
    <2> QED
      BY <2>3, <2>4
  <1>7. surfaces' = (surfaces \cup {pending'.key} \cup {}) \ {abandoned}
    BY <1>6, Reacts DEF OnBegun
  <1>8. firstKey = (IF Pairs(h) THEN lastField.key ELSE None)
    BY DEF firstKey
  <1>9. /\ Awaited = (IF lastField = None THEN {} ELSE {lastField.key})
        /\ InProgress = {} /\ Current = {} /\ Inserted = {} /\ GivenUp = {}
        /\ releasedEarly = {}
    BY <1>2 DEF Awaited, InProgress, Current, Inserted, GivenUp, KeysReported
  <1>10. /\ Awaited' = {} /\ Current' = {pending'.key} /\ Inserted' = {} /\ GivenUp' = {}
    BY <1>2, <1>6 DEF Awaited, InProgress, Current, Inserted, GivenUp
  <1>11. /\ DOMAIN stores \cup Awaited \subseteq surfaces
         /\ surfaces \subseteq DOMAIN stores \cup Awaited
         /\ lastField # None => (lastField.key \in DOMAIN stores <=> lastField.reference)
    BY <1>9 DEF KeysCovered, KeysReported
  <1>12. KeysCovered'
    <2>1. DOMAIN stores \cup {pending'.key} \subseteq surfaces'
      BY <1>3, <1>4, <1>6, <1>7, <1>8, <1>11, KeysBelow
    <2>2. surfaces' \subseteq DOMAIN stores \cup {pending'.key}
      BY <1>3, <1>4, <1>6, <1>7, <1>8, <1>9, <1>11, KeysBelow
    <2> QED
      BY <1>2, <1>10, <2>1, <2>2 DEF KeysCovered
  <1>13. KeysReported'
    <2>1. ~pending'.secondField => pending'.key = nextKey' - 1
      BY <1>3, <1>6, KeysBelow
    <2> QED
      BY <1>2, <1>10, <2>1 DEF KeysReported
  <1>14. FrameNumsBelow'
    BY <1>2, <1>6 DEF FrameNumsBelow, AgreeOnFrameNum
  <1>15. ASSUME NEW cap \in Nat \ {0}, StoresBounded(cap)
         PROVE  StoresBounded(cap)'
    <2>1. Cardinality(DOMAIN stores) <= cap /\ Cardinality(DOMAIN stores) \in Nat
      BY <1>2, <1>9, <1>15, StoresFinite, FS_CardinalityType DEF StoresBounded
    <2>2. DOMAIN stores' \cup releasedEarly' = DOMAIN stores
      BY <1>2, <1>9
    <2> QED
      BY <1>2, <1>6, <1>10, <2>1, <2>2 DEF StoresBounded
  <1> QED
    BY <1>12, <1>13, <1>14, <1>15 DEF SurfacesKept

-----------------------------------------------------------------------------
(* Frame numbers from u to f, modulo m *)

\* The difference that the code computes.
LEMMA Distance ==
    ASSUME NEW m \in Nat \ {0}, NEW u \in Nat, u < m, NEW f \in Nat, f < m
    PROVE  (f + m - u) % m = (IF u <= f THEN f - u ELSE f + m - u)
  <1>1. ASSUME NEW x \in Nat, x < m
        PROVE  x % m = x /\ (x + m) % m = x
    BY <1>1
  <1>2. CASE u <= f
    <2>1. f - u \in Nat /\ f - u < m /\ f + m - u = (f - u) + m
      BY <1>2
    <2> QED
      BY <1>1, <1>2, <2>1
  <1>3. CASE ~(u <= f)
    <2>1. f + m - u \in Nat /\ f + m - u < m
      BY <1>3
    <2> QED
      BY <1>1, <1>3, <2>1
  <1> QED
    BY <1>2, <1>3

\* A step shortens it by one.
LEMMA Nearer ==
    ASSUME NEW m \in Nat \ {0}, NEW u \in Nat, u < m, NEW f \in Nat, f < m, u # f
    PROVE  LET v == (u + 1) % m
           IN  /\ v \in Nat /\ v < m
               /\ (IF v <= f THEN f - v ELSE f + m - v)
                    = (IF u <= f THEN f - u ELSE f + m - u) - 1
               /\ (IF u <= f THEN f - u ELSE f + m - u) >= 1
  <1>1. CASE u + 1 < m
    <2>1. (u + 1) % m = u + 1
      BY <1>1
    <2> QED
      BY <1>1, <2>1
  <1>2. CASE u + 1 = m
    <2>1. (u + 1) % m = 0
      BY <1>2
    <2> QED
      BY <1>2, <2>1
  <1> QED
    BY <1>1, <1>2

-----------------------------------------------------------------------------
(* The loop over a gap *)

\* What the loop works with.
LEMMA GapParts ==
    ASSUME IInv, FrameNumsBelow, gap # None
    PROVE  /\ gap \in GapLoop /\ gap.sps \in SpsSet /\ gap.header \in Headers
           /\ gap.unused \in Nat /\ gap.skip \in Nat /\ gap.header.frameNum \in Nat
           /\ gap.sps.maxFrameNum \in Nat \ {0}
           /\ gap.unused < gap.sps.maxFrameNum /\ gap.header.frameNum < gap.sps.maxFrameNum
           /\ gap.abandonedFirstField \in Nat \cup {None} /\ gap.nonExisting \in SUBSET Nat
           /\ pending = None /\ marking = None /\ lastField = None /\ reply = None
           /\ Remaining(gap) \in Nat
           /\ Remaining(gap) = 0 <=> gap.unused = gap.header.frameNum
  <1>1. gap \in GapLoop
    BY DEF IInv, TypeOK
  <1>2. /\ gap.sps \in SpsSet /\ gap.header \in Headers
        /\ gap.unused \in Nat /\ gap.skip \in Nat
        /\ gap.abandonedFirstField \in Nat \cup {None} /\ gap.nonExisting \in SUBSET Nat
    BY <1>1 DEF GapLoop
  <1>3. gap.header.frameNum \in Nat /\ gap.sps.maxFrameNum \in Nat \ {0}
    BY <1>2, CapacityPositive, HeaderParts
  <1>4. gap.unused < gap.sps.maxFrameNum /\ gap.header.frameNum < gap.sps.maxFrameNum
    BY <1>2 DEF FrameNumsBelow
  <1>5. pending = None /\ marking = None /\ lastField = None /\ reply = None
    BY DEF IInv, ControlInv
  <1>6. Remaining(gap) \in Nat /\ (Remaining(gap) = 0 <=> gap.unused = gap.header.frameNum)
    BY <1>2, <1>3, <1>4 DEF Remaining
  <1> QED
    BY <1>1, <1>2, <1>3, <1>4, <1>5, <1>6

\* A gap begins: what it may insert, the skipped frames apart, is no more than the capacity.
LEMMA BeginWithGapSurfaces ==
    ASSUME ClearsAfterError, AgreeOnFrameNum, IInv, React, ~lost',
           KeysCovered, KeysReported, FrameNumsBelow,
           NEW sps \in SpsSet, NEW h \in Headers, BeginWithGap(sps, h)
    PROVE  SurfacesKept
  <1> DEFINE unused == (prevRefFrameNum + 1) % sps.maxFrameNum
             missing == (h.frameNum + sps.maxFrameNum - unused) % sps.maxFrameNum
             wide == missing > RefCap(sps)
             skip == IF wide THEN missing - RefCap(sps) ELSE 0
             abandoned == AbandonedFirstField(h)
             loop == [sps |-> sps, header |-> h, abandonedFirstField |-> abandoned,
                      unused |-> unused, skip |-> skip, nonExisting |-> {}]
  <1>1. TypeOK /\ ControlInv /\ KeysInv
    BY DEF IInv
  <1>2. /\ gap = None /\ marking = None /\ pending = None
        /\ lastField' = None /\ reply' = None /\ gap' = loop
        /\ stores' = IF wide THEN Unmark(stores, FieldsMarked(stores, "ShortTerm"))
                     ELSE stores
        /\ nextKey' = nextKey /\ pending' = None /\ releasedEarly' = releasedEarly /\ marking' = None
        /\ h.frameNum < sps.maxFrameNum /\ ~Pairs(h)
    BY DEF BeginWithGap, Idle, ParsedAgainst, SkipsFrameNum
  <1>3. /\ prevRefFrameNum \in Nat /\ sps.maxFrameNum \in Nat \ {0}
        /\ h.frameNum \in Nat /\ RefCap(sps) \in Nat \ {0}
    BY <1>1, CapacityPositive, HeaderParts DEF TypeOK
  <1>4. unused \in Nat /\ unused < sps.maxFrameNum
    BY <1>3
  <1>5. /\ abandoned \in Nat \cup {None}
        /\ abandoned = (IF lastField # None /\ ~lastField.reference THEN lastField.key ELSE None)
    BY <1>1, <1>2 DEF TypeOK, LastField, AbandonedFirstField
  <1> HIDE DEF unused
  <1>6. missing = (IF unused <= h.frameNum THEN h.frameNum - unused
                   ELSE h.frameNum + sps.maxFrameNum - unused)
    BY <1>2, <1>3, <1>4, Distance
  <1> HIDE DEF missing
  <1>7. missing \in Nat /\ skip \in Nat /\ skip <= missing /\ missing - skip <= RefCap(sps)
    BY <1>2, <1>3, <1>4, <1>6
  <1> HIDE DEF skip, abandoned
  <1>8. loop \in GapLoop
    BY <1>4, <1>5, <1>7 DEF GapLoop
  <1>9. /\ gap' # None /\ gap'.sps = sps /\ gap'.header = h /\ gap'.abandonedFirstField = abandoned
        /\ gap'.unused = unused /\ gap'.skip = skip /\ gap'.nonExisting = {}
    BY <1>2, <1>8, AbsentAssumption
  <1>10. Unmarks(stores, stores')
    <2>1. AreStores(stores)
      BY <1>1 DEF TypeOK
    <2>2. Unmarks(stores, stores)
      BY <2>1 DEF Unmarks
    <2> HIDE DEF wide
    <2> QED
      BY <1>2, <2>1, <2>2, UnmarkUnmarks
  <1> HIDE DEF loop, wide
  <1>11. /\ DOMAIN stores' = DOMAIN stores
         /\ \A k \in DOMAIN stores : stores'[k].frameNum = stores[k].frameNum
    BY <1>10 DEF Unmarks
  <1>12. surfaces' = surfaces
    BY <1>2, Reacts
  <1>13. /\ Awaited = (IF lastField = None THEN {} ELSE {lastField.key})
         /\ InProgress = {} /\ Current = {} /\ Inserted = {} /\ GivenUp = {}
         /\ releasedEarly = {}
    BY <1>2 DEF Awaited, InProgress, Current, Inserted, GivenUp, KeysReported
  <1>14. /\ Awaited' = {} /\ Current' = {} /\ Inserted' = {} /\ GivenUp' = {abandoned} \ {None}
    BY <1>2, <1>9 DEF Awaited, InProgress, Current, Inserted, GivenUp
  <1>15. /\ DOMAIN stores \cup Awaited \subseteq surfaces
         /\ surfaces \subseteq DOMAIN stores \cup Awaited
         /\ lastField # None => (lastField.key \in DOMAIN stores <=> lastField.reference)
    BY <1>13 DEF KeysCovered, KeysReported
  <1>16. KeysCovered'
    <2>1. surfaces \subseteq DOMAIN stores \cup ({abandoned} \ {None})
      BY <1>5, <1>13, <1>15, KeysBelow
    <2> QED
      BY <1>2, <1>11, <1>12, <1>14, <1>15, <2>1 DEF KeysCovered
  <1>17. KeysReported'
    <2>1. ({abandoned} \ {None}) \cap DOMAIN stores = {}
          /\ \A k \in {abandoned} \ {None} : k < nextKey
      BY <1>5, <1>15, KeysBelow
    <2> QED
      BY <1>2, <1>11, <1>13, <1>14, <2>1 DEF KeysReported
  <1>18. FrameNumsBelow'
    BY <1>2, <1>4, <1>9, <1>11 DEF FrameNumsBelow, AgreeOnFrameNum
  <1>19. ASSUME NEW cap \in Nat \ {0}, RefCap(sps) = cap, StoresBounded(cap)
         PROVE  StoresBounded(cap)'
    <2>1. Cardinality(DOMAIN stores) <= cap /\ Cardinality(DOMAIN stores) \in Nat
      BY <1>2, <1>13, <1>19, StoresFinite, FS_CardinalityType DEF StoresBounded
    <2>2. Remaining(gap') = missing
      BY <1>6, <1>9 DEF Remaining
    <2>3. /\ 0 \in 0 .. cap /\ 0 + Remaining(gap') - gap'.skip <= cap
          /\ Cardinality(DOMAIN stores') <= cap + 0
      BY <1>7, <1>9, <1>11, <1>19, <2>1, <2>2
    <2>4. gap'.skip <= Remaining(gap')
      BY <1>7, <1>9, <2>2
    <2>5. \E n \in 0 .. cap : /\ n + Remaining(gap') - gap'.skip <= cap
                             /\ Cardinality(DOMAIN stores') <= cap + n
      BY <2>3
    <2> QED
      BY <1>2, <1>9, <2>4, <2>5 DEF StoresBounded
  <1> QED
    BY <1>16, <1>17, <1>18, <1>19 DEF SurfacesKept

\* A skipped frame is one less to come.
LEMMA SkipFrameSurfaces ==
    ASSUME ClearsAfterError, AgreeOnFrameNum, IInv, React, ~lost',
           KeysCovered, KeysReported, FrameNumsBelow, SkipFrame
    PROVE  SurfacesKept
  <1> DEFINE next == (gap.unused + 1) % gap.sps.maxFrameNum
  <1>1. /\ gap # None /\ gap.skip > 0
        /\ gap' = [gap EXCEPT !.unused = next, !.skip = gap.skip - 1]
        /\ UNCHANGED <<stores, nextKey, pending, lastField, releasedEarly, marking, reply>>
    BY DEF SkipFrame
  <1>2. /\ gap \in GapLoop /\ gap.sps \in SpsSet
        /\ gap.unused \in Nat /\ gap.skip \in Nat /\ gap.header.frameNum \in Nat
        /\ gap.sps.maxFrameNum \in Nat \ {0}
        /\ gap.unused < gap.sps.maxFrameNum /\ gap.header.frameNum < gap.sps.maxFrameNum
        /\ pending = None /\ marking = None /\ reply = None
        /\ Remaining(gap) \in Nat /\ (Remaining(gap) = 0 <=> gap.unused = gap.header.frameNum)
    BY <1>1, GapParts
  <1>3. /\ next \in Nat /\ next < gap.sps.maxFrameNum /\ gap.skip - 1 \in Nat
        /\ gap.unused # gap.header.frameNum =>
             (IF next <= gap.header.frameNum THEN gap.header.frameNum - next
              ELSE gap.header.frameNum + gap.sps.maxFrameNum - next) = Remaining(gap) - 1
    <2>1. next \in Nat /\ next < gap.sps.maxFrameNum /\ gap.skip - 1 \in Nat
      BY <1>1, <1>2
    <2>2. ASSUME gap.unused # gap.header.frameNum
          PROVE  (IF next <= gap.header.frameNum THEN gap.header.frameNum - next
                  ELSE gap.header.frameNum + gap.sps.maxFrameNum - next) = Remaining(gap) - 1
      <3> DEFINE max == gap.sps.maxFrameNum
                 u == gap.unused
                 f == gap.header.frameNum
      <3>1. max \in Nat \ {0} /\ u \in Nat /\ f \in Nat /\ u < max /\ f < max /\ u # f
        BY <1>2, <2>2
      <3>2. next = (u + 1) % max /\ Remaining(gap) = (IF u <= f THEN f - u ELSE f + max - u)
        BY DEF Remaining
      <3> HIDE DEF max, u, f, next
      <3>3. (IF next <= f THEN f - next ELSE f + max - next) = Remaining(gap) - 1
        BY <3>1, <3>2, Nearer
      <3> QED
        BY <3>3 DEF max, f
    <2> QED
      BY <2>1, <2>2
  <1> HIDE DEF next
  <1>4. /\ gap' \in GapLoop /\ gap'.unused = next /\ gap'.skip = gap.skip - 1
        /\ gap'.sps = gap.sps /\ gap'.header = gap.header /\ gap'.nonExisting = gap.nonExisting
        /\ gap'.abandonedFirstField = gap.abandonedFirstField
    BY <1>1, <1>2, <1>3 DEF GapLoop
  <1>5. gap' # None
    BY <1>4, AbsentAssumption
  <1>6. surfaces' = surfaces
    BY <1>1, <1>2, Reacts
  <1>7. Awaited' = Awaited /\ Current' = Current /\ Inserted' = Inserted /\ GivenUp' = GivenUp
    BY <1>1, <1>4, <1>5 DEF Awaited, InProgress, Current, Inserted, GivenUp
  <1>8. KeysCovered'
    BY <1>1, <1>6, <1>7 DEF KeysCovered
  <1>9. KeysReported'
    BY <1>1, <1>7 DEF KeysReported
  <1>10. gap.unused # gap.header.frameNum => Remaining(gap') = Remaining(gap) - 1
    BY <1>3, <1>4 DEF Remaining
  <1>12. FrameNumsBelow'
    BY <1>1, <1>2, <1>3, <1>4 DEF FrameNumsBelow, AgreeOnFrameNum
  <1>13. ASSUME NEW cap \in Nat \ {0}, StoresBounded(cap)
         PROVE  StoresBounded(cap)'
    <2>1. /\ gap.skip <= Remaining(gap)
          /\ \E n \in 0 .. cap : /\ n + Remaining(gap) - gap.skip <= cap
                                 /\ Cardinality(DOMAIN stores) <= cap + n
      BY <1>1, <1>13 DEF StoresBounded
    <2>2. gap.unused # gap.header.frameNum
      BY <1>1, <1>2, <2>1
    <2>3. Remaining(gap') - gap'.skip = Remaining(gap) - gap.skip /\ gap'.skip <= Remaining(gap')
      BY <1>2, <1>4, <1>10, <2>1, <2>2
    <2>4. PICK n \in 0 .. cap : /\ n + Remaining(gap) - gap.skip <= cap
                              /\ Cardinality(DOMAIN stores) <= cap + n
      BY <2>1
    <2>5. n + Remaining(gap') - gap'.skip <= cap /\ Cardinality(DOMAIN stores') <= cap + n
      <3>1. Remaining(gap') \in Int /\ gap'.skip \in Int
        BY <1>2, <1>4, <1>10, <2>2
      <3> QED
        BY <1>1, <1>2, <2>3, <2>4, <3>1
    <2> QED
      BY <1>1, <1>2, <1>5, <2>3, <2>5 DEF StoresBounded
  <1> QED
    BY <1>8, <1>9, <1>12, <1>13 DEF SurfacesKept

\* An inserted frame is one less to come, and one more to report.
LEMMA FillFrameSurfaces ==
    ASSUME ClearsAfterError, AgreeOnFrameNum, IInv, React, ~lost',
           KeysCovered, KeysReported, FrameNumsBelow, FillFrame
    PROVE  SurfacesKept
  <1> DEFINE max == gap.sps.maxFrameNum
             next == (gap.unused + 1) % max
             slid == SlidingWindow(stores, gap.sps, gap.unused, max, None)
             counts == DeriveNonExisting(poc, gap.sps, gap.unused)
             new == NonExistingStore(gap.unused, counts)
             inserted == gap.nonExisting \cup {nextKey}
  <1>1. reply' # Failed
    BY Reacts
  <1>2. /\ gap # None /\ gap.skip = 0 /\ gap.unused # gap.header.frameNum
        /\ stores' = [k \in DOMAIN slid \cup {nextKey} |-> IF k = nextKey THEN new ELSE slid[k]]
        /\ nextKey' = nextKey + 1
        /\ gap' = [gap EXCEPT !.unused = next, !.nonExisting = inserted]
        /\ UNCHANGED <<pending, lastField, releasedEarly, marking, reply>>
    BY <1>1 DEF FillFrame
  <1>3. /\ gap \in GapLoop /\ gap.sps \in SpsSet
        /\ gap.unused \in Nat /\ gap.skip \in Nat /\ gap.header.frameNum \in Nat
        /\ max \in Nat \ {0} /\ gap.nonExisting \in SUBSET Nat
        /\ gap.unused < max /\ gap.header.frameNum < max
        /\ pending = None /\ marking = None /\ lastField = None /\ reply = None
        /\ Remaining(gap) \in Nat /\ (Remaining(gap) = 0 <=> gap.unused = gap.header.frameNum)
    BY <1>2, GapParts
  <1>4. /\ next \in Nat /\ next < max
        /\ (IF next <= gap.header.frameNum THEN gap.header.frameNum - next
            ELSE gap.header.frameNum + max - next) = Remaining(gap) - 1
        /\ Remaining(gap) >= 1
    BY <1>2, <1>3, Nearer DEF Remaining
  <1>5. nextKey \in Nat /\ inserted \in SUBSET Nat
    BY <1>3, KeysBelow
  <1>6. new.frameNum = gap.unused
    BY DEF NonExistingStore
  <1>7. Unmarks(stores, slid)
    BY SlidingWindowUnmarks DEF IInv, TypeOK
  <1> HIDE DEF slid, new, counts, next, inserted
  <1>8. /\ gap' \in GapLoop /\ gap'.unused = next /\ gap'.nonExisting = inserted
        /\ gap'.sps = gap.sps /\ gap'.header = gap.header /\ gap'.skip = gap.skip
        /\ gap'.abandonedFirstField = gap.abandonedFirstField
    BY <1>2, <1>3, <1>4, <1>5 DEF GapLoop
  <1>9. gap' # None
    BY <1>8, AbsentAssumption
  <1>10. surfaces' = surfaces
    BY <1>2, <1>3, Reacts
  <1>11. /\ DOMAIN stores' = DOMAIN stores \cup {nextKey}
         /\ \A k \in DOMAIN stores' : stores'[k].frameNum =
                 (IF k = nextKey THEN gap.unused ELSE stores[k].frameNum)
    BY <1>2, <1>6, <1>7 DEF Unmarks
  <1>12. /\ Awaited' = Awaited /\ Current' = Current /\ Current = {}
         /\ Inserted = gap.nonExisting /\ Inserted' = inserted /\ GivenUp' = GivenUp
    BY <1>2, <1>3, <1>8, <1>9 DEF Awaited, InProgress, Current, Inserted, GivenUp
  <1>13. KeysCovered'
    BY <1>2, <1>10, <1>11, <1>12 DEF KeysCovered, inserted
  <1>14. KeysReported'
    <2>1. /\ Inserted \subseteq DOMAIN stores /\ GivenUp \cap DOMAIN stores = {}
          /\ \A k \in GivenUp : k < nextKey
          /\ releasedEarly = {}
      BY <1>12 DEF KeysReported
    <2>2. nextKey \notin GivenUp
      BY <1>5, <2>1
    <2>3. GivenUp \subseteq Nat
      BY <1>3, GapParts DEF GivenUp
    <2>4. \A k \in GivenUp : k < nextKey'
      BY <1>2, <1>5, <2>1, <2>3
    <2> QED
      BY <1>2, <1>3, <1>11, <1>12, <2>1, <2>2, <2>4 DEF KeysReported, inserted
  <1>15. FrameNumsBelow'
    BY <1>2, <1>3, <1>4, <1>8, <1>11 DEF FrameNumsBelow, AgreeOnFrameNum
  <1>16. ASSUME NEW cap \in Nat \ {0}, StoresBounded(cap)
         PROVE  StoresBounded(cap)'
    <2>1. PICK n \in 0 .. cap : /\ n + Remaining(gap) - gap.skip <= cap
                              /\ Cardinality(DOMAIN stores) <= cap + n
      BY <1>2, <1>16 DEF StoresBounded
    <2>2. Remaining(gap') = Remaining(gap) - 1
      BY <1>4, <1>8 DEF Remaining
    <2>3. /\ n + 1 \in 0 .. cap /\ (n + 1) + Remaining(gap') - gap'.skip <= cap
          /\ gap'.skip <= Remaining(gap')
      BY <1>2, <1>3, <1>4, <1>8, <2>1, <2>2
    <2>4. Cardinality(DOMAIN stores') <= cap + (n + 1)
      <3>1. IsFiniteSet(DOMAIN stores) /\ Cardinality(DOMAIN stores) \in Nat
        BY StoresFinite, FS_CardinalityType
      <3>2. \/ Cardinality(DOMAIN stores \cup {nextKey}) = Cardinality(DOMAIN stores)
            \/ Cardinality(DOMAIN stores \cup {nextKey}) = Cardinality(DOMAIN stores) + 1
        BY <3>1, FS_AddElement
      <3> QED
        BY <1>11, <2>1, <3>1, <3>2
    <2> QED
      BY <1>2, <1>3, <1>9, <2>3, <2>4 DEF StoresBounded
  <1> QED
    BY <1>13, <1>14, <1>15, <1>16 DEF SurfacesKept

\* The end of a gap reports the inserted frames and the first field given up.
LEMMA EndGapSurfaces ==
    ASSUME ClearsAfterError, AgreeOnFrameNum, IInv, React, ~lost',
           KeysCovered, KeysReported, FrameNumsBelow, EndGap
    PROVE  SurfacesKept
  <1>1. reply' # Failed
    BY Reacts
  <1>2. /\ gap # None /\ gap' = None
        /\ gap.skip = 0 /\ gap.unused = gap.header.frameNum
        /\ stores' = EvictUnused(stores)
        /\ releasedEarly' = releasedEarly \cup UnusedKeys(stores)
        /\ StartPicture(gap.sps, gap.header, None, gap.abandonedFirstField, gap.nonExisting)
        /\ UNCHANGED <<lastField, marking>>
    BY DEF EndGap
  <1>3. /\ gap.sps \in SpsSet /\ gap.header \in Headers
        /\ gap.header.frameNum < gap.sps.maxFrameNum
        /\ gap.abandonedFirstField \in Nat \cup {None} /\ gap.nonExisting \in SUBSET Nat
        /\ pending = None /\ marking = None /\ lastField = None
    BY <1>2, GapParts
  <1>4. /\ pending' # None /\ pending'.header = gap.header
        /\ pending'.maxFrameNum = gap.sps.maxFrameNum
        /\ pending'.nonExisting = gap.nonExisting
        /\ pending'.abandonedFirstField = gap.abandonedFirstField
        /\ pending'.key = nextKey /\ nextKey' = nextKey + 1
        /\ reply' # None /\ reply'.result = "begun"
    <2> DEFINE first == None
               sps == gap.sps
               h == gap.header
               abandoned == gap.abandonedFirstField
               inserted == gap.nonExisting
    <2>1. /\ TypeOK /\ first = None /\ first \in Nat \cup {None}
          /\ StartPicture(sps, h, first, abandoned, inserted)
      BY <1>2 DEF IInv
    <2>2. /\ sps \in SpsSet /\ h \in Headers
          /\ abandoned \in Nat \cup {None} /\ inserted \in SUBSET Nat
      BY <1>3
    <2> HIDE DEF first, sps, h, abandoned, inserted
    <2>3. /\ pending' # None /\ pending'.header = h /\ pending'.maxFrameNum = sps.maxFrameNum
          /\ pending'.nonExisting = inserted /\ pending'.abandonedFirstField = abandoned
          /\ pending'.key = nextKey /\ nextKey' = nextKey + 1
          /\ reply' # None /\ reply'.result = "begun"
      BY <1>1, <2>1, <2>2, Started
    <2> QED
      BY <2>3 DEF sps, h, abandoned, inserted
  <1>5. surfaces' = (surfaces \cup {nextKey} \cup gap.nonExisting) \ {gap.abandonedFirstField}
    BY <1>4, Reacts DEF OnBegun
  <1>6. /\ DOMAIN stores' = References(stores) /\ References(stores) \subseteq DOMAIN stores
        /\ \A k \in DOMAIN stores' : stores'[k] = stores[k]
        /\ UnusedKeys(stores) = DOMAIN stores \ References(stores)
    BY <1>2, EvictUnusedType DEF UnusedKeys, IInv, TypeOK
  <1>7. /\ Awaited = {} /\ Current = {} /\ Inserted = gap.nonExisting
        /\ GivenUp = {gap.abandonedFirstField} \ {None}
        /\ Awaited' = {} /\ Current' = {nextKey} /\ Inserted' = {} /\ GivenUp' = {}
    BY <1>2, <1>3, <1>4 DEF Awaited, InProgress, Current, Inserted, GivenUp
  <1>8. /\ DOMAIN stores \ gap.nonExisting \subseteq surfaces
        /\ surfaces \subseteq DOMAIN stores \cup releasedEarly \cup GivenUp
        /\ gap.nonExisting \subseteq DOMAIN stores
        /\ GivenUp \cap DOMAIN stores = {} /\ \A k \in GivenUp : k < nextKey
        /\ releasedEarly = {}
    BY <1>7 DEF KeysCovered, KeysReported
  <1>9. releasedEarly' = DOMAIN stores \ DOMAIN stores'
    BY <1>2, <1>6, <1>8
  <1>10. gap.abandonedFirstField \notin DOMAIN stores /\ gap.abandonedFirstField # nextKey
    <2>1. CASE gap.abandonedFirstField = None
      BY <2>1, KeysBelow
    <2>2. CASE gap.abandonedFirstField # None
      BY <1>3, <1>7, <1>8, <2>2, KeysBelow
    <2> QED
      BY <2>1, <2>2
  <1>11. KeysCovered'
    <2>1. DOMAIN stores \cup {nextKey} \subseteq surfaces'
      BY <1>5, <1>8, <1>10
    <2>2. surfaces' \subseteq DOMAIN stores \cup {nextKey}
      BY <1>5, <1>7, <1>8
    <2> QED
      BY <1>6, <1>7, <1>9, <2>1, <2>2 DEF KeysCovered
  <1>12. KeysReported'
    <2>1. pending'.key = nextKey' - 1
      BY <1>4, KeysBelow
    <2> QED
      BY <1>2, <1>3, <1>7, <2>1 DEF KeysReported
  <1>13. FrameNumsBelow'
    BY <1>2, <1>3, <1>4, <1>6 DEF FrameNumsBelow, AgreeOnFrameNum
  <1>14. ASSUME NEW cap \in Nat \ {0}, StoresBounded(cap)
         PROVE  StoresBounded(cap)'
    <2>1. PICK n \in 0 .. cap : Cardinality(DOMAIN stores) <= cap + n
      BY <1>2, <1>14 DEF StoresBounded
    <2>2. Cardinality(DOMAIN stores) <= 2 * cap
      BY <2>1, StoresFinite, FS_CardinalityType
    <2>3. DOMAIN stores' \cup releasedEarly' = DOMAIN stores
      BY <1>6, <1>9
    <2> QED
      BY <1>2, <1>7, <2>2, <2>3 DEF StoresBounded
  <1> QED
    BY <1>11, <1>12, <1>13, <1>14 DEF SurfacesKept

-----------------------------------------------------------------------------
(* The end of a picture *)

\* Insertion brings no frame_num beyond the modulus.
LEMMA InsertedNums ==
    ASSUME NEW st, AreStores(st), NEW cur \in CurrentPicture, NEW counts \in Poc,
           NEW long \in Nat \cup {None}, NEW mmco5 \in BOOLEAN,
           cur.secondField => IsField(cur.header.structure),
           NEW max \in Nat \ {0}, cur.header.frameNum < max,
           \A k \in DOMAIN st : st[k].frameNum < max
    PROVE  \A k \in DOMAIN Insert(st, cur, counts, long, mmco5) :
               Insert(st, cur, counts, long, mmco5)[k].frameNum < max
  <1> DEFINE h == cur.header
             p == ParityOf(h.structure)
             own == NewStore(h, counts, long, mmco5)
             field == OwnField(h, p, counts, long)
             joined == JoinFields(st[cur.key], p, field, long)
             ins == Insert(st, cur, counts, long, mmco5)
  <1>1. own.frameNum < max
    BY DEF NewStore
  <1>2. ASSUME cur.key \in DOMAIN st, cur.secondField
        PROVE  joined.frameNum < max
    <2>1. h \in Headers /\ p \in Parities
      BY <1>2, CurrentParts, HeaderParts
    <2>2. field \in FieldState
      BY <2>1, OwnFieldType
    <2>3. st[cur.key] \in FrameStore
      BY <1>2, StoreParts
    <2> HIDE DEF field, p
    <2>4. joined.frameNum = st[cur.key].frameNum
      BY <2>1, <2>2, <2>3, JoinFieldsType
    <2> QED
      BY <1>2, <2>4
  <1>3. CASE ~h.reference
    BY <1>3 DEF Insert
  <1>4. CASE h.reference
    <2>1. ins = [k \in DOMAIN st \cup {cur.key} |->
                   IF k # cur.key THEN st[k]
                   ELSE IF k \in DOMAIN st /\ cur.secondField
                        THEN JoinFields(st[k], p, field, long) ELSE own]
      BY <1>4 DEF Insert
    <2> HIDE DEF own, field, p, ins
    <2>2. \A k \in DOMAIN ins : ins[k].frameNum < max
      BY <1>1, <1>2, <2>1
    <2> QED
      BY <2>2 DEF ins
  <1> QED
    BY <1>3, <1>4

\* The room a new reference picture needs to stay.
HasRoom(sps, cur, st, mmco5) ==
    cur.header.reference /\ ~cur.secondField =>
        \/ References(st) = {}
        \/ ~mmco5 /\ Cardinality(Holders(st, "LongTerm") \ {cur.key}) < RefCap(sps)

\* A finished picture frees what nothing holds any more, and a first field keeps its surface.
LEMMA CompleteSurfaces ==
    ASSUME ClearsAfterError, IInv, React, ~lost',
           KeysCovered, KeysReported,
           gap = None, lastField = None, NEW sps \in SpsSet, NEW cur, NEW st, NEW long, NEW mmco5,
           Marked(cur, st, long, mmco5), Complete(sps, cur, st, long, mmco5),
           Current = {cur.key}, ~cur.secondField => cur.key = nextKey - 1,
           \A k \in DOMAIN st : \A s \in SpsSet : st[k].frameNum < s.maxFrameNum,
           \A s \in SpsSet : cur.header.frameNum < s.maxFrameNum /\ cur.maxFrameNum = s.maxFrameNum,
           HasRoom(sps, cur, st, mmco5)
    PROVE  SurfacesKept
  <1> DEFINE h == cur.header
             counts == IF mmco5 THEN AfterMmco5(cur.poc, h.structure) ELSE cur.poc
             ins == Insert(st, cur, counts, long, mmco5)
             full == EnforceCapacity(ins, sps, h.frameNum, cur.maxFrameNum)
             awaiting == IsField(h.structure) /\ ~cur.secondField
             last == [key |-> cur.key, parity |-> ParityOf(h.structure),
                      frameNum |-> h.frameNum, reference |-> h.reference, idr |-> h.idr]
             stored == cur.key \in References(full)
             released == releasedEarly \cup UnusedKeys(full)
             result == [result |-> "finished", key |-> cur.key, stored |-> stored,
                        mmco5 |-> mmco5, pictureOrderCount |-> counts.count,
                        awaitingSecondField |-> awaiting, released |-> released]
  <1>1. /\ stores' = EvictUnused(full)
        /\ lastField' = (IF awaiting THEN last ELSE lastField)
        /\ releasedEarly' = {} /\ pending' = None /\ marking' = None
        /\ reply' = result /\ nextKey' = nextKey /\ gap' = gap
    BY DEF Complete
  <1>2. /\ cur \in CurrentPicture /\ AreStores(st) /\ DOMAIN st = DOMAIN stores
        /\ long \in Nat \cup {None} /\ mmco5 \in BOOLEAN
        /\ cur.secondField => IsField(h.structure) /\ releasedEarly = {}
        /\ ~cur.secondField => cur.key \notin DOMAIN stores \cup releasedEarly
    BY DEF Marked, PictureInv
  <1>3. /\ h \in Headers /\ h.frameNum \in Nat /\ h.structure \in Structures
        /\ h.reference \in BOOLEAN /\ h.idr \in BOOLEAN
        /\ cur.key \in Nat /\ cur.poc \in Poc /\ cur.secondField \in BOOLEAN
        /\ cur.maxFrameNum \in Nat \ {0}
        /\ IsField(h.structure) => ParityOf(h.structure) \in Parities
    BY <1>2, CurrentParts, HeaderParts
  <1>4. counts \in Poc
    BY <1>3, AfterMmco5Type
  <1>5. /\ AreStores(ins) /\ Unmarks(ins, full)
        /\ References(full) \subseteq DOMAIN full
        /\ DOMAIN EvictUnused(full) = References(full)
        /\ \A k \in References(full) : EvictUnused(full)[k] = full[k]
        /\ DOMAIN full = DOMAIN ins
    <2> HIDE DEF counts
    <2>1. Settled(st, cur, ins, full)
      BY <1>2, <1>4, CompleteStores
    <2> HIDE DEF ins, full
    <2> QED
      BY <2>1 DEF Settled
  <1>6. DOMAIN ins = (IF h.reference THEN DOMAIN stores \cup {cur.key} ELSE DOMAIN stores)
    BY <1>2 DEF Insert
  <1>7. \A s \in SpsSet : \A k \in DOMAIN ins : ins[k].frameNum < s.maxFrameNum
    <2> SUFFICES ASSUME NEW s \in SpsSet PROVE \A k \in DOMAIN ins : ins[k].frameNum < s.maxFrameNum
      OBVIOUS
    <2> HIDE DEF counts
    <2>1. s.maxFrameNum \in Nat \ {0}
      BY CapacityPositive
    <2> QED
      BY <1>2, <1>4, <2>1, InsertedNums
  <1>8. awaiting /\ h.reference => cur.key \in References(full)
    <2> SUFFICES ASSUME ~cur.secondField, h.reference
                 PROVE  cur.key \in References(full)
      OBVIOUS
    <2> HIDE DEF counts
    <2>1. IsFiniteSet(DOMAIN st)
      BY <1>2, StoresFinite
    <2>2. \A k \in DOMAIN st : k < cur.key
      <3>1. \A k \in DOMAIN stores : k \in Nat /\ k < nextKey /\ k # cur.key
        BY <1>2, KeysBelow
      <3>2. cur.key = nextKey - 1 /\ nextKey \in Nat
        BY KeysBelow
      <3> QED
        BY <1>2, <3>1, <3>2
    <2>3. \A k \in DOMAIN st : st[k].frameNum < cur.maxFrameNum
      OBVIOUS
    <2>4. \/ References(st) = {}
          \/ ~mmco5 /\ Cardinality(Holders(st, "LongTerm") \ {cur.key}) < RefCap(sps)
      BY DEF HasRoom
    <2> QED
      BY <1>2, <1>4, <2>1, <2>2, <2>3, <2>4, NewestStays
  <1> HIDE DEF counts, ins
  <1>9. /\ full = EnforceCapacity(ins, sps, h.frameNum, cur.maxFrameNum)
        /\ awaiting \in BOOLEAN
        /\ awaiting => ~cur.secondField
    BY DEF IsField
  <1>10. UnusedKeys(full) = DOMAIN full \ References(full)
    BY DEF UnusedKeys
  <1> HIDE DEF full
  <1>11. result \in Finished
    <2>1. counts.count \in PocRange
      BY <1>4 DEF Poc
    <2>2. released \in SUBSET Nat
      BY <1>5, <1>10, KeysBelow DEF AreStores
    <2>3. stored \in BOOLEAN
      OBVIOUS
    <2> HIDE DEF awaiting, h, released, stored
    <2> QED
      BY <1>2, <1>3, <1>9, <2>1, <2>2, <2>3 DEF Finished
  <1>12. last \in LastField \/ ~awaiting
    BY <1>3 DEF LastField
  <1> HIDE DEF awaiting
  <1>13. /\ reply' # None /\ reply'.result = "finished" /\ reply'.released = released
         /\ reply'.key = cur.key /\ reply'.stored = stored /\ reply'.awaitingSecondField = awaiting
    <2> HIDE DEF released, stored
    <2> QED
      BY <1>1, <1>11, AbsentAssumption
  <1>14. surfaces' = surfaces \ (released \cup {k \in {cur.key} : ~stored /\ ~awaiting})
    BY <1>13, Reacts DEF OnFinished
  <1>15. lastField' # None <=> awaiting
    BY <1>1, <1>12, AbsentAssumption
  <1>16. lastField' # None => lastField'.key = cur.key /\ lastField'.reference = h.reference
    BY <1>1, <1>15
  <1> HIDE DEF last, result
  <1>17. /\ Awaited' = (IF awaiting THEN {cur.key} ELSE {})
         /\ Current' = {} /\ Inserted' = {} /\ GivenUp' = {}
         /\ Awaited = {} /\ Inserted = {} /\ GivenUp = {}
    BY <1>1, <1>15, <1>16 DEF Awaited, InProgress, Current, Inserted, GivenUp
  <1>18. /\ DOMAIN stores \cup {cur.key} \subseteq surfaces
         /\ surfaces \subseteq DOMAIN stores \cup {cur.key} \cup releasedEarly
    BY <1>17 DEF KeysCovered
  <1>19. cur.key \notin releasedEarly /\ DOMAIN stores \cap releasedEarly = {}
    BY <1>2, KeysBelow
  <1>20. awaiting /\ ~h.reference => cur.key \notin DOMAIN stores
    BY <1>2, <1>9
  <1>21. DOMAIN stores' = References(full) /\ References(full) \subseteq DOMAIN full
    BY <1>1, <1>5
  <1> HIDE DEF h
  <1>22. KeysCovered'
    <2>1. References(full) \cup (IF awaiting THEN {cur.key} ELSE {}) \subseteq surfaces'
      BY <1>5, <1>6, <1>8, <1>10, <1>14, <1>18, <1>19, <1>20, <1>21
    <2>2. surfaces' \subseteq References(full) \cup (IF awaiting THEN {cur.key} ELSE {})
      BY <1>5, <1>6, <1>10, <1>14, <1>18, <1>21
    <2> QED
      BY <1>1, <1>17, <1>21, <2>1, <2>2 DEF KeysCovered
  <1>23. KeysReported'
    <2>1. lastField' # None => (lastField'.key \in DOMAIN stores' <=> lastField'.reference)
      BY <1>5, <1>6, <1>8, <1>15, <1>16, <1>20, <1>21
    <2> QED
      BY <1>1, <1>17, <2>1 DEF KeysReported
  <1>24. FrameNumsBelow'
    <2>1. \A s \in SpsSet : \A k \in DOMAIN stores' : stores'[k].frameNum < s.maxFrameNum
      BY <1>1, <1>5, <1>7, <1>21 DEF Unmarks
    <2> QED
      BY <1>1, <2>1 DEF FrameNumsBelow
  <1>25. ASSUME NEW cap \in Nat \ {0}, RefCap(sps) = cap
         PROVE  StoresBounded(cap)'
    <2>1. FewReferences(cap)'
      BY <1>25, CompleteFew
    <2>2. Cardinality(References(stores')) <= cap
      BY <1>13, <2>1 DEF FewReferences
    <2>3. References(stores') = DOMAIN stores'
      BY <1>1, <1>5, <1>21 DEF References
    <2> QED
      BY <1>1, <2>2, <2>3 DEF StoresBounded
  <1> QED
    BY <1>22, <1>23, <1>24, <1>25 DEF SurfacesKept

\* The commands start on the picture in progress.
LEMMA BeginMarkingSurfaces ==
    ASSUME ClearsAfterError, IInv, React, ~lost',
           KeysCovered, KeysReported, FrameNumsBelow, NEW sps \in SpsSet, BeginMarking(sps)
    PROVE  SurfacesKept
  <1> DEFINE loop == [sps |-> sps, current |-> pending, next |-> 1,
                      currentLong |-> None, mmco5 |-> FALSE]
  <1>1. /\ Idle /\ pending # None
        /\ marking' = loop /\ pending' = None /\ reply' = None
        /\ UNCHANGED <<stores, nextKey, lastField, releasedEarly, gap>>
    BY DEF BeginMarking
  <1>2. /\ pending \in CurrentPicture /\ gap = None /\ marking = None /\ lastField = None
    BY <1>1, PendingParts
  <1>3. loop \in CommandLoop /\ loop.current = pending
    BY <1>2 DEF CommandLoop
  <1> HIDE DEF loop
  <1>4. marking' # None /\ marking'.current = pending
    BY <1>1, <1>3, LoopAssumption
  <1>5. surfaces' = surfaces
    BY <1>1, Reacts
  <1>6. Awaited' = Awaited /\ Current' = Current /\ Inserted' = Inserted /\ GivenUp' = GivenUp
        /\ Current' = {pending.key}
    BY <1>1, <1>2, <1>4 DEF Awaited, InProgress, Current, Inserted, GivenUp
  <1>7. KeysCovered'
    BY <1>1, <1>5, <1>6 DEF KeysCovered
  <1>8. KeysReported'
    BY <1>1, <1>2, <1>4, <1>6 DEF KeysReported
  <1>9. FrameNumsBelow'
    BY <1>1, <1>2, <1>4 DEF FrameNumsBelow
  <1>10. ASSUME NEW cap PROVE StoresBounded(cap)'
    BY <1>1, <1>2, <1>6 DEF StoresBounded
  <1> QED
    BY <1>7, <1>8, <1>9, <1>10 DEF SurfacesKept

\* A command leaves all keys in place.
LEMMA MarkNextSurfaces ==
    ASSUME ClearsAfterError, IInv, React, ~lost',
           KeysCovered, KeysReported, FrameNumsBelow, MarkNext
    PROVE  SurfacesKept
  <1> DEFINE cur == marking.current
             op == cur.header.mmco[marking.next]
             parity == ParityOf(cur.header.structure)
             spare == IF cur.secondField THEN cur.key ELSE None
             new == ApplyMmco(stores, op, parity, cur.header.frameNum, cur.maxFrameNum, spare)
             five == marking.mmco5 \/ op.code = 5
             long == IF op.code = 6 THEN op.idx ELSE marking.currentLong
  <1>1. /\ AreStores(stores) /\ marking # None /\ marking \in CommandLoop
        /\ marking.next <= Len(cur.header.mmco)
        /\ stores' = new /\ reply' = None /\ gap = None /\ pending = None /\ lastField = None
        /\ UNCHANGED <<nextKey, pending, lastField, releasedEarly, gap>>
    BY DEF IInv, TypeOK, ControlInv, MarkNext
  <1>2. cur \in CurrentPicture /\ marking.next \in Nat \ {0}
    BY <1>1 DEF CommandLoop
  <1>3. cur.header.mmco \in Seq(MmcoOp) /\ parity \in Parities \cup {None}
    BY <1>2, CurrentParts, HeaderParts
  <1>4. op \in MmcoOp
    BY <1>1, <1>2, <1>3
  <1>5. marking' # None /\ marking'.current = cur
    <2>1. five \in BOOLEAN /\ long \in Nat \cup {None} /\ marking.next + 1 \in Nat \ {0}
      BY <1>1, <1>4 DEF CommandLoop, MmcoOp
    <2>2. marking' = [marking EXCEPT !.next = marking.next + 1, !.mmco5 = five,
                                     !.currentLong = long]
      BY DEF MarkNext
    <2> HIDE DEF five, long, op
    <2>3. marking' \in CommandLoop /\ marking'.current = cur
      BY <1>1, <2>1, <2>2 DEF CommandLoop
    <2> QED
      BY <2>3, LoopAssumption
  <1>6. Remarks(stores, new)
    BY <1>1, <1>3, <1>4, ApplyMmcoRemarks
  <1> HIDE DEF new
  <1>7. /\ DOMAIN stores' = DOMAIN stores
        /\ \A k \in DOMAIN stores : stores'[k].frameNum = stores[k].frameNum
    BY <1>1, <1>6 DEF Remarks
  <1>8. surfaces' = surfaces
    BY <1>1, Reacts
  <1>9. /\ Awaited' = Awaited /\ Current' = Current /\ Inserted' = Inserted /\ GivenUp' = GivenUp
        /\ Current' = {cur.key}
    BY <1>1, <1>5 DEF Awaited, InProgress, Current, Inserted, GivenUp
  <1>10. KeysCovered'
    BY <1>1, <1>7, <1>8, <1>9 DEF KeysCovered
  <1>11. KeysReported'
    BY <1>1, <1>5, <1>7, <1>9 DEF KeysReported
  <1>12. FrameNumsBelow'
    BY <1>1, <1>5, <1>7 DEF FrameNumsBelow
  <1>13. ASSUME NEW cap PROVE StoresBounded(cap)'
    BY <1>1, <1>9 DEF StoresBounded
  <1> QED
    BY <1>10, <1>11, <1>12, <1>13 DEF SurfacesKept

\* The end of the commands.
LEMMA EndMarkingSurfaces ==
    ASSUME ClearsAfterError, IInv, RoomForCurrent, React, ~lost',
           KeysCovered, KeysReported, FrameNumsBelow, EndMarking
    PROVE  SurfacesKept
  <1> DEFINE cur == marking.current
  <1>1. /\ marking # None /\ marking.next > Len(cur.header.mmco)
        /\ Complete(marking.sps, cur, stores, marking.currentLong, marking.mmco5)
    BY DEF EndMarking
  <1>2. marking \in CommandLoop
    BY <1>1 DEF IInv, TypeOK
  <1>3. gap = None /\ lastField = None /\ pending = None
    BY <1>1 DEF IInv, ControlInv
  <1>4. Marked(cur, stores, marking.currentLong, marking.mmco5)
    BY <1>1, MarkingMarked
  <1>5. marking.sps \in SpsSet /\ marking.mmco5 \in BOOLEAN
    BY <1>2 DEF CommandLoop
  <1>6. Current = {cur.key} /\ (~cur.secondField => cur.key = nextKey - 1)
    BY <1>1, <1>3 DEF Current, InProgress, KeysReported
  <1>7. /\ \A s \in SpsSet : \A k \in DOMAIN stores : stores[k].frameNum < s.maxFrameNum
        /\ \A s \in SpsSet : cur.header.frameNum < s.maxFrameNum /\ cur.maxFrameNum = s.maxFrameNum
    BY <1>1 DEF FrameNumsBelow
  <1>8. HasRoom(marking.sps, cur, stores, marking.mmco5)
    <2>1. marking.mmco5 => References(stores) = {}
      BY <1>4 DEF Marked
    <2>2. Cardinality(Holders(stores, "LongTerm") \ {cur.key}) < RefCap(marking.sps)
      BY <1>1, <1>5 DEF RoomForCurrent, LeavesRoom
    <2> QED
      BY <1>5, <2>1, <2>2 DEF HasRoom
  <1> HIDE DEF cur
  <1> QED
    BY <1>1, <1>3, <1>4, <1>5, <1>6, <1>7, <1>8, CompleteSurfaces

\* The calls of finish_picture that run no commands.
LEMMA FinishSurfaces ==
    ASSUME ClearsAfterError, IInv, RoomForCurrent, React, ~lost',
           KeysCovered, KeysReported, FrameNumsBelow, NEW sps \in SpsSet,
           FinishNonReference(sps) \/ FinishIdr(sps) \/ FinishSliding(sps)
    PROVE  SurfacesKept
  <1>1. Idle /\ pending # None
    BY DEF FinishNonReference, FinishIdr, FinishSliding
  <1>2. /\ pending \in CurrentPicture /\ gap = None /\ marking = None /\ lastField = None
        /\ AreStores(stores)
    BY <1>1, PendingParts
  <1>3. Current = {pending.key} /\ (~pending.secondField => pending.key = nextKey - 1)
    BY <1>1, <1>2 DEF Current, InProgress, KeysReported
  <1>4. \A s \in SpsSet : pending.header.frameNum < s.maxFrameNum /\ pending.maxFrameNum = s.maxFrameNum
    BY <1>1 DEF FrameNumsBelow
  <1>5. ASSUME NEW st, Unmarks(stores, st)
        PROVE  /\ \A k \in DOMAIN st : \A s \in SpsSet : st[k].frameNum < s.maxFrameNum
               /\ Marked(pending, st, None, FALSE)
    <2>1. \A k \in DOMAIN st : \A s \in SpsSet : st[k].frameNum < s.maxFrameNum
      BY <1>5 DEF FrameNumsBelow, Unmarks
    <2> QED
      BY <1>1, <1>5, <2>1, UnmarksMarked
  <1>6. CASE FinishNonReference(sps)
    <2>1. Complete(sps, pending, stores, None, FALSE) /\ ~pending.header.reference
      BY <1>6 DEF FinishNonReference
    <2>2. Unmarks(stores, stores)
      BY <1>2 DEF Unmarks
    <2>3. HasRoom(sps, pending, stores, FALSE)
      BY <2>1 DEF HasRoom
    <2> QED
      BY <1>2, <1>3, <1>4, <1>5, <2>1, <2>2, <2>3, CompleteSurfaces
  <1>7. CASE FinishIdr(sps)
    <2> DEFINE long == IF pending.header.longTermReference THEN 0 ELSE None
               st == Unmark(stores, AllFields(stores))
    <2>1. Complete(sps, pending, st, long, FALSE)
      BY <1>7 DEF FinishIdr
    <2>2. /\ Unmarks(stores, st) /\ References(st) = {}
          /\ \A k \in DOMAIN stores : \A idx : ~HoldsIdx(st[k], idx)
      BY <1>2, UnmarkAll
    <2>3. long \in Nat \cup {None}
      OBVIOUS
    <2> HIDE DEF st, long
    <2>4. /\ \A k \in DOMAIN st : \A s \in SpsSet : st[k].frameNum < s.maxFrameNum
          /\ Marked(pending, st, None, FALSE)
      BY <1>5, <2>2
    <2>5. Marked(pending, st, long, FALSE)
      BY <2>2, <2>3, <2>4 DEF Marked
    <2>6. HasRoom(sps, pending, st, FALSE)
      BY <2>2 DEF HasRoom
    <2> QED
      BY <1>2, <1>3, <1>4, <2>1, <2>4, <2>5, <2>6, CompleteSurfaces
  <1>8. CASE FinishSliding(sps)
    <2> DEFINE st == SlidingWindow(stores, sps, pending.header.frameNum, pending.maxFrameNum,
                                   IF pending.secondField THEN pending.key ELSE None)
    <2>1. /\ Complete(sps, pending, st, None, FALSE)
          /\ pending.header.reference /\ ~pending.header.idr /\ ~pending.header.adaptive
      BY <1>8 DEF FinishSliding
    <2>2. Unmarks(stores, st)
      BY <1>2, SlidingWindowUnmarks
    <2> HIDE DEF st
    <2>3. /\ \A k \in DOMAIN st : \A s \in SpsSet : st[k].frameNum < s.maxFrameNum
          /\ Marked(pending, st, None, FALSE)
      BY <1>5, <2>2
    <2>4. HasRoom(sps, pending, st, FALSE)
      <3> DEFINE before == Holders(stores, "LongTerm") \ {pending.key}
                 after == Holders(st, "LongTerm") \ {pending.key}
      <3>1. Cardinality(before) < RefCap(sps)
        BY <1>1, <2>1 DEF RoomForCurrent, LeavesRoom
      <3>2. after \subseteq before
        BY <2>2 DEF Unmarks, Holders, AnyMarked, IsMarked
      <3>3. IsFiniteSet(before)
        BY StoresFinite, Counted, FS_Subset
      <3> HIDE DEF before, after
      <3>4. Cardinality(after) < RefCap(sps)
        BY <3>1, <3>2, <3>3, FS_Subset, FS_CardinalityType, CapacityPositive
      <3> QED
        BY <3>4 DEF HasRoom, after
    <2> QED
      BY <1>2, <1>3, <1>4, <2>1, <2>3, <2>4, CompleteSurfaces
  <1> QED
    BY <1>6, <1>7, <1>8

-----------------------------------------------------------------------------
(* The surfaces, always *)

\* A step keeps what the bridge and the buffer agree on, until a call fails.
LEMMA SurfacesStep ==
    ASSUME ClearsAfterError, AgreeOnFrameNum, IInv, RoomForCurrent, SurfacesInv,
           [BridgeNext]_bridgeVars
    PROVE  SurfacesInv'
  <1>1. ASSUME ~lost, ~lost', SurfacesKept
        PROVE  SurfacesInv'
    <2>1. \A sps \in SpsSet : RefCap(sps) \in Nat \ {0}
      BY CapacityPositive
    <2>2. \A cap \in {RefCap(sps) : sps \in SpsSet} :
             (\A sps \in SpsSet : RefCap(sps) = cap) => StoresBounded(cap)'
      BY <1>1, <2>1 DEF SurfacesInv, SurfacesKept
    <2> QED
      BY <1>1, <2>2 DEF SurfacesInv, SurfacesKept
  <1>2. CASE UNCHANGED bridgeVars
    <2>1. UNCHANGED <<stores, nextKey, pending, lastField, releasedEarly, gap, marking, surfaces, lost>>
      BY <1>2 DEF bridgeVars, vars
    <2>2. Awaited' = Awaited /\ Current' = Current /\ Inserted' = Inserted /\ GivenUp' = GivenUp
      BY <2>1 DEF Awaited, InProgress, Current, Inserted, GivenUp
    <2>3. /\ KeysCovered => KeysCovered'
          /\ KeysReported => KeysReported'
          /\ FrameNumsBelow => FrameNumsBelow'
          /\ \A cap : StoresBounded(cap) => StoresBounded(cap)'
      BY <2>1, <2>2 DEF KeysCovered, KeysReported, FrameNumsBelow, StoresBounded
    <2> QED
      BY <2>1, <2>3 DEF SurfacesInv
  <1>3. CASE Clear /\ React
    <2> SUFFICES ASSUME ~lost' PROVE SurfacesInv'
      BY DEF SurfacesInv
    <2>1. /\ stores' = <<>> /\ pending' = None /\ lastField' = None /\ releasedEarly' = {}
          /\ reply' = [result |-> "cleared"] /\ gap' = None /\ marking' = None
      BY <1>3 DEF Clear, Idle
    <2>2. reply' # None /\ reply'.result = "cleared"
      <3>1. reply' \in [result : {"begun", "cleared"}]
        BY <2>1
      <3> QED
        BY <2>1, <3>1, AbsentAssumption
    <2>3. surfaces' = {} /\ DOMAIN stores' = {}
      BY <1>3, <2>1, <2>2, Reacts, NoStores
    <2>4. Awaited' = {} /\ Current' = {} /\ Inserted' = {} /\ GivenUp' = {}
      BY <2>1 DEF Awaited, InProgress, Current, Inserted, GivenUp
    <2>5. KeysCovered' /\ KeysReported' /\ FrameNumsBelow'
      BY <2>1, <2>3, <2>4 DEF KeysCovered, KeysReported, FrameNumsBelow
    <2>6. \A sps \in SpsSet : StoresBounded(RefCap(sps))'
      <3>1. Cardinality({}) = 0
        BY FS_EmptySet
      <3> QED
        BY <2>1, <2>3, <3>1, CapacityPositive DEF StoresBounded
    <2> QED
      BY <2>5, <2>6 DEF SurfacesInv
  <1>4. CASE /\ ~lost /\ React
             /\ \/ \E sps \in SpsSet, h \in Headers : Begin(sps, h)
                \/ \E sps \in SpsSet : Finish(sps)
                \/ Continue
    <2> SUFFICES ASSUME ~lost' PROVE SurfacesKept
      BY <1>1, <1>4 DEF SurfacesInv
    <2>1. KeysCovered /\ KeysReported /\ FrameNumsBelow
      BY <1>4 DEF SurfacesInv
    <2>2. ASSUME NEW sps \in SpsSet, NEW h \in Headers, Begin(sps, h)
          PROVE  SurfacesKept
      <3>1. ~BeginAfterLoss(sps, h)
        BY <1>4, Reacts DEF BeginAfterLoss
      <3>2. BeginPicture(sps, h) \/ BeginWithGap(sps, h)
        BY <2>2, <3>1 DEF Begin
      <3> QED
        BY <1>4, <2>1, <3>2, BeginPictureSurfaces, BeginWithGapSurfaces
    <2>3. ASSUME NEW sps \in SpsSet, Finish(sps)
          PROVE  SurfacesKept
      BY <1>4, <2>1, <2>3, FinishSurfaces, BeginMarkingSurfaces DEF Finish
    <2>4. ASSUME Continue
          PROVE  SurfacesKept
      BY <1>4, <2>1, <2>4, SkipFrameSurfaces, FillFrameSurfaces, EndGapSurfaces,
         MarkNextSurfaces, EndMarkingSurfaces DEF Continue
    <2> QED
      BY <1>4, <2>2, <2>3, <2>4
  <1> QED
    BY <1>2, <1>3, <1>4 DEF BridgeNext

\* The bridge holds the surfaces of the keys the buffer names, no others, and a pool
\* of 2 * capacity + 1 is enough.
LEMMA AgreedAccounted ==
    ASSUME IInv, SurfacesInv
    PROVE  SurfacesAccounted
  <1> SUFFICES ASSUME Settles
               PROVE  /\ DOMAIN stores \cup InProgress \cup Awaited \subseteq surfaces
                      /\ surfaces \subseteq DOMAIN stores \cup InProgress \cup Awaited \cup releasedEarly
                      /\ \A sps \in SpsSet :
                            (\A s \in SpsSet : RefCap(s) = RefCap(sps))
                              => Cardinality(surfaces) <= 2 * RefCap(sps) + 1
    BY DEF SurfacesAccounted, NamedKeysHaveSurfaces, NoSurfaceLeaks, PoolBound
  <1>1. gap = None /\ marking = None /\ KeysCovered /\ KeysReported
    BY DEF Settles, Idle, SurfacesInv
  <1>2. Inserted = {} /\ GivenUp = {} /\ Current = InProgress
    BY <1>1 DEF Inserted, GivenUp, Current
  <1>3. /\ DOMAIN stores \cup InProgress \cup Awaited \subseteq surfaces
        /\ surfaces \subseteq DOMAIN stores \cup InProgress \cup Awaited \cup releasedEarly
    BY <1>1, <1>2 DEF KeysCovered
  <1>4. ASSUME NEW cap \in Nat \ {0}, StoresBounded(cap)
        PROVE  Cardinality(surfaces) <= 2 * cap + 1
    <2> DEFINE held == DOMAIN stores \cup releasedEarly
    <2>1. IsFiniteSet(held)
      <3>1. nextKey \in Nat /\ held \subseteq 0 .. nextKey
        BY DEF IInv, TypeOK, KeysInv, AreStores
      <3>2. IsFiniteSet(0 .. nextKey)
        BY <3>1, FS_Interval
      <3> QED
        BY <3>1, <3>2, FS_Subset
    <2>2. \E key : InProgress \cup Awaited \subseteq {key}
      BY DEF IInv, ControlInv, InProgress, Awaited
    <2>3. PICK key : InProgress \cup Awaited \subseteq {key}
      BY <2>2
    <2>4. Cardinality(held) <= 2 * cap
      <3>1. CASE pending # None
        BY <1>4, <3>1 DEF StoresBounded
      <3>2. CASE pending = None
        <4>1. Current = {} /\ releasedEarly = {}
          BY <1>1, <1>2, <3>2 DEF InProgress, KeysReported
        <4>2. Cardinality(DOMAIN stores) <= cap /\ held = DOMAIN stores
          BY <1>1, <1>4, <4>1 DEF StoresBounded
        <4> QED
          BY <2>1, <4>2, FS_CardinalityType
      <3> QED
        BY <3>1, <3>2
    <2> HIDE DEF held
    <2>5. IsFiniteSet(held \cup {key}) /\ Cardinality(held) \in Nat
          /\ \/ Cardinality(held \cup {key}) = Cardinality(held)
             \/ Cardinality(held \cup {key}) = Cardinality(held) + 1
      BY <2>1, FS_AddElement, FS_CardinalityType
    <2>6. surfaces \subseteq held \cup {key}
      BY <1>3, <2>3 DEF held
    <2>7. Cardinality(surfaces) \in Nat /\ Cardinality(surfaces) <= Cardinality(held \cup {key})
      BY <2>5, <2>6, FS_Subset, FS_CardinalityType
    <2> QED
      BY <2>4, <2>5, <2>7
  <1>5. ASSUME NEW sps \in SpsSet, \A s \in SpsSet : RefCap(s) = RefCap(sps)
        PROVE  Cardinality(surfaces) <= 2 * RefCap(sps) + 1
    <2>1. StoresBounded(RefCap(sps))
      BY <1>5 DEF SurfacesInv, Settles
    <2> QED
      BY <1>4, <2>1, CapacityPositive
  <1> QED
    BY <1>3, <1>5

\* A bridge that keeps a surface per key, restarts when begin_picture fails and is given
\* a stream whose long-term pictures leave room for the current one holds exactly the
\* surfaces the buffer may still name or report (the keys of CurrentPicture and
\* FinishedPicture), in a pool of 2 * capacity + 1.
THEOREM SurfacesAccountedAlways ==
    ClearsAfterError /\ AgreeOnFrameNum =>
        (BridgeSpec /\ []RoomForCurrent => []SurfacesAccounted)
  <1> SUFFICES ASSUME ClearsAfterError, AgreeOnFrameNum
               PROVE  BridgeSpec /\ []RoomForCurrent => []SurfacesAccounted
    OBVIOUS
  <1>1. BridgeInit => IInv /\ SurfacesInv
    <2> SUFFICES ASSUME BridgeInit PROVE IInv /\ SurfacesInv
      OBVIOUS
    <2>1. IInv
      BY InitInv DEF BridgeInit
    <2>2. /\ stores = <<>> /\ nextKey = 0 /\ pending = None /\ lastField = None
          /\ releasedEarly = {} /\ gap = None /\ marking = None /\ surfaces = {}
      BY DEF BridgeInit, Init
    <2>3. DOMAIN stores = {} /\ Cardinality({}) = 0
      BY <2>2, NoStores, FS_EmptySet
    <2>4. Awaited = {} /\ Current = {} /\ Inserted = {} /\ GivenUp = {}
      BY <2>2 DEF Awaited, InProgress, Current, Inserted, GivenUp
    <2>5. KeysCovered /\ KeysReported /\ FrameNumsBelow
      BY <2>2, <2>3, <2>4 DEF KeysCovered, KeysReported, FrameNumsBelow
    <2>6. \A sps \in SpsSet : StoresBounded(RefCap(sps))
      BY <2>2, <2>3, CapacityPositive DEF StoresBounded
    <2> QED
      BY <2>1, <2>5, <2>6 DEF SurfacesInv
  <1>2. IInv /\ [BridgeNext]_bridgeVars => IInv'
    <2>1. [BridgeNext]_bridgeVars => [Next]_vars
      BY DEF BridgeNext, Next, bridgeVars, vars
    <2> QED
      BY <2>1, NextInv
  <1>3. IInv /\ RoomForCurrent /\ SurfacesInv /\ [BridgeNext]_bridgeVars => SurfacesInv'
    BY SurfacesStep
  <1>4. IInv /\ SurfacesInv => SurfacesAccounted
    BY AgreedAccounted
  <1> QED
    BY <1>1, <1>2, <1>3, <1>4, PTL DEF BridgeSpec

-----------------------------------------------------------------------------
(* The shortcut over a gap: the numbers of the missing frames *)

\* A sum of two numbers below the modulus wraps once at most.
LEMMA ModSum ==
    ASSUME NEW m \in Nat \ {0}, NEW u \in Nat, u < m, NEW i \in Nat, i < m
    PROVE  (u + i) % m = IF u + i < m THEN u + i ELSE u + i - m
  <1>1. ASSUME NEW x \in Nat, x < m
        PROVE  x % m = x /\ (x + m) % m = x
    BY <1>1
  <1>2. CASE u + i < m
    BY <1>1, <1>2
  <1>3. CASE ~(u + i < m)
    <2>1. u + i - m \in Nat /\ u + i - m < m /\ (u + i - m) + m = u + i
      BY <1>3
    <2> QED
      BY <1>1, <1>3, <2>1
  <1> QED
    BY <1>2, <1>3

\* Seen from the frame that is inferred, the frames before it are older one by one, and
\* a number that none of them has is older than all.
LEMMA Ages ==
    ASSUME NEW m \in Nat \ {0}, NEW u \in Nat, u < m, NEW j \in Nat, j < m
    PROVE  LET n == (u + j) % m
               wrap(x) == IF x > n THEN x - m ELSE x
           IN  /\ n \in Nat /\ n < m
               /\ \A i \in 0 .. j : wrap((u + i) % m) = n - (j - i)
               /\ \A x \in 0 .. m - 1 : (\A i \in 0 .. j : x # (u + i) % m) => wrap(x) < n - j
  <1> DEFINE n == (u + j) % m
             wrap(x) == IF x > n THEN x - m ELSE x
  <1>1. n = IF u + j < m THEN u + j ELSE u + j - m
    BY ModSum
  <1>2. n \in Nat /\ n < m
    BY <1>1
  <1>3. \A i \in 0 .. j : (u + i) % m = IF u + i < m THEN u + i ELSE u + i - m
    <2> SUFFICES ASSUME NEW i \in 0 .. j
                 PROVE  (u + i) % m = IF u + i < m THEN u + i ELSE u + i - m
      OBVIOUS
    <2>1. i \in Nat /\ i < m
      OBVIOUS
    <2> QED
      BY <2>1, ModSum
  <1> HIDE DEF n
  <1>4. ASSUME NEW i \in 0 .. j
        PROVE  wrap((u + i) % m) = n - (j - i)
    <2>1. (u + i) % m = IF u + i < m THEN u + i ELSE u + i - m
      BY <1>3
    <2> QED
      BY <1>1, <1>2, <2>1
  <1>5. ASSUME NEW x \in 0 .. m - 1, \A i \in 0 .. j : x # (u + i) % m, ~(wrap(x) < n - j)
        PROVE  FALSE
    <2> DEFINE i == j - (n - wrap(x))
    <2>1. i \in 0 .. j /\ (u + i = x \/ u + i = x + m)
      <3>1. wrap(x) <= n
        BY <1>2
      <3>2. i \in 0 .. j
        BY <1>2, <1>5, <3>1
      <3> QED
        BY <1>1, <1>2, <3>2
    <2>2. (u + i) % m = IF u + i < m THEN u + i ELSE u + i - m
      BY <1>3, <2>1
    <2> HIDE DEF i
    <2>3. (u + i) % m = x
      BY <2>1, <2>2
    <2> QED
      BY <1>5, <2>1, <2>3
  <1> QED
    BY <1>2, <1>4, <1>5 DEF n

-----------------------------------------------------------------------------
(* The walk, frame by frame *)

Start(start) == [stores |-> start.stores, poc |-> start.poc, nextKey |-> start.nextKey]

NextWalk(sps, start, w, n) ==
    IF w = None THEN None ELSE Infer(sps, w, FrameNumAt(sps, start.unused, n - 1))

Walking(sps, start, m, f) ==
    f = [n \in 0 .. m |-> IF n = 0 THEN Start(start) ELSE NextWalk(sps, start, f[n - 1], n)]

\* The recursive function of the walk exists, one frame after another.
LEMMA WalksExist ==
    ASSUME NEW sps, NEW start, NEW m \in Nat
    PROVE  \E f : Walking(sps, start, m, f)
  <1> DEFINE P == {n \in 0 .. m : \E f : Walking(sps, start, n, f)}
  <1>1. 0 \in P
    <2> DEFINE f == [n \in 0 .. 0 |-> Start(start)]
    <2>1. Walking(sps, start, 0, f)
      BY DEF Walking
    <2> QED
      BY <2>1
  <1>2. ASSUME NEW n \in 1 .. m, n - 1 \in P
        PROVE  n \in P
    <2>1. PICK f : Walking(sps, start, n - 1, f)
      BY <1>2
    <2> DEFINE last == NextWalk(sps, start, f[n - 1], n)
               g == [j \in 0 .. n |-> IF j = n THEN last ELSE f[j]]
    <2>2. n - 1 \in 0 .. n - 1
      OBVIOUS
    <2> HIDE DEF last
    <2>3. (\A j \in 0 .. n - 1 : g[j] = f[j]) /\ g[n] = last
      OBVIOUS
    <2>5. ASSUME NEW j \in 0 .. n
          PROVE  g[j] = IF j = 0 THEN Start(start) ELSE NextWalk(sps, start, g[j - 1], j)
      <3>1. CASE j = n
        <4>1. n # 0 /\ g[j - 1] = f[n - 1] /\ g[j] = last
          BY <2>2, <2>3, <3>1
        <4> HIDE DEF g
        <4> QED
          BY <3>1, <4>1 DEF last
      <3>2. CASE j # n
        <4>1. j \in 0 .. n - 1 /\ (j # 0 => j - 1 \in 0 .. n - 1)
          BY <3>2
        <4>2. f[j] = IF j = 0 THEN Start(start) ELSE NextWalk(sps, start, f[j - 1], j)
          BY <2>1, <4>1 DEF Walking
        <4> HIDE DEF g
        <4> QED
          BY <2>3, <4>1, <4>2
      <3> QED
        BY <3>1, <3>2
    <2>6. Walking(sps, start, n, g)
      BY <2>5 DEF Walking, g
    <2> QED
      BY <2>6
  <1>3. m \in P
    <2> HIDE DEF P
    <2> QED
      BY <1>1, <1>2, UpTo
  <1> QED
    BY <1>3

\* What the walk leaves is the last value of such a function.
LEMMA WalkIs ==
    ASSUME NEW sps, NEW start, NEW m \in Nat
    PROVE  \E f : /\ Walk(sps, start, m) = f[m] /\ f[0] = Start(start)
                  /\ \A n \in 1 .. m : f[n] = NextWalk(sps, start, f[n - 1], n)
  <1> DEFINE Is(f) == f = [n \in 0 .. m |->
                 IF n = 0 THEN [stores |-> start.stores, poc |-> start.poc, nextKey |-> start.nextKey]
                 ELSE IF f[n - 1] = None THEN None
                 ELSE Infer(sps, f[n - 1], FrameNumAt(sps, start.unused, n - 1))]
             f == CHOOSE f : Is(f)
  <1>1. \A g : Is(g) <=> Walking(sps, start, m, g)
    BY DEF Walking, NextWalk, Start
  <1>2. \E g : Is(g)
    <2> HIDE DEF Is
    <2> QED
      BY <1>1, WalksExist
  <1>3. Is(f)
    <2> HIDE DEF Is
    <2> QED
      BY <1>2, Zenon
  <1>4. Walk(sps, start, m) = f[m]
    BY Zenon DEF Walk
  <1> HIDE DEF f
  <1>5. Walking(sps, start, m, f)
    <2> HIDE DEF Is
    <2> QED
      BY <1>1, <1>3
  <1>6. \A n \in 0 .. m : f[n] = IF n = 0 THEN Start(start) ELSE NextWalk(sps, start, f[n - 1], n)
    BY <1>5 DEF Walking
  <1>7. 0 \in 0 .. m /\ \A n \in 1 .. m : n \in 0 .. m /\ n # 0
    OBVIOUS
  <1> QED
    BY <1>4, <1>6, <1>7

\* The walk starts with what the gap met.
LEMMA WalkZero ==
    ASSUME NEW sps, NEW start
    PROVE  Walk(sps, start, 0) = Start(start)
  <1>1. 0 \in Nat
    OBVIOUS
  <1> QED
    BY <1>1, WalkIs

\* One frame more.
LEMMA WalkNext ==
    ASSUME NEW sps, NEW start, NEW m \in Nat
    PROVE  Walk(sps, start, m + 1) = NextWalk(sps, start, Walk(sps, start, m), m + 1)
  <1>1. PICK x : /\ Walk(sps, start, m) = x[m] /\ x[0] = Start(start)
                 /\ \A n \in 1 .. m : x[n] = NextWalk(sps, start, x[n - 1], n)
    BY WalkIs
  <1>2. PICK y : /\ Walk(sps, start, m + 1) = y[m + 1] /\ y[0] = Start(start)
                 /\ \A n \in 1 .. m + 1 : y[n] = NextWalk(sps, start, y[n - 1], n)
    <2>1. m + 1 \in Nat
      OBVIOUS
    <2> QED
      BY <2>1, WalkIs
  <1> DEFINE P == {n \in 0 .. m : y[n] = x[n]}
  <1>3. 0 \in P
    BY <1>1, <1>2
  <1>4. ASSUME NEW n \in 1 .. m, n - 1 \in P
        PROVE  n \in P
    <2>1. n \in 1 .. m + 1 /\ n \in 0 .. m
      OBVIOUS
    <2>2. y[n] = x[n]
      BY <1>1, <1>2, <1>4, <2>1
    <2> QED
      BY <2>1, <2>2
  <1>5. y[m] = x[m]
    <2>1. m \in 0 .. m
      OBVIOUS
    <2> HIDE DEF P
    <2>2. m \in P
      BY <1>3, <1>4, <2>1, UpTo
    <2> QED
      BY <2>2 DEF P
  <1>6. y[m + 1] = NextWalk(sps, start, y[m], m + 1)
    <2>1. m + 1 \in 1 .. m + 1 /\ (m + 1) - 1 = m
      OBVIOUS
    <2>2. y[m + 1] = NextWalk(sps, start, y[(m + 1) - 1], m + 1)
      BY <1>2, <2>1
    <2> QED
      BY <2>1, <2>2
  <1> QED
    BY <1>1, <1>2, <1>5, <1>6

-----------------------------------------------------------------------------
(* Only decoded fields are marked *)

\* Marking what is decoded keeps it so.
LEMMA RemarksCoded ==
    ASSUME NEW st, NEW st2, Remarks(st, st2), OnlyDecodedMarked(st)
    PROVE  OnlyDecodedMarked(st2)
  BY DEF Remarks, OnlyDecodedMarked

\* Unmarking keeps it so.
LEMMA UnmarksCoded ==
    ASSUME NEW st, NEW st2, Unmarks(st, st2), OnlyDecodedMarked(st)
    PROVE  OnlyDecodedMarked(st2)
  BY UnmarksIsRemarks, RemarksCoded

\* So does dropping stores.
LEMMA EvictCoded ==
    ASSUME NEW st, OnlyDecodedMarked(st)
    PROVE  OnlyDecodedMarked(EvictUnused(st))
  BY DEF EvictUnused, References, OnlyDecodedMarked

\* The picture brings decoded fields.
LEMMA InsertCoded ==
    ASSUME NEW st, AreStores(st), OnlyDecodedMarked(st),
           NEW cur \in CurrentPicture, NEW counts \in Poc,
           NEW long \in Nat \cup {None}, NEW mmco5 \in BOOLEAN,
           cur.secondField => IsField(cur.header.structure)
    PROVE  OnlyDecodedMarked(Insert(st, cur, counts, long, mmco5))
  <1> DEFINE h == cur.header
             p == ParityOf(h.structure)
             ins == Insert(st, cur, counts, long, mmco5)
             own(q) == OwnField(h, q, counts, long)
  <1>1. \A q : own(q).decoded
    BY DEF OwnField
  <1>2. /\ DOMAIN ins = (IF h.reference THEN DOMAIN st \cup {cur.key} ELSE DOMAIN st)
        /\ \A k \in DOMAIN st : k # cur.key \/ ~h.reference => ins[k] = st[k]
        /\ h.reference /\ cur.key \in DOMAIN st /\ cur.secondField =>
             ins[cur.key] = JoinFields(st[cur.key], p, own(p), long)
        /\ h.reference /\ ~(cur.key \in DOMAIN st /\ cur.secondField) =>
             ins[cur.key] = NewStore(h, counts, long, mmco5)
    BY InsertType
  <1>3. \A q \in Parities : NewStore(h, counts, long, mmco5).fields[q]
                              = IF IsField(h.structure) /\ q # p THEN EmptyField ELSE own(q)
    BY DEF NewStore, OwnFields
  <1>4. h \in Headers
    BY CurrentParts
  <1>5. cur.secondField => p \in Parities
    BY <1>4, HeaderParts
  <1>6. ASSUME cur.key \in DOMAIN st, cur.secondField, NEW q \in Parities
        PROVE  JoinFields(st[cur.key], p, own(p), long).fields[q] =
                 (IF q = p THEN own(p)
                  ELSE IF long # None /\ IsMarked(st[cur.key].fields[q], "LongTerm")
                       THEN AsLongTerm(st[cur.key].fields[q], long)
                       ELSE st[cur.key].fields[q])
    <2>1. st[cur.key] \in FrameStore
      BY <1>6, StoreParts
    <2>2. own(p) \in FieldState
      BY <1>4, <1>5, <1>6, OwnFieldType
    <2> HIDE DEF own
    <2> QED
      BY <1>5, <1>6, <2>1, <2>2, JoinFieldsType
  <1> HIDE DEF own, ins, p, h
  <1>7. ASSUME NEW k \in DOMAIN ins, NEW q \in Parities, ~ins[k].fields[q].decoded
        PROVE  ins[k].fields[q].marking = "Unused"
    <2>1. CASE k \in DOMAIN st /\ (k # cur.key \/ ~h.reference)
      BY <1>2, <1>7, <2>1 DEF OnlyDecodedMarked
    <2>2. CASE h.reference /\ k = cur.key /\ k \in DOMAIN st /\ cur.secondField
      <3>1. ins[k].fields[q] =
                 (IF q = p THEN own(p)
                  ELSE IF long # None /\ IsMarked(st[k].fields[q], "LongTerm")
                       THEN AsLongTerm(st[k].fields[q], long)
                       ELSE st[k].fields[q])
        BY <1>2, <1>6, <2>2
      <3>2. q # p
        BY <1>1, <1>7, <3>1
      <3>3. CASE long # None /\ IsMarked(st[k].fields[q], "LongTerm")
        <4>1. st[k].fields[q] \in FieldState /\ long \in Nat
          BY <2>2, <3>3, StoreParts
        <4>2. AsLongTerm(st[k].fields[q], long).decoded = st[k].fields[q].decoded
          BY <4>1, AsLongTermField
        <4> QED
          BY <1>7, <3>1, <3>2, <3>3, <4>2 DEF IsMarked
      <3>4. CASE ~(long # None /\ IsMarked(st[k].fields[q], "LongTerm"))
        <4>1. ins[k].fields[q] = st[k].fields[q]
          BY <3>1, <3>2, <3>4
        <4> QED
          BY <1>7, <2>2, <4>1 DEF OnlyDecodedMarked
      <3> QED
        BY <3>3, <3>4
    <2>3. CASE h.reference /\ k = cur.key /\ ~(k \in DOMAIN st /\ cur.secondField)
      <3>1. ins[k].fields[q] = EmptyField \/ ins[k].fields[q] = own(q)
        BY <1>2, <1>3, <2>3
      <3> QED
        BY <1>1, <1>7, <3>1 DEF EmptyField
    <2> QED
      BY <1>2, <1>7, <2>1, <2>2, <2>3
  <1> QED
    BY <1>7 DEF OnlyDecodedMarked, ins

\* A picture's completion keeps it so, whichever commands came before.
LEMMA CompleteCoded ==
    ASSUME IInv, NEW sps, NEW cur, NEW st, NEW long, NEW mmco5,
           Marked(cur, st, long, mmco5), OnlyDecodedMarked(st),
           Complete(sps, cur, st, long, mmco5)
    PROVE  OnlyDecodedMarked(stores')
  <1> DEFINE h == cur.header
             counts == IF mmco5 THEN AfterMmco5(cur.poc, h.structure) ELSE cur.poc
             ins == Insert(st, cur, counts, long, mmco5)
             full == EnforceCapacity(ins, sps, h.frameNum, cur.maxFrameNum)
  <1>1. stores' = EvictUnused(full)
    BY DEF Complete
  <1>2. /\ cur \in CurrentPicture /\ AreStores(st)
        /\ long \in Nat \cup {None} /\ mmco5 \in BOOLEAN
        /\ cur.secondField => IsField(h.structure)
    BY DEF Marked, PictureInv
  <1>3. counts \in Poc
    BY <1>2, CurrentParts, HeaderParts, AfterMmco5Type
  <1> HIDE DEF counts
  <1>4. OnlyDecodedMarked(ins)
    BY <1>2, <1>3, InsertCoded
  <1>5. Settled(st, cur, ins, full)
    BY <1>2, <1>3, CompleteStores
  <1> HIDE DEF ins, full
  <1>6. Unmarks(ins, full)
    BY <1>5 DEF Settled
  <1> QED
    BY <1>1, <1>4, <1>6, UnmarksCoded, EvictCoded

\* And every step does.
LEMMA CodedStep ==
    ASSUME IInv, OnlyDecodedMarked(stores), Next
    PROVE  OnlyDecodedMarked(stores')
  <1>1. AreStores(stores)
    BY DEF IInv, TypeOK
  <1>2. Unmarks(stores, stores) /\ Remarks(stores, stores)
    BY <1>1, UnmarksIsRemarks DEF Unmarks
  <1>4. ASSUME NEW sps \in SpsSet, NEW h \in Headers, Begin(sps, h)
        PROVE  OnlyDecodedMarked(stores')
    <2>1. stores' = stores \/ stores' = Unmark(stores, FieldsMarked(stores, "ShortTerm"))
      BY <1>4 DEF Begin, BeginPicture, BeginAfterLoss, BeginWithGap
    <2> QED
      BY <1>1, <2>1, UnmarkUnmarks, UnmarksCoded
  <1>5. ASSUME NEW sps \in SpsSet, FinishNonReference(sps)
        PROVE  OnlyDecodedMarked(stores')
    <2>1. Idle /\ pending # None /\ Complete(sps, pending, stores, None, FALSE)
      BY <1>5 DEF FinishNonReference
    <2> QED
      BY <1>2, <2>1, UnmarksMarked, CompleteCoded
  <1>6. ASSUME NEW sps \in SpsSet, FinishIdr(sps)
        PROVE  OnlyDecodedMarked(stores')
    <2> DEFINE st == Unmark(stores, AllFields(stores))
               long == IF pending.header.longTermReference THEN 0 ELSE None
    <2>1. Idle /\ pending # None /\ Complete(sps, pending, st, long, FALSE)
      BY <1>6 DEF FinishIdr
    <2>2. Unmarks(stores, st) /\ \A k \in DOMAIN stores : \A idx : ~HoldsIdx(st[k], idx)
      BY <1>1, UnmarkAll
    <2>3. long \in Nat \cup {None}
      OBVIOUS
    <2> HIDE DEF st, long
    <2>4. Marked(pending, st, long, FALSE)
      BY <2>1, <2>2, <2>3, UnmarksMarked DEF Marked
    <2>5. OnlyDecodedMarked(st)
      BY <2>2, UnmarksCoded
    <2> QED
      BY <2>1, <2>4, <2>5, CompleteCoded
  <1>7. ASSUME NEW sps \in SpsSet, FinishSliding(sps)
        PROVE  OnlyDecodedMarked(stores')
    <2> DEFINE st == SlidingWindow(stores, sps, pending.header.frameNum,
                                   pending.maxFrameNum,
                                   IF pending.secondField THEN pending.key ELSE None)
    <2>1. Idle /\ pending # None /\ Complete(sps, pending, st, None, FALSE)
      BY <1>7 DEF FinishSliding
    <2>2. Unmarks(stores, st)
      BY <1>1, SlidingWindowUnmarks
    <2> HIDE DEF st
    <2>3. OnlyDecodedMarked(st)
      BY <2>2, UnmarksCoded
    <2> QED
      BY <2>1, <2>2, <2>3, UnmarksMarked, CompleteCoded
  <1>8. ASSUME FillFrame
        PROVE  OnlyDecodedMarked(stores')
    <2> DEFINE slid == SlidingWindow(stores, gap.sps, gap.unused, gap.sps.maxFrameNum, None)
               counts == DeriveNonExisting(poc, gap.sps, gap.unused)
               new == NonExistingStore(gap.unused, counts)
    <2>1. Unmarks(stores, slid)
      BY <1>1, SlidingWindowUnmarks
    <2>2. \/ stores' = slid
          \/ stores' = [k \in DOMAIN slid \cup {nextKey} |-> IF k = nextKey THEN new ELSE slid[k]]
      BY <1>8 DEF FillFrame
    <2>3. \A p \in Parities : new.fields[p].decoded
      BY DEF NonExistingStore
    <2> HIDE DEF slid, new
    <2>4. OnlyDecodedMarked(slid)
      BY <2>1, UnmarksCoded
    <2> QED
      BY <2>2, <2>3, <2>4 DEF OnlyDecodedMarked
  <1>9. ASSUME EndGap
        PROVE  OnlyDecodedMarked(stores')
    BY <1>9, EvictCoded DEF EndGap
  <1>10. ASSUME MarkNext
         PROVE  OnlyDecodedMarked(stores')
    <2> DEFINE cur == marking.current
               op == cur.header.mmco[marking.next]
               parity == ParityOf(cur.header.structure)
               spare == IF cur.secondField THEN cur.key ELSE None
    <2>1. /\ marking # None /\ marking.next <= Len(cur.header.mmco)
          /\ stores' = ApplyMmco(stores, op, parity, cur.header.frameNum,
                                 cur.maxFrameNum, spare)
      BY <1>10 DEF MarkNext
    <2>2. cur \in CurrentPicture /\ marking.next \in Nat \ {0}
      BY <2>1 DEF IInv, TypeOK, CommandLoop
    <2>3. cur.header.mmco \in Seq(MmcoOp) /\ parity \in Parities \cup {None}
      BY <2>2, CurrentParts, HeaderParts
    <2>4. op \in MmcoOp
      BY <2>1, <2>2, <2>3
    <2> HIDE DEF op, parity, spare
    <2>5. Remarks(stores, stores')
      BY <1>1, <2>1, <2>3, <2>4, ApplyMmcoRemarks
    <2> QED
      BY <2>5, RemarksCoded
  <1>11. ASSUME EndMarking
         PROVE  OnlyDecodedMarked(stores')
    <2> DEFINE cur == marking.current
    <2>1. /\ marking # None
          /\ Complete(marking.sps, cur, stores, marking.currentLong, marking.mmco5)
      BY <1>11 DEF EndMarking
    <2>2. Marked(cur, stores, marking.currentLong, marking.mmco5)
      BY <2>1, MarkingMarked
    <2> QED
      BY <2>1, <2>2, CompleteCoded
  <1>12. CASE Clear
    <2>1. DOMAIN stores' = {}
      BY <1>12, NoStores DEF Clear
    <2> QED
      BY <2>1 DEF OnlyDecodedMarked
  <1>13. SkipFrame \/ OutOfTurn => stores' = stores
    BY DEF SkipFrame, OutOfTurn
  <1>14. ASSUME NEW sps \in SpsSet, BeginMarking(sps)
         PROVE  OnlyDecodedMarked(stores')
    BY <1>14 DEF BeginMarking
  <1> QED
    BY <1>4, <1>5, <1>6, <1>7, <1>8, <1>9, <1>10, <1>11, <1>12, <1>13, <1>14
       DEF Next, Finish, Continue

-----------------------------------------------------------------------------
(* What the window leaves *)

\* A store is its parts.
LEMMA SameStore ==
    ASSUME NEW s \in FrameStore, NEW t \in FrameStore,
           s.frameNum = t.frameNum, s.codedFrame = t.codedFrame, s.nonExisting = t.nonExisting,
           \A p \in Parities : s.fields[p] = t.fields[p]
    PROVE  s = t
  <1>1. s.fields = t.fields
    BY DEF FrameStore
  <1> QED
    BY <1>1 DEF FrameStore

\* Of the cleared stores.
LEMMA ClearedStores ==
    ASSUME NEW st, AreStores(st)
    PROVE  LET new == Cleared(st)
           IN  /\ AreStores(new) /\ DOMAIN new = DOMAIN st
               /\ Holders(new, "ShortTerm") = {}
               /\ Holders(new, "LongTerm") = Holders(st, "LongTerm")
               /\ OnlyDecodedMarked(st) =>
                    \A k \in DOMAIN st \ Holders(st, "ShortTerm") : new[k] = st[k]
  <1> DEFINE new == Cleared(st)
             marked == FieldsMarked(st, "ShortTerm")
  <1>1. /\ AreStores(new) /\ DOMAIN new = DOMAIN st
        /\ \A k \in DOMAIN st :
             /\ new[k].frameNum = st[k].frameNum
             /\ new[k].codedFrame = st[k].codedFrame
             /\ new[k].nonExisting = st[k].nonExisting
             /\ \A p \in Parities :
                  new[k].fields[p] = IF <<k, p>> \in marked THEN AsUnused(st[k].fields[p])
                                     ELSE st[k].fields[p]
    BY UnmarkType DEF Cleared
  <1>2. \A k \in DOMAIN st, p \in Parities :
           <<k, p>> \in marked <=> st[k].fields[p].marking = "ShortTerm"
    BY DEF FieldsMarked, AllFields
  <1>3. \A k \in DOMAIN st, p \in Parities :
           /\ st[k].fields[p] \in FieldState
           /\ AsUnused(st[k].fields[p]).marking = "Unused"
           /\ AsUnused(st[k].fields[p]).decoded = st[k].fields[p].decoded
    BY StoreParts, AsUnusedField
  <1> HIDE DEF new, marked
  <1>4. \A k \in DOMAIN st, p \in Parities :
           new[k].fields[p] = IF st[k].fields[p].marking = "ShortTerm" THEN AsUnused(st[k].fields[p])
                              ELSE st[k].fields[p]
    BY <1>1, <1>2
  <1>5. Holders(new, "ShortTerm") = {}
    BY <1>1, <1>3, <1>4 DEF Holders, AnyMarked, IsMarked
  <1>6. Holders(new, "LongTerm") = Holders(st, "LongTerm")
    BY <1>1, <1>3, <1>4 DEF Holders, AnyMarked, IsMarked
  <1>7. ASSUME OnlyDecodedMarked(st), NEW k \in DOMAIN st \ Holders(st, "ShortTerm")
        PROVE  new[k] = st[k]
    <2>1. \A p \in Parities : st[k].fields[p].marking # "ShortTerm"
      BY <1>7 DEF OnlyDecodedMarked, Holders, AnyMarked, IsMarked
    <2>2. \A p \in Parities : new[k].fields[p] = st[k].fields[p]
      BY <1>4, <2>1
    <2>3. new[k] \in FrameStore /\ st[k] \in FrameStore
      BY <1>1, StoreParts
    <2> QED
      BY <1>1, <2>2, <2>3, SameStore
  <1> QED
    BY <1>1, <1>5, <1>6, <1>7 DEF new

\* The short-term pictures that are older than k.
Elders(st, n, m, k) == {j \in Holders(st, "ShortTerm") : Older(st, n, m, j, k)}

\* The window leaves one place fewer than its size, to the newest; the others lose their
\* short-term fields.
LEMMA WindowLeaves ==
    ASSUME NEW st, AreStores(st), IsFiniteSet(DOMAIN st), NEW sps \in SpsSet,
           NEW n \in Nat, NEW m \in Nat, NEW size, size = WindowSize(st, sps)
    PROVE  LET new   == SlidingWindow(st, sps, n, m, None)
               short == Holders(st, "ShortTerm")
               kept  == Holders(new, "ShortTerm")
           IN  /\ AreStores(new) /\ DOMAIN new = DOMAIN st
               /\ size \in Nat \ {0}
               /\ IsFiniteSet(short) /\ kept \subseteq short /\ Cardinality(kept) <= size - 1
               /\ \A k \in DOMAIN st :
                    new[k] = IF k \in short \ kept THEN Cleared(st)[k] ELSE st[k]
               /\ \A k \in short :
                    Cardinality(Elders(st, n, m, k)) > Cardinality(short) - size => k \in kept
  <1> DEFINE short   == Holders(st, "ShortTerm")
             long    == Holders(st, "LongTerm")
             R       == OlderThan(st, n, m)
             excess  == Cardinality(short) + Cardinality(long) - RefCap(sps) + 1
             victims == {k \in short : Cardinality(Before(short, R, k)) < excess}
             left    == short \ victims
             new     == SlidingWindow(st, sps, n, m, None)
             dropped == SlidOut(st, sps, n, m)
             marked  == FieldsMarked(st, "ShortTerm")
  <1>1. RefCap(sps) \in Nat /\ RefCap(sps) > 0
    BY CapacityPositive
  <1>2. /\ short \subseteq DOMAIN st /\ short \subseteq Nat /\ IsFiniteSet(short) /\ Cardinality(short) \in Nat
        /\ long \subseteq DOMAIN st /\ IsFiniteSet(long) /\ Cardinality(long) \in Nat
    BY FS_Subset, FS_CardinalityType DEF Holders, AreStores
  <1>3. /\ \A j \in short : <<j, j>> \notin R
        /\ \A i, j, k \in short : <<i, j>> \in R /\ <<j, k>> \in R => <<i, k>> \in R
    BY <1>2, OlderStrict DEF OlderThan
  <1>4. \A k \in short : /\ Before(short, R, k) = {j \in short : Older(st, n, m, j, k)}
                         /\ Before(short, R, k) = Elders(st, n, m, k)
    BY <1>2 DEF Before, OlderThan, Elders
  <1>5. dropped = {e \in marked : e[1] \in victims}
    <2>1. victims = {k \in short : Cardinality({j \in short : Older(st, n, m, j, k)}) < excess}
      BY <1>4
    <2> QED
      BY <2>1 DEF SlidOut
  <1>6. \A k \in short : k \notin Before(short, R, k) /\ Before(short, R, k) \subseteq short
    BY <1>3 DEF Before
  <1> HIDE DEF R
  <1>7. left = {} \/ Cardinality(left) <= Cardinality(short) - excess
    <2>1. excess \in Int
      BY <1>1, <1>2
    <2> HIDE DEF excess
    <2> QED
      BY <1>2, <1>3, <2>1, RankedFew
  <1>8. IsFiniteSet(left) /\ Cardinality(left) \in Nat /\ Cardinality({}) = 0
    BY <1>2, FS_Subset, FS_CardinalityType, FS_EmptySet
  <1>9. size \in Nat \ {0} /\ size = IF Cardinality(long) < RefCap(sps) THEN RefCap(sps) - Cardinality(long) ELSE 1
    BY <1>1, <1>2 DEF WindowSize
  <1>10. Cardinality(left) <= size - 1
    <2> HIDE DEF left, short, long
    <2> QED
      BY <1>1, <1>2, <1>7, <1>8, <1>9 DEF short, long
  <1>11. ASSUME NEW k \in short, Cardinality(Before(short, R, k)) > Cardinality(short) - size
         PROVE  k \in left
    <2>1. Before(short, R, k) \subseteq short \ {k}
      BY <1>6
    <2>2. IsFiniteSet(short \ {k}) /\ Cardinality(short \ {k}) = Cardinality(short) - 1
      BY <1>2, FS_RemoveElement
    <2>3. Cardinality(Before(short, R, k)) \in Nat /\ Cardinality(Before(short, R, k)) <= Cardinality(short) - 1
      BY <2>1, <2>2, FS_Subset, FS_CardinalityType
    <2>4. ~(Cardinality(Before(short, R, k)) < excess)
      BY <1>1, <1>2, <1>9, <1>11, <2>3
    <2> QED
      BY <2>4
  <1>12. /\ AreStores(new) /\ DOMAIN new = DOMAIN st
         /\ \A k \in DOMAIN st :
              /\ new[k].frameNum = st[k].frameNum
              /\ new[k].codedFrame = st[k].codedFrame
              /\ new[k].nonExisting = st[k].nonExisting
              /\ \A p \in Parities :
                   new[k].fields[p] = IF <<k, p>> \in dropped THEN AsUnused(st[k].fields[p])
                                      ELSE st[k].fields[p]
    BY UnmarkType DEF SlidingWindow
  <1>13. /\ AreStores(Cleared(st))
         /\ Holders(Cleared(st), "ShortTerm") = {} /\ DOMAIN Cleared(st) = DOMAIN st
         /\ \A k \in DOMAIN st :
              /\ Cleared(st)[k].frameNum = st[k].frameNum
              /\ Cleared(st)[k].codedFrame = st[k].codedFrame
              /\ Cleared(st)[k].nonExisting = st[k].nonExisting
              /\ \A p \in Parities :
                   Cleared(st)[k].fields[p] = IF <<k, p>> \in marked THEN AsUnused(st[k].fields[p])
                                              ELSE st[k].fields[p]
    BY ClearedStores, UnmarkType DEF Cleared
  <1> HIDE DEF new, dropped, marked, excess
  <1>14. \A k \in DOMAIN st, p \in Parities :
            <<k, p>> \in dropped <=> <<k, p>> \in marked /\ k \in victims
    BY <1>5
  <1> HIDE DEF victims
  <1>15. \A k \in DOMAIN st : new[k] = IF k \in victims THEN Cleared(st)[k] ELSE st[k]
    <2> SUFFICES ASSUME NEW k \in DOMAIN st
                 PROVE  new[k] = IF k \in victims THEN Cleared(st)[k] ELSE st[k]
      OBVIOUS
    <2>1. new[k] \in FrameStore /\ st[k] \in FrameStore /\ Cleared(st)[k] \in FrameStore
      BY <1>12, <1>13, StoreParts
    <2>2. CASE k \in victims
      <3>1. ASSUME NEW p \in Parities
            PROVE  new[k].fields[p] = Cleared(st)[k].fields[p]
        <4>1. <<k, p>> \in dropped <=> <<k, p>> \in marked
          BY <1>14, <2>2
        <4>2. new[k].fields[p] = IF <<k, p>> \in dropped THEN AsUnused(st[k].fields[p])
                                ELSE st[k].fields[p]
          BY <1>12
        <4>3. Cleared(st)[k].fields[p] = IF <<k, p>> \in marked THEN AsUnused(st[k].fields[p])
                                        ELSE st[k].fields[p]
          BY <1>13
        <4> QED
          BY <4>1, <4>2, <4>3
      <3> QED
        BY <1>12, <1>13, <2>1, <2>2, <3>1, SameStore
    <2>3. CASE k \notin victims
      <3>1. \A p \in Parities : new[k].fields[p] = st[k].fields[p]
        BY <1>12, <1>14, <2>3
      <3> QED
        BY <1>12, <2>1, <2>3, <3>1, SameStore
    <2> QED
      BY <2>2, <2>3
  <1>16. victims \subseteq short
    BY DEF victims
  <1>17. Holders(new, "ShortTerm") = left
    <2>1. ASSUME NEW k \in DOMAIN st
          PROVE  AnyMarked(new[k], "ShortTerm") <=> k \in left
      <3>1. CASE k \in victims
        <4>1. ~AnyMarked(Cleared(st)[k], "ShortTerm")
          BY <1>13 DEF Holders
        <4> QED
          BY <1>15, <3>1, <4>1
      <3>2. CASE k \notin victims
        BY <1>15, <3>2 DEF Holders
      <3> QED
        BY <3>1, <3>2
    <2>2. left \subseteq DOMAIN st
      BY <1>2
    <2> HIDE DEF left
    <2> QED
      BY <1>12, <2>1, <2>2 DEF Holders
  <1>18. victims = short \ left
    BY <1>16
  <1> HIDE DEF left, short
  <1> QED
    BY <1>2, <1>4, <1>9, <1>10, <1>11, <1>12, <1>15, <1>17, <1>18 DEF new, short, left

-----------------------------------------------------------------------------
(* The stores while the gap is filled *)

\* Both fields of a store are short-term.
AllShort(s) == \A p \in Parities : s.fields[p].decoded /\ s.fields[p].marking = "ShortTerm"

\* Such a store is a short-term reference only.
LEMMA ShortOnly ==
    ASSUME NEW s, AllShort(s)
    PROVE  AnyMarked(s, "ShortTerm") /\ ~AnyMarked(s, "LongTerm") /\ IsReference(s)
  BY DEF AllShort, AnyMarked, IsMarked, IsReference, Parities

\* A store is a reference when it holds a marking of one of the two kinds.
LEMMA ReferenceHolds ==
    ASSUME NEW st, AreStores(st), NEW k \in DOMAIN st
    PROVE  IsReference(st[k]) <=> AnyMarked(st[k], "ShortTerm") \/ AnyMarked(st[k], "LongTerm")
  <1>1. \A p \in Parities : st[k].fields[p].marking \in Markings
    BY StoreParts DEF FieldState
  <1> QED
    BY <1>1 DEF IsReference, AnyMarked, IsMarked, Markings

\* The frames the walk infers carry the missing numbers.
LEMMA InferredAre ==
    ASSUME NEW sps \in SpsSet, NEW start, NEW i \in 0 .. sps.maxFrameNum - 1
    PROVE  LET n == FrameNumAt(sps, start.unused, i)
               frames == InferredStores(sps, start)
           IN  /\ frames[i] = NonExistingStore(n, DeriveNonExisting(Walk(sps, start, i).poc, sps, n))
               /\ frames[i].frameNum = n
               /\ AllShort(frames[i])
  <1> DEFINE n == FrameNumAt(sps, start.unused, i)
             counts == DeriveNonExisting(Walk(sps, start, i).poc, sps, n)
  <1>1. InferredStores(sps, start)[i] = NonExistingStore(n, counts)
    BY DEF InferredStores
  <1> HIDE DEF counts
  <1>2. NonExistingStore(n, counts).frameNum = n /\ AllShort(NonExistingStore(n, counts))
    BY DEF NonExistingStore, AllShort
  <1> QED
    BY <1>1, <1>2 DEF counts

\* What the filling does not touch: the long-term pictures and with them the window.
LEMMA FilledLong ==
    ASSUME NEW sps \in SpsSet, NEW old, AreStores(old), IsFiniteSet(DOMAIN old), NEW size,
           NEW base \in Int, NEW lo \in Nat, NEW j \in Nat, NEW inferred, NEW st,
           Filled(st, old, size, base, lo, j, inferred),
           \A i \in lo .. j - 1 : AllShort(inferred[i])
    PROVE  /\ Holders(st, "LongTerm") = Holders(old, "LongTerm")
           /\ IsFiniteSet(DOMAIN st)
           /\ WindowSize(st, sps) = WindowSize(old, sps)
  <1> DEFINE short == Holders(st, "ShortTerm")
  <1>1. /\ AreStores(st)
        /\ DOMAIN st = DOMAIN old \cup {base + i : i \in lo .. j - 1}
        /\ \A i \in lo .. j - 1 :
             IF base + i \in short THEN st[base + i] = inferred[i]
             ELSE ~IsReference(st[base + i])
        /\ \A k \in DOMAIN old : st[k] = IF k \in short THEN old[k] ELSE Cleared(old)[k]
    BY DEF Filled
  <1>2. DOMAIN Cleared(old) = DOMAIN old /\ Holders(Cleared(old), "LongTerm") = Holders(old, "LongTerm")
    BY ClearedStores
  <1>3. \A k \in DOMAIN old : AnyMarked(Cleared(old)[k], "LongTerm") <=> AnyMarked(old[k], "LongTerm")
    BY <1>2 DEF Holders
  <1>4. \A k \in DOMAIN old : AnyMarked(st[k], "LongTerm") <=> AnyMarked(old[k], "LongTerm")
    BY <1>1, <1>3
  <1>5. ASSUME NEW i \in lo .. j - 1
        PROVE  ~AnyMarked(st[base + i], "LongTerm")
    <2>1. CASE base + i \in short
      BY <1>1, <2>1, ShortOnly
    <2>2. CASE base + i \notin short
      <3>1. base + i \in DOMAIN st
        BY <1>1
      <3> QED
        BY <1>1, <2>2, <3>1, ReferenceHolds
    <2> QED
      BY <2>1, <2>2
  <1>6. Holders(st, "LongTerm") = Holders(old, "LongTerm")
    BY <1>1, <1>4, <1>5 DEF Holders
  <1>7. IsFiniteSet(DOMAIN st)
    <2> DEFINE low == base + lo
               high == base + j - 1
    <2>1. {base + i : i \in lo .. j - 1} \subseteq low .. high /\ low \in Int /\ high \in Int
      OBVIOUS
    <2> HIDE DEF low, high
    <2>2. IsFiniteSet(low .. high)
      BY <2>1, FS_Interval
    <2> DEFINE added == {base + i : i \in lo .. j - 1}
    <2>3. IsFiniteSet(added)
      BY <2>1, <2>2, FS_Subset
    <2>4. DOMAIN st = DOMAIN old \cup added
      BY <1>1
    <2> HIDE DEF added
    <2>5. IsFiniteSet(DOMAIN old \cup added)
      BY <2>3, FS_Union
    <2> QED
      BY <2>4, <2>5
  <1> QED
    BY <1>6, <1>7 DEF WindowSize

\* A store that is the same in two buffers is so without its short-term fields.
LEMMA SameCleared ==
    ASSUME NEW st, NEW old, NEW k \in DOMAIN st, k \in DOMAIN old, st[k] = old[k]
    PROVE  Cleared(st)[k] = Cleared(old)[k]
  BY DEF Cleared, Unmark, FieldsMarked, AllFields

\* The buffer old when the frames lo .. j of a gap that starts with u are to be filled in:
\* none of the frames 0 .. j has the number of a short-term picture.
Fillable(sps, u, old, size, base, lo, j, inferred) ==
    /\ u \in Nat /\ u < sps.maxFrameNum
    /\ AreStores(old) /\ IsFiniteSet(DOMAIN old) /\ size = WindowSize(old, sps)
    /\ base \in Int /\ lo \in Nat /\ j \in Nat /\ lo <= j /\ j < sps.maxFrameNum
    /\ base + lo \in Nat /\ \A k \in DOMAIN old : k < base + lo
    /\ \A k \in Holders(old, "ShortTerm") :
          /\ old[k].frameNum < sps.maxFrameNum
          /\ \A i \in 0 .. j : old[k].frameNum # FrameNumAt(sps, u, i)
    /\ inferred[j] \in FrameStore
    /\ \A i \in lo .. j : inferred[i].frameNum = FrameNumAt(sps, u, i) /\ AllShort(inferred[i])

\* One frame more: the window makes room and none of the newest goes.
LEMMA FilledStep ==
    ASSUME NEW sps \in SpsSet, NEW u, NEW old, NEW size, NEW base, NEW lo, NEW j, NEW inferred,
           Fillable(sps, u, old, size, base, lo, j, inferred),
           NEW st, Filled(st, old, size, base, lo, j, inferred),
           NEW n, n = FrameNumAt(sps, u, j),
           NEW new, new = SlidingWindow(st, sps, n, sps.maxFrameNum, None),
           NEW key, key = base + j,
           NEW next \in [DOMAIN new \cup {key} -> FrameStore], next[key] = inferred[j],
           \A k \in DOMAIN new : k # key => next[k] = new[k]
    PROVE  Filled(next, old, size, base, lo, j + 1, inferred)
  <1> DEFINE m == sps.maxFrameNum
             wrap(x) == IF x > n THEN x - m ELSE x
             short == Holders(st, "ShortTerm")
             kept == Holders(new, "ShortTerm")
             older(k) == Elders(st, n, m, k)
  <1>0. /\ u \in Nat /\ u < m
        /\ AreStores(old) /\ IsFiniteSet(DOMAIN old) /\ size = WindowSize(old, sps)
        /\ base \in Int /\ lo \in Nat /\ j \in Nat /\ lo <= j /\ j < m
        /\ base + lo \in Nat /\ \A k \in DOMAIN old : k < base + lo
        /\ \A k \in Holders(old, "ShortTerm") :
              /\ old[k].frameNum < m
              /\ \A i \in 0 .. j : old[k].frameNum # FrameNumAt(sps, u, i)
        /\ inferred[j] \in FrameStore
        /\ \A i \in lo .. j : inferred[i].frameNum = FrameNumAt(sps, u, i) /\ AllShort(inferred[i])
    BY DEF Fillable
  <1> USE <1>0
  <1>1. m \in Nat \ {0}
    BY CapacityPositive
  <1>2. /\ n \in Nat /\ n < m
        /\ \A i \in 0 .. j : wrap(FrameNumAt(sps, u, i)) = n - (j - i)
        /\ \A x \in 0 .. m - 1 : (\A i \in 0 .. j : x # FrameNumAt(sps, u, i)) => wrap(x) < n - j
    <2>1. m \in Nat \ {0} /\ u < m /\ j < m /\ n = FrameNumAt(sps, u, j)
      BY <1>1
    <2>2. \A i : FrameNumAt(sps, u, i) = (u + i) % m
      BY DEF FrameNumAt
    <2> HIDE DEF m
    <2>3. LET n2 == (u + j) % m
              wrap2(x) == IF x > n2 THEN x - m ELSE x
           IN  /\ n2 \in Nat /\ n2 < m
               /\ \A i \in 0 .. j : wrap2((u + i) % m) = n2 - (j - i)
               /\ \A x \in 0 .. m - 1 : (\A i \in 0 .. j : x # (u + i) % m) => wrap2(x) < n2 - j
      BY <2>1, Ages
    <2> QED
      BY <2>1, <2>2, <2>3
  <1>3. /\ AreStores(st)
        /\ DOMAIN st = DOMAIN old \cup {base + i : i \in lo .. j - 1}
        /\ \A i \in lo .. j - 1 :
             /\ j - i <= size => base + i \in short
             /\ IF base + i \in short THEN st[base + i] = inferred[i]
                ELSE ~IsReference(st[base + i])
        /\ \A k \in DOMAIN old :
             st[k] = IF k \in short THEN old[k] ELSE Cleared(old)[k]
    BY DEF Filled
  <1>4. /\ IsFiniteSet(DOMAIN st) /\ size = WindowSize(st, sps)
        /\ Holders(st, "LongTerm") = Holders(old, "LongTerm")
    BY FilledLong
  <1>5. /\ AreStores(new) /\ DOMAIN new = DOMAIN st
        /\ size \in Nat \ {0}
        /\ IsFiniteSet(short) /\ kept \subseteq short /\ Cardinality(kept) <= size - 1
        /\ \A k \in DOMAIN st : new[k] = IF k \in short \ kept THEN Cleared(st)[k] ELSE st[k]
        /\ \A k \in short : Cardinality(older(k)) > Cardinality(short) - size => k \in kept
    <2>1. m \in Nat /\ n \in Nat /\ new = SlidingWindow(st, sps, n, m, None)
      BY <1>1, <1>2
    <2> HIDE DEF m
    <2>2. LET new2   == SlidingWindow(st, sps, n, m, None)
              short2 == Holders(st, "ShortTerm")
              kept2  == Holders(new2, "ShortTerm")
          IN  /\ AreStores(new2) /\ DOMAIN new2 = DOMAIN st
              /\ size \in Nat \ {0}
              /\ IsFiniteSet(short2) /\ kept2 \subseteq short2 /\ Cardinality(kept2) <= size - 1
              /\ \A k \in DOMAIN st :
                   new2[k] = IF k \in short2 \ kept2 THEN Cleared(st)[k] ELSE st[k]
              /\ \A k \in short2 :
                   Cardinality(Elders(st, n, m, k)) > Cardinality(short2) - size => k \in kept2
      BY <1>3, <1>4, <2>1, WindowLeaves, Zenon
    <2> QED
      BY <2>1, <2>2
  <1>6. \A k \in DOMAIN old : k < base + lo /\ k \in Nat
    BY DEF AreStores
  <1>7. base + j \in Nat /\ base + j \notin DOMAIN st
    BY <1>3, <1>6
  <1>8. short \subseteq DOMAIN st /\ kept \subseteq DOMAIN st /\ DOMAIN st \subseteq Nat
    BY <1>3, <1>5 DEF Holders, AreStores
  <1>9. /\ DOMAIN next = DOMAIN st \cup {base + j}
        /\ next[base + j] = inferred[j]
        /\ \A k \in DOMAIN st : next[k] = new[k]
    BY <1>5, <1>7
  <1> HIDE DEF short, kept, m
  <1>10. AreStores(next)
    <2>1. DOMAIN next \subseteq Nat
      BY <1>7, <1>8, <1>9
    <2>2. next \in [DOMAIN next -> FrameStore]
      OBVIOUS
    <2> QED
      BY <2>1, <2>2 DEF AreStores
  <1>11. Holders(next, "ShortTerm") = kept \cup {base + j}
    <2>1. AnyMarked(next[base + j], "ShortTerm")
      <3>1. j \in lo .. j
        OBVIOUS
      <3> QED
        BY <1>9, <3>1, ShortOnly
    <2>2. \A k \in DOMAIN st : AnyMarked(next[k], "ShortTerm") <=> k \in kept
      BY <1>5, <1>9 DEF kept, Holders
    <2> QED
      BY <1>8, <1>9, <2>1, <2>2 DEF Holders
  <1>12. DOMAIN next = DOMAIN old \cup {base + i : i \in lo .. (j + 1) - 1}
    <2>1. \A i \in lo .. (j + 1) - 1 : i \in lo .. j - 1 \/ i = j
      OBVIOUS
    <2>2. j \in lo .. (j + 1) - 1 /\ \A i \in lo .. j - 1 : i \in lo .. (j + 1) - 1
      OBVIOUS
    <2>3. {base + i : i \in lo .. (j + 1) - 1} = {base + i : i \in lo .. j - 1} \cup {base + j}
      BY <2>1, <2>2
    <2> QED
      BY <1>3, <1>9, <2>3
  <1>13. Cardinality(kept \cup {base + j}) <= size
    <2>1. IsFiniteSet(kept) /\ Cardinality(kept) \in Nat
      BY <1>5, FS_Subset, FS_CardinalityType
    <2>2. base + j \notin kept
      BY <1>7, <1>8
    <2>3. Cardinality(kept \cup {base + j}) = Cardinality(kept) + 1
      BY <2>1, <2>2, FS_AddElement
    <2> QED
      BY <1>5, <2>1, <2>3
  <1>14. \A k \in DOMAIN st : FrameNumWrap(st[k], n, m) = wrap(st[k].frameNum)
    BY DEF FrameNumWrap
  <1>15. ASSUME NEW i \in lo .. j - 1, (j + 1) - i <= size
         PROVE  base + i \in kept
    <2> DEFINE k == base + i
               low == k
               high == base + j - 1
               young == short \ older(k)
    <2>1. k \in short /\ st[k] = inferred[i] /\ i \in 0 .. j
      BY <1>3, <1>5, <1>15
    <2>2. wrap(st[k].frameNum) = n - (j - i)
      <3>1. i \in lo .. j
        OBVIOUS
      <3>2. inferred[i].frameNum = FrameNumAt(sps, u, i)
        BY <3>1 DEF m
      <3> QED
        BY <1>2, <2>1, <3>2
    <2>3. ASSUME NEW x \in short, x \notin low .. high
          PROVE  wrap(st[x].frameNum) < n - (j - i)
      <3>1. CASE x \in DOMAIN old
        <4>1. st[x] = old[x] /\ x \in Holders(old, "ShortTerm")
          BY <1>3, <3>1 DEF Holders, short
        <4>2. old[x].frameNum \in Nat
          BY <3>1, StoreParts
        <4>3. old[x].frameNum \in 0 .. m - 1 /\ \A i2 \in 0 .. j : old[x].frameNum # FrameNumAt(sps, u, i2)
          <5>1. old[x].frameNum < m /\ \A i2 \in 0 .. j : old[x].frameNum # FrameNumAt(sps, u, i2)
            BY <4>1 DEF m
          <5> QED
            BY <1>1, <4>2, <5>1
        <4>4. wrap(old[x].frameNum) < n - j
          BY <1>2, <4>3
        <4>5. wrap(old[x].frameNum) \in Int
          BY <1>1, <1>2, <4>2
        <4> QED
          BY <1>2, <4>1, <4>4, <4>5
      <3>2. CASE x \notin DOMAIN old
        <4>1. PICK i2 \in lo .. j - 1 : x = base + i2
          BY <1>3, <1>8, <3>2
        <4>2. i2 \in lo .. j /\ i2 \in 0 .. j /\ i2 < i
          BY <2>3, <4>1
        <4>3. st[x] = inferred[i2] /\ inferred[i2].frameNum = FrameNumAt(sps, u, i2)
          BY <1>3, <2>3, <4>1, <4>2 DEF m
        <4>4. wrap(st[x].frameNum) = n - (j - i2)
          BY <1>2, <4>2, <4>3
        <4> QED
          BY <1>2, <4>2, <4>4
      <3> QED
        BY <3>1, <3>2
    <2>4. \A x \in short : x \notin low .. high => x \in older(k)
      <3> SUFFICES ASSUME NEW x \in short, x \notin low .. high
                   PROVE  Older(st, n, m, x, k)
        BY DEF Elders, short
      <3>1. wrap(st[x].frameNum) < wrap(st[k].frameNum)
        BY <2>2, <2>3
      <3>2. /\ FrameNumWrap(st[x], n, m) = wrap(st[x].frameNum)
            /\ FrameNumWrap(st[k], n, m) = wrap(st[k].frameNum)
        BY <1>8, <1>14, <2>1
      <3> HIDE DEF wrap, k
      <3> QED
        BY <3>1, <3>2 DEF Older
    <2>41. older(k) \subseteq short
      BY DEF Elders, short
    <2>5. k \in Int /\ high \in Int /\ high - low + 1 = j - i
      OBVIOUS
    <2>6. older(k) \subseteq short /\ young \subseteq low .. high
      BY <2>4, <2>41
    <2> HIDE DEF k, low, high
    <2>7. IsFiniteSet(low .. high) /\ Cardinality(low .. high) = j - i
      <3>1. low \in Int
        BY <2>5 DEF low
      <3>2. low <= high
        BY <2>5, <3>1
      <3>3. /\ IsFiniteSet(low .. high)
            /\ Cardinality(low .. high) = IF low > high THEN 0 ELSE high - low + 1
        BY <2>5, <3>1, FS_Interval
      <3> QED
        BY <2>5, <3>1, <3>2, <3>3
    <2> DEFINE elders == older(k)
    <2>8. elders \subseteq short /\ young = short \ elders
      BY <2>6
    <2> HIDE DEF elders
    <2>9. /\ IsFiniteSet(young) /\ Cardinality(young) \in Nat /\ Cardinality(young) <= j - i
          /\ IsFiniteSet(elders) /\ Cardinality(elders) \in Nat /\ Cardinality(short) \in Nat
      <3> DEFINE all == low .. high
      <3>1. young \in SUBSET all /\ IsFiniteSet(all) /\ Cardinality(all) = j - i
        BY <2>6, <2>7
      <3> HIDE DEF young, all
      <3>2. IsFiniteSet(young) /\ Cardinality(young) <= j - i
        BY <3>1, FS_Subset
      <3>3. elders \in SUBSET short
        BY <2>8
      <3>4. IsFiniteSet(elders)
        BY <1>5, <3>3, FS_Subset
      <3> QED
        BY <1>5, <3>2, <3>4, FS_CardinalityType
    <2>10. Cardinality(young) = Cardinality(short) - Cardinality(elders)
      <3>1. short \cap elders = elders
        BY <2>8
      <3>2. Cardinality(short \ elders) = Cardinality(short) - Cardinality(short \cap elders)
        BY <1>5, FS_Difference
      <3> QED
        BY <2>8, <3>1, <3>2
    <2>11. Cardinality(elders) > Cardinality(short) - size
      <3> HIDE DEF young
      <3> QED
        BY <1>5, <1>15, <2>9, <2>10
    <2> QED
      BY <1>5, <2>1, <2>11 DEF elders, k
  <1>16. ASSUME NEW i \in lo .. (j + 1) - 1
         PROVE  /\ (j + 1) - i <= size => base + i \in kept \cup {base + j}
                /\ IF base + i \in kept \cup {base + j} THEN next[base + i] = inferred[i]
                   ELSE ~IsReference(next[base + i])
    <2>1. CASE i = j
      BY <1>9, <2>1
    <2>2. CASE i # j
      <3>1. i \in lo .. j - 1 /\ base + i # base + j
        BY <2>2
      <3>2. base + i \in DOMAIN st
        BY <1>3, <3>1
      <3>3. next[base + i] = new[base + i]
        BY <1>9, <3>2
      <3>4. CASE base + i \in kept
        <4>1. base + i \in short /\ new[base + i] = st[base + i]
          BY <1>5, <3>2, <3>4
        <4>2. st[base + i] = inferred[i]
          BY <1>3, <3>1, <4>1
        <4> QED
          BY <3>3, <3>4, <4>1, <4>2
      <3>5. CASE base + i \notin kept
        <4>1. ~IsReference(new[base + i])
          <5>1. CASE base + i \in short
            <6>1. new[base + i] = Cleared(st)[base + i]
              BY <1>5, <3>2, <3>5, <5>1
            <6>2. base + i \notin Holders(st, "LongTerm")
              <7>1. st[base + i] = inferred[i] /\ i \in lo .. j
                BY <1>3, <3>1, <5>1
              <7> QED
                BY <7>1, ShortOnly DEF Holders
            <6>3. /\ AreStores(Cleared(st)) /\ DOMAIN Cleared(st) = DOMAIN st
                  /\ Holders(Cleared(st), "ShortTerm") = {}
                  /\ Holders(Cleared(st), "LongTerm") = Holders(st, "LongTerm")
              BY <1>3, ClearedStores
            <6>4. ~AnyMarked(Cleared(st)[base + i], "ShortTerm") /\ ~AnyMarked(Cleared(st)[base + i], "LongTerm")
              BY <3>2, <6>2, <6>3 DEF Holders
            <6> QED
              BY <3>2, <6>1, <6>3, <6>4, ReferenceHolds
          <5>2. CASE base + i \notin short
            BY <1>3, <1>5, <3>1, <3>2, <5>2
          <5> QED
            BY <5>1, <5>2
        <4>2. ~((j + 1) - i <= size)
          BY <1>15, <3>1, <3>5
        <4> QED
          BY <3>1, <3>3, <3>5, <4>1, <4>2
      <3> QED
        BY <3>4, <3>5
    <2> QED
      BY <2>1, <2>2
  <1>17. ASSUME NEW k \in DOMAIN old
         PROVE  next[k] = IF k \in kept \cup {base + j} THEN old[k] ELSE Cleared(old)[k]
    <2>1. k \in DOMAIN st /\ k # base + j
      BY <1>3, <1>7
    <2>2. next[k] = new[k]
      BY <1>9, <2>1
    <2>3. CASE k \in kept
      BY <1>3, <1>5, <2>1, <2>2, <2>3
    <2>4. CASE k \notin short
      BY <1>3, <1>5, <2>1, <2>2, <2>4
    <2>5. CASE k \in short \ kept
      <3>1. new[k] = Cleared(st)[k] /\ st[k] = old[k]
        BY <1>3, <1>5, <2>1, <2>5
      <3>2. Cleared(st)[k] = Cleared(old)[k]
        BY <2>1, <3>1, SameCleared
      <3> QED
        BY <2>1, <2>2, <2>5, <3>1, <3>2
    <2> QED
      BY <2>3, <2>4, <2>5
  <1> QED
    BY <1>10, <1>11, <1>12, <1>13, <1>16, <1>17 DEF Filled

\* Nothing is filled before the first frame, whether the short-term fields went or not.
LEMMA NothingFilled ==
    ASSUME NEW old, AreStores(old), OnlyDecodedMarked(old),
           NEW size, NEW base, NEW inferred, NEW lo \in Nat
    PROVE  /\ Filled(old, old, size, base, lo, lo, inferred)
           /\ Filled(Cleared(old), old, size, base, lo, lo, inferred)
  <1> DEFINE new == Cleared(old)
  <1>1. /\ AreStores(new) /\ DOMAIN new = DOMAIN old
        /\ Holders(new, "ShortTerm") = {}
        /\ \A k \in DOMAIN old \ Holders(old, "ShortTerm") : new[k] = old[k]
    BY ClearedStores
  <1>2. lo .. lo - 1 = {} /\ ~(lo < lo)
    OBVIOUS
  <1>3. {base + i : i \in lo .. lo - 1} = {}
    BY <1>2
  <1> HIDE DEF new
  <1>4. Filled(old, old, size, base, lo, lo, inferred)
    BY <1>1, <1>2, <1>3 DEF Filled, new
  <1>5. Filled(new, old, size, base, lo, lo, inferred)
    BY <1>1, <1>2, <1>3 DEF Filled, new
  <1> QED
    BY <1>4, <1>5 DEF new

\* The keys of the frames lo .. hi, and the pictures without a short-term field.
KeysOf(base, lo, hi) == {base + i : i \in lo .. hi}
Lasting(old) == {k \in DOMAIN old : IsReference(Cleared(old)[k])}

\* The buffer old once at least as many of the frames lo .. j - 1 as the window has
\* places are filled in.
FilledEnough(old, size, base, lo, j, inferred) ==
    /\ AreStores(old) /\ size \in Nat \ {0}
    /\ base \in Int /\ lo \in Nat /\ j \in Nat /\ j - lo >= size
    /\ \A k \in DOMAIN old : k < base + lo
    /\ \A i \in lo .. j - 1 : AllShort(inferred[i])

\* Once as many frames are filled as the window has places, it holds them alone.
LEMMA FilledUp ==
    ASSUME NEW old, NEW size, NEW base, NEW lo, NEW j, NEW inferred,
           FilledEnough(old, size, base, lo, j, inferred),
           NEW st, Filled(st, old, size, base, lo, j, inferred)
    PROVE  /\ References(st) = KeysOf(base, j - size, j - 1) \cup Lasting(old)
           /\ \A i \in j - size .. j - 1 : st[base + i] = inferred[i]
           /\ \A k \in DOMAIN old : st[k] = Cleared(old)[k]
  <1> DEFINE short == Holders(st, "ShortTerm")
             low == base + j - size
             high == base + j - 1
             newest == low .. high
  <1>0. /\ AreStores(old) /\ size \in Nat \ {0}
        /\ base \in Int /\ lo \in Nat /\ j \in Nat /\ j - lo >= size
        /\ \A k \in DOMAIN old : k < base + lo
        /\ \A i \in lo .. j - 1 : AllShort(inferred[i])
    BY DEF FilledEnough
  <1> USE <1>0
  <1>1. /\ AreStores(st)
        /\ DOMAIN st = DOMAIN old \cup {base + i : i \in lo .. j - 1}
        /\ Cardinality(short) <= size
        /\ \A i \in lo .. j - 1 :
             /\ j - i <= size => base + i \in short
             /\ IF base + i \in short THEN st[base + i] = inferred[i]
                ELSE ~IsReference(st[base + i])
        /\ \A k \in DOMAIN old :
             st[k] = IF k \in short THEN old[k] ELSE Cleared(old)[k]
    BY DEF Filled
  <1>2. newest = {base + i : i \in j - size .. j - 1}
    <2>1. \A x \in newest : x - base \in j - size .. j - 1 /\ x = base + (x - base)
      OBVIOUS
    <2>2. \A i \in j - size .. j - 1 : base + i \in newest
      OBVIOUS
    <2> QED
      BY <2>1, <2>2
  <1>3. \A i \in j - size .. j - 1 : i \in lo .. j - 1 /\ j - i <= size
    OBVIOUS
  <1>4. newest \subseteq short
    BY <1>1, <1>2, <1>3
  <1>5. IsFiniteSet(newest) /\ Cardinality(newest) = size
    <2>1. low \in Int /\ high \in Int /\ ~(low > high) /\ high - low + 1 = size
      OBVIOUS
    <2> HIDE DEF low, high
    <2> QED
      BY <2>1, FS_Interval
  <1>6. IsFiniteSet(short) /\ Cardinality(short) \in Nat
    <2> DEFINE added == {base + i : i \in lo .. j - 1}
               a == base + lo
    <2>1. IsFiniteSet(DOMAIN st)
      <3>1. AreStores(old)
        OBVIOUS
      <3>2. DOMAIN st \subseteq 0 .. high
        <4>1. \A k \in DOMAIN old : k \in Nat /\ k < base + lo
          BY DEF AreStores
        <4>2. \A k \in DOMAIN st : k \in Nat
          BY <1>1 DEF AreStores
        <4>3. \A k \in DOMAIN st : k <= high
          <5> SUFFICES ASSUME NEW k \in DOMAIN st
                       PROVE  k <= high
            OBVIOUS
          <5>1. CASE k \in DOMAIN old
            BY <4>1, <5>1
          <5>2. CASE k \in added
            BY <5>2
          <5> QED
            BY <1>1, <5>1, <5>2
        <4> QED
          BY <4>2, <4>3
      <3>3. high \in Int
        OBVIOUS
      <3> HIDE DEF high
      <3>4. IsFiniteSet(0 .. high)
        BY <3>3, FS_Interval
      <3> QED
        BY <3>2, <3>4, FS_Subset
    <2> QED
      BY <2>1, Counted
  <1> HIDE DEF newest, short
  <1>7. short = newest
    <2>1. newest \in SUBSET short
      BY <1>4
    <2>2. Cardinality(newest) <= Cardinality(short)
      BY <1>6, <2>1, FS_Subset
    <2>3. Cardinality(short) = Cardinality(newest)
      BY <1>1, <1>5, <1>6, <2>2
    <2> QED
      BY <1>6, <2>1, <2>3, FS_Subset
  <1>8. \A i \in j - size .. j - 1 : st[base + i] = inferred[i] /\ IsReference(st[base + i])
    <2> SUFFICES ASSUME NEW i \in j - size .. j - 1
                 PROVE  st[base + i] = inferred[i] /\ IsReference(st[base + i])
      OBVIOUS
    <2>1. i \in lo .. j - 1 /\ base + i \in short
      BY <1>2, <1>3, <1>7
    <2> QED
      BY <1>1, <2>1, ShortOnly
  <1>9. \A k \in DOMAIN old : k \notin short /\ st[k] = Cleared(old)[k]
    <2> SUFFICES ASSUME NEW k \in DOMAIN old
                 PROVE  k \notin newest
      BY <1>1, <1>7
    <2>1. k \in Nat /\ k < base + lo
      BY DEF AreStores
    <2> QED
      BY <2>1 DEF newest
  <1>10. \A i \in lo .. j - 1 : base + i \notin newest => ~IsReference(st[base + i])
    BY <1>1, <1>7
  <1>11. References(st) = newest \cup {k \in DOMAIN old : IsReference(Cleared(old)[k])}
    <2>1. newest \subseteq References(st)
      <3>1. newest \subseteq DOMAIN st
        BY <1>7 DEF short, Holders
      <3> QED
        BY <1>2, <1>8, <3>1 DEF References
    <2>2. {k \in DOMAIN old : IsReference(Cleared(old)[k])} \subseteq References(st)
      BY <1>1, <1>9 DEF References
    <2>3. ASSUME NEW k \in References(st)
          PROVE  k \in newest \/ (k \in DOMAIN old /\ IsReference(Cleared(old)[k]))
      <3>1. k \in DOMAIN st /\ IsReference(st[k])
        BY DEF References
      <3>2. k \in DOMAIN old \/ \E i \in lo .. j - 1 : k = base + i
        BY <1>1, <3>1
      <3> QED
        BY <1>9, <1>10, <3>1, <3>2
    <2> QED
      BY <2>1, <2>2, <2>3
  <1> QED
    BY <1>2, <1>8, <1>9, <1>11 DEF KeysOf, Lasting

-----------------------------------------------------------------------------
(* The counts over the gap *)

\* What the offset of an inferred frame is.
InferredOffset(q, sps, n) ==
    IF sps.pocType = 0 THEN 0
    ELSE IF q.prevFrameNum > n THEN q.prevFrameNumOffset + sps.maxFrameNum
    ELSE q.prevFrameNumOffset

\* The offset an inferred frame is counted with, which fits where it is used.
LEMMA OffsetOf ==
    ASSUME NEW q, NEW sps, NEW n, DeriveNonExisting(q, sps, n) # None
    PROVE  /\ DeriveNonExisting(q, sps, n).offset = InferredOffset(q, sps, n)
           /\ sps.pocType # 0 => Fits(InferredOffset(q, sps, n))
  <1> DEFINE h == NonExistingInput(n)
  <1>1. CASE sps.pocType = 0
    BY <1>1 DEF DeriveNonExisting, ZeroPoc, InferredOffset
  <1>2. CASE sps.pocType # 0
    <2>1. h.idr = FALSE /\ h.frameNum = n /\ h.structure = "Frame"
      BY DEF NonExistingInput
    <2>2. FrameNumOffset(q, sps, h) = InferredOffset(q, sps, n)
      BY <1>2, <2>1 DEF FrameNumOffset, InferredOffset
    <2>3. DeriveNonExisting(q, sps, n) = Derive(q, sps, h) /\ Derive(q, sps, h) # None
      BY <1>2 DEF DeriveNonExisting
    <2> HIDE DEF h
    <2>4. \A top, bottom, msb, offset, structure :
            Checked(top, bottom, msb, offset, structure) # None =>
              Checked(top, bottom, msb, offset, structure).offset = offset
      BY DEF Checked, WithStructure
    <2>5. CASE sps.pocType = 1
      <3>1. Type1(q, sps, h) # None /\ Derive(q, sps, h) = Type1(q, sps, h)
        BY <2>3, <2>5 DEF Derive
      <3>2. Fits(FrameNumOffset(q, sps, h)) /\ Type1(q, sps, h).offset = FrameNumOffset(q, sps, h)
        BY <2>4, <3>1, Zenon DEF Type1
      <3> QED
        BY <2>2, <2>3, <3>1, <3>2
    <2>6. CASE sps.pocType = 2
      <3>1. Type2(q, sps, h) # None /\ Derive(q, sps, h) = Type2(q, sps, h)
        BY <2>3, <2>6 DEF Derive
      <3>2. Fits(FrameNumOffset(q, sps, h)) /\ Type2(q, sps, h).offset = FrameNumOffset(q, sps, h)
        BY <2>4, <3>1, Zenon DEF Type2
      <3> QED
        BY <2>2, <2>3, <3>1, <3>2
    <2> QED
      BY <1>2, <2>3, <2>5, <2>6 DEF Derive
  <1> QED
    BY <1>1, <1>2

\* But for skipped frames of type 0, following is being equal.
LEMMA SamePoc ==
    ASSUME NEW p \in PocState, NEW q \in PocState, CountsFollow(p, q, FALSE)
    PROVE  p = q
  BY DEF PocState, CountsFollow

\* One frame on, inserted or skipped: the loop's state of the counts is the walk's.
LEMMA CountsStep ==
    ASSUME NEW p \in PocState, NEW q \in PocState, NEW sps \in SpsSet, NEW n \in Nat,
           NEW skipping \in BOOLEAN, skipping => sps.pocType = 0, CountsFollow(p, q, skipping),
           NEW c, c = DeriveNonExisting(q, sps, n), c # None
    PROVE  /\ c \in Poc
           /\ FinishNonExisting(q, n, c) \in PocState
           /\ DeriveNonExisting(p, sps, n) = c
           /\ FinishNonExisting(p, n, c) = FinishNonExisting(q, n, c)
           /\ CountsFollow(SkipNonExisting(p, sps, n), FinishNonExisting(q, n, c), sps.pocType = 0)
  <1>1. c \in Poc
    BY NonExistingPoc
  <1>2. c.offset \in PocRange
    BY <1>1 DEF Poc
  <1>3. FinishNonExisting(q, n, c) \in PocState /\ FinishNonExisting(p, n, c) = FinishNonExisting(q, n, c)
    BY <1>2 DEF FinishNonExisting, PocState, CountsFollow
  <1>4. DeriveNonExisting(p, sps, n) = c
    <2>1. CASE sps.pocType = 0
      BY <2>1 DEF DeriveNonExisting
    <2>2. CASE sps.pocType # 0
      <3>1. p = q
        BY <2>2, SamePoc
      <3> QED
        BY <3>1
    <2> QED
      BY <2>1, <2>2
  <1>5. CountsFollow(SkipNonExisting(p, sps, n), FinishNonExisting(q, n, c), sps.pocType = 0)
    <2> DEFINE sum == p.prevFrameNumOffset + sps.maxFrameNum
               s == SkipNonExisting(p, sps, n)
               f == FinishNonExisting(q, n, c)
    <2>1. /\ s.prevFrameNum = n /\ s.prevMsb = p.prevMsb /\ s.prevLsb = p.prevLsb
          /\ s.prevFrameNumOffset = IF p.prevFrameNum <= n THEN p.prevFrameNumOffset
                                    ELSE IF Fits(sum) THEN sum ELSE PocLimit - 1
      BY DEF SkipNonExisting, PocState
    <2>2. /\ f.prevFrameNum = n /\ f.prevMsb = q.prevMsb /\ f.prevLsb = q.prevLsb
          /\ f.prevFrameNumOffset = c.offset
      BY DEF FinishNonExisting, PocState
    <2>3. p.prevMsb = q.prevMsb /\ p.prevLsb = q.prevLsb
      BY DEF CountsFollow
    <2>4. ASSUME sps.pocType # 0
          PROVE  s.prevFrameNumOffset = f.prevFrameNumOffset
      <3>1. p = q
        BY <2>4, SamePoc
      <3>2. c.offset = InferredOffset(q, sps, n) /\ Fits(InferredOffset(q, sps, n))
        BY <2>4, OffsetOf
      <3>3. q.prevFrameNum \in Nat
        BY DEF PocState
      <3> HIDE DEF s, f
      <3> QED
        BY <2>1, <2>2, <2>4, <3>1, <3>2, <3>3 DEF InferredOffset
    <2> HIDE DEF s, f
    <2>5. CountsFollow(s, f, sps.pocType = 0)
      BY <2>1, <2>2, <2>3, <2>4 DEF CountsFollow
    <2> QED
      BY <2>5 DEF s, f
  <1> QED
    BY <1>1, <1>3, <1>4, <1>5

\* How far the gap reaches.
LEMMA Widths ==
    ASSUME NEW sps \in SpsSet, NEW frameNum \in Nat, NEW start, Entered(sps, frameNum, start)
    PROVE  LET width == Missing(sps, start.unused, frameNum)
               skip == Skipped(sps, start, frameNum)
               size == WindowSize(start.stores, sps)
           IN  /\ width \in Nat /\ width < sps.maxFrameNum
               /\ skip \in Nat /\ skip <= width
               /\ size \in Nat \ {0} /\ (skip > 0 => width - skip >= size)
               /\ \A i \in 0 .. width :
                    /\ FrameNumAt(sps, start.unused, i) \in Nat
                    /\ FrameNumAt(sps, start.unused, i) = frameNum => i = width
                    /\ i < width => (FrameNumAt(sps, start.unused, i) + 1) % sps.maxFrameNum
                                      = FrameNumAt(sps, start.unused, i + 1)
               /\ FrameNumAt(sps, start.unused, 0) = start.unused
               /\ FrameNumAt(sps, start.unused, width) = frameNum
  <1> DEFINE width == Missing(sps, start.unused, frameNum)
             skip == Skipped(sps, start, frameNum)
             size == WindowSize(start.stores, sps)
             m == sps.maxFrameNum
             u == start.unused
             cap == RefCap(sps)
             N(i) == FrameNumAt(sps, start.unused, i)
  <1>1. m \in Nat \ {0} /\ cap \in Nat \ {0}
    BY CapacityPositive
  <1>2. /\ u \in Nat /\ u < m /\ frameNum < m
        /\ IsFiniteSet(DOMAIN start.stores)
    BY DEF Entered
  <1> HIDE DEF m, u, cap
  <1>3. width = IF u <= frameNum THEN frameNum - u ELSE frameNum + m - u
    <2>1. width = (frameNum + m - u) % m
      BY DEF Missing, m, u
    <2> QED
      BY <1>1, <1>2, <2>1, Distance
  <1>4. \A i : N(i) = (u + i) % m
    BY DEF FrameNumAt, m, u
  <1>5. \A i \in Nat : i < m => N(i) = IF u + i < m THEN u + i ELSE u + i - m
    BY <1>1, <1>2, <1>4, ModSum
  <1>6. width \in Nat /\ width < m
    BY <1>1, <1>2, <1>3
  <1>7. skip = IF width > cap THEN width - cap ELSE 0
    BY DEF Skipped, cap
  <1>8. Cardinality(Holders(start.stores, "LongTerm")) \in Nat
    BY <1>2, Counted
  <1>9. size \in Nat \ {0} /\ size <= cap
    BY <1>1, <1>8 DEF WindowSize, cap
  <1>10. ASSUME NEW v \in Nat, v < m
         PROVE  (v + 1) % m = IF v + 1 < m THEN v + 1 ELSE 0
    <2>1. CASE v + 1 < m
      BY <1>1, <2>1
    <2>2. CASE v + 1 = m
      BY <1>1, <2>2
    <2> QED
      BY <1>1, <1>10, <2>1, <2>2
  <1> HIDE DEF width, skip, size, N
  <1>11. ASSUME NEW i \in 0 .. width
         PROVE  /\ N(i) \in Nat /\ N(i) < m
                /\ N(i) = frameNum => i = width
                /\ i < width => (N(i) + 1) % m = N(i + 1)
    <2>1. i \in Nat /\ i < m /\ N(i) = IF u + i < m THEN u + i ELSE u + i - m
      BY <1>1, <1>5, <1>6
    <2>2. N(i) \in Nat /\ N(i) < m /\ (N(i) = frameNum => i = width)
      BY <1>1, <1>2, <1>3, <2>1
    <2>3. ASSUME i < width
          PROVE  (N(i) + 1) % m = N(i + 1)
      <3>1. i + 1 \in Nat /\ i + 1 < m
        BY <1>1, <1>6, <2>1, <2>3
      <3>2. N(i + 1) = IF u + i + 1 < m THEN u + i + 1 ELSE u + i + 1 - m
        BY <1>1, <1>2, <1>5, <2>1, <3>1
      <3>3. (N(i) + 1) % m = IF N(i) + 1 < m THEN N(i) + 1 ELSE 0
        BY <1>10, <2>2
      <3> QED
        BY <1>1, <1>2, <2>1, <2>2, <3>1, <3>2, <3>3
    <2> QED
      BY <2>2, <2>3
  <1>12. N(0) = u /\ N(width) = frameNum
    <2>1. 0 \in Nat /\ 0 < m
      BY <1>1
    <2> QED
      BY <1>1, <1>2, <1>3, <1>5, <1>6, <2>1
  <1>13. skip \in Nat /\ skip <= width /\ (skip > 0 => width - skip >= size)
    BY <1>1, <1>6, <1>7, <1>9
  <1> QED
    BY <1>6, <1>9, <1>11, <1>12, <1>13 DEF width, skip, size, N, m, u

\* The stores with one more.
With(st, key, s) == [k \in DOMAIN st \cup {key} |-> IF k = key THEN s ELSE st[k]]

\* What one more frame adds to the stores, of the walk and of the loop.
LEMMA Fills ==
    ASSUME NEW sps \in SpsSet, NEW frameNum \in Nat, NEW start,
           Entered(sps, frameNum, start), Free(sps, frameNum, start),
           NEW i \in Nat, i < Missing(sps, start.unused, frameNum),
           NEW base \in Int, NEW lo \in Nat, lo <= i, base + lo = start.nextKey,
           NEW size, size = WindowSize(start.stores, sps),
           NEW frames, frames = InferredStores(sps, start),
           NEW n, n = FrameNumAt(sps, start.unused, i),
           NEW c, c = DeriveNonExisting(Walk(sps, start, i).poc, sps, n), c \in Poc,
           NEW st, Filled(st, start.stores, size, base, lo, i, frames),
           NEW slid, slid = SlidingWindow(st, sps, n, sps.maxFrameNum, None),
           NEW key, key = base + i,
           NEW next, next = With(slid, key, NonExistingStore(n, c))
    PROVE  Filled(next, start.stores, size, base, lo, i + 1, frames)
  <1> DEFINE m == sps.maxFrameNum
             u == start.unused
             old == start.stores
             width == Missing(sps, start.unused, frameNum)
  <1>1. /\ width \in Nat /\ width < m
        /\ n \in Nat
    BY Widths
  <1>2. /\ u \in Nat /\ u < m
        /\ AreStores(old) /\ IsFiniteSet(DOMAIN old)
        /\ start.nextKey \in Nat /\ \A k \in DOMAIN old : k < start.nextKey
    BY DEF Entered
  <1>3. \A k \in Holders(old, "ShortTerm") :
          /\ old[k].frameNum < m
          /\ \A x \in 0 .. i : old[k].frameNum # FrameNumAt(sps, u, x)
    <2>1. \A x \in 0 .. i : x \in 0 .. width - 1
      BY <1>1
    <2> QED
      BY <2>1 DEF Free
  <1>4. \A x \in 0 .. i : frames[x].frameNum = FrameNumAt(sps, u, x) /\ AllShort(frames[x])
    <2>1. \A x \in 0 .. i : x \in 0 .. m - 1
      BY <1>1, CapacityPositive
    <2> QED
      BY <2>1, InferredAre
  <1>5. frames[i] = NonExistingStore(n, c)
    <2>1. i \in 0 .. m - 1
      BY <1>1, CapacityPositive
    <2> QED
      BY <2>1, InferredAre
  <1>6. frames[i] \in FrameStore
    BY <1>1, <1>5, NonExistingStoreType
  <1>7. /\ base + lo \in Nat /\ \A k \in DOMAIN old : k < base + lo
        /\ i < m
        /\ \A x \in lo .. i : frames[x].frameNum = FrameNumAt(sps, u, x) /\ AllShort(frames[x])
    <2>1. i < m
      BY <1>1, CapacityPositive
    <2>2. \A x \in lo .. i : x \in 0 .. i
      OBVIOUS
    <2> QED
      BY <1>2, <1>4, <2>1, <2>2
  <1>8. n = FrameNumAt(sps, u, i) /\ size = WindowSize(old, sps) /\ Filled(st, old, size, base, lo, i, frames)
        /\ slid = SlidingWindow(st, sps, n, sps.maxFrameNum, None)
    OBVIOUS
  <1>9. /\ next \in [DOMAIN slid \cup {key} -> FrameStore]
        /\ next[key] = frames[i]
        /\ \A k \in DOMAIN slid : k # key => next[k] = slid[k]
    <2>1. AreStores(st)
      BY DEF Filled
    <2>2. AreStores(slid)
      BY <2>1, SlidingWindowUnmarks DEF Unmarks
    <2>3. \A k \in DOMAIN slid : slid[k] \in FrameStore
      BY <2>2, StoreParts
    <2> QED
      BY <1>5, <1>6, <2>3 DEF With
  <1>10. Fillable(sps, u, old, size, base, lo, i, frames)
    BY <1>2, <1>3, <1>6, <1>7, <1>8 DEF Fillable, m
  <1> QED
    BY <1>8, <1>9, <1>10, FilledStep

\* One more frame of the walk.
LEMMA WalkOn ==
    ASSUME NEW sps, NEW start, NEW i \in Nat,
           NEW walk, walk = Walk(sps, start, i),
           NEW on, on = Walk(sps, start, i + 1), on # None,
           NEW n, n = FrameNumAt(sps, start.unused, i),
           NEW c, c = DeriveNonExisting(walk.poc, sps, n),
           NEW slid, slid = SlidingWindow(walk.stores, sps, n, sps.maxFrameNum, None)
    PROVE  /\ walk # None /\ c # None
           /\ on.stores = With(slid, walk.nextKey, NonExistingStore(n, c))
           /\ on.poc = FinishNonExisting(walk.poc, n, c)
           /\ on.nextKey = walk.nextKey + 1
  <1>1. on = NextWalk(sps, start, walk, i + 1)
    BY WalkNext
  <1>2. (i + 1) - 1 = i
    OBVIOUS
  <1>3. on = IF walk = None THEN None ELSE Infer(sps, walk, n)
    BY <1>1, <1>2 DEF NextWalk
  <1>4. c = None => Infer(sps, walk, n) = None
    BY DEF Infer
  <1>5. ASSUME c # None
        PROVE  Infer(sps, walk, n) =
                    [stores |-> With(slid, walk.nextKey, NonExistingStore(n, c)),
                     poc |-> FinishNonExisting(walk.poc, n, c),
                     nextKey |-> walk.nextKey + 1]
    BY <1>5 DEF Infer, With
  <1> QED
    BY <1>3, <1>4, <1>5

-----------------------------------------------------------------------------
(* The loop beside the walk *)

\* Where the gap is entered.
LEMMA FollowsStart ==
    ASSUME NEW sps \in SpsSet, NEW frameNum \in Nat, NEW start,
           Entered(sps, frameNum, start),
           NEW loop, loop.unused = start.unused, loop.nextKey = start.nextKey,
           loop.poc = start.poc, loop.skip = Skipped(sps, start, frameNum),
           loop.stores = IF loop.skip > 0 THEN Cleared(start.stores) ELSE start.stores
    PROVE  Follows(sps, frameNum, start, 0, loop)
  <1> DEFINE width == Missing(sps, start.unused, frameNum)
             skip == Skipped(sps, start, frameNum)
             size == WindowSize(start.stores, sps)
             frames == InferredStores(sps, start)
             walk == Walk(sps, start, 0)
  <1>1. width \in Nat /\ skip \in Nat /\ FrameNumAt(sps, start.unused, 0) = start.unused
    BY Widths
  <1>2. walk.stores = start.stores /\ walk.poc = start.poc /\ walk.nextKey = start.nextKey
    BY WalkZero DEF Start
  <1>3. /\ AreStores(start.stores) /\ OnlyDecodedMarked(start.stores)
        /\ start.nextKey \in Nat /\ start.poc \in PocState
    BY DEF Entered
  <1>4. Filled(walk.stores, start.stores, size, start.nextKey, 0, 0, frames)
    BY <1>2, <1>3, NothingFilled
  <1>5. CountsFollow(loop.poc, walk.poc, 0 <= skip /\ sps.pocType = 0)
    BY <1>2 DEF CountsFollow
  <1> HIDE DEF skip, size, frames, walk, width
  <1>6. /\ 0 <= width
        /\ loop.unused = FrameNumAt(sps, start.unused, 0)
        /\ loop.skip = IF 0 < skip THEN skip - 0 ELSE 0
        /\ loop.nextKey = start.nextKey + (IF 0 > skip THEN 0 - skip ELSE 0)
        /\ skip > 0 /\ 0 <= skip => loop.stores = Cleared(start.stores)
        /\ ~(0 > skip)
    BY <1>1, <1>3 DEF skip
  <1>7. /\ walk.poc \in PocState /\ walk.nextKey = start.nextKey + 0
        /\ skip = 0 => loop.stores = walk.stores /\ loop.poc = walk.poc
    BY <1>1, <1>2, <1>3 DEF skip
  <1> QED
    BY <1>4, <1>5, <1>6, <1>7 DEF Follows, skip, size, frames, walk, width

\* What one frame does on the side of the walk.
LEMMA WalkFollows ==
    ASSUME NEW sps \in SpsSet, NEW frameNum \in Nat, NEW start,
           Entered(sps, frameNum, start), Free(sps, frameNum, start),
           NEW i \in Nat, i < Missing(sps, start.unused, frameNum),
           NEW loop, loop.poc \in PocState, Follows(sps, frameNum, start, i, loop),
           NEW n, n = FrameNumAt(sps, start.unused, i),
           NEW walk, walk = Walk(sps, start, i),
           NEW on, on = Walk(sps, start, i + 1), on # None,
           NEW c, c = DeriveNonExisting(walk.poc, sps, n),
           NEW slid, slid = SlidingWindow(walk.stores, sps, n, sps.maxFrameNum, None)
    PROVE  /\ walk # None /\ c # None /\ c \in Poc
           /\ on.stores = With(slid, walk.nextKey, NonExistingStore(n, c))
           /\ on.poc = FinishNonExisting(walk.poc, n, c)
           /\ on.nextKey = walk.nextKey + 1
           /\ on.poc \in PocState /\ on.nextKey = start.nextKey + (i + 1)
           /\ DeriveNonExisting(loop.poc, sps, n) = c
           /\ FinishNonExisting(loop.poc, n, c) = on.poc
           /\ CountsFollow(SkipNonExisting(loop.poc, sps, n), on.poc, sps.pocType = 0)
           /\ Skipped(sps, start, frameNum) > 0 =>
                Filled(on.stores, start.stores, WindowSize(start.stores, sps),
                       start.nextKey, 0, i + 1, InferredStores(sps, start))
  <1> DEFINE skip == Skipped(sps, start, frameNum)
             size == WindowSize(start.stores, sps)
             frames == InferredStores(sps, start)
             skipping == i <= skip /\ sps.pocType = 0
  <1>1. walk # None /\ c # None
    BY WalkOn
  <1>2. /\ walk.poc \in PocState /\ CountsFollow(loop.poc, walk.poc, skipping)
        /\ walk.nextKey = start.nextKey + i
        /\ skip > 0 => Filled(walk.stores, start.stores, size, start.nextKey, 0, i, frames)
    BY <1>1 DEF Follows
  <1>3. n \in Nat
    BY Widths
  <1>4. /\ on.stores = With(slid, walk.nextKey, NonExistingStore(n, c))
        /\ on.poc = FinishNonExisting(walk.poc, n, c)
        /\ on.nextKey = walk.nextKey + 1
    BY <1>1, WalkOn
  <1>5. skipping \in BOOLEAN /\ (skipping => sps.pocType = 0)
    OBVIOUS
  <1> HIDE DEF skipping
  <1>6. /\ c \in Poc
        /\ FinishNonExisting(walk.poc, n, c) \in PocState
        /\ DeriveNonExisting(loop.poc, sps, n) = c
        /\ FinishNonExisting(loop.poc, n, c) = FinishNonExisting(walk.poc, n, c)
        /\ CountsFollow(SkipNonExisting(loop.poc, sps, n), FinishNonExisting(walk.poc, n, c),
                        sps.pocType = 0)
    BY <1>1, <1>2, <1>3, <1>5, CountsStep
  <1>7. start.nextKey \in Nat
    BY DEF Entered
  <1>8. on.nextKey = start.nextKey + (i + 1)
    BY <1>2, <1>4, <1>7
  <1>9. ASSUME skip > 0
        PROVE  Filled(on.stores, start.stores, size, start.nextKey, 0, i + 1, frames)
    <2>1. Filled(walk.stores, start.stores, size, start.nextKey, 0, i, frames)
      BY <1>2, <1>9
    <2>2. start.nextKey \in Int /\ 0 \in Nat /\ 0 <= i /\ start.nextKey + 0 = start.nextKey
      BY <1>7
    <2> HIDE DEF size, frames
    <2> QED
      BY <1>2, <1>4, <1>6, <2>1, <2>2, Fills DEF size, frames
  <1> QED
    BY <1>1, <1>4, <1>6, <1>8, <1>9

\* A frame that is skipped.
LEMMA FollowsSkip ==
    ASSUME NEW sps \in SpsSet, NEW frameNum \in Nat, NEW start,
           Entered(sps, frameNum, start), Free(sps, frameNum, start), NEW i \in Nat,
           NEW loop, loop.poc \in PocState, Follows(sps, frameNum, start, i, loop), loop.skip > 0,
           NEW next,
           next.unused = (loop.unused + 1) % sps.maxFrameNum, next.skip = loop.skip - 1,
           next.nextKey = loop.nextKey, next.stores = loop.stores,
           next.poc = SkipNonExisting(loop.poc, sps, loop.unused)
    PROVE  Follows(sps, frameNum, start, i + 1, next)
  <1> DEFINE width == Missing(sps, start.unused, frameNum)
             skip == Skipped(sps, start, frameNum)
             size == WindowSize(start.stores, sps)
             frames == InferredStores(sps, start)
             walk == Walk(sps, start, i)
             on == Walk(sps, start, i + 1)
             n == FrameNumAt(sps, start.unused, i)
  <1>1. /\ i <= width /\ loop.unused = n
        /\ loop.skip = IF i < skip THEN skip - i ELSE 0
        /\ loop.nextKey = start.nextKey + (IF i > skip THEN i - skip ELSE 0)
        /\ skip > 0 /\ i <= skip => loop.stores = Cleared(start.stores)
    BY DEF Follows
  <1>2. /\ width \in Nat /\ skip \in Nat /\ skip <= width
        /\ i < width => (n + 1) % sps.maxFrameNum = FrameNumAt(sps, start.unused, i + 1)
    <2>1. i <= width => i \in 0 .. width
      BY Widths
    <2> QED
      BY <1>1, <2>1, Widths
  <1> HIDE DEF width, skip, size, frames, walk, on, n
  <1>3. i < skip /\ i < width /\ i + 1 <= width /\ i + 1 <= skip /\ skip > 0
    BY <1>1, <1>2
  <1>4. /\ next.unused = FrameNumAt(sps, start.unused, i + 1)
        /\ next.skip = IF i + 1 < skip THEN skip - (i + 1) ELSE 0
        /\ next.nextKey = start.nextKey + (IF i + 1 > skip THEN (i + 1) - skip ELSE 0)
        /\ next.stores = Cleared(start.stores)
    BY <1>1, <1>2, <1>3
  <1>5. ASSUME on # None
        PROVE  /\ on.poc \in PocState /\ on.nextKey = start.nextKey + (i + 1)
               /\ CountsFollow(next.poc, on.poc, i + 1 <= skip /\ sps.pocType = 0)
               /\ Filled(on.stores, start.stores, size, start.nextKey, 0, i + 1, frames)
    <2> DEFINE c == DeriveNonExisting(walk.poc, sps, n)
               slid == SlidingWindow(walk.stores, sps, n, sps.maxFrameNum, None)
    <2>1. /\ on.stores = With(slid, walk.nextKey, NonExistingStore(n, c))
          /\ on.poc \in PocState /\ on.nextKey = start.nextKey + (i + 1)
          /\ CountsFollow(SkipNonExisting(loop.poc, sps, n), on.poc, sps.pocType = 0)
          /\ skip > 0 => Filled(on.stores, start.stores, size, start.nextKey, 0, i + 1, frames)
      BY <1>3, <1>5, WalkFollows DEF width, skip, size, frames, on, n, walk
    <2>2. next.poc = SkipNonExisting(loop.poc, sps, n)
      BY <1>1
    <2>3. (i + 1 <= skip /\ sps.pocType = 0) = (sps.pocType = 0)
      BY <1>3
    <2> QED
      BY <1>3, <2>1, <2>2, <2>3
  <1>6. ~(i + 1 > skip) /\ skip # 0
    BY <1>2, <1>3
  <1> QED
    BY <1>3, <1>4, <1>5, <1>6 DEF Follows, width, skip, size, frames, on

\* Past the frames that are skipped.
LEMMA FollowsPast ==
    ASSUME NEW sps, NEW frameNum, NEW start, NEW i, NEW loop,
           NEW skip, skip = Skipped(sps, start, frameNum), i > skip, ~(i <= skip), ~(i < skip),
           NEW size, size = WindowSize(start.stores, sps),
           NEW frames, frames = InferredStores(sps, start),
           NEW walk, walk = Walk(sps, start, i),
           i <= Missing(sps, start.unused, frameNum),
           loop.unused = FrameNumAt(sps, start.unused, i), loop.skip = 0,
           loop.nextKey = start.nextKey + (i - skip),
           walk # None =>
             /\ walk.poc \in PocState /\ CountsFollow(loop.poc, walk.poc, FALSE)
             /\ walk.nextKey = start.nextKey + i
             /\ skip = 0 => loop.stores = walk.stores /\ loop.poc = walk.poc
             /\ skip > 0 => Filled(walk.stores, start.stores, size, start.nextKey, 0, i, frames)
             /\ skip > 0 => Filled(loop.stores, start.stores, size, start.nextKey - skip, skip, i, frames)
    PROVE  Follows(sps, frameNum, start, i, loop)
  <1>1. (i <= skip /\ sps.pocType = 0) = FALSE
    OBVIOUS
  <1> QED
    BY <1>1, Zenon DEF Follows

\* A frame that is inserted.
LEMMA FollowsFill ==
    ASSUME NEW sps \in SpsSet, NEW frameNum \in Nat, NEW start,
           Entered(sps, frameNum, start), Free(sps, frameNum, start), NEW i \in Nat,
           NEW loop, loop.poc \in PocState, Follows(sps, frameNum, start, i, loop),
           loop.skip = 0, loop.unused # frameNum,
           NEW slid, slid = SlidingWindow(loop.stores, sps, loop.unused, sps.maxFrameNum, None),
           NEW counts, counts = DeriveNonExisting(loop.poc, sps, loop.unused),
           NEW next,
           next.unused = (loop.unused + 1) % sps.maxFrameNum, next.skip = 0,
           next.nextKey = loop.nextKey + 1,
           next.stores = With(slid, loop.nextKey, NonExistingStore(loop.unused, counts)),
           next.poc = FinishNonExisting(loop.poc, loop.unused, counts)
    PROVE  Follows(sps, frameNum, start, i + 1, next)
  <1> DEFINE width == Missing(sps, start.unused, frameNum)
             skip == Skipped(sps, start, frameNum)
             size == WindowSize(start.stores, sps)
             frames == InferredStores(sps, start)
             walk == Walk(sps, start, i)
             on == Walk(sps, start, i + 1)
             n == FrameNumAt(sps, start.unused, i)
             base == start.nextKey - skip
  <1>1. /\ i <= width /\ loop.unused = n
        /\ loop.skip = IF i < skip THEN skip - i ELSE 0
        /\ loop.nextKey = start.nextKey + (IF i > skip THEN i - skip ELSE 0)
        /\ skip > 0 /\ i <= skip => loop.stores = Cleared(start.stores)
        /\ walk # None =>
             /\ walk.nextKey = start.nextKey + i
             /\ skip = 0 => loop.stores = walk.stores /\ loop.poc = walk.poc
             /\ skip > 0 /\ i > skip =>
                  Filled(loop.stores, start.stores, size, base, skip, i, frames)
    BY DEF Follows
  <1>2. /\ width \in Nat /\ skip \in Nat /\ skip <= width
        /\ i < width => (n + 1) % sps.maxFrameNum = FrameNumAt(sps, start.unused, i + 1)
        /\ n # frameNum => i # width
    <2>1. i <= width => i \in 0 .. width
      BY Widths
    <2>2. FrameNumAt(sps, start.unused, width) = frameNum
      BY Widths
    <2> QED
      BY <1>1, <2>1, <2>2, Widths
  <1>3. start.nextKey \in Nat /\ AreStores(start.stores) /\ OnlyDecodedMarked(start.stores)
    BY DEF Entered
  <1> HIDE DEF width, skip, size, frames, walk, on, n
  <1>4. i >= skip /\ i < width /\ i + 1 <= width /\ i + 1 > skip /\ ~(i + 1 <= skip)
    BY <1>1, <1>2
  <1>5. loop.nextKey = base + i
    BY <1>1, <1>2, <1>3, <1>4
  <1>6. /\ next.unused = FrameNumAt(sps, start.unused, i + 1)
        /\ next.skip = IF i + 1 < skip THEN skip - (i + 1) ELSE 0
        /\ next.nextKey = start.nextKey + (IF i + 1 > skip THEN (i + 1) - skip ELSE 0)
    BY <1>1, <1>2, <1>3, <1>4, <1>5
  <1>7. ASSUME on # None
        PROVE  /\ on.poc \in PocState /\ on.nextKey = start.nextKey + (i + 1)
               /\ CountsFollow(next.poc, on.poc, FALSE)
               /\ skip = 0 => next.stores = on.stores /\ next.poc = on.poc
               /\ skip > 0 =>
                    /\ Filled(on.stores, start.stores, size, start.nextKey, 0, i + 1, frames)
                    /\ Filled(next.stores, start.stores, size, base, skip, i + 1, frames)
    <2> DEFINE c == DeriveNonExisting(walk.poc, sps, n)
               slidW == SlidingWindow(walk.stores, sps, n, sps.maxFrameNum, None)
    <2>1. /\ walk # None /\ c \in Poc
          /\ on.stores = With(slidW, walk.nextKey, NonExistingStore(n, c))
          /\ on.poc \in PocState /\ on.nextKey = start.nextKey + (i + 1)
          /\ DeriveNonExisting(loop.poc, sps, n) = c
          /\ FinishNonExisting(loop.poc, n, c) = on.poc
          /\ skip > 0 => Filled(on.stores, start.stores, size, start.nextKey, 0, i + 1, frames)
      BY <1>4, <1>7, WalkFollows DEF width, skip, size, frames, on, n, walk
    <2>2. counts = c /\ next.poc = on.poc
      BY <1>1, <2>1
    <2>3. CountsFollow(next.poc, on.poc, FALSE)
      BY <2>2 DEF CountsFollow
    <2>4. ASSUME skip = 0
          PROVE  next.stores = on.stores
      <3>1. loop.stores = walk.stores /\ loop.nextKey = walk.nextKey
        BY <1>1, <1>3, <1>5, <2>1, <2>4
      <3>2. slid = slidW
        BY <1>1, <3>1
      <3> HIDE DEF slidW, c
      <3> QED
        BY <1>1, <2>1, <2>2, <3>1, <3>2
    <2>5. ASSUME skip > 0
          PROVE  Filled(next.stores, start.stores, size, base, skip, i + 1, frames)
      <3>1. Filled(loop.stores, start.stores, size, base, skip, i, frames)
        <4>1. CASE i > skip
          BY <1>1, <2>1, <2>5, <4>1
        <4>2. CASE i = skip
          <5>1. loop.stores = Cleared(start.stores)
            BY <1>1, <1>2, <2>5, <4>2
          <5> QED
            BY <1>2, <1>3, <4>2, <5>1, NothingFilled
        <4> QED
          BY <1>2, <1>4, <4>1, <4>2
      <3>2. base \in Int /\ skip <= i /\ base + skip = start.nextKey
        BY <1>2, <1>3, <1>4
      <3>3. next.stores = With(slid, loop.nextKey, NonExistingStore(n, c))
        BY <1>1, <2>2
      <3>4. slid = SlidingWindow(loop.stores, sps, n, sps.maxFrameNum, None)
        BY <1>1
      <3> HIDE DEF base, c
      <3> QED
        BY <1>2, <1>4, <1>5, <2>1, <3>1, <3>2, <3>3, <3>4, Fills
           DEF size, frames, n, width, walk, c
    <2> QED
      BY <2>1, <2>2, <2>3, <2>4, <2>5
  <1>8. on # None =>
             /\ on.poc \in PocState
             /\ CountsFollow(next.poc, on.poc, FALSE)
             /\ on.nextKey = start.nextKey + (i + 1)
             /\ skip = 0 => next.stores = on.stores /\ next.poc = on.poc
             /\ skip > 0 => Filled(on.stores, start.stores, size, start.nextKey, 0, i + 1, frames)
             /\ skip > 0 => Filled(next.stores, start.stores, size, base, skip, i + 1, frames)
    <2> HIDE DEF base
    <2> QED
      BY <1>7
  <1>9. /\ i + 1 > skip /\ ~(i + 1 <= skip) /\ ~(i + 1 < skip) /\ i + 1 <= width
        /\ next.nextKey = start.nextKey + ((i + 1) - skip)
    BY <1>2, <1>4, <1>6
  <1> DEFINE j == i + 1
  <1>10. /\ skip = Skipped(sps, start, frameNum) /\ j > skip /\ ~(j <= skip) /\ ~(j < skip)
         /\ size = WindowSize(start.stores, sps)
         /\ frames = InferredStores(sps, start)
         /\ on = Walk(sps, start, j)
         /\ j <= Missing(sps, start.unused, frameNum)
         /\ next.unused = FrameNumAt(sps, start.unused, j)
         /\ next.skip = 0
         /\ next.nextKey = start.nextKey + (j - skip)
    <2>1. j > skip /\ ~(j <= skip) /\ ~(j < skip) /\ j <= width /\ next.skip = 0
      BY <1>9
    <2>2. next.unused = FrameNumAt(sps, start.unused, j)
      BY <1>6
    <2>3. next.nextKey = start.nextKey + (j - skip)
      BY <1>9
    <2>4. on = Walk(sps, start, j)
      BY DEF on
    <2> HIDE DEF j
    <2> QED
      BY <2>1, <2>2, <2>3, <2>4 DEF width, skip, size, frames
  <1>11. on # None =>
             /\ on.poc \in PocState
             /\ CountsFollow(next.poc, on.poc, FALSE)
             /\ on.nextKey = start.nextKey + j
             /\ skip = 0 => next.stores = on.stores /\ next.poc = on.poc
             /\ skip > 0 => Filled(on.stores, start.stores, size, start.nextKey, 0, j, frames)
             /\ skip > 0 => Filled(next.stores, start.stores, size, start.nextKey - skip, skip, j, frames)
    BY <1>8
  <1> HIDE DEF j, base
  <1>12. Follows(sps, frameNum, start, j, next)
    BY <1>10, <1>11, FollowsPast, Zenon
  <1> QED
    BY <1>12 DEF j

\* The key the walk gives a picture that has this one in the loop.
Shifted(k, nk, shift) == IF k < nk THEN k ELSE k + shift

\* At the end of the gap the loop has what the walk has.
LEMMA FollowsEnd ==
    ASSUME NEW sps \in SpsSet, NEW frameNum \in Nat, NEW start, Entered(sps, frameNum, start),
           NEW i \in 0 .. Missing(sps, start.unused, frameNum),
           NEW loop, loop.poc \in PocState, AreStores(loop.stores),
           Follows(sps, frameNum, start, i, loop), loop.skip = 0, loop.unused = frameNum,
           NEW walk, walk = Walk(sps, start, Missing(sps, start.unused, frameNum)), walk # None,
           NEW nk, nk = start.nextKey, NEW shift, shift = walk.nextKey - loop.nextKey
    PROVE  /\ \A x : x \in References(walk.stores) <=>
                       \E k \in References(loop.stores) : x = Shifted(k, nk, shift)
           /\ \A k \in References(loop.stores) :
                 loop.stores[k] = walk.stores[Shifted(k, nk, shift)]
           /\ loop.poc = walk.poc
  <1> DEFINE width == Missing(sps, start.unused, frameNum)
             skip == Skipped(sps, start, frameNum)
             size == WindowSize(start.stores, sps)
             frames == InferredStores(sps, start)
             old == start.stores
             AsWalked(k) == Shifted(k, nk, shift)
  <1>0. FrameNumAt(sps, start.unused, i) = frameNum => i = width
    BY Widths
  <1>1. /\ width \in Nat /\ width < sps.maxFrameNum /\ skip \in Nat /\ skip <= width
        /\ size \in Nat \ {0} /\ (skip > 0 => width - skip >= size)
    BY Widths
  <1>2. nk \in Nat /\ AreStores(old) /\ \A k \in DOMAIN old : k < nk
    BY DEF Entered
  <1>3. /\ loop.unused = FrameNumAt(sps, start.unused, i)
        /\ loop.nextKey = nk + (IF i > skip THEN i - skip ELSE 0)
    BY DEF Follows
  <1>4. i = width
    BY <1>0, <1>3
  <1>5. /\ walk.poc \in PocState /\ CountsFollow(loop.poc, walk.poc, i <= skip /\ sps.pocType = 0)
        /\ walk.nextKey = nk + width
        /\ skip = 0 => loop.stores = walk.stores /\ loop.poc = walk.poc
        /\ skip > 0 => Filled(walk.stores, old, size, nk, 0, width, frames)
        /\ skip > 0 /\ width > skip =>
              Filled(loop.stores, old, size, nk - skip, skip, width, frames)
    BY <1>4 DEF Follows
  <1>6. \A x \in 0 .. width - 1 : AllShort(frames[x])
    <2>1. \A x \in 0 .. width - 1 : x \in 0 .. sps.maxFrameNum - 1
      BY <1>1, CapacityPositive
    <2> QED
      BY <2>1, InferredAre
  <1> HIDE DEF width, skip, size, frames, old
  <1>7. CASE skip = 0
    <2>1. walk.nextKey = loop.nextKey
      BY <1>1, <1>2, <1>3, <1>4, <1>5, <1>7
    <2>2. loop.stores = walk.stores /\ loop.poc = walk.poc
      BY <1>5, <1>7
    <2>3. ASSUME NEW k \in References(loop.stores)
          PROVE  AsWalked(k) = k
      <3>1. k \in Nat
        BY DEF References, AreStores
      <3>2. walk.nextKey - loop.nextKey = 0
        BY <1>2, <1>5, <2>1, <1>1
      <3> QED
        BY <3>1, <3>2 DEF Shifted
    <2> QED
      BY <2>2, <2>3
  <1>8. CASE skip > 0
    <2> DEFINE shared == Lasting(old)
               base == nk - skip
               newest == width - size .. width - 1
    <2>1. /\ width > skip /\ base \in Int /\ base + skip = nk /\ width - skip >= size /\ width - 0 >= size
          /\ nk + 0 = nk /\ 0 \in Nat /\ nk \in Int
      BY <1>1, <1>2, <1>8
    <2>2. /\ References(walk.stores) = KeysOf(nk, width - size, width - 1) \cup shared
          /\ \A x \in newest : walk.stores[nk + x] = frames[x]
          /\ \A k \in DOMAIN old : walk.stores[k] = Cleared(old)[k]
      <3>1. Filled(walk.stores, old, size, nk, 0, width, frames)
        BY <1>5, <1>8
      <3>2. \A k \in DOMAIN old : k < nk + 0
        BY <1>2, <2>1
      <3>3. FilledEnough(old, size, nk, 0, width, frames)
        BY <1>1, <1>2, <1>6, <2>1, <3>2 DEF FilledEnough
      <3> QED
        BY <3>1, <3>3, FilledUp
    <2>3. /\ References(loop.stores) = KeysOf(base, width - size, width - 1) \cup shared
          /\ \A x \in newest : loop.stores[base + x] = frames[x]
          /\ \A k \in DOMAIN old : loop.stores[k] = Cleared(old)[k]
      <3>1. Filled(loop.stores, old, size, base, skip, width, frames)
        BY <1>5, <1>8, <2>1
      <3>2. \A x \in skip .. width - 1 : AllShort(frames[x])
        <4>1. \A x \in skip .. width - 1 : x \in 0 .. width - 1
          BY <1>1
        <4> QED
          BY <1>6, <4>1
      <3>3. \A k \in DOMAIN old : k < base + skip
        BY <1>2, <2>1
      <3>4. FilledEnough(old, size, base, skip, width, frames)
        BY <1>1, <1>2, <2>1, <3>2, <3>3 DEF FilledEnough
      <3> HIDE DEF base
      <3> QED
        BY <3>1, <3>4, FilledUp
    <2>4. walk.nextKey - loop.nextKey = skip
      BY <1>1, <1>2, <1>3, <1>4, <1>5, <2>1
    <2>5. \A x \in newest : AsWalked(base + x) = nk + x
      <3> SUFFICES ASSUME NEW x \in newest
                   PROVE  AsWalked(base + x) = nk + x
        OBVIOUS
      <3>1. x \in Int /\ x >= skip
        BY <1>1, <2>1
      <3>2. ~(base + x < nk) /\ base + x + skip = nk + x
        BY <1>1, <1>2, <3>1
      <3> QED
        BY <2>4, <3>2 DEF Shifted
    <2>6. \A k \in shared : AsWalked(k) = k
      BY <1>2 DEF Shifted, Lasting
    <2>61. /\ KeysOf(nk, width - size, width - 1) = {nk + x : x \in newest}
           /\ KeysOf(base, width - size, width - 1) = {base + x : x \in newest}
      BY DEF KeysOf
    <2> HIDE DEF shared, base, newest, AsWalked
    <2>7. \A x : x \in References(walk.stores) <=> \E k \in References(loop.stores) : x = AsWalked(k)
      BY <2>2, <2>3, <2>5, <2>6, <2>61
    <2>8. \A k \in References(loop.stores) : loop.stores[k] = walk.stores[AsWalked(k)]
      <3>1. \A x \in newest : loop.stores[base + x] = walk.stores[AsWalked(base + x)]
        BY <2>2, <2>3, <2>5
      <3>2. \A k \in shared : loop.stores[k] = walk.stores[AsWalked(k)]
        BY <2>2, <2>3, <2>6 DEF shared, Lasting
      <3> QED
        BY <2>3, <2>61, <3>1, <3>2
    <2>9. loop.poc = walk.poc
      <3>1. (i <= skip /\ sps.pocType = 0) = FALSE
        BY <1>1, <1>4, <2>1
      <3>2. CountsFollow(loop.poc, walk.poc, FALSE)
        BY <1>5, <3>1
      <3> QED
        BY <1>5, <3>2, SamePoc
    <2> QED
      BY <2>7, <2>8, <2>9 DEF AsWalked
  <1> QED
    BY <1>1, <1>7, <1>8

\* What the loop works with, here.
Loop == [unused |-> gap.unused, skip |-> gap.skip, nextKey |-> nextKey,
         stores |-> stores, poc |-> poc]

\* What the loop reads has its types.
LEMMA LoopParts ==
    ASSUME IInv
    PROVE  /\ AreStores(stores) /\ IsFiniteSet(DOMAIN stores)
           /\ poc \in PocState /\ nextKey \in Nat
           /\ \A k \in DOMAIN stores : k < nextKey
           /\ gap # None => /\ gap \in GapLoop /\ gap.sps \in SpsSet /\ gap.header \in Headers
                            /\ gap.header.frameNum \in Nat
                            /\ gap.unused \in Nat /\ gap.skip \in Nat
  <1>1. gap # None => gap \in GapLoop
    BY DEF IInv, TypeOK
  <1> QED
    BY <1>1, StoresFinite, HeaderParts DEF IInv, TypeOK, KeysInv, GapLoop

\* The invariant gives the property where the loop has ended.
LEMMA GapInvEnd ==
    ASSUME IInv, GapInv
    PROVE  ShortcutEqualsWalk
  <1> SUFFICES ASSUME gap # None, gap.skip = 0, gap.unused = gap.header.frameNum,
                      NEW walk,
                      walk = Walk(gap.sps, entry, Missing(gap.sps, entry.unused, gap.header.frameNum)),
                      walk # None
               PROVE  LET AsWalked(k) == IF k < entry.nextKey THEN k ELSE k + (walk.nextKey - nextKey)
                      IN  /\ References(walk.stores) = {AsWalked(k) : k \in References(stores)}
                          /\ \A k \in References(stores) : stores[k] = walk.stores[AsWalked(k)]
                          /\ poc = walk.poc
    BY DEF ShortcutEqualsWalk
  <1> DEFINE loop == Loop
             nk == entry.nextKey
             shift == walk.nextKey - loop.nextKey
             AsWalked(k) == IF k < entry.nextKey THEN k ELSE k + (walk.nextKey - nextKey)
  <1>1. /\ loop.unused = gap.unused /\ loop.skip = gap.skip /\ loop.nextKey = nextKey
        /\ loop.stores = stores /\ loop.poc = poc
    BY DEF Loop
  <1>2. /\ gap.sps \in SpsSet /\ gap.header.frameNum \in Nat
        /\ AreStores(stores) /\ poc \in PocState
    BY LoopParts
  <1>3. Entered(gap.sps, gap.header.frameNum, entry)
    BY DEF GapInv
  <1>4. PICK i \in 0 .. Missing(gap.sps, entry.unused, gap.header.frameNum) :
               Follows(gap.sps, gap.header.frameNum, entry, i, loop)
    BY DEF GapInv, GapFollows, Loop
  <1> DEFINE sps == gap.sps
             frameNum == gap.header.frameNum
  <1>5. \A k : AsWalked(k) = Shifted(k, nk, shift)
    BY <1>1 DEF Shifted
  <1>6. /\ sps \in SpsSet /\ frameNum \in Nat /\ Entered(sps, frameNum, entry)
        /\ i \in 0 .. Missing(sps, entry.unused, frameNum)
        /\ loop.poc \in PocState /\ AreStores(loop.stores)
        /\ Follows(sps, frameNum, entry, i, loop) /\ loop.skip = 0 /\ loop.unused = frameNum
        /\ walk = Walk(sps, entry, Missing(sps, entry.unused, frameNum))
    BY <1>1, <1>2, <1>3, <1>4
  <1>8. nk = entry.nextKey /\ shift = walk.nextKey - loop.nextKey
    OBVIOUS
  <1> HIDE DEF loop, AsWalked, sps, frameNum, nk, shift
  <1>7. /\ \A x : x \in References(walk.stores) <=>
                    \E k \in References(loop.stores) : x = Shifted(k, nk, shift)
        /\ \A k \in References(loop.stores) : loop.stores[k] = walk.stores[Shifted(k, nk, shift)]
        /\ loop.poc = walk.poc
    BY <1>6, <1>8, FollowsEnd
  <1>9. References(walk.stores) = {AsWalked(k) : k \in References(stores)}
    BY <1>1, <1>5, <1>7
  <1> QED
    BY <1>1, <1>5, <1>7, <1>9 DEF AsWalked

-----------------------------------------------------------------------------
(* The steps of the loop *)

\* The invariant of the loop, once the entry is what it was.
InLoop(sps, frameNum, start, loop) ==
    /\ Entered(sps, frameNum, start)
    /\ \E i \in 0 .. Missing(sps, start.unused, frameNum) : Follows(sps, frameNum, start, i, loop)

\* The invariant of the gap in the words of the loop.
LEMMA InLoopIs ==
    GapInv <=> /\ OnlyDecodedMarked(stores)
               /\ gap # None => InLoop(gap.sps, gap.header.frameNum, entry, Loop)
  BY DEF GapInv, InLoop, GapFollows, Loop

\* One frame more keeps the invariant.
LEMMA InLoopOn ==
    ASSUME NEW sps \in SpsSet, NEW frameNum \in Nat, NEW start, Entered(sps, frameNum, start),
           NEW i \in Nat, NEW loop, Follows(sps, frameNum, start, i + 1, loop)
    PROVE  InLoop(sps, frameNum, start, loop)
  <1>1. i + 1 <= Missing(sps, start.unused, frameNum)
    BY DEF Follows
  <1>2. Missing(sps, start.unused, frameNum) \in Nat
    BY Widths
  <1>3. i + 1 \in 0 .. Missing(sps, start.unused, frameNum)
    BY <1>1, <1>2
  <1> QED
    BY <1>3 DEF InLoop

\* begin_picture enters the gap with the invariant (dpb.rs:386-400).
LEMMA BeginWithGapInLoop ==
    ASSUME IInv, OnlyDecodedMarked(stores), RecordEntry,
           NEW sps \in SpsSet, NEW h \in Headers, BeginWithGap(sps, h), gap' # None
    PROVE  InLoop(gap'.sps, gap'.header.frameNum, entry', Loop')
  <1> DEFINE m == sps.maxFrameNum
             unused == (prevRefFrameNum + 1) % m
             missing == (h.frameNum + m - unused) % m
             wide == missing > RefCap(sps)
             start == entry'
             loop == Loop'
             frameNum == h.frameNum
  <1>1. /\ gap = None
        /\ h.frameNum < m
        /\ stores' = IF wide THEN Unmark(stores, FieldsMarked(stores, "ShortTerm")) ELSE stores
        /\ gap' = [sps |-> sps, header |-> h,
                   abandonedFirstField |-> AbandonedFirstField(h),
                   unused |-> unused,
                   skip |-> IF wide THEN missing - RefCap(sps) ELSE 0,
                   nonExisting |-> {}]
        /\ poc' = poc /\ nextKey' = nextKey
    BY DEF BeginWithGap, Idle, ParsedAgainst
  <1>2. /\ m \in Nat \ {0} /\ RefCap(sps) \in Nat \ {0} /\ frameNum \in Nat /\ prevRefFrameNum \in Nat
    BY CapacityPositive, HeaderParts DEF IInv, TypeOK
  <1>3. unused \in Nat /\ unused < m
    BY <1>2
  <1> HIDE DEF unused
  <1>4. /\ gap'.sps = sps /\ gap'.header = h /\ gap'.unused = unused
        /\ gap'.skip = IF wide THEN missing - RefCap(sps) ELSE 0
    BY <1>1
  <1>5. start = [stores |-> stores, poc |-> poc, unused |-> gap'.unused, nextKey |-> nextKey]
    BY <1>1 DEF RecordEntry
  <1>6. /\ start.stores = stores /\ start.poc = poc /\ start.unused = unused
        /\ start.nextKey = nextKey
    BY <1>4, <1>5
  <1>7. /\ loop.unused = gap'.unused /\ loop.skip = gap'.skip /\ loop.nextKey = nextKey'
        /\ loop.stores = stores' /\ loop.poc = poc'
    BY DEF Loop
  <1> HIDE DEF start, loop
  <1>8. Entered(sps, frameNum, start)
    BY <1>1, <1>3, <1>6, LoopParts DEF Entered
  <1>9. missing = Missing(sps, start.unused, frameNum)
    BY <1>6 DEF Missing
  <1> HIDE DEF missing
  <1>10. missing \in Nat
    <2>1. Missing(sps, start.unused, h.frameNum) \in Nat
      BY <1>8, <1>2, Widths
    <2> QED
      BY <2>1, <1>9
  <1>11. loop.skip = Skipped(sps, start, frameNum)
    BY <1>4, <1>7, <1>9 DEF Skipped
  <1>12. loop.skip > 0 <=> wide
    BY <1>2, <1>4, <1>7, <1>10
  <1>13. loop.stores = IF loop.skip > 0 THEN Cleared(start.stores) ELSE start.stores
    BY <1>1, <1>6, <1>7, <1>12 DEF Cleared
  <1>14. loop.unused = start.unused /\ loop.nextKey = start.nextKey /\ loop.poc = start.poc
    BY <1>1, <1>4, <1>6, <1>7
  <1> HIDE DEF wide
  <1>15. Follows(sps, frameNum, start, 0, loop)
    BY <1>2, <1>8, <1>11, <1>13, <1>14, FollowsStart
  <1>16. 0 \in 0 .. Missing(sps, start.unused, frameNum)
    BY <1>9, <1>10
  <1>17. InLoop(sps, frameNum, start, loop)
    BY <1>8, <1>15, <1>16 DEF InLoop
  <1> QED
    BY <1>4, <1>17 DEF start, loop

\* A skipped frame keeps it.
LEMMA SkipFrameInLoop ==
    ASSUME IInv, GapInv, NumbersFree, RecordEntry, SkipFrame, gap' # None
    PROVE  InLoop(gap'.sps, gap'.header.frameNum, entry', Loop')
  <1> DEFINE sps == gap.sps
             frameNum == gap.header.frameNum
             start == entry
             loop == Loop
             next == Loop'
  <1>1. /\ gap # None /\ gap.skip > 0
        /\ poc' = SkipNonExisting(poc, gap.sps, gap.unused)
        /\ gap' = [gap EXCEPT !.unused = (@ + 1) % gap.sps.maxFrameNum, !.skip = @ - 1]
        /\ stores' = stores /\ nextKey' = nextKey
    BY DEF SkipFrame
  <1>2. /\ gap \in GapLoop /\ sps \in SpsSet /\ frameNum \in Nat /\ poc \in PocState
    BY <1>1, LoopParts
  <1>3. /\ gap'.sps = sps /\ gap'.header = gap.header
        /\ gap'.unused = (gap.unused + 1) % sps.maxFrameNum /\ gap'.skip = gap.skip - 1
    BY <1>1, <1>2 DEF GapLoop
  <1>4. entry' = start
    BY <1>1 DEF RecordEntry
  <1>5. /\ loop.unused = gap.unused /\ loop.skip = gap.skip /\ loop.nextKey = nextKey
        /\ loop.stores = stores /\ loop.poc = poc
        /\ next.unused = gap'.unused /\ next.skip = gap'.skip /\ next.nextKey = nextKey'
        /\ next.stores = stores' /\ next.poc = poc'
    BY DEF Loop
  <1>6. Entered(sps, frameNum, start) /\ Free(sps, frameNum, start)
    BY <1>1, InLoopIs DEF InLoop, NumbersFree
  <1>7. PICK i \in 0 .. Missing(sps, start.unused, frameNum) : Follows(sps, frameNum, start, i, loop)
    BY <1>1, InLoopIs DEF InLoop
  <1> HIDE DEF sps, frameNum, start, loop, next
  <1>8. /\ next.unused = (loop.unused + 1) % sps.maxFrameNum /\ next.skip = loop.skip - 1
        /\ next.nextKey = loop.nextKey /\ next.stores = loop.stores
        /\ next.poc = SkipNonExisting(loop.poc, sps, loop.unused)
        /\ loop.poc \in PocState /\ loop.skip > 0
    BY <1>1, <1>2, <1>3, <1>5 DEF sps
  <1>9. i \in Nat
    OBVIOUS
  <1>10. Follows(sps, frameNum, start, i + 1, next)
    BY <1>2, <1>6, <1>7, <1>8, <1>9, FollowsSkip
  <1>11. InLoop(sps, frameNum, start, next)
    BY <1>2, <1>6, <1>9, <1>10, InLoopOn
  <1> QED
    BY <1>3, <1>4, <1>11 DEF next, frameNum

\* An inserted frame keeps it.
LEMMA FillFrameInLoop ==
    ASSUME IInv, GapInv, NumbersFree, RecordEntry, FillFrame, gap' # None
    PROVE  InLoop(gap'.sps, gap'.header.frameNum, entry', Loop')
  <1> DEFINE sps == gap.sps
             frameNum == gap.header.frameNum
             start == entry
             loop == Loop
             next == Loop'
             slid == SlidingWindow(stores, gap.sps, gap.unused, gap.sps.maxFrameNum, None)
             counts == DeriveNonExisting(poc, gap.sps, gap.unused)
  <1>1. /\ gap # None /\ gap.skip = 0 /\ gap.unused # gap.header.frameNum
        /\ stores' = With(slid, nextKey, NonExistingStore(gap.unused, counts))
        /\ poc' = FinishNonExisting(poc, gap.unused, counts)
        /\ nextKey' = nextKey + 1
        /\ gap' = [gap EXCEPT !.unused = (@ + 1) % gap.sps.maxFrameNum,
                              !.nonExisting = @ \cup {nextKey}]
    BY DEF FillFrame, With
  <1>2. /\ gap \in GapLoop /\ sps \in SpsSet /\ frameNum \in Nat /\ poc \in PocState
    BY <1>1, LoopParts
  <1>3. /\ gap'.sps = sps /\ gap'.header = gap.header
        /\ gap'.unused = (gap.unused + 1) % sps.maxFrameNum /\ gap'.skip = gap.skip
    BY <1>1, <1>2 DEF GapLoop
  <1>4. entry' = start
    BY <1>1 DEF RecordEntry
  <1>5. /\ loop.unused = gap.unused /\ loop.skip = gap.skip /\ loop.nextKey = nextKey
        /\ loop.stores = stores /\ loop.poc = poc
        /\ next.unused = gap'.unused /\ next.skip = gap'.skip /\ next.nextKey = nextKey'
        /\ next.stores = stores' /\ next.poc = poc'
    BY DEF Loop
  <1>6. Entered(sps, frameNum, start) /\ Free(sps, frameNum, start)
    BY <1>1, InLoopIs DEF InLoop, NumbersFree
  <1>7. PICK i \in 0 .. Missing(sps, start.unused, frameNum) : Follows(sps, frameNum, start, i, loop)
    BY <1>1, InLoopIs DEF InLoop
  <1>12. /\ slid = SlidingWindow(loop.stores, sps, loop.unused, sps.maxFrameNum, None)
         /\ counts = DeriveNonExisting(loop.poc, sps, loop.unused)
    BY <1>5
  <1> HIDE DEF sps, frameNum, start, loop, next, slid, counts
  <1>8. /\ next.unused = (loop.unused + 1) % sps.maxFrameNum /\ next.skip = 0
        /\ next.nextKey = loop.nextKey + 1
        /\ next.stores = With(slid, loop.nextKey, NonExistingStore(loop.unused, counts))
        /\ next.poc = FinishNonExisting(loop.poc, loop.unused, counts)
        /\ loop.poc \in PocState /\ loop.skip = 0 /\ loop.unused # frameNum
    BY <1>1, <1>2, <1>3, <1>5 DEF sps, frameNum
  <1>9. i \in Nat
    OBVIOUS
  <1>10. Follows(sps, frameNum, start, i + 1, next)
    BY <1>2, <1>6, <1>7, <1>8, <1>9, <1>12, FollowsFill
  <1>11. InLoop(sps, frameNum, start, next)
    BY <1>2, <1>6, <1>9, <1>10, InLoopOn
  <1> QED
    BY <1>3, <1>4, <1>11 DEF next, frameNum

\* No other step leads into the loop or stays in it.
LEMMA LoopSteps ==
    ASSUME IInv, Next, gap' # None
    PROVE  \/ \E sps \in SpsSet, h \in Headers : BeginWithGap(sps, h)
           \/ SkipFrame \/ FillFrame
  <1>1. ASSUME gap = None, gap' = gap
        PROVE  FALSE
    BY <1>1
  <1>2. marking # None => gap = None
    BY DEF IInv, ControlInv
  <1>3. ASSUME NEW sps \in SpsSet, NEW h \in Headers, Begin(sps, h)
        PROVE  BeginWithGap(sps, h)
    BY <1>1, <1>3 DEF Begin, BeginPicture, BeginAfterLoss, Idle
  <1>4. ASSUME NEW sps \in SpsSet, Finish(sps)
        PROVE  FALSE
    BY <1>1, <1>4 DEF Finish, FinishNonReference, FinishIdr, FinishSliding, BeginMarking,
                      Complete, Idle
  <1>5. CASE Continue
    BY <1>1, <1>2, <1>5 DEF Continue, EndGap, MarkNext, EndMarking, Complete
  <1>6. CASE OutOfTurn \/ Clear
    BY <1>1, <1>6 DEF OutOfTurn, Clear, Idle
  <1> QED
    BY <1>3, <1>4, <1>5, <1>6 DEF Next

\* The invariant is inductive.
LEMMA GapInvStep == IInv /\ GapInv /\ NumbersFree /\ [ShortcutNext]_shortcutVars => GapInv'
  <1> SUFFICES ASSUME IInv, GapInv, NumbersFree, [ShortcutNext]_shortcutVars
               PROVE  GapInv'
    OBVIOUS
  <1>1. CASE UNCHANGED shortcutVars
    BY <1>1 DEF shortcutVars, vars, GapInv, GapFollows
  <1>2. CASE ShortcutNext
    <2>1. Next /\ RecordEntry
      BY <1>2 DEF ShortcutNext
    <2>2. OnlyDecodedMarked(stores) /\ OnlyDecodedMarked(stores')
      BY <2>1, CodedStep DEF GapInv
    <2>3. ASSUME gap' # None
          PROVE  InLoop(gap'.sps, gap'.header.frameNum, entry', Loop')
      <3>1. CASE SkipFrame
        BY <2>1, <2>3, <3>1, SkipFrameInLoop
      <3>2. CASE FillFrame
        BY <2>1, <2>3, <3>2, FillFrameInLoop
      <3>3. ASSUME NEW sps \in SpsSet, NEW h \in Headers, BeginWithGap(sps, h)
            PROVE  InLoop(gap'.sps, gap'.header.frameNum, entry', Loop')
        BY <2>1, <2>2, <2>3, <3>3, BeginWithGapInLoop
      <3> QED
        BY <2>1, <2>3, <3>1, <3>2, <3>3, LoopSteps
    <2> QED
      BY <2>2, <2>3 DEF GapInv, InLoop, GapFollows, Loop
  <1> QED
    BY <1>1, <1>2

\* In a stream in which no short-term picture has the number of a missing frame, the
\* shortcut over a gap leaves what the frame-by-frame inference leaves (begin_picture,
\* clause 8.2.5.2), however wide the gap and whatever the buffer held.
THEOREM ShortcutEqualsWalkAlways == ShortcutSpec /\ []NumbersFree => []ShortcutEqualsWalk
  <1>1. ShortcutInit => IInv /\ GapInv
    BY InitInv, NoStores DEF ShortcutInit, Init, GapInv, OnlyDecodedMarked
  <1>2. IInv /\ [ShortcutNext]_shortcutVars => IInv'
    BY NextInv DEF ShortcutNext, shortcutVars
  <1> QED
    BY <1>1, <1>2, GapInvStep, GapInvEnd, PTL DEF ShortcutSpec

=============================================================================
