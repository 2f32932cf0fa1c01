------------------------------- MODULE H264Dpb -------------------------------
(***************************************************************************)
(* The H.264 reference picture state of one stream: Dpb of                 *)
(* src/h264/dpb.rs, driven by its caller one call after another.           *)
(*                                                                         *)
(* begin_picture and finish_picture contain loops whose every iteration    *)
(* rewrites the stores and which can fail half way (gap filling) or run a  *)
(* list of commands (memory management).  Such a call is a sequence of     *)
(* steps here, one per iteration: gap # None or marking # None is its      *)
(* program counter, no other call can start before it has returned, and    *)
(* reply is what the last call returned.                                   *)
(***************************************************************************)
EXTENDS H264Marking

CONSTANTS
    SpsSet,     \* the sequence parameter sets the caller passes
    Headers,    \* the slice headers of the pictures' first slices
    MaxKey      \* bound: no picture begins once MaxKey keys are handed out

Sps == [maxNumRefFrames : Nat, gapsAllowed : BOOLEAN,
        maxFrameNum : Nat \ {0}, pocType : Nat, maxLsb : Nat \ {0},
        offsetsForRefFrame : Seq(Int), offsetForNonRefPic : Int,
        offsetTopToBottom : Int]

Header == [idr : BOOLEAN, reference : BOOLEAN, frameNum : Nat,
           structure : Structures, lsb : 0 .. PocLimit - 1, deltaBottom : Int,
           delta : Int \X Int, longTermReference : BOOLEAN,
           adaptive : BOOLEAN, mmco : Seq(MmcoOp)]

ASSUME InputsAssumption ==
    /\ SpsSet \subseteq Sps
    /\ Headers \subseteq Header
    \* the slice header parser rejects an IDR slice with nal_ref_idc 0
    /\ \A h \in Headers : h.idr => h.reference
    /\ MaxKey \in Nat

\* No picture, key or index is the absent value.
ASSUME NoneAssumption == None \notin Nat \cup Parities

VARIABLES
    stores,                 \* key -> frame store
    maxLongTermFrameIdx,    \* None: no long-term frame indices
    poc,                    \* PocState
    prevRefFrameNum,
    nextKey,
    pending,                \* the picture in progress, or None
    lastField,              \* a first field that may still be paired, or None
    releasedEarly,          \* keys released by gap filling
    gap,                    \* begin_picture inside its gap loop, or None
    marking,                \* finish_picture inside its command loop, or None
    reply                   \* what the last call returned

vars == <<stores, maxLongTermFrameIdx, poc, prevRefFrameNum, nextKey, pending,
          lastField, releasedEarly, gap, marking, reply>>

Init ==
    /\ stores = <<>>
    /\ maxLongTermFrameIdx = None
    /\ poc = InitPocState
    /\ prevRefFrameNum = 0
    /\ nextKey = 0
    /\ pending = None
    /\ lastField = None
    /\ releasedEarly = {}
    /\ gap = None
    /\ marking = None
    /\ reply = None

\* No call is running.
Idle == gap = None /\ marking = None

Failed == [result |-> "error"]

-----------------------------------------------------------------------------
(* begin_picture *)

HasMmco5(h) == \E i \in DOMAIN h.mmco : h.mmco[i].code = 5

\* The header was parsed against this sequence parameter set.
ParsedAgainst(sps, h) == h.frameNum < sps.maxFrameNum /\ h.lsb < sps.maxLsb

\* Mutant of Pairs: a field may follow one of its own parity.
PairsAnyParity(h) ==
    /\ lastField # None
    /\ IsField(h.structure)
    /\ h.frameNum = lastField.frameNum
    /\ \/ lastField.reference /\ h.reference /\ ~h.idr /\ ~HasMmco5(h)
       \/ ~lastField.reference /\ ~h.reference /\ ~lastField.idr

\* h is the second field of the previous picture (3.36 / 3.37).
Pairs(h) ==
    /\ lastField # None
    /\ IsField(h.structure)
    /\ ParityOf(h.structure) = Other(lastField.parity)
    /\ h.frameNum = lastField.frameNum
    /\ \/ lastField.reference /\ h.reference /\ ~h.idr /\ ~HasMmco5(h)
       \/ ~lastField.reference /\ ~h.reference /\ ~lastField.idr

\* Mutant of AbandonedFirstField: a reference field is reported as well.
AbandonedAnyField(h) ==
    IF lastField # None /\ ~Pairs(h) THEN lastField.key ELSE None

AbandonedFirstField(h) ==
    IF lastField # None /\ ~Pairs(h) /\ ~lastField.reference
    THEN lastField.key ELSE None

\* frame_num skips at least one value.
SkipsFrameNum(sps, h) ==
    /\ ~h.idr
    /\ ~Pairs(h)
    /\ h.frameNum # prevRefFrameNum
    /\ h.frameNum # (prevRefFrameNum + 1) % sps.maxFrameNum

\* The end of begin_picture: counts, key, the picture in progress.
StartPicture(sps, h, firstKey, abandoned, nonExisting) ==
    LET counts == Derive(poc, sps, h)
    IN  IF counts = None
        THEN /\ reply' = Failed
             /\ UNCHANGED <<pending, nextKey>>
        ELSE /\ pending' = [key |-> IF firstKey = None THEN nextKey ELSE firstKey,
                            poc |-> counts,
                            secondField |-> firstKey # None,
                            nonExisting |-> nonExisting,
                            abandonedFirstField |-> abandoned,
                            header |-> h,
                            maxFrameNum |-> sps.maxFrameNum]
             /\ nextKey' = IF firstKey = None THEN nextKey + 1 ELSE nextKey
             /\ reply' = [result |-> "begun"]

\* A picture without a gap: an IDR picture, a second field, or the next frame_num.
BeginPicture(sps, h) ==
    /\ Idle /\ pending = None
    /\ nextKey < MaxKey
    /\ ParsedAgainst(sps, h)
    /\ ~SkipsFrameNum(sps, h)
    /\ prevRefFrameNum' = IF h.idr THEN 0 ELSE prevRefFrameNum
    /\ StartPicture(sps, h, IF Pairs(h) THEN lastField.key ELSE None,
                    AbandonedFirstField(h), {})
    /\ lastField' = None
    /\ UNCHANGED <<stores, maxLongTermFrameIdx, poc, releasedEarly, gap, marking>>

\* A gap the stream does not allow.
BeginAfterLoss(sps, h) ==
    /\ Idle /\ pending = None
    /\ nextKey < MaxKey
    /\ ParsedAgainst(sps, h)
    /\ SkipsFrameNum(sps, h)
    /\ ~sps.gapsAllowed
    /\ lastField' = None
    /\ reply' = Failed
    /\ UNCHANGED <<stores, maxLongTermFrameIdx, poc, prevRefFrameNum, nextKey,
                   pending, releasedEarly, gap, marking>>

\* A gap to fill.  One wider than the capacity drops every short-term field
\* at once and skips to the frames that can survive.
BeginWithGap(sps, h) ==
    /\ Idle /\ pending = None
    /\ nextKey < MaxKey
    /\ ParsedAgainst(sps, h)
    /\ SkipsFrameNum(sps, h)
    /\ sps.gapsAllowed
    /\ LET unused == (prevRefFrameNum + 1) % sps.maxFrameNum
           missing == (h.frameNum + sps.maxFrameNum - unused) % sps.maxFrameNum
           wide == missing > RefCap(sps)
       IN  /\ stores' = IF wide THEN Unmark(stores, FieldsMarked(stores, "ShortTerm"))
                        ELSE stores
           /\ gap' = [sps |-> sps, header |-> h,
                      abandonedFirstField |-> AbandonedFirstField(h),
                      unused |-> unused,
                      skip |-> IF wide THEN missing - RefCap(sps) ELSE 0,
                      nonExisting |-> {}]
    /\ lastField' = None
    /\ reply' = None
    /\ UNCHANGED <<maxLongTermFrameIdx, poc, prevRefFrameNum, nextKey, pending,
                   releasedEarly, marking>>

\* Mutant of SkipFrame: the count of skipped frames is not taken down.
SkipFrameForever ==
    /\ gap # None /\ gap.skip > 0
    /\ poc' = SkipNonExisting(poc, gap.sps, gap.unused)
    /\ gap' = [gap EXCEPT !.unused = (@ + 1) % gap.sps.maxFrameNum]
    /\ UNCHANGED <<stores, maxLongTermFrameIdx, prevRefFrameNum, nextKey, pending,
                   lastField, releasedEarly, marking, reply>>

\* One skipped frame: only the picture order count state steps over it.
SkipFrame ==
    /\ gap # None /\ gap.skip > 0
    /\ poc' = SkipNonExisting(poc, gap.sps, gap.unused)
    /\ gap' = [gap EXCEPT !.unused = (@ + 1) % gap.sps.maxFrameNum, !.skip = @ - 1]
    /\ UNCHANGED <<stores, maxLongTermFrameIdx, prevRefFrameNum, nextKey, pending,
                   lastField, releasedEarly, marking, reply>>

NonExistingStore(frameNum, counts) ==
    [frameNum |-> frameNum, codedFrame |-> TRUE, nonExisting |-> TRUE,
     fields |-> [p \in Parities |->
                   [decoded |-> TRUE, marking |-> "ShortTerm", longTermFrameIdx |-> 0,
                    poc |-> IF p = "Top" THEN counts.top ELSE counts.bottom]]]

\* One inserted frame; a count that overflows ends the call in the middle.
FillFrame ==
    /\ gap # None /\ gap.skip = 0 /\ gap.unused # gap.header.frameNum
    /\ LET max == gap.sps.maxFrameNum
           slid == SlidingWindow(stores, gap.sps, gap.unused, max, None)
           counts == DeriveNonExisting(poc, gap.sps, gap.unused)
       IN  IF counts = None
           THEN /\ stores' = slid
                /\ gap' = None
                /\ reply' = Failed
                /\ UNCHANGED <<poc, prevRefFrameNum, nextKey>>
           ELSE /\ stores' = [k \in DOMAIN slid \cup {nextKey} |->
                                IF k = nextKey
                                THEN NonExistingStore(gap.unused, counts)
                                ELSE slid[k]]
                /\ poc' = FinishNonExisting(poc, gap.unused, counts)
                /\ prevRefFrameNum' = gap.unused
                /\ nextKey' = nextKey + 1
                /\ gap' = [gap EXCEPT !.unused = (@ + 1) % max,
                                      !.nonExisting = @ \cup {nextKey}]
                /\ UNCHANGED reply
    /\ UNCHANGED <<maxLongTermFrameIdx, pending, lastField, releasedEarly, marking>>

\* The gap is filled: what the window dropped leaves, the picture starts.
EndGap ==
    /\ gap # None /\ gap.skip = 0 /\ gap.unused = gap.header.frameNum
    /\ stores' = EvictUnused(stores)
    /\ releasedEarly' = releasedEarly \cup UnusedKeys(stores)
    /\ StartPicture(gap.sps, gap.header, None, gap.abandonedFirstField, gap.nonExisting)
    /\ gap' = None
    /\ UNCHANGED <<maxLongTermFrameIdx, poc, prevRefFrameNum, lastField, marking>>

-----------------------------------------------------------------------------
(* finish_picture *)

\* The fields the picture brings, marked.
OwnField(h, p, counts, long) ==
    [decoded |-> TRUE,
     marking |-> IF ~h.reference THEN "Unused"
                 ELSE IF long = None THEN "ShortTerm" ELSE "LongTerm",
     poc |-> IF p = "Top" THEN counts.top ELSE counts.bottom,
     longTermFrameIdx |-> IF long = None THEN 0 ELSE long]

OwnFields(h, counts, long) ==
    [p \in Parities |->
       IF IsField(h.structure) /\ p # ParityOf(h.structure) THEN EmptyField
       ELSE OwnField(h, p, counts, long)]

\* A second field joins its store; when both fields are long-term then, the
\* first takes the index of the second.
JoinFields(s, p, field, long) ==
    [s EXCEPT !.fields =
       [q \in Parities |->
          IF q = p THEN field
          ELSE IF long # None /\ IsMarked(s.fields[q], "LongTerm")
               THEN AsLongTerm(s.fields[q], long)
               ELSE s.fields[q]]]

NewStore(h, counts, long, mmco5) ==
    [frameNum |-> IF mmco5 THEN 0 ELSE h.frameNum,
     fields |-> OwnFields(h, counts, long),
     codedFrame |-> ~IsField(h.structure),
     nonExisting |-> FALSE]

\* Mutant of Insert: a second field opens a store of its own.
InsertApart(st, cur, counts, long, mmco5) ==
    IF ~cur.header.reference THEN st
    ELSE [k \in DOMAIN st \cup {cur.key} |->
            IF k # cur.key THEN st[k]
            ELSE NewStore(cur.header, counts, long, mmco5)]

\* The stores with the picture in them.
Insert(st, cur, counts, long, mmco5) ==
    LET h == cur.header
        p == ParityOf(h.structure)
    IN  IF ~h.reference THEN st
        ELSE [k \in DOMAIN st \cup {cur.key} |->
                IF k # cur.key THEN st[k]
                ELSE IF k \in DOMAIN st /\ cur.secondField
                     THEN JoinFields(st[k], p, OwnField(h, p, counts, long), long)
                     ELSE NewStore(h, counts, long, mmco5)]

\* finish_picture after the marking process: st is what that left, long the
\* LongTermFrameIdx given to the current picture.
Complete(sps, cur, st, long, mmco5) ==
    LET h == cur.header
        counts == IF mmco5 THEN AfterMmco5(cur.poc, h.structure) ELSE cur.poc
        full == EnforceCapacity(Insert(st, cur, counts, long, mmco5), sps,
                                h.frameNum, cur.maxFrameNum)
        awaiting == IsField(h.structure) /\ ~cur.secondField
    IN  /\ stores' = EvictUnused(full)
        /\ poc' = FinishPoc(poc, sps, h, cur.poc, mmco5)
        /\ prevRefFrameNum' = IF ~h.reference THEN prevRefFrameNum
                              ELSE IF mmco5 THEN 0 ELSE h.frameNum
        /\ lastField' = IF awaiting
                        THEN [key |-> cur.key, parity |-> ParityOf(h.structure),
                              frameNum |-> h.frameNum, reference |-> h.reference,
                              idr |-> h.idr]
                        ELSE lastField
        /\ releasedEarly' = {}
        /\ pending' = None
        /\ marking' = None
        /\ reply' = [result |-> "finished", key |-> cur.key,
                     stored |-> cur.key \in References(full),
                     mmco5 |-> mmco5, pictureOrderCount |-> counts.count,
                     awaitingSecondField |-> awaiting,
                     released |-> releasedEarly \cup UnusedKeys(full)]
        /\ UNCHANGED <<nextKey, gap>>

FinishNonReference(sps) ==
    /\ Idle /\ pending # None /\ ~pending.header.reference
    /\ Complete(sps, pending, stores, None, FALSE)
    /\ UNCHANGED maxLongTermFrameIdx

FinishIdr(sps) ==
    /\ Idle /\ pending # None /\ pending.header.idr
    /\ LET long == IF pending.header.longTermReference THEN 0 ELSE None
       IN  /\ Complete(sps, pending, Unmark(stores, AllFields(stores)), long, FALSE)
           /\ maxLongTermFrameIdx' = long

FinishSliding(sps) ==
    /\ Idle /\ pending # None
    /\ pending.header.reference /\ ~pending.header.idr /\ ~pending.header.adaptive
    /\ Complete(sps, pending,
                SlidingWindow(stores, sps, pending.header.frameNum, pending.maxFrameNum,
                              IF pending.secondField THEN pending.key ELSE None),
                None, FALSE)
    /\ UNCHANGED maxLongTermFrameIdx

\* Adaptive marking: take the picture and start on its commands.
BeginMarking(sps) ==
    /\ Idle /\ pending # None
    /\ pending.header.reference /\ ~pending.header.idr /\ pending.header.adaptive
    /\ marking' = [sps |-> sps, current |-> pending, next |-> 1,
                   currentLong |-> None, mmco5 |-> FALSE]
    /\ pending' = None
    /\ reply' = None
    /\ UNCHANGED <<stores, maxLongTermFrameIdx, poc, prevRefFrameNum, nextKey,
                   lastField, releasedEarly, gap>>

\* One command.
MarkNext ==
    /\ marking # None /\ marking.next <= Len(marking.current.header.mmco)
    /\ LET cur == marking.current
           op == cur.header.mmco[marking.next]
       IN  /\ stores' = ApplyMmco(stores, op, ParityOf(cur.header.structure),
                                  cur.header.frameNum, cur.maxFrameNum,
                                  IF cur.secondField THEN cur.key ELSE None)
           /\ maxLongTermFrameIdx' =
                CASE op.code = 4 -> IF op.idx = 0 THEN None ELSE op.idx - 1
                  [] op.code = 5 -> None
                  [] OTHER -> maxLongTermFrameIdx
           /\ marking' = [marking EXCEPT
                            !.next = @ + 1,
                            !.mmco5 = @ \/ op.code = 5,
                            !.currentLong = IF op.code = 6 THEN op.idx ELSE @]
    /\ UNCHANGED <<poc, prevRefFrameNum, nextKey, pending, lastField, releasedEarly,
                   gap, reply>>

EndMarking ==
    /\ marking # None /\ marking.next > Len(marking.current.header.mmco)
    /\ Complete(marking.sps, marking.current, stores, marking.currentLong, marking.mmco5)
    /\ UNCHANGED maxLongTermFrameIdx

-----------------------------------------------------------------------------
(* The other calls *)

\* begin_picture while a picture is in progress, finish_picture without one.
OutOfTurn ==
    /\ Idle
    /\ reply' = Failed
    /\ UNCHANGED <<stores, maxLongTermFrameIdx, poc, prevRefFrameNum, nextKey,
                   pending, lastField, releasedEarly, gap, marking>>

\* A stream restart or seek: everything goes but the key counter.
Clear ==
    /\ Idle
    /\ stores' = <<>>
    /\ maxLongTermFrameIdx' = None
    /\ poc' = InitPocState
    /\ prevRefFrameNum' = 0
    /\ pending' = None
    /\ lastField' = None
    /\ releasedEarly' = {}
    /\ reply' = [result |-> "cleared"]
    /\ UNCHANGED <<nextKey, gap, marking>>

Begin(sps, h) == BeginPicture(sps, h) \/ BeginAfterLoss(sps, h) \/ BeginWithGap(sps, h)

Finish(sps) ==
    FinishNonReference(sps) \/ FinishIdr(sps) \/ FinishSliding(sps) \/ BeginMarking(sps)

\* The steps of a call that is running.
Continue == SkipFrame \/ FillFrame \/ EndGap \/ MarkNext \/ EndMarking

Next ==
    \/ \E sps \in SpsSet, h \in Headers : Begin(sps, h)
    \/ \E sps \in SpsSet : Finish(sps)
    \/ Continue
    \/ OutOfTurn
    \/ Clear

Spec == Init /\ [][Next]_vars

\* A call that has started runs to its end: nothing else may run before.
FairSpec == Spec /\ WF_vars(Continue)

-----------------------------------------------------------------------------
(* Types *)

CurrentPicture == [key : Nat, poc : Poc, secondField : BOOLEAN,
            nonExisting : SUBSET Nat, abandonedFirstField : Nat \cup {None},
            header : Headers, maxFrameNum : Nat \ {0}]

LastField == [key : Nat, parity : Parities, frameNum : Nat,
              reference : BOOLEAN, idr : BOOLEAN]

GapLoop == [sps : SpsSet, header : Headers,
            abandonedFirstField : Nat \cup {None}, unused : Nat, skip : Nat,
            nonExisting : SUBSET Nat]

CommandLoop == [sps : SpsSet, current : CurrentPicture, next : Nat \ {0},
                currentLong : Nat \cup {None}, mmco5 : BOOLEAN]

\* A call inside its command loop is not a call that has returned.
ASSUME LoopAssumption == None \notin CommandLoop

Finished == [result : {"finished"}, key : Nat, stored : BOOLEAN, mmco5 : BOOLEAN,
             pictureOrderCount : PocRange, awaitingSecondField : BOOLEAN,
             released : SUBSET Nat]

Reply == {None, Failed} \cup [result : {"begun", "cleared"}] \cup Finished

\* Every value has the type its declaration in the code gives it; the counts
\* of the stores and of the state stay in the 32-bit range.
TypeOK ==
    /\ AreStores(stores)
    /\ maxLongTermFrameIdx \in Nat \cup {None}
    /\ poc \in PocState
    /\ prevRefFrameNum \in Nat
    /\ nextKey \in Nat
    /\ pending \in CurrentPicture \cup {None}
    /\ lastField \in LastField \cup {None}
    /\ releasedEarly \in SUBSET Nat
    /\ gap \in GapLoop \cup {None}
    /\ marking \in CommandLoop \cup {None}
    /\ reply \in Reply

-----------------------------------------------------------------------------
(* Safety *)

\* A store opened by a single field that still lacks its field p.
Lacks(s, p) ==
    /\ ~s.fields[p].decoded
    /\ s.fields[Other(p)].decoded
    /\ ~s.codedFrame /\ ~s.nonExisting

\* A second field completes its own first field: the store it joins, if a
\* reference still holds it, was opened by a field of the other parity with
\* the same frame_num and never had this parity decoded.  (begin_picture's
\* pairing against whatever marking has done to the store since.)
SecondFieldFits ==
    pending # None /\ pending.secondField =>
       /\ IsField(pending.header.structure)
       /\ pending.key < nextKey
       /\ pending.key \in DOMAIN stores =>
            Lacks(stores[pending.key], ParityOf(pending.header.structure))

\* A key names one surface for one life: no store has a key that was not
\* handed out, a picture that opens a store does not reuse a live key, and a
\* key released while gaps were filled is not live any more.
KeysNameOneStore ==
    /\ \A k \in DOMAIN stores \cup releasedEarly : k < nextKey
    /\ DOMAIN stores \cap releasedEarly = {}
    /\ pending # None /\ ~pending.secondField =>
         pending.key \notin DOMAIN stores \cup releasedEarly

\* No command list gives a LongTermFrameIdx to another picture after giving
\* it to the current one (7.4.3.3 forbids it; the parser does not check).
CommandsAgree(h) ==
    \A i, j \in DOMAIN h.mmco :
        i < j /\ h.mmco[i].code = 6 /\ h.mmco[j].code = 3
            => h.mmco[i].idx # h.mmco[j].idx

UniqueIdx(st) ==
    \A j, k \in DOMAIN st : \A p, q \in Parities :
       /\ IsMarked(st[j].fields[p], "LongTerm")
       /\ IsMarked(st[k].fields[q], "LongTerm")
       /\ st[j].fields[p].longTermFrameIdx = st[k].fields[q].longTermFrameIdx
       => j = k

\* A LongTermFrameIdx names one frame: whatever mix of frames, pairs and
\* single fields operations 3, 4 and 6 and IDR pictures made long-term, no
\* two stores hold the same index (evict_long_term_idx and the field it spares).
LongTermIdxUnique ==
    (\A h \in Headers : CommandsAgree(h)) => UniqueIdx(stores)

\* After operation 5 nothing older is a reference when the picture is finished,
\* not even what commands after it in the same header name (apply_mmco goes on
\* with the list), and not a store the capacity or the eviction kept.
RefreshIsolates ==
    reply # None /\ reply.result = "finished" /\ reply.mmco5 =>
        References(stores) \subseteq {reply.key}

\* enforce_capacity: whatever the commands were, a finished picture leaves at
\* most RefCap references, and filling a gap afterwards adds at most one more
\* to what the picture in progress may refer to; for streams whose parameter
\* sets agree on the capacity.
CapacityHolds ==
    \A cap \in {RefCap(sps) : sps \in SpsSet} :
        Idle /\ (\A sps \in SpsSet : RefCap(sps) = cap) =>
            Cardinality(References(stores)) <=
                cap + (IF reply # None /\ reply.result = "finished" THEN 0 ELSE 1)

\* The counts of the stores rise with their keys.
CountsRise(st) ==
    \A j, k \in DOMAIN st : j < k =>
        \A p, q \in Parities :
           st[j].fields[p].decoded /\ st[k].fields[q].decoded =>
              st[j].fields[p].poc <= st[k].fields[q].poc

\* All sequences are of count type 2 and count frame_num modulo max.
OutputInDecodingOrder(max) ==
    \A sps \in SpsSet : sps.pocType = 2 /\ sps.maxFrameNum = max

\* In a stream of count type 2 output order is decoding order: the counts of
\* the references rise with their keys, over every wrap of frame_num, gap and
\* inferred frame since the last refresh (8.2.1.3; FrameNumOffset is kept across
\* calls that fail and across frames that are skipped, not inserted).  A stream
\* that changes MaxFrameNum does so at an IDR picture; sets that disagree on it
\* are not one such stream.
Type2FollowsDecoding ==
    \A max \in {sps.maxFrameNum : sps \in SpsSet} :
        OutputInDecodingOrder(max) => CountsRise(stores)

\* Marking only ever weakens: while a store lives no field of it becomes a
\* reference again, a long-term field never turns short-term, and the counts
\* of a decoded field stay what they were (MMCO 5 of a later picture included).
MarkingWeakens ==
    \A k \in DOMAIN stores : k \in DOMAIN stores' =>
        \A p \in Parities :
            LET f == stores[k].fields[p]
                g == stores'[k].fields[p]
            IN  f.decoded =>
                  /\ g.decoded
                  /\ g.poc = f.poc
                  /\ f.marking = "Unused" => g.marking = "Unused"
                  /\ f.marking = "LongTerm" => g.marking # "ShortTerm"

MarkingOnlyWeakens == [][MarkingWeakens]_vars

\* Operation 5 subtracts the picture's own count from its counts without
\* overflow ("never panic, overflow", README.md on every entry point).  The
\* counts are range checked one by one; their difference is not.
Mmco5CountsFit ==
    marking # None /\ marking.mmco5 =>
        LET counts == marking.current.poc
        IN  Fits(counts.top - counts.count) /\ Fits(counts.bottom - counts.count)

-----------------------------------------------------------------------------
(* The inductive invariant behind them *)

\* One call at a time, and what it keeps out of the way of the others.
ControlInv ==
    /\ gap # None => /\ pending = None /\ marking = None /\ lastField = None
                     /\ reply = None
    /\ marking # None => pending = None /\ lastField = None /\ reply = None
    /\ pending # None => lastField = None

\* The picture in progress against the stores it will join.
PictureInv(cur) ==
    /\ cur.key < nextKey
    /\ ~cur.secondField => cur.key \notin DOMAIN stores \cup releasedEarly
    /\ cur.secondField =>
         /\ releasedEarly = {}
         /\ IsField(cur.header.structure)
         /\ cur.header.reference => ~HasMmco5(cur.header)
         /\ cur.key \in DOMAIN stores =>
              Lacks(stores[cur.key], ParityOf(cur.header.structure))

KeysInv ==
    /\ \A k \in DOMAIN stores \cup releasedEarly : k < nextKey
    /\ DOMAIN stores \cap releasedEarly = {}
    /\ pending # None => PictureInv(pending)
    /\ marking # None => /\ PictureInv(marking.current)
                         /\ marking.current.header.reference
    /\ lastField # None =>
         /\ lastField.key < nextKey
         /\ releasedEarly = {}
         /\ lastField.key \in DOMAIN stores =>
              Lacks(stores[lastField.key], Other(lastField.parity))

\* Only the store of the current picture may hold the index that operation 6
\* has already given to it.
LongTermInv ==
    (\A h \in Headers : CommandsAgree(h)) /\ marking # None /\ marking.currentLong # None =>
       LET cur == marking.current
       IN  /\ \E i \in DOMAIN cur.header.mmco :
                 /\ i < marking.next
                 /\ cur.header.mmco[i].code = 6
                 /\ cur.header.mmco[i].idx = marking.currentLong
           /\ \A k \in DOMAIN stores : HoldsIdx(stores[k], marking.currentLong) => k = cur.key

\* After operation 5 no command finds a picture to mark.
RefreshInv ==
    marking # None /\ marking.mmco5 =>
        HasMmco5(marking.current.header) /\ References(stores) = {}

IInv ==
    /\ TypeOK
    /\ ControlInv
    /\ KeysInv
    /\ LongTermIdxUnique /\ LongTermInv
    /\ RefreshIsolates /\ RefreshInv

\* How many references there are between calls and inside them: a finished picture
\* leaves as many as there is capacity, an inserted frame adds at most one, and the
\* long-term pictures alone never exceed the capacity when a gap is filled, so the
\* window can always make room.
FewReferences(cap) ==
    /\ Cardinality(References(stores)) <= cap + 1
    /\ marking = None => Cardinality(Holders(stores, "LongTerm")) <= cap
    /\ reply # None /\ reply.result = "finished" => Cardinality(References(stores)) <= cap

CapacityInv ==
    \A cap \in {RefCap(sps) : sps \in SpsSet} :
        (\A sps \in SpsSet : RefCap(sps) = cap) => FewReferences(cap)

\* The count of a reference picture at the frame_num the state is at: no
\* count of count type 2 so far is above it.
LastCount == 2 * (poc.prevFrameNumOffset + poc.prevFrameNum)

\* What the picture in progress brings when it is stored: the newest key and,
\* unless it is an IDR picture, a count no lower than any before.
PictureCounts(cur, max) ==
    LET h == cur.header
        own == IF h.idr THEN 0 ELSE 2 * (cur.poc.offset + h.frameNum)
    IN  /\ h.frameNum < max
        /\ \A k \in DOMAIN stores : k <= cur.key
        /\ h.idr => ~cur.secondField /\ cur.poc.offset = 0
        /\ ~h.idr => LastCount <= own
        /\ h.reference => /\ h.structure # "BottomField" => cur.poc.top = own
                          /\ h.structure # "TopField" => cur.poc.bottom = own
                          /\ cur.poc.count = own

\* The counts of the stores rise up to the last count.
Rising(st, last) ==
    /\ CountsRise(st)
    /\ \A k \in DOMAIN st, p \in Parities :
          st[k].fields[p].decoded => st[k].fields[p].poc <= last

CountsInv(max) ==
    /\ poc.prevFrameNum < max
    /\ Rising(stores, LastCount)
    /\ gap # None => gap.unused < max /\ gap.header.frameNum < max
    /\ pending # None => PictureCounts(pending, max)
    /\ marking # None => PictureCounts(marking.current, max) /\ ~marking.current.header.idr
    /\ lastField # None => \A k \in DOMAIN stores : k <= lastField.key

Type2Inv ==
    \A max \in {sps.maxFrameNum : sps \in SpsSet} :
        OutputInDecodingOrder(max) => CountsInv(max)

-----------------------------------------------------------------------------
(* Liveness *)

\* A call returns: the gap loop meets frame_num and the command loop ends.
CallsReturn == ~Idle ~> Idle

=============================================================================
