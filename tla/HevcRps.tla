-------------------------------- MODULE HevcRps --------------------------------
(***************************************************************************)
(* The HEVC reference picture state of one base layer (src/hevc/dpb.rs) as *)
(* operators: NoRaslOutputFlag, picture order count, reference picture set *)
(* with its marking, reference lists.  Every method of HevcDpb runs to its *)
(* end or fails without a loop the caller could see inside of, so a method *)
(* is a function of the state record; HevcDpb and HevcSync hold the state. *)
(*                                                                         *)
(* pics maps a key to its picture.  Keys grow and pushes go to the end, so *)
(* the order of the code's Vec is the order of the keys.                   *)
(***************************************************************************)
EXTENDS Integers, Sequences, FiniteSets, SequencesExt

CONSTANTS
    None,       \* Option::None
    PocLimit,   \* 2^31 in the code: counts are in -PocLimit..PocLimit-1
    MaxPics     \* 16 in the code: the most pictures held

ASSUME RpsAssumption ==
    /\ PocLimit \in Nat \ {0}
    /\ MaxPics \in Nat \ {0}
    /\ None \notin Nat

PocRange == -PocLimit .. PocLimit - 1

\* Two's-complement truncation of an i64 to i32.
Wrap(v) == ((v + PocLimit) % (2 * PocLimit)) - PocLimit

Marking == {"ShortTerm", "LongTerm"}

Picture == [poc : PocRange, marking : Marking, temporalId : Nat]

\* The fields of the parameter set and of a slice segment header in use.
Sps == [maxLsb : Nat \ {0}, maxDecPicBufferingMinus1 : Nat]

ShortTermRef == [delta : Int, used : BOOLEAN]

\* cycle is delta_poc_msb_cycle_lt, accumulated, or None when not present.
LongTermRef == [lsb : Nat, cycle : Nat \cup {None}, used : BOOLEAN]

Header == [type : 0 .. 63, layerId : Nat, dependent : BOOLEAN, temporalId : Nat, lsb : Nat,
           s0 : Seq(ShortTermRef), s1 : Seq(ShortTermRef), longTerm : Seq(LongTermRef)]

ShortLists == {"stCurrBefore", "stCurrAfter", "stFoll"}

Lists == ShortLists \cup {"ltCurr", "ltFoll"}

-----------------------------------------------------------------------------
(* Operators below are functions of a state record d of this shape. *)

Keys(list) == ToSet(list) \ {None}

\* No picture in progress.
NoPicture == [key |-> None]

\* The picture in progress: HevcCurrentPicture and what Pending adds.
IsPending(p) ==
    /\ p.key \in Nat /\ p.temporalId \in Nat
    /\ p.poc \in PocRange /\ p.msb \in PocRange
    /\ {p.irap, p.noRaslOutput, p.referenceable} \subseteq BOOLEAN
    /\ \A l \in Lists : p.rps[l] \in Seq(Nat \cup {None})

IsState(d) ==
    /\ d = [pics |-> d.pics, prevLsb |-> d.prevLsb, prevMsb |-> d.prevMsb,
            afterEos |-> d.afterEos, started |-> d.started,
            irapNoRaslOutput |-> d.irapNoRaslOutput, nextKey |-> d.nextKey,
            pending |-> d.pending]
    /\ d.pics \in [DOMAIN d.pics -> Picture]
    /\ DOMAIN d.pics \subseteq Nat /\ IsFiniteSet(DOMAIN d.pics)
    /\ d.prevLsb \in Nat /\ d.prevMsb \in PocRange
    /\ {d.afterEos, d.started, d.irapNoRaslOutput} \subseteq BOOLEAN
    /\ d.nextKey \in Nat
    /\ d.pending # NoPicture => IsPending(d.pending)

\* HevcDpb::default() with the key counter n.
Fresh(n) == [pics |-> <<>>, prevLsb |-> 0, prevMsb |-> 0, afterEos |-> FALSE,
             started |-> FALSE, irapNoRaslOutput |-> FALSE, nextKey |-> n,
             pending |-> NoPicture]

-----------------------------------------------------------------------------
(* NAL unit types *)

IsRasl(t) == t \in {8, 9}

IsRadl(t) == t \in {6, 7}

\* Mutant of IsSubLayerNonReference: every picture of sub-layer 0 is an anchor.
IsSubLayerNonReferenceNever(t) == FALSE

IsSubLayerNonReference(t) == t <= 14 /\ t % 2 = 0

IsBla(t) == t \in 16 .. 18

IsIdr(t) == t \in {19, 20}

IsIrap(t) == t \in 16 .. 23

-----------------------------------------------------------------------------
(* begin_picture: flags and count *)

\* A picture starts with an independent segment of the base layer.
Acceptable(h) == ~h.dependent /\ h.layerId = 0

NoRaslOutput(d, h) ==
    IsIrap(h.type) /\ (IsIdr(h.type) \/ IsBla(h.type) \/ ~d.started \/ d.afterEos)

\* Mutant of Announced: the flag is never taken back.
AnnouncedSticky(d, h) ==
    [d EXCEPT !.pending = NoPicture,
              !.irapNoRaslOutput = @ \/ NoRaslOutput(d, h),
              !.started = TRUE,
              !.afterEos = FALSE]

\* What every acceptable header does first, whatever comes of it.
Announced(d, h) ==
    [d EXCEPT !.pending = NoPicture,
              !.irapNoRaslOutput = IF IsIrap(h.type) THEN NoRaslOutput(d, h) ELSE @,
              !.started = TRUE,
              !.afterEos = FALSE]

\* A RASL picture whose IRAP picture restarted the sequence.
Skips(d, h) == IsRasl(h.type) /\ Announced(d, h).irapNoRaslOutput

PocMsb(d, sps, h) ==
    LET restart == NoRaslOutput(d, h)
    IN  CASE restart -> 0
          [] ~restart /\ h.lsb < d.prevLsb /\ d.prevLsb - h.lsb >= sps.maxLsb \div 2 ->
               d.prevMsb + sps.maxLsb
          [] ~restart /\ h.lsb > d.prevLsb /\ h.lsb - d.prevLsb > sps.maxLsb \div 2 ->
               d.prevMsb - sps.maxLsb
          [] OTHER -> d.prevMsb

PocOf(d, sps, h) == PocMsb(d, sps, h) + h.lsb

\* The picture is an anchor for the counts that follow.
IsTid0Anchor(h) ==
    /\ h.temporalId = 0
    /\ ~IsRasl(h.type) /\ ~IsRadl(h.type) /\ ~IsSubLayerNonReference(h.type)

-----------------------------------------------------------------------------
(* begin_picture: reference picture set *)

FirstKey(keys) == IF keys = {} THEN None ELSE CHOOSE k \in keys : \A j \in keys : k <= j

\* The references whose flag is used, pushed in the order of the header.
Flagged(refs, used) ==
    LET kept[n \in 0 .. Len(refs)] ==
          IF n = 0 THEN <<>>
          ELSE IF refs[n].used = used THEN Append(kept[n - 1], refs[n]) ELSE kept[n - 1]
    IN  kept[Len(refs)]

Used(refs) == Flagged(refs, TRUE)

Unused(refs) == Flagged(refs, FALSE)

\* Mutant of FindLongTerm: the cycles in the header are ignored.
FindLongTermByLsb(pics, sps, poc, r) ==
    FirstKey({k \in DOMAIN pics : pics[k].poc % sps.maxLsb = r.lsb})

\* The first held picture with the count, or with its lsb when that is all
\* the header gives.
FindLongTerm(pics, sps, poc, r) ==
    FirstKey({k \in DOMAIN pics :
                IF r.cycle = None THEN pics[k].poc % sps.maxLsb = r.lsb
                ELSE pics[k].poc = r.lsb + poc - r.cycle * sps.maxLsb - (poc % sps.maxLsb)})

FindShortTerm(pics, poc, r) ==
    FirstKey({k \in DOMAIN pics : pics[k].marking = "ShortTerm" /\ pics[k].poc = poc + r.delta})

LongTermKeys(pics, sps, poc, refs) ==
    [i \in DOMAIN refs |-> FindLongTerm(pics, sps, poc, refs[i])]

ShortTermKeys(pics, poc, refs) == [i \in DOMAIN refs |-> FindShortTerm(pics, poc, refs[i])]

\* Mutant of MarkLongTerm: the marking of earlier pictures is forgotten.
MarkLongTermAfresh(pics, keys) ==
    [k \in DOMAIN pics |->
       [pics[k] EXCEPT !.marking = IF k \in keys THEN "LongTerm" ELSE "ShortTerm"]]

MarkLongTerm(pics, keys) ==
    [k \in DOMAIN pics |-> IF k \in keys THEN [pics[k] EXCEPT !.marking = "LongTerm"] ELSE pics[k]]

\* The pictures the set is looked up in: a restart marks all unused.
Available(d, h) == IF NoRaslOutput(d, h) THEN <<>> ELSE d.pics

\* Mutant of RpsLists: short-term references are looked up before the
\* long-term ones are marked.
RpsListsUnmarked(pics, sps, h, poc) ==
    [stCurrBefore |-> ShortTermKeys(pics, poc, Used(h.s0)),
     stCurrAfter  |-> ShortTermKeys(pics, poc, Used(h.s1)),
     stFoll       |-> ShortTermKeys(pics, poc, Unused(h.s0) \o Unused(h.s1)),
     ltCurr       |-> LongTermKeys(pics, sps, poc, Used(h.longTerm)),
     ltFoll       |-> LongTermKeys(pics, sps, poc, Unused(h.longTerm))]

\* The five lists.  Long-term references are found first, among all pictures,
\* and marked; short-term ones among those that are still short-term.
RpsLists(pics, sps, h, poc) ==
    LET ltCurr == LongTermKeys(pics, sps, poc, Used(h.longTerm))
        ltFoll == LongTermKeys(pics, sps, poc, Unused(h.longTerm))
        marked == MarkLongTerm(pics, Keys(ltCurr) \cup Keys(ltFoll))
    IN  [stCurrBefore |-> ShortTermKeys(marked, poc, Used(h.s0)),
         stCurrAfter  |-> ShortTermKeys(marked, poc, Used(h.s1)),
         stFoll       |-> ShortTermKeys(marked, poc, Unused(h.s0) \o Unused(h.s1)),
         ltCurr       |-> ltCurr,
         ltFoll       |-> ltFoll]

NoLists == [l \in Lists |-> <<>>]

\* An IDR picture has no set.
RpsOf(d, sps, h) ==
    IF IsIdr(h.type) THEN NoLists ELSE RpsLists(Available(d, h), sps, h, PocOf(d, sps, h))

InRps(rps) == UNION {Keys(rps[l]) : l \in Lists}

\* What the set leaves in the buffer.
Retained(pics, rps) ==
    LET marked == MarkLongTerm(pics, Keys(rps["ltCurr"]) \cup Keys(rps["ltFoll"]))
    IN  [k \in DOMAIN pics \cap InRps(rps) |-> marked[k]]

\* The state once an acceptable picture that is not skipped has begun.
Begun(d, sps, h) ==
    LET rps == RpsOf(d, sps, h)
        msb == Wrap(PocMsb(d, sps, h))
    IN  [Announced(d, h) EXCEPT
           !.prevLsb = IF IsTid0Anchor(h) THEN h.lsb ELSE @,
           !.prevMsb = IF IsTid0Anchor(h) THEN msb ELSE @,
           !.pics = Retained(Available(d, h), rps),
           !.nextKey = @ + 1,
           !.pending = [key |-> d.nextKey, poc |-> PocOf(d, sps, h), msb |-> msb,
                        irap |-> IsIrap(h.type), noRaslOutput |-> NoRaslOutput(d, h),
                        rps |-> rps, temporalId |-> h.temporalId,
                        referenceable |-> sps.maxDecPicBufferingMinus1 > 0]]

\* Keys the set released.
Released(before, after) == DOMAIN before.pics \ DOMAIN after.pics

-----------------------------------------------------------------------------
(* finish_picture *)

\* Mutant of Evicted: the pictures are counted after the new one has entered.
EvictedLate(d) ==
    {k \in DOMAIN d.pics :
       Cardinality({j \in DOMAIN d.pics : j >= k}) >= MaxPics + 1}

\* The oldest pictures leave until one fewer than MaxPics is held.
Evicted(d) ==
    {k \in DOMAIN d.pics :
       Cardinality({j \in DOMAIN d.pics : j >= k}) >= MaxPics}

\* Mutant of Finished: a one-picture buffer stores the picture all the same.
FinishedAlways(d) ==
    LET p == d.pending
        kept == DOMAIN d.pics \ Evicted(d)
        added == {p.key}
    IN  [d EXCEPT !.pending = NoPicture,
                  !.pics = [k \in kept \cup added |->
                              IF k \in added THEN [poc |-> p.poc, marking |-> "ShortTerm",
                                                   temporalId |-> p.temporalId]
                              ELSE d.pics[k]]]

Finished(d) ==
    LET p == d.pending
        kept == DOMAIN d.pics \ Evicted(d)
        added == IF p.referenceable THEN {p.key} ELSE {}
    IN  [d EXCEPT !.pending = NoPicture,
                  !.pics = [k \in kept \cup added |->
                              IF k \in added THEN [poc |-> p.poc, marking |-> "ShortTerm",
                                                   temporalId |-> p.temporalId]
                              ELSE d.pics[k]]]

-----------------------------------------------------------------------------
(* ref_pic_lists *)

\* HevcListEntry.
RefListEntry == [key : Nat, poc : PocRange, longTerm : BOOLEAN]

ASSUME EntryAssumption == None \notin RefListEntry

\* A list entry, or None: the picture looked up by its key, and the list it
\* comes from.
Entry(d, k, long) ==
    IF k = None \/ k \notin DOMAIN d.pics THEN None
    ELSE [key |-> k, poc |-> d.pics[k].poc, longTerm |-> long]

\* The pictures a slice may use, those of first before those of second.
Candidates(d, first, second) ==
    LET entries(l, long) == [i \in DOMAIN d.pending.rps[l] |-> Entry(d, d.pending.rps[l][i], long)]
    IN  entries(first, FALSE) \o entries(second, FALSE) \o entries("ltCurr", TRUE)

NumPicTotalCurr(d) ==
    Len(d.pending.rps["stCurrBefore"]) + Len(d.pending.rps["stCurrAfter"])
      + Len(d.pending.rps["ltCurr"])

\* Mutant of BuildList: the pictures are not repeated.
BuildListOnce(d, first, second, active, picks) ==
    LET all == Candidates(d, first, second)
    IN  [i \in 1 .. active |->
           LET idx == IF i \in DOMAIN picks THEN picks[i] + 1 ELSE i
           IN  IF idx <= Len(all) THEN all[idx] ELSE None]

\* active entries, in turn or as list_entry picks them (<<>>: no modification).
BuildList(d, first, second, active, picks) ==
    LET all == Candidates(d, first, second)
        size == IF active > Len(all) THEN active ELSE Len(all)
        temp == [i \in 1 .. size |-> all[((i - 1) % Len(all)) + 1]]
    IN  [i \in 1 .. active |->
           LET idx == IF i \in DOMAIN picks THEN picks[i] + 1 ELSE i
           IN  IF idx <= size THEN temp[idx] ELSE None]

\* Both lists of a B slice; None when no picture may be used.
RefPicLists(d, active, picks) ==
    IF NumPicTotalCurr(d) = 0 THEN None
    ELSE <<BuildList(d, "stCurrBefore", "stCurrAfter", active, picks),
           BuildList(d, "stCurrAfter", "stCurrBefore", active, picks)>>

=============================================================================
