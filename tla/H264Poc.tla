------------------------------- MODULE H264Poc -------------------------------
(***************************************************************************)
(* Picture order count of H.264 (src/h264/poc.rs, clause 8.2.1).           *)
(*                                                                         *)
(* The derivation is a pure function of the cross-picture state PocState,  *)
(* the sequence parameter set and one slice header; this module holds it   *)
(* as operators, and H264Dpb and H264PocSync hold the state it works on.   *)
(*                                                                         *)
(* A derivation either yields a record of counts or fails because a count  *)
(* leaves the 32-bit range.  The range is scaled: -PocLimit..PocLimit-1    *)
(* stands for i32, and a failed derivation is the value None.              *)
(***************************************************************************)
EXTENDS Integers, Sequences, SequencesExt

CONSTANTS
    None,       \* "no value": Option::None, and Err for a derivation
    PocLimit    \* 2^31 in the code

ASSUME PocLimitAssumption == PocLimit \in Nat \ {0}

-----------------------------------------------------------------------------
(* Structures, counts and inputs *)

Structures == {"Frame", "TopField", "BottomField"}

IsField(structure) == structure # "Frame"

PocRange == -PocLimit .. PocLimit - 1

Fits(v) == v \in PocRange

\* Two's-complement wrap of a sum or difference taken without a check.
Wrap(v) == ((v + PocLimit) % (2 * PocLimit)) - PocLimit

Poc == [top : PocRange, bottom : PocRange, count : PocRange,
        msb : PocRange, offset : PocRange]

\* Poc::default()
ZeroPoc == [top |-> 0, bottom |-> 0, count |-> 0, msb |-> 0, offset |-> 0]

PocState == [prevMsb : PocRange, prevLsb : PocRange,
             prevFrameNumOffset : PocRange, prevFrameNum : Nat]

InitPocState == [prevMsb |-> 0, prevLsb |-> 0,
                 prevFrameNumOffset |-> 0, prevFrameNum |-> 0]

\* Counts keep a field only when its structure has it (the code leaves 0).
WithStructure(top, bottom, msb, offset, structure) ==
    LET t == IF structure = "BottomField" THEN 0 ELSE top
        b == IF structure = "TopField" THEN 0 ELSE bottom
    IN  [top |-> t, bottom |-> b, msb |-> msb, offset |-> offset,
         count |-> CASE structure = "TopField" -> t
                     [] structure = "BottomField" -> b
                     [] OTHER -> IF t < b THEN t ELSE b]

\* Counts of a picture, or None when one its structure uses overflows.
Checked(top, bottom, msb, offset, structure) ==
    IF /\ structure # "BottomField" => Fits(top)
       /\ structure # "TopField" => Fits(bottom)
    THEN WithStructure(top, bottom, msb, offset, structure)
    ELSE None

-----------------------------------------------------------------------------
(* Type 0: the most significant part follows the nearest wrap of the lsb *)

\* Mutant of NextMsb: exactly half a cycle below counts as near.
NextMsbOffByOne(prevMsb, prevLsb, lsb, maxLsb) ==
    IF lsb < prevLsb /\ prevLsb - lsb > maxLsb \div 2 THEN prevMsb + maxLsb
    ELSE IF lsb > prevLsb /\ lsb - prevLsb > maxLsb \div 2 THEN prevMsb - maxLsb
    ELSE prevMsb

NextMsb(prevMsb, prevLsb, lsb, maxLsb) ==
    IF lsb < prevLsb /\ prevLsb - lsb >= maxLsb \div 2 THEN prevMsb + maxLsb
    ELSE IF lsb > prevLsb /\ lsb - prevLsb > maxLsb \div 2 THEN prevMsb - maxLsb
    ELSE prevMsb

Type0(ps, sps, h) ==
    LET msb == NextMsb(IF h.idr THEN 0 ELSE ps.prevMsb,
                       IF h.idr THEN 0 ELSE ps.prevLsb, h.lsb, sps.maxLsb)
        base == msb + h.lsb
    IN  IF ~Fits(msb) \/ ~Fits(base)
        THEN None
        ELSE Checked(base,
                     IF IsField(h.structure) THEN base ELSE base + h.deltaBottom,
                     msb, 0, h.structure)

-----------------------------------------------------------------------------
(* Types 1 and 2: a count that follows frame_num *)

\* Mutant of FrameNumOffset: frame_num wraps without an offset.
FrameNumOffsetNoWrap(ps, sps, h) == IF h.idr THEN 0 ELSE ps.prevFrameNumOffset

\* Not yet range checked: the caller fails when it does not fit.
FrameNumOffset(ps, sps, h) ==
    IF h.idr THEN 0
    ELSE IF ps.prevFrameNum > h.frameNum
         THEN ps.prevFrameNumOffset + sps.maxFrameNum
         ELSE ps.prevFrameNumOffset

Sum(s) == FoldSeq(LAMBDA a, b : a + b, 0, s)

\* expectedDeltaPerPicOrderCntCycle walked up to the absFrameNum-th picture.
ExpectedCount(offsets, absFrameNum) ==
    IF absFrameNum <= 0 THEN 0
    ELSE LET n == Len(offsets)
         IN  ((absFrameNum - 1) \div n) * Sum(offsets)
               + Sum(SubSeq(offsets, 1, ((absFrameNum - 1) % n) + 1))

Type1(ps, sps, h) ==
    LET offset == FrameNumOffset(ps, sps, h)
        frames == IF sps.offsetsForRefFrame = <<>> THEN 0
                  ELSE offset + h.frameNum
        absFrameNum == IF ~h.reference /\ frames > 0 THEN frames - 1 ELSE frames
        expected == ExpectedCount(sps.offsetsForRefFrame, absFrameNum)
                      + (IF h.reference THEN 0 ELSE sps.offsetForNonRefPic)
        top == expected + h.delta[1]
        bottom == top + sps.offsetTopToBottom
                    + (IF IsField(h.structure) THEN 0 ELSE h.delta[2])
    IN  IF ~Fits(offset) THEN None
        ELSE Checked(top, bottom, 0, offset, h.structure)

Type2(ps, sps, h) ==
    LET offset == FrameNumOffset(ps, sps, h)
        count == IF h.idr THEN 0
                 ELSE 2 * (offset + h.frameNum) - (IF h.reference THEN 0 ELSE 1)
    IN  IF ~Fits(offset) THEN None
        ELSE Checked(count, count, 0, offset, h.structure)

Derive(ps, sps, h) ==
    CASE sps.pocType = 0 -> Type0(ps, sps, h)
      [] sps.pocType = 1 -> Type1(ps, sps, h)
      [] sps.pocType = 2 -> Type2(ps, sps, h)
      [] OTHER -> None

-----------------------------------------------------------------------------
(* Frames inferred for a gap in frame_num *)

NonExistingInput(frameNum) ==
    [idr |-> FALSE, reference |-> TRUE, frameNum |-> frameNum,
     structure |-> "Frame", lsb |-> 0, deltaBottom |-> 0, delta |-> <<0, 0>>]

DeriveNonExisting(ps, sps, frameNum) ==
    IF sps.pocType = 0 THEN ZeroPoc
    ELSE Derive(ps, sps, NonExistingInput(frameNum))

FinishNonExisting(ps, frameNum, poc) ==
    [ps EXCEPT !.prevFrameNumOffset = poc.offset, !.prevFrameNum = frameNum]

\* Mutant of SkipNonExisting: the offset is left alone.
SkipNonExistingNoWrap(ps, sps, frameNum) == [ps EXCEPT !.prevFrameNum = frameNum]

\* A skipped frame: saturating_add instead of a failure.
SkipNonExisting(ps, sps, frameNum) ==
    LET sum == ps.prevFrameNumOffset + sps.maxFrameNum
    IN  [ps EXCEPT
           !.prevFrameNum = frameNum,
           !.prevFrameNumOffset =
               IF ps.prevFrameNum <= frameNum THEN @
               ELSE IF Fits(sum) THEN sum ELSE PocLimit - 1]

-----------------------------------------------------------------------------
(* The end of a picture *)

\* tempPicOrderCnt is subtracted from both counts.  The subtraction is not
\* checked: the release build wraps (the debug build panics).
AfterMmco5(poc, structure) ==
    LET t == Wrap(poc.top - poc.count)
        b == Wrap(poc.bottom - poc.count)
    IN  [poc EXCEPT !.top = t, !.bottom = b,
                    !.count = CASE structure = "TopField" -> t
                                [] structure = "BottomField" -> b
                                [] OTHER -> IF t < b THEN t ELSE b]

\* PocState::finish: poc is the derived record, before any adjustment.
FinishPoc(ps, sps, h, poc, mmco5) ==
    LET anchor == sps.pocType = 0 /\ h.reference
    IN  [prevFrameNumOffset |-> IF mmco5 THEN 0 ELSE poc.offset,
         prevFrameNum |-> IF mmco5 THEN 0 ELSE h.frameNum,
         prevMsb |-> CASE ~anchor -> ps.prevMsb
                       [] anchor /\ mmco5 -> 0
                       [] OTHER -> poc.msb,
         prevLsb |-> CASE ~anchor -> ps.prevLsb
                       [] anchor /\ ~mmco5 -> h.lsb
                       [] OTHER -> IF h.structure = "BottomField" THEN 0
                                   ELSE AfterMmco5(poc, h.structure).top]

=============================================================================
