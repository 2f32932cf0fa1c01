--------------------------- MODULE HevcSyncProofs ---------------------------
(***************************************************************************)
(* HevcDpb between an encoder and a receiver that joins anywhere and drops *)
(* what may be dropped: its counts and its reference lists are the         *)
(* encoder's, for every cycle length, profile and bound.                   *)
(*                                                                         *)
(* The counts come first (SyncInv).  The lists follow in three steps: a    *)
(* set names its pictures uniquely (SetFound), what begin_picture stores   *)
(* is what the encoder still holds (BegunStores), and a receiver in step   *)
(* has every picture that it did not drop (RefsInv).                       *)
(***************************************************************************)
EXTENDS HevcSync, HevcRpsProofs

-----------------------------------------------------------------------------
(* Arithmetic *)

\* Division with remainder by a positive number.
LEMMA Remainder ==
  ASSUME NEW v \in Int, NEW m \in Nat \ {0}
  PROVE  v % m \in 0 .. m - 1 /\ v \div m \in Int /\ v = m * (v \div m) + (v % m)
  OBVIOUS

\* A multiple of m between -2m and 2m.
LEMMA Multiples ==
  ASSUME NEW m \in Nat \ {0}, NEW d \in Int, -2 * m < m * d, m * d < 2 * m
  PROVE  d \in {-1, 0, 1}
  <1>1. CASE d >= 2
    <2>1. m * (d - 2) >= 0 /\ m * (d - 2) = m * d - 2 * m
      BY <1>1
    <2> QED
      BY <2>1
  <1>2. CASE d <= -2
    <2>1. m * (-2 - d) >= 0 /\ m * (-2 - d) = -2 * m - m * d
      BY <1>2
    <2> QED
      BY <2>1
  <1> QED
    BY <1>1, <1>2

LEMMA WrapsNothing ==
  ASSUME NEW x \in Int, -PocLimit <= x, x < PocLimit
  PROVE  Wrap(x) = x
  <1>1. PocLimit \in Nat \ {0}
    BY RpsAssumption
  <1>2. x + PocLimit \in 0 .. 2 * PocLimit - 1
    BY <1>1
  <1>3. (x + PocLimit) % (2 * PocLimit) = x + PocLimit
    BY <1>1, <1>2
  <1> QED
    BY <1>1, <1>3 DEF Wrap

-----------------------------------------------------------------------------
(* The invariant *)

Cycle == SyncSps.maxLsb

Multiple(x) == x \in Int /\ \E k \in Int : x = Cycle * k

\* HevcDpb is a struct of these fields.
IsStruct(d) ==
    /\ d = [pics |-> d.pics, prevLsb |-> d.prevLsb, prevMsb |-> d.prevMsb,
            afterEos |-> d.afterEos, started |-> d.started,
            irapNoRaslOutput |-> d.irapNoRaslOutput, nextKey |-> d.nextKey,
            pending |-> d.pending]
    /\ d.nextKey \in Nat

\* A receiver that gets the stream knows how its last IRAP picture came.
FlagsKnown ==
    /\ IsStruct(dec)
    /\ arrived => tuned
    /\ tuned => dec.started /\ ~dec.afterEos /\ dec.irapNoRaslOutput = restarted

\* It counts from the encoder's anchor, whole cycles away.
AnchorKnown ==
    /\ profile \in Profiles /\ layer \in Nat
    /\ anchor \in -profile.span .. profile.span
    /\ tuned => /\ Multiple(offset) /\ offset \in 1 - (profile.span + Cycle) .. profile.span
                /\ Multiple(dec.prevMsb) /\ dec.prevLsb \in 0 .. Cycle - 1
                /\ dec.prevMsb + dec.prevLsb = anchor - offset

SyncInv == FlagsKnown /\ AnchorKnown /\ CountsAgree /\ SkipsExactly

HalfCycle == Cycle \div 2

LEMMA Cycles ==
    /\ Cycle \in Nat \ {0} /\ HalfCycle \in Nat \ {0} /\ Cycle = 2 * HalfCycle
    /\ PocLimit \in Nat \ {0}
    /\ Multiple(0)
  <1> DEFINE m == Cycle
  <1>1. m \in Nat \ {0} /\ m % 2 = 0 /\ PocLimit \in Nat \ {0}
    BY SyncAssumption, RpsAssumption DEF Cycle, Sps
  <1>2. 0 = m * 0
    BY <1>1
  <1>3. Multiple(0)
    BY <1>2 DEF Multiple
  <1> HIDE DEF m
  <1>4. m \div 2 \in Nat \ {0} /\ m = 2 * (m \div 2)
    BY <1>1
  <1> QED
    BY <1>1, <1>3, <1>4 DEF m, HalfCycle

\* The bounds of a profile.
LEMMA Spans ==
  ASSUME NEW p \in Profiles
  PROVE  p.span \in Nat /\ 2 * p.span + Cycle <= PocLimit
  BY SyncAssumption DEF Profile, Cycle

-----------------------------------------------------------------------------
(* The calls *)

LEMMA SettledParts ==
  ASSUME NEW d, IsStruct(d)
  PROVE  /\ IsStruct(Settled(d))
         /\ Settled(d).prevLsb = d.prevLsb /\ Settled(d).prevMsb = d.prevMsb
         /\ Settled(d).afterEos = d.afterEos /\ Settled(d).started = d.started
         /\ Settled(d).irapNoRaslOutput = d.irapNoRaslOutput
         /\ Settled(d).nextKey = d.nextKey
  <1>1. CASE d.pending = NoPicture
    BY <1>1 DEF Settled
  <1>2. CASE d.pending # NoPicture
    <2> DEFINE e == Finished(d)
    <2>1. d = [pics |-> d.pics, prevLsb |-> d.prevLsb, prevMsb |-> d.prevMsb,
               afterEos |-> d.afterEos, started |-> d.started,
               irapNoRaslOutput |-> d.irapNoRaslOutput, nextKey |-> d.nextKey,
               pending |-> d.pending]
      BY DEF IsStruct
    <2>2. PICK pics : e = [d EXCEPT !.pending = NoPicture, !.pics = pics]
      BY DEF Finished
    <2> HIDE DEF e
    <2>3. e = [pics |-> pics, prevLsb |-> d.prevLsb, prevMsb |-> d.prevMsb,
               afterEos |-> d.afterEos, started |-> d.started,
               irapNoRaslOutput |-> d.irapNoRaslOutput, nextKey |-> d.nextKey,
               pending |-> NoPicture]
      BY <2>1, <2>2
    <2>4. Settled(d) = e
      BY <1>2 DEF Settled, e
    <2> QED
      BY <2>3, <2>4 DEF IsStruct
  <1> QED
    BY <1>1, <1>2

\* What a call of begin_picture leaves, and what it returns.
LEMMA ReceivedParts ==
  ASSUME NEW d, IsStruct(d), NEW h, NEW v, Receive(d, h, v)
  PROVE  /\ IsStruct(dec') /\ tuned' /\ arrived'
         /\ dec'.started /\ ~dec'.afterEos
         /\ dec'.irapNoRaslOutput = IF IsIrap(h.type) THEN NoRaslOutput(d, h) ELSE d.irapNoRaslOutput
         /\ dec'.pending = NoPicture <=> Skips(d, h)
         /\ ~Skips(d, h) => dec'.pending.poc = PocOf(d, SyncSps, h)
         /\ dec'.prevLsb = IF ~Skips(d, h) /\ IsTid0Anchor(h) THEN h.lsb ELSE d.prevLsb
         /\ dec'.prevMsb = IF ~Skips(d, h) /\ IsTid0Anchor(h) THEN Wrap(PocMsb(d, SyncSps, h)) ELSE d.prevMsb
  <1> DEFINE flag == IF IsIrap(h.type) THEN NoRaslOutput(d, h) ELSE d.irapNoRaslOutput
             a == Announced(d, h)
             b == Begun(d, SyncSps, h)
             yes == TRUE
             no == FALSE
  <1>1. d = [pics |-> d.pics, prevLsb |-> d.prevLsb, prevMsb |-> d.prevMsb,
             afterEos |-> d.afterEos, started |-> d.started,
             irapNoRaslOutput |-> d.irapNoRaslOutput, nextKey |-> d.nextKey,
             pending |-> d.pending]
        /\ d.nextKey \in Nat
    BY DEF IsStruct
  <1>2. a = [d EXCEPT !.pending = NoPicture, !.irapNoRaslOutput = flag, !.started = yes, !.afterEos = no]
    BY DEF Announced
  <1>3. dec' = IF Skips(d, h) THEN a ELSE b
    BY DEF Receive
  <1>4. tuned' /\ arrived'
    BY DEF Receive
  <1>5. yes /\ ~no
    OBVIOUS
  <1> HIDE DEF flag, yes, no
  <1>6. a = [pics |-> d.pics, prevLsb |-> d.prevLsb, prevMsb |-> d.prevMsb,
             afterEos |-> no, started |-> yes, irapNoRaslOutput |-> flag, nextKey |-> d.nextKey,
             pending |-> NoPicture]
    BY <1>1, <1>2
  <1>7. CASE Skips(d, h)
    <2> HIDE DEF a, b
    <2> QED
      BY <1>1, <1>3, <1>4, <1>5, <1>6, <1>7 DEF IsStruct, flag
  <1>8. CASE ~Skips(d, h)
    <2> DEFINE rps == RpsOf(d, SyncSps, h)
               msb == Wrap(PocMsb(d, SyncSps, h))
               lsbKept == IF IsTid0Anchor(h) THEN h.lsb ELSE d.prevLsb
               msbKept == IF IsTid0Anchor(h) THEN msb ELSE d.prevMsb
               p == [key |-> d.nextKey, poc |-> PocOf(d, SyncSps, h), msb |-> msb,
                     irap |-> IsIrap(h.type), noRaslOutput |-> NoRaslOutput(d, h),
                     rps |-> rps, temporalId |-> h.temporalId,
                     referenceable |-> SyncSps.maxDecPicBufferingMinus1 > 0]
               kept == Retained(Available(d, h), rps)
    <2>1. b = [a EXCEPT !.prevLsb = IF IsTid0Anchor(h) THEN h.lsb ELSE @,
                        !.prevMsb = IF IsTid0Anchor(h) THEN msb ELSE @,
                        !.pics = kept, !.nextKey = @ + 1, !.pending = p]
      BY DEF Begun
    <2>2. p.poc = PocOf(d, SyncSps, h) /\ p.key = d.nextKey
      OBVIOUS
    <2>3. p # NoPicture
      BY <1>1, <2>2, RpsAssumption DEF NoPicture
    <2> HIDE DEF a, b, p, kept, rps, msb
    <2>4. b = [pics |-> kept, prevLsb |-> lsbKept, prevMsb |-> msbKept,
               afterEos |-> no, started |-> yes, irapNoRaslOutput |-> flag, nextKey |-> d.nextKey + 1,
               pending |-> p]
      BY <1>6, <2>1
    <2> QED
      BY <1>1, <1>3, <1>4, <1>5, <1>8, <2>2, <2>3, <2>4 DEF IsStruct, flag, msb
  <1> QED
    BY <1>7, <1>8
-----------------------------------------------------------------------------
(* The steps *)

\* A picture whose count is derived as it was meant: what the receiver keeps of it.
LEMMA CountKept ==
  ASSUME NEW d, IsStruct(d), NEW h, NEW u, Receive(d, h, u),
         profile \in Profiles, NEW v \in -profile.span .. profile.span, h.lsb = v % Cycle,
         NEW o, Multiple(o), o \in 1 - (profile.span + Cycle) .. profile.span,
         PocOf(d, SyncSps, h) = v - o, PocMsb(d, SyncSps, h) \in Int
  PROVE  /\ h.lsb \in 0 .. Cycle - 1
         /\ Multiple(Wrap(PocMsb(d, SyncSps, h)))
         /\ Wrap(PocMsb(d, SyncSps, h)) + h.lsb = v - o
         /\ dec'.pending # NoPicture => dec'.pending.poc = v - o
  <1> DEFINE m == Cycle
             lsb == h.lsb
             q == v \div m
             msb == PocMsb(d, SyncSps, h)
  <1>1. m \in Nat \ {0} /\ PocLimit \in Nat \ {0}
    BY Cycles
  <1>2. profile.span \in Nat /\ 2 * profile.span + m <= PocLimit
    BY Spans
  <1>3. lsb \in 0 .. m - 1 /\ q \in Int /\ v = m * q + lsb
    <2>1. v \in Int
      BY <1>2
    <2> QED
      BY <1>1, <2>1, Remainder
  <1>4. msb + lsb = v - o
    BY DEF PocOf
  <1>5. PICK j \in Int : o = m * j
    BY DEF Multiple
  <1>6. ~Skips(d, h) => dec'.pending.poc = v - o
    BY ReceivedParts
  <1>7. dec'.pending # NoPicture => ~Skips(d, h)
    BY ReceivedParts
  <1>8. msb \in Int
    OBVIOUS
  <1> HIDE DEF m, lsb, q, msb
  <1>9. v \in Int /\ -profile.span <= v /\ v <= profile.span
    BY <1>2
  <1>10. o \in Int /\ 1 - (profile.span + m) <= o /\ o <= profile.span
    BY <1>1, <1>2 DEF m
  <1>11. msb = m * (q - j) /\ q - j \in Int
    BY <1>1, <1>3, <1>4, <1>5, <1>8
  <1>12. -PocLimit <= msb /\ msb < PocLimit
    BY <1>1, <1>2, <1>3, <1>4, <1>8, <1>9, <1>10
  <1>13. Wrap(msb) = msb
    BY <1>8, <1>12, WrapsNothing
  <1>14. Multiple(msb)
    BY <1>8, <1>11 DEF Multiple, m
  <1> QED
    BY <1>3, <1>4, <1>6, <1>7, <1>13, <1>14 DEF m, lsb, msb

\* The types of pictures that are sent, and what a BLA picture is taken for.
LEMMA Types ==
  ASSUME profile \in Profiles, NEW t \in profile.types
  PROVE  /\ t \in {0, 1, 7, 9, 19, 21}
         /\ IsIrap(t) <=> t \in {19, 21}
         /\ IsIdr(t) <=> t = 19
         /\ IsRasl(t) <=> t = 9
         /\ ~IsBla(t)
         /\ RoleOf(t) = "Rasl" <=> t = 9
         /\ RoleOf(t) = "Irap" <=> t \in {19, 21}
  <1>1. t \in {0, 1, 7, 9, 19, 21}
    BY SyncAssumption DEF Profile
  <1> QED
    BY <1>1 DEF IsIrap, IsIdr, IsRasl, IsBla, RoleOf, IsRadl

\* What the encoder chose for the picture it writes.
Chosen(t, v, tid) ==
    /\ t \in profile.types /\ tid \in Nat
    /\ v \in -profile.span .. profile.span
    /\ MayHaveCount(t, v)
    /\ IsIrap(t) => tid = 0

\* Its header, as far as the counts go.
Tells(h, t, v, tid) == h.type = t /\ h.temporalId = tid /\ h.lsb = v % Cycle

Anchors(t, tid) == tid = 0 /\ t \notin {0, 7, 9}

\* What the encoder does.
Writes(t, v, tid) ==
    /\ anchor' = IF Anchors(t, tid) THEN v ELSE anchor
    /\ sent'.poc = v /\ sent'.role = RoleOf(t)
    /\ profile' = profile /\ layer' = layer

LEMMA AnchorsBothWays ==
  ASSUME NEW t \in {0, 1, 7, 9, 16, 19, 21}, NEW tid, NEW h, h.type = t, h.temporalId = tid
  PROVE  IsTid0Anchor(h) <=> Anchors(t, tid)
  <1>1. IsSubLayerNonReference(t) <=> t = 0
    BY DEF IsSubLayerNonReference
  <1> QED
    BY <1>1 DEF IsTid0Anchor, Anchors, IsRasl, IsRadl

\* A picture that arrives leaves the receiver in step when its count is derived as it
\* was meant.
LEMMA Arrives ==
  ASSUME SyncInv, NEW t, NEW v, NEW tid, Chosen(t, v, tid), Writes(t, v, tid),
         NEW d, IsStruct(d), NEW h, Receive(d, h, v), NEW type \in {t, 16}, Tells(h, type, v, tid),
         type = 16 => t = 21,
         Multiple(offset'), offset' \in 1 - (profile.span + Cycle) .. profile.span,
         PocOf(d, SyncSps, h) = v - offset', PocMsb(d, SyncSps, h) \in Int,
         ~Anchors(t, tid) => /\ Multiple(d.prevMsb) /\ d.prevLsb \in 0 .. Cycle - 1
                             /\ d.prevMsb + d.prevLsb = anchor - offset',
         IsIrap(t) => restarted' = NoRaslOutput(d, h),
         ~IsIrap(t) => restarted' = d.irapNoRaslOutput
  PROVE  SyncInv'
  <1>1. profile \in Profiles /\ layer \in Nat /\ anchor \in -profile.span .. profile.span
    BY DEF SyncInv, AnchorKnown
  <1>2. /\ t \in {0, 1, 7, 9, 19, 21} /\ h.type = type /\ h.temporalId = tid /\ h.lsb = v % Cycle
        /\ v \in -profile.span .. profile.span
    BY <1>1, Types DEF Chosen, Tells
  <1>3. IsTid0Anchor(h) <=> Anchors(t, tid)
    <2>1. type \in {0, 1, 7, 9, 16, 19, 21}
      BY <1>2
    <2>2. Anchors(type, tid) <=> Anchors(t, tid)
      BY DEF Anchors
    <2> QED
      BY <1>2, <2>1, <2>2, AnchorsBothWays
  <1>4. /\ IsIrap(h.type) <=> IsIrap(t)
        /\ IsRasl(h.type) <=> t = 9
        /\ sent'.role = "Rasl" <=> t = 9
        /\ IsIrap(t) => t # 9
    <2>1. /\ IsIrap(t) <=> t \in {19, 21}
          /\ IsRasl(t) <=> t = 9
          /\ RoleOf(t) = "Rasl" <=> t = 9
      BY <1>1, Types DEF Chosen
    <2>2. IsIrap(16) /\ ~IsRasl(16)
      BY DEF IsIrap, IsRasl
    <2> QED
      BY <1>2, <2>1, <2>2 DEF Writes
  <1>5. Announced(d, h).irapNoRaslOutput = IF IsIrap(h.type) THEN NoRaslOutput(d, h) ELSE d.irapNoRaslOutput
    BY DEF Announced, IsStruct
  <1>6. Skips(d, h) <=> t = 9 /\ restarted'
    BY <1>4, <1>5 DEF Skips
  <1>7. FlagsKnown'
    BY <1>4, ReceivedParts DEF FlagsKnown
  <1>8. SkipsExactly'
    BY <1>4, <1>6, ReceivedParts DEF SkipsExactly
  <1>9. /\ h.lsb \in 0 .. Cycle - 1
        /\ Multiple(Wrap(PocMsb(d, SyncSps, h)))
        /\ Wrap(PocMsb(d, SyncSps, h)) + h.lsb = v - offset'
        /\ dec'.pending # NoPicture => dec'.pending.poc = v - offset'
    BY <1>1, <1>2, CountKept
  <1>10. CountsAgree'
    BY <1>9 DEF CountsAgree, Decoding, Writes
  <1>11. Anchors(t, tid) => t # 9
    BY DEF Anchors
  <1>12. /\ dec'.prevLsb = IF Anchors(t, tid) THEN h.lsb ELSE d.prevLsb
         /\ dec'.prevMsb = IF Anchors(t, tid) THEN Wrap(PocMsb(d, SyncSps, h)) ELSE d.prevMsb
    BY <1>3, <1>6, <1>11, ReceivedParts
  <1>13. /\ anchor' = (IF Anchors(t, tid) THEN v ELSE anchor)
         /\ profile' = profile /\ layer' = layer
    BY DEF Writes
  <1>14. anchor' \in -profile'.span .. profile'.span
    BY <1>1, <1>2, <1>13
  <1>15. Cycle' = Cycle
    BY DEF Cycle
  <1>16. Multiple(dec'.prevMsb) /\ dec'.prevLsb \in 0 .. Cycle - 1 /\ dec'.prevMsb + dec'.prevLsb = anchor' - offset'
    BY <1>9, <1>12, <1>13
  <1>17. AnchorKnown'
    BY <1>1, <1>13, <1>14, <1>16 DEF AnchorKnown, Multiple, Cycle
  <1> QED
    BY <1>7, <1>8, <1>10, <1>17 DEF SyncInv

LEMMA RestartsAtZero ==
  ASSUME NEW d, NEW h
  PROVE  /\ NoRaslOutput(d, h) \in BOOLEAN
         /\ NoRaslOutput(d, h) => PocMsb(d, SyncSps, h) = 0
  <1>1. NoRaslOutput(d, h) \in BOOLEAN
    BY DEF NoRaslOutput
  <1> QED
    BY <1>1 DEF PocMsb

\* Without a restart the count derived is the one with its lsb that is within half a
\* cycle of the previous anchor, where the receiver is whole cycles from the encoder.
LEMMA NearestCount ==
  ASSUME NEW d, Multiple(d.prevMsb), d.prevLsb \in 0 .. Cycle - 1, NEW h, ~NoRaslOutput(d, h),
         NEW v \in Int, h.lsb = v % Cycle, NEW o, Multiple(o),
         NEW a \in Int, d.prevMsb + d.prevLsb = a - o, -HalfCycle < v - a, v - a <= HalfCycle
  PROVE  PocMsb(d, SyncSps, h) + h.lsb = v - o
  <1> DEFINE m == Cycle
             half == HalfCycle
             q == v \div m
             lsb == v % m
             pl == d.prevLsb
             pm == d.prevMsb
  <1>1. half \in Nat \ {0} /\ m = 2 * half /\ SyncSps.maxLsb = m /\ m \in Nat \ {0} /\ m \div 2 = half
    BY Cycles DEF Cycle
  <1>2. PICK k \in Int : pm = m * k
    BY DEF Multiple
  <1>3. PICK j \in Int : o = m * j
    BY DEF Multiple
  <1>4. q \in Int /\ lsb \in 0 .. m - 1 /\ v = m * q + lsb
    BY <1>1, Remainder
  <1>5. h.lsb = lsb /\ pl \in 0 .. m - 1 /\ o \in Int /\ pm \in Int
    BY DEF Multiple
  <1>6. -half < v - a /\ v - a <= half /\ pm + pl = a - o
    OBVIOUS
  <1>7. PocMsb(d, SyncSps, h) = CASE lsb < pl /\ pl - lsb >= half -> pm + m
                              [] lsb > pl /\ lsb - pl > half -> pm - m
                              [] OTHER -> pm
    BY <1>1, <1>5 DEF PocMsb
  <1> HIDE DEF m, half, q, lsb, pl, pm
  <1> DEFINE e == q - j - k
             step == m * e
  <1>8. e \in Int /\ step \in Int /\ v - o = pm + step + lsb
    BY <1>1, <1>2, <1>3, <1>4, <1>5
  <1>9. v - o \in Int /\ -half < v - o - (pm + pl) /\ v - o - (pm + pl) <= half
    BY <1>1, <1>5, <1>6
  <1>10. e \in {-1, 0, 1}
    <2> HIDE DEF step
    <2>1. -2 * m < step /\ step < 2 * m
      BY <1>1, <1>4, <1>5, <1>8, <1>9
    <2> HIDE DEF e
    <2> QED
      BY <1>1, <1>8, <2>1, Multiples DEF step
  <1> HIDE DEF e
  <1>11. step \in {-m, 0, m}
    BY <1>1, <1>10
  <1> HIDE DEF step
  <1> QED
    BY <1>1, <1>4, <1>5, <1>7, <1>8, <1>9, <1>11

LEMMA DeliverKeeps ==
  ASSUME SyncInv, NEW t, NEW v, NEW tid, Chosen(t, v, tid), Writes(t, v, tid),
         NEW h, Tells(h, t, v, tid), Deliver(h, v)
  PROVE  SyncInv'
  <1> DEFINE d == Settled(dec)
             m == Cycle
  <1>1. /\ tuned /\ Receive(d, h, v)
        /\ offset' = IF IsIdr(h.type) THEN 0 ELSE offset
        /\ restarted' = IF IsIrap(h.type) THEN IsIdr(h.type) ELSE restarted
    BY DEF Deliver
  <1>2. /\ IsStruct(d) /\ d.prevLsb = dec.prevLsb /\ d.prevMsb = dec.prevMsb
        /\ d.started /\ ~d.afterEos /\ d.irapNoRaslOutput = restarted
    BY <1>1, SettledParts DEF SyncInv, FlagsKnown
  <1>3. /\ profile \in Profiles /\ anchor \in -profile.span .. profile.span
        /\ Multiple(offset) /\ offset \in 1 - (profile.span + Cycle) .. profile.span
        /\ Multiple(d.prevMsb) /\ d.prevLsb \in 0 .. Cycle - 1
        /\ d.prevMsb + d.prevLsb = anchor - offset
    BY <1>1, <1>2 DEF SyncInv, AnchorKnown
  <1>4. h.type = t /\ h.temporalId = tid /\ h.lsb = v % m /\ v \in -profile.span .. profile.span
    BY DEF Tells, Chosen
  <1>5. /\ IsIrap(t) <=> t \in {19, 21}
        /\ IsIdr(t) <=> t = 19
        /\ ~IsBla(t)
    BY <1>3, Types DEF Chosen
  <1>6. profile.span \in Nat /\ m \in Nat \ {0} /\ Multiple(0)
    BY <1>3, Spans, Cycles
  <1>7. d.prevMsb \in Int
    BY <1>3 DEF Multiple
  <1>8. NoRaslOutput(d, h) <=> t = 19
    BY <1>2, <1>4, <1>5 DEF NoRaslOutput
  <1>9. IsIrap(t) => restarted' = NoRaslOutput(d, h)
    <2>1. NoRaslOutput(d, h) \in BOOLEAN /\ IsIdr(h.type) \in BOOLEAN
      BY RestartsAtZero DEF IsIdr
    <2>2. IsIdr(h.type) <=> NoRaslOutput(d, h)
      BY <1>4, <1>5, <1>8
    <2> QED
      BY <1>1, <1>4, <2>1, <2>2
  <1>10. ~IsIrap(t) => restarted' = d.irapNoRaslOutput
    BY <1>1, <1>2, <1>4
  <1>11. /\ PocMsb(d, SyncSps, h) \in Int
         /\ NoRaslOutput(d, h) => PocMsb(d, SyncSps, h) = 0
    <2>1. PocMsb(d, SyncSps, h) \in {0, d.prevMsb, d.prevMsb + Cycle, d.prevMsb - Cycle}
      BY RestartsAtZero DEF PocMsb, Cycle
    <2> QED
      BY <1>6, <1>7, <2>1, RestartsAtZero
  <1>14. t # 16
    BY <1>3, Types DEF Chosen
  <1>12. CASE t = 19
    <2>1. v = 0 /\ Anchors(t, tid)
      <3>1. RoleOf(t) = "Irap"
        BY <1>3, <1>12, Types DEF Chosen
      <3>2. tid = 0
        BY <1>5, <1>12 DEF Chosen
      <3> QED
        BY <1>12, <3>1, <3>2 DEF Chosen, MayHaveCount, Anchors
    <2>2. 0 % m = 0
      BY <1>6
    <2>3. PocOf(d, SyncSps, h) = v - offset'
      BY <1>1, <1>4, <1>5, <1>8, <1>11, <1>12, <2>1, <2>2 DEF PocOf
    <2>4. offset' = 0 /\ 0 \in 1 - (profile.span + Cycle) .. profile.span
      BY <1>1, <1>4, <1>5, <1>6, <1>12
    <2>5. Multiple(offset') /\ offset' \in 1 - (profile.span + Cycle) .. profile.span
      BY <1>6, <2>4
    <2> HIDE DEF d
    <2> QED
      BY <1>1, <1>2, <1>9, <1>10, <1>11, <1>14, <2>1, <2>3, <2>5, Arrives
  <1>13. CASE t # 19
    <2>1. offset' = offset
      BY <1>1, <1>4, <1>5, <1>13
    <2>2. v \in Int
      BY <1>4, <1>6
    <2>3. -HalfCycle < v - anchor /\ v - anchor <= HalfCycle
      BY <1>13 DEF Chosen, MayHaveCount, InReach, HalfCycle, Cycle
    <2>4. ~NoRaslOutput(d, h)
      BY <1>8, <1>13
    <2>5. anchor \in Int
      BY <1>3, <1>6
    <2> HIDE DEF d
    <2>6. PocMsb(d, SyncSps, h) + h.lsb = v - offset
      BY <1>3, <1>4, <2>2, <2>3, <2>4, <2>5, NearestCount
    <2>7. PocOf(d, SyncSps, h) = v - offset'
      BY <2>1, <2>6 DEF PocOf
    <2> QED
      BY <1>1, <1>2, <1>3, <1>9, <1>10, <1>11, <1>14, <2>1, <2>7, Arrives
  <1> QED
    BY <1>12, <1>13

LEMMA DeliverRestartKeeps ==
  ASSUME SyncInv, NEW t, NEW v, NEW tid, Chosen(t, v, tid), Writes(t, v, tid),
         NEW h, Tells(h, t, v, tid), DeliverRestart(h, v),
         Tells([h EXCEPT !.type = IF h.type = 21 THEN 16 ELSE @], IF t = 21 THEN 16 ELSE t, v, tid)
  PROVE  SyncInv'
  <1> DEFINE m == Cycle
             h2 == [h EXCEPT !.type = IF h.type = 21 THEN 16 ELSE @]
             d2 == [Settled(dec) EXCEPT !.afterEos = TRUE]
  <1>1. /\ IsIrap(h.type) /\ offset' = v - h.lsb /\ restarted' = TRUE
        /\ \/ Receive(Fresh(dec.nextKey), h, v)
           \/ Receive(d2, h, v)
           \/ Receive(Settled(dec), h2, v)
    BY DEF DeliverRestart
  <1>2. profile \in Profiles /\ IsStruct(dec)
    BY DEF SyncInv, FlagsKnown, AnchorKnown
  <1>3. profile.span \in Nat /\ m \in Nat \ {0}
    BY <1>2, Spans, Cycles
  <1>4. h.type = t /\ h.temporalId = tid /\ h.lsb = v % m /\ v \in -profile.span .. profile.span
    BY DEF Tells, Chosen
  <1>5. /\ t \in {19, 21}
        /\ IsIdr(19) /\ IsBla(16)
    BY <1>1, <1>2, <1>4, Types DEF Chosen, IsIdr, IsBla
  <1>6. Anchors(t, tid) /\ IsIrap(t)
    BY <1>1, <1>4, <1>5 DEF Chosen, Anchors
  <1>7. /\ Multiple(offset') /\ offset' \in 1 - (profile.span + Cycle) .. profile.span
        /\ v - offset' = v % m
    <2> DEFINE q == v \div m
               lsb == v % m
    <2>1. v \in Int
      BY <1>3, <1>4
    <2>2. q \in Int /\ lsb \in 0 .. m - 1 /\ v = m * q + lsb
      BY <1>3, <2>1, Remainder
    <2>3. offset' = v - lsb
      BY <1>1, <1>4
    <2> HIDE DEF q, lsb, m
    <2>4. offset' = m * q /\ offset' \in Int
      BY <1>3, <2>1, <2>2, <2>3
    <2>5. v - offset' = lsb
      BY <2>1, <2>2, <2>3
    <2>6. offset' \in 1 - (profile.span + m) .. profile.span
      BY <1>3, <1>4, <2>1, <2>2, <2>3
    <2> QED
      BY <2>2, <2>4, <2>5, <2>6 DEF Multiple, m, lsb
  \* Every way to restart sets the flag, and the count is the lsb.
  <1>8. ASSUME NEW d, IsStruct(d), NEW g, NEW type \in {t, 16}, type = 16 => t = 21,
               Tells(g, type, v, tid), NoRaslOutput(d, g), Receive(d, g, v)
        PROVE  SyncInv'
    <2>1. NoRaslOutput(d, g) = TRUE /\ PocMsb(d, SyncSps, g) = 0 /\ g.lsb = v % m
      BY <1>8, RestartsAtZero DEF Tells
    <2>2. v % m \in Int
      BY <1>3, <1>4, Remainder
    <2>3. PocOf(d, SyncSps, g) = v - offset'
      BY <1>7, <2>1, <2>2 DEF PocOf
    <2>4. restarted' = NoRaslOutput(d, g) /\ PocMsb(d, SyncSps, g) \in Int
      BY <1>1, <2>1
    <2> QED
      BY <1>6, <1>7, <1>8, <2>3, <2>4, Arrives
  <1>9. t # 16 /\ t \in {t, 16}
    BY <1>5
  <1>10. CASE Receive(Fresh(dec.nextKey), h, v)
    <2> DEFINE d == Fresh(dec.nextKey)
    <2>1. IsStruct(d) /\ ~d.started
      BY <1>2 DEF IsStruct, Fresh
    <2>2. NoRaslOutput(d, h)
      BY <1>1, <2>1 DEF NoRaslOutput
    <2>3. Receive(d, h, v)
      BY <1>10
    <2> HIDE DEF d
    <2> QED
      BY <1>8, <1>9, <2>1, <2>2, <2>3
  <1>11. CASE Receive(d2, h, v)
    <2> DEFINE e == Settled(dec)
               yes == TRUE
    <2>1. IsStruct(e) /\ yes /\ d2 = [e EXCEPT !.afterEos = yes]
      BY <1>2, SettledParts
    <2> HIDE DEF d2, e, yes
    <2>2. d2 = [pics |-> e.pics, prevLsb |-> e.prevLsb, prevMsb |-> e.prevMsb,
                afterEos |-> yes, started |-> e.started,
                irapNoRaslOutput |-> e.irapNoRaslOutput, nextKey |-> e.nextKey,
                pending |-> e.pending]
      BY <2>1 DEF IsStruct
    <2>3. IsStruct(d2) /\ d2.afterEos
      BY <2>1, <2>2 DEF IsStruct
    <2>4. NoRaslOutput(d2, h)
      BY <1>1, <2>3 DEF NoRaslOutput
    <2> QED
      BY <1>8, <1>9, <1>11, <2>3, <2>4
  <1>12. CASE Receive(Settled(dec), h2, v)
    <2> DEFINE e == Settled(dec)
               type == IF t = 21 THEN 16 ELSE t
    <2>1. IsStruct(e)
      BY <1>2, SettledParts
    <2>2. /\ type \in {t, 16} /\ Tells(h2, type, v, tid)
          /\ type = 16 => t = 21
          /\ type \in {16, 19}
      BY <1>5
    <2>3. h2.type = type
      BY <2>2 DEF Tells
    <2>4. NoRaslOutput(e, h2)
      BY <2>2, <2>3 DEF NoRaslOutput, IsIrap, IsIdr, IsBla
    <2> HIDE DEF e, h2, type
    <2>5. Receive(e, h2, v)
      BY <1>12 DEF e
    <2> QED
      BY <1>8, <2>1, <2>2, <2>4, <2>5
  <1> QED
    BY <1>1, <1>10, <1>11, <1>12

\* What is dropped is no anchor.
LEMMA DropKeeps ==
  ASSUME SyncInv, NEW t, NEW v, NEW tid, Chosen(t, v, tid), Writes(t, v, tid), Drop(t, tid)
  PROVE  SyncInv'
  <1>1. /\ tuned /\ arrived' = FALSE
        /\ dec' = dec /\ offset' = offset /\ tuned' = tuned /\ restarted' = restarted
        /\ tid > layer \/ (tid = layer /\ t = 0)
    BY DEF Drop
  <1>2. layer \in Nat /\ tid \in Nat
    BY DEF SyncInv, AnchorKnown, Chosen
  <1>3. ~Anchors(t, tid)
    BY <1>1, <1>2 DEF Anchors
  <1>4. anchor' = anchor /\ profile' = profile /\ layer' = layer
    BY <1>3 DEF Writes
  <1>5. FlagsKnown' /\ AnchorKnown'
    BY <1>1, <1>4 DEF SyncInv, FlagsKnown, AnchorKnown, IsStruct, Multiple, Cycle
  <1>6. CountsAgree' /\ SkipsExactly'
    BY <1>1 DEF CountsAgree, Decoding, SkipsExactly
  <1> QED
    BY <1>5, <1>6 DEF SyncInv

LEMMA LoseKeeps ==
  ASSUME SyncInv, NEW t, NEW v, NEW tid, Chosen(t, v, tid), Writes(t, v, tid), Lose
  PROVE  SyncInv'
  <1>1. arrived' = FALSE /\ tuned' = FALSE /\ dec' = dec
    BY DEF Lose
  <1>2. /\ profile' = profile /\ layer' = layer /\ anchor' \in {v, anchor}
        /\ v \in -profile.span .. profile.span
    BY DEF Writes, Chosen
  <1>3. anchor' \in -profile'.span .. profile'.span
    BY <1>2 DEF SyncInv, AnchorKnown
  <1>4. FlagsKnown' /\ AnchorKnown'
    BY <1>1, <1>2, <1>3 DEF SyncInv, FlagsKnown, AnchorKnown, IsStruct
  <1>5. CountsAgree' /\ SkipsExactly'
    BY <1>1 DEF CountsAgree, Decoding, SkipsExactly
  <1> QED
    BY <1>4, <1>5 DEF SyncInv

LEMMA CodeKeeps ==
  ASSUME SyncInv, NEW t, NEW v, NEW tid, Chosen(t, v, tid),
         NEW used, NEW kept, NEW long, Code(t, v, tid, used, kept, long)
  PROVE  SyncInv'
  <1> DEFINE h == SliceHeader(t, v, tid, used, kept, long)
             h2 == [h EXCEPT !.type = IF h.type = 21 THEN 16 ELSE @]
             type == IF t = 21 THEN 16 ELSE t
  <1>1. /\ Encode(t, v, tid, used, kept, long)
        /\ profile' = profile /\ layer' = layer
        /\ Deliver(h, v) \/ DeliverRestart(h, v) \/ Drop(t, tid) \/ Lose
    BY DEF Code
  <1>2. Writes(t, v, tid)
    BY <1>1 DEF Encode, Writes, Anchors
  <1>3. PICK s0, s1, longTerm :
          h = [type |-> t, layerId |-> 0, dependent |-> FALSE, temporalId |-> tid,
               lsb |-> v % SyncSps.maxLsb, s0 |-> s0, s1 |-> s1, longTerm |-> longTerm]
    BY DEF SliceHeader
  <1> HIDE DEF h
  <1>4. Tells(h, t, v, tid)
    BY <1>3 DEF Tells, Cycle
  <1>5. Tells(h2, type, v, tid)
    BY <1>3 DEF Tells, Cycle
  <1> QED
    BY <1>1, <1>2, <1>4, <1>5, DeliverKeeps, DeliverRestartKeeps, DropKeeps, LoseKeeps

LEMMA SyncInitInv == Init => SyncInv
  <1> SUFFICES ASSUME Init
               PROVE  SyncInv
    OBVIOUS
  <1>1. /\ profile \in Profiles /\ layer \in 0 .. profile.topLayer /\ dec = Fresh(0)
        /\ tuned = FALSE /\ arrived = FALSE /\ anchor = 0
    BY DEF Init
  <1>2. profile.span \in Nat /\ profile.topLayer \in Nat
    BY <1>1, SyncAssumption DEF Profile
  <1>3. IsStruct(dec)
    BY <1>1 DEF IsStruct, Fresh
  <1> QED
    BY <1>1, <1>2, <1>3 DEF SyncInv, FlagsKnown, AnchorKnown, CountsAgree, Decoding, SkipsExactly

LEMMA SyncNextInv == SyncInv /\ [Next]_syncVars => SyncInv'
  <1> SUFFICES ASSUME SyncInv, [Next]_syncVars
               PROVE  SyncInv'
    OBVIOUS
  <1>1. CASE UNCHANGED syncVars
    BY <1>1 DEF syncVars, encoder, receiver, SyncInv, FlagsKnown, AnchorKnown, CountsAgree, Decoding,
                SkipsExactly, IsStruct, Multiple, Cycle
  <1>2. CASE Send
    <2>1. PICK t \in profile.types, v \in -profile.span .. profile.span, tid \in 0 .. profile.topLayer :
            /\ MayHaveCount(t, v)
            /\ IsIrap(t) => tid = 0
            /\ \E used, kept, long : Code(t, v, tid, used, kept, long)
      BY <1>2 DEF Send
    <2>2. Chosen(t, v, tid)
      BY <2>1 DEF Chosen
    <2> QED
      BY <2>1, <2>2, CodeKeeps
  <1> QED
    BY <1>1, <1>2 DEF Next, End

\* A receiver that joins at any IRAP picture, after losses, splices and ends of sequences,
\* and that drops sub-layers, stays a whole number of cycles from the encoder.
THEOREM SyncInvariance == Spec => []SyncInv
  <1> QED
    BY SyncInitInv, SyncNextInv, PTL DEF Spec

\* CountsAgree, for every cycle length, profile and bound: begin_picture of
\* hevc/dpb.rs derives the encoder's counts up to the offset of the last restart.
THEOREM HevcCountsAgreeAlways == Spec => []CountsAgree
  <1>1. SyncInv => CountsAgree
    BY DEF SyncInv
  <1> QED
    BY <1>1, SyncInvariance, PTL

\* SkipsExactly likewise: begin_picture skips exactly the RASL pictures of an IRAP
\* picture that restarted the receiver.
THEOREM SkipsExactlyAlways == Spec => []SkipsExactly
  <1>1. SyncInv => SkipsExactly
    BY DEF SyncInv
  <1> QED
    BY <1>1, SyncInvariance, PTL

-----------------------------------------------------------------------------
(* The references: lists *)

\* Ascending and Descending run through a finite set.
LEMMA OrderedCounts ==
  ASSUME NEW S, S \subseteq Int, IsFiniteSet(S)
  PROVE  Enumerates(Ascending(S), S, TRUE) /\ Enumerates(Descending(S), S, FALSE)
  <1> DEFINE n == Cardinality(S)
             InOrder(s, up) == \A i, j \in DOMAIN s : i < j => IF up THEN s[i] < s[j] ELSE s[i] > s[j]
  <1>1. n \in Nat /\ IsFiniteSet(1 .. n) /\ Cardinality(1 .. n) = n
    BY FS_CardinalityType, FS_Interval
  <1>2. ASSUME NEW up
        PROVE  \E s \in [1 .. n -> S] : InOrder(s, up)
    <2>1. PICK s : Enumerates(s, S, up) /\ Len(s) = n
      BY EnumerationExists
    <2>2. s \in Seq(S) /\ InOrder(s, up)
      BY <2>1 DEF Enumerates
    <2> HIDE DEF n, InOrder
    <2> QED
      BY <2>1, <2>2
  <1>3. ASSUME NEW up, NEW s \in [1 .. n -> S], InOrder(s, up)
        PROVE  Enumerates(s, S, up)
    <2>1. \A i, j \in 1 .. n : s[i] = s[j] => i = j
      <3> SUFFICES ASSUME NEW i \in 1 .. n, NEW j \in 1 .. n, s[i] = s[j], i < j
                   PROVE  FALSE
        BY <1>1
      <3>1. s[i] \in Int
        OBVIOUS
      <3>2. IF up THEN s[i] < s[j] ELSE s[i] > s[j]
        BY <1>3
      <3> QED
        BY <3>1, <3>2
    <2>2. s \in Injection(1 .. n, S)
      BY <2>1 DEF Injection, IsInjective
    <2>3. s \in Surjection(1 .. n, S)
      <3> HIDE DEF n
      <3>1. Cardinality(1 .. n) = Cardinality(S)
        BY <1>1 DEF n
      <3> QED
        BY <2>2, <3>1, FS_Injection
    <2>4. \A x \in S : \E i \in DOMAIN s : s[i] = x
      BY <2>3 DEF Surjection
    <2>5. s \in Seq(S)
      BY <1>1
    <2> QED
      BY <1>3, <2>4, <2>5 DEF Enumerates
  <1>4. Ascending(S) \in [1 .. n -> S] /\ InOrder(Ascending(S), TRUE)
    <2>1. PICK s \in [1 .. n -> S] : InOrder(s, TRUE)
      BY <1>2
    <2>2. \A i, j \in DOMAIN s : i < j => s[i] < s[j]
      BY <2>1
    <2>3. /\ Ascending(S) \in [1 .. n -> S]
          /\ \A i, j \in DOMAIN Ascending(S) : i < j => Ascending(S)[i] < Ascending(S)[j]
      BY <2>2 DEF Ascending
    <2> QED
      BY <2>3
  <1>5. Descending(S) \in [1 .. n -> S] /\ InOrder(Descending(S), FALSE)
    <2>1. PICK s \in [1 .. n -> S] : InOrder(s, FALSE)
      BY <1>2
    <2>2. \A i, j \in DOMAIN s : i < j => s[i] > s[j]
      BY <2>1
    <2>3. /\ Descending(S) \in [1 .. n -> S]
          /\ \A i, j \in DOMAIN Descending(S) : i < j => Descending(S)[i] > Descending(S)[j]
      BY <2>2 DEF Descending
    <2> QED
      BY <2>3
  <1> HIDE DEF InOrder, n
  <1> QED
    BY <1>3, <1>4, <1>5

\* list holds the entries of refs with the flag, and all of them.
PartOf(list, refs, used) ==
    /\ \A i \in DOMAIN list : \E j \in DOMAIN refs : refs[j].used = used /\ list[i] = refs[j]
    /\ \A j \in DOMAIN refs : refs[j].used = used => \E i \in DOMAIN list : list[i] = refs[j]

\* A flag selects the entries it is set in, and all of them.
LEMMA FlaggedParts ==
  ASSUME NEW R, NEW refs \in Seq(R), NEW used
  PROVE  PartOf(Flagged(refs, used), refs, used)
  <1> DEFINE list == Flagged(refs, used)
             J == {j \in DOMAIN refs : refs[j].used = used}
  <1>1. IsSelection(list, refs, used)
    BY FlaggedAre
  <1> HIDE DEF list
  <1>2. PICK e : Enumerates(e, J, TRUE) /\ list = [i \in DOMAIN e |-> refs[e[i]]]
    BY <1>1, Zenon DEF IsSelection
  <1>3. e \in Seq(J) /\ \A x \in J : \E i \in DOMAIN e : e[i] = x
    BY <1>2 DEF Enumerates
  <1>4. \A i \in DOMAIN e : e[i] \in J
    BY <1>3
  <1>5. DOMAIN list = DOMAIN e /\ \A i \in DOMAIN e : list[i] = refs[e[i]]
    BY <1>2
  <1> QED
    BY <1>3, <1>4, <1>5 DEF list, PartOf

AreCounts(S) == S \subseteq Int

\* The references refs at the counts s are used if in U.
UsedAre(refs, s, U) == DOMAIN refs = DOMAIN s /\ \A j \in DOMAIN s : refs[j].used = (s[j] \in U)

\* m says of each reference that is used its count.
MeansEach(m, refs, s, U) ==
    /\ m = [i \in DOMAIN m |-> m[i]]
    /\ DOMAIN m = DOMAIN Used(refs)
    /\ \A i \in DOMAIN m, j \in DOMAIN s : s[j] \in U /\ Used(refs)[i] = refs[j] => m[i] = s[j]

\* A list of references coded in the order of their counts, as far as they are used: one
\* that means what each of them means is the enumeration of the counts used.
LEMMA ListMeans ==
  ASSUME NEW S, AreCounts(S), NEW up, NEW s, Enumerates(s, S, up),
         NEW R, NEW refs \in Seq(R), NEW U, UsedAre(refs, s, U),
         NEW q, Enumerates(q, S \cap U, up),
         NEW m, MeansEach(m, refs, s, U)
  PROVE  m = q
  <1> DEFINE list == Flagged(refs, TRUE)
             J == {j \in DOMAIN refs : refs[j].used = TRUE}
  <1>1. IsSelection(list, refs, TRUE) /\ Used(refs) = list
    BY FlaggedAre DEF Used
  <1> HIDE DEF list
  <1>2. PICK e : Enumerates(e, J, TRUE) /\ list = [i \in DOMAIN e |-> refs[e[i]]]
    BY <1>1, Zenon DEF IsSelection
  <1>3. J = {j \in DOMAIN s : s[j] \in U}
    BY DEF UsedAre
  <1>4. e \in Seq(J)
    BY <1>2 DEF Enumerates
  <1>5. \A i \in DOMAIN e : e[i] \in DOMAIN s /\ s[e[i]] \in U
    BY <1>3, <1>4
  <1>6. DOMAIN m = DOMAIN e /\ \A i \in DOMAIN e : Used(refs)[i] = refs[e[i]]
    BY <1>1, <1>2 DEF MeansEach
  <1>7. m = Through(s, e)
    BY <1>5, <1>6 DEF Through, MeansEach
  <1>8. Enumerates(e, Hits(s, U), TRUE)
    BY <1>2, <1>3 DEF Hits
  <1>9. Enumerates(m, S \cap U, up)
    BY <1>7, <1>8, EnumerationPart
  <1> QED
    BY <1>9, EnumerationUnique DEF AreCounts

-----------------------------------------------------------------------------
(* The references: remainders *)

\* The remainder is the only number of a cycle that is whole cycles away.
LEMMA RemainderIs ==
  ASSUME NEW m \in Nat \ {0}, NEW k \in Int, NEW r \in 0 .. m - 1, NEW x \in Int, x = m * k + r
  PROVE  x % m = r
  <1> DEFINE q == x \div m
             s == x % m
  <1>1. s \in 0 .. m - 1 /\ q \in Int /\ x = m * q + s
    BY Remainder
  <1> HIDE DEF q, s
  <1> DEFINE d == q - k
  <1>2. d \in Int /\ m * d = r - s
    <2>1. m * (q - k) = m * q - m * k
      BY <1>1
    <2> QED
      BY <1>1, <2>1
  <1> HIDE DEF d
  <1>3. -m < m * d /\ m * d < m
    BY <1>1, <1>2
  <1>4. d = 0
    <2>1. CASE d >= 1
      <3>1. m * (d - 1) >= 0 /\ m * (d - 1) = m * d - m
        BY <1>2, <2>1
      <3> QED
        BY <1>2, <1>3, <3>1
    <2>2. CASE d <= -1
      <3>1. m * (-1 - d) >= 0 /\ m * (-1 - d) = -m - m * d
        BY <1>2, <2>2
      <3> QED
        BY <1>2, <1>3, <3>1
    <2> QED
      BY <1>2, <2>1, <2>2
  <1>5. s = r
    BY <1>1, <1>2, <1>4
  <1> QED
    BY <1>5 DEF s

\* Numbers have the same remainder when they are whole cycles apart.
LEMMA SameRemainder ==
  ASSUME NEW m \in Nat \ {0}, NEW a \in Int, NEW b \in Int
  PROVE  (a - b) % m = 0 <=> a % m = b % m
  <1> DEFINE p == a \div m
             q == b \div m
             r == a % m
             s == b % m
             k == (a - b) \div m
             z == (a - b) % m
  <1>1. r \in 0 .. m - 1 /\ p \in Int /\ a = m * p + r
    BY Remainder
  <1>2. s \in 0 .. m - 1 /\ q \in Int /\ b = m * q + s
    BY Remainder
  <1>3. z \in 0 .. m - 1 /\ k \in Int /\ a - b = m * k + z
    <2>1. a - b \in Int
      OBVIOUS
    <2> QED
      BY <2>1, Remainder
  <1>4. ASSUME z = 0
        PROVE  r = s
    <2> HIDE DEF p, q, s, k, z, r
    <2>1. q + k \in Int /\ a = m * (q + k) + s
      <3>1. m * (q + k) = m * q + m * k
        BY <1>2, <1>3
      <3> QED
        BY <1>2, <1>3, <1>4, <3>1
    <2>2. a % m = s
      <3> DEFINE w == q + k
      <3>1. w \in Int /\ a = m * w + s /\ s \in 0 .. m - 1
        BY <1>2, <2>1
      <3> HIDE DEF w
      <3> QED
        BY <3>1, RemainderIs
    <2> QED
      BY <2>2 DEF r
  <1>5. ASSUME r = s
        PROVE  z = 0
    <2> HIDE DEF p, q, s, k, z, r
    <2>1. p - q \in Int /\ a - b = m * (p - q) + 0
      <3>1. m * (p - q) = m * p - m * q
        BY <1>1, <1>2
      <3> QED
        BY <1>1, <1>2, <1>5, <3>1
    <2>2. 0 \in 0 .. m - 1 /\ a - b \in Int
      OBVIOUS
    <2>3. (a - b) % m = 0
      BY <2>1, <2>2, RemainderIs
    <2> QED
      BY <2>3 DEF z
  <1> QED
    BY <1>4, <1>5

\* Whole cycles do not change a remainder.
LEMMA OffsetRemainder ==
  ASSUME NEW v \in Int, NEW o, Multiple(o)
  PROVE  v - o \in Int /\ (v - o) % Cycle = v % Cycle
  <1> DEFINE m == Cycle
             r == v % m
             q == v \div m
  <1>1. m \in Nat \ {0}
    BY Cycles
  <1>2. r \in 0 .. m - 1 /\ q \in Int /\ v = m * q + r
    BY <1>1, Remainder
  <1>3. PICK j \in Int : o = m * j
    BY DEF Multiple
  <1> HIDE DEF m, r, q
  <1>4. q - j \in Int /\ v - o \in Int /\ v - o = m * (q - j) + r
    <2>1. m * (q - j) = m * q - m * j
      BY <1>1, <1>2, <1>3
    <2> QED
      BY <1>1, <1>2, <1>3, <2>1
  <1>5. (v - o) % m = r
    <2> DEFINE x == v - o
               k == q - j
    <2>1. x \in Int /\ k \in Int /\ x = m * k + r
      BY <1>4
    <2> HIDE DEF x, k
    <2>2. x % m = r
      BY <1>1, <1>2, <2>1, RemainderIs
    <2> QED
      BY <2>2 DEF x
  <1> QED
    BY <1>4, <1>5 DEF m, r

-----------------------------------------------------------------------------
(* The references: look-ups *)

\* The pictures of pics stand for counts of mean, one for each, o behind the encoder.
Mirrors(pics, mean, o) ==
    /\ DOMAIN pics \subseteq Nat
    /\ \A k \in DOMAIN pics : mean[k] \in nearby /\ pics[k].poc = mean[k] - o
    /\ \A j, k \in DOMAIN pics : mean[j] = mean[k] => j = k

Holders(pics, mean, c) == {k \in DOMAIN pics : mean[k] = c}

Holder(pics, mean, c) == FirstKey(Holders(pics, mean, c))

\* Every count of C has a holder.
AllHeld(C, pics, mean) == \A c \in C : \E k \in DOMAIN pics : mean[k] = c

\* marked holds the pictures of pics, those of the counts C short-term.
ShortIn(marked, pics, mean, C) ==
    /\ DOMAIN marked = DOMAIN pics
    /\ \A k \in DOMAIN pics : /\ marked[k].poc = pics[k].poc
                              /\ mean[k] \in C => marked[k].marking = "ShortTerm"

AreNearby(C) == C \subseteq nearby

\* The cycles of the references are not negative.
CyclesCoded(refs) == \A j \in DOMAIN refs : refs[j].cycle # None => refs[j].cycle >= 0

\* The pictures with a count of C.
HeldOf(pics, mean, C) == {k \in DOMAIN pics : mean[k] \in C}

\* A count has one holder at most.
LEMMA HolderIs ==
  ASSUME NEW pics, NEW mean, NEW o, Mirrors(pics, mean, o), NEW c
  PROVE  /\ \A k \in DOMAIN pics : mean[k] = c => Holder(pics, mean, c) = k /\ k \in Nat /\ k # None
         /\ Holder(pics, mean, c) # None =>
              Holder(pics, mean, c) \in DOMAIN pics /\ mean[Holder(pics, mean, c)] = c
  <1> DEFINE S == Holders(pics, mean, c)
  <1>1. S \subseteq Nat /\ S \subseteq DOMAIN pics
    BY DEF Mirrors, Holders
  <1>2. ASSUME NEW k \in DOMAIN pics, mean[k] = c
        PROVE  FirstKey(S) = k /\ k \in Nat /\ k # None
    <2>1. S = {k}
      BY <1>2 DEF Mirrors, Holders
    <2> HIDE DEF S
    <2>2. FirstKey(S) \in S \cup {None} /\ (S # {} => FirstKey(S) \in S)
      BY <1>1, LeastKey DEF FirstKey
    <2>3. k \in Nat
      BY <1>1, <2>1
    <2> QED
      BY <2>1, <2>2, <2>3, RpsAssumption
  <1>3. FirstKey(S) \in S \cup {None}
    <2> HIDE DEF S
    <2> QED
      BY <1>1, FirstKeyIn
  <1>4. \A k \in S : k \in DOMAIN pics /\ mean[k] = c
    BY DEF Holders
  <1> QED
    BY <1>2, <1>3, <1>4 DEF Holder

\* A long-term reference finds the picture of its count, by its lsb when no other picture
\* nearby shares that.
LEMMA LongFound ==
  ASSUME AreCounts(nearby), NEW pics, NEW mean, NEW o, Multiple(o), Mirrors(pics, mean, o),
         NEW v \in Int, NEW c \in nearby, NEW used
  PROVE  FindLongTerm(pics, SyncSps, v - o, LongRef(c, v, used)) = Holder(pics, mean, c)
  <1> DEFINE m == Cycle
             shared == \E b \in nearby \ {c} : (b - c) % m = 0
             cycles == (v - (v % m) - (c - (c % m))) \div m
             r == LongRef(c, v, used)
             poc == v - o
  <1>1. m \in Nat \ {0} /\ c \in Int /\ SyncSps.maxLsb = m
    BY Cycles DEF Cycle, AreCounts
  <1>2. poc \in Int /\ poc % m = v % m
    BY OffsetRemainder
  <1>3. r.lsb = c % m /\ r.cycle = IF shared THEN cycles ELSE None
    BY DEF LongRef, Cycle
  <1>4. v % m \in Int /\ c % m \in Int
    BY <1>1, Remainder
  <1>5. cycles \in Int /\ cycles * m = v - (v % m) - (c - (c % m))
    <2> DEFINE qv == v \div m
               qc == c \div m
               rv == v % m
               rc == c % m
               x == v - rv - (c - rc)
    <2>1. rv \in 0 .. m - 1 /\ qv \in Int /\ v = m * qv + rv
      BY <1>1, Remainder
    <2>2. rc \in 0 .. m - 1 /\ qc \in Int /\ c = m * qc + rc
      BY <1>1, Remainder
    <2> HIDE DEF qv, qc, rv, rc, m
    <2> DEFINE k == qv - qc
    <2>3. k \in Int /\ x \in Int /\ x = m * k + 0
      <3>1. m * (qv - qc) = m * qv - m * qc
        BY <1>1, <2>1, <2>2
      <3> QED
        BY <1>1, <2>1, <2>2, <3>1
    <2> HIDE DEF x, k
    <2>4. 0 \in 0 .. m - 1
      BY <1>1
    <2>5. x % m = 0
      BY <1>1, <2>3, <2>4, RemainderIs
    <2>6. x \div m \in Int /\ x = m * (x \div m) + (x % m)
      BY <1>1, <2>3, Remainder
    <2>7. m * (x \div m) = (x \div m) * m /\ m * (x \div m) \in Int
      BY <1>1, <2>6
    <2> HIDE DEF m
    <2>8. x \div m \in Int /\ x = (x \div m) * m
      BY <2>3, <2>5, <2>6, <2>7
    <2> QED
      BY <2>8 DEF x, rv, rc
  <1> DEFINE found == {k \in DOMAIN pics :
                IF r.cycle = None THEN pics[k].poc % SyncSps.maxLsb = r.lsb
                ELSE pics[k].poc = r.lsb + poc - r.cycle * SyncSps.maxLsb - (poc % SyncSps.maxLsb)}
  <1>6. FindLongTerm(pics, SyncSps, poc, r) = FirstKey(found)
    BY DEF FindLongTerm
  <1> HIDE DEF r
  <1>7. ASSUME NEW k \in DOMAIN pics
        PROVE  k \in found <=> mean[k] = c
    <2> DEFINE b == mean[k]
    <2>1. b \in nearby /\ b \in Int /\ pics[k].poc = b - o
      BY DEF Mirrors, AreCounts
    <2>2. CASE ~shared
      <3>1. k \in found <=> (b - o) % m = c % m
        BY <1>1, <1>3, <2>1, <2>2
      <3>2. (b - o) % m = b % m
        BY <2>1, OffsetRemainder
      <3>3. (b - c) % m = 0 <=> b % m = c % m
        BY <1>1, <2>1, SameRemainder
      <3>4. (b - c) % m = 0 => b = c
        BY <2>1, <2>2
      <3> HIDE DEF found, b, m
      <3> QED
        BY <3>1, <3>2, <3>3, <3>4 DEF b
    <2>3. CASE shared
      <3>1. r.cycle = cycles /\ cycles # None
        <4> HIDE DEF cycles, shared
        <4> QED
          BY <1>3, <1>5, <2>3, SyncAssumption
      <3> DEFINE rv == v % m
                 rc == c % m
                 w == cycles * m
      <3>2. k \in found <=> pics[k].poc = rc + poc - w - (poc % m)
        <4> HIDE DEF cycles, shared, poc, m
        <4> QED
          BY <1>1, <1>3, <3>1
      <3>3. rv \in Int /\ rc \in Int /\ w = v - rv - (c - rc)
        BY <1>4, <1>5
      <3>4. o \in Int
        BY DEF Multiple
      <3> HIDE DEF found, cycles, shared, rv, rc, w
      <3>5. k \in found <=> b - o = rc + (v - o) - w - rv
        BY <1>2, <2>1, <3>2 DEF rv
      <3>6. k \in found <=> b = c
        <4> DEFINE z == rc + (v - o) - w - rv
        <4>1. c \in Int /\ v \in Int /\ z \in Int /\ w \in Int
          BY <1>1, <3>3, <3>4
        <4>2. z = c - o
          BY <3>3, <3>4, <4>1
        <4> HIDE DEF z
        <4>3. k \in found <=> b - o = z
          BY <3>5 DEF z
        <4> HIDE DEF b
        <4> QED
          BY <2>1, <3>4, <4>1, <4>2, <4>3
      <3> QED
        BY <3>6
    <2> QED
      BY <2>2, <2>3
  <1>8. found = Holders(pics, mean, c)
    <2>1. found \subseteq DOMAIN pics
      OBVIOUS
    <2> HIDE DEF found
    <2> QED
      BY <1>7, <2>1 DEF Holders
  <1> HIDE DEF found
  <1> QED
    BY <1>6, <1>8 DEF r, Holder

\* A short-term reference finds the picture of its count if that is short-term.
LEMMA ShortFound ==
  ASSUME AreCounts(nearby), NEW pics, NEW mean, NEW o \in Int, Mirrors(pics, mean, o),
         NEW marked, DOMAIN marked = DOMAIN pics,
         \A k \in DOMAIN pics : marked[k].poc = pics[k].poc,
         NEW v \in Int, NEW c \in Int, NEW used,
         \A k \in DOMAIN pics : mean[k] = c => marked[k].marking = "ShortTerm"
  PROVE  FindShortTerm(marked, v - o, ShortRef(c, v, used)) = Holder(pics, mean, c)
  <1> DEFINE r == ShortRef(c, v, used)
             found == {k \in DOMAIN marked : marked[k].marking = "ShortTerm" /\ marked[k].poc = (v - o) + r.delta}
  <1>1. r.delta = c - v
    BY DEF ShortRef
  <1>2. FindShortTerm(marked, v - o, r) = FirstKey(found)
    BY DEF FindShortTerm
  <1> HIDE DEF r
  <1>3. ASSUME NEW k \in DOMAIN pics
        PROVE  k \in found <=> mean[k] = c
    <2>1. mean[k] \in Int /\ marked[k].poc = mean[k] - o
      BY DEF Mirrors, AreCounts
    <2>2. marked[k].poc = (v - o) + r.delta <=> mean[k] = c
      BY <1>1, <2>1
    <2> QED
      BY <2>2
  <1>4. found = Holders(pics, mean, c)
    BY <1>3 DEF Holders
  <1> HIDE DEF found
  <1> QED
    BY <1>2, <1>4 DEF r, Holder

-----------------------------------------------------------------------------
(* The references: sets *)

\* What the keys of a list stand for.
Means(mean, list) == [i \in DOMAIN list |-> IF list[i] = None THEN None ELSE mean[list[i]]]

\* list is what the look-ups of part find, a part of the references refs at the counts s.
Finds(list, part, refs, s, pics, mean) ==
    /\ list = [i \in DOMAIN part |-> list[i]]
    /\ \A i \in DOMAIN part, j \in DOMAIN refs : part[i] = refs[j] => list[i] = Holder(pics, mean, s[j])

\* References that are used and references that are not name together what is held of
\* their counts.
LEMMA BothParts ==
  ASSUME NEW pics, NEW mean, NEW o, Mirrors(pics, mean, o),
         NEW C, NEW up, NEW s, Enumerates(s, C, up),
         NEW R, NEW refs \in Seq(R), DOMAIN refs = DOMAIN s,
         \A j \in DOMAIN refs : refs[j].used \in BOOLEAN,
         NEW curr, Finds(curr, Used(refs), refs, s, pics, mean),
         NEW foll, Finds(foll, Unused(refs), refs, s, pics, mean)
  PROVE  Keys(curr) \cup Keys(foll) = HeldOf(pics, mean, C)
  <1>1. s \in Seq(C) /\ \A x \in C : \E i \in DOMAIN s : s[i] = x
    BY DEF Enumerates
  <1>2. \A i \in DOMAIN s : s[i] \in C
    BY <1>1
  <1>3. PartOf(Used(refs), refs, TRUE)
    BY FlaggedParts DEF Used
  <1>4. PartOf(Unused(refs), refs, FALSE)
    BY FlaggedParts DEF Unused
  <1>5. /\ DOMAIN curr = DOMAIN Used(refs)
        /\ \A i \in DOMAIN Used(refs), j \in DOMAIN refs :
             Used(refs)[i] = refs[j] => curr[i] = Holder(pics, mean, s[j])
    BY DEF Finds
  <1>6. /\ DOMAIN foll = DOMAIN Unused(refs)
        /\ \A i \in DOMAIN Unused(refs), j \in DOMAIN refs :
             Unused(refs)[i] = refs[j] => foll[i] = Holder(pics, mean, s[j])
    BY DEF Finds
  <1>7. Keys(curr) = {curr[i] : i \in DOMAIN curr} \ {None} /\ Keys(foll) = {foll[i] : i \in DOMAIN foll} \ {None}
    BY DEF Keys, ToSet
  <1>8. \A c : Holder(pics, mean, c) # None =>
           Holder(pics, mean, c) \in DOMAIN pics /\ mean[Holder(pics, mean, c)] = c
    BY HolderIs
  <1>9. ASSUME NEW k \in Keys(curr)
        PROVE  k \in DOMAIN pics /\ mean[k] \in C
    <2>1. PICK i \in DOMAIN curr : k = curr[i] /\ k # None
      BY <1>7
    <2>2. PICK j \in DOMAIN refs : Used(refs)[i] = refs[j]
      BY <1>3, <1>5, <2>1 DEF PartOf
    <2>3. k = Holder(pics, mean, s[j])
      BY <1>5, <2>1, <2>2
    <2> QED
      BY <1>2, <1>8, <2>1, <2>3
  <1>10. ASSUME NEW k \in Keys(foll)
         PROVE  k \in DOMAIN pics /\ mean[k] \in C
    <2>1. PICK i \in DOMAIN foll : k = foll[i] /\ k # None
      BY <1>7
    <2>2. PICK j \in DOMAIN refs : Unused(refs)[i] = refs[j]
      BY <1>4, <1>6, <2>1 DEF PartOf
    <2>3. k = Holder(pics, mean, s[j])
      BY <1>6, <2>1, <2>2
    <2> QED
      BY <1>2, <1>8, <2>1, <2>3
  <1>11. ASSUME NEW k \in DOMAIN pics, mean[k] \in C
         PROVE  k \in Keys(curr) \cup Keys(foll)
    <2>1. PICK j \in DOMAIN refs : s[j] = mean[k]
      BY <1>1, <1>11
    <2>2. Holder(pics, mean, s[j]) = k /\ k # None
      BY <2>1, HolderIs
    <2>3. CASE refs[j].used = TRUE
      <3>1. PICK i \in DOMAIN Used(refs) : Used(refs)[i] = refs[j]
        BY <1>3, <2>3 DEF PartOf
      <3> QED
        BY <1>5, <1>7, <2>2, <3>1
    <2>4. CASE refs[j].used = FALSE
      <3>1. PICK i \in DOMAIN Unused(refs) : Unused(refs)[i] = refs[j]
        BY <1>4, <2>4 DEF PartOf
      <3> QED
        BY <1>6, <1>7, <2>2, <3>1
    <2> QED
      BY <2>3, <2>4
  <1> QED
    BY <1>9, <1>10, <1>11 DEF HeldOf

\* The references that are used mean their counts, in their order, when all are held.
LEMMA CurrMeans ==
  ASSUME NEW pics, NEW mean, NEW o, Mirrors(pics, mean, o),
         NEW C, AreCounts(C), NEW up, NEW s, Enumerates(s, C, up),
         NEW R, NEW refs \in Seq(R), NEW U, UsedAre(refs, s, U),
         AllHeld(C \cap U, pics, mean),
         NEW curr, Finds(curr, Used(refs), refs, s, pics, mean),
         NEW q, Enumerates(q, C \cap U, up)
  PROVE  Means(mean, curr) = q
  <1> DEFINE m == Means(mean, curr)
  <1>1. DOMAIN curr = DOMAIN Used(refs)
    BY DEF Finds
  <1>2. /\ DOMAIN m = DOMAIN Used(refs) /\ m = [i \in DOMAIN m |-> m[i]]
        /\ \A i \in DOMAIN m : m[i] = IF curr[i] = None THEN None ELSE mean[curr[i]]
    BY <1>1 DEF Means
  <1>3. ASSUME NEW i \in DOMAIN m, NEW j \in DOMAIN s, s[j] \in U, Used(refs)[i] = refs[j]
        PROVE  m[i] = s[j]
    <2>1. curr[i] = Holder(pics, mean, s[j])
      BY <1>2, <1>3 DEF Finds, UsedAre
    <2>2. s[j] \in C
      BY DEF Enumerates
    <2>3. PICK k \in DOMAIN pics : mean[k] = s[j]
      BY <1>3, <2>2 DEF AllHeld
    <2>4. curr[i] = k /\ k # None
      BY <2>1, <2>3, HolderIs
    <2> QED
      BY <1>2, <2>3, <2>4
  <1> HIDE DEF m
  <1>4. m = q
    <2>1. MeansEach(m, refs, s, U)
      BY <1>2, <1>3 DEF MeansEach
    <2> QED
      BY <2>1, ListMeans
  <1> QED
    BY <1>4 DEF m

\* The look-ups of a list and of one that follows it.
LEMMA LookupsJoined ==
  ASSUME NEW pics, NEW poc, NEW R, NEW first \in Seq(R), NEW second \in Seq(R)
  PROVE  Keys(ShortTermKeys(pics, poc, first \o second))
           = Keys(ShortTermKeys(pics, poc, first)) \cup Keys(ShortTermKeys(pics, poc, second))
  <1> DEFINE both == first \o second
  <1>1. /\ Len(first) \in Nat /\ Len(second) \in Nat
        /\ DOMAIN first = 1 .. Len(first) /\ DOMAIN second = 1 .. Len(second)
        /\ DOMAIN both = 1 .. Len(first) + Len(second)
        /\ \A i \in DOMAIN both :
             both[i] = IF i <= Len(first) THEN first[i] ELSE second[i - Len(first)]
    OBVIOUS
  <1>2. \A list : ToSet(ShortTermKeys(pics, poc, list)) = {FindShortTerm(pics, poc, list[i]) : i \in DOMAIN list}
    BY DEF ToSet, ShortTermKeys
  <1> HIDE DEF both
  <1>3. \A i \in DOMAIN first : i \in DOMAIN both /\ both[i] = first[i]
    BY <1>1
  <1>4. \A i \in DOMAIN second : i + Len(first) \in DOMAIN both /\ both[i + Len(first)] = second[i]
    BY <1>1
  <1>5. \A i \in DOMAIN both :
          \/ i \in DOMAIN first /\ both[i] = first[i]
          \/ i - Len(first) \in DOMAIN second /\ both[i] = second[i - Len(first)]
    BY <1>1
  <1>6. {FindShortTerm(pics, poc, both[i]) : i \in DOMAIN both}
          = {FindShortTerm(pics, poc, first[i]) : i \in DOMAIN first}
            \cup {FindShortTerm(pics, poc, second[i]) : i \in DOMAIN second}
    <2>1. ASSUME NEW i \in DOMAIN both
          PROVE  FindShortTerm(pics, poc, both[i]) \in
                   {FindShortTerm(pics, poc, first[n]) : n \in DOMAIN first}
                   \cup {FindShortTerm(pics, poc, second[n]) : n \in DOMAIN second}
      BY <1>5
    <2>2. ASSUME NEW i \in DOMAIN first
          PROVE  FindShortTerm(pics, poc, first[i]) \in {FindShortTerm(pics, poc, both[n]) : n \in DOMAIN both}
      BY <1>3
    <2>3. ASSUME NEW i \in DOMAIN second
          PROVE  FindShortTerm(pics, poc, second[i]) \in {FindShortTerm(pics, poc, both[n]) : n \in DOMAIN both}
      BY <1>4
    <2> QED
      BY <2>1, <2>2, <2>3
  <1> QED
    BY <1>2, <1>6 DEF Keys, both

\* The references of a header at the counts s.
ShortRefs(s, v, used) == [i \in DOMAIN s |-> ShortRef(s[i], v, used)]
LongRefs(s, v, used) == [i \in DOMAIN s |-> LongRef(s[i], v, used)]

\* What the encoder writes of short-term references are short-term references.
LEMMA ShortRefsType ==
  ASSUME NEW C, AreCounts(C), NEW s \in Seq(C), NEW v \in Int, NEW used,
         NEW refs, refs = ShortRefs(s, v, used)
  PROVE  /\ refs \in Seq(ShortTermRef) /\ UsedAre(refs, s, Counts(used))
         /\ DOMAIN refs = DOMAIN s
         /\ \A j \in DOMAIN refs : refs[j] = ShortRef(s[j], v, used) /\ refs[j].used \in BOOLEAN
  <1>1. /\ DOMAIN s = 1 .. Len(s) /\ Len(s) \in Nat
        /\ \A i \in DOMAIN s : s[i] \in Int
    <2>1. DOMAIN s = 1 .. Len(s) /\ Len(s) \in Nat /\ \A i \in DOMAIN s : s[i] \in C
      OBVIOUS
    <2> QED
      BY <2>1 DEF AreCounts
  <1>2. \A i \in DOMAIN s : /\ ShortRef(s[i], v, used) \in ShortTermRef
                            /\ ShortRef(s[i], v, used).used = (s[i] \in Counts(used))
                            /\ ShortRef(s[i], v, used).used \in BOOLEAN
    BY <1>1 DEF ShortRef, ShortTermRef
  <1>3. refs = [i \in 1 .. Len(s) |-> ShortRef(s[i], v, used)]
    BY <1>1 DEF ShortRefs
  <1>4. \A j \in DOMAIN refs : refs[j] = ShortRef(s[j], v, used)
    BY <1>3
  <1> QED
    BY <1>1, <1>2, <1>3, <1>4 DEF UsedAre

\* Likewise for long-term references with cycles that can be coded.
LEMMA LongRefsType ==
  ASSUME NEW C, AreCounts(C), NEW s \in Seq(C), NEW v \in Int, NEW used,
         NEW refs, refs = LongRefs(s, v, used),
         CyclesCoded(refs)
  PROVE  /\ refs \in Seq(LongTermRef) /\ UsedAre(refs, s, Counts(used))
         /\ DOMAIN refs = DOMAIN s
         /\ \A j \in DOMAIN refs : refs[j] = LongRef(s[j], v, used) /\ refs[j].used \in BOOLEAN
  <1>1. /\ DOMAIN s = 1 .. Len(s) /\ Len(s) \in Nat
        /\ \A i \in DOMAIN s : s[i] \in Int
    <2>1. DOMAIN s = 1 .. Len(s) /\ Len(s) \in Nat /\ \A i \in DOMAIN s : s[i] \in C
      OBVIOUS
    <2> QED
      BY <2>1 DEF AreCounts
  <1>2. refs = [i \in 1 .. Len(s) |-> LongRef(s[i], v, used)]
    BY <1>1 DEF LongRefs
  <1>3. \A j \in DOMAIN refs : refs[j] = LongRef(s[j], v, used)
    BY <1>2
  <1>4. ASSUME NEW j \in DOMAIN s
        PROVE  /\ refs[j] \in LongTermRef
               /\ refs[j].used = (s[j] \in Counts(used)) /\ refs[j].used \in BOOLEAN
    <2> DEFINE c == s[j]
               m == Cycle
               x == v - (v % m) - (c - (c % m))
               r == LongRef(c, v, used)
    <2>1. m \in Nat \ {0} /\ c \in Int
      BY <1>1, Cycles
    <2>2. c % m \in 0 .. m - 1 /\ v % m \in 0 .. m - 1
      BY <2>1, Remainder
    <2>3. x \in Int
      <3> DEFINE rc == c % m
                 rv == v % m
      <3>1. rc \in Int /\ rv \in Int
        BY <2>1, <2>2
      <3> HIDE DEF rc, rv, c
      <3>2. v - rv - (c - rc) \in Int
        BY <2>1, <3>1
      <3> QED
        BY <3>2 DEF rc, rv
    <2>4. x \div m \in Int
      <3> HIDE DEF x, m
      <3> QED
        BY <2>1, <2>3, Remainder
    <2> DEFINE flag == c \in Counts(used)
    <2>5. /\ r = [lsb |-> c % m, cycle |-> r.cycle, used |-> flag]
          /\ r.cycle \in {x \div m, None} /\ flag \in BOOLEAN
      BY DEF LongRef, Cycle
    <2>6. refs[j] = r
      BY <1>1, <1>2
    <2>7. r.cycle # None => r.cycle >= 0
      BY <1>1, <1>2, <2>6 DEF CyclesCoded
    <2>8. c % m \in Nat
      BY <2>1, <2>2
    <2> HIDE DEF r, x, m, c, flag
    <2>9. r.cycle \in Nat \cup {None}
      BY <2>4, <2>5, <2>7
    <2>10. r \in LongTermRef
      BY <2>5, <2>8, <2>9 DEF LongTermRef
    <2>11. r.used = flag
      BY <2>5
    <2> QED
      BY <2>5, <2>6, <2>10, <2>11 DEF c, flag
  <1>5. refs \in Seq(LongTermRef)
    BY <1>1, <1>2, <1>4
  <1> QED
    BY <1>1, <1>2, <1>3, <1>4, <1>5 DEF UsedAre

\* What is found of refs are the pictures with a count of C, and what is found of those
\* that are used means q.
ShortMeant(marked, poc, refs, pics, mean, C, q) ==
    /\ Keys(ShortTermKeys(marked, poc, Used(refs))) \cup Keys(ShortTermKeys(marked, poc, Unused(refs)))
         = HeldOf(pics, mean, C)
    /\ Means(mean, ShortTermKeys(marked, poc, Used(refs))) = q

LongMeant(poc, refs, pics, mean, C, q) ==
    /\ Keys(LongTermKeys(pics, SyncSps, poc, Used(refs)))
         \cup Keys(LongTermKeys(pics, SyncSps, poc, Unused(refs)))
         = HeldOf(pics, mean, C)
    /\ Means(mean, LongTermKeys(pics, SyncSps, poc, Used(refs))) = q

\* The short-term references of a header, those before or those after the picture.
LEMMA ShortPart ==
  ASSUME AreCounts(nearby), NEW pics, NEW mean, NEW o \in Int, Mirrors(pics, mean, o),
         NEW v \in Int, NEW used, NEW C, AreCounts(C), NEW up, NEW s, Enumerates(s, C, up),
         NEW marked, ShortIn(marked, pics, mean, C),
         AllHeld(C \cap Counts(used), pics, mean),
         NEW refs, refs = ShortRefs(s, v, used),
         NEW q, Enumerates(q, C \cap Counts(used), up)
  PROVE  ShortMeant(marked, v - o, refs, pics, mean, C, q)
  <1> DEFINE curr == ShortTermKeys(marked, v - o, Used(refs))
             foll == ShortTermKeys(marked, v - o, Unused(refs))
             U == Counts(used)
  <1>1. s \in Seq(C) /\ \A i \in DOMAIN s : s[i] \in C
    BY DEF Enumerates
  <1>2. /\ refs \in Seq(ShortTermRef) /\ UsedAre(refs, s, U)
        /\ DOMAIN refs = DOMAIN s
        /\ \A j \in DOMAIN refs : refs[j] = ShortRef(s[j], v, used) /\ refs[j].used \in BOOLEAN
    BY <1>1, ShortRefsType
  <1>3. ASSUME NEW j \in DOMAIN refs
        PROVE  FindShortTerm(marked, v - o, refs[j]) = Holder(pics, mean, s[j])
    <2>1. s[j] \in C /\ s[j] \in Int /\ refs[j] = ShortRef(s[j], v, used)
      BY <1>1, <1>2 DEF AreCounts
    <2>2. \A k \in DOMAIN pics : mean[k] = s[j] => marked[k].marking = "ShortTerm"
      BY <2>1 DEF ShortIn
    <2>3. FindShortTerm(marked, v - o, ShortRef(s[j], v, used)) = Holder(pics, mean, s[j])
      BY <2>1, <2>2, ShortFound DEF ShortIn
    <2> QED
      BY <2>1, <2>3
  <1>4. Finds(curr, Used(refs), refs, s, pics, mean)
    BY <1>3 DEF Finds, ShortTermKeys
  <1>5. Finds(foll, Unused(refs), refs, s, pics, mean)
    BY <1>3 DEF Finds, ShortTermKeys
  <1> HIDE DEF curr, foll, U
  <1>6. Keys(curr) \cup Keys(foll) = HeldOf(pics, mean, C)
    BY <1>2, <1>4, <1>5, BothParts
  <1>7. Means(mean, curr) = q
    <2>1. Enumerates(q, C \cap U, up) /\ AllHeld(C \cap U, pics, mean)
      BY DEF U
    <2> QED
      BY <1>2, <1>4, <2>1, CurrMeans
  <1> QED
    BY <1>6, <1>7 DEF curr, foll, ShortMeant

\* The long-term references of a header.
LEMMA LongPart ==
  ASSUME AreCounts(nearby), NEW pics, NEW mean, NEW o, Multiple(o), Mirrors(pics, mean, o),
         NEW v \in Int, NEW used, NEW C, AreNearby(C), NEW up, NEW s, Enumerates(s, C, up),
         AllHeld(C \cap Counts(used), pics, mean),
         NEW refs, refs = LongRefs(s, v, used),
         CyclesCoded(refs),
         NEW q, Enumerates(q, C \cap Counts(used), up)
  PROVE  LongMeant(v - o, refs, pics, mean, C, q)
  <1> DEFINE curr == LongTermKeys(pics, SyncSps, v - o, Used(refs))
             foll == LongTermKeys(pics, SyncSps, v - o, Unused(refs))
             U == Counts(used)
  <1>1. s \in Seq(C) /\ AreCounts(C) /\ \A i \in DOMAIN s : s[i] \in C
    BY DEF Enumerates, AreCounts, AreNearby
  <1>2. /\ refs \in Seq(LongTermRef) /\ UsedAre(refs, s, U)
        /\ DOMAIN refs = DOMAIN s
        /\ \A j \in DOMAIN refs : refs[j] = LongRef(s[j], v, used) /\ refs[j].used \in BOOLEAN
    BY <1>1, LongRefsType
  <1>3. ASSUME NEW j \in DOMAIN refs
        PROVE  FindLongTerm(pics, SyncSps, v - o, refs[j]) = Holder(pics, mean, s[j])
    <2>1. s[j] \in nearby /\ refs[j] = LongRef(s[j], v, used)
      BY <1>1, <1>2 DEF AreNearby
    <2>3. FindLongTerm(pics, SyncSps, v - o, LongRef(s[j], v, used)) = Holder(pics, mean, s[j])
      BY <2>1, LongFound
    <2> QED
      BY <2>1, <2>3
  <1>4. Finds(curr, Used(refs), refs, s, pics, mean)
    BY <1>3 DEF Finds, LongTermKeys
  <1>5. Finds(foll, Unused(refs), refs, s, pics, mean)
    BY <1>3 DEF Finds, LongTermKeys
  <1> HIDE DEF curr, foll, U
  <1>6. Keys(curr) \cup Keys(foll) = HeldOf(pics, mean, C)
    BY <1>2, <1>4, <1>5, BothParts
  <1>7. Means(mean, curr) = q
    <2>1. Enumerates(q, C \cap U, up) /\ AllHeld(C \cap U, pics, mean)
      BY DEF U
    <2> QED
      BY <1>1, <1>2, <1>4, <2>1, CurrMeans
  <1> QED
    BY <1>6, <1>7 DEF curr, foll, LongMeant

\* The set of a picture with the count v means the short-term counts S and the long-term
\* counts L, those of U used.
MeansSet(rps, pics, mean, S, L, U, v) ==
    /\ InRps(rps) = HeldOf(pics, mean, S \cup L)
    /\ Keys(rps["ltCurr"]) \cup Keys(rps["ltFoll"]) = HeldOf(pics, mean, L)
    /\ Means(mean, rps["stCurrBefore"]) = Before(S \cap U, v)
    /\ Means(mean, rps["stCurrAfter"]) = After(S \cap U, v)
    /\ Means(mean, rps["ltCurr"]) = Descending(L \cap U)

\* A header with these references.
NamesSet(h, S, L, v, used) ==
    /\ h.s0 = ShortRefs(Before(S, v), v, used)
    /\ h.s1 = ShortRefs(After(S, v), v, used)
    /\ h.longTerm = LongRefs(Descending(L), v, used)
    /\ CanBeCoded(h)

\* Counts a picture with the count v may name.
MayName(S, L, v) ==
    /\ S \subseteq nearby /\ L \subseteq nearby /\ S \cap L = {}
    /\ IsFiniteSet(S) /\ IsFiniteSet(L)
    /\ v \in Int /\ v \notin nearby

\* The set that begin_picture derives is the one the header was written for, where every
\* count that is used has a picture.
LEMMA SetFound ==
  ASSUME AreCounts(nearby), NEW pics, pics \in [DOMAIN pics -> Picture], NEW mean,
         NEW o, Multiple(o), Mirrors(pics, mean, o),
         NEW S, NEW L, NEW v, MayName(S, L, v), NEW used,
         NEW h, NamesSet(h, S, L, v, used),
         \A k \in DOMAIN pics : mean[k] \in S => pics[k].marking = "ShortTerm",
         AllHeld((S \cup L) \cap Counts(used), pics, mean),
         NEW rps, rps = RpsLists(pics, SyncSps, h, v - o)
  PROVE  MeansSet(rps, pics, mean, S, L, Counts(used), v)
  <1> DEFINE U == Counts(used)
             SB == {c \in S : c < v}
             SA == {c \in S : c > v}
             poc == v - o
             ltCurr == LongTermKeys(pics, SyncSps, poc, Used(h.longTerm))
             ltFoll == LongTermKeys(pics, SyncSps, poc, Unused(h.longTerm))
             long == Keys(ltCurr) \cup Keys(ltFoll)
             marked == MarkLongTerm(pics, long)
             before == ShortTermKeys(marked, poc, Used(h.s0))
             after == ShortTermKeys(marked, poc, Used(h.s1))
             foll == ShortTermKeys(marked, poc, Unused(h.s0) \o Unused(h.s1))
             beforeFoll == ShortTermKeys(marked, poc, Unused(h.s0))
             afterFoll == ShortTermKeys(marked, poc, Unused(h.s1))
  <1>1. /\ v \in Int /\ o \in Int /\ v \notin S
        /\ AreCounts(S) /\ AreCounts(L) /\ S \subseteq nearby /\ L \subseteq nearby
        /\ IsFiniteSet(S) /\ IsFiniteSet(L) /\ S \cap L = {}
    BY DEF MayName, AreCounts, Multiple
  <1>2. /\ AreCounts(SB) /\ AreCounts(SA) /\ IsFiniteSet(SB) /\ IsFiniteSet(SA)
        /\ SB \cap U = {c \in S \cap U : c < v} /\ SA \cap U = {c \in S \cap U : c > v}
        /\ S = SB \cup SA
    BY <1>1, FS_Subset DEF AreCounts
  <1>3. /\ IsFiniteSet(SB \cap U) /\ IsFiniteSet(SA \cap U) /\ IsFiniteSet(L \cap U)
    BY <1>1, <1>2, FS_Subset
  <1>4. /\ Enumerates(Descending(L), L, FALSE) /\ Enumerates(Descending(L \cap U), L \cap U, FALSE)
    BY <1>1, <1>3, OrderedCounts DEF AreCounts
  <1>5. /\ Enumerates(Before(S, v), SB, FALSE) /\ Enumerates(Before(S \cap U, v), SB \cap U, FALSE)
    BY <1>2, <1>3, OrderedCounts DEF AreCounts, Before
  <1>6. /\ Enumerates(After(S, v), SA, TRUE) /\ Enumerates(After(S \cap U, v), SA \cap U, TRUE)
    BY <1>2, <1>3, OrderedCounts DEF AreCounts, After
  <1>7. /\ AllHeld(L \cap U, pics, mean) /\ AllHeld(SB \cap U, pics, mean) /\ AllHeld(SA \cap U, pics, mean)
    BY <1>2 DEF AllHeld
  <1>8. rps = [stCurrBefore |-> before, stCurrAfter |-> after, stFoll |-> foll,
               ltCurr |-> ltCurr, ltFoll |-> ltFoll]
    BY DEF RpsLists
  <1>9. /\ CyclesCoded(h.longTerm)
        /\ h.longTerm = LongRefs(Descending(L), v, used)
        /\ h.s0 = ShortRefs(Before(S, v), v, used)
        /\ h.s1 = ShortRefs(After(S, v), v, used)
    BY DEF NamesSet, CanBeCoded, CyclesCoded
  <1>10. /\ long = HeldOf(pics, mean, L)
         /\ Means(mean, ltCurr) = Descending(L \cap U)
    <2> DEFINE refs == h.longTerm
               s == Descending(L)
               q == Descending(L \cap U)
    <2>1. /\ Enumerates(s, L, FALSE) /\ Enumerates(q, L \cap Counts(used), FALSE)
          /\ refs = LongRefs(s, v, used)
          /\ AllHeld(L \cap Counts(used), pics, mean)
          /\ CyclesCoded(refs) /\ AreNearby(L)
      BY <1>1, <1>4, <1>7, <1>9 DEF AreNearby
    <2> HIDE DEF refs, s, q, marked
    <2>2. LongMeant(v - o, refs, pics, mean, L, q)
      BY <1>1, <2>1, LongPart
    <2> QED
      BY <2>2 DEF refs, q, LongMeant
  <1>11. /\ DOMAIN marked = DOMAIN pics
         /\ \A k \in DOMAIN pics : marked[k].poc = pics[k].poc
         /\ \A k \in DOMAIN pics : k \notin long => marked[k] = pics[k]
    <2> HIDE DEF long
    <2> QED
      BY MarkLongTermType
  <1>12. \A k \in DOMAIN pics : mean[k] \in S => marked[k].marking = "ShortTerm"
    <2> HIDE DEF marked, long
    <2> QED
      BY <1>1, <1>10, <1>11 DEF HeldOf
  <1> HIDE DEF marked
  <1>13. /\ Keys(before) \cup Keys(beforeFoll) = HeldOf(pics, mean, SB)
         /\ Means(mean, before) = Before(S \cap U, v)
    <2> DEFINE refs == h.s0
               s == Before(S, v)
               q == Before(S \cap U, v)
    <2>1. /\ Enumerates(s, SB, FALSE) /\ Enumerates(q, SB \cap Counts(used), FALSE)
          /\ refs = ShortRefs(s, v, used)
          /\ AllHeld(SB \cap Counts(used), pics, mean)
          /\ ShortIn(marked, pics, mean, SB)
      BY <1>5, <1>7, <1>9, <1>11, <1>12 DEF ShortIn
    <2> HIDE DEF refs, s, q, SB
    <2>2. ShortMeant(marked, v - o, refs, pics, mean, SB, q)
      BY <1>1, <1>2, <2>1, ShortPart
    <2> QED
      BY <2>2 DEF refs, q, ShortMeant
  <1>14. /\ Keys(after) \cup Keys(afterFoll) = HeldOf(pics, mean, SA)
         /\ Means(mean, after) = After(S \cap U, v)
    <2> DEFINE refs == h.s1
               s == After(S, v)
               q == After(S \cap U, v)
    <2>1. /\ Enumerates(s, SA, TRUE) /\ Enumerates(q, SA \cap Counts(used), TRUE)
          /\ refs = ShortRefs(s, v, used)
          /\ AllHeld(SA \cap Counts(used), pics, mean)
          /\ ShortIn(marked, pics, mean, SA)
      BY <1>6, <1>7, <1>9, <1>11, <1>12 DEF ShortIn
    <2> HIDE DEF refs, s, q, SA
    <2>2. ShortMeant(marked, v - o, refs, pics, mean, SA, q)
      BY <1>1, <1>2, <2>1, ShortPart
    <2> QED
      BY <2>2 DEF refs, q, ShortMeant
  <1>15. Keys(foll) = Keys(beforeFoll) \cup Keys(afterFoll)
    <2> DEFINE first == Unused(h.s0)
               second == Unused(h.s1)
    <2>1. h.s0 \in Seq(ShortTermRef) /\ h.s1 \in Seq(ShortTermRef)
      <3>1. Before(S, v) \in Seq(SB) /\ After(S, v) \in Seq(SA)
        BY <1>5, <1>6 DEF Enumerates
      <3> HIDE DEF SB, SA
      <3> QED
        BY <1>1, <1>2, <1>9, <3>1, ShortRefsType
    <2>2. first \in Seq(ShortTermRef) /\ second \in Seq(ShortTermRef)
      BY <2>1, FlaggedType DEF Unused
    <2> HIDE DEF first, second, poc
    <2>3. Keys(ShortTermKeys(marked, poc, first \o second))
            = Keys(ShortTermKeys(marked, poc, first)) \cup Keys(ShortTermKeys(marked, poc, second))
      BY <2>2, LookupsJoined
    <2> QED
      BY <2>3 DEF first, second
  <1>16. /\ rps["stCurrBefore"] = before /\ rps["stCurrAfter"] = after /\ rps["stFoll"] = foll
         /\ rps["ltCurr"] = ltCurr /\ rps["ltFoll"] = ltFoll
    <2> HIDE DEF before, after, foll, ltCurr, ltFoll
    <2> QED
      BY <1>8
  <1>17. InRps(rps) = Keys(before) \cup Keys(after) \cup Keys(foll) \cup long
    <2> HIDE DEF before, after, foll, ltCurr, ltFoll
    <2>1. InRps(rps) = Keys(rps["stCurrBefore"]) \cup Keys(rps["stCurrAfter"]) \cup Keys(rps["stFoll"])
                         \cup Keys(rps["ltCurr"]) \cup Keys(rps["ltFoll"])
      BY DEF InRps, Lists, ShortLists
    <2> QED
      BY <1>16, <2>1
  <1> HIDE DEF before, after, foll, ltCurr, ltFoll, beforeFoll, afterFoll
  <1>18. InRps(rps) = HeldOf(pics, mean, S \cup L)
    <2> HIDE DEF SB, SA, long
    <2> QED
      BY <1>2, <1>10, <1>13, <1>14, <1>15, <1>17 DEF HeldOf
  <1>19. Keys(rps["ltCurr"]) \cup Keys(rps["ltFoll"]) = HeldOf(pics, mean, L)
    BY <1>10, <1>16
  <1> QED
    BY <1>10, <1>13, <1>14, <1>16, <1>18, <1>19 DEF MeansSet

-----------------------------------------------------------------------------
(* The references: what the receiver stores *)

\* The counts of a finite set of pictures.
LEMMA CountsFinite ==
  ASSUME NEW T, IsFiniteSet(T)
  PROVE  IsFiniteSet(Counts(T))
  <1> DEFINE f == [p \in T |-> p.poc]
  <1>1. f \in Surjection(T, Counts(T))
    BY DEF Surjection, Counts
  <1> QED
    BY <1>1, FS_Surjection

\* Keys that stand for different counts of a set of pictures are no more than those.
LEMMA KeysOfCounts ==
  ASSUME NEW T, IsFiniteSet(T), NEW K, NEW mean,
         \A k \in K : mean[k] \in Counts(T),
         \A j, k \in K : mean[j] = mean[k] => j = k
  PROVE  IsFiniteSet(K) /\ Cardinality(K) <= Cardinality(T)
  <1> DEFINE f == [k \in K |-> CHOOSE p \in T : p.poc = mean[k]]
  <1>1. \A k \in K : f[k] \in T /\ f[k].poc = mean[k]
    BY DEF Counts
  <1>2. f \in [K -> T] /\ \A j, k \in K : f[j] = f[k] => j = k
    BY <1>1
  <1> HIDE DEF f
  <1>3. f \in Injection(K, T)
    BY <1>2 DEF Injection, IsInjective
  <1> QED
    BY <1>3, FS_Injection

\* What begin_picture leaves in progress and in the buffer.
LEMMA BegunParts ==
  ASSUME NEW d, IsState(d), NEW h, NEW e, e = Begun(d, SyncSps, h)
  PROVE  /\ e.pics = Retained(Available(d, h), RpsOf(d, SyncSps, h))
         /\ e.pending.key = d.nextKey /\ e.pending.poc = PocOf(d, SyncSps, h)
         /\ e.pending.rps = RpsOf(d, SyncSps, h) /\ e.pending.referenceable
         /\ e.pending # NoPicture /\ e.nextKey = d.nextKey + 1
  <1> DEFINE rps == RpsOf(d, SyncSps, h)
             a == Announced(d, h)
             kept == Retained(Available(d, h), rps)
             msb == Wrap(PocMsb(d, SyncSps, h))
             lsb2 == IF IsTid0Anchor(h) THEN h.lsb ELSE a.prevLsb
             msb2 == IF IsTid0Anchor(h) THEN msb ELSE a.prevMsb
             p == [key |-> d.nextKey, poc |-> PocOf(d, SyncSps, h), msb |-> msb,
                   irap |-> IsIrap(h.type), noRaslOutput |-> NoRaslOutput(d, h),
                   rps |-> rps, temporalId |-> h.temporalId,
                   referenceable |-> SyncSps.maxDecPicBufferingMinus1 > 0]
  <1>1. e = [a EXCEPT !.prevLsb = lsb2, !.prevMsb = msb2, !.pics = kept,
                      !.nextKey = a.nextKey + 1, !.pending = p]
    BY DEF Begun
  <1>2. a = [pics |-> d.pics, prevLsb |-> d.prevLsb, prevMsb |-> d.prevMsb,
             afterEos |-> FALSE, started |-> TRUE, irapNoRaslOutput |-> a.irapNoRaslOutput,
             nextKey |-> d.nextKey, pending |-> NoPicture]
    BY AnnouncedState
  <1>3. SyncSps.maxDecPicBufferingMinus1 > 0
    BY SyncAssumption
  <1>4. p.key = d.nextKey /\ p.poc = PocOf(d, SyncSps, h) /\ p.rps = rps /\ p.referenceable
    BY <1>3
  <1>5. p # NoPicture
    <2>1. p.key \in Nat /\ NoPicture.key = None
      BY <1>4, StateParts DEF NoPicture
    <2> QED
      BY <2>1, RpsAssumption
  <1> DEFINE flag == a.irapNoRaslOutput
  <1>6. a = [pics |-> d.pics, prevLsb |-> d.prevLsb, prevMsb |-> d.prevMsb,
             afterEos |-> FALSE, started |-> TRUE, irapNoRaslOutput |-> flag,
             nextKey |-> d.nextKey, pending |-> NoPicture]
    BY <1>2
  <1>7. a.nextKey = d.nextKey
    BY <1>2
  <1> HIDE DEF a, p, kept, rps, lsb2, msb2, flag
  <1>8. e.pics = kept /\ e.pending = p /\ e.nextKey = d.nextKey + 1
    BY <1>1, <1>6, <1>7
  <1> QED
    BY <1>4, <1>5, <1>8 DEF kept, rps

\* A picture is finished beside fewer than the buffer holds: it enters, and none leaves.
LEMMA SettledPics ==
  ASSUME NEW e, IsState(e), e.pending # NoPicture, e.pending.referenceable,
         e.pending.key \notin DOMAIN e.pics, Cardinality(DOMAIN e.pics) <= EncoderRefs
  PROVE  /\ IsState(Settled(e)) /\ Settled(e).pending = NoPicture
         /\ Settled(e).nextKey = e.nextKey
         /\ DOMAIN Settled(e).pics = DOMAIN e.pics \cup {e.pending.key}
         /\ \A k \in DOMAIN e.pics : Settled(e).pics[k] = e.pics[k]
         /\ Settled(e).pics[e.pending.key].poc = e.pending.poc
         /\ Settled(e).pics[e.pending.key].marking = "ShortTerm"
  <1> DEFINE key == e.pending.key
  <1>1. Settled(e) = Finished(e)
    BY DEF Settled
  <1>2. Evicted(e) = {}
    <2> SUFFICES ASSUME NEW k \in DOMAIN e.pics,
                        Cardinality({j \in DOMAIN e.pics : j >= k}) >= MaxPics
                 PROVE  FALSE
      BY DEF Evicted
    <2> DEFINE K == {j \in DOMAIN e.pics : j >= k}
    <2>1. IsFiniteSet(DOMAIN e.pics)
      BY StateParts
    <2>2. IsFiniteSet(K) /\ Cardinality(K) <= Cardinality(DOMAIN e.pics)
      BY <2>1, FS_Subset
    <2>3. Cardinality(K) \in Nat /\ Cardinality(DOMAIN e.pics) \in Nat
      BY <2>1, <2>2, FS_CardinalityType
    <2>4. EncoderRefs \in Nat /\ EncoderRefs < MaxPics /\ MaxPics \in Nat
      BY SyncAssumption, RpsAssumption
    <2>5. Cardinality(K) >= MaxPics
      OBVIOUS
    <2> HIDE DEF K
    <2> QED
      BY <2>2, <2>3, <2>4, <2>5
  <1>3. /\ IsState(Finished(e))
        /\ Finished(e).pending = NoPicture /\ Finished(e).nextKey = e.nextKey
        /\ DOMAIN Finished(e).pics = (DOMAIN e.pics \ Evicted(e)) \cup {key}
        /\ \A k \in DOMAIN Finished(e).pics \cap DOMAIN e.pics : Finished(e).pics[k] = e.pics[k]
    BY FinishedState
  <1>4. /\ Finished(e).pics[key].poc = e.pending.poc
        /\ Finished(e).pics[key].marking = "ShortTerm"
    <2> DEFINE kept == DOMAIN e.pics \ Evicted(e)
               added == {key}
               new == [poc |-> e.pending.poc, marking |-> "ShortTerm", temporalId |-> e.pending.temporalId]
               pics == [k \in kept \cup added |-> IF k \in added THEN new ELSE e.pics[k]]
    <2>1. Finished(e) = [e EXCEPT !.pending = NoPicture, !.pics = pics]
      BY DEF Finished
    <2>2. e = [pics |-> e.pics, prevLsb |-> e.prevLsb, prevMsb |-> e.prevMsb,
               afterEos |-> e.afterEos, started |-> e.started,
               irapNoRaslOutput |-> e.irapNoRaslOutput, nextKey |-> e.nextKey,
               pending |-> e.pending]
      BY DEF IsState
    <2>3. pics[key].poc = e.pending.poc /\ pics[key].marking = "ShortTerm"
      OBVIOUS
    <2> HIDE DEF pics
    <2>4. Finished(e).pics = pics
      BY <2>1, <2>2
    <2> QED
      BY <2>3, <2>4
  <1> QED
    BY <1>1, <1>2, <1>3, <1>4

\* What the state e of a receiver that has begun a picture with the count v stores: that
\* and the pictures of pics with the counts of refs, those of L long-term.
Stores(e, pics, mean, mean2, refs, L, v, o) ==
    LET stored == Settled(e).pics
    IN  /\ IsState(e)
        /\ e.pending # NoPicture /\ e.pending.referenceable /\ e.pending.key \notin DOMAIN e.pics
        /\ Cardinality(DOMAIN e.pics) <= EncoderRefs
        /\ DOMAIN mean2 \subseteq 0 .. e.nextKey - 1 /\ DOMAIN stored \subseteq DOMAIN mean2
        /\ \A k \in DOMAIN stored : mean2[k] \in Counts(refs) \cup {v} /\ stored[k].poc = mean2[k] - o
        /\ \A j, k \in DOMAIN stored : mean2[j] = mean2[k] => j = k
        /\ \A k \in DOMAIN pics : mean[k] \in Counts(refs) => k \in DOMAIN stored /\ mean2[k] = mean[k]
        /\ \E k \in DOMAIN stored : mean2[k] = v
        /\ \A k \in DOMAIN stored : stored[k].marking = "LongTerm" => mean2[k] \in L
        /\ \A k \in InRps(e.pending.rps) : mean2[k] = mean[k]

\* A picture with the count v begins: the receiver stores what its set means.
LEMMA BegunStores ==
  ASSUME NEW d, IsState(d), NEW h \in Header, PocOf(d, SyncSps, h) \in PocRange,
         NEW v \in Int, NEW o \in Int, PocOf(d, SyncSps, h) = v - o,
         NEW mean, DOMAIN mean \subseteq 0 .. d.nextKey - 1, DOMAIN d.pics \subseteq DOMAIN mean,
         NEW pics, pics = Available(d, h), Mirrors(pics, mean, o),
         NEW refs, IsFiniteSet(refs), Cardinality(refs) <= EncoderRefs, v \notin Counts(refs),
         NEW S, NEW L, NEW U, S \cup L = Counts(refs),
         MeansSet(RpsOf(d, SyncSps, h), pics, mean, S, L, U, v),
         NEW e, e = Begun(d, SyncSps, h),
         NEW mean2, mean2 = [k \in DOMAIN e.pics \cup {d.nextKey} |-> IF k \in DOMAIN mean THEN mean[k] ELSE v]
  PROVE  Stores(e, pics, mean, mean2, refs, L, v, o)
  <1> DEFINE rps == RpsOf(d, SyncSps, h)
             n == d.nextKey
             stored == Settled(e).pics
  <1>1. /\ e.pending.key = n /\ e.pending.poc = v - o /\ e.pending.rps = rps
        /\ e.pending.referenceable /\ e.pending # NoPicture /\ e.nextKey = n + 1
    BY BegunParts
  <1>2. /\ n \in Nat /\ SyncSps \in Sps
    BY StateParts, SyncAssumption
  <1>3. /\ IsState(e) /\ DOMAIN e.pics \subseteq DOMAIN d.pics
        /\ InRps(rps) = DOMAIN e.pics
        /\ \A k \in DOMAIN e.pics :
             /\ e.pics[k].poc = d.pics[k].poc
             /\ e.pics[k].marking = "LongTerm" <=> k \in Keys(rps["ltCurr"]) \cup Keys(rps["ltFoll"])
    BY <1>1, <1>2, BegunState
  <1>4. /\ DOMAIN e.pics = HeldOf(pics, mean, Counts(refs))
        /\ \A k \in DOMAIN e.pics : e.pics[k].marking = "LongTerm" <=> mean[k] \in L
    <2>1. /\ InRps(rps) = HeldOf(pics, mean, S \cup L)
          /\ Keys(rps["ltCurr"]) \cup Keys(rps["ltFoll"]) = HeldOf(pics, mean, L)
      BY DEF MeansSet
    <2>2. DOMAIN e.pics \subseteq DOMAIN pics
      BY <1>3, <2>1 DEF HeldOf
    <2> HIDE DEF rps
    <2> QED
      BY <1>3, <2>1, <2>2 DEF HeldOf
  <1>5. /\ n \notin DOMAIN mean /\ n \notin DOMAIN e.pics
        /\ \A k \in DOMAIN e.pics : k \in DOMAIN mean /\ k \in 0 .. n - 1
    BY <1>2, <1>3
  <1>6. /\ DOMAIN mean2 = DOMAIN e.pics \cup {n} /\ mean2[n] = v
        /\ \A k \in DOMAIN e.pics : mean2[k] = mean[k]
    BY <1>5
  <1>7. /\ \A k \in DOMAIN e.pics : k \in DOMAIN pics /\ mean[k] \in Counts(refs)
        /\ \A k \in DOMAIN pics : mean[k] \in Counts(refs) => k \in DOMAIN e.pics
    BY <1>4 DEF HeldOf
  <1>8. Cardinality(DOMAIN e.pics) <= EncoderRefs
    <2> DEFINE K == DOMAIN e.pics
    <2>1. (\A k \in K : mean[k] \in Counts(refs)) /\ \A j, k \in K : mean[j] = mean[k] => j = k
      BY <1>7 DEF Mirrors
    <2> HIDE DEF K
    <2>2. IsFiniteSet(K) /\ Cardinality(K) <= Cardinality(refs)
      BY <2>1, KeysOfCounts
    <2>3. Cardinality(K) \in Nat /\ Cardinality(refs) \in Nat /\ EncoderRefs \in Nat
      BY <2>2, FS_CardinalityType, SyncAssumption
    <2>4. Cardinality(K) <= EncoderRefs
      BY <2>2, <2>3
    <2> QED
      BY <2>4 DEF K
  <1>9. /\ DOMAIN stored = DOMAIN e.pics \cup {n}
        /\ \A k \in DOMAIN e.pics : stored[k] = e.pics[k]
        /\ stored[n].poc = v - o /\ stored[n].marking = "ShortTerm"
    BY <1>1, <1>3, <1>5, <1>8, SettledPics
  <1>10. \A k \in DOMAIN e.pics : e.pics[k].poc = mean[k] - o
    <2>1. \A k \in DOMAIN pics : pics[k] = d.pics[k]
      BY AvailableIn
    <2> QED
      BY <1>3, <1>7, <2>1 DEF Mirrors
  <1>11. DOMAIN mean2 \subseteq 0 .. e.nextKey - 1
    BY <1>1, <1>2, <1>5, <1>6
  <1> HIDE DEF stored, rps, n
  <1>12. /\ \A k \in DOMAIN stored : mean2[k] \in Counts(refs) \cup {v} /\ stored[k].poc = mean2[k] - o
         /\ \A k \in DOMAIN stored : stored[k].marking = "LongTerm" => mean2[k] \in L
         /\ \A k \in DOMAIN pics : mean[k] \in Counts(refs) => k \in DOMAIN stored /\ mean2[k] = mean[k]
         /\ \E k \in DOMAIN stored : mean2[k] = v
    BY <1>4, <1>6, <1>7, <1>9, <1>10
  <1>13. \A j, k \in DOMAIN stored : mean2[j] = mean2[k] => j = k
    <2>1. \A k \in DOMAIN e.pics : mean2[k] = mean[k] /\ mean[k] \in Counts(refs) /\ k \in DOMAIN pics
      BY <1>6, <1>7
    <2>2. \A j, k \in DOMAIN pics : mean[j] = mean[k] => j = k
      BY DEF Mirrors
    <2>3. DOMAIN stored = DOMAIN e.pics \cup {n} /\ mean2[n] = v /\ v \notin Counts(refs)
      BY <1>6, <1>9
    <2> SUFFICES ASSUME NEW j \in DOMAIN stored, NEW k \in DOMAIN stored, mean2[j] = mean2[k]
                 PROVE  j = k
      OBVIOUS
    <2>4. CASE j \in DOMAIN e.pics /\ k \in DOMAIN e.pics
      BY <2>1, <2>2, <2>4
    <2>5. CASE j \in DOMAIN e.pics /\ k = n
      BY <2>1, <2>3, <2>5
    <2>6. CASE j = n /\ k \in DOMAIN e.pics
      <3>1. mean2[k] \in Counts(refs)
        BY <2>1, <2>6
      <3>2. mean2[j] = v
        BY <2>3, <2>6
      <3> QED
        BY <2>3, <3>1, <3>2
    <2> QED
      BY <2>3, <2>4, <2>5, <2>6
  <1>14. \A k \in InRps(e.pending.rps) : mean2[k] = mean[k]
    BY <1>1, <1>3, <1>6
  <1> QED
    BY <1>1, <1>3, <1>5, <1>6, <1>8, <1>9, <1>11, <1>12, <1>13, <1>14 DEF Stores, stored, n

\* Lists of keys that stand for the same counts.
LEMMA SameMeans ==
  ASSUME NEW mean, NEW mean2, NEW rps, NEW l \in Lists,
         \A k \in InRps(rps) : mean2[k] = mean[k]
  PROVE  Means(mean2, rps[l]) = Means(mean, rps[l])
  <1>1. \A i \in DOMAIN rps[l] : rps[l][i] # None => rps[l][i] \in InRps(rps)
    <2>1. \A i \in DOMAIN rps[l] : rps[l][i] # None => rps[l][i] \in Keys(rps[l])
      BY DEF Keys, ToSet
    <2> QED
      BY <2>1 DEF InRps
  <1>2. \A i \in DOMAIN rps[l] : rps[l][i] # None => mean2[rps[l][i]] = mean[rps[l][i]]
    BY <1>1
  <1> QED
    BY <1>2 DEF Means

-----------------------------------------------------------------------------
(* The references: the encoder *)

HeldPicture == [poc : Int, tid : Nat, role : Roles, discardable : BOOLEAN, lt : BOOLEAN]

\* The encoder names its pictures by their counts.
EncoderInv ==
    /\ IsFiniteSet(held) /\ held \subseteq HeldPicture
    /\ \A p, q \in held : p.poc = q.poc => p = q
    /\ AreNearby(Counts(held)) /\ AreCounts(nearby)

\* What Send chose for the set of the picture.
ChosenSet(t, tid, used, kept, long) ==
    /\ used \subseteq {p \in held : t # 19 /\ MayUse(t, tid, p)}
    /\ kept \subseteq {p \in held \ used : t # 19 /\ MayKeep(t, p)}
    /\ Cardinality(used \cup kept) <= EncoderRefs
    /\ long \subseteq used \cup kept /\ {p \in used \cup kept : p.lt} \subseteq long

\* The picture written, and one that its set names, as the encoder holds them afterwards.
IsNow(p, t, v, tid) ==
    p.poc = v /\ p.tid = tid /\ p.role = RoleOf(t) /\ p.discardable = (t = 0)

KeptAs(p, q, t, long) ==
    /\ p.poc = q.poc /\ p.tid = q.tid /\ p.discardable = q.discardable /\ p.lt = (q \in long)
    /\ p.role = IF IsIrap(t) THEN "Before" ELSE q.role

\* A picture of a set as the encoder holds it afterwards.
LEMMA KeptParts ==
  ASSUME NEW q \in HeldPicture, NEW t, NEW long,
         NEW p, p = [q EXCEPT !.lt = q \in long, !.role = IF IsIrap(t) THEN "Before" ELSE @]
  PROVE  p \in HeldPicture /\ KeptAs(p, q, t, long)
  <1> DEFINE flag == q \in long
             role == IF IsIrap(t) THEN "Before" ELSE q.role
  <1>1. flag \in BOOLEAN /\ role \in Roles
    BY DEF HeldPicture, Roles
  <1>2. p = [q EXCEPT !.lt = flag, !.role = role]
    OBVIOUS
  <1> HIDE DEF flag, role
  <1>3. /\ p \in HeldPicture
        /\ p.poc = q.poc /\ p.tid = q.tid /\ p.discardable = q.discardable /\ p.lt = flag /\ p.role = role
    BY <1>1, <1>2 DEF HeldPicture
  <1> QED
    BY <1>3 DEF KeptAs, flag, role

\* What the encoder holds after it has written a picture.
HoldsAfter(t, v, tid, used, kept, long) ==
    /\ IsFiniteSet(used \cup kept)
    /\ v \in Int /\ v \notin Counts(used \cup kept) /\ (t # 19 => v \notin nearby)
    /\ v \in nearby' /\ \A c \in Counts(used \cup kept) : c \in nearby'
    /\ ~Anchors(t, tid) => nearby' = nearby \cup {v}
    /\ \A p \in held' : IsNow(p, t, v, tid) \/ \E q \in used \cup kept : KeptAs(p, q, t, long)
    /\ sent'.poc = v /\ sent'.short = Counts(used \ long) /\ sent'.long = Counts(used \cap long)

\* What the encoder holds after it has written a picture.
LEMMA EncodedParts ==
  ASSUME EncoderInv, profile \in Profiles, NEW t, NEW v, NEW tid, Chosen(t, v, tid),
         NEW used, NEW kept, NEW long, ChosenSet(t, tid, used, kept, long),
         Encode(t, v, tid, used, kept, long)
  PROVE  EncoderInv' /\ HoldsAfter(t, v, tid, used, kept, long)
  <1> DEFINE refs == used \cup kept
             Update(p) == [p EXCEPT !.lt = p \in long, !.role = IF IsIrap(t) THEN "Before" ELSE @]
             now == [poc |-> v, tid |-> tid, role |-> RoleOf(t), discardable |-> t = 0, lt |-> FALSE]
  <1>1. /\ refs \subseteq held /\ long \subseteq refs
        /\ t = 19 => refs = {}
    BY DEF ChosenSet
  <1>2. /\ v \in Int /\ tid \in Nat /\ profile.span \in Nat
        /\ (t # 19 => v \notin nearby)
        /\ (IsIrap(t) => tid = 0)
    BY Spans DEF Chosen, MayHaveCount
  <1>3. held' = {Update(p) : p \in refs} \cup {now}
    <2>1. refs = IF t = 19 THEN {} ELSE used \cup kept
      BY <1>1
    <2> QED
      BY <2>1 DEF Encode
  <1>4. /\ nearby' = (IF Anchors(t, tid) THEN Counts(refs) \cup {v} ELSE nearby \cup {v})
        /\ sent'.poc = v /\ sent'.short = Counts(used \ long) /\ sent'.long = Counts(used \cap long)
    <2>1. refs = IF t = 19 THEN {} ELSE used \cup kept
      BY <1>1
    <2> HIDE DEF refs
    <2> QED
      BY <2>1 DEF Encode, Anchors
  <1>5. /\ IsFiniteSet(refs)
        /\ \A q \in refs : q \in HeldPicture /\ q.poc \in nearby /\ q.poc \in Int
        /\ \A p, q \in refs : p.poc = q.poc => p = q
    <2>1. IsFiniteSet(refs)
      BY <1>1, FS_Subset DEF EncoderInv
    <2>2. \A q \in refs : q \in held /\ q \in HeldPicture /\ q.poc \in nearby
      BY <1>1 DEF EncoderInv, Counts, AreNearby
    <2>3. \A q \in refs : q.poc \in Int
      BY <2>2 DEF EncoderInv, AreCounts
    <2> QED
      BY <1>1, <2>1, <2>2, <2>3 DEF EncoderInv
  <1>6. v \notin Counts(refs)
    <2>1. CASE t = 19
      BY <1>1, <2>1 DEF Counts
    <2>2. CASE t # 19
      BY <1>2, <1>5, <2>2 DEF Counts
    <2> QED
      BY <2>1, <2>2
  <1>7. \A q \in refs : Update(q) \in HeldPicture /\ KeptAs(Update(q), q, t, long)
    BY <1>5, KeptParts
  <1>8. now \in HeldPicture /\ IsNow(now, t, v, tid)
    <2> DEFINE no == FALSE
               first == t = 0
    <2>1. RoleOf(t) \in Roles /\ no \in BOOLEAN /\ first \in BOOLEAN
      BY DEF RoleOf, Roles
    <2> HIDE DEF no, first
    <2>2. now = [poc |-> v, tid |-> tid, role |-> RoleOf(t), discardable |-> first, lt |-> no]
      BY DEF no, first
    <2> HIDE DEF now
    <2>3. now \in HeldPicture /\ now.poc = v /\ now.tid = tid /\ now.role = RoleOf(t) /\ now.discardable = first
      BY <1>2, <2>1, <2>2 DEF HeldPicture
    <2> QED
      BY <2>3 DEF IsNow, first
  <1> HIDE DEF now, Update, refs
  <1>9. \A p \in held' : p \in HeldPicture /\ (IsNow(p, t, v, tid) \/ \E q \in refs : KeptAs(p, q, t, long))
    BY <1>3, <1>7, <1>8
  <1>10. IsFiniteSet(held')
    <2> DEFINE f == [q \in refs |-> Update(q)]
               T == {Update(q) : q \in refs}
    <2>1. f \in Surjection(refs, T)
      BY DEF Surjection
    <2> HIDE DEF f, T
    <2>2. IsFiniteSet(T)
      BY <1>5, <2>1, FS_Surjection
    <2>3. IsFiniteSet(T \cup {now})
      BY <2>2, FS_AddElement
    <2> QED
      BY <1>3, <2>3 DEF T
  <1>11. ASSUME NEW p \in held', NEW q \in held', p.poc = q.poc
         PROVE  p = q
    <2>1. \A r \in refs : Update(r).poc = r.poc /\ r.poc # v
      BY <1>6, <1>7 DEF KeptAs, Counts
    <2>2. now.poc = v
      BY <1>8 DEF IsNow
    <2>3. CASE p = now
      BY <1>3, <1>11, <2>1, <2>2, <2>3
    <2>4. CASE p # now
      <3>1. PICK r \in refs : p = Update(r)
        BY <1>3, <2>4
      <3>2. q # now
        BY <1>11, <2>1, <2>2, <3>1
      <3>3. PICK s \in refs : q = Update(s)
        BY <1>3, <3>2
      <3>4. r.poc = s.poc
        BY <1>11, <2>1, <3>1, <3>3
      <3> QED
        BY <1>5, <3>1, <3>3, <3>4
    <2> QED
      BY <2>3, <2>4
  <1>12. v \in nearby' /\ \A c \in Counts(refs) : c \in nearby'
    BY <1>4, <1>5 DEF Counts
  <1>13. AreNearby(Counts(held))'
    <2>1. \A p \in held' : p.poc \in Counts(refs) \cup {v}
      BY <1>9 DEF KeptAs, IsNow, Counts
    <2> QED
      BY <1>12, <2>1 DEF AreNearby, Counts
  <1>14. AreCounts(nearby)'
    <2>1. \A c \in nearby : c \in Int
      BY DEF EncoderInv, AreCounts
    <2>2. \A c \in Counts(refs) : c \in Int
      BY <1>5 DEF Counts
    <2>3. \A c \in nearby' : c \in Int
      BY <1>2, <1>4, <2>1, <2>2
    <2> QED
      BY <2>3 DEF AreCounts
  <1>15. EncoderInv'
    BY <1>9, <1>10, <1>11, <1>13, <1>14 DEF EncoderInv
  <1> QED
    BY <1>2, <1>4, <1>5, <1>6, <1>9, <1>12, <1>15 DEF HoldsAfter, refs

-----------------------------------------------------------------------------
(* The references: headers *)

\* The short-term and the long-term counts of a set.
ShortCounts(used, kept, long) == Counts((used \cup kept) \ long)

\* A set in two parts, and what of each is used.
InTwoParts(S, L, used, kept, long) ==
    /\ S \cup L = Counts(used \cup kept) /\ S \cap L = {}
    /\ S \cap Counts(used) = Counts(used \ long) /\ L \cap Counts(used) = Counts(used \cap long)
    /\ AreNearby(S) /\ AreNearby(L) /\ IsFiniteSet(S) /\ IsFiniteSet(L)
    /\ IsFiniteSet(used \cup kept) /\ Cardinality(used \cup kept) <= EncoderRefs

\* A picture of the set is in one part of it, and used or not.
LEMMA SetCounts ==
  ASSUME EncoderInv, NEW t, NEW tid, NEW used, NEW kept, NEW long, ChosenSet(t, tid, used, kept, long),
         NEW S, S = ShortCounts(used, kept, long), NEW L, L = Counts(long)
  PROVE  InTwoParts(S, L, used, kept, long)
  <1> DEFINE refs == used \cup kept
  <1>1. refs \subseteq held /\ long \subseteq refs /\ used \subseteq refs
    BY DEF ChosenSet
  <1>2. \A p, q \in refs : p.poc = q.poc => p = q
    BY <1>1 DEF EncoderInv
  <1>3. IsFiniteSet(refs) /\ IsFiniteSet(long) /\ IsFiniteSet(refs \ long)
    BY <1>1, FS_Subset DEF EncoderInv
  <1>4. IsFiniteSet(S) /\ IsFiniteSet(L)
    BY <1>3, CountsFinite DEF ShortCounts
  <1>5. \A p \in refs : p.poc \in nearby
    BY <1>1 DEF EncoderInv, AreNearby, Counts
  <1>6. S = {p.poc : p \in refs \ long} /\ L = {p.poc : p \in long} /\ Counts(used) = {p.poc : p \in used}
    BY DEF ShortCounts, Counts
  <1>7. Cardinality(refs) <= EncoderRefs
    BY DEF ChosenSet
  <1> HIDE DEF refs
  <1>8. S \cup L = {p.poc : p \in refs}
    BY <1>1, <1>6
  <1>9. S \cap L = {}
    BY <1>1, <1>2, <1>6
  <1>10. S \cap Counts(used) = {p.poc : p \in used \ long}
    BY <1>1, <1>2, <1>6
  <1>11. L \cap Counts(used) = {p.poc : p \in used \cap long}
    BY <1>1, <1>2, <1>6
  <1>12. S \subseteq nearby /\ L \subseteq nearby
    BY <1>1, <1>5, <1>6
  <1> QED
    BY <1>3, <1>4, <1>7, <1>8, <1>9, <1>10, <1>11, <1>12 DEF Counts, refs, InTwoParts, AreNearby

\* A header is a record of its fields.
LEMMA HeaderOf ==
  ASSUME NEW type \in 0 .. 63, NEW layerId \in Nat, NEW dependent \in BOOLEAN, NEW tid \in Nat,
         NEW lsb \in Nat, NEW s0 \in Seq(ShortTermRef), NEW s1 \in Seq(ShortTermRef),
         NEW longTerm \in Seq(LongTermRef)
  PROVE  [type |-> type, layerId |-> layerId, dependent |-> dependent, temporalId |-> tid,
          lsb |-> lsb, s0 |-> s0, s1 |-> s1, longTerm |-> longTerm] \in Header
  BY DEF Header

\* The header names the set; a BLA picture keeps the header of its CRA picture.
LEMMA HeaderNames ==
  ASSUME EncoderInv, NEW t \in {0, 1, 7, 9, 19, 21}, NEW v \in Int, NEW tid \in Nat, v \notin nearby \/ t = 19,
         NEW used, NEW kept, NEW long, ChosenSet(t, tid, used, kept, long),
         NEW S, S = ShortCounts(used, kept, long), NEW L, L = Counts(long),
         NEW h, h = SliceHeader(t, v, tid, used, kept, long), CanBeCoded(h),
         NEW type \in {t, 16}, NEW g, g = [h EXCEPT !.type = type]
  PROVE  /\ NamesSet(g, S, L, v, used) /\ g \in Header
         /\ g.type = type /\ g.temporalId = tid /\ g.lsb = v % Cycle
  <1> DEFINE s0 == ShortRefs(Before(S, v), v, used)
             s1 == ShortRefs(After(S, v), v, used)
             longTerm == LongRefs(Descending(L), v, used)
             lsb == v % Cycle
             no == FALSE
             base == 0
  <1>1. h = [type |-> t, layerId |-> base, dependent |-> no, temporalId |-> tid,
             lsb |-> lsb, s0 |-> s0, s1 |-> s1, longTerm |-> longTerm]
    BY Zenon DEF SliceHeader, ShortRefs, LongRefs, ShortCounts, Cycle
  <1>2. no \in BOOLEAN /\ base \in Nat
    OBVIOUS
  <1>3. lsb \in Nat
    <2>1. lsb \in 0 .. Cycle - 1 /\ Cycle \in Nat
      BY Remainder, Cycles
    <2> HIDE DEF lsb
    <2> QED
      BY <2>1
  <1>4. /\ S \subseteq nearby /\ L \subseteq nearby /\ IsFiniteSet(S) /\ IsFiniteSet(L)
        /\ AreCounts(S) /\ AreCounts(L)
    <2>0. InTwoParts(S, L, used, kept, long)
      BY SetCounts
    <2>1. S \subseteq nearby /\ L \subseteq nearby /\ IsFiniteSet(S) /\ IsFiniteSet(L)
      BY <2>0 DEF InTwoParts, AreNearby
    <2> QED
      BY <2>1 DEF EncoderInv, AreCounts
  <1> HIDE DEF s0, s1, longTerm, lsb, no, base
  <1>5. h.longTerm = longTerm
    BY <1>1
  <1>6. CyclesCoded(longTerm)
    BY <1>5 DEF CanBeCoded, CyclesCoded
  <1>7. s0 \in Seq(ShortTermRef) /\ s1 \in Seq(ShortTermRef)
    <2> DEFINE SB == {c \in S : c < v}
               SA == {c \in S : c > v}
    <2>1. /\ IsFiniteSet(SB) /\ IsFiniteSet(SA) /\ SB \subseteq Int /\ SA \subseteq Int
          /\ AreCounts(SB) /\ AreCounts(SA)
      BY <1>4, FS_Subset DEF AreCounts
    <2>2. Before(S, v) \in Seq(SB) /\ After(S, v) \in Seq(SA)
      BY <2>1, OrderedCounts DEF Enumerates, Before, After
    <2> HIDE DEF SB, SA
    <2> QED
      BY <2>1, <2>2, ShortRefsType DEF s0, s1
  <1>8. longTerm \in Seq(LongTermRef)
    <2>1. L \subseteq Int
      BY <1>4 DEF AreCounts
    <2>2. Descending(L) \in Seq(L)
      BY <1>4, <2>1, OrderedCounts DEF Enumerates
    <2> QED
      BY <1>4, <1>6, <2>2, LongRefsType DEF longTerm
  <1>9. g = [type |-> type, layerId |-> base, dependent |-> no, temporalId |-> tid,
             lsb |-> lsb, s0 |-> s0, s1 |-> s1, longTerm |-> longTerm]
    BY <1>1
  <1>10. type \in 0 .. 63
    OBVIOUS
  <1>11. g \in Header
    <2>1. [type |-> type, layerId |-> base, dependent |-> no, temporalId |-> tid,
           lsb |-> lsb, s0 |-> s0, s1 |-> s1, longTerm |-> longTerm] \in Header
      BY <1>2, <1>3, <1>7, <1>8, <1>10, HeaderOf
    <2> QED
      BY <1>9, <2>1
  <1>12. /\ g.s0 = s0 /\ g.s1 = s1 /\ g.longTerm = longTerm /\ g.type = type /\ g.temporalId = tid
         /\ g.lsb = lsb
    BY <1>9
  <1>13. CanBeCoded(g)
    BY <1>6, <1>12 DEF CanBeCoded, CyclesCoded
  <1> QED
    BY <1>11, <1>12, <1>13 DEF NamesSet, s0, s1, longTerm, lsb

-----------------------------------------------------------------------------
(* The references: the invariant *)

\* What the receiver will have stored when the next picture starts.
Stored == Settled(dec).pics

\* A picture that a receiver of layer l has: one it does not drop and, where its last IRAP
\* picture restarted it (r), none from before that picture and no RASL picture.
Expected(p, l, r) ==
    /\ p.tid <= l
    /\ p.discardable => p.tid < l
    /\ r => p.role \notin {"Before", "Rasl"}

\* The receiver's keys have a meaning, and its buffer room for the next picture.
KeysInv ==
    /\ IsState(dec)
    /\ DOMAIN means \subseteq 0 .. dec.nextKey - 1 /\ DOMAIN Stored \subseteq DOMAIN means
    /\ dec.pending # NoPicture =>
          /\ dec.pending.referenceable /\ dec.pending.key \notin DOMAIN dec.pics
          /\ Cardinality(DOMAIN dec.pics) <= EncoderRefs

\* It holds every picture that it is expected to have, and none long-term that is
\* short-term for the encoder.
HasExpected == \A p \in held : Expected(p, layer, restarted) => \E k \in DOMAIN Stored : means[k] = p.poc

LongKnown ==
    \A k \in DOMAIN Stored, p \in held : means[k] = p.poc /\ Stored[k].marking = "LongTerm" => p.lt

RefsInv ==
    /\ EncoderInv /\ KeysInv
    /\ tuned => Mirrors(Stored, means, offset) /\ HasExpected /\ LongKnown

\* A set without pictures, in a buffer without pictures.
LEMMA EmptySet ==
  ASSUME NEW mean, NEW U, NEW v \in Int
  PROVE  MeansSet(NoLists, <<>>, mean, {}, {}, U, v)
  <1>1. Enumerates(<<>>, {}, TRUE) /\ Enumerates(<<>>, {}, FALSE) /\ IsFiniteSet({})
    BY FS_EmptySet DEF Enumerates
  <1>2. Ascending({}) = <<>> /\ Descending({}) = <<>>
    <2> DEFINE S == {}
    <2>1. S \subseteq Int /\ IsFiniteSet(S) /\ Enumerates(<<>>, S, TRUE) /\ Enumerates(<<>>, S, FALSE)
      BY <1>1
    <2> HIDE DEF S
    <2>2. Enumerates(Ascending(S), S, TRUE) /\ Enumerates(Descending(S), S, FALSE)
      BY <2>1, OrderedCounts
    <2>3. Ascending(S) = <<>> /\ Descending(S) = <<>>
      BY <2>1, <2>2, EnumerationUnique
    <2> QED
      BY <2>3 DEF S
  <1>3. /\ \A l \in Lists : NoLists[l] = <<>> /\ Keys(<<>>) = {}
        /\ Means(mean, <<>>) = <<>>
    BY NoPictures DEF NoLists, Keys, ToSet, Means
  <1>4. {"stCurrBefore", "stCurrAfter", "ltCurr", "ltFoll"} \subseteq Lists
    BY DEF Lists, ShortLists
  <1>5. {c \in {} \cap U : c < v} = {} /\ {c \in {} \cap U : c > v} = {} /\ {} \cap U = {}
    OBVIOUS
  <1>6. InRps(NoLists) = {} /\ HeldOf(<<>>, mean, {}) = {} /\ {} \cup {} = {}
    BY <1>3, NoPictures DEF InRps, HeldOf
  <1>7. /\ Keys(NoLists["ltCurr"]) \cup Keys(NoLists["ltFoll"]) = {}
        /\ Means(mean, NoLists["stCurrBefore"]) = <<>>
        /\ Means(mean, NoLists["stCurrAfter"]) = <<>>
        /\ Means(mean, NoLists["ltCurr"]) = <<>>
    BY <1>3, <1>4
  <1> QED
    BY <1>2, <1>5, <1>6, <1>7 DEF MeansSet, Before, After

\* What is in reach of the set of a picture: the encoder's pictures stand in pics as they
\* should before it, for the references it uses and for those that stay expected.
InReachOf(pics, t, used, kept, long, o, l, r) ==
    /\ Mirrors(pics, means, o)
    /\ \A k \in DOMAIN pics, p \in used \cup kept :
         means[k] = p.poc /\ pics[k].marking = "LongTerm" => p.lt
    /\ \A p \in used : \E k \in DOMAIN pics : means[k] = p.poc
    /\ \A q \in used \cup kept, p \in HeldPicture :
         KeptAs(p, q, t, long) /\ Expected(p, l, r) => \E k \in DOMAIN pics : means[k] = q.poc

\* The set of a picture that begins is the one meant.
LEMMA SetMeant ==
  ASSUME EncoderInv, NEW t, NEW v \in Int, NEW tid, v \notin nearby \/ t = 19,
         NEW used, NEW kept, NEW long, ChosenSet(t, tid, used, kept, long),
         NEW S, S = ShortCounts(used, kept, long), NEW L, L = Counts(long),
         NEW d, IsState(d), NEW h, NamesSet(h, S, L, v, used), IsIdr(h.type) <=> t = 19,
         NEW pics, pics = Available(d, h), t = 19 => NoRaslOutput(d, h),
         NEW o, Multiple(o), PocOf(d, SyncSps, h) = v - o,
         NEW l, NEW r, InReachOf(pics, t, used, kept, long, o, l, r)
  PROVE  MeansSet(RpsOf(d, SyncSps, h), pics, means, S, L, Counts(used), v)
  <1>1. InTwoParts(S, L, used, kept, long)
    BY SetCounts
  <1>2. CASE t = 19
    <2>1. used = {} /\ kept = {} /\ long = {}
      BY <1>2 DEF ChosenSet
    <2>2. S = {} /\ L = {}
      BY <2>1 DEF ShortCounts, Counts
    <2>3. pics = <<>>
      BY <1>2 DEF Available
    <2>4. RpsOf(d, SyncSps, h) = NoLists
      BY <1>2 DEF RpsOf
    <2> QED
      BY <2>2, <2>3, <2>4, EmptySet
  <1>3. CASE t # 19
    <2>1. RpsOf(d, SyncSps, h) = RpsLists(pics, SyncSps, h, v - o)
      BY <1>3 DEF RpsOf
    <2>2. AreCounts(nearby) /\ Mirrors(pics, means, o)
      BY DEF EncoderInv, InReachOf
    <2>3. MayName(S, L, v)
      BY <1>1, <1>3 DEF MayName, InTwoParts, AreNearby
    <2>4. pics \in [DOMAIN pics -> Picture]
      BY AvailableIn
    <2>5. AllHeld((S \cup L) \cap Counts(used), pics, means)
      <3>1. \A p \in used : \E k \in DOMAIN pics : means[k] = p.poc
        BY DEF InReachOf
      <3> QED
        BY <3>1 DEF AllHeld, Counts
    <2>6. \A k \in DOMAIN pics : means[k] \in S => pics[k].marking = "ShortTerm"
      <3> SUFFICES ASSUME NEW k \in DOMAIN pics, means[k] \in S
                   PROVE  pics[k].marking = "ShortTerm"
        OBVIOUS
      <3>1. pics[k].marking \in {"ShortTerm", "LongTerm"}
        BY <2>4 DEF Picture, Marking
      <3>2. PICK p \in (used \cup kept) \ long : means[k] = p.poc
        BY DEF ShortCounts, Counts
      <3>3. ~p.lt
        BY <3>2 DEF ChosenSet
      <3> QED
        BY <3>1, <3>2, <3>3 DEF InReachOf
    <2> QED
      BY <2>1, <2>2, <2>3, <2>4, <2>5, <2>6, SetFound
  <1> QED
    BY <1>2, <1>3

\* A picture that begins leaves the receiver with the encoder's pictures, and refers to the
\* pictures the encoder meant.
LEMMA BeginsInStep ==
  ASSUME EncoderInv, profile \in Profiles, NEW t, NEW v, NEW tid, Chosen(t, v, tid),
         NEW used, NEW kept, NEW long, ChosenSet(t, tid, used, kept, long),
         Encode(t, v, tid, used, kept, long), layer' = layer,
         NEW S, S = ShortCounts(used, kept, long), NEW L, L = Counts(long),
         NEW d, IsState(d), NEW h \in Header, NamesSet(h, S, L, v, used), IsIdr(h.type) <=> t = 19,
         t = 19 => NoRaslOutput(d, h),
         Receive(d, h, v), ~Skips(d, h),
         Multiple(offset'), PocOf(d, SyncSps, h) = v - offset', PocOf(d, SyncSps, h) \in PocRange,
         DOMAIN means \subseteq 0 .. d.nextKey - 1, DOMAIN d.pics \subseteq DOMAIN means,
         NEW pics, pics = Available(d, h), InReachOf(pics, t, used, kept, long, offset', layer, restarted')
  PROVE  RefsInv' /\ ReferencesAgree'
  <1> DEFINE refs == used \cup kept
             U == Counts(used)
             o == offset'
             mean2 == means'
             e == dec'
  <1>1. EncoderInv' /\ HoldsAfter(t, v, tid, used, kept, long)
    BY EncodedParts
  <1>2. /\ v \in Int /\ v \notin Counts(refs) /\ (v \notin nearby \/ t = 19)
        /\ IsFiniteSet(refs)
    BY <1>1 DEF HoldsAfter
  <1>3. InTwoParts(S, L, used, kept, long)
    BY SetCounts
  <1>4. MeansSet(RpsOf(d, SyncSps, h), pics, means, S, L, U, v)
    BY <1>2, SetMeant
  <1>5. e = Begun(d, SyncSps, h)
    BY DEF Receive
  <1>6. /\ e.pending # NoPicture /\ e.nextKey = d.nextKey + 1 /\ e.pending.rps = RpsOf(d, SyncSps, h)
        /\ e.pending.poc = v - o /\ d.nextKey \in Nat
    BY <1>5, BegunParts, StateParts
  <1>7. mean2 = [k \in DOMAIN e.pics \cup {d.nextKey} |-> IF k \in DOMAIN means THEN means[k] ELSE v]
    <2>1. mean2 = [k \in DOMAIN e.pics \cup {j \in {e.nextKey - 1} : e.pending # NoPicture} |->
                     IF k \in DOMAIN means THEN means[k] ELSE v]
      BY DEF Receive
    <2>2. {j \in {e.nextKey - 1} : e.pending # NoPicture} = {d.nextKey}
      BY <1>6
    <2> HIDE DEF mean2, e
    <2> QED
      BY <2>1, <2>2
  <1>8. Stores(e, pics, means, mean2, refs, L, v, o)
    <2>1. /\ S \cup L = Counts(refs) /\ Cardinality(refs) <= EncoderRefs
          /\ o \in Int /\ Mirrors(pics, means, o) /\ PocOf(d, SyncSps, h) = v - o
      BY <1>3 DEF InTwoParts, InReachOf, Multiple
    <2> HIDE DEF refs, U, o, mean2, e
    <2> QED
      BY <1>2, <1>4, <1>5, <1>7, <2>1, BegunStores
  <1> DEFINE stored == Settled(e).pics
  <1>9. /\ IsState(e)
        /\ e.pending # NoPicture /\ e.pending.referenceable /\ e.pending.key \notin DOMAIN e.pics
        /\ Cardinality(DOMAIN e.pics) <= EncoderRefs
        /\ DOMAIN mean2 \subseteq 0 .. e.nextKey - 1 /\ DOMAIN stored \subseteq DOMAIN mean2
        /\ \A k \in DOMAIN stored : mean2[k] \in Counts(refs) \cup {v} /\ stored[k].poc = mean2[k] - o
        /\ \A j, k \in DOMAIN stored : mean2[j] = mean2[k] => j = k
        /\ \A k \in DOMAIN pics : means[k] \in Counts(refs) => k \in DOMAIN stored /\ mean2[k] = means[k]
        /\ \E k \in DOMAIN stored : mean2[k] = v
        /\ \A k \in DOMAIN stored : stored[k].marking = "LongTerm" => mean2[k] \in L
        /\ \A k \in InRps(e.pending.rps) : mean2[k] = means[k]
    BY <1>8 DEF Stores
  <1>10. stored = Stored'
    BY DEF Stored
  <1>11. KeysInv'
    BY <1>9, <1>10 DEF KeysInv
  <1> HIDE DEF stored, refs, U
  <1>12. Mirrors(Stored, means, offset)'
    <2>1. DOMAIN stored \subseteq Nat
      <3>1. 0 .. e.nextKey - 1 \subseteq Nat
        BY <1>6
      <3> QED
        BY <1>9, <3>1
    <2>2. \A k \in DOMAIN stored : mean2[k] \in nearby'
      BY <1>1, <1>9 DEF HoldsAfter, refs
    <2> QED
      BY <1>9, <1>10, <2>1, <2>2 DEF Mirrors
  <1>13. \A p \in held' : p \in HeldPicture /\ (IsNow(p, t, v, tid) \/ \E q \in refs : KeptAs(p, q, t, long))
    BY <1>1 DEF HoldsAfter, EncoderInv, refs
  <1>14. HasExpected'
    <2> SUFFICES ASSUME NEW p \in held', Expected(p, layer, restarted')
                 PROVE  \E k \in DOMAIN stored : mean2[k] = p.poc
      BY <1>10 DEF HasExpected, Expected
    <2>1. CASE IsNow(p, t, v, tid)
      BY <1>9, <2>1 DEF IsNow
    <2>2. CASE \E q \in refs : KeptAs(p, q, t, long)
      <3>1. PICK q \in refs : KeptAs(p, q, t, long)
        BY <2>2
      <3>2. PICK k \in DOMAIN pics : means[k] = q.poc
        BY <1>13, <3>1 DEF InReachOf, refs
      <3>3. q.poc \in Counts(refs) /\ p.poc = q.poc
        BY <3>1 DEF Counts, KeptAs
      <3> QED
        BY <1>9, <3>2, <3>3
    <2> QED
      BY <1>13, <2>1, <2>2
  <1>15. LongKnown'
    <2> SUFFICES ASSUME NEW k \in DOMAIN stored, NEW p \in held', mean2[k] = p.poc,
                        stored[k].marking = "LongTerm"
                 PROVE  p.lt
      BY <1>10 DEF LongKnown
    <2>1. PICK q \in long : mean2[k] = q.poc /\ q \in refs
      BY <1>9 DEF Counts, ChosenSet, refs
    <2>2. ~IsNow(p, t, v, tid)
      BY <1>2, <2>1 DEF IsNow, Counts
    <2>3. PICK s \in refs : KeptAs(p, s, t, long)
      BY <1>13, <2>2
    <2>4. s = q
      <3>1. s \in held /\ q \in held /\ s.poc = q.poc
        BY <2>1, <2>3 DEF KeptAs, ChosenSet, refs
      <3> QED
        BY <3>1 DEF EncoderInv
    <2> QED
      BY <2>1, <2>3, <2>4 DEF KeptAs
  <1>16. ReferencesAgree'
    <2> DEFINE rps == RpsOf(d, SyncSps, h)
    <2>1. /\ Means(means, rps["stCurrBefore"]) = Before(S \cap U, v)
          /\ Means(means, rps["stCurrAfter"]) = After(S \cap U, v)
          /\ Means(means, rps["ltCurr"]) = Descending(L \cap U)
      BY <1>4 DEF MeansSet
    <2>2. S \cap U = sent'.short /\ L \cap U = sent'.long /\ v = sent'.poc
      BY <1>1, <1>3 DEF HoldsAfter, InTwoParts, U
    <2>3. \A k \in InRps(rps) : mean2[k] = means[k]
      BY <1>6, <1>9
    <2>4. {"stCurrBefore", "stCurrAfter", "ltCurr"} \subseteq Lists
      BY DEF Lists, ShortLists
    <2> HIDE DEF rps, mean2
    <2>5. /\ Means(mean2, rps["stCurrBefore"]) = Means(means, rps["stCurrBefore"])
          /\ Means(mean2, rps["stCurrAfter"]) = Means(means, rps["stCurrAfter"])
          /\ Means(mean2, rps["ltCurr"]) = Means(means, rps["ltCurr"])
      BY <2>3, <2>4, SameMeans
    <2>6. /\ Means(mean2, rps["stCurrBefore"]) = Before(sent'.short, sent'.poc)
          /\ Means(mean2, rps["stCurrAfter"]) = After(sent'.short, sent'.poc)
          /\ Means(mean2, rps["ltCurr"]) = Descending(sent'.long)
      BY <2>1, <2>2, <2>5
    <2>7. dec'.pending.rps = rps
      BY <1>6 DEF rps
    <2> QED
      BY <2>6, <2>7 DEF ReferencesAgree, Meaning, Means, Before, After, Descending, Ascending, mean2
  <1> QED
    BY <1>1, <1>11, <1>12, <1>14, <1>15, <1>16 DEF RefsInv

-----------------------------------------------------------------------------
(* The references: the steps *)

\* The count of a picture that begins fits.
LEMMA CountFits ==
  ASSUME profile \in Profiles, profile' = profile, SyncInv',
         NEW v \in -profile.span .. profile.span, sent'.poc = v,
         NEW d, IsStruct(d), NEW h, Receive(d, h, v), ~Skips(d, h)
  PROVE  /\ Multiple(offset') /\ PocOf(d, SyncSps, h) = v - offset'
         /\ PocOf(d, SyncSps, h) \in PocRange
  <1> DEFINE m == Cycle
  <1>1. tuned' /\ arrived' /\ dec'.pending # NoPicture /\ dec'.pending.poc = PocOf(d, SyncSps, h)
    BY ReceivedParts
  <1>2. PocOf(d, SyncSps, h) = v - offset'
    BY <1>1 DEF SyncInv, CountsAgree, Decoding
  <1>3. Multiple(offset') /\ offset' \in 1 - (profile.span + m) .. profile.span
    BY <1>1 DEF SyncInv, AnchorKnown, Multiple, Cycle
  <1>4. profile.span \in Nat /\ 2 * profile.span + m <= PocLimit /\ m \in Nat /\ PocLimit \in Nat
    BY Spans, Cycles
  <1> DEFINE o == offset'
             s == profile.span
  <1>5. v \in -s .. s /\ o \in 1 - (s + m) .. s /\ s \in Nat /\ 2 * s + m <= PocLimit
    BY <1>3, <1>4
  <1> HIDE DEF m, o, s
  <1>6. v \in Int /\ o \in Int /\ -s <= v /\ v <= s /\ 1 - (s + m) <= o /\ o <= s
    BY <1>4, <1>5
  <1>7. v - o \in -PocLimit .. PocLimit - 1
    BY <1>4, <1>5, <1>6
  <1> QED
    BY <1>2, <1>3, <1>7 DEF PocRange, o

\* A picture begins, its header as it was written or as that of a BLA picture.
LEMMA HeaderBegins ==
  ASSUME SyncInv', EncoderInv, KeysInv, profile \in Profiles, profile' = profile, layer' = layer,
         NEW t, NEW v, NEW tid, Chosen(t, v, tid),
         NEW used, NEW kept, NEW long, ChosenSet(t, tid, used, kept, long),
         Encode(t, v, tid, used, kept, long),
         NEW h, h = SliceHeader(t, v, tid, used, kept, long), CanBeCoded(h),
         NEW type \in {t, 16}, type = 16 => t = 21, NEW g, g = [h EXCEPT !.type = type],
         NEW d, IsState(d), d.nextKey = dec.nextKey, DOMAIN d.pics \subseteq DOMAIN means,
         Receive(d, g, v), ~Skips(d, g), t = 19 => NoRaslOutput(d, g),
         NEW pics, pics = Available(d, g), InReachOf(pics, t, used, kept, long, offset', layer, restarted')
  PROVE  RefsInv' /\ ReferencesAgree'
  <1> DEFINE S == ShortCounts(used, kept, long)
             L == Counts(long)
  <1>1. t \in {0, 1, 7, 9, 19, 21} /\ (IsIdr(t) <=> t = 19)
    BY Types DEF Chosen
  <1>2. v \in -profile.span .. profile.span /\ v \in Int /\ tid \in Nat /\ (t # 19 => v \notin nearby)
    BY Spans DEF Chosen, MayHaveCount
  <1>3. NamesSet(g, S, L, v, used) /\ g \in Header /\ g.type = type
    <2> HIDE DEF S, L
    <2>1. S = ShortCounts(used, kept, long) /\ L = Counts(long) /\ (v \notin nearby \/ t = 19)
      BY <1>2 DEF S, L
    <2> QED
      BY <1>1, <1>2, <2>1, HeaderNames
  <1>4. IsIdr(g.type) <=> t = 19
    BY <1>1, <1>3 DEF IsIdr
  <1>5. IsStruct(d)
    BY DEF IsState, IsStruct
  <1>6. sent'.poc = v
    BY DEF Encode
  <1>7. /\ Multiple(offset') /\ PocOf(d, SyncSps, g) = v - offset'
        /\ PocOf(d, SyncSps, g) \in PocRange
    BY <1>2, <1>5, <1>6, CountFits
  <1>8. DOMAIN means \subseteq 0 .. d.nextKey - 1
    BY DEF KeysInv
  <1>9. S = ShortCounts(used, kept, long) /\ L = Counts(long)
    OBVIOUS
  <1> HIDE DEF S, L
  <1> QED
    BY <1>3, <1>4, <1>7, <1>8, <1>9, BeginsInStep

\* The receiver when the next picture starts.
LEMMA SettledInv ==
  ASSUME KeysInv
  PROVE  IsState(Settled(dec)) /\ Settled(dec).nextKey = dec.nextKey /\ DOMAIN Settled(dec).pics \subseteq DOMAIN means
  <1>1. IsState(dec) /\ DOMAIN Settled(dec).pics \subseteq DOMAIN means
    BY DEF KeysInv, Stored
  <1>2. CASE dec.pending = NoPicture
    BY <1>1, <1>2 DEF Settled
  <1>3. CASE dec.pending # NoPicture
    BY <1>1, <1>3, SettledPics DEF KeysInv
  <1> QED
    BY <1>1, <1>2, <1>3

\* An IRAP picture uses nothing.
LEMMA IrapUsesNothing ==
  ASSUME profile \in Profiles, NEW t \in profile.types, NEW tid, NEW used, NEW kept, NEW long,
         ChosenSet(t, tid, used, kept, long)
  PROVE  /\ t = 19 => used \cup kept = {}
         /\ IsIrap(t) => used = {} /\ \A q \in kept : q.role \in {"Irap", "Trail"}
  <1>1. RoleOf(t) = "Irap" <=> IsIrap(t)
    BY Types
  <1>2. t = 19 => used \cup kept = {}
    BY DEF ChosenSet
  <1>3. IsIrap(t) => used = {}
    BY <1>1 DEF ChosenSet, MayUse
  <1>4. IsIrap(t) => \A q \in kept : q.role \in {"Irap", "Trail"}
    BY <1>1 DEF ChosenSet, MayKeep
  <1> QED
    BY <1>2, <1>3, <1>4

\* Behind a restart nothing is held and nothing is expected.
LEMMA RestartInReach ==
  ASSUME profile \in Profiles, NEW t \in profile.types, IsIrap(t), NEW tid, NEW used, NEW kept, NEW long,
         ChosenSet(t, tid, used, kept, long), NEW o, NEW l
  PROVE  InReachOf(<<>>, t, used, kept, long, o, l, TRUE)
  <1>1. used = {}
    BY IrapUsesNothing
  <1>2. DOMAIN <<>> = {}
    BY NoPictures
  <1>3. Mirrors(<<>>, means, o)
    BY <1>2 DEF Mirrors
  <1>4. \A q \in used \cup kept, p \in HeldPicture : ~(KeptAs(p, q, t, long) /\ Expected(p, l, TRUE))
    BY DEF KeptAs, Expected
  <1> QED
    BY <1>1, <1>2, <1>3, <1>4 DEF InReachOf

\* A receiver that starts here stores what the encoder still refers to, and no more.
LEMMA DeliverRestartRefs ==
  ASSUME SyncInv', RefsInv, profile \in Profiles, profile' = profile, layer' = layer,
         NEW t, NEW v, NEW tid, Chosen(t, v, tid),
         NEW used, NEW kept, NEW long, ChosenSet(t, tid, used, kept, long),
         Encode(t, v, tid, used, kept, long),
         NEW h, h = SliceHeader(t, v, tid, used, kept, long), CanBeCoded(h), DeliverRestart(h, v)
  PROVE  RefsInv' /\ ReferencesAgree'
  <1> DEFINE h2 == [h EXCEPT !.type = IF h.type = 21 THEN 16 ELSE @]
             d2 == [Settled(dec) EXCEPT !.afterEos = TRUE]
             type == IF t = 21 THEN 16 ELSE t
  <1>1. EncoderInv /\ KeysInv
    BY DEF RefsInv
  <1>2. /\ IsIrap(h.type) /\ restarted' = TRUE
        /\ \/ Receive(Fresh(dec.nextKey), h, v)
           \/ Receive(d2, h, v)
           \/ Receive(Settled(dec), h2, v)
    BY DEF DeliverRestart
  <1>3. PICK s0, s1, longTerm :
          h = [type |-> t, layerId |-> 0, dependent |-> FALSE, temporalId |-> tid,
               lsb |-> v % SyncSps.maxLsb, s0 |-> s0, s1 |-> s1, longTerm |-> longTerm]
    BY DEF SliceHeader
  <1>4. h.type = t /\ h = [h EXCEPT !.type = t] /\ h2 = [h EXCEPT !.type = type]
        /\ h2.type = type
    <2> DEFINE no == FALSE
               base == 0
               lsb == v % SyncSps.maxLsb
    <2>1. h = [type |-> t, layerId |-> base, dependent |-> no, temporalId |-> tid,
               lsb |-> lsb, s0 |-> s0, s1 |-> s1, longTerm |-> longTerm]
      BY <1>3
    <2> HIDE DEF no, base, lsb, type
    <2>2. h.type = t /\ h = [h EXCEPT !.type = t]
      BY <2>1
    <2>3. h2 = [h EXCEPT !.type = type]
      BY <2>2 DEF type
    <2>4. [h EXCEPT !.type = type].type = type
      BY <2>1
    <2> QED
      BY <2>2, <2>3, <2>4
  <1>5. /\ t \in profile.types /\ t \in {19, 21} /\ IsIrap(t)
        /\ IsIdr(19) /\ IsBla(16) /\ IsIrap(16)
    BY <1>2, <1>4, Types DEF Chosen, IsIdr, IsBla, IsIrap
  <1>6. IsState(dec) /\ dec.nextKey \in Nat
    BY <1>1, StateParts DEF KeysInv
  <1>7. \A o, l : InReachOf(<<>>, t, used, kept, long, o, l, TRUE)
    BY <1>5, RestartInReach
  <1>8. ASSUME NEW d, IsState(d), d.nextKey = dec.nextKey, DOMAIN d.pics \subseteq DOMAIN means,
               NEW g, NEW type2 \in {t, 16}, type2 = 16 => t = 21,
               g = [h EXCEPT !.type = type2], g.type = type2, NoRaslOutput(d, g), Receive(d, g, v)
        PROVE  RefsInv' /\ ReferencesAgree'
    <2>1. ~Skips(d, g)
      BY <1>5, <1>8 DEF Skips, IsRasl
    <2>2. Available(d, g) = <<>>
      BY <1>8 DEF Available
    <2>3. InReachOf(<<>>, t, used, kept, long, offset', layer, restarted')
      BY <1>2, <1>7
    <2>4. InReachOf(Available(d, g), t, used, kept, long, offset', layer, restarted')
      BY <2>2, <2>3
    <2> QED
      BY <1>1, <1>8, <2>1, <2>4, HeaderBegins
  <1>9. t # 16 /\ t \in {t, 16} /\ (t = 16 => t = 21)
    BY <1>5
  <1>10. CASE Receive(Fresh(dec.nextKey), h, v)
    <2> DEFINE d == Fresh(dec.nextKey)
    <2>1. IsState(d) /\ d.nextKey = dec.nextKey /\ d.pics = <<>>
      BY <1>6, FreshState
    <2>2. NoRaslOutput(d, h)
      BY <1>2 DEF NoRaslOutput, Fresh
    <2>3. DOMAIN d.pics \subseteq DOMAIN means
      BY <2>1, NoPictures
    <2>4. Receive(d, h, v)
      BY <1>10
    <2> HIDE DEF d
    <2> QED
      BY <1>4, <1>8, <1>9, <2>1, <2>2, <2>3, <2>4
  <1>11. CASE Receive(d2, h, v)
    <2> DEFINE e == Settled(dec)
               yes == TRUE
    <2>1. IsState(e) /\ e.nextKey = dec.nextKey /\ DOMAIN e.pics \subseteq DOMAIN means
      BY <1>1, SettledInv
    <2>2. yes \in BOOLEAN /\ yes /\ d2 = [e EXCEPT !.afterEos = yes]
      OBVIOUS
    <2> HIDE DEF d2, e, yes
    <2>3. d2 = [pics |-> e.pics, prevLsb |-> e.prevLsb, prevMsb |-> e.prevMsb,
                afterEos |-> yes, started |-> e.started,
                irapNoRaslOutput |-> e.irapNoRaslOutput, nextKey |-> e.nextKey,
                pending |-> e.pending]
      BY <2>1, <2>2 DEF IsState
    <2>4. /\ d2.pics = e.pics /\ d2.prevLsb = e.prevLsb /\ d2.prevMsb = e.prevMsb
          /\ d2.afterEos = yes /\ d2.started = e.started /\ d2.irapNoRaslOutput = e.irapNoRaslOutput
          /\ d2.nextKey = e.nextKey /\ d2.pending = e.pending
      BY <2>3
    <2>5. IsState(d2)
      BY <2>1, <2>2, <2>3, <2>4 DEF IsState
    <2>6. NoRaslOutput(d2, h)
      BY <1>2, <2>2, <2>4 DEF NoRaslOutput
    <2>7. DOMAIN d2.pics \subseteq DOMAIN means /\ d2.nextKey = dec.nextKey
      BY <2>1, <2>4
    <2> QED
      BY <1>4, <1>8, <1>9, <1>11, <2>5, <2>6, <2>7
  <1>12. CASE Receive(Settled(dec), h2, v)
    <2> DEFINE e == Settled(dec)
    <2>1. IsState(e) /\ e.nextKey = dec.nextKey /\ DOMAIN e.pics \subseteq DOMAIN means
      BY <1>1, SettledInv
    <2>2. type \in {t, 16} /\ (type = 16 => t = 21) /\ type \in {16, 19}
      BY <1>5
    <2>3. NoRaslOutput(e, h2)
      BY <1>4, <2>2 DEF NoRaslOutput, IsIrap, IsIdr, IsBla
    <2>4. Receive(e, h2, v)
      BY <1>12
    <2> HIDE DEF e, h2, type
    <2> QED
      BY <1>4, <1>8, <2>1, <2>2, <2>3, <2>4
  <1> QED
    BY <1>2, <1>10, <1>11, <1>12

\* A picture that stays expected was expected before, and one that is used was, too.
LEMMA ExpectedBefore ==
  ASSUME profile \in Profiles, NEW t \in profile.types, t # 19, NEW tid,
         NEW used, NEW kept, NEW long, ChosenSet(t, tid, used, kept, long),
         NEW l, NEW r, NEW r2, r2 = IF IsIrap(t) THEN FALSE ELSE r,
         NEW q \in used \cup kept, NEW p, KeptAs(p, q, t, long), Expected(p, l, r2)
  PROVE  Expected(q, l, r)
  <1>1. p.tid = q.tid /\ p.discardable = q.discardable
    BY DEF KeptAs
  <1>2. CASE IsIrap(t)
    <2>1. q.role \in {"Irap", "Trail"}
      BY <1>2, IrapUsesNothing
    <2> QED
      BY <1>1, <2>1 DEF Expected
  <1>3. CASE ~IsIrap(t)
    BY <1>1, <1>3 DEF Expected, KeptAs
  <1> QED
    BY <1>2, <1>3

\* A picture that is used was expected.
LEMMA UsedExpected ==
  ASSUME EncoderInv, profile \in Profiles, NEW t \in profile.types, NEW tid \in Nat,
         NEW used, NEW kept, NEW long, ChosenSet(t, tid, used, kept, long),
         NEW l \in Nat, tid <= l, NEW r, t = 9 => ~r, NEW q \in used
  PROVE  Expected(q, l, r)
  <1>1. q \in held /\ MayUse(t, tid, q)
    BY DEF ChosenSet
  <1>2. q.tid \in Nat
    BY <1>1 DEF EncoderInv, HeldPicture
  <1>3. q.tid <= tid /\ (q.discardable => q.tid < tid)
    BY <1>1 DEF MayUse
  <1>4. q.tid <= l /\ (q.discardable => q.tid < l)
    BY <1>2, <1>3
  <1>5. t # 9 => q.role \notin {"Before", "Rasl"}
    <2>1. t # 9 => RoleOf(t) \in {"Irap", "Trail", "Radl"}
      BY Types DEF RoleOf
    <2> QED
      BY <1>1, <2>1 DEF MayUse
  <1> QED
    BY <1>4, <1>5 DEF Expected

\* What the receiver holds when a picture of the stream begins is in reach of its set.
LEMMA StreamInReach ==
  ASSUME RefsInv, tuned, profile \in Profiles, NEW t \in profile.types, t # 19, NEW tid \in Nat,
         NEW used, NEW kept, NEW long, ChosenSet(t, tid, used, kept, long),
         layer \in Nat, tid <= layer, t = 9 => ~restarted,
         NEW r2, r2 = IF IsIrap(t) THEN FALSE ELSE restarted
  PROVE  InReachOf(Stored, t, used, kept, long, offset, layer, r2)
  <1>1. EncoderInv /\ Mirrors(Stored, means, offset) /\ HasExpected /\ LongKnown
    BY DEF RefsInv
  <1>2. \A q \in used \cup kept : q \in held
    BY DEF ChosenSet
  <1>3. \A k \in DOMAIN Stored, p \in used \cup kept :
          means[k] = p.poc /\ Stored[k].marking = "LongTerm" => p.lt
    BY <1>1, <1>2 DEF LongKnown
  <1>4. \A p \in used : \E k \in DOMAIN Stored : means[k] = p.poc
    <2> SUFFICES ASSUME NEW p \in used
                 PROVE  \E k \in DOMAIN Stored : means[k] = p.poc
      OBVIOUS
    <2>1. Expected(p, layer, restarted)
      BY <1>1, UsedExpected
    <2> QED
      BY <1>1, <1>2, <2>1 DEF HasExpected
  <1>5. \A q \in used \cup kept, p \in HeldPicture :
          KeptAs(p, q, t, long) /\ Expected(p, layer, r2) => \E k \in DOMAIN Stored : means[k] = q.poc
    <2> SUFFICES ASSUME NEW q \in used \cup kept, NEW p, KeptAs(p, q, t, long), Expected(p, layer, r2)
                 PROVE  \E k \in DOMAIN Stored : means[k] = q.poc
      OBVIOUS
    <2>1. Expected(q, layer, restarted)
      BY ExpectedBefore
    <2> QED
      BY <1>1, <1>2, <2>1 DEF HasExpected
  <1> QED
    BY <1>1, <1>3, <1>4, <1>5 DEF InReachOf

\* A picture that the receiver never has, and does not need, changes nothing for it.
LEMMA Bypassed ==
  ASSUME RefsInv, tuned, profile \in Profiles, NEW t, NEW v, NEW tid, Chosen(t, v, tid), ~IsIrap(t), ~Anchors(t, tid),
         NEW used, NEW kept, NEW long, ChosenSet(t, tid, used, kept, long),
         Encode(t, v, tid, used, kept, long), layer' = layer, KeysInv', Stored' = Stored,
         \A k \in DOMAIN Stored : means'[k] = means[k], offset' = offset, restarted' = restarted,
         \A p : IsNow(p, t, v, tid) => ~Expected(p, layer, restarted)
  PROVE  RefsInv'
  <1> DEFINE refs == used \cup kept
             mean2 == means'
             stored == Stored
  <1>1. EncoderInv /\ Mirrors(stored, means, offset) /\ HasExpected /\ LongKnown
    BY DEF RefsInv
  <1>2. EncoderInv' /\ HoldsAfter(t, v, tid, used, kept, long)
    BY <1>1, EncodedParts
  <1>3. t \in profile.types /\ t # 19 /\ refs \subseteq held
    BY Types DEF Chosen, ChosenSet
  <1>4. \A p \in held' : IsNow(p, t, v, tid) \/ \E q \in refs : KeptAs(p, q, t, long)
    BY <1>2 DEF HoldsAfter
  <1>5. v \notin nearby /\ \A c \in nearby : c \in nearby'
    BY <1>2, <1>3 DEF HoldsAfter
  <1>6. \A k \in DOMAIN stored : mean2[k] = means[k]
    OBVIOUS
  <1>7. Stored' = stored
    OBVIOUS
  <1> HIDE DEF mean2, stored
  <1>8. Mirrors(Stored, means, offset)'
    <2>1. /\ DOMAIN stored \subseteq Nat
          /\ \A k \in DOMAIN stored : mean2[k] \in nearby' /\ stored[k].poc = mean2[k] - offset
          /\ \A j, k \in DOMAIN stored : mean2[j] = mean2[k] => j = k
      BY <1>1, <1>5, <1>6 DEF Mirrors
    <2> QED
      BY <1>7, <2>1 DEF Mirrors, mean2
  <1>9. HasExpected'
    <2> SUFFICES ASSUME NEW p \in held', Expected(p, layer, restarted)
                 PROVE  \E k \in DOMAIN stored : mean2[k] = p.poc
      BY <1>7 DEF HasExpected, Expected, mean2
    <2>1. PICK q \in refs : KeptAs(p, q, t, long)
      BY <1>4
    <2>2. restarted = IF IsIrap(t) THEN FALSE ELSE restarted
      OBVIOUS
    <2>3. Expected(q, layer, restarted)
      BY <1>3, <2>1, <2>2, ExpectedBefore
    <2>4. q \in held /\ p.poc = q.poc
      BY <1>3, <2>1 DEF KeptAs
    <2> QED
      BY <1>1, <1>6, <2>3, <2>4 DEF HasExpected, stored
  <1>10. LongKnown'
    <2> SUFFICES ASSUME NEW k \in DOMAIN stored, NEW p \in held', means[k] = p.poc,
                        stored[k].marking = "LongTerm"
                 PROVE  p.lt
      BY <1>6, <1>7 DEF LongKnown, mean2
    <2>1. ~IsNow(p, t, v, tid)
      BY <1>1, <1>5 DEF IsNow, Mirrors
    <2>2. PICK q \in refs : KeptAs(p, q, t, long)
      BY <1>4, <2>1
    <2>3. q \in held /\ q.poc = p.poc
      BY <1>3, <2>2 DEF KeptAs
    <2>4. q.lt
      BY <1>1, <2>3 DEF LongKnown, stored
    <2> QED
      BY <2>2, <2>4 DEF KeptAs, ChosenSet
  <1> QED
    BY <1>2, <1>8, <1>9, <1>10 DEF RefsInv

\* A RASL picture is skipped.
LEMMA SkipRefs ==
  ASSUME RefsInv, tuned, profile \in Profiles, NEW t, NEW v, NEW tid, Chosen(t, v, tid), t = 9, restarted,
         NEW used, NEW kept, NEW long, ChosenSet(t, tid, used, kept, long),
         Encode(t, v, tid, used, kept, long), layer' = layer, offset' = offset, restarted' = restarted,
         NEW h, Receive(Settled(dec), h, v), Skips(Settled(dec), h)
  PROVE  RefsInv' /\ ReferencesAgree'
  <1> DEFINE d == Settled(dec)
  <1>1. /\ EncoderInv /\ KeysInv /\ Mirrors(Stored, means, offset)
        /\ IsState(d) /\ d.nextKey = dec.nextKey /\ DOMAIN d.pics \subseteq DOMAIN means
        /\ Stored = d.pics
    BY SettledInv DEF RefsInv, Stored
  <1>2. dec' = Announced(d, h)
    BY DEF Receive
  <1> HIDE DEF d
  <1>3. IsState(dec') /\ dec'.pics = d.pics /\ dec'.pending = NoPicture /\ dec'.nextKey = d.nextKey
    BY <1>1, <1>2, AnnouncedState
  <1>4. means' = [k \in DOMAIN d.pics |-> means[k]]
    <2>1. means' = [k \in DOMAIN dec'.pics \cup {j \in {dec'.nextKey - 1} : dec'.pending # NoPicture} |->
                      IF k \in DOMAIN means THEN means[k] ELSE v]
      BY DEF Receive
    <2>2. DOMAIN dec'.pics \cup {j \in {dec'.nextKey - 1} : dec'.pending # NoPicture} = DOMAIN d.pics
      BY <1>3
    <2>3. means' = [k \in DOMAIN d.pics |-> IF k \in DOMAIN means THEN means[k] ELSE v]
      BY <2>1, <2>2
    <2> QED
      BY <1>1, <2>3
  <1>5. Stored' = Stored
    BY <1>1, <1>3 DEF Stored, Settled
  <1>6. KeysInv'
    <2>1. DOMAIN means' = DOMAIN d.pics
      BY <1>4
    <2>2. DOMAIN means \subseteq 0 .. dec.nextKey - 1
      BY <1>1 DEF KeysInv
    <2> QED
      BY <1>1, <1>3, <1>5, <2>1, <2>2 DEF KeysInv
  <1>7. ~Decoding'
    BY <1>3 DEF Decoding
  <1>8. ~IsIrap(t) /\ ~Anchors(t, tid) /\ RoleOf(t) = "Rasl"
    BY Types DEF Chosen, Anchors
  <1>9. \A p : IsNow(p, t, v, tid) => ~Expected(p, layer, restarted)
    BY <1>8 DEF IsNow, Expected
  <1>10. \A k \in DOMAIN Stored : means'[k] = means[k]
    BY <1>1, <1>4
  <1>11. RefsInv'
    BY <1>5, <1>6, <1>8, <1>9, <1>10, Bypassed
  <1> QED
    BY <1>7, <1>11 DEF ReferencesAgree

\* A picture that follows the ones before it leaves the receiver with the encoder's.
LEMMA DeliverRefs ==
  ASSUME SyncInv, SyncInv', RefsInv, profile' = profile, layer' = layer,
         NEW t, NEW v, NEW tid, Chosen(t, v, tid), tid <= layer,
         NEW used, NEW kept, NEW long, ChosenSet(t, tid, used, kept, long),
         Encode(t, v, tid, used, kept, long),
         NEW h, h = SliceHeader(t, v, tid, used, kept, long), CanBeCoded(h), Deliver(h, v)
  PROVE  RefsInv' /\ ReferencesAgree'
  <1> DEFINE d == Settled(dec)
  <1>1. /\ tuned /\ Receive(d, h, v)
        /\ offset' = IF IsIdr(h.type) THEN 0 ELSE offset
        /\ restarted' = IF IsIrap(h.type) THEN IsIdr(h.type) ELSE restarted
    BY DEF Deliver
  <1>2. PICK s0, s1, longTerm :
          h = [type |-> t, layerId |-> 0, dependent |-> FALSE, temporalId |-> tid,
               lsb |-> v % SyncSps.maxLsb, s0 |-> s0, s1 |-> s1, longTerm |-> longTerm]
    BY DEF SliceHeader
  <1>3. h.type = t /\ h = [h EXCEPT !.type = t]
    <2> DEFINE no == FALSE
               base == 0
               lsb == v % SyncSps.maxLsb
    <2>1. h = [type |-> t, layerId |-> base, dependent |-> no, temporalId |-> tid,
               lsb |-> lsb, s0 |-> s0, s1 |-> s1, longTerm |-> longTerm]
      BY <1>2
    <2> HIDE DEF no, base, lsb
    <2> QED
      BY <2>1
  <1>4. profile \in Profiles /\ layer \in Nat /\ t \in profile.types /\ tid \in Nat
    BY DEF SyncInv, AnchorKnown, Chosen
  <1>5. /\ t \in {0, 1, 7, 9, 19, 21}
        /\ IsIrap(t) <=> t \in {19, 21}
        /\ IsIdr(t) <=> t = 19
        /\ IsRasl(t) <=> t = 9
        /\ ~IsBla(t)
    BY <1>4, Types
  <1>6. EncoderInv /\ KeysInv
    BY DEF RefsInv
  <1>7. IsState(d) /\ d.nextKey = dec.nextKey /\ DOMAIN d.pics \subseteq DOMAIN means
    BY <1>6, SettledInv
  <1>8. d.started /\ ~d.afterEos /\ d.irapNoRaslOutput = restarted
    BY <1>1, SettledParts DEF SyncInv, FlagsKnown
  <1>9. NoRaslOutput(d, h) <=> t = 19
    BY <1>3, <1>5, <1>8 DEF NoRaslOutput
  <1>10. Skips(d, h) <=> t = 9 /\ restarted
    <2>1. t = 9 => Announced(d, h).irapNoRaslOutput = restarted
      BY <1>3, <1>5, <1>7, <1>8 DEF Announced, IsState
    <2> QED
      BY <1>3, <1>5, <2>1 DEF Skips
  <1>11. CASE t = 19
    <2>1. restarted' = TRUE
      BY <1>1, <1>3, <1>5, <1>11 DEF IsIdr
    <2>2. InReachOf(<<>>, t, used, kept, long, offset', layer, TRUE)
      BY <1>4, <1>5, <1>11, RestartInReach
    <2>3. Available(d, h) = <<>>
      BY <1>9, <1>11 DEF Available
    <2>4. InReachOf(Available(d, h), t, used, kept, long, offset', layer, restarted')
      BY <2>1, <2>2, <2>3
    <2>5. ~Skips(d, h)
      BY <1>10, <1>11
    <2>6. t \in {t, 16} /\ (t = 16 => t = 21) /\ (t = 19 => NoRaslOutput(d, h))
      BY <1>5, <1>9
    <2> HIDE DEF d
    <2> QED
      BY <1>1, <1>3, <1>4, <1>6, <1>7, <2>4, <2>5, <2>6, HeaderBegins
  <1>12. CASE t # 19 /\ ~Skips(d, h)
    <2>1. offset' = offset
      BY <1>1, <1>3, <1>5, <1>12
    <2>2. restarted' = IF IsIrap(t) THEN FALSE ELSE restarted
      <3>1. IsIdr(t) = FALSE
        BY <1>5, <1>12 DEF IsIdr
      <3> QED
        BY <1>1, <1>3, <3>1
    <2>3. t = 9 => ~restarted
      BY <1>10, <1>12
    <2>4. InReachOf(Stored, t, used, kept, long, offset, layer, restarted')
      BY <1>1, <1>4, <1>12, <2>2, <2>3, StreamInReach
    <2>5. Available(d, h) = Stored
      BY <1>9, <1>12 DEF Available, Stored
    <2>6. InReachOf(Available(d, h), t, used, kept, long, offset', layer, restarted')
      BY <2>1, <2>4, <2>5
    <2>7. t \in {t, 16} /\ (t = 16 => t = 21) /\ (t = 19 => NoRaslOutput(d, h))
      BY <1>5, <1>9
    <2> HIDE DEF d
    <2> QED
      BY <1>1, <1>3, <1>4, <1>6, <1>7, <1>12, <2>6, <2>7, HeaderBegins
  <1>13. CASE Skips(d, h)
    <2>1. t = 9 /\ restarted
      BY <1>10, <1>13
    <2>2. offset' = offset /\ restarted' = restarted
      BY <1>1, <1>3, <1>5, <2>1
    <2> QED
      BY <1>1, <1>4, <1>13, <2>1, <2>2, SkipRefs
  <1> QED
    BY <1>11, <1>12, <1>13

\* What is dropped is neither an anchor nor expected.
LEMMA DropRefs ==
  ASSUME SyncInv, RefsInv, layer' = layer,
         NEW t, NEW v, NEW tid, Chosen(t, v, tid),
         NEW used, NEW kept, NEW long, ChosenSet(t, tid, used, kept, long),
         Encode(t, v, tid, used, kept, long), Drop(t, tid)
  PROVE  RefsInv' /\ ReferencesAgree'
  <1>1. /\ tuned /\ arrived' = FALSE
        /\ dec' = dec /\ means' = means /\ offset' = offset /\ restarted' = restarted
        /\ tid > layer \/ (tid = layer /\ t = 0)
    BY DEF Drop
  <1>2. profile \in Profiles /\ layer \in Nat /\ t \in profile.types /\ tid \in Nat
    BY DEF SyncInv, AnchorKnown, Chosen
  <1>3. ~IsIrap(t) /\ ~Anchors(t, tid)
    <2>1. IsIrap(t) => tid = 0 /\ t # 0
      BY Types, <1>2 DEF Chosen
    <2> QED
      BY <1>1, <1>2, <2>1 DEF Anchors
  <1>4. \A p : IsNow(p, t, v, tid) => ~Expected(p, layer, restarted)
    <2> SUFFICES ASSUME NEW p, IsNow(p, t, v, tid), Expected(p, layer, restarted)
                 PROVE  FALSE
      OBVIOUS
    <2>1. p.tid = tid /\ (t = 0 => p.discardable)
      BY DEF IsNow
    <2>2. p.tid <= layer /\ (p.discardable => p.tid < layer)
      BY DEF Expected
    <2>3. tid <= layer /\ (t = 0 => tid < layer)
      BY <2>1, <2>2
    <2> QED
      BY <1>1, <1>2, <2>3
  <1>5. KeysInv' /\ Stored' = Stored
    BY <1>1 DEF RefsInv, KeysInv, Stored
  <1>6. RefsInv'
    BY <1>1, <1>2, <1>3, <1>4, <1>5, Bypassed
  <1> QED
    BY <1>1, <1>6 DEF ReferencesAgree, Decoding

\* A receiver that loses the stream keeps its keys.
LEMMA LoseRefs ==
  ASSUME RefsInv, profile \in Profiles, NEW t, NEW v, NEW tid, Chosen(t, v, tid),
         NEW used, NEW kept, NEW long, ChosenSet(t, tid, used, kept, long),
         Encode(t, v, tid, used, kept, long), Lose
  PROVE  RefsInv' /\ ReferencesAgree'
  <1>1. arrived' = FALSE /\ tuned' = FALSE /\ dec' = dec /\ means' = means
    BY DEF Lose
  <1>2. EncoderInv'
    BY EncodedParts DEF RefsInv
  <1>3. KeysInv'
    BY <1>1 DEF RefsInv, KeysInv, Stored
  <1> QED
    BY <1>1, <1>2, <1>3 DEF RefsInv, ReferencesAgree, Decoding

\* Whatever becomes of the picture written.
LEMMA CodeRefs ==
  ASSUME SyncInv, SyncInv', RefsInv, NEW t, NEW v, NEW tid, Chosen(t, v, tid),
         NEW used, NEW kept, NEW long, ChosenSet(t, tid, used, kept, long),
         Code(t, v, tid, used, kept, long)
  PROVE  RefsInv' /\ ReferencesAgree'
  <1> DEFINE h == SliceHeader(t, v, tid, used, kept, long)
  <1>1. /\ CanBeCoded(h) /\ Encode(t, v, tid, used, kept, long)
        /\ profile' = profile /\ layer' = layer
        /\ (tid <= layer /\ (Deliver(h, v) \/ DeliverRestart(h, v))) \/ Drop(t, tid) \/ Lose
    BY DEF Code
  <1>2. profile \in Profiles
    BY DEF SyncInv, AnchorKnown
  <1>3. h = SliceHeader(t, v, tid, used, kept, long)
    OBVIOUS
  <1> HIDE DEF h
  <1>4. CASE tid <= layer /\ Deliver(h, v)
    BY <1>1, <1>3, <1>4, DeliverRefs
  <1>5. CASE tid <= layer /\ DeliverRestart(h, v)
    BY <1>1, <1>2, <1>3, <1>5, DeliverRestartRefs
  <1>6. CASE Drop(t, tid)
    BY <1>1, <1>6, DropRefs
  <1>7. CASE Lose
    BY <1>1, <1>2, <1>7, LoseRefs
  <1> QED
    BY <1>1, <1>4, <1>5, <1>6, <1>7

RefsKept == SyncInv /\ RefsInv /\ ReferencesAgree

\* Before the stream starts.
LEMMA RefsInitInv == Init => RefsKept
  <1> SUFFICES ASSUME Init
               PROVE  RefsKept
    OBVIOUS
  <1>1. /\ held = {} /\ nearby = {} /\ dec = Fresh(0) /\ means = <<>> /\ tuned = FALSE /\ arrived = FALSE
    BY DEF Init
  <1>2. SyncInv
    BY SyncInitInv
  <1>3. EncoderInv
    BY <1>1, FS_EmptySet DEF EncoderInv, AreNearby, AreCounts, Counts
  <1>4. IsState(dec) /\ dec.pics = <<>> /\ dec.pending = NoPicture
    BY <1>1, FreshState
  <1>5. Stored = <<>>
    BY <1>4 DEF Stored, Settled
  <1>6. KeysInv
    BY <1>1, <1>4, <1>5, NoPictures DEF KeysInv
  <1> QED
    BY <1>1, <1>2, <1>3, <1>6 DEF RefsKept, RefsInv, ReferencesAgree, Decoding

\* Nothing moves.
LEMMA RefsStutter ==
  ASSUME RefsInv, ReferencesAgree, UNCHANGED syncVars
  PROVE  RefsInv' /\ ReferencesAgree'
  <1>1. /\ held' = held /\ nearby' = nearby /\ sent' = sent /\ dec' = dec /\ means' = means
        /\ offset' = offset /\ tuned' = tuned /\ restarted' = restarted /\ arrived' = arrived
        /\ layer' = layer
    BY DEF syncVars, encoder, receiver
  <1>2. EncoderInv'
    BY <1>1 DEF RefsInv, EncoderInv, AreNearby, AreCounts, Counts
  <1>3. KeysInv'
    BY <1>1 DEF RefsInv, KeysInv, Stored
  <1>4. tuned => Mirrors(Stored, means, offset)' /\ HasExpected' /\ LongKnown'
    BY <1>1 DEF RefsInv, Mirrors, Stored, HasExpected, Expected, LongKnown
  <1>5. ReferencesAgree'
    BY <1>1 DEF ReferencesAgree, Decoding, Meaning, Before, After, Ascending, Descending
  <1> QED
    BY <1>1, <1>2, <1>3, <1>4, <1>5 DEF RefsInv

\* Every step.
LEMMA RefsNextInv == RefsKept /\ [Next]_syncVars => RefsKept'
  <1> SUFFICES ASSUME RefsKept, [Next]_syncVars
               PROVE  RefsKept'
    OBVIOUS
  <1>1. SyncInv /\ RefsInv /\ ReferencesAgree
    BY DEF RefsKept
  <1>2. SyncInv'
    BY <1>1, SyncNextInv
  <1>3. CASE UNCHANGED syncVars
    BY <1>1, <1>2, <1>3, RefsStutter DEF RefsKept
  <1>4. CASE Send
    <2>1. PICK t \in profile.types, v \in -profile.span .. profile.span, tid \in 0 .. profile.topLayer :
            /\ MayHaveCount(t, v)
            /\ IsIrap(t) => tid = 0
            /\ \E used \in SUBSET {p \in held : t # 19 /\ MayUse(t, tid, p)} :
               \E kept \in SUBSET {p \in held \ used : t # 19 /\ MayKeep(t, p)} :
                 /\ Cardinality(used \cup kept) <= EncoderRefs
                 /\ \E long \in SUBSET (used \cup kept) :
                      /\ {p \in used \cup kept : p.lt} \subseteq long
                      /\ Code(t, v, tid, used, kept, long)
      BY <1>4 DEF Send
    <2>2. Chosen(t, v, tid)
      BY <2>1 DEF Chosen
    <2>3. PICK used, kept, long : ChosenSet(t, tid, used, kept, long) /\ Code(t, v, tid, used, kept, long)
      BY <2>1 DEF ChosenSet
    <2> QED
      BY <1>1, <1>2, <2>2, <2>3, CodeRefs DEF RefsKept
  <1> QED
    BY <1>3, <1>4 DEF Next, End

\* The receiver stays in step, and what it stores mirrors the pictures that it is
\* expected to have.
THEOREM RefsInvariance == Spec => []RefsKept
  <1> QED
    BY RefsInitInv, RefsNextInv, PTL DEF Spec

\* ReferencesAgree, for every cycle length, profile and bound: the lists that
\* begin_picture of hevc/dpb.rs derives hold the pictures the encoder meant.
THEOREM ReferencesAgreeAlways == Spec => []ReferencesAgree
  <1>1. RefsKept => ReferencesAgree
    BY DEF RefsKept
  <1> QED
    BY <1>1, RefsInvariance, PTL

=============================================================================
