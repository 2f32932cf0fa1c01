----------------------------- MODULE StreamProofs -----------------------------
(***************************************************************************)
(* What a decoder gets of a stream.                                        *)
(*                                                                         *)
(* Emulation prevention, for payloads of any length: what rbsp_to_ebsp     *)
(* escapes, ebsp_to_rbsp restores, and the other way round for every       *)
(* legal EBSP; and an escaped payload holds no start code.                 *)
(*                                                                         *)
(* The front ends, for every number of pictures, segments, slots and       *)
(* parameter sets, whatever the sender chooses and whatever is lost.       *)
(* H.264: pictures begin once, and with the slice they should; PocState    *)
(* rebuilds the counts the encoder reduced.  HEVC: dependent segments are  *)
(* completed from their own picture or sequence.  Both: slices and         *)
(* segments meet the sets they were written with.  VP9: what lost frames   *)
(* did not leave stale, Vp9State has as the encoder means it.  AV1: a      *)
(* decoder that lost nothing since a frame refreshed every slot holds      *)
(* what the encoder holds, and coded order hints tell which slots          *)
(* survived a loss.                                                        *)
(*                                                                         *)
(* Then the composition: every behaviour of FrontEnds is one of each       *)
(* front end in it, the one whose stream was opened steps and the others   *)
(* stutter, so what is proved of a front end by itself is proved of what   *)
(* the runs check.                                                         *)
(***************************************************************************)
EXTENDS FrontEnds, Framing, TLAPS, SequenceTheorems, WellFoundedInduction

-----------------------------------------------------------------------------
(* Induction and recursion: the loops over a payload are functions of the   *)
(* number of bytes consumed                                                 *)

\* A set of naturals that is not empty has a least element, the first number for
\* which a claim would fail.
LEMMA LeastNumber ==
    ASSUME NEW S, S \subseteq Nat, S # {}
    PROVE  \E k \in S : \A j \in S : k <= j
  <1> DEFINE R == OpToRel(<, Nat)
  <1>1. PICK k \in S : \A j \in S : <<j, k>> \notin R
    BY NatLessThanWellFounded, WFMin
  <1>2. R = {ss \in Nat \X Nat : ss[1] < ss[2]}
    BY DEF OpToRel
  <1> HIDE DEF R
  <1>3. ASSUME NEW j \in S  PROVE k <= j
    <2>1. <<j, k>> \in Nat \X Nat /\ <<j, k>>[1] = j /\ <<j, k>>[2] = k
      OBVIOUS
    <2>2. ~(j < k)
      BY <1>1, <1>2, <2>1
    <2> QED
      BY <2>2
  <1> QED
    BY <1>3

\* A set that holds zero and with each number the next one holds all up to m.
LEMMA UpTo ==
    ASSUME NEW m \in Nat, NEW P, 0 \in P,
           \A n \in 1 .. m : n - 1 \in P => n \in P
    PROVE  \A n \in 0 .. m : n \in P
  <1> DEFINE bad == {n \in 0 .. m : n \notin P}
  <1> SUFFICES ASSUME bad # {}  PROVE FALSE
    OBVIOUS
  <1>1. bad \subseteq Nat
    OBVIOUS
  <1>2. PICK k \in bad : \A j \in bad : k <= j
    <2> HIDE DEF bad
    <2> QED
      BY <1>1, LeastNumber
  <1>3. k \in 1 .. m /\ k \notin P
    OBVIOUS
  <1>4. k - 1 \in 0 .. m /\ ~(k <= k - 1)
    BY <1>3
  <1>5. k - 1 \notin bad
    <2> HIDE DEF bad
    <2> QED
      BY <1>2, <1>4
  <1> QED
    BY <1>3, <1>4, <1>5

\* The values of a loop of m rounds that starts with base: next gives the state after
\* a round from the round and the state before it.
Runs(f, base, m, next) ==
    f = [n \in 0 .. m |-> IF n = 0 THEN base ELSE next[<<n, f[n - 1]>>]]

LEMMA RunsExist ==
    ASSUME NEW S, NEW base \in S, NEW m \in Nat, NEW next \in [(1 .. m) \X S -> S]
    PROVE  \E f : Runs(f, base, m, next) /\ f \in [0 .. m -> S]
  <1> DEFINE P == {n \in 0 .. m : \E f : Runs(f, base, n, next) /\ f \in [0 .. n -> S]}
  <1>1. 0 \in P
    <2> DEFINE f == [n \in 0 .. 0 |-> base]
    <2>1. Runs(f, base, 0, next) /\ f \in [0 .. 0 -> S]
      BY DEF Runs
    <2> QED
      BY <2>1
  <1>2. ASSUME NEW n \in 1 .. m, n - 1 \in P
        PROVE  n \in P
    <2>1. PICK f : Runs(f, base, n - 1, next) /\ f \in [0 .. n - 1 -> S]
      BY <1>2
    <2> DEFINE final == next[<<n, f[n - 1]>>]
               g == [j \in 0 .. n |-> IF j = n THEN final ELSE f[j]]
    <2>2. n - 1 \in 0 .. n - 1 /\ f[n - 1] \in S /\ final \in S
      BY <2>1
    <2> HIDE DEF final
    <2>3. /\ \A j \in 0 .. n - 1 : g[j] = f[j]
          /\ g[n] = final
      OBVIOUS
    <2>4. g \in [0 .. n -> S]
      BY <2>1, <2>2
    <2>5. ASSUME NEW j \in 0 .. n
          PROVE  g[j] = IF j = 0 THEN base ELSE next[<<j, g[j - 1]>>]
      <3>1. CASE j = n
        <4>1. n # 0 /\ g[j - 1] = f[n - 1] /\ g[j] = final
          BY <2>2, <2>3, <3>1
        <4> HIDE DEF g
        <4> QED
          BY <3>1, <4>1 DEF final
      <3>2. CASE j # n
        <4>1. j \in 0 .. n - 1 /\ (j # 0 => j - 1 \in 0 .. n - 1)
          BY <3>2
        <4>2. f[j] = IF j = 0 THEN base ELSE next[<<j, f[j - 1]>>]
          BY <2>1, <4>1 DEF Runs
        <4> HIDE DEF g
        <4> QED
          BY <2>3, <4>1, <4>2
      <3> QED
        BY <3>1, <3>2
    <2>6. Runs(g, base, n, next)
      BY <2>5 DEF Runs, g
    <2> QED
      BY <2>4, <2>6
  <1>3. m \in P
    <2> HIDE DEF P
    <2> QED
      BY <1>1, <1>2, UpTo
  <1> QED
    BY <1>3

-----------------------------------------------------------------------------
(* The two loops *)

\* The rounds of ebsp_to_rbsp.
Unescaping(ebsp, out) ==
    /\ out \in [0 .. Len(ebsp) -> Seq(Nat)]
    /\ out[0] = <<>>
    /\ \A n \in 1 .. Len(ebsp) :
         out[n] = IF Escape(ebsp, n) THEN out[n - 1] ELSE Append(out[n - 1], ebsp[n])

LEMMA Unescapes ==
    ASSUME NEW ebsp \in Seq(Nat)
    PROVE  \E out : Unescaping(ebsp, out) /\ EbspToRbsp(ebsp) = out[Len(ebsp)]
  <1> DEFINE m == Len(ebsp)
             next == [x \in (1 .. m) \X Seq(Nat) |->
                        IF Escape(ebsp, x[1]) THEN x[2] ELSE Append(x[2], ebsp[x[1]])]
             Is(out) == out = [n \in 0 .. m |->
                          IF n = 0 THEN <<>>
                          ELSE IF Escape(ebsp, n) THEN out[n - 1] ELSE Append(out[n - 1], ebsp[n])]
             out == CHOOSE out : Is(out)
  <1>1. m \in Nat /\ \A n \in 1 .. m : ebsp[n] \in Nat
    OBVIOUS
  <1>2. next \in [(1 .. m) \X Seq(Nat) -> Seq(Nat)]
    <2> SUFFICES ASSUME NEW x \in (1 .. m) \X Seq(Nat)
                 PROVE  (IF Escape(ebsp, x[1]) THEN x[2] ELSE Append(x[2], ebsp[x[1]])) \in Seq(Nat)
      OBVIOUS
    <2>1. x[1] \in 1 .. m /\ x[2] \in Seq(Nat)
      OBVIOUS
    <2> QED
      BY <1>1, <2>1
  <1>3. \A n \in 1 .. m, s \in Seq(Nat) :
           next[<<n, s>>] = IF Escape(ebsp, n) THEN s ELSE Append(s, ebsp[n])
    OBVIOUS
  <1>4. ASSUME NEW f, f \in [0 .. m -> Seq(Nat)]
        PROVE  Runs(f, <<>>, m, next) <=> Is(f)
    <2>1. \A n \in 0 .. m : n # 0 => n \in 1 .. m /\ f[n - 1] \in Seq(Nat)
      BY <1>1, <1>4
    <2> HIDE DEF next
    <2>2. \A n \in 0 .. m : n # 0 =>
             next[<<n, f[n - 1]>>] = IF Escape(ebsp, n) THEN f[n - 1] ELSE Append(f[n - 1], ebsp[n])
      BY <1>3, <2>1
    <2> QED
      BY <2>2 DEF Runs
  <1>5. \E f : Is(f)
    <2>1. <<>> \in Seq(Nat)
      OBVIOUS
    <2> HIDE DEF next, Is
    <2>2. PICK f : Runs(f, <<>>, m, next) /\ f \in [0 .. m -> Seq(Nat)]
      <3> HIDE DEF m
      <3> QED
        BY <1>1, <1>2, <2>1, RunsExist
    <2> QED
      BY <1>4, <2>2
  <1>6. Is(out)
    <2> HIDE DEF Is
    <2> QED
      BY <1>5, Zenon
  <1>7. EbspToRbsp(ebsp) = out[m]
    BY Zenon DEF EbspToRbsp
  <1> HIDE DEF out
  <1>8. /\ DOMAIN out = 0 .. m /\ out = [n \in 0 .. m |-> out[n]] /\ out[0] = <<>>
        /\ \A n \in 1 .. m : out[n] = IF Escape(ebsp, n) THEN out[n - 1] ELSE Append(out[n - 1], ebsp[n])
    <2>1. /\ DOMAIN out = 0 .. m /\ out = [n \in 0 .. m |-> out[n]]
          /\ \A n \in 0 .. m :
               out[n] = IF n = 0 THEN <<>>
                        ELSE IF Escape(ebsp, n) THEN out[n - 1] ELSE Append(out[n - 1], ebsp[n])
      BY <1>6
    <2>2. 0 \in 0 .. m /\ \A n \in 1 .. m : n \in 0 .. m /\ n # 0
      BY <1>1
    <2> HIDE DEF m, Is
    <2> QED
      BY <2>1, <2>2
  <1>9. \A n \in 0 .. m : out[n] \in Seq(Nat)
    <2> DEFINE P == {n \in 0 .. m : out[n] \in Seq(Nat)}
    <2>1. 0 \in P
      BY <1>1, <1>8
    <2>2. ASSUME NEW n \in 1 .. m, n - 1 \in P
          PROVE  n \in P
      <3>1. out[n - 1] \in Seq(Nat) /\ ebsp[n] \in Nat /\ n \in 0 .. m
        BY <1>1, <2>2
      <3>2. out[n] = IF Escape(ebsp, n) THEN out[n - 1] ELSE Append(out[n - 1], ebsp[n])
        BY <1>8
      <3> HIDE DEF m
      <3>3. Append(out[n - 1], ebsp[n]) \in Seq(Nat)
        BY <3>1
      <3>4. out[n] \in Seq(Nat)
        BY <3>1, <3>2, <3>3
      <3> QED
        BY <3>1, <3>4
    <2>3. \A n \in 0 .. m : n \in P
      <3> HIDE DEF P, m
      <3> QED
        BY <1>1, <2>1, <2>2, UpTo
    <2> QED
      BY <2>3
  <1>10. Unescaping(ebsp, out)
    <2>1. out \in [0 .. m -> Seq(Nat)]
      BY <1>8, <1>9
    <2> QED
      BY <1>8, <2>1 DEF Unescaping
  <1> QED
    BY <1>7, <1>10

\* The payload of t, which is s and a byte b behind it.
ReadsOn(s, b, t) ==
    /\ EbspToRbsp(s) \in Seq(Nat)
    /\ Escape(t, Len(t)) => EbspToRbsp(t) = EbspToRbsp(s)
    /\ ~Escape(t, Len(t)) => EbspToRbsp(t) = Append(EbspToRbsp(s), b)

\* A byte more, the bytes before it the same: the loop makes one more round.
LEMMA UnescapesNext ==
    ASSUME NEW s \in Seq(Nat), NEW b \in Nat, NEW t, t = Append(s, b)
    PROVE  ReadsOn(s, b, t)
  <1>1. /\ t \in Seq(Nat) /\ Len(s) \in Nat /\ Len(t) = Len(s) + 1 /\ t[Len(t)] = b
        /\ \A i \in 1 .. Len(s) : t[i] = s[i]
    OBVIOUS
  <1>2. PICK x : Unescaping(s, x) /\ EbspToRbsp(s) = x[Len(s)]
    BY Unescapes
  <1>3. PICK y : Unescaping(t, y) /\ EbspToRbsp(t) = y[Len(t)]
    BY <1>1, Unescapes
  <1> DEFINE m == Len(s)
             P == {n \in 0 .. m : y[n] = x[n]}
  <1>4. 0 \in P
    BY <1>1, <1>2, <1>3 DEF Unescaping
  <1>5. ASSUME NEW n \in 1 .. m, n - 1 \in P
        PROVE  n \in P
    <2>1. n \in 1 .. Len(t) /\ n \in 0 .. m /\ t[n] = s[n]
      BY <1>1
    <2>2. Escape(t, n) <=> Escape(s, n)
      <3>1. n > 2 => n - 1 \in 1 .. m /\ n - 2 \in 1 .. m
        BY <1>1
      <3> QED
        BY <1>1, <2>1, <3>1 DEF Escape
    <2>3. /\ x[n] = IF Escape(s, n) THEN x[n - 1] ELSE Append(x[n - 1], s[n])
          /\ y[n] = IF Escape(t, n) THEN y[n - 1] ELSE Append(y[n - 1], t[n])
      BY <1>2, <1>3, <2>1 DEF Unescaping
    <2>4. y[n] = x[n]
      BY <1>5, <2>1, <2>2, <2>3
    <2> QED
      BY <2>1, <2>4
  <1>6. y[m] = x[m]
    <2>1. m \in P
      <3> HIDE DEF P
      <3>1. m \in Nat /\ m \in 0 .. m
        BY <1>1
      <3> HIDE DEF m
      <3> QED
        BY <1>4, <1>5, <3>1, UpTo
    <2> QED
      BY <2>1
  <1>7. y[m + 1] = IF Escape(t, m + 1) THEN y[m] ELSE Append(y[m], t[m + 1])
    <2>1. m + 1 \in 1 .. Len(t) /\ (m + 1) - 1 = m
      BY <1>1
    <2>2. y[m + 1] = IF Escape(t, m + 1) THEN y[(m + 1) - 1] ELSE Append(y[(m + 1) - 1], t[m + 1])
      BY <1>3, <2>1 DEF Unescaping
    <2> QED
      BY <2>1, <2>2
  <1>8. x[m] \in Seq(Nat)
    BY <1>1, <1>2 DEF Unescaping
  <1>9. /\ EbspToRbsp(s) = x[m] /\ EbspToRbsp(t) = y[m + 1] /\ t[m + 1] = b
        /\ Len(t) = m + 1
    BY <1>1, <1>2, <1>3
  <1> HIDE DEF m
  <1> QED
    BY <1>6, <1>7, <1>8, <1>9 DEF ReadsOn

\* Nothing comes of nothing.
LEMMA UnescapesNothing == EbspToRbsp(<<>>) = <<>>
  <1>1. <<>> \in Seq(Nat) /\ Len(<<>>) = 0
    OBVIOUS
  <1> QED
    BY <1>1, Unescapes DEF Unescaping

\* States of rbsp_to_ebsp.
EscapeStates == [out : Seq(Nat), zeros : Nat]

LEMMA EscapeByteType ==
    ASSUME NEW s \in EscapeStates, NEW b \in Nat
    PROVE  /\ EscapeByte(s, b) \in EscapeStates
           /\ s.zeros >= 2 /\ b <= 3 =>
                EscapeByte(s, b).out = Append(Append(s.out, 3), b)
                /\ EscapeByte(s, b).zeros = (IF b = 0 THEN 1 ELSE 0)
           /\ ~(s.zeros >= 2 /\ b <= 3) =>
                EscapeByte(s, b).out = Append(s.out, b)
                /\ EscapeByte(s, b).zeros = (IF b = 0 THEN s.zeros + 1 ELSE 0)
  <1>1. s.out \in Seq(Nat) /\ s.zeros \in Nat
    BY DEF EscapeStates
  <1>2. CASE s.zeros >= 2 /\ b <= 3
    <2>1. EscapeByte(s, b) = [out |-> s.out \o <<3>> \o <<b>>, zeros |-> IF b # 0 THEN 0 ELSE 1]
      BY <1>2 DEF EscapeByte, Emulation
    <2>2. s.out \o <<3>> \o <<b>> = Append(Append(s.out, 3), b)
      BY <1>1
    <2> QED
      BY <1>1, <1>2, <2>1, <2>2 DEF EscapeStates
  <1>3. CASE ~(s.zeros >= 2 /\ b <= 3)
    <2>1. EscapeByte(s, b) = [out |-> s.out \o <<>> \o <<b>>, zeros |-> IF b # 0 THEN 0 ELSE s.zeros + 1]
      BY <1>3 DEF EscapeByte, Emulation
    <2>2. s.out \o <<>> \o <<b>> = Append(s.out, b)
      BY <1>1
    <2> QED
      BY <1>1, <1>3, <2>1, <2>2 DEF EscapeStates
  <1> QED
    BY <1>2, <1>3

\* The rounds of rbsp_to_ebsp.
Escaping(rbsp, s) ==
    /\ s \in [0 .. Len(rbsp) -> EscapeStates]
    /\ s[0] = [out |-> <<>>, zeros |-> 0]
    /\ \A n \in 1 .. Len(rbsp) : s[n] = EscapeByte(s[n - 1], rbsp[n])

LEMMA Escapes ==
    ASSUME NEW rbsp \in Seq(Nat)
    PROVE  \E s : Escaping(rbsp, s) /\ Escaped(rbsp) = s[Len(rbsp)]
  <1> DEFINE m == Len(rbsp)
             start == [out |-> <<>>, zeros |-> 0]
             next == [x \in (1 .. m) \X EscapeStates |-> EscapeByte(x[2], rbsp[x[1]])]
             Is(s) == s = [n \in 0 .. m |->
                             IF n = 0 THEN start ELSE EscapeByte(s[n - 1], rbsp[n])]
             s == CHOOSE s : Is(s)
  <1>1. m \in Nat /\ (\A n \in 1 .. m : rbsp[n] \in Nat) /\ start \in EscapeStates
    BY DEF EscapeStates
  <1>2. next \in [(1 .. m) \X EscapeStates -> EscapeStates]
    <2> SUFFICES ASSUME NEW x \in (1 .. m) \X EscapeStates
                 PROVE  EscapeByte(x[2], rbsp[x[1]]) \in EscapeStates
      OBVIOUS
    <2>1. rbsp[x[1]] \in Nat /\ x[2] \in EscapeStates
      BY <1>1
    <2> QED
      BY <2>1, EscapeByteType
  <1>3. \A n \in 1 .. m, e \in EscapeStates : next[<<n, e>>] = EscapeByte(e, rbsp[n])
    OBVIOUS
  <1>4. ASSUME NEW f, f \in [0 .. m -> EscapeStates]
        PROVE  Runs(f, start, m, next) <=> Is(f)
    <2>1. \A n \in 0 .. m : n # 0 => n \in 1 .. m /\ f[n - 1] \in EscapeStates
      <3>1. \A n \in 0 .. m : n # 0 => n \in 1 .. m /\ n - 1 \in 0 .. m
        BY <1>1
      <3> HIDE DEF m
      <3> QED
        BY <1>4, <3>1
    <2> HIDE DEF next
    <2>2. \A n \in 0 .. m : n # 0 => next[<<n, f[n - 1]>>] = EscapeByte(f[n - 1], rbsp[n])
      BY <1>3, <2>1
    <2> HIDE DEF start
    <2> QED
      BY <2>2 DEF Runs
  <1>5. \E f : Is(f)
    <2> HIDE DEF next, Is
    <2>1. PICK f : Runs(f, start, m, next) /\ f \in [0 .. m -> EscapeStates]
      <3> HIDE DEF m, start
      <3> QED
        BY <1>1, <1>2, RunsExist
    <2> QED
      BY <1>4, <2>1
  <1>6. Is(s)
    <2> HIDE DEF Is
    <2> QED
      BY <1>5, Zenon
  <1>7. Escaped(rbsp) = s[m]
    BY Zenon DEF Escaped
  <1> HIDE DEF s
  <1>8. /\ DOMAIN s = 0 .. m /\ s = [n \in 0 .. m |-> s[n]] /\ s[0] = start
        /\ \A n \in 1 .. m : s[n] = EscapeByte(s[n - 1], rbsp[n])
    <2> HIDE DEF start
    <2>1. /\ DOMAIN s = 0 .. m /\ s = [n \in 0 .. m |-> s[n]]
          /\ \A n \in 0 .. m : s[n] = IF n = 0 THEN start ELSE EscapeByte(s[n - 1], rbsp[n])
      BY <1>6
    <2>2. 0 \in 0 .. m /\ \A n \in 1 .. m : n \in 0 .. m /\ n # 0
      BY <1>1
    <2> HIDE DEF m, Is
    <2> QED
      BY <2>1, <2>2
  <1>9. \A n \in 0 .. m : s[n] \in EscapeStates
    <2> DEFINE P == {n \in 0 .. m : s[n] \in EscapeStates}
    <2>1. 0 \in P
      BY <1>1, <1>8
    <2>2. ASSUME NEW n \in 1 .. m, n - 1 \in P
          PROVE  n \in P
      <3>1. s[n - 1] \in EscapeStates /\ rbsp[n] \in Nat /\ n \in 0 .. m
        BY <1>1, <2>2
      <3>2. s[n] = EscapeByte(s[n - 1], rbsp[n])
        BY <1>8
      <3>3. s[n] \in EscapeStates
        BY <3>1, <3>2, EscapeByteType
      <3> QED
        BY <3>1, <3>3
    <2>3. \A n \in 0 .. m : n \in P
      <3> HIDE DEF P, m
      <3> QED
        BY <1>1, <2>1, <2>2, UpTo
    <2> QED
      BY <2>3
  <1>10. Escaping(rbsp, s)
    <2>1. s \in [0 .. m -> EscapeStates]
      BY <1>8, <1>9
    <2> QED
      BY <1>8, <2>1 DEF Escaping
  <1> QED
    BY <1>7, <1>10

\* A byte more to escape: one more round.
LEMMA EscapesNext ==
    ASSUME NEW r \in Seq(Nat), NEW b \in Nat, NEW t, t = Append(r, b)
    PROVE  Escaped(r) \in EscapeStates /\ Escaped(t) = EscapeByte(Escaped(r), b)
  <1>1. /\ t \in Seq(Nat) /\ Len(r) \in Nat /\ Len(t) = Len(r) + 1 /\ t[Len(t)] = b
        /\ \A i \in 1 .. Len(r) : t[i] = r[i]
    OBVIOUS
  <1>2. PICK x : Escaping(r, x) /\ Escaped(r) = x[Len(r)]
    BY Escapes
  <1>3. PICK y : Escaping(t, y) /\ Escaped(t) = y[Len(t)]
    BY <1>1, Escapes
  <1> DEFINE m == Len(r)
             P == {n \in 0 .. m : y[n] = x[n]}
  <1>4. 0 \in P
    BY <1>1, <1>2, <1>3 DEF Escaping
  <1>5. ASSUME NEW n \in 1 .. m, n - 1 \in P
        PROVE  n \in P
    <2>1. n \in 1 .. Len(t) /\ n \in 0 .. m /\ t[n] = r[n]
      BY <1>1
    <2>2. x[n] = EscapeByte(x[n - 1], r[n]) /\ y[n] = EscapeByte(y[n - 1], t[n])
      BY <1>2, <1>3, <2>1 DEF Escaping
    <2>3. y[n - 1] = x[n - 1]
      BY <1>5
    <2>4. y[n] = x[n]
      BY <2>1, <2>2, <2>3
    <2> QED
      BY <2>1, <2>4
  <1>6. y[m] = x[m]
    <2>1. m \in P
      <3> HIDE DEF P
      <3>1. m \in Nat /\ m \in 0 .. m
        BY <1>1
      <3> HIDE DEF m
      <3> QED
        BY <1>4, <1>5, <3>1, UpTo
    <2> QED
      BY <2>1
  <1>7. y[m + 1] = EscapeByte(y[m], t[m + 1])
    <2>1. m + 1 \in 1 .. Len(t) /\ (m + 1) - 1 = m
      BY <1>1
    <2>2. y[m + 1] = EscapeByte(y[(m + 1) - 1], t[m + 1])
      BY <1>3, <2>1 DEF Escaping
    <2> QED
      BY <2>1, <2>2
  <1>8. x[m] \in EscapeStates
    BY <1>1, <1>2 DEF Escaping
  <1> QED
    BY <1>1, <1>2, <1>3, <1>6, <1>7, <1>8

\* The loop starts with nothing.
LEMMA EscapesNothing == Escaped(<<>>) = [out |-> <<>>, zeros |-> 0]
  <1>1. <<>> \in Seq(Nat) /\ Len(<<>>) = 0
    OBVIOUS
  <1> QED
    BY <1>1, Escapes DEF Escaping

-----------------------------------------------------------------------------
(* Escaping, and back *)

\* How many zeros there are at the end, as far as the loop counts.
EndsInZeros(out, zeros) ==
    LET final == Len(out)
    IN  /\ zeros \in 0 .. 2
        /\ zeros = 0 => final = 0 \/ out[final] # 0
        /\ zeros = 1 => final >= 1 /\ out[final] = 0 /\ (final > 1 => out[final - 1] # 0)
        /\ zeros = 2 => final >= 2 /\ out[final] = 0 /\ out[final - 1] = 0

\* A byte behind two zeros must not be less than 3.
LEMMA NoStartCodeNext ==
    ASSUME NEW s \in Seq(Nat), NEW b \in Nat, NoStartCode(s),
           ~(Len(s) > 1 /\ s[Len(s)] = 0 /\ s[Len(s) - 1] = 0 /\ b < 3)
    PROVE  NoStartCode(Append(s, b))
  <1> DEFINE t == Append(s, b)
             m == Len(s)
  <1>1. /\ m \in Nat /\ Len(t) = m + 1 /\ t[m + 1] = b
        /\ \A i \in 1 .. m : t[i] = s[i]
    OBVIOUS
  <1>2. SUFFICES ASSUME NEW i \in 1 .. Len(t) - 2
                 PROVE  ~(t[i] = 0 /\ t[i + 1] = 0 /\ t[i + 2] < 3)
    BY DEF NoStartCode, Emulation
  <1>3. i \in 1 .. m /\ i + 1 \in 1 .. m /\ i \in Nat
    BY <1>1, <1>2
  <1>4. CASE i + 2 <= m
    <2>1. i \in 1 .. m - 2 /\ i + 2 \in 1 .. m
      BY <1>1, <1>3, <1>4
    <2>2. ~(s[i] = 0 /\ s[i + 1] = 0 /\ s[i + 2] < 3)
      BY <2>1 DEF NoStartCode, Emulation
    <2>3. t[i] = s[i] /\ t[i + 1] = s[i + 1] /\ t[i + 2] = s[i + 2]
      BY <1>1, <1>3, <2>1
    <2> QED
      BY <2>2, <2>3
  <1>5. CASE i + 2 = m + 1
    <2>1. i = m - 1 /\ i + 1 = m /\ m > 1
      BY <1>1, <1>3, <1>5
    <2>2. t[i] = s[m - 1] /\ t[i + 1] = s[m] /\ t[i + 2] = b
      BY <1>1, <1>3, <1>5, <2>1
    <2> QED
      BY <2>1, <2>2
  <1>6. i + 2 <= m + 1
    BY <1>1, <1>2
  <1> QED
    BY <1>1, <1>3, <1>4, <1>5, <1>6

\* What the loop has put out holds no start code, gives back what it has consumed, and
\* ends in the zeros it has counted.
Escapable(rbsp) ==
    LET s == Escaped(rbsp)
    IN  /\ s \in EscapeStates
        /\ EbspToRbsp(s.out) = rbsp
        /\ NoStartCode(s.out)
        /\ EndsInZeros(s.out, s.zeros)

\* Two zeros stand at the end exactly when the loop has counted two.
LEMMA TwoZeros ==
    ASSUME NEW out \in Seq(Nat), NEW zeros, EndsInZeros(out, zeros)
    PROVE  zeros >= 2 <=> Len(out) > 1 /\ out[Len(out)] = 0 /\ out[Len(out) - 1] = 0
  <1>1. Len(out) \in Nat /\ zeros \in 0 .. 2
    BY DEF EndsInZeros
  <1> QED
    BY <1>1 DEF EndsInZeros

\* The next byte keeps it.
LEMMA EscapableNext ==
    ASSUME NEW r \in Seq(Nat), NEW b \in Nat, Escapable(r)
    PROVE  Escapable(Append(r, b))
  <1> DEFINE s == Escaped(r)
             out == s.out
             m == Len(out)
             e == Escaped(Append(r, b))
  <1>1. /\ s \in EscapeStates /\ out \in Seq(Nat) /\ s.zeros \in Nat /\ m \in Nat
        /\ EbspToRbsp(out) = r /\ NoStartCode(out) /\ EndsInZeros(out, s.zeros)
    BY DEF Escapable, EscapeStates
  <1>2. e = EscapeByte(s, b)
    BY EscapesNext
  <1>3. s.zeros >= 2 <=> m > 1 /\ out[m] = 0 /\ out[m - 1] = 0
    <2> HIDE DEF s
    <2> QED
      BY <1>1, TwoZeros
  <1> HIDE DEF s, out, m, e
  <1>4. CASE s.zeros >= 2 /\ b <= 3
    <2> DEFINE mid == Append(out, 3)
    <2>1. /\ e \in EscapeStates /\ e.out = Append(mid, b)
          /\ e.zeros = IF b = 0 THEN 1 ELSE 0
      BY <1>1, <1>2, <1>4, EscapeByteType DEF out
    <2>2. /\ mid \in Seq(Nat) /\ Len(mid) = m + 1 /\ mid[m + 1] = 3
          /\ mid[m] = out[m] /\ mid[m - 1] = out[m - 1]
      BY <1>1, <1>3, <1>4 DEF m
    <2> DEFINE all == Append(mid, b)
    <2>3. /\ all \in Seq(Nat) /\ Len(all) = m + 2 /\ all[m + 2] = b /\ all[m + 1] = 3
      BY <1>1, <2>2
    <2>4. Escape(mid, Len(mid))
      BY <1>1, <1>3, <1>4, <2>2 DEF Escape, Emulation
    <2>5. EbspToRbsp(mid) = r
      <3>1. mid = Append(out, 3) /\ 3 \in Nat
        OBVIOUS
      <3> HIDE DEF mid
      <3>2. EbspToRbsp(mid) = EbspToRbsp(out)
        <4>1. ReadsOn(out, 3, mid)
          BY <1>1, <3>1, UnescapesNext
        <4> QED
          BY <2>4, <4>1 DEF ReadsOn
      <3> QED
        BY <1>1, <3>2
    <2>6. NoStartCode(mid)
      BY <1>1, <1>3, NoStartCodeNext DEF m
    <2> HIDE DEF mid
    <2>7. ~Escape(all, Len(all))
      BY <1>1, <2>3 DEF Escape
    <2>8. EbspToRbsp(all) = Append(r, b)
      <3>1. all = Append(mid, b)
        OBVIOUS
      <3> HIDE DEF all
      <3>2. EbspToRbsp(all) = Append(EbspToRbsp(mid), b)
        <4>1. mid \in Seq(Nat)
          BY <2>2
        <4> HIDE DEF mid
        <4>2. ReadsOn(mid, b, all)
          BY <3>1, <4>1, UnescapesNext
        <4> QED
          BY <2>7, <4>2 DEF ReadsOn
      <3> QED
        BY <2>5, <3>2
    <2>9. NoStartCode(all)
      <3>1. mid[Len(mid)] # 0
        BY <2>2
      <3> QED
        BY <2>2, <2>6, <3>1, NoStartCodeNext
    <2> HIDE DEF all
    <2>10. e.out = all
      BY <2>1 DEF all
    <2>11. EndsInZeros(all, e.zeros)
      BY <1>1, <2>1, <2>3 DEF EndsInZeros
    <2> QED
      BY <2>1, <2>8, <2>9, <2>10, <2>11 DEF Escapable, e
  <1>5. CASE ~(s.zeros >= 2 /\ b <= 3)
    <2> DEFINE all == Append(out, b)
    <2>1. /\ e \in EscapeStates /\ e.out = all
          /\ e.zeros = IF b = 0 THEN s.zeros + 1 ELSE 0
      BY <1>1, <1>2, <1>5, EscapeByteType DEF out
    <2>2. /\ all \in Seq(Nat) /\ Len(all) = m + 1 /\ all[m + 1] = b
          /\ \A i \in 1 .. m : all[i] = out[i]
      BY <1>1 DEF m
    <2>3. m > 1 => m \in 1 .. m /\ m - 1 \in 1 .. m
      BY <1>1
    <2>4. ~Escape(all, Len(all))
      BY <1>1, <1>3, <1>5, <2>2, <2>3 DEF Escape, Emulation
    <2>5. EbspToRbsp(all) = Append(r, b)
      <3>1. all = Append(out, b) /\ out \in Seq(Nat)
        BY <1>1
      <3> HIDE DEF all
      <3>2. EbspToRbsp(all) = Append(EbspToRbsp(out), b)
        <4> HIDE DEF m
        <4>1. ReadsOn(out, b, all)
          BY <3>1, UnescapesNext
        <4> QED
          BY <2>4, <4>1 DEF ReadsOn
      <3> QED
        BY <1>1, <3>2
    <2>6. NoStartCode(all)
      <3>1. ~(Len(out) > 1 /\ out[Len(out)] = 0 /\ out[Len(out) - 1] = 0 /\ b < 3)
        BY <1>1, <1>3, <1>5 DEF m
      <3> QED
        BY <1>1, <3>1, NoStartCodeNext
    <2>7. EndsInZeros(all, e.zeros)
      <3>1. CASE b # 0
        BY <1>1, <2>1, <2>2, <3>1 DEF EndsInZeros
      <3>2. CASE b = 0
        <4>1. s.zeros \in 0 .. 1 /\ e.zeros = s.zeros + 1
          <5>1. e.zeros = s.zeros + 1 /\ ~(s.zeros >= 2)
            BY <1>5, <2>1, <3>2
          <5> DEFINE z == s.zeros
          <5>2. z \in Nat
            BY <1>1
          <5> HIDE DEF z
          <5>3. z >= 2 \/ z \in 0 .. 1
            BY <5>2
          <5> QED
            BY <5>1, <5>3 DEF z
        <4>2. CASE s.zeros = 0
          <5>1. m = 0 \/ out[m] # 0
            BY <1>1, <4>2 DEF EndsInZeros, m
          <5>2. m > 0 => m \in 1 .. m
            BY <1>1
          <5> QED
            BY <1>1, <2>2, <3>2, <4>1, <4>2, <5>1, <5>2 DEF EndsInZeros
        <4>3. CASE s.zeros = 1
          <5>1. m >= 1 /\ out[m] = 0
            BY <1>1, <4>3 DEF EndsInZeros, m
          <5>2. m \in 1 .. m
            BY <1>1, <5>1
          <5> QED
            BY <1>1, <2>2, <3>2, <4>1, <4>3, <5>1, <5>2 DEF EndsInZeros
        <4> QED
          BY <4>1, <4>2, <4>3
      <3> QED
        BY <3>1, <3>2
    <2> QED
      BY <2>1, <2>5, <2>6, <2>7 DEF Escapable, e
  <1> QED
    BY <1>4, <1>5

\* It holds of every payload: of its prefixes, one by one.
LEMMA AllEscapable ==
    ASSUME NEW rbsp \in Seq(Nat)
    PROVE  Escapable(rbsp)
  <1> DEFINE m == Len(rbsp)
             p(n) == SubSeq(rbsp, 1, n)
             P == {n \in 0 .. m : Escapable(p(n))}
  <1>1. m \in Nat
    OBVIOUS
  <1>2. 0 \in P
    <2>1. p(0) = <<>>
      OBVIOUS
    <2> DEFINE start == [out |-> <<>>, zeros |-> 0]
    <2>2. start.out = <<>> /\ start.zeros = 0 /\ start \in EscapeStates
      BY DEF EscapeStates
    <2> HIDE DEF start
    <2>5. Escaped(<<>>) = start
      BY EscapesNothing DEF start
    <2>3. NoStartCode(<<>>) /\ EndsInZeros(<<>>, 0)
      BY DEF NoStartCode, EndsInZeros
    <2>4. Escapable(<<>>)
      BY <2>2, <2>3, <2>5, UnescapesNothing DEF Escapable
    <2>6. Escapable(p(0)) /\ 0 \in 0 .. m
      <3> HIDE DEF p, m
      <3> QED
        BY <1>1, <2>1, <2>4
    <2> HIDE DEF p, m
    <2> QED
      BY <2>6
  <1>3. ASSUME NEW n \in 1 .. m, n - 1 \in P
        PROVE  n \in P
    <2>1. p(n - 1) \in Seq(Nat) /\ rbsp[n] \in Nat
      BY <1>3
    <2>2. p(n) = Append(p(n - 1), rbsp[n])
      BY <1>1, <1>3
    <2>3. Escapable(p(n - 1))
      BY <1>3
    <2> HIDE DEF p
    <2>4. Escapable(p(n))
      BY <2>1, <2>2, <2>3, EscapableNext
    <2> QED
      BY <2>4
  <1>4. m \in P
    <2>1. m \in 0 .. m
      BY <1>1
    <2> HIDE DEF P, m
    <2> QED
      BY <1>1, <1>2, <1>3, <2>1, UpTo
  <1>5. p(m) = rbsp
    OBVIOUS
  <1> QED
    BY <1>4, <1>5

\* rbsp_to_ebsp and ebsp_to_rbsp (src/nal.rs): any payload is restored from what it is
\* escaped to, which holds no start code and does not end in zeros enough for one.
THEOREM PayloadsRestored ==
    \A rbsp \in Seq(Nat) :
        /\ EbspToRbsp(RbspToEbsp(rbsp)) = rbsp
        /\ NoStartCode(RbspToEbsp(rbsp)) /\ EndsApart(RbspToEbsp(rbsp))
  <1> SUFFICES ASSUME NEW rbsp \in Seq(Nat)
               PROVE  /\ EbspToRbsp(RbspToEbsp(rbsp)) = rbsp
                      /\ NoStartCode(RbspToEbsp(rbsp)) /\ EndsApart(RbspToEbsp(rbsp))
    OBVIOUS
  <1> DEFINE s == Escaped(rbsp)
             out == s.out
             m == Len(out)
             ebsp == RbspToEbsp(rbsp)
  <1>1. /\ out \in Seq(Nat) /\ m \in Nat /\ EbspToRbsp(out) = rbsp
        /\ NoStartCode(out) /\ EndsInZeros(out, s.zeros)
    BY AllEscapable DEF Escapable, EscapeStates
  <1>2. ebsp = out \o (IF s.zeros >= 2 THEN <<3>> ELSE <<>>)
    BY DEF RbspToEbsp, Emulation
  <1>3. s.zeros >= 2 <=> m > 1 /\ out[m] = 0 /\ out[m - 1] = 0
    <2> HIDE DEF s, out
    <2> QED
      BY <1>1, TwoZeros
  <1> HIDE DEF s, out, m, ebsp
  <1>4. CASE s.zeros >= 2
    <2>1. ebsp = Append(out, 3)
      BY <1>1, <1>2, <1>4
    <2>2. /\ Len(ebsp) = m + 1 /\ ebsp[m + 1] = 3
          /\ ebsp[m] = out[m] /\ ebsp[m - 1] = out[m - 1]
      BY <1>1, <1>3, <1>4, <2>1 DEF m
    <2>3. Escape(ebsp, Len(ebsp))
      BY <1>1, <1>3, <1>4, <2>2 DEF Escape, Emulation
    <2>4. EbspToRbsp(ebsp) = rbsp
      <3>1. EbspToRbsp(ebsp) = EbspToRbsp(out)
        <4>1. ReadsOn(out, 3, ebsp)
          BY <1>1, <2>1, 3 \in Nat, UnescapesNext
        <4> QED
          BY <2>3, <4>1 DEF ReadsOn
      <3> QED
        BY <1>1, <3>1
    <2>5. NoStartCode(ebsp)
      BY <1>1, <2>1, NoStartCodeNext
    <2>6. EndsApart(ebsp)
      BY <1>1, <2>2 DEF EndsApart
    <2> QED
      BY <2>4, <2>5, <2>6 DEF ebsp
  <1>5. CASE ~(s.zeros >= 2)
    <2>1. ebsp = out
      BY <1>1, <1>2, <1>5
    <2>2. EndsApart(ebsp)
      BY <1>3, <1>5, <2>1 DEF EndsApart, m
    <2> QED
      BY <1>1, <2>1, <2>2 DEF ebsp
  <1> QED
    BY <1>4, <1>5

-----------------------------------------------------------------------------
(* Unescaping, and back *)

\* What the loop puts out for the payload of the first k bytes of an EBSP: those bytes,
\* or all but an escape at their end, which waits for the byte behind it.
Reescapes(ebsp, k) ==
    LET s == Escaped(EbspToRbsp(SubSeq(ebsp, 1, k)))
    IN  IF Escape(ebsp, k) THEN s.out = SubSeq(ebsp, 1, k - 1) /\ s.zeros >= 2
        ELSE s.out = SubSeq(ebsp, 1, k)

\* It does so for one byte more.
LEMMA ReescapesNext ==
    ASSUME NEW ebsp \in Seq(Nat), LegalEbsp(ebsp), NEW k \in 0 .. Len(ebsp) - 1,
           Reescapes(ebsp, k)
    PROVE  Reescapes(ebsp, k + 1)
  <1> DEFINE m == Len(ebsp)
             old == SubSeq(ebsp, 1, k)
             new == SubSeq(ebsp, 1, k + 1)
             b == ebsp[k + 1]
             u == EbspToRbsp(old)
             v == EbspToRbsp(new)
             s == Escaped(u)
  <1>1. /\ m \in Nat /\ k \in Nat /\ k + 1 \in 1 .. m /\ b \in Nat
        /\ old \in Seq(Nat) /\ Len(old) = k /\ \A i \in 1 .. k : old[i] = ebsp[i]
    OBVIOUS
  <1>2. /\ new \in Seq(Nat) /\ Len(new) = k + 1 /\ \A i \in 1 .. k + 1 : new[i] = ebsp[i]
        /\ new = Append(old, b)
    <2>1. new \in Seq(Nat) /\ Len(new) = k + 1 /\ \A i \in 1 .. k + 1 : new[i] = ebsp[i]
      OBVIOUS
    <2>2. k + 1 \in 1 .. Len(ebsp) /\ 1 \in 1 .. Len(ebsp) /\ k + 1 \in 1 .. k + 1 /\ 1 \in Nat
      OBVIOUS
    <2> DEFINE longer == Append(old, b)
    <2>3. /\ longer \in Seq(Nat) /\ Len(longer) = Len(old) + 1
          /\ \A i \in 1 .. Len(old) : longer[i] = old[i]
          /\ longer[Len(old) + 1] = b
      <3> HIDE DEF old, b
      <3> QED
        BY <1>1, AppendProperties
    <2>4. new[k + 1] = b
      BY <2>1, <2>2
    <2> HIDE DEF new, old, b, longer
    <2>5. Len(longer) = k + 1 /\ longer[k + 1] = b
      BY <1>1, <2>3
    <2>6. ASSUME NEW i \in 1 .. k + 1  PROVE longer[i] = new[i]
      <3>1. CASE i = k + 1
        BY <2>4, <2>5, <3>1
      <3>2. CASE i # k + 1
        <4>1. i \in 1 .. k
          BY <1>1, <3>2
        <4>2. longer[i] = old[i] /\ old[i] = ebsp[i] /\ new[i] = ebsp[i]
          BY <1>1, <2>1, <2>3, <4>1
        <4> QED
          BY <4>2
      <3> QED
        BY <3>1, <3>2
    <2>7. longer = new
      BY <2>1, <2>3, <2>5, <2>6, SeqEqual
    <2> QED
      BY <2>1, <2>7 DEF longer
  <1>3. Escape(new, k + 1) <=> Escape(ebsp, k + 1)
    <2>1. (k + 1 > 2 => k \in 1 .. k + 1 /\ k - 1 \in 1 .. k + 1) /\ k + 1 \in 1 .. k + 1
      BY <1>1
    <2>2. (k + 1) - 1 = k /\ (k + 1) - 2 = k - 1
      BY <1>1
    <2> HIDE DEF new, m
    <2> QED
      BY <1>2, <2>1, <2>2 DEF Escape
  <1>4. /\ Escape(ebsp, k) => s.out = SubSeq(ebsp, 1, k - 1) /\ s.zeros >= 2
        /\ ~Escape(ebsp, k) => s.out = old
    BY DEF Reescapes
  <1>5. /\ u \in Seq(Nat)
        /\ Escape(ebsp, k + 1) => v = u
        /\ ~Escape(ebsp, k + 1) => v = Append(u, b)
    <2> HIDE DEF old, new, b
    <2>1. /\ EbspToRbsp(old) \in Seq(Nat)
          /\ Escape(new, Len(new)) => EbspToRbsp(new) = EbspToRbsp(old)
          /\ ~Escape(new, Len(new)) => EbspToRbsp(new) = Append(EbspToRbsp(old), b)
      <3>1. old \in Seq(Nat) /\ b \in Nat /\ new = Append(old, b)
        BY <1>1, <1>2
      <3> QED
        <4>1. ReadsOn(old, b, new)
          BY <3>1, UnescapesNext
        <4> QED
          BY <4>1 DEF ReadsOn
    <2> QED
      BY <1>2, <1>3, <2>1
  <1> HIDE DEF old, new, u, v
  <1>6. s \in EscapeStates /\ EndsInZeros(s.out, s.zeros)
    BY <1>5, AllEscapable DEF Escapable
  <1>7. s.out \in Seq(Nat) /\ s.zeros \in Nat
    BY <1>6 DEF EscapeStates
  <1> HIDE DEF s
  <1>8. s.zeros >= 2 <=> Len(s.out) > 1 /\ s.out[Len(s.out)] = 0 /\ s.out[Len(s.out) - 1] = 0
    BY <1>6, <1>7, TwoZeros
  <1>9. CASE Escape(ebsp, k + 1)
    <2>1. b = 3 /\ k > 1 /\ ebsp[k] = 0 /\ ebsp[k - 1] = 0
      <3>1. (k + 1) - 1 = k /\ (k + 1) - 2 = k - 1
        BY <1>1
      <3> QED
        BY <1>1, <1>9, <3>1 DEF Escape, Emulation
    <2>2. ~Escape(ebsp, k)
      BY <2>1 DEF Escape, Emulation
    <2>3. s.out = old /\ k \in 1 .. k /\ k - 1 \in 1 .. k
      BY <1>1, <1>4, <2>1, <2>2
    <2>4. s.zeros >= 2
      BY <1>1, <1>8, <2>1, <2>3
    <2>5. (k + 1) - 1 = k /\ v = u
      BY <1>1, <1>5, <1>9
    <2>6. Escaped(v) = s
      BY <2>5 DEF s
    <2> QED
      BY <1>9, <2>3, <2>4, <2>5, <2>6 DEF Reescapes, old, new, v
  <1>10. CASE ~Escape(ebsp, k + 1)
    <2>1. v = Append(u, b)
      BY <1>5, <1>10
    <2> HIDE DEF b
    <2>2. Escaped(v) = EscapeByte(s, b)
      BY <1>1, <1>5, <2>1, EscapesNext DEF s
    <2>3. /\ s.zeros >= 2 /\ b <= 3 => Escaped(v).out = Append(Append(s.out, 3), b)
          /\ ~(s.zeros >= 2 /\ b <= 3) => Escaped(v).out = Append(s.out, b)
      <3>1. s \in EscapeStates /\ b \in Nat
        BY <1>1, <1>6
      <3>2. /\ s.zeros >= 2 /\ b <= 3 => EscapeByte(s, b).out = Append(Append(s.out, 3), b)
            /\ ~(s.zeros >= 2 /\ b <= 3) => EscapeByte(s, b).out = Append(s.out, b)
        BY <3>1, EscapeByteType
      <3> QED
        BY <2>2, <3>2
    <2>4. Escaped(v).out = new
      <3>1. CASE Escape(ebsp, k)
        <4>1. k \in 1 .. m - 1 /\ k > 2 /\ ebsp[k] = 3
          BY <1>1, <3>1 DEF Escape, Emulation
        <4>2. b <= 3
          BY <3>1, <4>1 DEF LegalEbsp, Emulation, b
        <4>3. Escaped(v).out = Append(Append(s.out, 3), b)
          BY <1>4, <2>3, <3>1, <4>2
        <4>4. Append(SubSeq(ebsp, 1, k - 1), 3) = old
          BY <4>1 DEF old
        <4> QED
          BY <1>2, <1>4, <3>1, <4>3, <4>4
      <3>2. CASE ~Escape(ebsp, k)
        <4>1. s.out = old
          BY <1>4, <3>2
        <4>2. ~(s.zeros >= 2 /\ b <= 3)
          <5>1. SUFFICES ASSUME s.zeros >= 2, b <= 3  PROVE FALSE
            OBVIOUS
          <5>2. k > 1 /\ old[k] = 0 /\ old[k - 1] = 0
            BY <1>1, <1>8, <4>1, <5>1
          <5>3. k \in 1 .. k /\ k - 1 \in 1 .. k /\ k - 1 \in 1 .. m - 2
            BY <1>1, <5>2
          <5>4. ebsp[k] = 0 /\ ebsp[k - 1] = 0
            BY <1>1, <5>2, <5>3
          <5>5. (k - 1) + 1 = k /\ (k - 1) + 2 = k + 1 /\ (k + 1) - 1 = k /\ (k + 1) - 2 = k - 1
            BY <1>1
          <5>6. ~(b < 3)
            BY <5>3, <5>4, <5>5 DEF LegalEbsp, NoStartCode, Emulation, b
          <5>7. b = 3
            BY <1>1, <5>1, <5>6
          <5>8. Escape(ebsp, k + 1)
            BY <1>1, <5>2, <5>4, <5>5, <5>7 DEF Escape, Emulation, b
          <5> QED
            BY <1>10, <5>8
        <4> QED
          BY <1>2, <2>3, <4>1, <4>2
      <3> QED
        BY <3>1, <3>2
    <2> QED
      BY <1>10, <2>4 DEF Reescapes, new, v
  <1> QED
    BY <1>9, <1>10

\* And so for the whole EBSP.
LEMMA AllReescape ==
    ASSUME NEW ebsp \in Seq(Nat), LegalEbsp(ebsp)
    PROVE  Reescapes(ebsp, Len(ebsp))
  <1> DEFINE m == Len(ebsp)
             P == {k \in 0 .. m : Reescapes(ebsp, k)}
  <1>1. m \in Nat
    OBVIOUS
  <1>2. 0 \in P
    <2> DEFINE start == [out |-> <<>>, zeros |-> 0]
    <2>1. SubSeq(ebsp, 1, 0) = <<>> /\ start.out = <<>>
      OBVIOUS
    <2>2. ~Escape(ebsp, 0)
      BY DEF Escape
    <2> HIDE DEF start
    <2>3. Escaped(<<>>) = start
      BY EscapesNothing DEF start
    <2>4. Reescapes(ebsp, 0)
      BY <2>1, <2>2, <2>3, UnescapesNothing DEF Reescapes
    <2> QED
      BY <1>1, <2>4
  <1>3. ASSUME NEW k \in 1 .. m, k - 1 \in P
        PROVE  k \in P
    <2> DEFINE j == k - 1
    <2>1. j \in 0 .. Len(ebsp) - 1 /\ j + 1 = k /\ Reescapes(ebsp, j)
      BY <1>1, <1>3
    <2> HIDE DEF j
    <2>2. Reescapes(ebsp, j + 1)
      BY <2>1, ReescapesNext
    <2> QED
      BY <2>1, <2>2
  <1>4. m \in P
    <2>1. m \in 0 .. m
      BY <1>1
    <2> HIDE DEF P, m
    <2> QED
      BY <1>1, <1>2, <1>3, <2>1, UpTo
  <1> QED
    BY <1>4

\* rbsp_to_ebsp and ebsp_to_rbsp (src/nal.rs): an EBSP that keeps the rules of the
\* standards is written again, escape for escape, from the payload read from it.
THEOREM EscapesKept ==
    \A ebsp \in Seq(Nat) : LegalEbsp(ebsp) => RbspToEbsp(EbspToRbsp(ebsp)) = ebsp
  <1> SUFFICES ASSUME NEW ebsp \in Seq(Nat), LegalEbsp(ebsp)
               PROVE  RbspToEbsp(EbspToRbsp(ebsp)) = ebsp
    OBVIOUS
  <1> DEFINE m == Len(ebsp)
             u == EbspToRbsp(ebsp)
             s == Escaped(u)
  <1>1. m \in Nat /\ SubSeq(ebsp, 1, m) = ebsp
    OBVIOUS
  <1>2. /\ Escape(ebsp, m) => s.out = SubSeq(ebsp, 1, m - 1) /\ s.zeros >= 2
        /\ ~Escape(ebsp, m) => s.out = ebsp
    BY <1>1, AllReescape DEF Reescapes
  <1>3. u \in Seq(Nat)
    BY Unescapes DEF Unescaping
  <1>4. s \in EscapeStates /\ EndsInZeros(s.out, s.zeros)
    <2> HIDE DEF u
    <2> QED
      BY <1>3, AllEscapable DEF Escapable
  <1>5. s.out \in Seq(Nat)
    BY <1>4 DEF EscapeStates
  <1>6. RbspToEbsp(u) = s.out \o (IF s.zeros >= 2 THEN <<3>> ELSE <<>>)
    BY DEF RbspToEbsp, Emulation
  <1>7. s.zeros >= 2 <=> Len(s.out) > 1 /\ s.out[Len(s.out)] = 0 /\ s.out[Len(s.out) - 1] = 0
    <2> HIDE DEF s
    <2> QED
      BY <1>4, <1>5, TwoZeros
  <1> HIDE DEF s
  <1>8. CASE Escape(ebsp, m)
    <2>1. m > 2 /\ ebsp[m] = 3
      BY <1>8 DEF Escape, Emulation
    <2>2. SubSeq(ebsp, 1, m - 1) \o <<3>> = ebsp
      <3>1. Append(SubSeq(ebsp, 1, m - 1), 3) = ebsp
        BY <1>1, <2>1
      <3> DEFINE front == SubSeq(ebsp, 1, m - 1)
      <3>2. front \in Seq(Nat) /\ Append(front, 3) = ebsp
        BY <3>1
      <3> HIDE DEF front
      <3>3. front \o <<3>> = Append(front, 3)
        BY <3>2
      <3> QED
        BY <3>2, <3>3 DEF front
    <2> QED
      BY <1>2, <1>6, <1>8, <2>2
  <1>9. CASE ~Escape(ebsp, m)
    <2>1. s.out = ebsp
      BY <1>2, <1>9
    <2>2. ~(s.zeros >= 2)
      BY <1>7, <2>1 DEF LegalEbsp, EndsApart
    <2>3. ebsp \o <<>> = ebsp
      OBVIOUS
    <2> QED
      BY <1>6, <2>1, <2>2, <2>3
  <1> QED
    BY <1>8, <1>9

-----------------------------------------------------------------------------
(* H264Stream *)

Sps == [says : SpsContents, copy : Nat]

H264StreamTypeOK ==
    /\ pic \in Nat /\ copies \in Nat
    /\ sentSps # NoSet => sentSps \in Sps
    /\ ppsSlots = [id \in PpsIds |-> ppsSlots[id]] /\ sentPps = [id \in PpsIds |-> sentPps[id]]
    /\ header # NoSet => header \in SentHeader
    /\ before # NoSet => before \in SentHeader
    /\ prev # NoSet => prev \in [header : SentHeader, pic : Nat]
    /\ boundary \in BOOLEAN /\ delimited \in BOOLEAN
    /\ firsts \in Seq(Nat)

\* The parser has the sets in force; without a sequence parameter set it parses nothing.
\* Scaling lists are counted for the chroma format in force.
TablesInStep ==
    /\ spsSlot # NoSet => spsSlot = sentSps
    /\ \A id \in PpsIds : spsSlot # NoSet /\ ppsSlots[id] # NoSet /\ sentPps[id] # NoSet =>
            ppsSlots[id] = sentPps[id]
    /\ \A id \in PpsIds : sentPps[id] # NoSet /\ sentPps[id].lists =>
            sentPps[id].as444 = sentSps.says.yuv444
    /\ header # NoSet => sentSps # NoSet /\ sentPps[header.pps] # NoSet

\* The slice the parser compares with, and the pictures of the sender.
PrevBehind ==
    /\ prev # NoSet =>
         /\ prev.pic <= pic
         /\ header # NoSet =>
              /\ prev.pic = pic => prev.header = header
              /\ prev.pic + 1 = pic => prev.header = before
         /\ header = NoSet /\ prev.pic = pic => prev.header = before
    /\ delimited => boundary
    /\ header # NoSet => MayFollow(header)

\* A picture that began is the one the parser compares with, until it ends.
FirstsBehind ==
    \A i \in DOMAIN firsts :
        /\ firsts[i] <= pic
        /\ header # NoSet /\ firsts[i] = pic => prev # NoSet /\ prev.pic = pic /\ ~boundary

LastBehind == last # NoSet => last.pic \in Nat /\ last.pic <= pic

H264StreamInv ==
    /\ H264StreamTypeOK /\ TablesInStep /\ PrevBehind /\ FirstsBehind /\ LastBehind
    /\ NoPictureBeginsTwice /\ EveryPictureBegins /\ ParsedWithItsSets

LEMMA H264InitInv == H264StreamInit => H264StreamInv
  <1> SUFFICES ASSUME H264StreamInit
               PROVE  H264StreamInv
    OBVIOUS
  <1>1. /\ spsSlot = NoSet /\ prev = NoSet /\ boundary = TRUE
        /\ sentSps \in {NoSet} \cup [says : SpsContents, copy : {0}]
        /\ copies = 0 /\ pic = 0 /\ header = NoSet /\ before = NoSet
        /\ delimited = FALSE /\ firsts = <<>> /\ last = NoSet
    BY DEF H264StreamInit
  <1>2. /\ ppsSlots = [id \in PpsIds |-> ppsSlots[id]] /\ sentPps = [id \in PpsIds |-> sentPps[id]]
        /\ \A id \in PpsIds : sentPps[id] # NoSet => sentPps[id].lists = FALSE
    <2>1. ppsSlots = [id \in PpsIds |-> NoSet]
      BY DEF H264StreamInit
    <2>2. sentPps = [id \in PpsIds |-> IF sentSps = NoSet THEN NoSet
                                       ELSE [lists |-> FALSE, copy |-> 0, as444 |-> FALSE]]
      BY DEF H264StreamInit
    <2> QED
      BY <2>1, <2>2
  <1>3. sentSps # NoSet => sentSps \in Sps
    BY <1>1 DEF Sps
  <1>4. H264StreamTypeOK
    <2>1. pic \in Nat /\ copies \in Nat
      BY <1>1
    <2>3. boundary \in BOOLEAN /\ delimited \in BOOLEAN
      BY <1>1, Zenon
    <2>4. firsts \in Seq(Nat)
      <3>1. firsts = <<>>
        BY <1>1
      <3> QED
        BY <3>1
    <2>2. header = NoSet /\ before = NoSet /\ prev = NoSet
      BY <1>1
    <2> QED
      BY <1>2, <1>3, <2>1, <2>2, <2>3, <2>4 DEF H264StreamTypeOK
  <1>5. TablesInStep /\ PrevBehind
    BY <1>1, <1>2 DEF TablesInStep, PrevBehind
  <1>6. FirstsBehind /\ LastBehind /\ NoPictureBeginsTwice /\ EveryPictureBegins /\ ParsedWithItsSets
    BY <1>1 DEF FirstsBehind, LastBehind, NoPictureBeginsTwice, EveryPictureBegins, ParsedWithItsSets
  <1> QED
    BY <1>4, <1>5, <1>6 DEF H264StreamInv

-----------------------------------------------------------------------------
(* The boundaries of pictures *)

\* 7.4.1.2.4: a slice does not differ from one of its own picture ...
LEMMA SamePicture ==
  ASSUME NEW h, NEW sps
  PROVE  ~Differs(h, h, sps)
  BY DEF Differs

\* ... and differs from those of the picture before, for what the sender must observe.
LEMMA NextPicture ==
  ASSUME H264StreamInv, NEW h \in SentHeader, before # NoSet, MayFollow(h), sentSps # NoSet
  PROVE  Differs(before, h, sentSps.says)
  <1>1. /\ before \in SentHeader
        /\ sentSps.says.pocType \in 0 .. 2
    BY H264StreamAssumption DEF H264StreamInv, H264StreamTypeOK, Sps, SpsContent
  <1>2. CASE h.idr /\ (before.idr => h.idrPicId # before.idrPicId)
    BY <1>1, <1>2 DEF Differs, SentHeader
  <1>3. CASE /\ ~h.idr /\ before.sps = sentSps.copy
             /\ \/ before.idr
                \/ <<h.frameNum, h.pps, h.field, h.reference>>
                     # <<before.frameNum, before.pps, before.field, before.reference>>
                \/ sentSps.says.pocType = 0
                      /\ <<h.lsb, h.deltaBottom>> # <<before.lsb, before.deltaBottom>>
                \/ sentSps.says.pocType = 1 /\ h.delta # before.delta
    <2>1. CASE before.idr
      BY <1>1, <1>3, <2>1 DEF Differs, SentHeader
    <2>2. CASE h.frameNum # before.frameNum \/ h.pps # before.pps \/ h.field # before.field \/ h.reference # before.reference
      BY <1>1, <1>3, <2>2 DEF Differs, SentHeader
    <2>3. CASE sentSps.says.pocType = 0 /\ (h.lsb # before.lsb \/ h.deltaBottom # before.deltaBottom)
      BY <2>3 DEF Differs
    <2>4. CASE sentSps.says.pocType = 1 /\ h.delta # before.delta
      BY <2>4 DEF Differs
    <2> QED
      BY <1>3, <2>1, <2>2, <2>3, <2>4
  <1> QED
    BY <1>2, <1>3 DEF MayFollow

-----------------------------------------------------------------------------
(* The steps *)

\* Sets come between pictures: nothing is being written then.
LEMMA H264SetsKeepInv == H264StreamInv /\ (SendSps \/ SendPps \/ Configure) => H264StreamInv'
  <1> SUFFICES ASSUME H264StreamInv, SendSps \/ SendPps \/ Configure
               PROVE  H264StreamInv'
    OBVIOUS
  <1> USE H264StreamAssumption DEF H264StreamInv, H264StreamTypeOK
  <1>1. ASSUME WriteSet
        PROVE  /\ pic' = pic /\ header' = NoSet /\ copies' = copies + 1
               /\ before' = IF header = NoSet THEN before ELSE header
    BY <1>1 DEF WriteSet
  <1>2. ASSUME WriteSet, UNCHANGED <<prev, boundary, h264History>>
        PROVE  /\ PrevBehind' /\ FirstsBehind' /\ LastBehind'
               /\ NoPictureBeginsTwice' /\ EveryPictureBegins' /\ ParsedWithItsSets'
    <2>1. UNCHANGED <<prev, boundary, delimited, firsts, last>>
      BY <1>2 DEF h264History
    <2>2. PrevBehind'
      BY <1>1, <1>2, <2>1 DEF PrevBehind
    <2>3. FirstsBehind' /\ LastBehind' /\ NoPictureBeginsTwice'
      BY <1>1, <1>2, <2>1 DEF FirstsBehind, LastBehind, NoPictureBeginsTwice
    <2>4. EveryPictureBegins' /\ ParsedWithItsSets'
      BY <1>1, <1>2, <2>1 DEF EveryPictureBegins, ParsedWithItsSets
    <2> QED
      BY <2>2, <2>3, <2>4
  <1>3. CASE SendSps
    <2>1. PICK says \in SpsContents :
            /\ WriteSet
            /\ sentSps' = [says |-> says, copy |-> copies + 1]
            /\ sentPps' = [id \in PpsIds |-> NoSet]
            /\ spsSlot' = [says |-> says, copy |-> copies + 1]
            /\ UNCHANGED <<ppsSlots, prev, boundary, h264History>>
      BY <1>3 DEF SendSps, StoreSps
    <2>2. UNCHANGED <<prev, boundary, h264History>>
      BY <2>1
    <2>3. H264StreamTypeOK'
      BY <1>1, <2>1 DEF h264History, Sps
    <2>4. TablesInStep'
      BY <1>1, <2>1 DEF TablesInStep
    <2> QED
      BY <1>2, <2>1, <2>2, <2>3, <2>4
  <1>4. CASE SendPps
    <2>1. PICK id \in PpsIds, lists \in BOOLEAN :
            /\ sentSps # NoSet /\ WriteSet
            /\ sentPps' = [sentPps EXCEPT ![id] = [lists |-> lists, copy |-> copies + 1,
                                                   as444 |-> lists /\ sentSps.says.yuv444]]
            /\ StorePps(id, ReadPps([lists |-> lists, copy |-> copies + 1,
                                     as444 |-> lists /\ sentSps.says.yuv444]))
            /\ UNCHANGED <<sentSps, h264History>>
      BY <1>4 DEF SendPps
    <2> DEFINE pps == [lists |-> lists, copy |-> copies + 1, as444 |-> lists /\ sentSps.says.yuv444]
    <2>2. /\ ppsSlots' = [ppsSlots EXCEPT ![id] = IF ReadPps(pps) = NoSet THEN @ ELSE ReadPps(pps)]
          /\ UNCHANGED <<spsSlot, prev, boundary, h264History>>
      BY <2>1 DEF StorePps
    <2>3. sentSps.says.yuv444 \in BOOLEAN
      BY <2>1 DEF Sps, SpsContent
    <2>4. spsSlot # NoSet => ReadPps(pps) = pps
      BY <2>3 DEF ReadPps, TablesInStep
    <2>5. H264StreamTypeOK'
      <3>1. ppsSlots' = [i \in PpsIds |-> ppsSlots'[i]] /\ sentPps' = [i \in PpsIds |-> sentPps'[i]]
        <4> DEFINE read == ReadPps(pps)
        <4> HIDE DEF pps, read
        <4>1. ppsSlots' = [ppsSlots EXCEPT ![id] = IF read = NoSet THEN @ ELSE read]
          BY <2>2 DEF read
        <4>2. sentPps' = [sentPps EXCEPT ![id] = pps]
          BY <2>1 DEF pps
        <4> QED
          BY <4>1, <4>2
      <3>2. UNCHANGED <<sentSps, prev, boundary, delimited, firsts>>
        BY <2>1, <2>2 DEF h264History
      <3> QED
        BY <1>1, <2>1, <3>1, <3>2 DEF Sps
    <2>6. TablesInStep'
      <3>1. \A i \in PpsIds : sentPps'[i] = IF i = id THEN pps ELSE sentPps[i]
        BY <2>1
      <3>2. \A i \in PpsIds : i # id => ppsSlots'[i] = ppsSlots[i]
        BY <2>2
      <3>3. spsSlot # NoSet /\ ppsSlots'[id] # NoSet /\ pps # NoSet => ppsSlots'[id] = pps
        BY <2>2, <2>4
      <3>4. pps.lists => pps.as444 = sentSps.says.yuv444
        BY <2>3
      <3> HIDE DEF pps
      <3> QED
        BY <1>1, <2>1, <2>2, <3>1, <3>2, <3>3, <3>4 DEF TablesInStep
    <2> QED
      BY <1>2, <2>1, <2>2, <2>5, <2>6
  <1>5. CASE Configure
    <2>1. /\ spsSlot' = sentSps /\ ppsSlots' = sentPps
          /\ UNCHANGED <<sentSps, sentPps, copies, pic, header, before, prev, boundary, delimited, firsts, last>>
      BY <1>5 DEF Configure, h264Sender, h264History
    <2>2. H264StreamTypeOK' /\ TablesInStep'
      BY <2>1 DEF Sps, TablesInStep
    <2>3. PrevBehind'
      BY <2>1 DEF PrevBehind, MayFollow
    <2>4. FirstsBehind' /\ LastBehind' /\ NoPictureBeginsTwice' /\ EveryPictureBegins' /\ ParsedWithItsSets'
      BY <2>1 DEF FirstsBehind, LastBehind, NoPictureBeginsTwice, EveryPictureBegins, ParsedWithItsSets
    <2> QED
      BY <2>2, <2>3, <2>4
  <1> QED
    BY <1>3, <1>4, <1>5

\* A picture ends, with a delimiter that arrives or without.
LEMMA H264EndKeepsInv == H264StreamInv /\ (EndPicture \/ SendDelimiter) => H264StreamInv'
  <1> SUFFICES ASSUME H264StreamInv, EndPicture \/ SendDelimiter
               PROVE  H264StreamInv'
    OBVIOUS
  <1> USE H264StreamAssumption DEF H264StreamInv, H264StreamTypeOK
  <1>1. /\ header # NoSet /\ before' = header /\ header' = NoSet
        /\ UNCHANGED <<sentSps, sentPps, copies, pic, spsSlot, ppsSlots, prev, firsts, last>>
        /\ (boundary' = TRUE /\ delimited' = TRUE) \/ UNCHANGED <<boundary, delimited>>
    BY DEF EndPicture, SendDelimiter, ParseDelimiter, ParseOther, h264Parser, h264History
  <1>2. H264StreamTypeOK' /\ TablesInStep'
    BY <1>1 DEF Sps, TablesInStep
  <1>3. PrevBehind'
    BY <1>1 DEF PrevBehind
  <1>4. FirstsBehind' /\ LastBehind' /\ NoPictureBeginsTwice' /\ EveryPictureBegins' /\ ParsedWithItsSets'
    BY <1>1 DEF FirstsBehind, LastBehind, NoPictureBeginsTwice, EveryPictureBegins, ParsedWithItsSets
  <1> QED
    BY <1>2, <1>3, <1>4

\* The first slice of a new picture, or another one of the picture being written.
LEMMA SliceKeepsInv ==
  ASSUME H264StreamInv, NEW h \in SentHeader, NEW redundant \in BOOLEAN, sentSps # NoSet,
         sentPps[h.pps] # NoSet, MayFollow(h), header' = h,
         UNCHANGED <<sentSps, sentPps, copies, before>>,
         \/ header = NoSet /\ pic' = pic + 1
         \/ header = h /\ pic' = pic,
         Slice(h, pic', redundant)
  PROVE  H264StreamInv'
  <1>0. pic' \in Nat /\ pic <= pic'
    <2>1. pic \in Nat
      BY DEF H264StreamInv, H264StreamTypeOK
    <2> QED
      BY <2>1
  <1> USE H264StreamAssumption DEF H264StreamInv, H264StreamTypeOK
  <1>1. h # NoSet /\ h.pps \in PpsIds
    BY DEF SentHeader
  <1>2. MayFollow(h)' = MayFollow(h)
    BY DEF MayFollow
  <1>3. CASE RefuseSlice(h) \/ ParseOther
    <2>1. UNCHANGED <<spsSlot, ppsSlots, prev, boundary, delimited, firsts, last>>
      BY <1>3 DEF RefuseSlice, ParseOther, h264Parser, h264History
    <2>2. H264StreamTypeOK'
      BY <2>1 DEF Sps
    <2>3. TablesInStep'
      BY <1>1, <2>1 DEF TablesInStep
    <2>4. PrevBehind'
      BY <1>1, <1>2, <2>1 DEF PrevBehind
    <2>5. FirstsBehind' /\ LastBehind' /\ NoPictureBeginsTwice'
      BY <1>1, <2>1 DEF FirstsBehind, LastBehind, NoPictureBeginsTwice
    <2>6. EveryPictureBegins' /\ ParsedWithItsSets'
      BY <1>1, <2>1 DEF EveryPictureBegins, ParsedWithItsSets, LastBehind
    <2> QED
      BY <2>2, <2>3, <2>4, <2>5, <2>6
  <1>4. CASE ParseSlice(h, pic', redundant)
    <2> DEFINE first == IsFirst(h, redundant)
    <2>1. /\ ppsSlots[h.pps] # NoSet /\ spsSlot # NoSet
          /\ boundary' = (boundary /\ redundant)
          /\ prev' = IF redundant THEN prev ELSE [header |-> h, pic |-> pic']
          /\ firsts' = IF first THEN Append(firsts, pic') ELSE firsts
          /\ delimited' = (delimited /\ redundant)
          /\ UNCHANGED <<spsSlot, ppsSlots>>
      BY <1>4 DEF ParseSlice
    <2>2. /\ last'.pic = pic' /\ last'.primary = ~redundant /\ last'.first = first
          /\ last'.after = IF prev = NoSet THEN 0 ELSE prev.pic
          /\ last'.delimited = delimited
          /\ last'.sps = spsSlot /\ last'.pps = ppsSlots[h.pps]
      BY <1>4 DEF ParseSlice
    <2>3. /\ first => ~redundant
          /\ ~redundant /\ (prev = NoSet \/ boundary) => first
      BY DEF IsFirst
    <2>4. spsSlot = sentSps
      BY <2>1 DEF TablesInStep
    <2>5. prev # NoSet /\ prev.pic + 1 = pic' /\ ~redundant => first
      <3> SUFFICES ASSUME prev # NoSet, prev.pic + 1 = pic', ~redundant
                   PROVE  first
        OBVIOUS
      <3>1. prev.header = before /\ before # NoSet
        BY DEF PrevBehind
      <3>2. Differs(before, h, sentSps.says)
        BY <3>1, NextPicture
      <3> QED
        BY <3>1, <3>2, <2>4 DEF IsFirst
    <2>6. prev # NoSet /\ prev.pic = pic' /\ ~boundary => ~first
      <3> SUFFICES ASSUME prev # NoSet, prev.pic = pic', ~boundary
                   PROVE  ~first
        OBVIOUS
      <3>1. prev.header = h
        BY <1>1 DEF PrevBehind
      <3> QED
        BY <3>1, SamePicture DEF IsFirst
    <2> HIDE DEF first
    <2>7. H264StreamTypeOK'
      BY <2>1 DEF Sps
    <2>8. TablesInStep'
      BY <1>1, <2>1 DEF TablesInStep
    <2>9. PrevBehind'
      BY <1>1, <1>2, <2>1 DEF PrevBehind
    <2>10. FirstsBehind' /\ NoPictureBeginsTwice'
      <3>1. CASE first
        <4>1. /\ DOMAIN firsts' = 1 .. Len(firsts) + 1
              /\ \A i \in 1 .. Len(firsts) + 1 :
                    firsts'[i] = IF i = Len(firsts) + 1 THEN pic' ELSE firsts[i]
          BY <2>1, <3>1
        <4>2. \A i \in 1 .. Len(firsts) : firsts[i] \in Nat /\ firsts[i] # pic' /\ firsts[i] <= pic
          BY <1>1, <2>6, <3>1 DEF FirstsBehind
        <4>3. prev' # NoSet /\ prev'.pic = pic' /\ ~boundary'
          BY <2>1, <2>3, <3>1
        <4>4. DOMAIN firsts = 1 .. Len(firsts) /\ Len(firsts) \in Nat
          OBVIOUS
        <4>5. FirstsBehind'
          <5>1. ASSUME NEW i \in 1 .. Len(firsts) + 1
                PROVE  firsts'[i] <= pic'
            <6>1. CASE i = Len(firsts) + 1
              <7>1. firsts'[i] = pic'
                BY <4>1, <6>1
              <7>2. pic' \in Int
                BY <1>0
              <7> QED
                BY <7>1, <7>2
            <6>2. CASE i # Len(firsts) + 1
              <7>1. i \in 1 .. Len(firsts)
                BY <4>4, <6>2
              <7>2. firsts'[i] = firsts[i]
                BY <4>1, <6>2
              <7>3. firsts[i] \in Nat /\ firsts[i] <= pic
                BY <4>2, <7>1
              <7>4. pic \in Nat
                OBVIOUS
              <7> QED
                BY <1>0, <7>2, <7>3, <7>4
            <6> QED
              BY <6>1, <6>2
          <5> QED
            BY <4>1, <4>3, <5>1 DEF FirstsBehind
        <4>6. NoPictureBeginsTwice'
          BY <4>1, <4>2, <4>4 DEF NoPictureBeginsTwice
        <4> QED
          BY <4>5, <4>6
      <3>2. CASE ~first
        <4>1. firsts' = firsts
          BY <2>1, <3>2
        <4>2. FirstsBehind'
          BY <1>1, <2>1, <4>1 DEF FirstsBehind
        <4>3. NoPictureBeginsTwice'
          BY <4>1 DEF NoPictureBeginsTwice
        <4> QED
          BY <4>2, <4>3
      <3> QED
        BY <3>1, <3>2
    <2>11. LastBehind'
      BY <2>2 DEF LastBehind
    <2>12. EveryPictureBegins'
      BY <2>2, <2>3, <2>5 DEF EveryPictureBegins, PrevBehind
    <2>13. ParsedWithItsSets'
      BY <1>1, <2>1, <2>2, <2>4 DEF ParsedWithItsSets, TablesInStep
    <2> QED
      BY <2>7, <2>8, <2>9, <2>10, <2>11, <2>12, <2>13
  <1> QED
    BY <1>3, <1>4 DEF Slice

LEMMA H264NextInv == H264StreamInv /\ [H264StreamNext]_h264StreamVars => H264StreamInv'
  <1> SUFFICES ASSUME H264StreamInv, [H264StreamNext]_h264StreamVars
               PROVE  H264StreamInv'
    OBVIOUS
  <1>1. CASE StartPicture
    <2>1. PICK f \in H264Headers, id \in PpsIds :
            /\ sentPps[id] # NoSet /\ MayFollow(Written(f, id))
            /\ header' = Written(f, id) /\ pic' = pic + 1
            /\ Slice(Written(f, id), pic + 1, FALSE)
      BY <1>1 DEF StartPicture
    <2>2. /\ header = NoSet /\ sentSps # NoSet
          /\ UNCHANGED <<sentSps, sentPps, copies, before>>
      BY <1>1 DEF StartPicture
    <2> DEFINE h == Written(f, id)
    <2>3. sentSps.copy \in Nat /\ f \in HeaderFields
      BY <2>2, H264StreamAssumption DEF H264StreamInv, H264StreamTypeOK, Sps
    <2>4. h \in SentHeader /\ h.pps = id
      BY <2>3 DEF Written, HeaderFields, SentHeader
    <2>5. Slice(h, pic', FALSE) /\ MayFollow(h) /\ header' = h /\ pic' = pic + 1
      BY <2>1
    <2> HIDE DEF h
    <2> QED
      BY <2>1, <2>2, <2>4, <2>5, SliceKeepsInv
  <1>2. CASE ContinuePicture
    <2>1. PICK redundant \in BOOLEAN : Slice(header, pic, redundant)
      BY <1>2 DEF ContinuePicture
    <2>2. header # NoSet /\ UNCHANGED <<sentSps, sentPps, copies, pic, header, before>>
      BY <1>2 DEF ContinuePicture, h264Sender
    <2>3. /\ header \in SentHeader /\ sentSps # NoSet /\ sentPps[header.pps] # NoSet
          /\ MayFollow(header)
      BY <2>2 DEF H264StreamInv, H264StreamTypeOK, TablesInStep, PrevBehind
    <2>4. Slice(header, pic', redundant)
      BY <2>1, <2>2
    <2> QED
      BY <2>1, <2>2, <2>3, <2>4, SliceKeepsInv
  <1>3. CASE UNCHANGED h264StreamVars
    BY <1>3 DEF h264StreamVars, h264Sender, h264Parser, h264History, H264StreamInv, H264StreamTypeOK, Sps, TablesInStep, PrevBehind,
        FirstsBehind, LastBehind, MayFollow, NoPictureBeginsTwice, EveryPictureBegins, ParsedWithItsSets
  <1> QED
    BY <1>1, <1>2, <1>3, H264SetsKeepInv, H264EndKeepsInv DEF H264StreamNext

\* The invariant of the parser behind the channel.
THEOREM H264StreamInvariance == H264StreamSpec => []H264StreamInv
  <1> QED
    BY H264InitInv, H264NextInv, PTL DEF H264StreamSpec

\* No picture is begun twice, whatever slices and delimiters were lost.
THEOREM NoPictureBeginsTwiceAlways == H264StreamSpec => []NoPictureBeginsTwice
  <1>1. H264StreamInv => NoPictureBeginsTwice
    BY DEF H264StreamInv
  <1> QED
    BY <1>1, H264StreamInvariance, PTL

\* The first primary slice that parses of a picture begins it, when the picture before
\* had one or a delimiter arrived in between.
THEOREM EveryPictureBeginsAlways == H264StreamSpec => []EveryPictureBegins
  <1>1. H264StreamInv => EveryPictureBegins
    BY DEF H264StreamInv
  <1> QED
    BY <1>1, H264StreamInvariance, PTL

\* Slices are parsed with the sets they were written with, and scaling lists are
\* counted for the chroma format in force.
THEOREM ParsedWithItsSetsAlways == H264StreamSpec => []ParsedWithItsSets
  <1>1. H264StreamInv => ParsedWithItsSets
    BY DEF H264StreamInv
  <1> QED
    BY <1>1, H264StreamInvariance, PTL

-----------------------------------------------------------------------------
(* HevcStream *)

HevcStreamTypeOK ==
    /\ frame \in [pic : Nat, pps : HevcPpsIds]
    /\ segments \in Nat
    /\ wroteSps \in Nat \cup {Missing} /\ wroteCopies \in Nat
    /\ wrotePps \in [HevcPpsIds -> Nat \cup {Missing}]
    /\ hevcPps \in [HevcPpsIds -> Nat \cup {Missing}]
    /\ started \in Nat \cup {Missing} /\ ended \in Nat \cup {Missing}
    /\ lastIndependent # Missing => lastIndependent \in [pps : HevcPpsIds, from : Nat \X Nat]

\* What the history holds lies behind the picture being written.
HistoryBehind ==
    /\ started # Missing => started <= frame.pic
    /\ ended # Missing => ended <= frame.pic /\ (segments > 0 => ended < frame.pic)
    /\ returned # Missing => Segment.pic \in Nat /\ Segment.pic <= frame.pic

\* The segment kept for the dependent ones: of this sequence, and of the picture being
\* written once its first segment was parsed.
KeptSegment ==
    /\ lastIndependent # Missing =>
         /\ lastIndependent.from[1] <= frame.pic
         /\ ended # Missing => ended < lastIndependent.from[1]
         /\ segments > 0 /\ lastIndependent.from[1] = frame.pic =>
              lastIndependent.from[2] <= segments /\ lastIndependent.pps = frame.pps
    /\ started = frame.pic /\ segments > 0 => lastIndependent.from[1] = frame.pic

\* The parser has the sets that were written last, as far as it has them and they are
\* in force.
SetsInStep ==
    /\ hevcSps # Missing => hevcSps = wroteSps
    /\ \A id \in HevcPpsIds :
         hevcPps[id] # Missing /\ wrotePps[id] # Missing => hevcPps[id] = wrotePps[id]
    /\ segments > 0 => wrotePps[frame.pps] # Missing

SegmentsCompleted == CompletedBehindFirst /\ NothingAcrossSequences

HevcStreamInv ==
    HevcStreamTypeOK /\ HistoryBehind /\ KeptSegment /\ SetsInStep /\ SegmentsCompleted /\ SegmentsWithTheirSets

LEMMA HevcInitInv == HevcStreamInit => HevcStreamInv
  BY HevcStreamAssumption
  DEF HevcStreamInit, HevcStreamInv, HevcStreamTypeOK, HistoryBehind, KeptSegment, SetsInStep, SegmentsCompleted,
      CompletedBehindFirst, NothingAcrossSequences, SegmentsWithTheirSets

\* Parameter sets come between pictures: nothing is being written then.
LEMMA HevcSetsKeepInv == HevcStreamInv /\ (SendHevcSps \/ SendHevcPps \/ ConfigureHevc) => HevcStreamInv'
  <1> SUFFICES ASSUME HevcStreamInv, SendHevcSps \/ SendHevcPps \/ ConfigureHevc
               PROVE  HevcStreamInv'
    OBVIOUS
  <1> USE HevcStreamAssumption DEF HevcStreamInv, HevcStreamTypeOK, hevcSender, hevcHistory
  <1>1. CASE SendHevcSps
    <2>1. /\ segments' = 0 /\ wroteCopies' = wroteCopies + 1 /\ wroteSps' = wroteCopies + 1
          /\ wrotePps' = [id \in HevcPpsIds |-> Missing] /\ hevcSps' = wroteCopies + 1
          /\ UNCHANGED <<frame, hevcHistory, hevcPps, lastIndependent>>
      BY <1>1 DEF SendHevcSps, WriteCopy, StoreHevcSps
    <2>2. HevcStreamTypeOK'
      BY <2>1
    <2>3. HistoryBehind' /\ KeptSegment'
      BY <2>1 DEF HistoryBehind, KeptSegment, Segment
    <2>4. SetsInStep'
      BY <2>1 DEF SetsInStep
    <2>5. SegmentsCompleted' /\ SegmentsWithTheirSets'
      BY <2>1 DEF SegmentsCompleted, CompletedBehindFirst, NothingAcrossSequences, SegmentsWithTheirSets, Segment, Source
    <2> QED
      BY <2>2, <2>3, <2>4, <2>5
  <1>2. CASE SendHevcPps
    <2>1. PICK id \in HevcPpsIds :
            /\ segments' = 0 /\ wroteCopies' = wroteCopies + 1
            /\ wrotePps' = [wrotePps EXCEPT ![id] = wroteCopies + 1]
            /\ hevcPps' = [hevcPps EXCEPT ![id] = wroteCopies + 1]
            /\ UNCHANGED <<frame, hevcHistory, hevcSps, wroteSps, lastIndependent>>
      BY <1>2 DEF SendHevcPps, WriteCopy, StoreHevcPps
    <2>2. HevcStreamTypeOK'
      BY <2>1
    <2>3. HistoryBehind' /\ KeptSegment'
      BY <2>1 DEF HistoryBehind, KeptSegment, Segment
    <2>4. SetsInStep'
      BY <2>1 DEF SetsInStep
    <2>5. SegmentsCompleted' /\ SegmentsWithTheirSets'
      BY <2>1 DEF SegmentsCompleted, CompletedBehindFirst, NothingAcrossSequences, SegmentsWithTheirSets, Segment, Source
    <2> QED
      BY <2>2, <2>3, <2>4, <2>5
  <1>3. CASE ConfigureHevc
    <2>1. /\ hevcSps' = wroteSps /\ hevcPps' = wrotePps
          /\ UNCHANGED <<hevcSender, lastIndependent, hevcHistory>>
      BY <1>3 DEF ConfigureHevc
    <2>2. HevcStreamTypeOK'
      BY <2>1
    <2>3. HistoryBehind' /\ KeptSegment' /\ SetsInStep'
      BY <2>1 DEF HistoryBehind, KeptSegment, SetsInStep, Segment
    <2>4. SegmentsCompleted' /\ SegmentsWithTheirSets'
      BY <2>1 DEF SegmentsCompleted, CompletedBehindFirst, NothingAcrossSequences, SegmentsWithTheirSets, Segment, Source
    <2> QED
      BY <2>2, <2>3, <2>4
  <1> QED
    BY <1>1, <1>2, <1>3

\* The end of a sequence, lost or not, ends the picture.
LEMMA HevcEndKeepsInv == HevcStreamInv /\ SendEnd => HevcStreamInv'
  <1> SUFFICES ASSUME HevcStreamInv, SendEnd
               PROVE  HevcStreamInv'
    OBVIOUS
  <1> USE HevcStreamAssumption DEF HevcStreamInv, HevcStreamTypeOK
  <1>1. /\ segments > 0 /\ segments' = 0
        /\ UNCHANGED <<wroteSps, wrotePps, wroteCopies, frame, hevcSps, hevcPps, started, returned>>
        /\ \/ lastIndependent' = Missing /\ ended' = frame.pic
           \/ UNCHANGED <<lastIndependent, ended>>
    BY DEF SendEnd, ParseEndOfSequence, PassOver, hevcParser, hevcHistory
  <1>2. HevcStreamTypeOK'
    BY <1>1
  <1>3. HistoryBehind'
    BY <1>1 DEF HistoryBehind, Segment
  <1>4. KeptSegment' /\ SetsInStep'
    BY <1>1 DEF KeptSegment, SetsInStep
  <1>5. SegmentsCompleted'
    BY <1>1 DEF SegmentsCompleted, CompletedBehindFirst, NothingAcrossSequences, HistoryBehind, Segment, Source
  <1>6. SegmentsWithTheirSets'
    BY <1>1 DEF SegmentsWithTheirSets, Segment
  <1> QED
    BY <1>2, <1>3, <1>4, <1>5, <1>6

\* A segment of the picture being written: the first one, or the next.
LEMMA SegmentKeepsInv ==
  ASSUME HevcStreamInv, NEW s \in [pic : Nat, pps : HevcPpsIds, number : Nat, dependent : BOOLEAN],
         frame' \in [pic : Nat, pps : HevcPpsIds], s.pic = frame'.pic, s.pps = frame'.pps,
         segments' = s.number, wrotePps[s.pps] # Missing,
         UNCHANGED <<wroteSps, wrotePps, wroteCopies>>,
         \/ s.number = 1 /\ ~s.dependent /\ s.pic = frame.pic + 1
         \/ segments > 0 /\ s.number = segments + 1 /\ frame' = frame,
         Carry(s)
  PROVE  HevcStreamInv'
  <1> USE HevcStreamAssumption DEF HevcStreamInv, HevcStreamTypeOK
  <1>1. CASE RefuseSegment(s) \/ PassOver
    <2>1. UNCHANGED <<hevcSps, hevcPps, lastIndependent, ended, started, returned>>
      BY <1>1 DEF RefuseSegment, PassOver, hevcParser, hevcHistory
    <2>2. HevcStreamTypeOK'
      BY <2>1
    <2>3. HistoryBehind'
      BY <2>1 DEF HistoryBehind, Segment
    <2>4. KeptSegment'
      BY <2>1 DEF KeptSegment, HistoryBehind
    <2>5. SetsInStep'
      BY <2>1 DEF SetsInStep
    <2>6. SegmentsCompleted'
      BY <2>1 DEF SegmentsCompleted, CompletedBehindFirst, NothingAcrossSequences, Segment, Source
    <2>7. SegmentsWithTheirSets'
      BY <2>1 DEF SegmentsWithTheirSets, HistoryBehind, Segment
    <2> QED
      BY <2>2, <2>3, <2>4, <2>5, <2>6, <2>7
  <1>2. CASE ParseSegment(s)
    <2>1. /\ hevcPps[s.pps] # Missing /\ hevcSps # Missing
          /\ s.dependent => lastIndependent # Missing
          /\ lastIndependent' = IF s.dependent THEN lastIndependent ELSE [pps |-> s.pps, from |-> <<s.pic, s.number>>]
          /\ returned' = [segment |-> s, header |-> Completed(s), sps |-> hevcSps, pps |-> hevcPps[s.pps]]
          /\ started' = IF s.number = 1 THEN s.pic ELSE started
          /\ UNCHANGED <<hevcSps, hevcPps, ended>>
      BY <1>2 DEF ParseSegment, Refused, Completed
    <2>2. /\ returned'.segment = s /\ returned'.sps = hevcSps /\ returned'.pps = hevcPps[s.pps]
          /\ s.dependent => /\ returned'.header.pps = lastIndependent.pps
                            /\ returned'.header.from = lastIndependent.from
          /\ ~s.dependent => /\ returned'.header.pps = s.pps
                             /\ returned'.header.from = <<s.pic, s.number>>
      BY <2>1 DEF Completed
    <2>3. HevcStreamTypeOK'
      BY <2>1
    <2>4. HistoryBehind'
      BY <2>1, <2>2 DEF HistoryBehind, Segment
    <2>5. KeptSegment'
      <3>1. CASE s.dependent
        BY <2>1, <3>1 DEF KeptSegment, HistoryBehind
      <3>2. CASE ~s.dependent
        <4>1. lastIndependent'.pps = s.pps /\ lastIndependent'.from = <<s.pic, s.number>>
          BY <2>1, <3>2
        <4> QED
          BY <2>1, <4>1 DEF KeptSegment, HistoryBehind
      <3> QED
        BY <3>1, <3>2
    <2>6. SetsInStep'
      BY <2>1 DEF SetsInStep
    <2>7. CompletedBehindFirst'
      BY <2>1, <2>2 DEF CompletedBehindFirst, KeptSegment, HistoryBehind, Segment, Source
    <2>8. NothingAcrossSequences'
      BY <2>1, <2>2 DEF NothingAcrossSequences, KeptSegment, HistoryBehind, Segment, Source
    <2>9. SegmentsWithTheirSets'
      BY <2>1, <2>2 DEF SegmentsWithTheirSets, SetsInStep, Segment
    <2> QED
      BY <2>3, <2>4, <2>5, <2>6, <2>7, <2>8, <2>9 DEF SegmentsCompleted
  <1> QED
    BY <1>1, <1>2 DEF Carry

LEMMA HevcNextInv == HevcStreamInv /\ [HevcStreamNext]_hevcStreamVars => HevcStreamInv'
  <1> SUFFICES ASSUME HevcStreamInv, [HevcStreamNext]_hevcStreamVars
               PROVE  HevcStreamInv'
    OBVIOUS
  <1>1. CASE StartFrame
    <2>1. PICK id \in HevcPpsIds :
            /\ wrotePps[id] # Missing
            /\ frame' = [pic |-> frame.pic + 1, pps |-> id]
            /\ Carry([pic |-> frame.pic + 1, pps |-> id, number |-> 1, dependent |-> FALSE])
      BY <1>1 DEF StartFrame
    <2>2. segments' = 1 /\ UNCHANGED <<wroteSps, wrotePps, wroteCopies>>
      BY <1>1 DEF StartFrame
    <2> DEFINE s == [pic |-> frame.pic + 1, pps |-> id, number |-> 1, dependent |-> FALSE]
    <2>3. /\ s \in [pic : Nat, pps : HevcPpsIds, number : Nat, dependent : BOOLEAN]
          /\ frame' \in [pic : Nat, pps : HevcPpsIds] /\ s.pic = frame'.pic /\ s.pps = frame'.pps
          /\ s.number = 1 /\ ~s.dependent /\ s.pic = frame.pic + 1
      BY <2>1 DEF HevcStreamInv, HevcStreamTypeOK
    <2> HIDE DEF s
    <2> QED
      BY <2>1, <2>2, <2>3, SegmentKeepsInv DEF s
  <1>2. CASE ContinueFrame
    <2>1. PICK dependent \in BOOLEAN :
            Carry([pic |-> frame.pic, pps |-> frame.pps, number |-> segments + 1, dependent |-> dependent])
      BY <1>2 DEF ContinueFrame
    <2>2. /\ segments > 0 /\ segments' = segments + 1
          /\ UNCHANGED <<wroteSps, wrotePps, wroteCopies, frame>>
      BY <1>2, HevcStreamAssumption DEF ContinueFrame, HevcStreamInv, HevcStreamTypeOK
    <2> DEFINE s == [pic |-> frame.pic, pps |-> frame.pps, number |-> segments + 1, dependent |-> dependent]
    <2>3. /\ s \in [pic : Nat, pps : HevcPpsIds, number : Nat, dependent : BOOLEAN]
          /\ frame' \in [pic : Nat, pps : HevcPpsIds] /\ s.pic = frame'.pic /\ s.pps = frame'.pps
          /\ s.number = segments + 1 /\ wrotePps[s.pps] # Missing
      BY <2>2 DEF HevcStreamInv, HevcStreamTypeOK, SetsInStep
    <2>4. Carry(s)
      BY <2>1
    <2> HIDE DEF s
    <2> QED
      BY <2>2, <2>3, <2>4, SegmentKeepsInv
  <1>3. CASE UNCHANGED hevcStreamVars
    BY <1>3 DEF hevcStreamVars, hevcSender, hevcParser, hevcHistory, HevcStreamInv, HevcStreamTypeOK, HistoryBehind, KeptSegment,
        SetsInStep, SegmentsCompleted, CompletedBehindFirst, NothingAcrossSequences, SegmentsWithTheirSets,
        Segment, Source
  <1> QED
    BY <1>1, <1>2, <1>3, HevcSetsKeepInv, HevcEndKeepsInv DEF HevcStreamNext

\* The invariant of the parser behind the channel.
THEOREM HevcStreamInvariance == HevcStreamSpec => []HevcStreamInv
  <1> QED
    BY HevcInitInv, HevcNextInv, PTL DEF HevcStreamSpec

\* Once the first segment of a picture was parsed, its dependent segments are
\* completed from the picture itself, whatever is lost in between.
THEOREM CompletedBehindFirstAlways == HevcStreamSpec => []CompletedBehindFirst
  <1>1. HevcStreamInv => CompletedBehindFirst
    BY DEF HevcStreamInv, SegmentsCompleted
  <1> QED
    BY <1>1, HevcStreamInvariance, PTL

\* Nothing is completed across an end of sequence that arrived, even in a picture whose
\* first segments were lost.
THEOREM NothingAcrossSequencesAlways == HevcStreamSpec => []NothingAcrossSequences
  <1>1. HevcStreamInv => NothingAcrossSequences
    BY DEF HevcStreamInv, SegmentsCompleted
  <1> QED
    BY <1>1, HevcStreamInvariance, PTL

\* Segments are parsed with the sets they were written with, however often those are
\* replaced and whatever the parser joins late to.
THEOREM SegmentsWithTheirSetsAlways == HevcStreamSpec => []SegmentsWithTheirSets
  <1>1. HevcStreamInv => SegmentsWithTheirSets
    BY DEF HevcStreamInv
  <1> QED
    BY <1>1, HevcStreamInvariance, PTL

-----------------------------------------------------------------------------
(* H264PocSync *)

\* Division with remainder by a positive number.
LEMMA Remainder ==
  ASSUME NEW v \in Int, NEW m \in Nat \ {0}
  PROVE  v % m \in 0 .. m - 1 /\ v \div m \in Int /\ v = m * (v \div m) + (v % m)
  OBVIOUS

\* A multiple of m between -m and m.
LEMMA Multiples ==
  ASSUME NEW m \in Nat \ {0}, NEW d \in Int, -2 * m < m * d, m * d < 2 * m
  PROVE  d \in {-1, 0, 1}
  <1>1. CASE d >= 2
    <2>1. m * (d - 2) >= 0 /\ m * (d - 2) = m * d - 2 * m
      BY <1>1
    <2> QED
      BY <2>1
  <1>2. CASE d <= -2
    <2>1. m * (-2 - d) >= 0 /\ m * (-2 - d) = -2 * m - m * d
      BY <1>2
    <2> QED
      BY <2>1
  <1> QED
    BY <1>1, <1>2

\* The derivation of the most significant part is an inverse of the encoder's
\* remainder for every count within half a cycle of the previous one.
LEMMA NearestCount ==
  ASSUME NEW h \in Nat \ {0}, NEW m, m = 2 * h, NEW k \in Int, NEW pl \in 0 .. m - 1, NEW v \in Int,
         -h < v - (m * k + pl), v - (m * k + pl) <= h
  PROVE  NextMsb(m * k, pl, v % m, m) + (v % m) = v
  <1> DEFINE l == v % m
             q == v \div m
             d == q - k
  <1>1. m \in Nat \ {0} /\ m \div 2 = h
    OBVIOUS
  <1>2. l \in 0 .. m - 1 /\ q \in Int /\ v = m * q + l
    BY <1>1, Remainder
  <1> HIDE DEF l, q
  <1>3. d \in Int /\ m * d = m * q - m * k
    BY <1>1, <1>2
  <1>4. m * d = v - (m * k + pl) + pl - l
    BY <1>2, <1>3, <1>1
  <1>5. d \in {-1, 0, 1}
    <2>1. -2 * m < m * d /\ m * d < 2 * m
      BY <1>1, <1>2, <1>3, <1>4
    <2> QED
      BY <1>1, <1>3, <2>1, Multiples
  <1> HIDE DEF d
  <1> DEFINE pm == m * k
  <1>6. pm \in Int /\ m * q = pm + m * d
    BY <1>1, <1>2, <1>3
  <1> HIDE DEF pm
  <1>7. CASE d = -1
    <2>1. v = pm - m + l /\ pl - l < -h + m
      BY <1>1, <1>2, <1>4, <1>6, <1>7
    <2> QED
      BY <1>1, <1>2, <1>4, <1>6, <1>7 DEF NextMsb, l, pm
  <1>8. CASE d = 0
      BY <1>1, <1>2, <1>4, <1>6, <1>8 DEF NextMsb, l, pm
  <1>9. CASE d = 1
      BY <1>1, <1>2, <1>4, <1>6, <1>9 DEF NextMsb, l, pm
  <1> QED
    BY <1>5, <1>7, <1>8, <1>9

Multiple(x) == \E k \in Int : x = SyncSps.maxLsb * k

\* What the decoder keeps of the last reference picture that arrived.
AnchorKept ==
    /\ ps.prevMsb \in Int /\ Multiple(ps.prevMsb)
    /\ ps.prevLsb \in 0 .. SyncSps.maxLsb - 1
    /\ anchor \in Int /\ seen \in Int
    /\ ~behind => ps.prevMsb + ps.prevLsb = seen

PocSyncInv == AnchorKept /\ CountsAgree

HalfCycle == SyncSps.maxLsb \div 2

LEMMA Halves ==
    /\ SyncSps.maxLsb \in Nat \ {0} /\ HalfCycle \in Nat \ {0} /\ SyncSps.maxLsb = 2 * HalfCycle
    /\ SyncSps.maxLsb <= PocLimit /\ PocLimit \in Nat \ {0}
  <1> DEFINE m == SyncSps.maxLsb
  <1>1. m \in Nat \ {0} /\ m % 2 = 0 /\ m <= PocLimit /\ PocLimit \in Nat \ {0}
    BY SyncAssumption, PocLimitAssumption
  <1> HIDE DEF m
  <1>2. m \div 2 \in Nat \ {0} /\ m = 2 * (m \div 2)
    BY <1>1
  <1> QED
    BY <1>1, <1>2 DEF m, HalfCycle

LEMMA WrapsNothing ==
  ASSUME NEW x \in Int, -PocLimit <= x, x < PocLimit
  PROVE  Wrap(x) = x
  <1>1. PocLimit \in Nat \ {0}
    BY PocLimitAssumption
  <1>2. x + PocLimit \in 0 .. 2 * PocLimit - 1
    BY <1>1
  <1>3. (x + PocLimit) % (2 * PocLimit) = x + PocLimit
    BY <1>1, <1>2
  <1> QED
    BY <1>1, <1>3 DEF Wrap

\* A picture that arrives: its counts are those of some value, and the encoder's value
\* when it was within reach of what the decoder knows.
Known(idr) == IF idr THEN 0 ELSE ps.prevMsb + ps.prevLsb

Counts(base, delta, structure, msb) ==
    WithStructure(base, IF IsField(structure) THEN base ELSE base + delta, msb, 0, structure)

LEMMA ArrivedCounts ==
  ASSUME AnchorKept, NEW v \in Int, NEW structure \in Structures, NEW delta, delta \in FrameDeltas(structure),
         NEW idr \in BOOLEAN, NEW reference \in BOOLEAN,
         Derive(ps, SyncSps, PocSlice(v, structure, idr, reference, delta)) # None
  PROVE  /\ v % SyncSps.maxLsb \in 0 .. SyncSps.maxLsb - 1
         /\ \E msb \in Int :
              /\ Multiple(msb)
              /\ Derive(ps, SyncSps, PocSlice(v, structure, idr, reference, delta))
                   = Counts(msb + (v % SyncSps.maxLsb), delta, structure, msb)
              /\ InReach(v, Known(idr)) => msb + (v % SyncSps.maxLsb) = v
  <1> DEFINE m     == SyncSps.maxLsb
             slice == PocSlice(v, structure, idr, reference, delta)
             pm    == IF idr THEN 0 ELSE ps.prevMsb
             pl    == IF idr THEN 0 ELSE ps.prevLsb
             lsb   == v % m
             msb   == NextMsb(pm, pl, lsb, m)
  <1>1. m \in Nat \ {0} /\ HalfCycle \in Nat \ {0} /\ m = 2 * HalfCycle /\ m \div 2 = HalfCycle
    BY Halves DEF HalfCycle
  <1>2. slice.idr = idr /\ slice.lsb = lsb /\ slice.structure = structure /\ slice.deltaBottom = delta
    BY DEF PocSlice
  <1>3. Derive(ps, SyncSps, slice) = Type0(ps, SyncSps, slice)
    BY SyncAssumption DEF Derive
  <1>4. Type0(ps, SyncSps, slice) # None
          => Type0(ps, SyncSps, slice) = Counts(msb + lsb, delta, structure, msb)
    BY <1>2 DEF Type0, Checked, Counts
  <1>5. lsb \in 0 .. m - 1
    BY <1>1, Remainder
  <1>6. pl \in 0 .. m - 1 /\ pm \in Int /\ Known(idr) = pm + pl
    BY <1>1 DEF AnchorKept, Known
  <1>7. PICK k \in Int : pm = m * k
    <2>1. 0 = m * 0
      BY <1>1
    <2>2. Multiple(ps.prevMsb)
      BY DEF AnchorKept
    <2> QED
      BY <2>1, <2>2 DEF Multiple
  <1>8. InReach(v, Known(idr)) => msb + lsb = v
    <2> SUFFICES ASSUME InReach(v, Known(idr))
                 PROVE  msb + lsb = v
      OBVIOUS
    <2> HIDE DEF m, pm, pl
    <2>1. -HalfCycle < v - (m * k + pl) /\ v - (m * k + pl) <= HalfCycle
      BY <1>1, <1>6, <1>7 DEF InReach, m
    <2> QED
      BY <1>1, <1>6, <1>7, <2>1, NearestCount
  <1>9. msb \in Int /\ Multiple(msb)
    <2> HIDE DEF m, lsb, pm, pl
    <2>1. msb \in {pm, pm + m, pm - m}
      BY DEF NextMsb
    <2>2. pm + m = m * (k + 1) /\ pm - m = m * (k - 1)
      BY <1>1, <1>7
    <2>3. k \in Int /\ k + 1 \in Int /\ k - 1 \in Int
      BY <1>7
    <2>4. Multiple(pm) /\ Multiple(pm + m) /\ Multiple(pm - m)
      BY <1>7, <2>2, <2>3, Zenon DEF Multiple, m
    <2> QED
      BY <1>1, <1>6, <2>1, <2>4
  <1> QED
    BY <1>3, <1>4, <1>5, <1>8, <1>9

\* What the sender's choices leave of the derived counts.
LEMMA CountsMeant ==
  ASSUME NEW v \in Int, NEW structure \in Structures, NEW delta, delta \in FrameDeltas(structure), NEW msb
  PROVE  /\ structure # "BottomField" => Counts(v, delta, structure, msb).top = MeantCounts(v, structure, delta).top
         /\ structure # "TopField" => Counts(v, delta, structure, msb).bottom = MeantCounts(v, structure, delta).bottom
         /\ Counts(v, delta, structure, msb).count = Smallest(MeantCounts(v, structure, delta), structure)
  BY DEF Counts, WithStructure, MeantCounts, Smallest, IsField, Structures

\* Operation 5 leaves differences, whatever the most significant part was.
LEMMA CountsRebased ==
  ASSUME NEW v \in Int, NEW base \in Int, NEW structure \in Structures, NEW delta,
         delta \in FrameDeltas(structure), NEW msb
  PROVE  LET after == AfterMmco5(Counts(base, delta, structure, msb), structure)
             pair  == Rebased(MeantCounts(v, structure, delta), structure)
         IN  /\ structure # "BottomField" => after.top = pair.top /\ pair.top \in 0 .. SyncSps.maxLsb - 1
             /\ structure # "TopField" => after.bottom = pair.bottom
             /\ after.count = Smallest(pair, structure)
  <1>1. /\ SyncSps.maxLsb \in Nat \ {0} /\ SyncSps.maxLsb <= PocLimit /\ PocLimit \in Nat \ {0}
    BY Halves
  <1>2. Wrap(0) = 0
    BY <1>1, WrapsNothing
  <1>3. base - base = 0 /\ v - v = 0
    OBVIOUS
  <1>4. CASE structure = "TopField"
    BY <1>1, <1>2, <1>3, <1>4 DEF AfterMmco5, Counts, WithStructure, IsField, Rebased, MeantCounts, Smallest
  <1>5. CASE structure = "BottomField"
    BY <1>1, <1>2, <1>3, <1>5 DEF AfterMmco5, Counts, WithStructure, IsField, Rebased, MeantCounts, Smallest
  <1>6. CASE structure = "Frame"
    <2> DEFINE pair  == Rebased(MeantCounts(v, structure, delta), structure)
               poc   == Counts(base, delta, structure, msb)
    <2>1. delta \in Int /\ -SyncSps.maxLsb < delta /\ delta < PocLimit
      BY <1>6, SyncAssumption DEF FrameDeltas, IsField
    <2>2. poc.top = base /\ poc.bottom = base + delta /\ poc.count = IF base < base + delta THEN base ELSE base + delta
      BY <1>6 DEF Counts, WithStructure, IsField
    <2>3. /\ poc.top - poc.count = IF 0 < delta THEN 0 ELSE -delta
          /\ poc.bottom - poc.count = IF 0 < delta THEN delta ELSE 0
      BY <2>1, <2>2
    <2>4. Wrap(poc.top - poc.count) = poc.top - poc.count /\ Wrap(poc.bottom - poc.count) = poc.bottom - poc.count
      BY <1>1, <2>1, <2>3, WrapsNothing
    <2>5. /\ pair.top = IF 0 < delta THEN 0 ELSE -delta
          /\ pair.bottom = IF 0 < delta THEN delta ELSE 0
      BY <1>6, <2>1 DEF Rebased, MeantCounts, Smallest, IsField
    <2> DEFINE after == AfterMmco5(poc, structure)
    <2>6. /\ after.top = Wrap(poc.top - poc.count) /\ after.bottom = Wrap(poc.bottom - poc.count)
          /\ after.count = IF after.top < after.bottom THEN after.top ELSE after.bottom
      <3> HIDE DEF poc
      <3>1. "top" \in DOMAIN poc /\ "bottom" \in DOMAIN poc /\ "count" \in DOMAIN poc
        BY DEF poc, Counts, WithStructure
      <3> QED
        BY <1>6, <3>1 DEF AfterMmco5
    <2> HIDE DEF pair, poc, after
    <2>7. after.top = pair.top /\ after.bottom = pair.bottom
      BY <2>3, <2>4, <2>5, <2>6
    <2>8. pair.top \in 0 .. SyncSps.maxLsb - 1
      BY <1>1, <2>1, <2>5
    <2>9. after.count = Smallest(pair, structure)
      BY <1>6, <2>6, <2>7 DEF Smallest
    <2> QED
      BY <2>7, <2>8, <2>9 DEF pair, poc, after
  <1> QED
    BY <1>4, <1>5, <1>6 DEF Structures

\* What finish_picture keeps of a reference picture of type 0, and of another.
LEMMA Kept ==
  ASSUME NEW v, NEW structure, NEW delta, NEW idr, NEW reference, NEW base, NEW msb, NEW mmco5 \in BOOLEAN
  PROVE  LET slice == PocSlice(v, structure, idr, reference, delta)
             poc   == Counts(base, delta, structure, msb)
             after == FinishPoc(ps, SyncSps, slice, poc, mmco5)
         IN  /\ after.prevMsb = IF ~reference THEN ps.prevMsb ELSE IF mmco5 THEN 0 ELSE msb
             /\ after.prevLsb = IF ~reference THEN ps.prevLsb
                                ELSE IF ~mmco5 THEN v % SyncSps.maxLsb
                                ELSE IF structure = "BottomField" THEN 0
                                ELSE AfterMmco5(poc, structure).top
  <1> DEFINE slice == PocSlice(v, structure, idr, reference, delta)
             poc   == Counts(base, delta, structure, msb)
  <1>1. slice.reference = reference /\ slice.structure = structure /\ slice.lsb = v % SyncSps.maxLsb
    BY DEF PocSlice
  <1>2. poc.msb = msb
    BY DEF Counts, WithStructure
  <1> HIDE DEF slice, poc
  <1> QED
    BY <1>1, <1>2, SyncAssumption DEF FinishPoc, slice, poc

\* What a picture that arrives leaves: counts of the base the derivation finds, which
\* is the encoder's value within reach of what the decoder knows.
Arrived(v, structure, idr, reference, delta, mmco5) ==
    LET lsb  == v % SyncSps.maxLsb
        pair == IF mmco5 THEN Rebased(MeantCounts(v, structure, delta), structure)
                ELSE MeantCounts(v, structure, delta)
    IN  /\ lsb \in 0 .. SyncSps.maxLsb - 1
        /\ sentCounts'.top = pair.top /\ sentCounts'.bottom = pair.bottom /\ sentCounts'.structure = structure
        /\ sentCounts'.inReach <=> idr \/ mmco5 \/ InReach(v, seen)
        /\ \E msb \in Int :
             LET counts == Counts(msb + lsb, delta, structure, msb)
             IN  /\ Multiple(msb)
                 /\ InReach(v, Known(idr)) => msb + lsb = v
                 /\ derived' = IF mmco5 THEN AfterMmco5(counts, structure) ELSE counts
                 /\ ps'.prevMsb = IF ~reference THEN ps.prevMsb ELSE IF mmco5 THEN 0 ELSE msb
                 /\ ps'.prevLsb = IF ~reference THEN ps.prevLsb
                                  ELSE IF ~mmco5 THEN lsb
                                  ELSE IF structure = "BottomField" THEN 0
                                  ELSE AfterMmco5(counts, structure).top

LEMMA ArriveSteps ==
  ASSUME AnchorKept, NEW v \in Int, NEW structure \in Structures, NEW delta, delta \in FrameDeltas(structure),
         NEW idr \in BOOLEAN, NEW reference \in BOOLEAN, NEW mmco5 \in BOOLEAN,
         Arrive(v, structure, idr, reference, delta, mmco5)
  PROVE  Arrived(v, structure, idr, reference, delta, mmco5)
  <1> DEFINE slice  == PocSlice(v, structure, idr, reference, delta)
             counts == Derive(ps, SyncSps, slice)
             pair   == IF mmco5 THEN Rebased(MeantCounts(v, structure, delta), structure)
                       ELSE MeantCounts(v, structure, delta)
             lsb    == v % SyncSps.maxLsb
             reach  == idr \/ mmco5 \/ InReach(v, seen)
  <1>1. /\ counts # None /\ ps' = FinishPoc(ps, SyncSps, slice, counts, mmco5)
        /\ derived' = IF mmco5 THEN AfterMmco5(counts, structure) ELSE counts
        /\ sentCounts' = [top |-> pair.top, bottom |-> pair.bottom, structure |-> structure, inReach |-> reach]
    BY DEF Arrive
  <1>2. lsb \in 0 .. SyncSps.maxLsb - 1
    BY <1>1, ArrivedCounts
  <1>3. PICK msb \in Int : /\ Multiple(msb) /\ counts = Counts(msb + lsb, delta, structure, msb)
                           /\ InReach(v, Known(idr)) => msb + lsb = v
    BY <1>1, ArrivedCounts
  <1> DEFINE made == Counts(msb + lsb, delta, structure, msb)
  <1>4. /\ ps'.prevMsb = IF ~reference THEN ps.prevMsb ELSE IF mmco5 THEN 0 ELSE msb
        /\ ps'.prevLsb = IF ~reference THEN ps.prevLsb
                         ELSE IF ~mmco5 THEN lsb
                         ELSE IF structure = "BottomField" THEN 0
                         ELSE AfterMmco5(made, structure).top
    BY <1>1, <1>3, Kept
  <1> HIDE DEF reach
  <1>5. /\ sentCounts'.top = pair.top /\ sentCounts'.bottom = pair.bottom /\ sentCounts'.structure = structure
        /\ sentCounts'.inReach = reach
    BY <1>1
  <1>6. derived' = IF mmco5 THEN AfterMmco5(made, structure) ELSE made
    BY <1>1, <1>3
  <1> HIDE DEF made, pair, lsb
  <1> QED
    BY <1>2, <1>3, <1>4, <1>5, <1>6, Zenon DEF Arrived, reach, made, pair, lsb

\* The pictures of the sender.
Choice(v, structure, delta) == v \in -Span .. Span /\ structure \in Structures /\ delta \in FrameDeltas(structure)

LEMMA PictureKeeps ==
  ASSUME PocSyncInv, NEW v, NEW structure, NEW delta, Choice(v, structure, delta), NEW reference \in BOOLEAN,
         SendPicture(v, structure, reference, delta)
  PROVE  PocSyncInv'
  <1>1. AnchorKept /\ CountsAgree /\ v \in Int /\ structure \in Structures /\ delta \in FrameDeltas(structure)
    BY SyncAssumption DEF PocSyncInv, Choice
  <1>2. anchor' \in Int
    BY <1>1 DEF SendPicture, AnchorKept
  <1>3. CASE UNCHANGED <<ps, seen, behind, sentCounts, derived>>
    BY <1>1, <1>2, <1>3 DEF PocSyncInv, AnchorKept, CountsAgree, InStep
  <1>4. CASE /\ Arrive(v, structure, FALSE, reference, delta, FALSE)
             /\ seen' = IF reference THEN v ELSE seen
             /\ behind' = (behind \/ (reference /\ ~InReach(v, seen)))
    <2> DEFINE pair   == MeantCounts(v, structure, delta)
               lsb    == v % SyncSps.maxLsb
    <2>1. Arrived(v, structure, FALSE, reference, delta, FALSE)
      BY <1>1, <1>4, ArriveSteps, Zenon
    <2>2. /\ lsb \in 0 .. SyncSps.maxLsb - 1
          /\ sentCounts'.top = pair.top /\ sentCounts'.bottom = pair.bottom /\ sentCounts'.structure = structure
          /\ sentCounts'.inReach <=> InReach(v, seen)
      BY <2>1 DEF Arrived
    <2>3. PICK msb \in Int : /\ Multiple(msb)
                             /\ InReach(v, ps.prevMsb + ps.prevLsb) => msb + lsb = v
                             /\ derived' = Counts(msb + lsb, delta, structure, msb)
                             /\ ps'.prevMsb = IF ~reference THEN ps.prevMsb ELSE msb
                             /\ ps'.prevLsb = IF ~reference THEN ps.prevLsb ELSE lsb
      BY <2>1 DEF Arrived, Known
    <2>4. /\ ps'.prevMsb = IF reference THEN msb ELSE ps.prevMsb
          /\ ps'.prevLsb = IF reference THEN lsb ELSE ps.prevLsb
      BY <2>3
    <2>5. ~behind' /\ (reference \/ InReach(v, seen)) => msb + lsb = v
      BY <1>1, <1>4, <2>3 DEF AnchorKept
    <2> HIDE DEF lsb
    <2>6. AnchorKept'
      <3>1. ps'.prevMsb \in Int /\ Multiple(ps'.prevMsb) /\ ps'.prevLsb \in 0 .. SyncSps.maxLsb - 1 /\ seen' \in Int
        BY <1>1, <1>4, <2>2, <2>3, <2>4 DEF AnchorKept
      <3>2. ~behind' => ps'.prevMsb + ps'.prevLsb = seen'
        BY <1>1, <1>4, <2>4, <2>5 DEF AnchorKept
      <3> QED
        BY <1>2, <3>1, <3>2 DEF AnchorKept, Multiple
    <2>7. CountsAgree'
      <3> SUFFICES ASSUME InStep'
                   PROVE  /\ structure # "BottomField" => derived'.top = pair.top
                          /\ structure # "TopField" => derived'.bottom = pair.bottom
                          /\ derived'.count = Smallest(pair, structure)
        BY <2>2 DEF CountsAgree, Smallest
      <3>1. ~behind' /\ InReach(v, seen)
        BY <2>2 DEF InStep
      <3>2. derived' = Counts(v, delta, structure, msb)
        BY <2>3, <2>5, <3>1
      <3> QED
        BY <1>1, <3>2, CountsMeant
    <2> QED
      BY <2>6, <2>7 DEF PocSyncInv
  <1> QED
    BY <1>3, <1>4 DEF SendPicture

LEMMA IdrKeeps ==
  ASSUME PocSyncInv, NEW v, NEW structure, NEW delta, Choice(v, structure, delta), SendIdr(v, structure, delta)
  PROVE  PocSyncInv'
  <1>1. AnchorKept /\ CountsAgree /\ v \in Int /\ structure \in Structures /\ delta \in FrameDeltas(structure)
    BY SyncAssumption DEF PocSyncInv, Choice
  <1>2. anchor' \in Int /\ InReach(v, 0)
    BY <1>1 DEF SendIdr
  <1>3. CASE behind' = TRUE /\ UNCHANGED <<ps, seen, sentCounts, derived>>
    BY <1>1, <1>2, <1>3 DEF PocSyncInv, AnchorKept, CountsAgree, InStep
  <1>4. CASE Arrive(v, structure, TRUE, TRUE, delta, FALSE) /\ seen' = v /\ behind' = FALSE
    <2> DEFINE pair   == MeantCounts(v, structure, delta)
               lsb    == v % SyncSps.maxLsb
    <2>1. Arrived(v, structure, TRUE, TRUE, delta, FALSE)
      BY <1>1, <1>4, ArriveSteps, Zenon
    <2>2. /\ lsb \in 0 .. SyncSps.maxLsb - 1
          /\ sentCounts'.top = pair.top /\ sentCounts'.bottom = pair.bottom /\ sentCounts'.structure = structure
      BY <2>1 DEF Arrived
    <2>3. PICK msb \in Int : /\ Multiple(msb) /\ msb + lsb = v
                             /\ derived' = Counts(msb + lsb, delta, structure, msb)
                             /\ ps'.prevMsb = msb /\ ps'.prevLsb = lsb
      BY <1>2, <2>1 DEF Arrived, Known
    <2> HIDE DEF lsb
    <2>5. AnchorKept'
      BY <1>1, <1>2, <1>4, <2>2, <2>3 DEF AnchorKept, Multiple
    <2>6. derived' = Counts(v, delta, structure, msb)
      BY <2>3
    <2>7. CountsAgree'
      <3>1. /\ structure # "BottomField" => derived'.top = pair.top
            /\ structure # "TopField" => derived'.bottom = pair.bottom
            /\ derived'.count = Smallest(pair, structure)
        BY <1>1, <2>6, CountsMeant
      <3> QED
        BY <2>2, <3>1 DEF CountsAgree, Smallest
    <2> QED
      BY <2>5, <2>7 DEF PocSyncInv
  <1> QED
    BY <1>3, <1>4 DEF SendIdr

LEMMA RefreshKeeps ==
  ASSUME PocSyncInv, NEW v, NEW structure, NEW delta, Choice(v, structure, delta), SendRefresh(v, structure, delta)
  PROVE  PocSyncInv'
  <1> DEFINE pair == Rebased(MeantCounts(v, structure, delta), structure)
             lsb  == v % SyncSps.maxLsb
  <1>1. AnchorKept /\ CountsAgree /\ v \in Int /\ structure \in Structures /\ delta \in FrameDeltas(structure)
    BY SyncAssumption DEF PocSyncInv, Choice
  <1>2. SyncSps.maxLsb \in Nat \ {0}
    BY Halves
  <1>3. anchor' = IF structure = "BottomField" THEN 0 ELSE pair.top
    BY DEF SendRefresh, NextAnchor
  <1>4. structure # "BottomField" => pair.top \in 0 .. SyncSps.maxLsb - 1
    BY <1>1, CountsRebased
  <1>5. anchor' \in 0 .. SyncSps.maxLsb - 1
    BY <1>2, <1>3, <1>4
  <1>6. CASE behind' = TRUE /\ UNCHANGED <<ps, seen, sentCounts, derived>>
    BY <1>1, <1>5, <1>6 DEF PocSyncInv, AnchorKept, CountsAgree, InStep
  <1>7. CASE Arrive(v, structure, FALSE, TRUE, delta, TRUE) /\ seen' = anchor' /\ behind' = FALSE
    <2>1. Arrived(v, structure, FALSE, TRUE, delta, TRUE)
      BY <1>1, <1>7, ArriveSteps, Zenon
    <2>2. sentCounts'.top = pair.top /\ sentCounts'.bottom = pair.bottom /\ sentCounts'.structure = structure
      BY <2>1 DEF Arrived
    <2>3. PICK msb \in Int :
             /\ derived' = AfterMmco5(Counts(msb + lsb, delta, structure, msb), structure)
             /\ ps'.prevMsb = 0
             /\ ps'.prevLsb = IF structure = "BottomField" THEN 0
                              ELSE AfterMmco5(Counts(msb + lsb, delta, structure, msb), structure).top
      BY <2>1 DEF Arrived
    <2> DEFINE after == AfterMmco5(Counts(msb + lsb, delta, structure, msb), structure)
    <2>4. msb + lsb \in Int
      BY <1>1, <1>2
    <2>5. /\ structure # "BottomField" => after.top = pair.top
          /\ structure # "TopField" => after.bottom = pair.bottom
          /\ after.count = Smallest(pair, structure)
      BY <1>1, <2>4, CountsRebased
    <2>6. derived' = after
      BY <2>3
    <2> HIDE DEF after, pair, lsb
    <2>7. ps'.prevLsb = anchor'
      BY <1>3, <2>3, <2>5 DEF after
    <2>8. 0 = SyncSps.maxLsb * 0
      BY <1>2
    <2>9. AnchorKept'
      BY <1>5, <1>7, <2>3, <2>7, <2>8 DEF AnchorKept, Multiple
    <2>10. CountsAgree'
      BY <2>2, <2>5, <2>6 DEF CountsAgree, Smallest
    <2> QED
      BY <2>9, <2>10 DEF PocSyncInv
  <1> QED
    BY <1>6, <1>7 DEF SendRefresh

LEMMA PocSyncInitInv == PocSyncInit => PocSyncInv
  <1> SUFFICES ASSUME PocSyncInit
               PROVE  PocSyncInv
    OBVIOUS
  <1>1. SyncSps.maxLsb \in Nat \ {0}
    BY Halves
  <1>2. 0 = SyncSps.maxLsb * 0
    BY <1>1
  <1>3. AnchorKept
    BY <1>1, <1>2 DEF PocSyncInit, AnchorKept, Multiple, InitPocState
  <1>4. CountsAgree
    BY DEF PocSyncInit, CountsAgree, Smallest, ZeroPoc
  <1> QED
    BY <1>3, <1>4 DEF PocSyncInv

LEMMA PocSyncNextInv == PocSyncInv /\ [PocSyncNext]_pocSyncVars => PocSyncInv'
  <1> SUFFICES ASSUME PocSyncInv, [PocSyncNext]_pocSyncVars
               PROVE  PocSyncInv'
    OBVIOUS
  <1>1. CASE UNCHANGED pocSyncVars
    BY <1>1 DEF pocSyncVars, PocSyncInv, AnchorKept, CountsAgree, InStep
  <1>2. CASE PocSyncNext
    <2>1. PICK v \in -Span .. Span, structure \in Structures : \E delta \in FrameDeltas(structure) :
             \/ \E reference \in BOOLEAN : SendPicture(v, structure, reference, delta)
             \/ SendIdr(v, structure, delta)
             \/ SendRefresh(v, structure, delta)
      BY <1>2 DEF PocSyncNext
    <2> QED
      BY <2>1, PictureKeeps, IdrKeeps, RefreshKeeps DEF Choice
  <1> QED
    BY <1>1, <1>2

THEOREM PocSyncInvariance == PocSyncSpec => []PocSyncInv
  <1> QED
    BY PocSyncInitInv, PocSyncNextInv, PTL DEF PocSyncSpec

\* The decoder's counts are the encoder's whenever they can be, whatever was lost:
\* begin_picture rebuilds what the encoder reduced, finish_picture keeps its anchor.
THEOREM CountsAgreeAlways == PocSyncSpec => []CountsAgree
  <1>1. PocSyncInv => CountsAgree
    BY DEF PocSyncInv
  <1> QED
    BY <1>1, PocSyncInvariance, PTL

-----------------------------------------------------------------------------
(* Vp9RefState: the decoder's state *)

\* A slot the encoder filled has a colour configuration.
SlotsColored == \A s \in Vp9Slots : encoded.slots[s].size # 0 => encoded.slots[s].color # NoColor

\* The parts of the state, and the header read last.
PartsInStep ==
    /\ \A s \in Vp9Slots : SlotPart(s) \notin stale => state.slots[s] = encoded.slots[s]
    /\ ColorPart \notin stale => state.color = encoded.color
    /\ \A d \in LoopDeltas : DeltaPart(d) \notin stale => state.deltas[d] = encoded.deltas[d]
    /\ FeaturesPart \notin stale => state.features = encoded.features
    /\ ~vp9Header.taken => vp9Header.read = vp9Meant

Vp9Inv == vp9Profile \in Nat /\ SlotsColored /\ PartsInStep

\* The names of the parts do not collide.
LEMMA PartsDiffer ==
    /\ ColorPart \notin CarriedParts
    /\ \A s : SlotPart(s) # ColorPart /\ SlotPart(s) \notin CarriedParts
    /\ \A d : DeltaPart(d) # FeaturesPart
    /\ \A s, t : SlotPart(s) = SlotPart(t) => s = t
    /\ \A d, e : DeltaPart(d) = DeltaPart(e) => d = e
  BY DEF SlotPart, ColorPart, DeltaPart, FeaturesPart, CarriedParts

-----------------------------------------------------------------------------
(* What parse_frame returns for a frame of the encoder *)

\* The deltas and the features are read as meant unless they were left stale.
LEMMA CarriedRead ==
  ASSUME Vp9Inv, NEW c \in Vp9Frames,
         NEW taken, taken = stale \cap TakenFrom(CodedHeader(c))
  PROVE  /\ \A d \in LoopDeltas : DeltaPart(d) \notin taken =>
              ParsedFrame(state, CodedHeader(c)).deltas[d] = MeantFrame(c).deltas[d]
         /\ FeaturesPart \notin taken =>
              ParsedFrame(state, CodedHeader(c)).features = MeantFrame(c).features
  <1> DEFINE f == CodedHeader(c)
             m == MeantFrame(c)
             h == ParsedFrame(state, f)
  <1>1. /\ f.type = c.type /\ f.resilient = c.resilient
        /\ f.coded = {d \in LoopDeltas : m.deltas[d] # Carried(c, encoded.deltas[d])}
        /\ f.deltas = c.deltas /\ f.features = c.features
        /\ f.updateData = (m.features # Carried(c, encoded.features))
    BY DEF CodedHeader
  <1>2. \A d \in LoopDeltas : m.deltas[d] = IF c.filtered THEN c.deltas[d] ELSE Carried(c, encoded.deltas[d])
    BY DEF MeantFrame
  <1>3. m.features = IF c.segmented THEN c.features ELSE Carried(c, encoded.features)
    BY DEF MeantFrame
  <1>4. \A d \in LoopDeltas : h.deltas[d] = IF d \in f.coded THEN f.deltas[d]
                                            ELSE IF PastIndependence(f) THEN 0 ELSE state.deltas[d]
    BY DEF ParsedFrame
  <1>5. h.features = IF f.updateData THEN f.features ELSE IF PastIndependence(f) THEN 0 ELSE state.features
    BY DEF ParsedFrame
  <1>6. ASSUME NEW d \in LoopDeltas, DeltaPart(d) \notin taken
        PROVE  h.deltas[d] = m.deltas[d]
    <2>1. CASE d \in f.coded
      <3>1. h.deltas[d] = c.deltas[d]
        BY <2>1, <1>1, <1>4
      <3> QED
        BY <2>1, <3>1, <1>1, <1>2
    <2>2. CASE d \notin f.coded
      <3>1. m.deltas[d] = Carried(c, encoded.deltas[d])
        BY <2>2, <1>1
      <3>2. CASE PastIndependence(f)
        BY <3>1, <3>2, <2>2, <1>1, <1>4 DEF PastIndependence, Carried
      <3>3. CASE ~PastIndependence(f)
        <4>1. DeltaPart(d) \in TakenFrom(f)
          BY <3>3, <2>2 DEF TakenFrom
        <4>2. state.deltas[d] = encoded.deltas[d]
          BY <4>1, <1>6 DEF Vp9Inv, PartsInStep
        <4> QED
          BY <3>1, <3>3, <4>2, <2>2, <1>1, <1>4 DEF PastIndependence, Carried
      <3> QED
        BY <3>2, <3>3
    <2> QED
      BY <2>1, <2>2
  <1>7. ASSUME FeaturesPart \notin taken
        PROVE  h.features = m.features
    <2>1. CASE f.updateData
      BY <2>1, <1>1, <1>3, <1>5
    <2>2. CASE ~f.updateData
      <3>1. m.features = Carried(c, encoded.features)
        BY <2>2, <1>1
      <3>2. CASE PastIndependence(f)
        BY <3>1, <3>2, <2>2, <1>1, <1>5 DEF PastIndependence, Carried
      <3>3. CASE ~PastIndependence(f)
        <4>1. FeaturesPart \in TakenFrom(f)
          BY <3>3, <2>2 DEF TakenFrom
        <4>2. state.features = encoded.features
          BY <4>1, <1>7 DEF Vp9Inv, PartsInStep
        <4> QED
          BY <3>1, <3>3, <4>2, <2>2, <1>1, <1>5 DEF PastIndependence, Carried
      <3> QED
        BY <3>2, <3>3
    <2> QED
      BY <2>1, <2>2
  <1> QED
    BY <1>6, <1>7

\* So are size and colour when nothing but deltas and features is stale; the colour of
\* an intra frame is always.
LEMMA PictureRead ==
  ASSUME Vp9Inv, NEW c \in Vp9Frames, MayCode(c)
  PROVE  LET f == CodedHeader(c)
             h == ParsedFrame(state, f)
         IN  /\ stale \cap TakenFrom(f) \subseteq CarriedParts =>
                  h.size = c.size /\ h.color = MeantFrame(c).color
             /\ IsVp9Intra(c.type) => h.color = MeantFrame(c).color
  <1> DEFINE f == CodedHeader(c)
             h == ParsedFrame(state, f)
  <1>1. /\ f.type = c.type /\ f.color = c.color /\ f.size = c.size
        /\ f.found = IF ~IsVp9Intra(c.type) /\ encoded.slots[c.last].size = c.size THEN c.last ELSE NoSlot
    BY DEF CodedHeader
  <1>2. h.size = SizeOf(state, f) /\ h.color = ColorOf(state, f)
    BY DEF ParsedFrame
  <1>3. MeantFrame(c).color = IF IsVp9Intra(c.type) THEN c.color ELSE encoded.color
    BY DEF MeantFrame
  <1>4. ASSUME IsVp9Intra(c.type)
        PROVE  h.color = MeantFrame(c).color
    BY <1>1, <1>2, <1>3, <1>4 DEF ColorOf, CarriesColor, IsVp9Intra, MayCode, Vp9Inv
  <1>5. ASSUME stale \cap TakenFrom(f) \subseteq CarriedParts
        PROVE  h.size = c.size /\ h.color = MeantFrame(c).color
    <2>1. h.size = c.size
      <3>1. CASE f.found = NoSlot
        BY <3>1, <1>1, <1>2 DEF SizeOf
      <3>2. CASE f.found # NoSlot
        <4>1. f.found = c.last /\ encoded.slots[c.last].size = c.size
          BY <3>2, <1>1
        <4>2. SlotPart(c.last) \in TakenFrom(f)
          BY <3>2, <4>1 DEF TakenFrom
        <4>3. SlotPart(c.last) \notin stale
          BY <4>2, <1>5, PartsDiffer
        <4> QED
          BY <3>2, <4>1, <4>3, <1>2, Vp9Assumption DEF SizeOf, Vp9Inv, PartsInStep
      <3> QED
        BY <3>1, <3>2
    <2>2. h.color = MeantFrame(c).color
      <3>1. CASE IsVp9Intra(c.type)
        BY <3>1, <1>4
      <3>2. CASE ~IsVp9Intra(c.type)
        <4>1. ColorPart \in TakenFrom(f)
          BY <3>2, <1>1 DEF TakenFrom
        <4>2. ColorPart \notin stale
          BY <4>1, <1>5, PartsDiffer
        <4> QED
          BY <3>2, <4>2, <1>1, <1>2, <1>3 DEF ColorOf, CarriesColor, IsVp9Intra, Vp9Inv, PartsInStep
      <3> QED
        BY <3>1, <3>2
    <2> QED
      BY <2>1, <2>2
  <1> QED
    BY <1>4, <1>5

\* A frame that may be coded has a colour.
LEMMA MeantColor ==
  ASSUME NEW c \in Vp9Frames, MayCode(c)
  PROVE  MeantFrame(c).color # NoColor /\ c.size # 0
  <1>1. /\ c.type \in {"key", "intra_only", "inter"} /\ c.size > 0 /\ c.color > 0
    BY Vp9Assumption
  <1>2. MeantFrame(c).color = IF IsVp9Intra(c.type) THEN c.color ELSE encoded.color
    BY DEF MeantFrame
  <1>3. c.size # 0 /\ c.color # 0
    BY <1>1
  <1>4. CASE IsVp9Intra(c.type)
    BY <1>2, <1>3, <1>4 DEF NoColor
  <1>5. CASE ~IsVp9Intra(c.type)
    <2>1. c.type = "inter"
      BY <1>1, <1>5 DEF IsVp9Intra
    <2>2. encoded.color # NoColor
      BY <2>1 DEF MayCode
    <2> QED
      BY <1>2, <1>3, <1>5, <2>2
  <1> QED
    BY <1>4, <1>5

\* A header that takes nothing stale is read as it was meant.
LEMMA ReadAsMeant ==
  ASSUME Vp9Inv, NEW c \in Vp9Frames, MayCode(c), TakenFrom(CodedHeader(c)) \cap stale = {}
  PROVE  ParsedFrame(state, CodedHeader(c)) = MeantFrame(c) /\ ~Unparsable(state, CodedHeader(c))
  <1> DEFINE f == CodedHeader(c)
             h == ParsedFrame(state, f)
             m == MeantFrame(c)
  <1>1. h.size = c.size /\ h.color = m.color
    BY PictureRead
  <1>2. \A d \in LoopDeltas : h.deltas[d] = m.deltas[d]
    BY CarriedRead
  <1>3. h.features = m.features
    BY CarriedRead
  <1>4. /\ h = [size |-> h.size, color |-> h.color, deltas |-> h.deltas, features |-> h.features]
        /\ h.deltas = [d \in LoopDeltas |-> h.deltas[d]]
    BY DEF ParsedFrame
  <1>5. /\ m = [size |-> m.size, color |-> m.color, deltas |-> m.deltas, features |-> m.features]
        /\ m.size = c.size /\ m.deltas = [d \in LoopDeltas |-> m.deltas[d]]
    BY DEF MeantFrame
  <1>6. h.deltas = m.deltas
    <2> HIDE DEF h, m
    <2> QED
      BY <1>2, <1>4, <1>5
  <1>7. h = m
    <2> HIDE DEF h, m
    <2> QED
      BY <1>1, <1>3, <1>4, <1>5, <1>6
  <1>8. m.color # NoColor /\ c.size # 0
    BY MeantColor
  <1>9. h.size = SizeOf(state, f) /\ h.color = ColorOf(state, f)
    BY DEF ParsedFrame
  <1>10. ~Unparsable(state, f)
    <2> HIDE DEF h, m, f
    <2> QED
      BY <1>1, <1>8, <1>9 DEF Unparsable
  <1> QED
    BY <1>7, <1>10

-----------------------------------------------------------------------------
(* The steps *)

LEMMA Vp9InitInv == Vp9Init => Vp9Inv
  BY Vp9Assumption DEF Vp9Init, Vp9Inv, SlotsColored, PartsInStep, NewState

\* What a frame leaves of the encoder's state.
LEMMA EncodeKeeps ==
  ASSUME Vp9Inv, NEW c \in Vp9Frames, EncodeFrame(c)
  PROVE  /\ vp9Profile' \in Nat /\ SlotsColored'
         /\ \A s \in Vp9Slots : encoded'.slots[s] =
                IF s \in CodedHeader(c).refresh THEN [size |-> c.size, color |-> MeantFrame(c).color] ELSE encoded.slots[s]
         /\ encoded'.color = IF IsVp9Intra(c.type) THEN MeantFrame(c).color ELSE encoded.color
         /\ encoded'.deltas = MeantFrame(c).deltas /\ encoded'.features = MeantFrame(c).features
  <1> DEFINE f == CodedHeader(c)
             m == MeantFrame(c)
  <1>1. encoded' = Committed(encoded, f, m) /\ MayCode(c) /\ vp9Profile' = vp9Profile
    BY DEF EncodeFrame
  <1>2. m.size = c.size /\ f.type = c.type
    BY DEF MeantFrame, CodedHeader
  <1>3. m.color # NoColor
    BY <1>1, MeantColor
  <1>4. \A s \in Vp9Slots : encoded'.slots[s] =
           IF s \in f.refresh THEN [size |-> m.size, color |-> m.color] ELSE encoded.slots[s]
    BY <1>1 DEF Committed
  <1>5. /\ encoded'.color = IF IsVp9Intra(f.type) THEN m.color ELSE encoded.color
        /\ encoded'.deltas = m.deltas /\ encoded'.features = m.features
    BY <1>1 DEF Committed
  <1> HIDE DEF f, m
  <1>6. SlotsColored'
    <2> SUFFICES ASSUME NEW s \in Vp9Slots, encoded'.slots[s].size # 0
                 PROVE  encoded'.slots[s].color # NoColor
      BY DEF SlotsColored
    <2>1. CASE s \in f.refresh
      BY <2>1, <1>3, <1>4
    <2>2. CASE s \notin f.refresh
      BY <2>2, <1>4 DEF Vp9Inv, SlotsColored
    <2> QED
      BY <2>1, <2>2
  <1> QED
    BY <1>1, <1>2, <1>4, <1>5, <1>6 DEF Vp9Inv, f, m

\* A frame that arrives.
LEMMA DecodeKeepsInv ==
  ASSUME Vp9Inv, NEW c \in Vp9Frames, DecodeFrame(c)
  PROVE  Vp9Inv'
  <1> DEFINE f == CodedHeader(c)
             h == ParsedFrame(state, f)
             m == MeantFrame(c)
             taken == stale \cap TakenFrom(f)
  <1>1. /\ EncodeFrame(c) /\ MayCode(c) /\ state' = Committed(state, f, h)
        /\ stale' = (stale \ ChangedBy(f)) \cup LeavesStale(f)
        /\ vp9Header' = [taken |-> TakenFrom(f) \cap stale # {}, read |-> h] /\ vp9Meant' = m
    BY DEF DecodeFrame, EncodeFrame
  <1>2. /\ \A s \in Vp9Slots : state'.slots[s] =
              IF s \in f.refresh THEN [size |-> h.size, color |-> h.color] ELSE state.slots[s]
        /\ state'.color = IF IsVp9Intra(c.type) THEN h.color ELSE state.color
        /\ state'.deltas = h.deltas /\ state'.features = h.features
    BY <1>1 DEF Committed, CodedHeader
  <1>3. /\ vp9Profile' \in Nat /\ SlotsColored'
        /\ \A s \in Vp9Slots : encoded'.slots[s] =
              IF s \in f.refresh THEN [size |-> c.size, color |-> m.color] ELSE encoded.slots[s]
        /\ encoded'.color = IF IsVp9Intra(c.type) THEN m.color ELSE encoded.color
        /\ encoded'.deltas = m.deltas /\ encoded'.features = m.features
    BY <1>1, EncodeKeeps
  <1>4. /\ taken \subseteq CarriedParts => h.size = c.size /\ h.color = m.color
        /\ IsVp9Intra(c.type) => h.color = m.color
    BY <1>1, PictureRead
  <1>5. /\ \A d \in LoopDeltas : DeltaPart(d) \notin taken => h.deltas[d] = m.deltas[d]
        /\ FeaturesPart \notin taken => h.features = m.features
    BY CarriedRead
  <1>6. /\ stale' = (stale \ ChangedBy(f))
               \cup ((taken \cap CarriedParts) \cup (IF taken \subseteq CarriedParts THEN {} ELSE RefreshedParts(f)))
        /\ ChangedBy(f) = RefreshedParts(f) \cup CarriedParts \cup (IF IsVp9Intra(c.type) THEN {ColorPart} ELSE {})
        /\ RefreshedParts(f) = {SlotPart(s) : s \in f.refresh}
        /\ \A d \in LoopDeltas : DeltaPart(d) \in CarriedParts
        /\ FeaturesPart \in CarriedParts
    BY <1>1 DEF LeavesStale, ChangedBy, RefreshedParts, CarriedParts, CodedHeader
  <1>7. vp9Header'.taken = FALSE => vp9Header'.read = vp9Meant'
    BY <1>1, ReadAsMeant
  <1>8. vp9Header'.taken \in BOOLEAN
    BY <1>1
  <1> HIDE DEF f, h, m, taken
  <1>9. ASSUME NEW s \in Vp9Slots, SlotPart(s) \notin stale'
        PROVE  state'.slots[s] = encoded'.slots[s]
    <2>1. CASE s \in f.refresh
      BY <2>1, <1>2, <1>3, <1>4, <1>6, <1>9
    <2>2. CASE s \notin f.refresh
      <3>1. SlotPart(s) \notin ChangedBy(f)
        BY <2>2, <1>6, PartsDiffer
      <3> QED
        BY <2>2, <3>1, <1>2, <1>3, <1>6, <1>9 DEF Vp9Inv, PartsInStep
    <2> QED
      BY <2>1, <2>2
  <1>10. ASSUME ColorPart \notin stale'
         PROVE  state'.color = encoded'.color
    <2>1. CASE IsVp9Intra(c.type)
      BY <2>1, <1>2, <1>3, <1>4
    <2>2. CASE ~IsVp9Intra(c.type)
      <3>1. ColorPart \notin ChangedBy(f)
        BY <2>2, <1>6, PartsDiffer
      <3> QED
        BY <2>2, <3>1, <1>2, <1>3, <1>6, <1>10 DEF Vp9Inv, PartsInStep
    <2> QED
      BY <2>1, <2>2
  <1>11. \A d \in LoopDeltas : DeltaPart(d) \notin stale' => state'.deltas[d] = encoded'.deltas[d]
    BY <1>2, <1>3, <1>5, <1>6
  <1>12. FeaturesPart \notin stale' => state'.features = encoded'.features
    BY <1>2, <1>3, <1>5, <1>6
  <1> QED
    BY <1>3, <1>7, <1>8, <1>9, <1>10, <1>11, <1>12 DEF Vp9Inv, PartsInStep

\* A frame that is lost, or refused.
LEMMA LoseKeepsInv ==
  ASSUME Vp9Inv, NEW c \in Vp9Frames, RefuseVp9Frame(c) \/ LoseVp9Frame(c)
  PROVE  Vp9Inv'
  <1> DEFINE f == CodedHeader(c)
  <1>1. EncodeFrame(c) /\ stale' = stale \cup ChangedBy(f) /\ UNCHANGED <<state, vp9Header, vp9Meant>>
    BY DEF RefuseVp9Frame, LoseVp9Frame
  <1>2. /\ vp9Profile' \in Nat /\ SlotsColored'
        /\ \A s \in Vp9Slots : s \notin f.refresh => encoded'.slots[s] = encoded.slots[s]
        /\ ~IsVp9Intra(c.type) => encoded'.color = encoded.color
    BY <1>1, EncodeKeeps
  <1>3. /\ \A s \in f.refresh : SlotPart(s) \in stale'
        /\ \A d \in LoopDeltas : DeltaPart(d) \in stale'
        /\ FeaturesPart \in stale'
        /\ IsVp9Intra(c.type) => ColorPart \in stale'
        /\ stale \subseteq stale'
    BY <1>1 DEF ChangedBy, RefreshedParts, CarriedParts, CodedHeader
  <1> HIDE DEF f
  <1> QED
    BY <1>1, <1>2, <1>3 DEF Vp9Inv, PartsInStep

\* A slot that is shown.
LEMMA ShowKeepsInv ==
  ASSUME Vp9Inv, NEW s \in Vp9Slots, ShowSlot(s)
  PROVE  Vp9Inv'
  <1>1. /\ encoded.slots[s].size # 0
        /\ vp9Header' = [taken |-> SlotPart(s) \in stale, read |-> ShownSlot(state, s)]
        /\ vp9Meant' = ShownSlot(encoded, s)
        /\ UNCHANGED <<vp9Profile, encoded, state, vp9Count, stale>>
    BY DEF ShowSlot
  <1>2. ASSUME SlotPart(s) \notin stale
        PROVE  vp9Header'.read = vp9Meant'
    <2>1. state.slots[s] = encoded.slots[s] /\ encoded.slots[s].color # NoColor
      BY <1>1, <1>2 DEF Vp9Inv, PartsInStep, SlotsColored
    <2> QED
      BY <1>1, <2>1 DEF ShownSlot
  <1>3. vp9Header'.taken = (SlotPart(s) \in stale)
    BY <1>1
  <1> QED
    BY <1>1, <1>2, <1>3 DEF Vp9Inv, SlotsColored, PartsInStep

LEMMA Vp9NextInv == Vp9Inv /\ [Vp9Next]_vp9Vars => Vp9Inv'
  <1> SUFFICES ASSUME Vp9Inv, [Vp9Next]_vp9Vars
               PROVE  Vp9Inv'
    OBVIOUS
  <1>1. CASE UNCHANGED vp9Vars
    BY <1>1 DEF vp9Vars, Vp9Inv, SlotsColored, PartsInStep
  <1> QED
    BY <1>1, DecodeKeepsInv, LoseKeepsInv, ShowKeepsInv DEF Vp9Next

\* The invariant of the state behind the channel.
THEOREM Vp9Invariance == Vp9Spec => []Vp9Inv
  <1> QED
    BY Vp9InitInv, Vp9NextInv, PTL DEF Vp9Spec

\* What lost frames did not leave stale the decoder has as it is meant: it reads the
\* headers that take nothing else as they are meant, and refuses none of them.
THEOREM Vp9StaysInStepAlways == Vp9Spec => []Vp9StaysInStep
  <1>1. Vp9Inv => Vp9StaysInStep
    <2> SUFFICES ASSUME Vp9Inv
                 PROVE  Vp9StaysInStep
      OBVIOUS
    <2>1. \A c \in Vp9Frames : MayCode(c) /\ Unparsable(state, CodedHeader(c)) =>
              TakenFrom(CodedHeader(c)) \cap stale # {}
      BY ReadAsMeant
    <2> QED
      BY <2>1 DEF Vp9Inv, PartsInStep, Vp9StaysInStep
  <1> QED
    BY <1>1, Vp9Invariance, PTL

-----------------------------------------------------------------------------
(* AV1 *)

Av1Types == {"key", "intra_only", "inter", "switch"}
SlotFrame == [picture : Nat, id : {0} \cup {Id(n) : n \in Nat}, hint : Int, type : Av1Types, showable : BOOLEAN,
              size : Nat, deltas : Nat, features : Nat, grain : Nat]
Av1Held == [Slots -> [valid : BOOLEAN, frame : SlotFrame]]

Av1TypeOK ==
    /\ sent \in Av1Held /\ slots \in Av1Held
    /\ coded \in 0 .. MaxAv1Frames
    /\ inStep \in BOOLEAN /\ vouched \in BOOLEAN

\* No frame was coded later than the last; its number gives its order hint, and two
\* frames of one number, in the encoder and the decoder, have one type.
PicturesKnown ==
    \A s \in Slots :
        /\ sent[s].frame.picture <= coded /\ sent[s].frame.hint = Hint(sent[s].frame.picture)
        /\ slots[s].frame.picture <= coded /\ slots[s].frame.hint = Hint(slots[s].frame.picture)
        /\ \A t \in Slots : slots[s].frame.picture = sent[t].frame.picture
                                => slots[s].frame.type = sent[t].frame.type

\* The two hold the same frames, in invalid slots too: reference selection looks at
\* the order hints of all of them.
SlotsAgree ==
    inStep =>
        /\ \A s \in Slots : slots[s].frame = sent[s].frame
        /\ \A s \in Slots : Nameable(s) => slots[s].valid
        /\ got = meant

Av1Inv == Av1TypeOK /\ PicturesKnown /\ SlotsAgree /\ HintsVouch

\* set_frame_refs leaves LAST where the header put it.
IsLast(refs, newest) == 1 \in DOMAIN refs /\ refs[1] = newest

LEMMA AssignKeepsLast ==
  ASSUME NEW refs, NEW newest, NEW name, name # 1, NEW slot, IsLast(refs, newest)
  PROVE  IsLast(Derived!Assign(refs, name, slot), newest)
  BY DEF Derived!Assign, IsLast

LEMMA LaterKeepsLast ==
  ASSUME NEW dist, NEW refs, NEW newest, NEW name, name # 1, IsLast(refs, newest)
  PROVE  IsLast(Derived!Later(dist, refs, name), newest)
  BY AssignKeepsLast DEF Derived!Later

LEMMA EarlierKeepsLast ==
  ASSUME NEW dist, NEW refs, NEW newest, NEW name, name # 1, IsLast(refs, newest)
  PROVE  IsLast(Derived!Earlier(dist, refs, name), newest)
  BY AssignKeepsLast DEF Derived!Earlier

LEMMA LastStays ==
  ASSUME NEW bits, NEW hints, NEW current, NEW newest \in Nat, NEW gold
  PROVE  Derived!SetFrameRefs(bits, hints, current, newest, gold)[1] = newest
  <1> DEFINE dist   == [i \in DOMAIN hints |-> Derived!RelativeDist(bits, hints[i], current)]
             named  == [n \in 1 .. 7 |-> IF n = 1 THEN newest ELSE IF n = 4 THEN gold ELSE -1]
             altref == Derived!Assign(named, 7, Derived!LatestOf(Derived!After(dist, named), dist))
             back5  == Derived!Later(dist, altref, 5)
             back6  == Derived!Later(dist, back5, 6)
             fore2  == Derived!Earlier(dist, back6, 2)
             fore3  == Derived!Earlier(dist, fore2, 3)
             fore5  == Derived!Earlier(dist, fore3, 5)
             fore6  == Derived!Earlier(dist, fore5, 6)
             fore7  == Derived!Earlier(dist, fore6, 7)
  <1>1. Derived!SetFrameRefs(bits, hints, current, newest, gold)
          = [n \in 1 .. 7 |-> IF fore7[n] < 0 THEN Derived!EarliestOf(DOMAIN hints, dist) ELSE fore7[n]]
    BY DEF Derived!SetFrameRefs, Derived!RefsPerFrame
  <1>2. IsLast(named, newest)
    BY DEF IsLast
  <1> HIDE DEF dist, named, altref, back5, back6, fore2, fore3, fore5, fore6, fore7
  <1>3. IsLast(altref, newest)
    BY <1>2, AssignKeepsLast DEF altref
  <1>4. IsLast(back5, newest)
    BY <1>3, LaterKeepsLast DEF back5
  <1>5. IsLast(back6, newest)
    BY <1>4, LaterKeepsLast DEF back6
  <1>6. IsLast(fore2, newest)
    BY <1>5, EarlierKeepsLast DEF fore2
  <1>7. IsLast(fore3, newest)
    BY <1>6, EarlierKeepsLast DEF fore3
  <1>8. IsLast(fore5, newest)
    BY <1>7, EarlierKeepsLast DEF fore5
  <1>9. IsLast(fore6, newest)
    BY <1>8, EarlierKeepsLast DEF fore6
  <1>10. IsLast(fore7, newest)
    BY <1>9, EarlierKeepsLast DEF fore7
  <1>11. fore7[1] = newest /\ ~(fore7[1] < 0) /\ 1 \in 1 .. 7
    BY <1>10 DEF IsLast
  <1> QED
    BY <1>1, <1>11

\* The reference a header loads from is LAST, however it names the others.
LEMMA FirstReference ==
  ASSUME NEW c \in Av1Frames
  PROVE  Refs(Coded(c))[1] = c.last /\ c.last \in Slots
  <1>1. c.last \in Slots /\ c.last \in Nat
    BY Av1Assumption DEF Av1Choice
  <1>2. Coded(c).last = c.last /\ Coded(c).short = c.short
    BY DEF Coded
  <1> QED
    BY <1>1, <1>2, LastStays DEF Refs

\* What a header is read as, when it takes nothing from the slots or LAST is the frame
\* the encoder took it from, is what the encoder chose.
LEMMA ReadAsChosen ==
  ASSUME Av1TypeOK, NEW c \in Av1Frames,
         Independent(Coded(c)) \/ slots[c.last].frame = sent[c.last].frame
  PROVE  Parsed(Coded(c)) = Chosen(CodedFrame(c))
  <1> DEFINE f == Coded(c)
             previous == IF f.primary = PrimaryNone THEN NoFrame ELSE sent[c.last].frame
  <1>1. c \in Av1Choice /\ c.last \in Slots /\ (c.lossless => c.deltas = 0)
    BY Av1Assumption DEF Av1Choice
  <1>2. /\ f.primary \in {PrimaryNone, 0} /\ f.hint = Hint(coded + 1) /\ f.last = c.last
        /\ f.size = c.size /\ f.deltas = c.deltas /\ f.features = c.features /\ f.grain = c.grain
        /\ f.lossless = c.lossless /\ f.segmentation = (c.features # 0)
    BY DEF Coded
  <1>3. /\ f.updated = (c.deltas # previous.deltas)
        /\ f.data = (c.features # previous.features)
    BY DEF Coded
  <1>4. /\ f.found => sent[c.last].frame.size = c.size
        /\ ~f.override => c.size = MaxSize /\ ~f.found
        /\ f.grainLoaded => sent[c.last].frame.grain = c.grain
    BY DEF Coded
  <1>5. Refs(f)[1] = c.last
    BY FirstReference
  <1>6. Previous(f) = previous
    <2>1. CASE f.primary = PrimaryNone
      BY <2>1 DEF Previous
    <2>2. CASE f.primary # PrimaryNone
      <3>1. f.primary = 0 /\ ~Independent(f)
        BY <2>2, <1>2 DEF Independent
      <3>2. Refs(f)[f.primary + 1] = c.last
        BY <3>1, <1>5
      <3> QED
        BY <2>2, <3>1, <3>2 DEF Previous
    <2> QED
      BY <2>1, <2>2
  <1>7. f.found \/ f.grainLoaded => slots[c.last].frame = sent[c.last].frame
    BY DEF Independent
  <1> HIDE DEF f, previous
  <1>8. SizeRead(f) = c.size
    BY <1>2, <1>4, <1>5, <1>7 DEF SizeRead
  <1>9. DeltasRead(f) = c.deltas
    BY <1>1, <1>2, <1>3, <1>6 DEF DeltasRead
  <1>10. FeaturesRead(f) = c.features
    BY <1>1, <1>2, <1>3, <1>6 DEF FeaturesRead
  <1>11. GrainRead(f) = c.grain
    BY <1>2, <1>4, <1>7 DEF GrainRead
  <1> QED
    BY <1>2, <1>8, <1>9, <1>10, <1>11 DEF Parsed, Chosen, CodedFrame, f

\* Types of what the encoder and the decoder make of a choice.
LEMMA FramesTyped ==
  ASSUME Av1TypeOK, NEW c \in Av1Frames
  PROVE  /\ CodedFrame(c) \in SlotFrame
         /\ \A showable \in BOOLEAN :
              [picture |-> coded + 1, id |-> Coded(c).id, hint |-> Coded(c).hint, type |-> Coded(c).type,
               showable |-> showable, size |-> Parsed(Coded(c)).size, deltas |-> Parsed(Coded(c)).deltas,
               features |-> Parsed(Coded(c)).features, grain |-> Parsed(Coded(c)).grain] \in SlotFrame
         /\ Coded(c).refresh \in SUBSET Slots /\ CodedFrame(c).showable \in BOOLEAN
  <1> DEFINE f == Coded(c)
  <1>1. c \in Av1Choice /\ c.last \in Slots /\ HintBits \in Nat /\ IdBits \in Nat /\ coded \in Nat
    BY Av1Assumption DEF Av1Choice, Av1TypeOK
  <1>2. Id(coded + 1) \in {Id(n) : n \in Nat} /\ Hint(coded + 1) \in Int
    <2>1. 2^HintBits \in Nat \ {0}
      BY <1>1, Av1Assumption
    <2> QED
      BY <1>1, <2>1 DEF Hint
  <1>3. CodedFrame(c) \in SlotFrame /\ CodedFrame(c).showable \in BOOLEAN
    <2>1. CodedFrame(c).showable = IF c.shown THEN c.type # "key" ELSE TRUE
      BY DEF CodedFrame
    <2>2. CodedFrame(c).showable \in BOOLEAN
      BY <2>1, Zenon
    <2>3. c.type \in Av1Types /\ c.size \in Nat /\ c.deltas \in Nat /\ c.features \in Nat /\ c.grain \in Nat
      BY <1>1 DEF Av1Choice, Av1Types
    <2>4. CodedFrame(c) = [picture |-> coded + 1, id |-> Id(coded + 1), hint |-> Hint(coded + 1), type |-> c.type,
                           showable |-> CodedFrame(c).showable, size |-> c.size, deltas |-> c.deltas,
                           features |-> c.features, grain |-> c.grain]
      BY DEF CodedFrame
    <2>5. coded + 1 \in Nat
      BY <1>1
    <2> QED
      BY <1>2, <2>2, <2>3, <2>4, <2>5 DEF SlotFrame
  <1>4. /\ f.primary \in {PrimaryNone, 0} /\ f.id = Id(coded + 1) /\ f.hint = Hint(coded + 1) /\ f.last = c.last
        /\ f.type = c.type /\ f.size = c.size /\ f.deltas = c.deltas /\ f.features = c.features /\ f.grain = c.grain
    BY DEF Coded
  <1>5. f.refresh \in SUBSET Slots
    BY <1>1 DEF Coded, Av1Choice
  <1>6. Refs(f)[1] = c.last
    BY FirstReference
  <1> HIDE DEF f
  <1>7. slots[c.last].frame \in SlotFrame /\ NoFrame \in SlotFrame
    <2>1. slots[c.last].frame \in SlotFrame
      BY <1>1 DEF Av1TypeOK, Av1Held
    <2>2. NoFrame \in SlotFrame
      BY DEF NoFrame, SlotFrame, Av1Types
    <2> QED
      BY <2>1, <2>2
  <1>8. Previous(f) \in SlotFrame
    BY <1>4, <1>6, <1>7 DEF Previous
  <1>9. SizeRead(f) \in Nat /\ DeltasRead(f) \in Nat /\ FeaturesRead(f) \in Nat /\ GrainRead(f) \in Nat
    BY <1>1, <1>4, <1>6, <1>7, <1>8 DEF SizeRead, DeltasRead, FeaturesRead, GrainRead, SlotFrame, Av1Choice, MaxSize
  <1>10. f.type \in Av1Types
    BY <1>1, <1>4 DEF Av1Choice, Av1Types
  <1> QED
    BY <1>1, <1>2, <1>3, <1>4, <1>5, <1>9, <1>10 DEF Parsed, SlotFrame, f

-----------------------------------------------------------------------------
(* The steps of AV1 *)

\* The slots behind a frame: those it refreshes hold it, the others keep theirs.
Refreshed(held, next, refresh, entry) ==
    /\ \A s \in refresh : next[s].frame = entry /\ next[s].valid
    /\ \A s \in Slots \ refresh : next[s].frame = held[s].frame

LEMMA SenderSteps ==
  ASSUME Av1TypeOK, NEW c \in Av1Frames, SendersStep(c)
  PROVE  /\ sent' \in Av1Held /\ Refreshed(sent, sent', Coded(c).refresh, CodedFrame(c))
         /\ \A s \in Slots \ Coded(c).refresh : sent'[s].valid => Nameable(s)
         /\ coded' = coded + 1
  <1> DEFINE f == Coded(c)
  <1>1. sent' = [s \in Slots |-> IF s \in f.refresh THEN [valid |-> TRUE, frame |-> CodedFrame(c)]
                                 ELSE [sent[s] EXCEPT !.valid = Nameable(s)]]
    BY DEF SendersStep
  <1>2. CodedFrame(c) \in SlotFrame /\ f.refresh \in SUBSET Slots
    BY FramesTyped
  <1>3. \A s \in Slots : sent[s] \in [valid : BOOLEAN, frame : SlotFrame]
    BY DEF Av1TypeOK, Av1Held
  <1>4. \A s \in Slots : Nameable(s) \in BOOLEAN
    BY DEF Nameable
  <1> HIDE DEF f
  <1> QED
    BY <1>1, <1>2, <1>3, <1>4 DEF Av1Held, Refreshed, SendersStep, f

LEMMA DecoderSteps ==
  ASSUME Av1TypeOK, NEW c \in Av1Frames, slots' = Updated(Coded(c), coded + 1, CodedFrame(c).showable)
  PROVE  \E entry \in SlotFrame :
            /\ entry = [picture |-> coded + 1, id |-> Id(coded + 1), hint |-> Hint(coded + 1), type |-> c.type,
                        showable |-> CodedFrame(c).showable, size |-> Parsed(Coded(c)).size,
                        deltas |-> Parsed(Coded(c)).deltas, features |-> Parsed(Coded(c)).features,
                        grain |-> Parsed(Coded(c)).grain]
            /\ slots' \in Av1Held /\ Refreshed(slots, slots', Coded(c).refresh, entry)
            /\ \A s \in Slots \ Coded(c).refresh : slots'[s].valid = RefValid(Coded(c))[s]
  <1> DEFINE f == Coded(c)
             entry == [picture |-> coded + 1, id |-> f.id, hint |-> f.hint, type |-> f.type,
                       showable |-> CodedFrame(c).showable, size |-> Parsed(f).size, deltas |-> Parsed(f).deltas,
                       features |-> Parsed(f).features, grain |-> Parsed(f).grain]
  <1>1. slots' = [s \in Slots |-> IF s \in f.refresh THEN [valid |-> TRUE, frame |-> entry]
                                  ELSE [slots[s] EXCEPT !.valid = RefValid(f)[s]]]
    BY DEF Updated
  <1>2. entry \in SlotFrame /\ f.refresh \in SUBSET Slots
    BY FramesTyped
  <1>3. \A s \in Slots : slots[s] \in [valid : BOOLEAN, frame : SlotFrame]
    BY DEF Av1TypeOK, Av1Held
  <1>4. \A s \in Slots : RefValid(f)[s] \in BOOLEAN
    BY DEF RefValid
  <1>5. f.id = Id(coded + 1) /\ f.hint = Hint(coded + 1) /\ f.type = c.type
    BY DEF Coded
  <1> HIDE DEF f, entry
  <1>6. slots' \in Av1Held /\ Refreshed(slots, slots', f.refresh, entry)
    <2> DEFINE kept == RefValid(f)
    <2>1. slots' = [s \in Slots |-> IF s \in f.refresh THEN [valid |-> TRUE, frame |-> entry]
                                    ELSE [slots[s] EXCEPT !.valid = kept[s]]]
      BY <1>1
    <2>2. \A s \in Slots : kept[s] \in BOOLEAN
      BY <1>4
    <2> HIDE DEF kept
    <2>3. ASSUME NEW s \in Slots
          PROVE  slots'[s] \in [valid : BOOLEAN, frame : SlotFrame]
      <3>1. CASE s \in f.refresh
        <4> DEFINE v == TRUE
        <4>1. slots'[s] = [valid |-> v, frame |-> entry]
          BY <2>1, <3>1
        <4>2. entry \in SlotFrame /\ v \in BOOLEAN
          BY <1>2
        <4> HIDE DEF v
        <4> QED
          BY <4>1, <4>2
      <3>2. CASE s \notin f.refresh
        <4> DEFINE v == kept[s]
        <4>1. slots'[s] = [slots[s] EXCEPT !.valid = v]
          BY <2>1, <3>2
        <4>2. v \in BOOLEAN
          BY <2>2
        <4> HIDE DEF v
        <4> QED
          BY <1>3, <4>1, <4>2
      <3> QED
        BY <3>1, <3>2
    <2>4. slots' \in Av1Held
      BY <2>1, <2>3 DEF Av1Held
    <2>5. Refreshed(slots, slots', f.refresh, entry)
      BY <1>2, <1>3, <2>1 DEF Refreshed
    <2> QED
      BY <2>4, <2>5
  <1>7. \A s \in Slots \ f.refresh : slots'[s].valid = RefValid(f)[s]
    BY <1>1, <1>3
  <1> QED
    BY <1>2, <1>5, <1>6, <1>7 DEF f, entry

\* Order hints of frames coded so far are their numbers.
LEMMA HintsDiffer ==
  ASSUME NEW p \in 0 .. MaxAv1Frames
  PROVE  Hint(p) = p
  <1>1. 2^HintBits \in Nat /\ MaxAv1Frames \in 1 .. 2^HintBits - 1
    BY Av1Assumption
  <1> QED
    BY <1>1 DEF Hint

LEMMA PicturesStayKnown ==
  ASSUME Av1TypeOK, PicturesKnown, NEW c \in Av1Frames, SendersStep(c), coded < MaxAv1Frames,
         slots' = slots \/ slots' = Updated(Coded(c), coded + 1, CodedFrame(c).showable)
  PROVE  PicturesKnown'
  <1> DEFINE R == Coded(c).refresh
  <1>1. /\ sent' \in Av1Held /\ Refreshed(sent, sent', R, CodedFrame(c))
        /\ coded' = coded + 1 /\ coded \in Nat
    BY SenderSteps DEF Av1TypeOK
  <1>2. CodedFrame(c).picture = coded + 1 /\ CodedFrame(c).hint = Hint(coded + 1) /\ CodedFrame(c).type = c.type
    BY DEF CodedFrame
  <1>3. \A s \in Slots : sent[s].frame.picture \in Nat /\ slots[s].frame.picture \in Nat
    BY DEF Av1TypeOK, Av1Held, SlotFrame
  <1>4. R \in SUBSET Slots
    BY FramesTyped
  <1>5. \A s \in Slots :
          \/ sent'[s].frame = sent[s].frame
          \/ /\ sent'[s].frame.picture = coded + 1 /\ sent'[s].frame.hint = Hint(coded + 1)
             /\ sent'[s].frame.type = c.type
    BY <1>1, <1>2 DEF Refreshed
  <1>6. \A s \in Slots :
          \/ slots'[s].frame = slots[s].frame
          \/ /\ slots'[s].frame.picture = coded + 1 /\ slots'[s].frame.hint = Hint(coded + 1)
             /\ slots'[s].frame.type = c.type
    <2>1. CASE slots' = slots
      BY <2>1
    <2>2. CASE slots' = Updated(Coded(c), coded + 1, CodedFrame(c).showable)
      BY <2>2, DecoderSteps DEF Refreshed
    <2> QED
      BY <2>1, <2>2
  <1>7. \A s \in Slots :
           /\ sent[s].frame.picture <= coded /\ sent[s].frame.hint = Hint(sent[s].frame.picture)
           /\ slots[s].frame.picture <= coded /\ slots[s].frame.hint = Hint(slots[s].frame.picture)
           /\ \A t \in Slots : slots[s].frame.picture = sent[t].frame.picture
                                   => slots[s].frame.type = sent[t].frame.type
    BY DEF PicturesKnown
  <1>8. \A s \in Slots :
           /\ sent'[s].frame.picture <= coded' /\ sent'[s].frame.hint = Hint(sent'[s].frame.picture)
           /\ slots'[s].frame.picture <= coded' /\ slots'[s].frame.hint = Hint(slots'[s].frame.picture)
    BY <1>1, <1>3, <1>5, <1>6, <1>7
  <1>9. ASSUME NEW s \in Slots, NEW t \in Slots, slots'[s].frame.picture = sent'[t].frame.picture
        PROVE  slots'[s].frame.type = sent'[t].frame.type
    BY <1>1, <1>3, <1>5, <1>6, <1>7, <1>9
  <1>10. \A p : Hint(p)' = Hint(p)
    BY DEF Hint
  <1> QED
    BY <1>8, <1>9 DEF PicturesKnown, Hint

LEMMA HandleKeeps ==
  ASSUME Av1Inv, NEW c \in Av1Frames, HandleFrame(c)
  PROVE  Av1Inv'
  <1> DEFINE f == Coded(c)
             R == f.refresh
  <1>1. /\ Encodable(c) /\ SendersStep(c) /\ slots' = Updated(f, coded + 1, CodedFrame(c).showable)
        /\ meant' = Chosen(CodedFrame(c)) /\ got' = Parsed(f)
        /\ inStep' = (inStep \/ (R = Slots /\ Independent(f)))
        /\ vouched' = (vouched \/ f.hints # <<>> \/ (f.type = "key" /\ f.shown))
    BY DEF HandleFrame
  <1>2. Av1TypeOK /\ PicturesKnown /\ SlotsAgree /\ HintsVouch /\ coded < MaxAv1Frames
    BY <1>1 DEF Av1Inv, Encodable
  <1>3. /\ sent' \in Av1Held /\ Refreshed(sent, sent', R, CodedFrame(c))
        /\ \A s \in Slots \ R : sent'[s].valid => Nameable(s)
        /\ coded' = coded + 1
    BY <1>1, <1>2, SenderSteps
  <1>4. PICK entry \in SlotFrame :
            /\ entry = [picture |-> coded + 1, id |-> Id(coded + 1), hint |-> Hint(coded + 1), type |-> c.type,
                        showable |-> CodedFrame(c).showable, size |-> Parsed(f).size, deltas |-> Parsed(f).deltas,
                        features |-> Parsed(f).features, grain |-> Parsed(f).grain]
            /\ slots' \in Av1Held /\ Refreshed(slots, slots', R, entry)
            /\ \A s \in Slots \ R : slots'[s].valid = RefValid(f)[s]
    BY <1>1, <1>2, DecoderSteps
  <1>5. R \in SUBSET Slots /\ (f.type = "key" /\ f.shown => R = Slots)
    <2>1. f.type = c.type /\ f.shown = c.shown /\ R = IF RefreshesAll(c) THEN Slots ELSE c.refresh
      BY DEF Coded
    <2>2. R \in SUBSET Slots
      BY <1>2, FramesTyped
    <2> HIDE DEF f, R
    <2> QED
      BY <2>1, <2>2 DEF RefreshesAll
  <1>6. f.hints # <<>> => f.hints = SentHints
    BY DEF Coded
  <1>7. f.id = Id(coded + 1)
    BY DEF Coded
  <1>8. c.last \in Slots
    BY FirstReference
  <1>9. PicturesKnown'
    BY <1>1, <1>2, PicturesStayKnown
  <1>10. Av1TypeOK'
    <2>1. coded' \in 0 .. MaxAv1Frames
      BY <1>2, <1>3, Av1Assumption DEF Av1TypeOK
    <2>2. inStep' \in BOOLEAN /\ vouched' \in BOOLEAN
      BY <1>1, <1>2, Zenon DEF Av1TypeOK
    <2> QED
      BY <1>3, <1>4, <2>1, <2>2 DEF Av1TypeOK
  <1>11. \A s \in Slots \ R : RefValid(f)[s] <=>
            /\ slots[s].valid /\ ~(f.type = "key" /\ f.shown)
            /\ Derived!IdKept(IdBits, DeltaIdBits, f.id, slots[s].frame.id)
            /\ (f.hints = <<>> \/ f.hints[s] = slots[s].frame.hint)
    BY <1>5 DEF RefValid
  <1>12. SlotsAgree'
    <2> SUFFICES ASSUME inStep'
                 PROVE  /\ \A s \in Slots : slots'[s].frame = sent'[s].frame
                        /\ \A s \in Slots : Nameable(s)' => slots'[s].valid
                        /\ got' = meant'
      BY DEF SlotsAgree
    <2>1. inStep \/ (R = Slots /\ Independent(f))
      BY <1>1
    <2>2. Parsed(f) = Chosen(CodedFrame(c))
      BY <1>2, <1>8, <2>1, ReadAsChosen DEF SlotsAgree
    <2>3. entry = CodedFrame(c)
      BY <1>4, <2>2 DEF Chosen, CodedFrame
    <2>4. \A s \in Slots \ R : inStep
      BY <2>1
    <2>5. ASSUME NEW s \in Slots
          PROVE  slots'[s].frame = sent'[s].frame
      BY <1>2, <1>3, <1>4, <2>3, <2>4 DEF Refreshed, SlotsAgree
    <2>6. ASSUME NEW s \in Slots, Nameable(s)'
          PROVE  slots'[s].valid
      <3>1. CASE s \in R
        BY <1>4, <3>1 DEF Refreshed
      <3>2. CASE s \notin R
        <4>1. Nameable(s) /\ inStep
          BY <1>3, <2>4, <2>6, <3>2 DEF Nameable
        <4>2. slots[s].valid /\ slots[s].frame = sent[s].frame
          BY <1>2, <4>1 DEF SlotsAgree
        <4>3. Derived!IdKept(IdBits, DeltaIdBits, f.id, slots[s].frame.id)
          BY <1>7, <4>1, <4>2 DEF Nameable
        <4>4. f.hints = <<>> \/ f.hints[s] = slots[s].frame.hint
          BY <1>6, <4>2 DEF SentHints
        <4> QED
          BY <1>4, <1>5, <1>11, <3>2, <4>2, <4>3, <4>4
      <3> QED
        BY <3>1, <3>2
    <2> QED
      BY <1>1, <2>2, <2>5, <2>6
  <1>13. HintsVouch'
    <2> SUFFICES ASSUME vouched', NEW s \in Slots, slots'[s].valid
                 PROVE  slots'[s].frame.picture = sent'[s].frame.picture
      BY DEF HintsVouch
    <2>1. CASE s \in R
      BY <1>3, <1>4, <2>1 DEF Refreshed, CodedFrame
    <2>2. CASE s \notin R
      <3>1. /\ slots'[s].frame = slots[s].frame /\ sent'[s].frame = sent[s].frame
            /\ slots[s].valid /\ (f.hints = <<>> \/ f.hints[s] = slots[s].frame.hint)
        BY <1>3, <1>4, <1>11, <2>2 DEF Refreshed
      <3>2. vouched \/ f.hints # <<>>
        BY <1>1, <1>5, <2>2
      <3>3. CASE vouched
        BY <1>2, <3>1, <3>3 DEF HintsVouch
      <3>4. CASE f.hints # <<>>
        <4>1. sent[s].frame.hint = slots[s].frame.hint
          BY <1>6, <3>1, <3>4 DEF SentHints
        <4>2. /\ sent[s].frame.picture \in 0 .. MaxAv1Frames /\ sent[s].frame.hint = Hint(sent[s].frame.picture)
              /\ slots[s].frame.picture \in 0 .. MaxAv1Frames /\ slots[s].frame.hint = Hint(slots[s].frame.picture)
          <5>1. sent[s].frame.picture \in Nat /\ slots[s].frame.picture \in Nat /\ coded \in 0 .. MaxAv1Frames
            BY <1>2 DEF Av1TypeOK, Av1Held, SlotFrame
          <5>2. MaxAv1Frames \in Nat
            BY Av1Assumption
          <5> QED
            BY <1>2, <5>1, <5>2 DEF PicturesKnown
        <4> QED
          BY <3>1, <4>1, <4>2, HintsDiffer
      <3> QED
        BY <3>2, <3>3, <3>4
    <2> QED
      BY <2>1, <2>2
  <1> QED
    BY <1>9, <1>10, <1>12, <1>13 DEF Av1Inv

\* A frame that is lost, or refused.
LEMMA LoseKeeps ==
  ASSUME Av1Inv, NEW c \in Av1Frames, RefuseFrame(c) \/ LoseFrame(c)
  PROVE  Av1Inv'
  <1>1. /\ Encodable(c) /\ SendersStep(c) /\ slots' = slots /\ inStep' = FALSE /\ vouched' = FALSE
    BY DEF RefuseFrame, LoseFrame
  <1>2. Av1TypeOK /\ PicturesKnown /\ coded < MaxAv1Frames
    BY <1>1 DEF Av1Inv, Encodable
  <1>3. sent' \in Av1Held /\ coded' = coded + 1
    BY <1>1, <1>2, SenderSteps
  <1>4. PicturesKnown'
    BY <1>1, <1>2, PicturesStayKnown
  <1>5. Av1TypeOK'
    <2>1. coded' \in 0 .. MaxAv1Frames
      BY <1>2, <1>3, Av1Assumption DEF Av1TypeOK
    <2> QED
      BY <1>1, <1>2, <1>3, <2>1 DEF Av1TypeOK
  <1> QED
    BY <1>1, <1>4, <1>5 DEF Av1Inv, SlotsAgree, HintsVouch

\* A slot is shown again, by both or by the encoder alone.
LEMMA ShowKeeps ==
  ASSUME Av1Inv, NEW s \in Slots, ShowExisting(s) \/ RefuseShown(s)
  PROVE  Av1Inv'
  <1>1. Av1TypeOK /\ PicturesKnown /\ SlotsAgree /\ HintsVouch
    BY DEF Av1Inv
  <1>2. ASSUME NEW held \in Av1Held
        PROVE  /\ ShownAgain(held, s) \in Av1Held
               /\ \A t \in Slots : ShownAgain(held, s)[t].frame = IF held[s].frame.type = "key" THEN held[s].frame ELSE held[t].frame
               /\ \A t \in Slots : ShownAgain(held, s)[t].valid <=> held[s].frame.type = "key" \/ held[t].valid
    BY <1>2 DEF ShownAgain, Av1Held
  <1>3. sent' = ShownAgain(sent, s) /\ sent \in Av1Held /\ slots \in Av1Held /\ coded' = coded
    BY <1>1 DEF ShowExisting, RefuseShown, Av1TypeOK
  <1>4. slots' = ShownAgain(slots, s) \/ slots' = slots
    BY DEF ShowExisting, RefuseShown
  <1>5. sent' \in Av1Held /\ slots' \in Av1Held
    BY <1>2, <1>3, <1>4
  <1>6. \A t \in Slots : \E u \in Slots : sent'[t].frame = sent[u].frame
    BY <1>2, <1>3
  <1>7. \A t \in Slots : \E u \in Slots : slots'[t].frame = slots[u].frame
    BY <1>2, <1>3, <1>4
  <1>8. PicturesKnown'
    <2>1. \A u \in Slots :
             /\ sent[u].frame.picture <= coded /\ sent[u].frame.hint = Hint(sent[u].frame.picture)
             /\ slots[u].frame.picture <= coded /\ slots[u].frame.hint = Hint(slots[u].frame.picture)
             /\ \A t \in Slots : slots[u].frame.picture = sent[t].frame.picture
                                     => slots[u].frame.type = sent[t].frame.type
      BY <1>1 DEF PicturesKnown
    <2>2. ASSUME NEW t \in Slots
          PROVE  /\ sent'[t].frame.picture <= coded' /\ sent'[t].frame.hint = Hint(sent'[t].frame.picture)
                 /\ slots'[t].frame.picture <= coded' /\ slots'[t].frame.hint = Hint(slots'[t].frame.picture)
                 /\ \A u \in Slots : slots'[t].frame.picture = sent'[u].frame.picture
                                         => slots'[t].frame.type = sent'[u].frame.type
      <3>1. PICK u \in Slots : sent'[t].frame = sent[u].frame
        BY <1>6
      <3>2. PICK v \in Slots : slots'[t].frame = slots[v].frame
        BY <1>7
      <3>3. \A w \in Slots : slots'[t].frame.picture = sent'[w].frame.picture
                                => slots'[t].frame.type = sent'[w].frame.type
        BY <1>6, <2>1, <3>2
      <3> QED
        BY <1>3, <2>1, <3>1, <3>2, <3>3
    <2> QED
      BY <2>2 DEF PicturesKnown, Hint
  <1>9. Av1TypeOK'
    BY <1>1, <1>3, <1>5 DEF Av1TypeOK, ShowExisting, RefuseShown
  <1>10. CASE RefuseShown(s)
    BY <1>8, <1>9, <1>10 DEF RefuseShown, Av1Inv, SlotsAgree, HintsVouch
  <1>11. CASE ShowExisting(s)
    <2>1. /\ slots' = ShownAgain(slots, s) /\ slots[s].valid
          /\ meant' = Chosen(sent[s].frame) /\ got' = Chosen(slots[s].frame)
          /\ UNCHANGED <<coded, inStep, vouched>>
      BY <1>11 DEF ShowExisting
    <2>2. SlotsAgree'
      <3> SUFFICES ASSUME inStep
                   PROVE  /\ \A t \in Slots : slots'[t].frame = sent'[t].frame
                          /\ \A t \in Slots : Nameable(t)' => slots'[t].valid
                          /\ got' = meant'
        BY <2>1 DEF SlotsAgree
      <3>1. /\ \A t \in Slots : slots[t].frame = sent[t].frame
            /\ \A t \in Slots : Nameable(t) => slots[t].valid
        BY <1>1 DEF SlotsAgree
      <3>2. \A t \in Slots : slots'[t].frame = sent'[t].frame
        BY <1>2, <1>3, <2>1, <3>1
      <3>3. ASSUME NEW t \in Slots, Nameable(t)'
            PROVE  slots'[t].valid
        <4>1. CASE slots[s].frame.type = "key"
          BY <1>2, <1>3, <2>1, <4>1
        <4>2. CASE slots[s].frame.type # "key"
          <5>1. sent'[t].frame = sent[t].frame /\ sent'[t].valid = sent[t].valid
            BY <1>2, <1>3, <3>1, <4>2 DEF ShownAgain
          <5>2. Nameable(t)
            BY <1>3, <3>3, <5>1 DEF Nameable, Id
          <5> QED
            BY <1>2, <1>3, <2>1, <3>1, <5>2
        <4> QED
          BY <4>1, <4>2
      <3> QED
        BY <2>1, <3>1, <3>2, <3>3
    <2>3. HintsVouch'
      <3> SUFFICES ASSUME vouched, NEW t \in Slots, slots'[t].valid
                   PROVE  slots'[t].frame.picture = sent'[t].frame.picture
        BY <2>1 DEF HintsVouch
      <3>1. slots[s].frame.picture = sent[s].frame.picture
        BY <1>1, <2>1 DEF HintsVouch
      <3>2. slots[s].frame.type = sent[s].frame.type
        BY <1>1, <3>1 DEF PicturesKnown
      <3>3. CASE slots[s].frame.type = "key"
        BY <1>2, <1>3, <2>1, <3>1, <3>2, <3>3
      <3>4. CASE slots[s].frame.type # "key"
        BY <1>1, <1>2, <1>3, <2>1, <3>2, <3>4 DEF HintsVouch
      <3> QED
        BY <3>3, <3>4
    <2> QED
      BY <1>8, <1>9, <2>2, <2>3 DEF Av1Inv
  <1> QED
    BY <1>10, <1>11

LEMMA Av1InitInv == Av1Init => Av1Inv
  <1> SUFFICES ASSUME Av1Init
               PROVE  Av1Inv
    OBVIOUS
  <1>1. Empty \in [valid : BOOLEAN, frame : SlotFrame] /\ Empty.frame = NoFrame /\ Empty.valid = FALSE
    BY DEF Empty, NoFrame, SlotFrame, Av1Types
  <1>2. MaxAv1Frames \in Nat /\ 0 \in 0 .. MaxAv1Frames
    BY Av1Assumption
  <1>3. sent \in Av1Held /\ slots = sent /\ \A s \in Slots : sent[s] = Empty
    BY <1>1 DEF Av1Init, Av1Held
  <1>4. Hint(0) = 0
    BY <1>2, HintsDiffer
  <1>5. NoFrame.picture = 0 /\ NoFrame.hint = 0
    BY DEF NoFrame
  <1>6. Av1TypeOK
    BY <1>2, <1>3 DEF Av1Init, Av1TypeOK
  <1>7. PicturesKnown
    BY <1>1, <1>3, <1>4, <1>5 DEF Av1Init, PicturesKnown
  <1>8. SlotsAgree /\ HintsVouch
    BY DEF Av1Init, SlotsAgree, HintsVouch
  <1> QED
    BY <1>6, <1>7, <1>8 DEF Av1Inv

LEMMA Av1NextInv == Av1Inv /\ [Av1Next]_av1Vars => Av1Inv'
  <1> SUFFICES ASSUME Av1Inv, [Av1Next]_av1Vars
               PROVE  Av1Inv'
    OBVIOUS
  <1>1. CASE UNCHANGED av1Vars
    BY <1>1 DEF av1Vars, Av1Inv, Av1TypeOK, PicturesKnown, SlotsAgree, HintsVouch, Nameable, Hint, Id
  <1> QED
    BY <1>1, HandleKeeps, LoseKeeps, ShowKeeps DEF Av1Next

\* The invariant of the reference slots behind the channel.
THEOREM Av1Invariance == Av1Spec => []Av1Inv
  <1> QED
    BY Av1InitInv, Av1NextInv, PTL DEF Av1Spec

\* While nothing was lost since a frame that refreshed every slot and took nothing from
\* them, the decoder holds what the encoder holds and reads what it meant.
THEOREM StaysInStepAlways == Av1Spec => []StaysInStep
  <1>1. Av1Inv => StaysInStep
    BY DEF Av1Inv, SlotsAgree, StaysInStep
  <1> QED
    BY <1>1, Av1Invariance, PTL

\* Coded order hints tell which slots survived: every slot RefValid leaves valid holds
\* the picture the encoder means by it.
THEOREM HintsVouchAlways == Av1Spec => []HintsVouch
  <1>1. Av1Inv => HintsVouch
    BY DEF Av1Inv
  <1> QED
    BY <1>1, Av1Invariance, PTL

\* The parameters of a frame that takes nothing from the slots are those the encoder
\* meant, whatever was lost before it.
THEOREM IndependentFramesAlways == Av1Spec => IndependentFramesAsMeant
  <1>1. Av1Inv /\ [Av1Next]_av1Vars =>
          [coded' # coded =>
             \A c \in Av1Frames : HandleFrame(c) /\ Independent(Coded(c)) => got' = meant']_av1Vars
    <2> SUFFICES ASSUME Av1Inv, NEW c \in Av1Frames, HandleFrame(c), Independent(Coded(c))
                 PROVE  got' = meant'
      OBVIOUS
    <2>1. Parsed(Coded(c)) = Chosen(CodedFrame(c))
      BY ReadAsChosen DEF Av1Inv
    <2> QED
      BY <2>1 DEF HandleFrame
  <1> QED
    BY <1>1, Av1Invariance, PTL DEF Av1Spec, IndependentFramesAsMeant

-----------------------------------------------------------------------------
(* The composition *)

\* The steps of the composition, by the codec of the stream.
LEMMA StepsByCodec ==
  ASSUME [FrontEndsNext]_frontEndVars
  PROVE  \/ UNCHANGED frontEndVars
         \/ H264StreamNext /\ UNCHANGED <<hevcStreamVars, av1Vars, vp9Vars, pocSyncVars>>
         \/ HevcStreamNext /\ UNCHANGED <<h264StreamVars, av1Vars, vp9Vars, pocSyncVars>>
         \/ Av1Next /\ UNCHANGED <<h264StreamVars, hevcStreamVars, vp9Vars, pocSyncVars>>
         \/ Vp9Next /\ UNCHANGED <<h264StreamVars, hevcStreamVars, av1Vars, pocSyncVars>>
         \/ PocSyncNext /\ UNCHANGED <<h264StreamVars, hevcStreamVars, av1Vars, vp9Vars>>
  BY DEF FrontEndsNext, H264Step, HevcStep, Av1Step, Vp9Step, CountsStep, Opened,
         H264StreamNext, HevcStreamNext, Av1Next, Vp9Next

\* A step of the composition is one of each front end, or leaves it alone.
LEMMA StepsOfEach ==
  ASSUME [FrontEndsNext]_frontEndVars
  PROVE  /\ [H264StreamNext]_h264StreamVars
         /\ [HevcStreamNext]_hevcStreamVars
         /\ [Av1Next]_av1Vars
         /\ [Vp9Next]_vp9Vars
         /\ [PocSyncNext]_pocSyncVars
  <1>1. CASE UNCHANGED frontEndVars
    BY <1>1 DEF frontEndVars
  <1> QED
    BY <1>1, StepsByCodec

\* The composition behaves as each of its parts.
THEOREM FrontEndsImplementParts ==
  FrontEndsSpec => H264StreamSpec /\ HevcStreamSpec /\ Av1Spec /\ Vp9Spec /\ PocSyncSpec
  <1>1. FrontEndsInit => H264StreamInit /\ HevcStreamInit /\ Av1Init /\ Vp9Init /\ PocSyncInit
    BY DEF FrontEndsInit
  <1>2. [FrontEndsNext]_frontEndVars =>
          /\ [H264StreamNext]_h264StreamVars /\ [HevcStreamNext]_hevcStreamVars /\ [Av1Next]_av1Vars
          /\ [Vp9Next]_vp9Vars /\ [PocSyncNext]_pocSyncVars
    BY StepsOfEach
  <1> QED
    BY <1>1, <1>2, PTL DEF FrontEndsSpec, H264StreamSpec, HevcStreamSpec, Av1Spec, Vp9Spec, PocSyncSpec

-----------------------------------------------------------------------------
(* What the run of the composition checks *)

\* What a parser makes of a slice or a segment it makes with the sets the encoder
\* wrote it with: find_pps and find_sps of both parsers, sets replaced, lost or early.
THEOREM ParsedWithTheirSetsAlways == FrontEndsSpec => []ParsedWithTheirSets
  <1>1. ParsedWithItsSets /\ SegmentsWithTheirSets => ParsedWithTheirSets
    BY DEF ParsedWithTheirSets
  <1> QED
    BY <1>1, FrontEndsImplementParts, ParsedWithItsSetsAlways, SegmentsWithTheirSetsAlways, PTL

\* AV1 and VP9 keep what lost and refused frames did not touch, and read what was meant.
THEOREM SlotsInStepAlways == FrontEndsSpec => []SlotsInStep
  <1>1. StaysInStep /\ Vp9StaysInStep => SlotsInStep
    BY DEF SlotsInStep
  <1> QED
    BY <1>1, FrontEndsImplementParts, StaysInStepAlways, Vp9StaysInStepAlways, PTL

\* Pictures of H.264 begin once and with their first slice that parses, segments of
\* HEVC are completed from the picture whose first one was parsed, PocState rebuilds
\* the counts, coded order hints of AV1 name the slots that survived: in the
\* composition as by themselves.
THEOREM FrontEndsAlways ==
  FrontEndsSpec => [](NoPictureBeginsTwice /\ EveryPictureBegins /\ CompletedBehindFirst /\ CountsAgree /\ HintsVouch)
  <1> QED
    BY FrontEndsImplementParts, NoPictureBeginsTwiceAlways, EveryPictureBeginsAlways, CompletedBehindFirstAlways,
       CountsAgreeAlways, HintsVouchAlways, PTL

\* Frames of AV1 that take nothing from the slots are read as they were meant.
THEOREM IndependentFramesInFrontEnds == FrontEndsSpec => IndependentFramesAsMeant
  <1> QED
    BY FrontEndsImplementParts, IndependentFramesAlways, PTL

=============================================================================
