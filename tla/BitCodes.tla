------------------------------- MODULE BitCodes -------------------------------
(***************************************************************************)
(* BitReader (src/bit_reader.rs) and BitWriter (src/bit_writer.rs): the     *)
(* codes of the descriptors.  A reader is the bits and a position in them,  *)
(* which may lie behind their end, where every bit is zero.  Words have     *)
(* WordBits bits and bytes ByteBits; in the code 32 (64 in le and write_le) *)
(* and 8.                                                                   *)
(***************************************************************************)
LOCAL INSTANCE Integers
LOCAL INSTANCE Sequences
LOCAL INSTANCE SequencesExt

CONSTANTS WordBits, ByteBits

MaxWord == 2^WordBits - 1

\* What a call returns: the value, and where it leaves the reader.
Got(value, pos) == [ok |-> TRUE, value |-> value, pos |-> pos]
Failed(r) == [ok |-> FALSE, value |-> 0, pos |-> r.pos]

\* What a writer appends when it returns an error; bits are 0 and 1.
Refused == <<-1>>

Number(bits) == FoldLeft(LAMBDA v, b : 2 * v + b, 0, bits)

\* The low n bits of v, most significant first; v may be negative.
Low(v, n) == [i \in 1 .. n |-> (v \div 2^(n - i)) % 2]

Zeros(n) == [i \in 1 .. n |-> 0]

\* The significant bits of v > 0.
Significant(v) == CHOOSE n \in 1 .. WordBits : 2^(n - 1) <= v /\ v < 2^n

Padding(pos) == (ByteBits - (pos % ByteBits)) % ByteBits

-----------------------------------------------------------------------------
(* BitReader *)

AtEnd(r) == r.pos >= Len(r.bits)

Peek(r, n) == Number([i \in 1 .. n |-> IF r.pos + i <= Len(r.bits) THEN r.bits[r.pos + i] ELSE 0])

Fixed(r, n) == Got(Peek(r, n), r.pos + n)

At(r, pos) == [r EXCEPT !.pos = pos]

\* The zeros in front of the next one, or of the end.
LeadingZeros(r) ==
    LET ones == {i \in r.pos + 1 .. Len(r.bits) : r.bits[i] = 1}
    IN  IF ones = {} THEN IF AtEnd(r) THEN 0 ELSE Len(r.bits) - r.pos
        ELSE (CHOOSE i \in ones : \A j \in ones : i <= j) - r.pos - 1

\* The position behind the run of zeros and the one that ends it, if there is one.
BehindRun(r) ==
    LET pos == r.pos + LeadingZeros(r) IN IF pos < Len(r.bits) THEN pos + 1 ELSE pos

UeRead(r) ==
    LET z == LeadingZeros(r)
        suffix == Fixed(At(r, BehindRun(r)), z)
    IN  IF z >= WordBits THEN Failed(r) ELSE Got(2^z - 1 + suffix.value, suffix.pos)

SeRead(r) ==
    LET code == UeRead(r)
    IN  IF ~code.ok THEN code
        ELSE Got(IF code.value % 2 = 1 THEN (code.value + 1) \div 2 ELSE -(code.value \div 2), code.pos)

\* i(n) and su(n): two's complement.
SignedRead(r, n) ==
    IF n \notin 1 .. WordBits THEN Failed(r)
    ELSE LET raw == Peek(r, n)
         IN  Got(IF raw >= 2^(n - 1) THEN raw - 2^n ELSE raw, r.pos + n)

MagnitudeRead(r, n) ==
    IF n \notin 1 .. WordBits - 1 THEN Failed(r)
    ELSE LET sign == Peek(At(r, r.pos + n), 1)
         IN  Got(IF sign = 1 THEN -Peek(r, n) ELSE Peek(r, n), r.pos + n + 1)

TeRead(r, xMax) ==
    CASE xMax = 0 -> Failed(r)
      [] xMax = 1 -> Got(1 - Peek(r, 1), r.pos + 1)
      [] OTHER -> UeRead(r)

\* ns(n): short codes of w - 1 bits for the first values, one bit more for the rest.
NsWidth(n) == Significant(n)

NsRead(r, n) ==
    IF n \notin 1 .. 2^(WordBits - 2) THEN Failed(r)
    ELSE IF n = 1 THEN Got(0, r.pos)
    ELSE LET w == NsWidth(n)
             m == 2^w - n
             v == Fixed(r, w - 1)
             extra == Peek(At(r, v.pos), 1)
         IN  IF v.value < m THEN v ELSE Got(2 * v.value - m + extra, v.pos + 1)

UvlcRead(r) ==
    LET z == LeadingZeros(r)
        value == Fixed(At(r, BehindRun(r)), z)
    IN  IF z >= WordBits THEN Got(MaxWord, BehindRun(r)) ELSE Got(value.value + 2^z - 1, value.pos)

LeRead(r, n) ==
    IF n > WordBits \div ByteBits THEN Failed(r)
    ELSE Got(FoldLeft(LAMBDA t, i : t + Peek(At(r, r.pos + (i - 1) * ByteBits), ByteBits) * 2^((i - 1) * ByteBits),
                      0, [i \in 1 .. n |-> i]),
             r.pos + n * ByteBits)

\* Is there another one behind the next one?
MoreRbspData(r) ==
    \E i, j \in r.pos + 1 .. Len(r.bits) : i < j /\ r.bits[i] = 1 /\ r.bits[j] = 1

TrailingRead(r) ==
    LET n == Padding(r.pos + 1)
    IN  IF r.pos + 1 + n > Len(r.bits) \/ Peek(r, n + 1) # 2^n THEN Failed(r)
        ELSE Got(0, r.pos + 1 + n)

\* Bytes are taken whole: of an aligned reader, and only as many as there are.
BytesRead(r, n) ==
    LET end == r.pos + n * ByteBits
    IN  IF r.pos % ByteBits # 0 \/ end > Len(r.bits) THEN Failed(r)
        ELSE Got(Number(SubSeq(r.bits, r.pos + 1, end)), end)

-----------------------------------------------------------------------------
(* BitWriter: the bits a call appends at a position *)

ExpGolomb(v) == LET n == Significant(v + 1) IN Zeros(n - 1) \o Low(v + 1, n)

UeWrite(v) == IF v = MaxWord THEN Refused ELSE ExpGolomb(v)

SeWrite(v) ==
    LET code == IF v > 0 THEN 2 * v - 1 ELSE -2 * v
    IN  IF code > MaxWord THEN Refused ELSE UeWrite(code)

SignedWrite(v, n) ==
    IF n \notin 1 .. WordBits \/ v \notin -(2^(n - 1)) .. 2^(n - 1) - 1 THEN Refused ELSE Low(v, n)

MagnitudeWrite(v, n) ==
    LET magnitude == IF v < 0 THEN -v ELSE v
    IN  IF n \notin 1 .. WordBits - 1 \/ magnitude >= 2^n THEN Refused
        ELSE Low(magnitude, n) \o <<IF v < 0 THEN 1 ELSE 0>>

TeWrite(v, xMax) ==
    CASE xMax = 0 \/ v > xMax -> Refused
      [] xMax = 1 -> <<1 - v>>
      [] OTHER -> UeWrite(v)

\* Mutant of NsWrite: the long codes begin one value late.
NsWriteLate(v, n) ==
    IF n \notin 1 .. 2^(WordBits - 2) \/ v >= n THEN Refused
    ELSE IF n = 1 THEN <<>>
    ELSE LET w == NsWidth(n)
             m == 2^w - n
         IN  IF v <= m THEN Low(v, w - 1) ELSE Low(v + m, w)

NsWrite(v, n) ==
    IF n \notin 1 .. 2^(WordBits - 2) \/ v >= n THEN Refused
    ELSE IF n = 1 THEN <<>>
    ELSE LET w == NsWidth(n)
             m == 2^w - n
         IN  IF v < m THEN Low(v, w - 1) ELSE Low(v + m, w)

UvlcWrite(v) == IF v = MaxWord THEN Zeros(WordBits) \o <<1>> ELSE ExpGolomb(v)

LeWrite(v, n) ==
    IF n > WordBits \div ByteBits \/ v >= 2^(n * ByteBits) THEN Refused
    ELSE FlattenSeq([i \in 1 .. n |-> Low(v \div 2^((i - 1) * ByteBits), ByteBits)])

BytesWrite(pos, v, n) ==
    IF pos % ByteBits # 0 THEN Refused ELSE Low(v, n * ByteBits)

TrailingWrite(pos) == <<1>> \o Zeros(Padding(pos + 1))

=============================================================================
