------------------------------- MODULE Framing -------------------------------
(***************************************************************************)
(* Bytes between the streams and the parsers: NAL units with emulation      *)
(* prevention and their two framings (src/nal.rs, split_annex_b of each     *)
(* codec), messages of SEI (h264/sei.rs, hevc/sei.rs, h266/sei.rs), OBUs and*)
(* the extent of a key frame (src/av1.rs), frames of IVF (src/ivf.rs), the  *)
(* units of MPEG-2 and VC-1 (src/mpeg2.rs, src/vc1.rs) and the superframes  *)
(* of VP9 (src/vp9/frame.rs).  A byte has ByteBits bits, 8 in the code;     *)
(* everything below scales with it.                                        *)
(***************************************************************************)
EXTENDS Integers, Sequences, SequencesExt, FiniteSets, TLC

CONSTANTS
    ByteBits,
    LebBytes    \* the longest leb128 code, 8 in the code

Base == 2^ByteBits
Half == 2^(ByteBits - 1)
TopByte == Base - 1

\* rbsp_trailing_bits() of an aligned writer: 0x80.
StopByte == Half

Failure == [ok |-> FALSE, value |-> 0, rest |-> <<>>]
Took(value, rest) == [ok |-> TRUE, value |-> value, rest |-> rest]
From(bytes, n) == SubSeq(bytes, n, Len(bytes))

-----------------------------------------------------------------------------
(* emulation prevention *)

Emulation == 3

\* The escapes of an EBSP: no byte of 00 00 03 belongs to another such triple, so
\* the loop meets every one of them.
Escape(ebsp, i) == i > 2 /\ ebsp[i] = Emulation /\ ebsp[i - 1] = 0 /\ ebsp[i - 2] = 0

EbspToRbsp(ebsp) ==
    LET out[n \in 0 .. Len(ebsp)] ==
          IF n = 0 THEN <<>>
          ELSE IF Escape(ebsp, n) THEN out[n - 1] ELSE Append(out[n - 1], ebsp[n])
    IN  out[Len(ebsp)]

\* Mutant of EscapeByte: the escaped zero does not begin the next run.
EscapeByteForgets(s, byte) ==
    LET escaped == s.zeros >= 2 /\ byte <= Emulation
    IN  [out   |-> s.out \o (IF escaped THEN <<Emulation>> ELSE <<>>) \o <<byte>>,
         zeros |-> IF byte # 0 \/ escaped THEN 0 ELSE s.zeros + 1]

EscapeByte(s, byte) ==
    LET escaped == s.zeros >= 2 /\ byte <= Emulation
    IN  [out   |-> s.out \o (IF escaped THEN <<Emulation>> ELSE <<>>) \o <<byte>>,
         zeros |-> IF byte # 0 THEN 0 ELSE IF escaped THEN 1 ELSE s.zeros + 1]

\* What the loop has put out and the zeros at its end.
Escaped(rbsp) ==
    LET s[n \in 0 .. Len(rbsp)] ==
          IF n = 0 THEN [out |-> <<>>, zeros |-> 0] ELSE EscapeByte(s[n - 1], rbsp[n])
    IN  s[Len(rbsp)]

\* Two zeros at the end are escaped as well, or they would join the next start code.
RbspToEbsp(rbsp) ==
    LET s == Escaped(rbsp)
    IN  s.out \o (IF s.zeros >= 2 THEN <<Emulation>> ELSE <<>>)

\* The escapes both zeros of which are among the first n bytes of the RBSP.
EscapesBefore(ebsp, n) ==
    Cardinality({i \in DOMAIN ebsp :
        Escape(ebsp, i) /\ Cardinality({j \in 1 .. i - 1 : ~Escape(ebsp, j)}) <= n})

RbspOffsetToEbsp(ebsp, n) == n + EscapesBefore(ebsp, n)

\* No start code can be seen across these bytes, and they do not end in zeros
\* enough for one.
NoStartCode(bytes) ==
    \A i \in 1 .. Len(bytes) - 2 : ~(bytes[i] = 0 /\ bytes[i + 1] = 0 /\ bytes[i + 2] < Emulation)

EndsApart(bytes) ==
    Len(bytes) > 1 => ~(bytes[Len(bytes)] = 0 /\ bytes[Len(bytes) - 1] = 0)

\* An EBSP as the standards define it (7.4.1.1): an escape stands only where it is
\* needed.
LegalEbsp(bytes) ==
    /\ NoStartCode(bytes) /\ EndsApart(bytes)
    /\ \A i \in 1 .. Len(bytes) - 1 : Escape(bytes, i) => bytes[i + 1] <= Emulation

-----------------------------------------------------------------------------
(* Annex B and length prefixes *)

\* A start code has three bytes, or four when another zero stands in front.
StartCodes(buf) ==
    SelectSeq([i \in 1 .. Len(buf) |-> i],
              LAMBDA i : i + 2 <= Len(buf) /\ buf[i] = 0 /\ buf[i + 1] = 0 /\ buf[i + 2] = 1)
CodeBegin(buf, i) == IF i > 1 /\ buf[i - 1] = 0 THEN i - 1 ELSE i

SplitAnnexB(buf) ==
    LET starts == StartCodes(buf)
    IN  [n \in DOMAIN starts |->
           SubSeq(buf, starts[n] + 3, IF n < Len(starts) THEN CodeBegin(buf, starts[n + 1]) - 1 ELSE Len(buf))]

\* The n digits of a length, most significant first.
Digits(n, len) == [i \in 1 .. n |-> (len \div Base^(n - i)) % Base]
OfDigits(bytes) == FoldLeft(LAMBDA v, b : v * Base + b, 0, bytes)

\* The next NAL unit behind its length.
TakeNal(size, s) ==
    IF ~s.ok \/ s.rest = <<>> THEN s
    ELSE IF size > Len(s.rest) THEN Failure
    ELSE LET len  == OfDigits(SubSeq(s.rest, 1, size))
             body == From(s.rest, size + 1)
         IN  IF len > Len(body) THEN Failure
             ELSE Took(Append(s.value, SubSeq(body, 1, len)), From(body, len + 1))

SplitLengthPrefixed(buf, size) ==
    IF size \notin 1 .. 4 THEN Failure
    ELSE FoldLeft(LAMBDA s, b : TakeNal(size, s), Took(<<>>, buf), buf)

LengthPrefixedToAnnexB(buf, size) ==
    LET nals == SplitLengthPrefixed(buf, size)
    IN  IF ~nals.ok THEN Failure
        ELSE Took(FlattenSeq([n \in DOMAIN nals.value |-> <<0, 0, 0, 1>> \o nals.value[n]]), <<>>)

AnnexBToLengthPrefixed(buf, size) ==
    LET nals == SplitAnnexB(buf)
    IN  IF \/ size \notin 1 .. 4 \/ nals = <<>>
           \/ \E n \in DOMAIN nals : Len(nals[n]) >= Base^size
          THEN Failure
        ELSE Took(FlattenSeq([n \in DOMAIN nals |-> Digits(size, Len(nals[n])) \o nals[n]]), <<>>)

-----------------------------------------------------------------------------
(* messages of SEI *)

\* A number is as many top bytes as it holds, and the rest, which is less.
Number(n) == [i \in 1 .. n \div TopByte |-> TopByte] \o <<n % TopByte>>

WriteSeiRbsp(messages) ==
    IF messages = <<>> THEN <<>>
    ELSE FlattenSeq([i \in DOMAIN messages |->
             Number(messages[i].type) \o Number(Len(messages[i].payload)) \o messages[i].payload])
           \o <<StopByte>>

TakeNumber(bytes) ==
    LET last == {i \in DOMAIN bytes : bytes[i] # TopByte /\ \A j \in 1 .. i - 1 : bytes[j] = TopByte}
    IN  IF last = {} THEN Failure
        ELSE LET i == CHOOSE i \in last : TRUE
             IN  Took((i - 1) * TopByte + bytes[i], From(bytes, i + 1))

\* more_rbsp_data() in whole bytes: nothing but the stop byte, and zeros behind it.
SeiEnds(rest) ==
    LET significant == {i \in DOMAIN rest : \E j \in i .. Len(rest) : rest[j] # 0}
    IN  significant = {} \/ (significant = {1} /\ rest[1] = StopByte)

TakeMessage(s) ==
    LET type == TakeNumber(s.rest)
        size == TakeNumber(type.rest)
    IN  IF ~type.ok \/ ~size.ok \/ size.value > Len(size.rest) THEN Failure @@ [more |-> FALSE]
        ELSE LET rest == From(size.rest, size.value + 1)
             IN  Took(Append(s.value, [type |-> type.value, payload |-> SubSeq(size.rest, 1, size.value)]), rest)
                   @@ [more |-> ~SeiEnds(rest)]

\* A message takes two bytes at least, so there are no more than the bytes.
ParseSeiRbsp(rbsp) ==
    FoldLeft(LAMBDA s, i : IF s.more THEN TakeMessage(s) ELSE s,
             Took(<<>>, rbsp) @@ [more |-> TRUE], [i \in 1 .. Len(rbsp) + 1 |-> i])

-----------------------------------------------------------------------------
(* OBUs; the fields of their two header bytes stand beside each other as one
   element each *)

\* Groups of ByteBits - 1 bits, the least significant first; the top bit of a byte
\* says that another follows.
WriteLeb128(v) ==
    LET n == CHOOSE n \in 1 .. LebBytes + 1 : v < Half^n /\ (n = 1 \/ v >= Half^(n - 1))
    IN  IF n > LebBytes THEN <<>>
        ELSE [i \in 1 .. n |-> ((v \div Half^(i - 1)) % Half) + (IF i < n THEN Half ELSE 0)]

ReadLeb128(bytes) ==
    LET last == {i \in DOMAIN bytes : i <= LebBytes /\ bytes[i] < Half /\ \A j \in 1 .. i - 1 : bytes[j] >= Half}
    IN  IF last = {} THEN Failure
        ELSE LET n == CHOOSE i \in last : TRUE
             IN  Took(FoldLeft(LAMBDA v, i : v + (bytes[i] % Half) * Half^(i - 1), 0, [i \in 1 .. n |-> i]),
                      From(bytes, n + 1))

WriteObu(obu) ==
    IF \/ ~obu.has_size_field \/ obu.obu_type > 15
       \/ obu.extension_flag /\ (obu.temporal_id > 7 \/ obu.spatial_id > 3)
       \/ ~obu.extension_flag /\ (obu.temporal_id # 0 \/ obu.spatial_id # 0)
       \/ Len(obu.payload) >= Half^LebBytes
      THEN <<>>
    ELSE LET bit(flag) == IF flag THEN 1 ELSE 0
         IN  <<0, obu.obu_type, bit(obu.extension_flag), 1, 0>>
               \o (IF obu.extension_flag THEN <<obu.temporal_id, obu.spatial_id, 0>> ELSE <<>>)
               \o WriteLeb128(Len(obu.payload)) \o obu.payload

ReadObu(bytes) ==
    IF Len(bytes) < 5 \/ bytes[1] = 1 THEN Failure
    ELSE LET extension == bytes[3] = 1
             size      == ReadLeb128(From(bytes, IF extension THEN 9 ELSE 6))
         IN  IF \/ extension /\ Len(bytes) < 8
                \/ bytes[4] = 0 \/ ~size.ok \/ size.value > Len(size.rest)
               THEN Failure
             ELSE Took([obu_type |-> bytes[2], extension_flag |-> extension, has_size_field |-> TRUE,
                        temporal_id |-> IF extension THEN bytes[6] ELSE 0,
                        spatial_id |-> IF extension THEN bytes[7] ELSE 0,
                        payload |-> SubSeq(size.rest, 1, size.value)],
                       From(size.rest, size.value + 1))

\* The OBUs up to the end or the first error.
IterObus(bytes) ==
    FoldLeft(LAMBDA s, b :
               IF ~s.ok \/ s.rest = <<>> THEN s
               ELSE LET obu == ReadObu(s.rest)
                    IN  IF obu.ok THEN Took(Append(s.value, obu.value), obu.rest)
                        ELSE [s EXCEPT !.ok = FALSE],
             Took(<<>>, bytes), bytes)

-----------------------------------------------------------------------------
(* frames of IVF; the header in front of them has a fixed layout and is left out *)

LittleEndian(n, v) == Reverse(Digits(n, v))
OfLittleEndian(bytes) == OfDigits(Reverse(bytes))

SizeBytes == 4
TimestampBytes == 8
FrameHeaderLen == SizeBytes + TimestampBytes

WriteFrame(f) ==
    IF Len(f.payload) >= Base^SizeBytes THEN <<>>
    ELSE LittleEndian(SizeBytes, Len(f.payload)) \o LittleEndian(TimestampBytes, f.timestamp) \o f.payload

\* The frame at the head of what is left, which is not empty.
ParseFrame(rest) ==
    IF Len(rest) < FrameHeaderLen THEN Failure
    ELSE LET size == OfLittleEndian(SubSeq(rest, 1, SizeBytes))
             body == From(rest, FrameHeaderLen + 1)
         IN  IF size > Len(body) THEN Failure
             ELSE Took([timestamp |-> OfLittleEndian(SubSeq(rest, SizeBytes + 1, FrameHeaderLen)),
                        payload |-> SubSeq(body, 1, size)],
                       From(body, size + 1))

ParseFrames(bytes) ==
    FoldLeft(LAMBDA s, b :
               IF ~s.ok \/ s.rest = <<>> THEN s
               ELSE LET frame == ParseFrame(s.rest)
                    IN  IF frame.ok THEN Took(Append(s.value, frame.value), frame.rest) ELSE Failure,
             Took(<<>>, bytes), bytes)

-----------------------------------------------------------------------------
(* start codes of MPEG-2 and VC-1: the byte behind 00 00 01 says what follows *)

\* The scan goes on behind that byte, which may itself begin what looks like another
\* start code.
FindStartCodes(buf) ==
    FoldLeft(LAMBDA found, i :
               IF /\ i + 3 <= Len(buf) /\ buf[i] = 0 /\ buf[i + 1] = 0 /\ buf[i + 2] = 1
                  /\ found = <<>> \/ i >= Last(found) + 4
                 THEN Append(found, i) ELSE found,
             <<>>, [i \in 1 .. Len(buf) |-> i])

\* Up to the next start code, the zero of a longer one included.
SplitBdus(stream) ==
    LET starts == FindStartCodes(stream)
    IN  [n \in DOMAIN starts |->
           [type    |-> stream[starts[n] + 3],
            payload |-> SubSeq(stream, starts[n] + 4, IF n < Len(starts) THEN starts[n + 1] - 1 ELSE Len(stream))]]

\* Where the first start code of a slice is; 0: nowhere.
FindFirstSlice(buf, slices) ==
    LET found == SelectSeq(FindStartCodes(buf), LAMBDA i : buf[i + 3] \in slices)
    IN  IF found = <<>> THEN 0 ELSE found[1]

-----------------------------------------------------------------------------
(* superframes of VP9 *)

\* The first and the last byte of an index, 110 in its top bits: the bytes of a size and
\* the frames.  They stand above the other bytes, so that any byte may be one.
Marker(bytes, frames) == Base + 8 * (bytes - 1) + (frames - 1)
IsMarker(byte) == byte >= Base

SplitSuperframe(chunk) ==
    IF chunk = <<>> THEN <<>>
    ELSE LET last   == Last(chunk)
             bytes  == ((last - Base) \div 8) + 1
             frames == ((last - Base) % 8) + 1
             index  == 2 + frames * bytes
             room   == Len(chunk) - index
             size(k) == OfDigits(Reverse(SubSeq(chunk, room + 2 + (k - 1) * bytes, room + 1 + k * bytes)))
             take(s, k) ==
                 IF ~s.more \/ s.at + size(k) > room THEN [s EXCEPT !.more = FALSE]
                 ELSE [s EXCEPT !.at = @ + size(k),
                                !.out = IF size(k) = 0 THEN @ ELSE Append(@, SubSeq(chunk, s.at + 1, s.at + size(k)))]
         IN  IF ~IsMarker(last) THEN <<chunk>>
             ELSE IF room < 0 THEN <<chunk>>
             ELSE IF chunk[room + 1] # last THEN <<chunk>>
             ELSE FoldLeft(take, [more |-> TRUE, at |-> 0, out |-> <<>>], [k \in 1 .. frames |-> k]).out

-----------------------------------------------------------------------------
(* the key frame of a stream of OBUs *)

NoSpan == [first |-> 0, last |-> 0]

\* parse_obu_stream over the types of its OBUs: of the key frame, the first OBU and
\* the last.  A frame before a sequence header is an error, and so is a stream
\* without a frame.
KeyframeSpan(types) ==
    LET step(s, i) ==
          LET type == types[i] IN
          CASE type = "sequence_header" -> [s EXCEPT !.sequence = TRUE]
            [] type \in {"frame", "frame_header"} /\ ~s.sequence -> [s EXCEPT !.ok = FALSE]
            [] type \in {"frame", "frame_header"} /\ s.first = 0 ->
                 [s EXCEPT !.first = i, !.last = i, !.header = type = "frame_header"]
            [] type = "tile_group" /\ s.header -> [s EXCEPT !.last = i]
            [] type = "other" -> [s EXCEPT !.header = FALSE]
            [] OTHER -> s
        end == FoldLeft(step, NoSpan @@ [ok |-> TRUE, sequence |-> FALSE, header |-> FALSE], [i \in DOMAIN types |-> i])
    IN  IF end.ok THEN [first |-> end.first, last |-> end.last] ELSE NoSpan

=============================================================================
