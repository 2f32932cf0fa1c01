---------------------------- MODULE RewritingCodes ----------------------------
(***************************************************************************)
(* Rewriting for the layers below the structures: the codes of single       *)
(* fields, NAL units, messages and OBUs; and the properties of all layers   *)
(* by what they ask.                                                        *)
(***************************************************************************)
EXTENDS Rewriting

CONSTANTS
    WordBits,   \* bits of a word, 32 in the code
    ByteBits,   \* bits of a byte, 8 in the code
    LebBytes    \* the longest leb128 code, 8 in the code

\* An emulation prevention byte has two bits, and a word is made of bytes.
ASSUME WidthsAssumption ==
    /\ WordBits \in Nat \ {0, 1} /\ ByteBits \in Nat \ {0, 1} /\ LebBytes \in Nat \ {0}
    /\ WordBits % ByteBits = 0

Bits == INSTANCE BitCodes
Bytes == INSTANCE Framing

\* The codes and their parameter: a width, a number of values, a greatest value.
ReadCode(code, n, r) ==
    CASE code = "u"     -> Bits!Fixed(r, n)
      [] code = "ue"    -> Bits!UeRead(r)
      [] code = "se"    -> Bits!SeRead(r)
      [] code = "su"    -> Bits!SignedRead(r, n)
      [] code = "sm"    -> Bits!MagnitudeRead(r, n)
      [] code = "te"    -> Bits!TeRead(r, n)
      [] code = "ns"    -> Bits!NsRead(r, n)
      [] code = "uvlc"  -> Bits!UvlcRead(r)
      [] code = "le"    -> Bits!LeRead(r, n)
      [] code = "bytes" -> Bits!BytesRead(r, n)

WriteCode(code, n, pos, v) ==
    CASE code = "u"     -> Bits!Low(v, n)
      [] code = "ue"    -> Bits!UeWrite(v)
      [] code = "se"    -> Bits!SeWrite(v)
      [] code = "su"    -> Bits!SignedWrite(v, n)
      [] code = "sm"    -> Bits!MagnitudeWrite(v, n)
      [] code = "te"    -> Bits!TeWrite(v, n)
      [] code = "ns"    -> Bits!NsWrite(v, n)
      [] code = "uvlc"  -> Bits!UvlcWrite(v)
      [] code = "le"    -> Bits!LeWrite(v, n)
      [] code = "bytes" -> Bits!BytesWrite(pos, v, n)

\* A code as a writer makes it: it ends before the bits do, its run of zeros is
\* ended by a one and no longer than a word, there is no negative zero, and a
\* value of te is not above its greatest, which the reader does not check.
Canonical(code, n, r, got) ==
    /\ got.ok /\ got.pos <= Len(r.bits)
    /\ code \in {"ue", "se", "uvlc"} \/ (code = "te" /\ n > 1) =>
         Bits!LeadingZeros(r) < Len(r.bits) - r.pos /\ Bits!LeadingZeros(r) <= WordBits
    /\ code = "te" => got.value <= n
    /\ code = "sm" => got.value # 0 \/ r.bits[got.pos] = 0

\* Every canonical code is rewritten, from the value read, as the bits it was read
\* from; every value a writer accepts is read back wherever it stands and whatever
\* follows, up to its last bit; and behind any data the trailing bits are found, and
\* more_rbsp_data never takes their stop bit for data.
CodesRoundTrip ==
    /\ kind = "code_read" =>
         LET got == ReadCode(item.code, item.n, item.r)
         IN  Canonical(item.code, item.n, item.r, got) =>
                WriteCode(item.code, item.n, item.r.pos, got.value) = SubSeq(item.r.bits, item.r.pos + 1, got.pos)
    /\ kind = "code_write" =>
         LET written == WriteCode(item.code, item.n, Len(item.before), item.v)
             fits == CASE item.code = "u" -> item.v < 2^item.n
                       [] item.code = "bytes" -> item.v < 2^(item.n * ByteBits) /\ written # Bits!Refused
                       [] OTHER -> written # Bits!Refused
         IN  fits =>
                ReadCode(item.code, item.n, [bits |-> item.before \o written \o item.after, pos |-> Len(item.before)])
                  = Bits!Got(item.v, Len(item.before) + Len(written))
    /\ kind = "code_trailing" =>
         LET bits == item.data \o Bits!TrailingWrite(Len(item.data))
             end  == Bits!TrailingRead([bits |-> bits, pos |-> Len(item.data)])
         IN  /\ end.ok /\ end.pos = Len(bits) /\ Len(bits) % ByteBits = 0
             /\ \A p \in Len(item.data) .. Len(bits) : ~Bits!MoreRbspData([bits |-> bits, pos |-> p])

\* more_rbsp_data is true exactly when at least one more data bit precedes the
\* trailing bits, as its documentation says (src/bit_reader.rs:160).
MoreDataAsDocumented ==
    kind = "code_trailing" =>
        LET bits == item.data \o Bits!TrailingWrite(Len(item.data))
        IN  \A p \in 0 .. Len(bits) :
               Bits!MoreRbspData([bits |-> bits, pos |-> p]) <=> p < Len(item.data)

\* What rbsp_to_ebsp escapes, ebsp_to_rbsp restores; what it returns holds no start
\* code and does not end in zeros enough for one; an EBSP of a legal stream is
\* restored in the other order; and rbsp_offset_to_ebsp finds each byte of the RBSP.
EscapesRestored ==
    kind = "nal_bytes" =>
        LET ebsp == Bytes!RbspToEbsp(item.bytes)
            rbsp == Bytes!EbspToRbsp(item.bytes)
        IN  /\ Bytes!EbspToRbsp(ebsp) = item.bytes
            /\ Bytes!NoStartCode(ebsp) /\ Bytes!EndsApart(ebsp)
            /\ Bytes!LegalEbsp(item.bytes) => Bytes!RbspToEbsp(rbsp) = item.bytes
            /\ \A n \in 0 .. Len(rbsp) - 1 :
                 item.bytes[Bytes!RbspOffsetToEbsp(item.bytes, n) + 1] = rbsp[n + 1]

\* Any byte stream is divided into the same NAL units before and after it is framed
\* by lengths and back; NAL units whose last byte is not zero are found as they
\* were, behind start codes of three bytes or four; a unit is refused exactly when
\* its length does not fit.
NalsReframed ==
    /\ kind = "nal_bytes" =>
         LET nals == Bytes!SplitAnnexB(item.bytes)
             prefixed == Bytes!AnnexBToLengthPrefixed(item.bytes, 1)
             again == Bytes!LengthPrefixedToAnnexB(prefixed.value, 1)
         IN  /\ prefixed.ok <=> nals # <<>> /\ \A i \in DOMAIN nals : Len(nals[i]) <= Bytes!TopByte
             /\ prefixed.ok => /\ Bytes!SplitLengthPrefixed(prefixed.value, 1).value = nals
                               /\ again.ok /\ Bytes!SplitAnnexB(again.value) = nals
             /\ LET split == Bytes!SplitLengthPrefixed(item.bytes, 1)
                IN  split.ok => FlattenSeq([i \in DOMAIN split.value |-> <<Len(split.value[i])>> \o split.value[i]]) = item.bytes
    /\ kind = "nal_units" =>
         LET nals == [i \in DOMAIN item.rbsps |-> <<item.header>> \o Bytes!RbspToEbsp(item.rbsps[i] \o <<Bytes!StopByte>>)]
             buf  == FlattenSeq([i \in DOMAIN nals |-> item.codes[i] \o nals[i]])
             prefixed == Bytes!AnnexBToLengthPrefixed(buf, 2)
         IN  /\ Bytes!SplitAnnexB(buf) = nals
             /\ prefixed.ok /\ Bytes!SplitLengthPrefixed(prefixed.value, 2).value = nals
             /\ \A i \in DOMAIN nals : Bytes!EbspToRbsp(Tail(nals[i])) = item.rbsps[i] \o <<Bytes!StopByte>>

\* SEI messages, OBUs and IVF frames are read back as they were written, and what is
\* read of any bytes is what stands there; the bytes behind the last message are
\* padding.  An IVF file that is cut short is an error unless it is cut between
\* frames, and then it holds the frames in front of the cut.
MessagesReturned ==
    /\ kind = "sei_messages" =>
         LET got == Bytes!ParseSeiRbsp(Bytes!WriteSeiRbsp(item.messages))
         IN  IF item.messages = <<>> THEN ~got.ok ELSE got.ok /\ got.value = item.messages
    /\ kind = "nal_bytes" =>
         LET got == Bytes!ParseSeiRbsp(item.bytes)
         IN  got.ok => /\ got.value # <<>>
                       /\ IsPrefix(Front(Bytes!WriteSeiRbsp(got.value)), item.bytes)
                       /\ Len(item.bytes) = Len(Bytes!WriteSeiRbsp(got.value)) - 1 + Len(got.rest)
                       /\ \A i \in DOMAIN got.rest : got.rest[i] = IF i = 1 THEN got.rest[1] ELSE 0
    /\ kind = "obus" =>
         LET written == [i \in DOMAIN item.obus |-> Bytes!WriteObu(item.obus[i])]
             got == Bytes!IterObus(FlattenSeq(written))
         IN  <<>> \notin ToSet(written) => got.ok /\ got.value = item.obus
    /\ kind = "nal_bytes" =>
         LET got == Bytes!ReadLeb128(item.bytes)
         IN  got.ok => LET again == Bytes!WriteLeb128(got.value)
                       IN  /\ Bytes!ReadLeb128(again \o got.rest) = got
                           /\ Len(again) <= Len(item.bytes) - Len(got.rest)
    /\ kind = "ivf" =>
         LET written == [i \in DOMAIN item.frames |-> Bytes!WriteFrame(item.frames[i])]
             file    == FlattenSeq(written)
             whole(n) == FlattenSeq(SubSeq(written, 1, n))
         IN  \A cut \in 0 .. Len(file) :
                LET got == Bytes!ParseFrames(SubSeq(file, 1, cut))
                IN  IF \E n \in 0 .. Len(written) : Len(whole(n)) = cut
                      THEN got.ok /\ \E n \in 0 .. Len(written) :
                              Len(whole(n)) = cut /\ got.value = SubSeq(item.frames, 1, n)
                    ELSE ~got.ok

\* The units of MPEG-2 and VC-1 are found as they were written, empty ones and those
\* that end in zeros too, and the first slice among them where its start code begins;
\* what is found in any bytes leaves out nothing behind the first start code.
UnitsFound ==
    /\ kind = "bdus" =>
         LET written(n) == FlattenSeq([i \in 1 .. n |-> <<0, 0, 1, item.units[i].type>> \o item.units[i].payload])
             stream     == item.stuffing \o written(Len(item.units))
             first      == SelectInSeq(item.units, LAMBDA u : u.type = item.slice)
         IN  /\ Bytes!SplitBdus(stream) = item.units
             /\ Bytes!FindFirstSlice(stream, {item.slice}) =
                  IF first = 0 THEN 0 ELSE Len(item.stuffing) + Len(written(first - 1)) + 1
    /\ kind = "nal_bytes" =>
         LET units == Bytes!SplitBdus(item.bytes)
         IN  units # <<>> =>
               IsSuffix(FlattenSeq([i \in DOMAIN units |-> <<0, 0, 1, units[i].type>> \o units[i].payload]), item.bytes)

\* The frames of a superframe are found as they were, whatever size field is wide
\* enough and whatever their last bytes look like; a chunk without an index, or with
\* half of one, is a frame; and what is found in a chunk that lost its head is disjoint
\* and in order.
SuperframesDivided ==
    kind = "superframe" =>
        LET marker == Bytes!Marker(item.width, Len(item.frames))
            index  == <<marker>> \o FlattenSeq([i \in DOMAIN item.frames |-> Bytes!LittleEndian(item.width, Len(item.frames[i]))])
                        \o <<marker>>
            data   == FlattenSeq(item.frames)
            fits   == \A i \in DOMAIN item.frames : Len(item.frames[i]) < Bytes!Base^item.width
        IN  /\ fits => Bytes!SplitSuperframe(data \o index) = SelectSeq(item.frames, LAMBDA f : f # <<>>)
            /\ data # <<>> /\ ~Bytes!IsMarker(Last(data)) =>
                 \A chunk \in {data, data \o Tail(index)} : Bytes!SplitSuperframe(chunk) = <<chunk>>
            /\ \A cut \in 0 .. Len(data) :
                 LET chunk == SubSeq(data, cut + 1, Len(data)) \o index
                 IN  IsPrefix(FlattenSeq(Bytes!SplitSuperframe(chunk)), chunk)

\* A key frame is found with the tile groups that follow its header.
KeyframeFound ==
    kind = "obu_stream" =>
        LET span   == Bytes!KeyframeSpan(item.types)
            frames == {i \in DOMAIN item.types : item.types[i] \in {"frame", "frame_header"}}
        IN  span # Bytes!NoSpan =>
              /\ span.first \in frames /\ \A i \in frames : span.first <= i
              /\ "sequence_header" \in {item.types[i] : i \in 1 .. span.first - 1}
              /\ span.last = span.first \/ item.types[span.last] = "tile_group"
              /\ item.types[span.first] = "frame_header" =>
                   \A i \in span.first + 1 .. Len(item.types) :
                      (\A j \in span.first + 1 .. i : item.types[j] = "tile_group") => i <= span.last

\* Tile groups stand behind the header of their frame, which has at least one.
WholeFrames(types) ==
    \A i \in DOMAIN types :
        /\ types[i] = "tile_group" => i > 1 /\ types[i - 1] \in {"frame_header", "tile_group"}
        /\ types[i] = "frame_header" => i < Len(types) /\ types[i + 1] = "tile_group"

\* Of a stream of whole frames, the extent of the key frame is a frame OBU, or a
\* frame header and its tile groups: it holds nothing of another frame.
KeyframeExtent ==
    kind = "obu_stream" /\ WholeFrames(item.types) =>
        LET span == Bytes!KeyframeSpan(item.types)
        IN  \A i \in span.first + 1 .. span.last : item.types[i] \notin {"frame", "frame_header"}

-----------------------------------------------------------------------------

\* Reference lists, scaling lists, motion and filter parameters are decoded to what
\* they were coded from, down to the bits of each code.
CodesInverse == CodesRoundTrip /\ ListsInverse /\ DiagonalLists /\ ParametersRecentered

\* What is framed for the wire, in either framing, is found as it was: NAL units,
\* the RBSP in them, SEI messages and OBUs, units of MPEG-2 and VC-1, superframes.
FramingInverse ==
    EscapesRestored /\ NalsReframed /\ MessagesReturned /\ KeyframeFound /\ UnitsFound /\ SuperframesDivided

\* Slices, tiles and subpictures divide a picture: tiles and subpictures leave nothing
\* out, slices and subpictures cover nothing twice, slices are rewritten as they were
\* read, and a tile group's bytes are divided among its tiles.
PicturesPartitioned == SlicesWalked /\ TilesCover /\ SubpicsTile /\ TilesPartition

\* The headers of AV1 and of VP9 are written and read alike.
FrameHeadersInverse == Av1HeadersInverse /\ Vp9HeadersInverse

\* The three parsers of an H.264 slice header read the same elements as far as each
\* goes, and what the complete one reads is decided by what it has read before.
H264SlicesAgree ==
    kind = "h264_slice" /\ ~H264!SliceRejects(item) =>
        LET read == H264!SliceReads(item)
        IN  /\ IsPrefix(H264!PeekReads, read)
            /\ IsPrefix(H264!MinimalSliceReads(item), read)
            /\ H264!SliceReads(Received(read, item)) = read

\* Parsers of one header agree where they apply: the minimal and the complete ones of
\* H.264, HEVC, H.266, AV1 and VP9.  Two elements are excepted, at which the minimal
\* ones go wrong (MinimalAgreesButAddress, KeyHeadersAgree).
ParsersAgree ==
    /\ H264SlicesAgree /\ MinimalAgreesButAddress /\ HeadersAgree
    /\ FrameHeadersAgree /\ KeyHeadersAgree /\ Vp9HeadersAgree

\* AV1 derives the references of a frame as their order in time asks, and a slot
\* loses its frame when its identifier is too far behind.
ReferencesKept == ReferencesChosen /\ IdsExpire

=============================================================================
