# Verification of oxideav-bitstream

TLA+ models of the crate, the TLC runs that check them on small instances and the
TLAPS proofs that hold for every instance. The crate parses and writes the headers
of H.264, HEVC, H.266, VP8, VP9, AV1, MPEG-2 and VC-1 and keeps the state between
pictures that a hardware decoder bridge needs: picture order counts, reference
marking, reference lists, active parameter sets, reference slots. It decodes no
samples.

## 1. Inventory

Everything is single-threaded: a component is a struct with `&mut self` methods, or
a set of pure functions, and its caller is a bridge that calls one after another.
What is hard is not interleaving of threads but long sequences of legal calls, calls
that fail half way, units that are lost on the way, counters that wrap, replies the
caller must be able to rely on, and formats that are written down twice, once in a
parser and once in a writer.

| component | source | state | operations | hard behaviour |
|---|---|---|---|---|
| H.264 picture order count | `h264/poc.rs` | `PocState` | derive, finish, derive/finish/skip non-existing | nearest wrap, frame_num wrap, operation 5, overflow, lost pictures |
| H.264 decoded picture buffer | `h264/dpb.rs` | frame stores, previous reference frame_num, picture in progress, last field, early releases | begin_picture, finish_picture, clear; ref_pic_lists and modify read only | gaps, field pairing, command lists, capacity, releases, partial failure |
| H.264 stream | `h264/stream.rs` | SPS and PPS slots, previous slice, boundary flag | process_nal, insert_sps, insert_pps | first slice of a picture, replaced and lost parameter sets |
| H.264 parameter sets | `h264.rs`, `h264/scaling.rs` | none | parse, write | presence conditions written twice, scaling lists |
| H.264 slice header, SEI | `h264/{slice,sei}.rs` | none | parse, write | three slice header parsers, framing of messages |
| HEVC decoded picture buffer | `hevc/dpb.rs` | pictures, previous Tid0 count, sequence flags, picture in progress | begin_picture, finish_picture, end_of_sequence, clear | reference picture sets, random access, skipped pictures |
| HEVC stream | `hevc/stream.rs` | parameter set slots, last independent segment | process_nal, insert_sps, insert_pps | dependent segments inherit |
| HEVC parameter sets, slice header, SEI | `hevc.rs`, `hevc/{slice,scaling,sei}.rs` | none | parse, write | predicted reference picture sets, two slice header parsers |
| H.266 parameter sets, SEI | `h266.rs`, `h266/*` | none | parse, write | tiles, slices, subpictures, layers, presence conditions |
| VP9 frame header | `vp9.rs`, `vp9/frame.rs` | `Vp9State` | decode_frame_header; parse, write; split_superframe | commit only after a complete parse, what inter frames inherit, two parsers and a writer |
| AV1 headers | `av1.rs`, `av1/*` | reference slots (`Av1RefState`) | OBU walk, sequence header, metadata, parse_frame_header, update | what a header loads from slots, lost frames, derived references |
| NAL units | `nal.rs` | none | EBSP/RBSP, offsets, length prefixes | emulation prevention at the ends |
| Bit reader, writer | `bit_reader.rs`, `bit_writer.rs` | bit position | u, ue, se, te, ns, su, i, uvlc, le, bytes, trailing bits | width limits, inverse of each other |
| IVF, VP8, MPEG-2, VC-1 | `ivf.rs`, `vp8.rs`, `mpeg2.rs`, `vc1.rs` | none | parse (IVF: write) | syntax |

How they meet: a bridge splits bytes into NAL units or OBUs and feeds them to
`H264Parser` or `HevcParser`, which resolve parameter sets and return slices; the
first slice of a picture goes to `Dpb::begin_picture`, which uses `PocState` and the
stores; the lists are read while the picture decodes; `finish_picture` marks, stores
and reports what the bridge may free. HEVC has the same shape:
`HevcDpb::begin_picture` already applies the whole reference picture set,
`finish_picture` stores the picture. An AV1 frame header is parsed against
`Av1RefState`, which is updated once the frame is decoded; `Vp9State` parses and
commits in one call. The fuzz target
`fuzz/fuzz_targets/streams.rs` is the only caller of the stateful parts in the
repository and goes on after errors. The writers have no caller in the crate but its
tests; a caller of them is a program that edits headers.

What makes each component correct:

- H.264 picture order count: the inverse of what an encoder sends, within reach,
  whatever was lost before; counts follow decoding order in type 2;
- H.264 buffer: a key is one surface for one life; a second field joins its own first
  field; the window drops in decoding order; a LongTermFrameIdx names one frame;
  operation 5 isolates; the number of references is bounded for any input; the
  wide-gap shortcut equals the clause; the replies let a bridge account for its
  surfaces; the lists are those of the clauses;
- HEVC buffer: counts and references are the encoder's for any receiver the standard
  allows (one that joins at a CRA picture, drops sub-layers, or sees a splice);
  exactly the RASL pictures that cannot be decoded are skipped; the reference picture
  set, the marking and the buffer say the same thing, and the bound holds, for any
  header; replies account for surfaces;
- streams: every picture begins once, slices are parsed with the parameter sets they
  were written with, dependent segments are completed from their own picture (they are
  once its first segment has arrived; finding `hevc_completion` is the rest);
- VP9 state: what lost frames did not change is what the encoder has, and every header
  that takes nothing else is read as it was meant;
- AV1 slots: a decoder that lost nothing since a complete refresh holds what the
  encoder holds; a slot the order hints vouch for holds the encoder's picture;
- parsers and writers: what a writer accepts its parser reads back element by
  element, what a parser returns its writer accepts and writes the same; two parsers
  of one header agree; derivations (reference sets, tiles, slices, layers,
  references, motion parameters) give what their clauses ask;
- codes and framings: inverse pairs, and no start code inside a NAL unit.

## 2. Modules

| module | models |
|---|---|
| `H264Poc` | `poc.rs` as operators: `Derive`, `FinishPoc`, `SkipNonExisting`, ... |
| `H264Marking` | the stores of `dpb.rs` and the marking processes as operators: `SlidingWindow`, `EnforceCapacity`, `ApplyMmco`, `EvictUnused`, ... |
| `H264Dpb` | `Dpb` as a state machine over the two |
| `MCH264Dpb` | its small instances |
| `H264DpbProofs`, `H264CallerProofs` | the proofs about the buffer, and about the counts it stores |
| `H264GapShortcut` | the wide-gap shortcut against the frame-by-frame clause, and the invariant of its proof |
| `H264Bridge`, `MCH264Bridge` | a bridge that keeps a surface per key, composed with `H264Dpb` and `H264GapShortcut` |
| `H264Window`, `H264WindowRefinement`, `MCH264WindowRefinement` | the abstract window, a set of keys, and the refinement |
| `H264WindowProofs` | the proof of the refinement |
| `H264RefLists`, `MCH264RefLists` | initial reference lists and their modification as operators over the state of `H264Dpb`, beside what the clauses say |
| `H264RefListsProofs` | the proofs about the lists |
| `HevcRps` | `HevcDpb` of `hevc/dpb.rs` as operators over a state record: flags, count, reference picture set, marking, lists |
| `HevcDpb`, `MCHevcDpb` | the calls in any order with any header, and a bridge that keeps a surface per key |
| `HevcSync`, `MCHevcSync` | an encoder, a channel that drops what may be dropped, and `HevcDpb` driven as the fuzz target drives it |
| `HevcRpsProofs`, `HevcDpbProofs`, `HevcSyncProofs` | the lemmas about the operators of `HevcRps`, and the proofs about `HevcDpb`, alone and in `HevcSync` |
| `H264Stream` | `H264Parser` behind a channel: slots, slices, delimiters, first slice of a picture |
| `HevcStream` | `HevcParser` behind a channel: slots, independent and dependent segments, ends of sequences |
| `Av1Frame` | what the AV1 frame header derives: reference selection, identifiers, tiles, motion parameters |
| `Av1RefState` | the encoder's slots and the decoder's, with frames lost between them |
| `Vp9RefState` | `Vp9State` beside the encoder's: slots, colour, deltas and features, with frames lost or refused |
| `H264PocSync` | type 0 counts between an encoder and `PocState` over a lossy channel |
| `FrontEnds`, `MCFrontEnds` | the five of them composed: a program opens a stream of one codec |
| `Syntax` | coded elements: names and descriptors, what arrives when fields are coded |
| `H264Syntax`, `HevcSyntax`, `H266Syntax`, `H266SpsSyntax`, `H266PpsSyntax`, `Av1Syntax`, `Vp9Syntax` | parser and writer of the parameter sets, headers and metadata the inventory names; section 6 lists what is left out |
| `BitCodes`, `Framing` | the codes of single fields; NAL units, SEI messages, OBUs, IVF frames, superframes of VP9, start codes of MPEG-2 and VC-1 |
| `StreamProofs` | the proofs about emulation prevention, the two streams, the counts, the AV1 and VP9 state, and the composition |
| `Rewriting`, `RewritingCodes`, `MCRewriting` | a program that edits coded structures, and the properties of all of them |

### H264Dpb and the code

| code | model |
|---|---|
| `stores: Vec<FrameStore>` | `stores`, a function from live keys to stores; keys grow and pushes go to the end, so the order of the Vec is the order of the keys |
| `poc`, `prev_ref_frame_num`, `next_key`, `pending`, `last_field`, `released_early`, `max_long_term_frame_idx` | the variables of the same names |
| a running call | `gap` (the loop of begin_picture) or `marking` (the loop of apply_mmco): while one is not `None` only its own next step is enabled |
| the value returned | `reply` |
| `begin_picture` | `BeginPicture` (no gap), `BeginAfterLoss` (gap not allowed), `BeginWithGap`, `SkipFrame`, `FillFrame`, `EndGap` |
| `finish_picture` | `FinishNonReference`, `FinishIdr`, `FinishSliding`, or `BeginMarking`, `MarkNext`, `EndMarking`; all end in `Complete` |
| `clear`, calls out of turn | `Clear`, `OutOfTurn` |
| `Err` | the reply `Failed`; what was changed before stays changed |

Abstractions: `i32` is `-PocLimit..PocLimit-1`, with the checked operations
failing at its ends and the unchecked ones wrapping; a key is a natural number,
never reused below 2^32; loops that pick one victim per iteration are the set of
their victims, ranked by the order in which the loop picks them; a slice
header is a record of the fields the buffer reads. The caller passes
`begin_picture` the parameter set the header was parsed against
(`ParsedAgainst`: `frame_num < MaxFrameNum`), as the parser's widths ensure.

`ref_pic_lists` reads the state and changes nothing, so `H264RefLists` defines the
lists as operators and its invariants compare them, for every picture that begins
(no call before its `finish_picture` changes what they depend on), with a statement of
the clause that is built differently: sets and sums where the code has cursors, shifts and a running
prediction. Slices use one command list for both lists. A loop of the code is a function
of the number of its turns (`turns`, `Works`), so that proofs can speak of every turn.

### HevcDpb and the code

`dpb` is the struct as a record: `pics` (a function from live keys to pictures, in
key order for the Vec), `prevLsb`, `prevMsb`, `afterEos`, `started`,
`irapNoRaslOutput`, `nextKey`, `pending`. No method of it has a loop whose steps a
caller could see, so every call is one action: `BeginRefused`, `BeginOverflows`,
`BeginSkipped` and `BeginPicture` are the four ways out of `begin_picture`,
`FinishPicture` and `FinishOutOfTurn` those of `finish_picture`. `Announced` is what
`begin_picture` changes before it can fail or skip. `is_idr`, `pic_output_flag` and
the key `u32::MAX` of a skipped picture are copies nothing reads back and are left
out. A marking of `Unused` exists only inside `begin_picture`, between the marking
and the `retain`, so the model removes such pictures at once. `surfaces`
is the bridge: it frees what replies name and the surface of a picture
that is skipped over, is not stored or is abandoned.

In `HevcSync` the encoder is not code of the crate. Its references obey clause
7.4.2.2 (which pictures a trailing, RADL or RASL picture may use or keep), its
counts stay within half a cycle of the anchor as 7.4.7.1 asks, and it names a
long-term picture by its lsb alone exactly when no other picture nearby has it.

### The streams and the code

`H264Stream`, `HevcStream`, `Av1RefState` and `Vp9RefState` set the crate's state beside a sender
that is not part of it. The variables of the parser carry the names of its fields
(`spsSlot`, `ppsSlots`, `prev`, `boundary`; `hevcSps`, `hevcPps`, `lastIndependent`;
`slots`); what a slot holds is the copy of the set that arrived, so that "parsed with
the set it was written with" is a comparison of copies. The channel is part of the
sender's action: a slice, a delimiter, an end of sequence or a frame is delivered,
delivered too damaged to parse, or lost. `insert_sps` and `insert_pps` are the action
`Configure` (`ConfigureHevc`), before anything is sent. `process_nal` on types it
passes over is `ParseOther` and `PassOver`. In `Av1RefState`, `HandleFrame` is
`parse_frame_header` followed by `update`, `RefuseFrame` the error of a size taken
from an empty slot, `ShowExisting` the header that shows a slot again. The encoder
loads from the primary reference, infers or codes each parameter as a choice of the
frame.

In `Vp9RefState`, `state` is `Vp9State` and `encoded` what the encoder means it to be.
`ParsedFrame` is `parse_frame`, `Committed` is `commit`, `DecodeFrame` the two in
`decode_frame_header`, `RefuseVp9Frame` its error. `stale` is history: the parts of the
state that lost or refused frames would have changed, and what later frames made of
them. An encoder codes a delta or the features only when they differ from what is in
force, so that a loss really does change what later frames inherit.

In `FrontEnds` only the stream that was opened moves; the components share no state,
as in the crate.

### The syntax modules and the code

A structure is a record of the fields that decide what is coded, flags and the
presence of an `Option` being 0 or 1 and a `Vec` its length. For each function pair
there are up to six operators, each translated from its own function and never from
the other:

| operator | meaning |
|---|---|
| `...Reads(v)` | the elements the parser reads when the fields turn out to be `v` |
| `...Rejects(v)` | the parser returns an error |
| `...Implied(v)` | what a structure the parser returned always satisfies: absent fields have their inferred values, a Vec has the length its count says |
| `...Writes(v)` | the elements the writer writes |
| `...Refuses(v)` | the writer returns an error |
| `...Fits(v)` | what the writer leaves to its caller although the parser checks it |

An element is a name and a descriptor (`u(n)`, `ue`, `se`, a count of a Vec, or a
structure of its own). Parser and writer are inverse when the elements are the same
and neither refuses what the other gives. Where numbers matter (scaling lists,
reference picture sets, tiles, slices, layers) the values themselves are computed and
compared with a reference definition. The partition of a picture in H.266 is a
structure of its own, with its slices as the numbers they are coded with; the walk over
the slices is also checked alone, with every entry edited. `Rewriting` is the state machine: a program has
a structure in hand and changes one field after another; every structure it passes
through is put to the test.

`BitCodes` has bits as sequences and every code of the reader and writer as an
operator; `Framing` has bytes as sequences. Both scale: a word of 6 bits and bytes of
2 let TLC enumerate every value, every position and every byte string of a length,
and the arithmetic is that of the code with 32 (64) and 8 in their place. The
emulation byte 3 is then the top byte, the stop byte 2. The first and last byte of a
superframe index are distinguished by their top bits; in the model they stand above
all other bytes, so that every byte may occur inside a frame.

## 3. Runs

| run | question | bounds |
|---|---|---|
| `h264_gaps` | keys, counts, and the abstract window, over frames, fields and gaps; every call returns | one parameter set with a window of two, frame_num cycle 8, 5 keys, counts of 6 bits, so that gaps wrap, are wider than the window and overflow |
| `h264_commands` | pairing, marking over time, LongTermFrameIdx, operation 5, capacity; lists name what the clauses say, in their order | buffer of two, 3 keys; the commands on fields, on frames, and the pairs of commands that interact, mixed with plain fields and with gaps, inferred or taken for a loss; counts before, at and after the current one; P and B slices, lists of two to four entries with two or three commands |
| `h264_bridge_surfaces` | no surface freed early, none leaked, pool of 2 * capacity + 1; shortcut = clause | buffer of two, 4 keys, three count types, gaps of up to six, long-term frames and single fields, no commands; a stream without gaps |
| `hevc_calls` | bound, surfaces, lists against marking, list construction, and marking over time, for headers no encoder would write | bound of two pictures, 4 keys, one- and many-picture parameter sets, counts of four bits that overflow, lists of up to five |
| `hevc_sync` | counts, references and skipped pictures of a receiver are the encoder's | cycle of four counts, sets of two; three profiles of stream: random access (five NAL types, counts -3..3, any losses and restarts), two sub-layers with discardable pictures (-4..4), long-term references (0..7); 4, 4 and 5 received pictures |
| `front_ends` | pictures begin once; slices and segments meet their sets; dependent segments behind the first of a picture are completed from it or a later one; AV1 slots, order hints and independent frames; VP9 state; type 0 counts | three H.264 pictures and one copied set, three HEVC pictures and two sets of up to three segments, four AV1 frames over three slots and nine kinds of frame, four VP9 frames over two slots, nine kinds and two profiles; counts in -3..3 with a cycle of four |
| `syntax` | parsers and writers are inverse, parsers of one header agree, derivations give what clauses ask | per kind a start and one to three edits (`MCMaxEdits`), each field with the values at the edges of its conditions; every code of 6-bit words at every position, byte strings of up to seven 2-bit bytes, start codes and superframes likewise |
| `h264_mmco5_counts`, `hevc_completion`, `h266_partition`, `more_rbsp_data`, `av1_keyframe_extent` | five statements of the repository that the code does not keep | counterexamples of a few calls or edits |

Why the bounds are enough to be interesting: a buffer of two frames is the
smallest in which the window has a choice of victim and a list an order and a long-term frame leaves
room for a short-term one; a frame_num cycle of eight lets every reference be
before, at or after a wrap and makes room for gaps narrower and wider than the
buffer. In `HevcSync` a cycle of four counts lets two held pictures share an lsb and
every anchor be a wrap away; four received pictures suffice for the join, the CRA
picture's leading pictures (a skipped one takes no key) and what follows them, and
for a long-term reference a cycle away from another held picture, while the number of
pictures the encoder sends and the receiver does not get is bounded only by the range
of counts. Three pictures let a picture be lost whole between two that arrive; two
copies of a set let the old one stand in for the new. Four AV1 frames are a refresh,
two frames that depend on it, and one behind a loss; for VP9 likewise, with an intra
frame in place of the refresh. In the syntax kinds a condition
joins at most three fields, which is what the edits bound: a start sets up the rest.

`CHECK_DEADLOCK FALSE` stands where a run really stops: a sender that has sent all it
may, a program that has made its edits.

Each property has a mutant, an operator named in the modules beside the definition it
breaks, under which TLC finds the property violated in the same run. A type invariant
(`TypeOK` of `H264Dpb` and `HevcDpb`) is proved and not checked again by a run; the
inductive invariants `IInv` likewise.

Fairness: `FairSpec` has weak fairness on `Continue`, the steps of a call that is
already running. That is what a synchronous call is: nothing else can run before
it returns. The caller's next call is never assumed. `CallsReturn` is checked
under it. Every call of `HevcDpb` is one step, and a stream may always stop, so
nothing else needs fairness.

## 4. Findings

Shown by a run:

- `h264_mmco5_counts`: `Poc::after_mmco5` (`h264/poc.rs:73`) subtracts without a
  check; with type 1 counts the difference may leave 32 bits (`README.md:200-202`:
  entry points never overflow).
- `hevc_completion`: `process_nal` (`hevc/stream.rs:196`) completes a dependent segment
  from the last independent one that parsed. When the first segment of a picture is
  lost, that one belongs to another picture, where `stream.rs:7-8` speaks of "the
  preceding independent segment of the picture"; behind an end of bitstream without an
  end of sequence, to another stream. `CompletedBehindFirst` (passing) is what holds.
- `h266_partition`: `write_partition` (`h266/pps.rs:856`, 921) goes by
  `pps_tile_idx_delta_present_flag` where it has not coded it, with two slices, and
  writes a difference that `parse_partition` (473-475, 551) does not read; 974-975 calls
  the two byte-exact inverses. `H266SetsInverse` holds of every other partition
  (`PartitionFits`).
- `more_rbsp_data`: `BitReader::more_rbsp_data` (`bit_reader.rs:170`) is false when the
  data that is left is all zeros, where 160-161 promises true for any data bit before the
  marker. The writers of H.266 refuse a trailing extension bit of 0 for that reason
  (`h266/sps.rs:1663`, `pps.rs:1143`, `vps.rs:906`).
- `av1_keyframe_extent`: the flag that attaches tile groups to the key frame
  (`av1.rs:1619-1634`) is not reset by the header of another frame or a temporal
  delimiter, so the extent takes in the frames behind it; `av1.rs:911-913` documents
  a frame header and its tile groups. Metadata or padding between the two ends the
  extent early.

Met while modelling, and left to the reader:

- `h264/dpb.rs:372`: begin_picture forgets the last first field before it may fail,
  so its key is reported by no later reply, which `dpb.rs:222-225` promises. With a
  bridge that restarts after an error (`ClearsAfterError`) the accounting is exact.
- `h264/dpb.rs:375`: begin_picture sets `prev_ref_frame_num` to 0 for an IDR picture
  before it may refuse the picture for its counts; the references of the old stream
  stay, and until the next IDR picture the window may rank them wrongly.
- `h264/dpb.rs:1208`: in a buffer full of long-term frames a new first field is stored
  and dropped by the same call, whose reply then says both "awaiting second field"
  and "released" (`dpb.rs:240-242`).
- `hevc/dpb.rs:350`: the documentation (18-20) says an entry is `None` only in broken
  streams or for skipped pictures; a CRA picture at which decoding starts has such
  entries too, in `st_foll`.
- `hevc.rs:2818`: `parse_slice_header_minimal` reads slice_segment_address with a bit
  too many when the number of coding tree units is a power of two; its own comment
  (`hevc.rs:2801`) and the complete parser (`hevc/slice.rs:226-232`) say ceil(log2).
  `ParsersAgree` holds the two parsers to each other but for these segments
  (`MinimalAgreesButAddress`).
- `av1.rs:1493`: `parse_frame_header` reads error_resilient_mode of a shown key frame,
  which has none; the complete parser infers it (`av1/frame.rs:730-736`).
  `ParsersAgree` holds them to each other but for this element (`KeyHeadersAgree`).
- `bit_reader.rs:566`: the error message of `read_bytes` subtracts below zero when the
  position is already behind the end; no parser of the crate calls it.
- `nal.rs:39-41` asks for a byte behind an emulation prevention byte; a final
  `00 00 03` loses its 3 as well, which is what `rbsp_to_ebsp` needs.
- `h264.rs`: `parse_idr_only` takes the first SPS and PPS whatever ids the slice names.
- Writers that accept what their parsers reject, listed as `Fits`: `write_sps` of
  H.266 (`InRange`, `SubpicsFit`, `DpbFits`), `write_sps` of H.264 (`ListsFitChroma`),
  `write_sps` of HEVC (`HighestFits`), `write_vps` of H.266 a dependent layer without
  a direct reference, `write_partition` of H.266 a slice height that is not coded and
  not the one the parser takes over (`HeightsInherited`); a zero entry in a scaling list (`Returnable`).
- VP9: the minimal parser accepts an RGB picture in profiles 0 and 2, which the writer
  and the complete parser refuse. The writer is canonical: a loop filter delta it is given as zero is left
  out, and a decoder then has the one in force (1, 0, -1, -1 by default) instead of
  zero. Features of segments beside `update_data` are not looked at
  (`SegmentationFits`).
- `vc1.rs:418-420`: parse_first_picture speaks of the entry point that follows the
  sequence header and the first frame after that; it takes the first of each kind,
  wherever it stands.
- AV1: `ref_frame_idx` of inter frames, `show_existing_frame` of a frame that is not
  showable, and the primary reference are not checked against the validity of the
  slot; the minimal sequence header parser accepts identifier lengths the complete one
  rejects (`av1/sequence.rs:203`).

## 5. Proofs

`H264DpbProofs` proves, for every set of parameter sets and headers that satisfies
`InputsAssumption`, every `PocLimit` and every `MaxKey`:

- `Invariance`: `Spec => []IInv`, with `IInv` inductive;
- `TypeCorrect`, `SecondFieldFitsAlways`, `KeysNameOneStoreAlways`,
  `LongTermIdxUniqueAlways`, `RefreshIsolatesAlways` from it;
- `MarkingOnlyWeakensAlways`, the action property, from the same invariant.

None of these properties is inductive alone. `KeysInv` adds that the picture in
progress, the picture whose commands run and the field awaiting its second all
have keys that were handed out, and what each may find in the stores under its
key. `LongTermInv` adds the state in the middle of a command list: only the store
of the current picture may hold an index that operation 6 has given to the
current picture. `RefreshInv` adds that after operation 5 the list goes on
over a buffer without references. `ControlInv` says that one call runs at a time.
`LongTermIdxUnique` is about headers whose command lists do not themselves give an
index to two pictures (`CommandsAgree`); the code does not check that.

`CapacityHoldsAlways` adds `CapacityInv`, which counts references: `FewReferences`.
Between calls the pictures that are finished references fit the capacity; a gap may
hold one more, the frame it has just inferred, until its sliding window runs;
long-term pictures alone fit whenever the commands of a picture have been applied. What
the capacity loop and the sliding window discard is proved by rank (`RankedFew`): of the
elements of a finite set under a strict order, those with at least n elements before
them are at most all but n, by taking the one of least rank.

`H264CallerProofs` holds `Type2FollowsDecodingAlways`. Its invariant, `Type2Inv`, says
that `PocState` is ahead of every stored count: `LastCount`, what the count of the
frame number last begun would be, bounds the counts of all stores, and the picture in
progress has both the newest key and a count no less. The offset of `PocState`
saturates: where the sum no longer fits a count, the picture is refused, and the order
of what is stored is kept. The property is about streams whose parameter
sets agree on `MaxFrameNum`, as those of one coded video sequence do: with another
modulus the wrap of `frame_num` is mistaken.

It also holds `SurfacesAccountedAlways`, about the buffer and its bridge together.
`SurfacesInv` says that keys and surfaces agree inside a call too (`KeysCovered`,
`KeysReported`), and that the stores are few throughout a gap (`StoresBounded`): what
the gap may still insert, beyond the frames the shortcut skips, is at most the
capacity. `FrameNumsBelow` bounds the frame numbers it counts with. The last step is
that a reference picture that has just been completed is not what the capacity takes
out (`NewestStays`): it is the newest, and the long-term pictures leave it room. The
hypotheses are that the bridge clears its surfaces after an error, that the parameter
sets agree on `MaxFrameNum`, and `RoomForCurrent`: the commands of a picture keep no
more long-term pictures than fit with it, as 8.2.5 requires and nothing in the code
checks. It holds in every state of `h264_bridge_surfaces`.

And it holds `ShortcutEqualsWalkAlways`: the wide-gap shortcut leaves what inferring
every frame leaves, for a gap of any width, a buffer of any capacity and content, and
every count type. The inductive invariant `GapInv` (in `H264GapShortcut`) runs the loop
beside the walk, which is a recursive function of the number of frames inferred:
`Follows` says that i frames behind the entry the loop has the walk's `unused`, its
counts but for the offset that type 0 does not keep (`CountsFollow`), and stores that
are `Filled` as the walk's are. `Filled` is the argument of the comment at
`dpb.rs:390-393`: the short-term pictures fit in what the long-term ones leave of the
capacity, the newest frames of the gap are among them, and an older picture the window
has dropped keeps no short-term field. When at least as many frames follow as the
window holds, that leaves one content (`FilledUp`), with the short-term pictures of
before or without. `FilledStep` is the window's step; it rests on `WindowLeaves`, that
the sliding window drops the oldest by `FrameNumWrap` until the next picture fits, and
on `OnlyDecodedMarked`, an invariant of the buffer of its own: a field that was never
decoded is not marked.

The hypothesis is `NumbersFree`: no short-term picture has the `frame_num` of a missing
frame, which 7.4.3 asks of a stream and nothing in the code checks. Without it the
oldest by number is not the oldest: with a capacity of three, a cycle of eight and 2 the
only short-term `frame_num`, a gap from 0 to 3 after 7 infers a second 2, which leaves
the first one in the walk and not in the shortcut. `NumbersFree` and `GapInv` hold in
every state of `h264_bridge_surfaces`.

`H264WindowProofs` proves `WindowImplemented`: `Spec => ImplementsWindow`. The
abstract window is a set of keys that only knows their order: a new key enters and the
newest `Cap` are kept, an IDR picture replaces them, a restart or a wide gap empties
them. The buffer never compares keys to find its victims; it compares `FrameNumWrap`,
and counts fields and frames that are half complete. The invariant is `WindowInv` (in
`H264WindowRefinement`). Its core is `InStep`: how far the `frame_num` of a reference is
behind the last one falls as the keys rise, and is no more than the number of
references that entered after it. Since the window is smaller than the cycle of
`frame_num`, `FrameNumWrap` then orders the references as their keys do (`SlideStep`),
and a picture that enters keeps it so (`InStepEnter`). The other parts say the same of
a picture in progress, a first field that awaits its second and a gap that is being
filled: what `frame_num` they have, and that no store is newer. The hypotheses are the
promise's own: no memory management commands (`SlidingOnly`), one parameter set with a
window smaller than its cycle (`OneWindow`), and IDR pictures whose counts are in range
(`IdrCounted`, see `dpb.rs:375` above). `WindowInv` holds in every state of `h264_gaps`.

`H264RefListsProofs` proves, for every set of parameter sets, headers and slices,
`InitialListsAsMeantAlways` and `ModificationAsMeantAlways`, for lists of any length.

The first is about operators that sort, filter, reverse, alternate and concatenate, and
rests on two ideas. `Lists`: a sequence names each member of a set, once. A sort of
a finite set does (`InOrderIs`, by the rank of each member), a filter names what it
lets through (`OnlyLists`), two sequences over disjoint sets do so in a row
(`ConcatLists`). `Follows`: every two members of a sequence are in a relation, the
earlier one first. A sort by a value follows any relation the value decides
(`AscendingFollows`), a filter and a reversal keep what the whole follows
(`OnlyFollows`, `ReverseFollows`), and two sequences in a row follow a relation that
each follows and that holds across them (`ConcatFollows`), as an earlier picture stands
before a later one in list 0 (`PocOrderFollows`). The property states the orders pairwise,
by frame_num, counts and indexes, without the sequences of the code. Frames that share
the count of the current picture, of which the clauses do not speak, may stand anywhere.
That the cursors of the two parities give what taking turns means is
`InterleaveIs`: after any number of turns, what was taken is the beginning of the
alternation, and what is left are the rests of both sequences (`LeftOf`, `TakeFieldOn`);
the alternation keeps the order of each parity and lets one follow itself only when the
other is used up (`TurnsOrdered`). When the two lists of a B slice are the same, the
second has its first two exchanged (`SwapExchanges`).
`IInv` then says which entries there are; the store a second field shares with its first
one is in the lists because its first field is marked (`FirstFieldUsable`).

The second has an invariant of the loop, `WorkOK`: after i commands the list holds the
i targets and then the initial list without what they named, in its order, and the
prediction is the sum of the differences modulo `MaxPicNum` (`Agrees`, `PredictAgrees`).
A command moves the rest up into the spare slot and closes it up over the
number it names; at most one entry has that number, so at most one stale entry
is left, and that in the spare slot (`OneLessKept`, `ClosingUp`, `OnlyDrop`). The loop
ignores commands beyond the length of the list, and so does the statement it is held
against, which cuts off what they add.
It needs of the state that a `frame_num` is below `MaxFrameNum` (`FrameNumbersAlwaysCoded`).
Its hypotheses are in the property: `DistinctNumbers`, that no two references share a
number, and `DifferencesInRange`, that a difference is less than `MaxPicNum`. The clauses
ask both of a stream and the code checks neither; a command that names a picture which
is not there leaves a hole, here as in the code.

The first part of `H264DpbProofs` holds the lemmas about the operators: counts stay in
range, `Unmark` only weakens, what the eviction of an index leaves, what insertion adds.

`HevcDpbProofs` proves, for every set of headers and parameter sets, every `PocLimit`,
`MaxPics` and `MaxKey`:

- `HevcInvariance`: `Spec => []IInv`, with `IInv` inductive;
- `HevcBoundAlways`, `HevcSurfacesAlways`, `HevcListsAlways`, `HevcRefListsAlways`,
  `HevcTypeCorrect` from it;
- `HevcMarkingAlways`, the action property.

`SurfacesExact` needs `KeysFresh` (the picture in progress is not also stored, so
freeing one never frees the other), and both need the types. The argument for the
bound is that a set only ever shrinks the buffer (`BegunState`) and that the
pictures with fewer than `MaxPics` at or after them are fewer than `MaxPics`
(`EvictedLeavesRoom`, by taking the least of them). The argument for
`ListsMatchMarking`, that no picture is named both ways, is that a short-term look-up happens among the pictures the
long-term look-up has not marked (`RpsListsIn`).
`HevcRefListsAlways` needs two things more: that the lists of a set are sequences, and
that every entry of a slice's list is a candidate (`CandidatesAre`, `BuildListFrom`).
The first is about a loop that pushes what a flag selects (`Flagged`), and is proved by
induction (`KeptExists`, `FlaggedType`): of the numbers of references for which a claim
failed there would be a least one (`LeastKey`).

`HevcSyncProofs` proves, for every cycle length, set of profiles and `PocLimit`:

- `SyncInvariance`, and from it `HevcCountsAgreeAlways` and `SkipsExactlyAlways`;
- `RefsInvariance`, and from it `ReferencesAgreeAlways`.

`AnchorKnown` says that the receiver's most significant part and the difference of the
two counts are both whole cycles, so that its previous anchor is the encoder's less
that difference, and the lsb it expects is the one that is sent; what may be dropped
is no anchor. `NearestCount` is then the inverse of the reduction for a count
within half a cycle of its anchor, by cases of the two comparisons of the code. That no
count leaves 32 bits wherever the receiver joins is a part of `SyncAssumption`.

`RefsInv` carries the references. It says of the encoder that it names its pictures by
their counts (`EncoderInv`); of the receiver that its keys have a meaning and its buffer
room (`KeysInv`); and, while it gets the stream, that

- the pictures it stores have the counts of different pictures that the encoder knows to
  be nearby (`Mirrors`),
- it stores every picture the encoder holds but those above its layer, those it may have
  dropped and, since a restart, those from before it and RASL pictures (`HasExpected`),
- and what it marked long-term is long-term for the encoder (`LongKnown`).

A picture that the receiver decodes uses only pictures of the second kind (`UsedExpected`),
and what it keeps for later ones is expected no sooner than before (`ExpectedBefore`).
`SetFound` then shows that the set finds what it names: a count by its difference, since
stored pictures differ in their counts; an lsb alone, since the encoder gives the cycles
where another picture nearby shares it (`SameRemainder`, `OffsetRemainder`); and each list
is the counts that are used in the order of the header, which two enumerations of one set
share (`ListMeans`, `EnumerationUnique`). `BegunStores` turns what the set found into what
is stored when the next picture starts; no picture is evicted, since a set and its picture
fit in the buffer. A picture that is skipped or dropped is not expected either
(`Bypassed`), and a restart empties the buffer and expects nothing (`RestartInReach`).

`StreamProofs` proves, for every number of pictures, segments and copies of sets, every
header a sender may choose and every loss:

- `H264StreamInvariance`, and from it `NoPictureBeginsTwiceAlways`,
  `EveryPictureBeginsAlways`, `ParsedWithItsSetsAlways`;
- `HevcStreamInvariance`, and from it `CompletedBehindFirstAlways`,
  `NothingAcrossSequencesAlways`, `SegmentsWithTheirSetsAlways`.

For H.264, `FirstsBehind` says that a picture that began is the
one the parser compares with until a delimiter or the next picture, so a further slice
of it never differs (`SamePicture`); `PrevBehind` says that a previous slice of the
picture before has the header that the sender, obeying 7.4.1.2.4, made the new one
differ from (`NextPicture`). `TablesInStep` is conditional on a stored sequence
parameter set: without one a picture parameter set with scaling lists cannot be read,
the old one stays in its slot, and only the guard of the slice parser keeps it from
use. For HEVC, `KeptSegment` places the segment kept for the dependent ones behind the
last end of a sequence that arrived, and in the picture being written once its first
segment has parsed (`NothingAcrossSequences`, which no run checks again).

It also proves `PocSyncInvariance` and `CountsAgreeAlways`, for every cycle length, span
and delta: `AnchorKept` says that the most significant part the decoder keeps is a
multiple of the cycle, that with the least significant part it is congruent to the
anchor of the last reference picture that arrived, and that it is that anchor unless
somebody is behind. `NearestCount` is the inverse, by cases of the two comparisons of
the code; `CountsRebased` covers operation 5, whose distance of the bottom field is
kept where an lsb is expected.

For every set of slots, profiles and frames it proves:

- `Vp9Invariance` and `Vp9StaysInStepAlways`. `SlotsColored` (a slot with a size has a
  colour) is what the encoder needs for its inter frames to be parsable. `PartsDiffer`,
  `CarriedRead` and `PictureRead` show for each field of a header from which part of the
  state it is read, and so that what is taken from stale parts alone can be wrong.
- `Av1Invariance`, and from it `StaysInStepAlways`, `HintsVouchAlways` and
  `IndependentFramesAlways`. `PicturesKnown` ties every slot on either side to a frame
  that was sent. There are fewer frames than order hints (`HintsDiffer`), so that a coded
  hint that matches names the same picture; an encoder ensures as much for the pictures
  it keeps. In step, the two sides agree on slots that `RefValid` has given up as
  well, since the short signalling of references looks at all hints.

It also proves that `FrontEnds`, in which a program opens a stream of one
codec, implements each of its five parts (`FrontEndsImplementParts`), and so that what is
proved of the parts holds of the composition the runs check.

Last, `StreamProofs` proves, for payloads of any length, the contract `nal.rs:82-87` states:

- `PayloadsRestored`: `ebsp_to_rbsp` takes out what `rbsp_to_ebsp` has put into any
  bytes, and the escaped bytes hold no start code and do not end in two zeros;
- `EscapesKept`: an EBSP that keeps the rules of the standards (`LegalEbsp`) is what its
  payload is escaped to.

`syntax` checks both on short payloads (the first three conjuncts about bytes of
`FramingInverse`). The two loops are functions of the number of bytes consumed, with the
values between as functions of their own (`Unescaping`, `Escaping`); that such functions
exist, and that a claim holds up to the last byte, is shown with a least number at which
it would fail (`RunsExist`, `UpTo`). `Escapable` is the invariant of the escaping loop:
its output already holds no start code, already gives back what was consumed, and ends
in as many zeros as the loop counts. `Reescapes` is that of the other direction: the
payload of the first k bytes is escaped to those bytes, or to all but an escape at their
end, which the loop only writes with the byte behind it.

The assumptions on constants that proofs rest on, and TLC evaluates: absent values
(`NoSet`, `Missing`, `None`) are not numbers (an absent reference has no picture number),
records, command loops or (`EntryAssumption`) entries of a list, as `None` is
none of the values of an `Option`; `SyncAssumption`, that a cycle is even and fits a
count and that a bottom field is less than a cycle before its top field (of H.264),
or that a range of counts and a cycle fit in 32 bits, and a picture and its set in the
buffer (of HEVC);
`Av1Assumption`, that a lossless frame has no deltas and that the frames are fewer than
order hints.

Model-checked only:

- the syntax of all codecs, codes and framing but for emulation prevention: they are built
  from operators of the community modules that take an operator (`FoldLeft`,
  `SelectSeq`), of which nothing can be proved;
- `CallsReturn`: liveness under fairness.

## 6. Not modelled

- SEI payloads: each is decoded field by field without state or choice; only their
  framing is modelled.
- The part of HEVC's slice header behind slice_pic_order_cnt_lsb: a long list of
  conditional elements with one parser and no writer, so that there is nothing in the
  crate to hold it against; what the buffer and the stream read of it is in their
  records `Header`. Of H.264's slice header, which has three parsers to hold against
  each other, the ranges of values that decide no other element.
- VP8, MPEG-2 and VC-1 beyond their start codes: single headers of fixed fields, read
  once, without a writer. The file header of IVF.
- VP9: the tables from which quantizers and filter levels of a parsed header are looked
  up, and the segmentation probabilities, which `Vp9State` keeps and never reads.
- The key counter of the H.264 buffer wraps after 2^32 pictures; keys are natural
  numbers here.
- `lib.rs` (errors): an error is the reply `Failed`, or `Rejects` and `Refuses`.
