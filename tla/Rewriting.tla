------------------------------ MODULE Rewriting ------------------------------
(***************************************************************************)
(* A program that takes a coded structure apart, changes some of its       *)
(* fields and codes it again: a transcoder, a test pattern generator, a    *)
(* tool that edits headers.  The structure in hand is one of the kinds the *)
(* syntax modules model; whatever fields were changed, in whatever order,  *)
(* the parser and the writer of its kind must be inverses of each other.   *)
(***************************************************************************)
EXTENDS Integers, Sequences, FiniteSets, Syntax

H264 == INSTANCE H264Syntax
Hevc == INSTANCE HevcSyntax
H266 == INSTANCE H266Syntax
Vvc == INSTANCE H266SpsSyntax
Pps == INSTANCE H266PpsSyntax
Av1 == INSTANCE Av1Syntax
Derived == INSTANCE Av1Frame
Vp9 == INSTANCE Vp9Syntax

CONSTANTS
    Starts,    \* kind -> the structures in hand at first
    Values,    \* kind -> field -> what a field may be changed to
    MaxEdits   \* kind -> bound on the changes

ASSUME EditsAssumption == MaxEdits \in [DOMAIN Values -> Nat]

VARIABLES kind, item, edits
vars == <<kind, item, edits>>

Init ==
    /\ kind \in DOMAIN Values
    /\ item \in Starts[kind]
    /\ edits = 0

\* The program changes one field of the structure.
Edit ==
    /\ edits < MaxEdits[kind]
    /\ \E f \in DOMAIN item : \E x \in Values[kind][f] \ {item[f]} :
         item' = [item EXCEPT ![f] = x]
    /\ edits' = edits + 1
    /\ UNCHANGED kind

Next == Edit

Spec == Init /\ [][Next]_vars

-----------------------------------------------------------------------------

\* An H.264 parameter set written by write_sps or write_pps is read back by
\* parse_sps and parse_pps_with_sps element by element, and whatever they return
\* is written as it was read: presence conditions, counts and the checks on both
\* sides agree.  Matrices of a size that does not fit the chroma format are left
\* out, see ListsFitChroma.
H264SetsInverse ==
    /\ kind = "h264_sps" =>
         Inverses(item, H264!ListsFitChroma, H264!SpsReads, H264!SpsRejects, H264!SpsImplied,
                  H264!SpsWrites, H264!SpsRefuses)
    /\ kind = "h264_pps" /\ item.pic_scaling_lists \in {0, H264!PpsLists(item)} =>
         /\ item.given.sps = 1 \/ item.pic_scaling_lists = 0 =>
              ReadsWhatIsWritten(item, H264!PpsReads, H264!PpsRejects, H264!PpsImplied,
                                 H264!PpsWrites, H264!PpsRefuses)
         /\ WritesWhatWasRead(item, H264!PpsReads, H264!PpsRejects, H264!PpsImplied,
                              H264!PpsWrites, H264!PpsRefuses)
    /\ kind = "h264_vui" => Inverses(item, Always, H264!VuiReads, Never, AsRead, H264!VuiWrites, Never)
    /\ kind = "h264_hrd" =>
         Inverses(item, Always, H264!HrdReads, H264!HrdRejects, H264!HrdImplied, H264!HrdWrites, H264!HrdRefuses)
    /\ kind = "h264_matrix" =>
         Inverses(item, Always, H264!MatrixReads, Never, H264!MatrixImplied, H264!MatrixWrites, H264!MatrixRefuses)

\* A scaling list is decoded to the coefficients it was coded from: the deltas
\* wrap around 256, in H.264 a coefficient of zero stands for the default list,
\* and the parser stops exactly where the writer did.
ListsInverse ==
    /\ kind = "h264_list" /\ H264!Returnable(item) =>
         LET got == H264!ScalingList(H264!Deltas(item), Len(item.list))
         IN  /\ got.list = item.list /\ got.use_default = item.use_default
             /\ got.unread = <<>>
    /\ kind = "hevc_list" =>
         Hevc!ListOfDeltas(Hevc!ListDeltas(item.list, item.first), item.first) = item.list

\* The same of the parameter sets of HEVC.  Three documented exceptions: extension
\* payloads the parser skips are refused by the writers, entries that inherit the
\* common part of their schedules must agree with the entry before, and the size of
\* the buffer the sets are checked against is that of the last entry.
HevcSetsInverse ==
    /\ kind = "hevc_vps" /\ item.vps_extension_flag = 0 =>
         Inverses(item, Always, Hevc!VpsReads, Hevc!VpsRejects, Hevc!VpsImplied, Hevc!VpsWrites, Hevc!VpsRefuses)
    /\ kind = "hevc_sps" /\ item.extension_4bits = 0 =>
         Inverses(item, Hevc!HighestFits, Hevc!SpsReads, Hevc!SpsRejects, Hevc!SpsImplied, Hevc!SpsWrites, Hevc!SpsRefuses)
    /\ kind = "hevc_pps" /\ item.extension_4bits = 0 =>
         Inverses(item, Always, Hevc!PpsReads, Hevc!PpsRejects, Hevc!PpsImplied, Hevc!PpsWrites, Hevc!PpsRefuses)
    /\ kind = "hevc_vui" => Inverses(item, Always, Hevc!VuiReads, Never, AsRead, Hevc!VuiWrites, Hevc!VuiRefuses)
    /\ kind = "hevc_hrd" /\ Hevc!HrdInherits(item) =>
         Inverses(item, Always, Hevc!HrdReads, Hevc!HrdRejects, Hevc!HrdImplied, Hevc!HrdWrites, Hevc!HrdRefuses)
    /\ kind = "hevc_ptl" =>
         Inverses(item, Always, Hevc!PtlReads, Never, Hevc!PtlImplied, Hevc!PtlWrites, Hevc!PtlRefuses)
    /\ kind = "hevc_lists" =>
         Inverses(item, Always, Hevc!ScalingListReads, Hevc!ScalingListRejects, AsRead,
                  Hevc!ScalingListWrites, Hevc!ScalingListRefuses)

\* A reference picture set predicted from another names every picture of the other
\* that is kept, moved by the difference, and the predicted picture itself, none
\* twice and nearest first; the derivation the writer repeats agrees, and the set
\* written explicitly is read back the same.
SetsPredicted ==
    kind = "hevc_rps" =>
        LET pictures(set) == {set.s0[i] : i \in DOMAIN set.s0} \union {set.s1[i] : i \in DOMAIN set.s1}
            flags == SubSeq(item.flags, 1, Len(item.ref.s0) + Len(item.ref.s1) + 1)
            set   == Hevc!Predicted(item.ref, item.delta, flags)
            meant == {[poc |-> p + item.delta, used |-> flags[j] = "used"] :
                         <<p, j>> \in {q \in ({item.ref.s0[i].poc : i \in DOMAIN item.ref.s0}
                                                \union {item.ref.s1[i].poc : i \in DOMAIN item.ref.s1}
                                                \union {0}) \X DOMAIN flags :
                                         /\ flags[q[2]] # "none" /\ q[1] + item.delta # 0
                                         /\ \/ q[2] <= Len(item.ref.s0) /\ item.ref.s0[q[2]].poc = q[1]
                                            \/ q[2] \in Len(item.ref.s0) + 1 .. Len(flags) - 1
                                                 /\ item.ref.s1[q[2] - Len(item.ref.s0)].poc = q[1]
                                            \/ q[2] = Len(flags) /\ q[1] = 0}}
        IN  /\ pictures(set) = meant
            /\ \A i, j \in DOMAIN set.s0 : i < j => set.s0[j].poc < set.s0[i].poc
            /\ \A i, j \in DOMAIN set.s1 : i < j => set.s1[i].poc < set.s1[j].poc
            /\ Hevc!Rederived(item.ref, item.delta, flags) = set
            /\ LET dpb == Len(set.s0) + Len(set.s1)
               IN  ~Hevc!ExplicitRefuses(set, dpb) /\ Hevc!ExplicitReads(Hevc!ExplicitWrites(set)) = set

\* The two parsers of a slice header read the same elements from the same bits.  The
\* minimal one does not take BLA pictures for decode entry points (is_irap).
MinimalAgrees ==
    kind = "hevc_slice" /\ item.dependent = 0 /\ item.given.nal # "bla" =>
        Hevc!MinimalReads(item) = Hevc!SegmentReads(item)

\* They do but for later segments of a picture whose number of units is a power of
\* two: the minimal parser then takes a bit too many for the address.
MinimalAgreesButAddress ==
    kind = "hevc_slice" /\ (item.first_segment = 1 \/ 2^Hevc!CeilLog2(item.given.ctbs) # item.given.ctbs)
        => MinimalAgrees

-----------------------------------------------------------------------------
(* H.266 *)

\* The same of H.266, whose writers leave more to their callers: what they do not
\* ask is the Fits of each structure.
H266SetsInverse ==
    /\ kind = "h266_dpb" =>
         Inverses(item, H266!DpbFits, H266!DpbReads, H266!DpbRejects, H266!DpbImplied, H266!DpbWrites, H266!DpbRefuses)
    /\ kind = "h266_general_hrd" =>
         Inverses(item, Always, H266!GeneralHrdReads, H266!GeneralHrdRejects, AsRead,
                  H266!GeneralHrdWrites, H266!GeneralHrdRefuses)
    /\ kind = "h266_ols_hrd" =>
         Inverses(item, H266!OlsHrdFits, H266!OlsHrdReads, H266!OlsHrdRejects, H266!OlsHrdImplied,
                  H266!OlsHrdWrites, H266!OlsHrdRefuses)
    /\ kind = "h266_rpl" =>
         Inverses(item, H266!RplFits, H266!RplReads, H266!RplRejects, H266!RplImplied, H266!RplWrites, H266!RplRefuses)
    /\ kind = "h266_ptl" =>
         Inverses(item, H266!PtlFits, H266!PtlReads, Never, H266!PtlImplied, H266!PtlWrites, H266!PtlRefuses)
    /\ kind = "h266_opi" /\ item.opi_extension_flag = 0 =>
         Inverses(item, Always, H266!OpiReads, Never, AsRead, H266!OpiWrites, H266!OpiRefuses)
    /\ kind = "h266_dci" /\ item.dci_extension_flag = 0 =>
         Inverses(item, Always, H266!DciReads, H266!DciRejects, AsRead, H266!DciWrites, H266!DciRefuses)
    /\ kind = "h266_aud" => Inverses(item, Always, H266!AudReads, Never, AsRead, H266!AudWrites, H266!AudRefuses)
    /\ kind = "h266_subpics" =>
         Inverses(item, Vvc!SubpicsFit, Vvc!SubpicsReads, Vvc!SubpicsRejects, Vvc!SubpicsImplied,
                  Vvc!SubpicsWrites, Vvc!SubpicsRefuses)
    /\ kind = "h266_sps" =>
         Inverses(item, Vvc!SpsFits, Vvc!SpsReads, Vvc!SpsRejects, Vvc!SpsImplied, Vvc!SpsWrites, Vvc!SpsRefuses)
    /\ kind = "h266_partition" =>
         Inverses(item, Pps!PartitionFits, Pps!PartitionReads, Pps!PartitionRejects, Pps!PartitionImplied,
                  Pps!PartitionWrites, Pps!PartitionRefuses)
    /\ kind = "h266_pps" =>
         Inverses(item, Always, Pps!PpsReads, Pps!PpsRejects, Pps!PpsImplied, Pps!PpsWrites, Pps!PpsRefuses)
    /\ kind = "h266_vps" =>
         Inverses(item, H266!VpsFits, H266!VpsReads, H266!VpsRejects, H266!VpsImplied, H266!VpsWrites, H266!VpsRefuses)
    /\ kind = "h266_aps" /\ item.extension = 0 =>
         Inverses(item, Always, H266!ApsReads, H266!ApsRejects, H266!ApsImplied, H266!ApsWrites, H266!ApsRefuses)
    /\ kind = "h266_alf" =>
         Inverses(item, Always, H266!AlfReads, H266!AlfRejects, H266!AlfImplied, H266!AlfWrites, H266!AlfRefuses)
    /\ kind = "h266_lmcs" =>
         Inverses(item, Always, H266!LmcsReads, H266!LmcsRejects, H266!LmcsImplied, H266!LmcsWrites, H266!LmcsRefuses)
    /\ kind = "h266_list" =>
         Inverses(item, Always, H266!ListReads, H266!ListRejects, H266!ListImplied, H266!ListWrites, H266!ListRefuses)

\* What write_partition accepts, parse_partition reads back, slices and all: each
\* tile_idx_delta is coded iff its flag is (src/h266/pps.rs:83), and the flag iff
\* there are more than two slices (src/h266/pps.rs:113).
PartitionsInverse ==
    kind = "h266_partition" =>
        ReadsWhatIsWritten(item, Pps!PartitionReads, Pps!PartitionRejects, Pps!PartitionImplied,
                           Pps!PartitionWrites, Pps!PartitionRefuses)

\* The walk over the rectangular slices of a picture: what the parser makes of a
\* stream of numbers the writer turns into the same numbers, and a change to one
\* slice the writer accepts is what the parser reads back.  The writer leaves two
\* things to its caller: a height that is not coded is the one it is inferred from,
\* and so is tile_idx_delta_present_flag.  Slices that follow each other without
\* tile_idx_delta stay in the grid and never share a tile.
SlicesWalked ==
    kind = "h266_slices" =>
        LET g      == item.given
            parsed == Pps!AsParsed(g)
            walk   == Pps!ReadSlices(g, item.codes)
            used   == SubSeq(item.codes, 1, Len(item.codes) - Len(walk.codes))
            changed == {[walk.entries EXCEPT ![i] = e] : <<i, e>> \in (DOMAIN walk.entries) \X
                          [w : 0 .. 1, h : 0 .. 1, heights : {<<>>, << <<>> >>, << <<1>> >>, << <<2>> >>}, delta : {<<>>, <<-1>>, <<1>>, <<2>>}]}
        IN  walk.ok =>
              /\ Pps!WriteSlices(parsed, walk.entries).ok /\ Pps!WriteSlices(parsed, walk.entries).codes = used
              /\ g = parsed =>
                   \A entries \in changed :
                      LET written == Pps!WriteSlices(g, entries)
                          back    == Pps!ReadSlices(g, written.codes)
                      IN  written.ok /\ Pps!HeightsInherited(g, entries) => back.ok /\ back.entries = entries /\ back.codes = <<>>
              /\ parsed.delta = 0 => Pps!Apart(g, walk.entries)

\* The tiles of an axis have the sizes that were given, as far as they go, and fill
\* the picture exactly; a tile is split into as many slices as it has heights.
TilesCover ==
    kind = "h266_tiles" =>
        LET sizes == Pps!TileSizes(item.explicit, item.total, item.max)
        IN  /\ sizes # <<>> =>
                 /\ FoldLeft(LAMBDA a, b : a + b, 0, sizes) = item.total
                 /\ IsPrefix(item.explicit, sizes) /\ Len(sizes) <= item.max
                 /\ \A i \in DOMAIN sizes : sizes[i] > 0 /\ (i > Len(item.explicit) => sizes[i] <= Last(item.explicit))
                 /\ Pps!SlicesInTile(item.explicit, item.total) = Len(sizes)
            /\ sizes = <<>> => FoldLeft(LAMBDA a, b : a + b, 0, item.explicit) > item.total
                                 \/ Pps!SlicesInTile(item.explicit, item.total) > item.max

\* The subpictures of one size tile the picture: every coding tree unit is in one of
\* them and in no other.
SubpicsTile ==
    kind = "h266_grid" =>
        LET places == Vvc!Grid(item.num_minus1, item.first, item.w, item.h)
            holds(p, x, y) == x \in p.x .. p.x + p.w - 1 /\ y \in p.y .. p.y + p.h - 1
        IN  places # <<>> =>
              \A x \in 0 .. item.w - 1, y \in 0 .. item.h - 1 :
                 \E i \in DOMAIN places : \A j \in DOMAIN places : holds(places[j], x, y) <=> i = j

\* A layer depends on the layers it is predicted from, theirs, and so on; and there
\* are as many output layer sets with a buffer of their own as include more than one
\* layer: all layers up to theirs in the modes that say nothing else, in the explicit
\* one the output layers and whatever lies on a path from them.
OutputLayerSets ==
    kind = "h266_vps" /\ item.layers # <<>> =>
        LET n == Len(item.layers)
            direct == [p \in (0 .. n - 1) \X (0 .. n - 1) |-> p[2] \in H266!DirectRefs(item.layers, p[1])]
            paths  == {s \in UNION {[1 .. k -> 0 .. n - 1] : k \in 1 .. n} :
                         \A i \in 1 .. Len(s) - 1 : direct[s[i], s[i + 1]]}
            reached(from) == {Last(s) : s \in {t \in paths : t[1] \in from}}
            outputs(row) == {k \in 0 .. n - 1 : row[k + 1] = 1}
            sets == CASE item.each_layer_is_an_ols = 1 -> [i \in 1 .. n |-> {i - 1}]
                      [] item.each_layer_is_an_ols = 0 /\ item.ols_mode_idc # 2 -> [i \in 1 .. n |-> 0 .. i - 1]
                      [] OTHER -> <<{0}>> \o [i \in DOMAIN item.rows |-> reached(outputs(item.rows[i]))]
            info == H266!OlsInfo(item)
        IN  /\ \A i \in 1 .. n : H266!Dependencies(item.layers)[i] \cup {i - 1} = reached({i - 1})
            /\ info.total # 0 =>
                 /\ info.total = Len(sets)
                 /\ info.multi = Cardinality({i \in DOMAIN sets : Cardinality(sets[i]) > 1})

\* The picture header is the same to the parser that is given the SPS and to the one
\* that is not, as far as the latter goes; only the former finds where a gradual
\* refresh ends, and always does.
HeadersAgree ==
    kind = "h266_header" =>
        /\ IsPrefix(H266!HeaderReads(item), H266!HeaderWithSpsReads(item))
        /\ H266!HeaderRejects(item) <=> H266!HeaderWithSpsRejects(item)
        /\ "ph_recovery_poc_cnt" \in Names(H266!HeaderWithSpsReads(item)) <=> H266!IsGdr(item)

\* The scaling lists of H.266: differences along the diagonals of a block, with
\* the quadrant that is left out repeating the sum, give back the coefficients they
\* were taken of; the scan goes through every position of the block, diagonal by
\* diagonal.
DiagonalLists ==
    /\ kind = "h266_coefs" =>
         LET deltas == H266!Differences(item.list, item.dc, item.skipped)
         IN  deltas # H266!Failure => H266!Accumulated(deltas, item.dc, item.skipped, Len(item.list)) = item.list
    /\ kind = "h266_scan" =>
         LET scan == H266!DiagScan(item.size)
         IN  /\ ToSet(scan) = (0 .. item.size - 1) \X (0 .. item.size - 1) /\ Len(scan) = item.size * item.size
             /\ \A i \in 1 .. Len(scan) - 1 :
                  LET a == scan[i]
                      b == scan[i + 1]
                  IN  a[1] + a[2] < b[1] + b[2] \/ (a[1] + a[2] = b[1] + b[2] /\ a[1] < b[1])

-----------------------------------------------------------------------------
(* The structures of AV1, the derivations of its frame header against what they are  *)
(* for, and the key frames of VP9                                                    *)

Sum(numbers) == FoldLeft(LAMBDA a, b : a + b, 0, numbers)

\* The same of the sequence header and the metadata of AV1, as far as the writer
\* has a field for what the bits hold (one operating point, no decoder model); and
\* what the parser of src/av1.rs accepts, the one of src/av1/sequence.rs reads
\* element by element the same, which refuses nothing else but identifiers of more
\* than 16 bits.
Av1HeadersInverse ==
    /\ kind = "av1_seq" =>
         /\ Inverses(item, Av1!OnePoint, Av1!SequenceReads, Av1!SequenceRejects, Av1!SequenceImplied,
                     Av1!SequenceWrites, Av1!SequenceRefuses)
         /\ ~Av1!SequenceRejects(item) =>
              /\ Av1!FullSequenceReads(item) = Av1!SequenceReads(item)
              /\ Av1!FullSequenceRejects(item) =>
                   item.delta_frame_id_length_minus_2 + item.additional_frame_id_length_minus_1 + 3 > 16
    /\ kind = "av1_meta" =>
         Inverses(item, Always, Av1!MetadataReads, Never, Av1!MetadataImplied, Av1!MetadataWrites, Av1!MetadataRefuses)

\* The same of the header of a VP9 key frame, and more: every field the writer accepts
\* is what the parser returns for it.  Streams that code what need not be coded are
\* written without it; RGB in a profile without sampling is read and never written.
Vp9HeadersInverse ==
    kind = "vp9_key" =>
        LET read     == Vp9!HeaderReads(item)
            written  == Vp9!HeaderWrites(item)
            returned == item = Vp9!HeaderImplied(read, Received(read, item))
        IN  /\ ~Vp9!HeaderRefuses(item) /\ Vp9!SegmentationFits(item) =>
                 /\ item = Vp9!HeaderImplied(written, Received(written, item))
                 /\ ~Vp9!HeaderRejects(item)
                 /\ item.given.all = 0 => read = written
            /\ ~Vp9!HeaderRejects(item) /\ ~Vp9!FullColorRejects(item) /\ returned => ~Vp9!HeaderRefuses(item)

\* Both parsers of VP9 read a key frame from the same elements; the complete one
\* refuses it for an RGB that its profile does not have, which the writer refuses as
\* well, or when nothing follows it.
Vp9HeadersAgree ==
    kind = "vp9_key" /\ ~Vp9!HeaderRejects(item) =>
        LET read == Vp9!HeaderReads(item)
        IN  item = Vp9!HeaderImplied(read, Received(read, item)) =>
              /\ Vp9!FullHeaderReads(item) = read
              /\ Vp9!FullHeaderRejects(item) <=> item.compressed_header_size = 0 \/ Vp9!HeaderRefuses(item)

\* What a reduced_still_picture_header infers instead of reading it.
Inferred == {"show_existing_frame", "frame_type", "show_frame", "frame_size_override_flag", "disable_frame_end_update_cdf"}

\* The frame header of a still picture holds the elements of a shown key frame in
\* the same order, less the inferred ones, and both parsers agree on it; the header
\* of a frame that names no primary reference is read the same whatever the
\* reference slots hold.
FrameHeadersAgree ==
    kind = "av1_frame" /\ item.show_existing_frame = 0 =>
        LET still == [item EXCEPT !.given.reduced = 1]
            short == Av1!FrameReads(still)
        IN  /\ item.frame_type = Av1!KeyFrame /\ item.show_frame = 1 /\ item.frame_size_override_flag = 0
                 /\ item.given.id_bits = 0 /\ item.given.order_hint_bits = 0 =>
                 /\ short = SelectSeq(Av1!FrameReads(item), LAMBDA e : e.name \notin Inferred)
                 /\ Av1!Scaled(item) \/ IsPrefix(Av1!KeyFrameReads(still), short)
            /\ Av1!Primary(item) = Av1!NoPrimary =>
                 \A q \in {-255, 0, 255} :
                    Av1!FrameReads([item EXCEPT !.given.loaded_q = q]) = Av1!FrameReads(item)

\* The parser of src/av1.rs reads the first elements of the header of a shown key
\* frame, up to allow_intrabc, as the complete one does, but that it takes
\* error_resilient_mode from the header, which has none.
KeyHeadersAgree ==
    LET elements == SelectSeq(Av1!KeyFrameReads(item), LAMBDA e : e.name # "error_resilient_mode")
    IN  kind = "av1_frame" /\ item.show_existing_frame = 0 /\ item.frame_type = Av1!KeyFrame /\ item.show_frame = 1
          => Av1!Scaled(item) \/ IsPrefix(elements, Av1!FrameReads(item))

\* The references set_frame_refs derives: the two that are coded, as coded; no slot
\* twice as long as there is another, except the oldest one; the backward references
\* in display order and ALTREF the last picture of all; LAST2 and LAST3 the nearest
\* pictures before that are free.  The pair of skip mode is the nearest picture on
\* either side, or the two nearest before.
ReferencesChosen ==
    /\ kind = "av1_refs" =>
         LET refs    == Derived!SetFrameRefs(item.bits, item.hints, item.current, item.last, item.gold)
             dist(s) == Derived!RelativeDist(item.bits, item.hints[s], item.current)
             free    == DOMAIN item.hints \ {item.last, item.gold}
             after   == {s \in free : dist(s) >= 0}
             before  == free \ after
             oldest  == {s \in DOMAIN item.hints : \A t \in DOMAIN item.hints : dist(s) <= dist(t)}
             twice   == {<<n, m>> \in (1 .. 7) \X (1 .. 7) : n < m /\ refs[n] = refs[m] /\ <<n, m>> # <<1, 4>>}
         IN  /\ refs[1] = item.last /\ refs[4] = item.gold
             /\ \A p \in twice : refs[p[1]] \in oldest
             /\ after # {} => refs[7] \in after /\ \A s \in after : dist(s) <= dist(refs[7])
             /\ Cardinality(after) <= 3 => after \subseteq {refs[n] : n \in 5 .. 7}
             /\ Cardinality(after) >= 3 =>
                  /\ dist(refs[5]) <= dist(refs[6]) /\ dist(refs[6]) <= dist(refs[7])
                  /\ \A s \in after : dist(s) < dist(refs[6]) => s = refs[5]
             /\ Cardinality(before) >= 2 =>
                  /\ {refs[2], refs[3]} \subseteq before /\ dist(refs[3]) <= dist(refs[2])
                  /\ \A s \in before \ {refs[2], refs[3]} : dist(s) <= dist(refs[3])
    /\ kind = "av1_skip" =>
         LET pair    == Derived!SkipModeFrames(4, item.refHints, 0)
             dist(n) == Derived!RelativeDist(4, item.refHints[n], 0)
             nearest(S) == {n \in S : \A m \in S : IF dist(n) < 0 THEN dist(m) <= dist(n) ELSE dist(m) >= dist(n)}
             before  == {n \in 1 .. 7 : dist(n) < 0}
             after   == {n \in 1 .. 7 : dist(n) > 0}
             second  == before \ nearest(before)
         IN  IF before = {} \/ after \union second = {} THEN pair = <<>>
             ELSE /\ pair[1] < pair[2]
                  /\ ToSet(pair) \intersect nearest(before) # {}
                  /\ ToSet(pair) \intersect nearest(IF after # {} THEN after ELSE second) # {}

\* A slot keeps its frame exactly as long as its identifier lies no more than
\* 2^diffBits behind the current one, counted around the end of the identifiers.
IdsExpire ==
    kind = "av1_ids" =>
        (Derived!IdKept(item.idBits, item.diffBits, item.current, item.id)
           <=> (item.current - item.id) % 2^item.idBits <= 2^item.diffBits)

\* Tiles divide the frame: they start at 0, none is empty or wider than allowed, a
\* tile number fits the bits a tile group codes it with.  The tiles of a group lie
\* behind each other between its header and its end, of the sizes that were coded.
TilesPartition ==
    /\ kind = "av1_tiles" =>
         LET info == Derived!TileInfo(item.given, item.uniform, item.codes)
             extent(starts, total) == [i \in DOMAIN starts |-> (IF i = Len(starts) THEN total ELSE starts[i + 1]) - starts[i]]
         IN  info.cols # <<>> =>
               LET widths  == extent(info.cols, item.given.cols)
                   heights == extent(info.rows, item.given.rows)
               IN  /\ info.cols[1] = 0 /\ info.rows[1] = 0
                   /\ \A w \in ToSet(widths) : w \in 1 .. item.given.maxWidth
                   /\ \A h \in ToSet(heights) : h >= 1
                   /\ Len(widths) \in 1 .. 2^info.colsLog2 /\ Len(heights) \in 1 .. 2^info.rowsLog2
                   /\ Len(widths) <= item.given.maxTiles /\ Len(heights) <= item.given.maxTiles
    /\ kind = "av1_group" =>
         LET tiles == Len(item.sizes)
             g     == [cols |-> 2, rows |-> 2, start |-> item.start, end |-> item.start + tiles - 1, at |-> item.at,
                       fieldBytes |-> item.fieldBytes,
                       length |-> item.at + Sum(item.sizes) + (tiles - 1) * item.fieldBytes - item.missing]
             read  == Derived!TileGroup(g, [i \in 1 .. tiles - 1 |-> item.sizes[i] - 1])
         IN  IF g.end > 3 \/ item.missing >= Last(item.sizes) THEN read = <<>>
             ELSE /\ Len(read) = tiles /\ Last(read).offset + Last(read).size = g.length
                  /\ \A i \in 1 .. tiles :
                       /\ read[i].num = item.start + i - 1 /\ read[i].num = 2 * read[i].row + read[i].col
                       /\ i < tiles => read[i].size = item.sizes[i]
                                         /\ read[i].offset + read[i].size + (IF i + 1 < tiles THEN item.fieldBytes ELSE 0)
                                              = read[i + 1].offset

\* A code against a reference value reaches every value of the range and each by one
\* code only; a global motion parameter is, whatever model and precision it was coded
\* with, in range as the reference of the next one of its kind.
ParametersRecentered ==
    /\ kind = "av1_recentered" =>
         LET range == item.low .. item.low + item.size - 1
         IN  \A ref \in range :
               {Derived!WithRef(item.low, item.low + item.size, ref, v) : v \in 0 .. item.size - 1} = range
    /\ kind = "av1_subexp" =>
         {Derived!Subexp(item.symbols, [i \in 1 .. ones |-> 1] \o tail) :
             ones \in 0 .. 4, tail \in {<<0, x>> : x \in 0 .. item.symbols} \union {<<x>> : x \in 0 .. item.symbols}}
           = 0 .. item.symbols - 1
    /\ kind = "av1_param" =>
         LET width(p) == Derived!ParamBits(p.translation, item.index, p.precise)
             value(b) == Derived!GlobalParam(b.translation, item.index, b.precise, b.prev, b.v)
             first    == value(item.first @@ [prev |-> IF item.index % 3 = 2 THEN 2^16 ELSE 0])
             ref      == (first \div 2^(16 - width(item.next).prec))
                           - (IF item.index % 3 = 2 THEN 2^width(item.next).prec ELSE 0)
         IN  item.first.v <= 2 * 2^width(item.first).abs => ref \in -(2^width(item.next).abs) .. 2^width(item.next).abs

=============================================================================
