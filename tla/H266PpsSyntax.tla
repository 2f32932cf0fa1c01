---------------------------- MODULE H266PpsSyntax ----------------------------
(***************************************************************************)
(* The picture parameter set of H.266 (src/h266/pps.rs): parser and        *)
(* writer, the sizes of tiles, and the walk over rectangular slices.       *)
(***************************************************************************)
LOCAL INSTANCE Syntax
LOCAL INSTANCE Integers
LOCAL INSTANCE Sequences
LOCAL INSTANCE SequencesExt
LOCAL INSTANCE FiniteSetsExt

-----------------------------------------------------------------------------
(* tiles *)

Sum(sizes) == FoldLeft(LAMBDA a, b : a + b, 0, sizes)

Overrun == <<>>

\* derive_tile_sizes: the explicit sizes, then the last of them as often as it
\* fits, then the remainder; nothing when that fails.
TileSizes(explicit, total, max) ==
    LET left    == total - Sum(explicit)
        uniform == Last(explicit)
        sizes   == explicit \o [i \in 1 .. left \div uniform |-> uniform]
                     \o (IF left % uniform > 0 THEN <<left % uniform>> ELSE <<>>)
    IN  IF left < 0 \/ Len(sizes) > max THEN Overrun ELSE sizes

\* num_slices_in_tile, zero when the heights overrun the tile.
SlicesInTile(heights, row) ==
    LET left    == row - Sum(heights)
        uniform == Last(heights)
    IN  IF heights = <<>> THEN 1
        ELSE IF left < 0 THEN 0
        ELSE Len(heights) + left \div uniform + (IF left % uniform > 0 THEN 1 ELSE 0)

-----------------------------------------------------------------------------
(* rectangular slices: a grid [cols, rows, delta, num], rows being the       *)
(* heights of the tile rows, delta tile_idx_delta_present_flag and num the   *)
(* number of slices minus one                                                *)

Tiles(g) == g.cols * Len(g.rows)

WidthCoded(g, tile) == tile % g.cols # g.cols - 1
HeightCoded(g, tile) ==
    tile \div g.cols # Len(g.rows) - 1 /\ (g.delta = 1 \/ tile % g.cols = 0)

\* A slice of one tile that is more than one unit high may be several slices.
Splits(g, tile, w, h) == w = 0 /\ h = 0 /\ g.rows[tile \div g.cols + 1] > 1

\* Mutant: a slice of several tile rows is followed in its first row.
DefaultAdvanceInRow(g, tile, w, h) == tile + w + 1

DefaultAdvance(g, tile, w, h) ==
    LET next == tile + w + 1
    IN  IF next % g.cols = 0 THEN next + h * g.cols ELSE next

DeltaAllowed(g, tile, delta) ==
    delta # 0 /\ delta \in -(Tiles(g) - 1) .. Tiles(g) - 1 /\ tile + delta \in 0 .. Tiles(g) - 1

\* Steps of one slice.  An option is <<>> or <<its value>>.
Absent == <<>>
NoSlices == [ok |-> TRUE, i |-> 0, tile |-> 0, height |-> 0, entries |-> <<>>, codes |-> <<>>]
Failed(s) == [s EXCEPT !.ok = FALSE, !.i = 1000]

\* What follows the sizes of a slice in both walks.
Advance(g, s, e, n) ==
    LET last == s.i + n - 1
        next == IF g.delta = 1 /\ e.delta # Absent THEN s.tile + e.delta[1] ELSE DefaultAdvance(g, s.tile, e.w, e.h)
    IN  IF last >= g.num THEN [s EXCEPT !.i = last + 1, !.entries = Append(@, e)]
        ELSE IF (IF g.delta = 1 THEN DeltaAllowed(g, s.tile, e.delta[1]) ELSE next < Tiles(g))
          THEN [s EXCEPT !.i = last + 1, !.tile = next, !.entries = Append(@, e),
                         !.height = IF n > 1 THEN 0 ELSE e.h]
          ELSE Failed(s)

\* The parser takes the numbers of a slice from the front of codes; a stream that
\* ends is an error.
Take(codes) == IF codes = <<>> THEN -1 ELSE Head(codes)
Rest(codes) == IF codes = <<>> THEN <<>> ELSE Tail(codes)

ReadSlice(g, s) ==
    LET x == s.tile % g.cols
        y == s.tile \div g.cols
        w == IF WidthCoded(g, s.tile) THEN Take(s.codes) ELSE 0
        afterW == IF WidthCoded(g, s.tile) THEN Rest(s.codes) ELSE s.codes
        h == IF HeightCoded(g, s.tile) THEN Take(afterW)
             ELSE IF y = Len(g.rows) - 1 THEN 0 ELSE s.height
        afterH == IF HeightCoded(g, s.tile) THEN Rest(afterW) ELSE afterW
        splits == Splits(g, s.tile, w, h)
        row    == g.rows[y + 1]
        count  == IF splits THEN Take(afterH) ELSE 0
        inRow  == splits => count \in 0 .. row - 1 /\ Len(afterH) > count
        heights == IF splits THEN [i \in 1 .. count |-> afterH[i + 1] + 1] ELSE <<>>
        after   == IF splits THEN SubSeq(afterH, count + 2, Len(afterH)) ELSE afterH
        n       == IF splits THEN SlicesInTile(heights, row) ELSE 1
        coded   == g.delta = 1 /\ s.i + n - 1 < g.num
        delta   == IF coded THEN IF after = <<>> THEN <<0>> ELSE <<Head(after)>> ELSE Absent
        e       == [w |-> w, h |-> h, heights |-> IF splits THEN <<heights>> ELSE Absent, delta |-> delta]
    IN  IF /\ w \in 0 .. g.cols - x - 1 /\ h \in 0 .. Len(g.rows) - y - 1
           /\ inRow /\ \A i \in DOMAIN heights : heights[i] \in 1 .. row
           /\ n > 0 /\ s.i + n - 1 <= g.num
          THEN Advance(g, [s EXCEPT !.codes = IF coded THEN Rest(after) ELSE after], e, n)
          ELSE Failed(s)

\* The writer takes the entry of a slice and appends its numbers to codes.
WriteSlice(g, entries, s) ==
    LET e == entries[Len(s.entries) + 1]
        x == s.tile % g.cols
        y == s.tile \div g.cols
        row    == g.rows[y + 1]
        splits == Splits(g, s.tile, e.w, e.h)
        n      == IF splits THEN SlicesInTile(e.heights[1], row) ELSE 1
        codes  == When(WidthCoded(g, s.tile), <<e.w>>) \o When(HeightCoded(g, s.tile), <<e.h>>)
                    \o When(splits, <<Len(e.heights[1])>> \o [i \in DOMAIN e.heights[1] |-> e.heights[1][i] - 1])
                    \o e.delta
    IN  IF /\ Len(s.entries) < Len(entries)
           /\ e.w < g.cols - x /\ e.h < Len(g.rows) - y
           /\ splits <=> e.heights # Absent
           /\ splits => Len(e.heights[1]) < row /\ \A i \in DOMAIN e.heights[1] : e.heights[1][i] <= row
           /\ n > 0 /\ s.i + n - 1 <= g.num
           /\ e.delta # Absent <=> g.delta = 1 /\ s.i + n - 1 < g.num
          THEN Advance(g, [s EXCEPT !.codes = @ \o codes], e, n)
          ELSE Failed(s)

\* The loops: a step for every slice but the last, which takes what is left.
SlicesOf(g, codes) ==
    FoldLeft(LAMBDA s, k : IF s.i < g.num THEN ReadSlice(g, s) ELSE s,
             [NoSlices EXCEPT !.codes = codes], [k \in 1 .. g.num |-> k])

\* The parser's flag is coded for more than two slices only, otherwise zero; the
\* writer goes by the flag it is given.
DeltaCoded(num) == num > 1

AsParsed(g) == [g EXCEPT !.delta = IF DeltaCoded(g.num) THEN @ ELSE 0]

ReadSlices(g, codes) == SlicesOf(AsParsed(g), codes)

WriteSlices(g, entries) ==
    LET s == FoldLeft(LAMBDA s, k : IF s.i < g.num THEN WriteSlice(g, entries, s) ELSE s,
                      NoSlices, [k \in 1 .. g.num |-> k])
    IN  IF s.ok /\ Len(s.entries) < Len(entries) THEN Failed(s) ELSE s

\* Where the slices of entries lie: the first tile of each, and the height of the
\* slice before it.
Placed(g, entries) ==
    FoldLeft(LAMBDA s, e :
                [tile   |-> IF e.delta # Absent THEN s.tile + e.delta[1] ELSE DefaultAdvance(g, s.tile, e.w, e.h),
                 height |-> e.h,
                 out    |-> Append(s.out, [tile |-> s.tile, height |-> s.height, e |-> e])],
             [tile |-> 0, height |-> 0, out |-> <<>>], entries).out

\* The writer does not compare a height it does not code with what the parser infers.
HeightsInherited(g, entries) ==
    \A i \in DOMAIN entries :
        LET p == Placed(g, entries)[i]
        IN  HeightCoded(g, p.tile) \/ p.tile \div g.cols = Len(g.rows) - 1 \/ p.e.h = p.height

\* No tile belongs to two slices.
TilesOf(g, p) == {p.tile + a + g.cols * b : <<a, b>> \in (0 .. p.e.w) \X (0 .. p.e.h)}

Apart(g, entries) ==
    LET placed == Placed(g, entries)
    IN  \A i, j \in DOMAIN placed :
           /\ TilesOf(g, placed[i]) \subseteq 0 .. Tiles(g) - 1
           /\ i # j => TilesOf(g, placed[i]) \intersect TilesOf(g, placed[j]) = {}

-----------------------------------------------------------------------------
(* the partition of a picture, which is given in units of 32 samples; its     *)
(* slices are held as the numbers they are coded with                         *)

MaxTileCols == 30
MaxTiles == 990
MaxSlices == 999

Ctbs(v, samples) == (samples + 2^v.log2_ctu_size_minus5 - 1) \div 2^v.log2_ctu_size_minus5

ColumnWidths(v) == TileSizes(v.column_widths, Ctbs(v, v.given.w), MaxTileCols)
RowHeights(v) == TileSizes(v.row_heights, Ctbs(v, v.given.h), MaxTiles \div Len(ColumnWidths(v)))

\* What both sides check of the tiles; an empty list only the writer can be given.
TilesDerived(v) ==
    /\ v.log2_ctu_size_minus5 <= 2
    /\ v.column_widths # <<>> /\ \A w \in ToSet(v.column_widths) : w <= Ctbs(v, v.given.w)
    /\ v.row_heights # <<>> /\ \A h \in ToSet(v.row_heights) : h <= Ctbs(v, v.given.h)
    /\ ColumnWidths(v) # Overrun /\ RowHeights(v) # Overrun

Grid(v) == [cols |-> Len(ColumnWidths(v)), rows |-> RowHeights(v),
            delta |-> v.tile_idx_delta_present_flag, num |-> v.num_slices_in_pic_minus1]

Explicit(v) == v.rect_slice_flag = 1 /\ v.single_slice_per_subpic_flag = 0

\* The numbers the parser takes for the slices, and those the writer makes of them.
NumbersRead(v) ==
    LET walk == ReadSlices(Grid(v), v.rect_slices)
    IN  SubSeq(v.rect_slices, 1, Len(v.rect_slices) - Len(walk.codes))

Written(v) == WriteSlices(Grid(v), SlicesOf(Grid(v), v.rect_slices).entries)

Numbers(codes) == [i \in DOMAIN codes |-> [code |-> "number", bits |-> codes[i], name |-> "rect_slices"]]

PartitionReads(v) ==
    U(2, <<"log2_ctu_size_minus5">>) \o Count(0, "column_widths") \o Count(0, "row_heights")
      \o Times(Len(v.column_widths), UE(<<"column_width">>)) \o Times(Len(v.row_heights), UE(<<"row_height">>))
      \o When(Tiles(Grid(v)) > 1, Flags(<<"loop_filter_across_tiles", "rect_slice_flag">>))
      \o When(v.rect_slice_flag = 1, Flags(<<"single_slice_per_subpic_flag">>))
      \o When(Explicit(v),
              UE(<<"num_slices_in_pic_minus1">>)
                \o When(DeltaCoded(v.num_slices_in_pic_minus1), Flags(<<"tile_idx_delta_present_flag">>))
                \o Numbers(NumbersRead(v)))
      \o When(v.rect_slice_flag = 0 \/ v.single_slice_per_subpic_flag = 1 \/ v.num_slices_in_pic_minus1 > 0,
              Flags(<<"loop_filter_across_slices">>))

PartitionRejects(v) ==
    \/ ~TilesDerived(v)
    \/ Explicit(v) /\ (v.num_slices_in_pic_minus1 > MaxSlices \/ ~ReadSlices(Grid(v), v.rect_slices).ok)

SlicesAmong(elements) ==
    LET found == SelectSeq(elements, LAMBDA e : e.name = "rect_slices")
    IN  [i \in DOMAIN found |-> found[i].bits]

\* One tile is one rectangle; the slices are those of the numbers that were coded.
PartitionImplied(elements, v) ==
    [v EXCEPT !.rect_slice_flag = IF "rect_slice_flag" \in Names(elements) THEN @ ELSE 1,
              !.rect_slices = SlicesAmong(elements)]

PartitionWrites(v) ==
    U(2, <<"log2_ctu_size_minus5">>) \o Count(0, "column_widths") \o Count(0, "row_heights")
      \o Times(Len(v.column_widths), UE(<<"column_width">>)) \o Times(Len(v.row_heights), UE(<<"row_height">>))
      \o When(Tiles(Grid(v)) > 1, Flags(<<"loop_filter_across_tiles", "rect_slice_flag">>))
      \o When(v.rect_slice_flag = 1, Flags(<<"single_slice_per_subpic_flag">>))
      \o When(Explicit(v),
              UE(<<"num_slices_in_pic_minus1">>)
                \o When(v.num_slices_in_pic_minus1 > 1, Flags(<<"tile_idx_delta_present_flag">>))
                \o Numbers(Written(v).codes))
      \o When(v.rect_slice_flag = 0 \/ v.single_slice_per_subpic_flag = 1 \/ v.num_slices_in_pic_minus1 > 0,
              Flags(<<"loop_filter_across_slices">>))

PartitionRefuses(v) ==
    \/ ~TilesDerived(v)
    \/ Tiles(Grid(v)) = 1 /\ v.rect_slice_flag = 0
    \/ IF Explicit(v) THEN v.num_slices_in_pic_minus1 > MaxSlices \/ ~Written(v).ok ELSE v.rect_slices # <<>>

\* tile_idx_delta_present_flag has its inferred value where it is not coded; the
\* writer does not look.
PartitionFits(v) == v.tile_idx_delta_present_flag = 1 => DeltaCoded(v.num_slices_in_pic_minus1)

-----------------------------------------------------------------------------
(* picture parameter sets, the partition a structure of its own *)

EndsInZero == 2

OffsetsReads(v) ==
    SE(<<"qp_offset", "cr_qp_offset">>) \o Gated(v, "joint", SE(<<"joint_cbcr_qp_offset_value">>))
      \o Flags(<<"slice_chroma_qp_offsets_present_flag", "list_enabled">>)
      \o When(v.list_enabled = 1,
              Count(0, "list") \o Times(v.list, SE(<<"cb_qp_offset_list", "cr_qp_offset_list">>)
                                                  \o When(v.joint = 1, SE(<<"joint_cbcr_qp_offset_list">>))))

DeblockingReads(v) ==
    Flags(<<"override", "disabled">>)
      \o When(v.no_pic_partition = 0 /\ v.override = 1, Flags(<<"dbf_info_in_ph_flag">>))
      \o When(v.disabled = 0,
              SE(<<"luma_offset", "luma_tc_offset_div2">>)
                \o When(v.chroma_tool_offsets = 1,
                        SE(<<"chroma_offset", "cb_tc_offset_div2", "cr_beta_offset_div2", "cr_tc_offset_div2">>)))

InHeaderReads(v) ==
    Flags(<<"rpl_info_in_ph", "sao_info_in_ph_flag", "alf_info_in_ph_flag">>)
      \o When((v.weighted_pred = 1 \/ v.weighted_bipred = 1) /\ v.rpl_info_in_ph = 1, Flags(<<"wp_info_in_ph_flag">>))
      \o Flags(<<"qp_delta_info_in_ph_flag">>)

PpsReads(v) ==
    U(6, <<"pic_parameter_set_id">>) \o U(4, <<"seq_parameter_set_id">>) \o Flags(<<"mixed_nalu_types_in_pic_flag">>)
      \o UE(<<"pic_width", "pic_height">>)
      \o Gated(v, "conf_win", UE(<<"left", "right", "top", "bottom">>))
      \o Gated(v, "scaling_win", SE(<<"left", "right", "top", "bottom">>))
      \o Flags(<<"output_flag_present_flag", "no_pic_partition">>)
      \o Gated(v, "subpic_id_mapping",
               When(v.no_pic_partition = 0, UE(<<"num_subpics_minus1">>)) \o UE(<<"subpic_id_len_minus1">>)
                 \o Times(v.num_subpics_minus1 + 1, U(v.subpic_id_len_minus1 + 1, <<"subpic_id">>)))
      \o When(v.no_pic_partition = 0, Sub("partition", 0))
      \o Flags(<<"cabac_init_present_flag">>) \o UE(<<"num_ref_idx0", "num_ref_idx1">>)
      \o Flags(<<"rpl1_idx_present_flag", "weighted_pred", "weighted_bipred">>)
      \o Gated(v, "wraparound", UE(<<"pic_width_minus_wraparound_offset">>))
      \o SE(<<"init_qp_minus26">>) \o Flags(<<"cu_qp_delta_enabled_flag">>)
      \o Gated(v, "chroma_tool_offsets", OffsetsReads(v))
      \o Gated(v, "deblocking", DeblockingReads(v))
      \o When(v.no_pic_partition = 0, InHeaderReads(v))
      \o Flags(<<"picture_header_extension_present_flag", "slice_header_extension_present_flag">>)
      \o Gated(v, "extension", Sub("extension_data", v.extension_data))

OffsetInRange(x) == x \in -12 .. 12

\* What both sides check; every offset is checked as the one that stands for it.
PpsInRange(v) ==
    /\ v.pic_width > 0
    /\ v.subpic_id_mapping = 1 => v.num_subpics_minus1 <= MaxSlices /\ v.subpic_id_len_minus1 <= 15
    /\ v.num_ref_idx0 <= 14 /\ v.num_ref_idx1 <= 14
    /\ v.chroma_tool_offsets = 1 => OffsetInRange(v.qp_offset) /\ (v.list_enabled = 1 => v.list \in 1 .. 6)
    /\ v.deblocking = 1 /\ v.disabled = 0 =>
         /\ OffsetInRange(v.luma_offset)
         /\ v.chroma_tool_offsets = 1 => OffsetInRange(v.chroma_offset)

PpsRejects(v) == ~PpsInRange(v) \/ (v.extension = 1 /\ v.extension_data = EndsInZero)

\* What is kept of lists and options, and the chroma offsets, which follow those of
\* luma when they are not coded.
PpsImplied(elements, v) ==
    [v EXCEPT !.partition = 1 - v.no_pic_partition,
              !.ids = IF v.subpic_id_mapping = 1 THEN v.num_subpics_minus1 + 1 ELSE 0,
              !.list_joint = IF v.list_enabled = 1 THEN v.joint ELSE 0,
              !.chroma_offset = IF "chroma_offset" \in Names(elements) THEN @ ELSE v.luma_offset]

OffsetsWrites(v) ==
    SE(<<"qp_offset", "cr_qp_offset">>) \o Gated(v, "joint", SE(<<"joint_cbcr_qp_offset_value">>))
      \o Flags(<<"slice_chroma_qp_offsets_present_flag", "list_enabled">>)
      \o When(v.list_enabled = 1,
              Count(0, "list") \o Times(v.list, SE(<<"cb_qp_offset_list", "cr_qp_offset_list">>)
                                                  \o When(v.list_joint = 1, SE(<<"joint_cbcr_qp_offset_list">>))))

DeblockingWrites(v) ==
    Flags(<<"override", "disabled">>)
      \o When(v.no_pic_partition = 0 /\ v.override = 1, Flags(<<"dbf_info_in_ph_flag">>))
      \o When(v.disabled = 0,
              SE(<<"luma_offset", "luma_tc_offset_div2">>)
                \o When(v.chroma_tool_offsets = 1,
                        SE(<<"chroma_offset", "cb_tc_offset_div2", "cr_beta_offset_div2", "cr_tc_offset_div2">>)))

InHeaderWrites(v) ==
    Flags(<<"rpl_info_in_ph", "sao_info_in_ph_flag", "alf_info_in_ph_flag">>)
      \o When((v.weighted_pred = 1 \/ v.weighted_bipred = 1) /\ v.rpl_info_in_ph = 1, Flags(<<"wp_info_in_ph_flag">>))
      \o Flags(<<"qp_delta_info_in_ph_flag">>)

PpsWrites(v) ==
    U(6, <<"pic_parameter_set_id">>) \o U(4, <<"seq_parameter_set_id">>) \o Flags(<<"mixed_nalu_types_in_pic_flag">>)
      \o UE(<<"pic_width", "pic_height">>)
      \o Gated(v, "conf_win", UE(<<"left", "right", "top", "bottom">>))
      \o Gated(v, "scaling_win", SE(<<"left", "right", "top", "bottom">>))
      \o Flags(<<"output_flag_present_flag", "no_pic_partition">>)
      \o Gated(v, "subpic_id_mapping",
               When(v.no_pic_partition = 0, UE(<<"num_subpics_minus1">>)) \o UE(<<"subpic_id_len_minus1">>)
                 \o Times(v.ids, U(v.subpic_id_len_minus1 + 1, <<"subpic_id">>)))
      \o When(v.partition = 1, Sub("partition", 0))
      \o Flags(<<"cabac_init_present_flag">>) \o UE(<<"num_ref_idx0", "num_ref_idx1">>)
      \o Flags(<<"rpl1_idx_present_flag", "weighted_pred", "weighted_bipred">>)
      \o Gated(v, "wraparound", UE(<<"pic_width_minus_wraparound_offset">>))
      \o SE(<<"init_qp_minus26">>) \o Flags(<<"cu_qp_delta_enabled_flag">>)
      \o Gated(v, "chroma_tool_offsets", OffsetsWrites(v))
      \o Gated(v, "deblocking", DeblockingWrites(v))
      \o When(v.no_pic_partition = 0, InHeaderWrites(v))
      \o Flags(<<"picture_header_extension_present_flag", "slice_header_extension_present_flag">>)
      \o Gated(v, "extension", Sub("extension_data", v.extension_data))

PpsRefuses(v) ==
    \/ ~PpsInRange(v)
    \/ v.partition = v.no_pic_partition
    \/ /\ v.subpic_id_mapping = 1
       /\ (v.no_pic_partition = 1 /\ v.num_subpics_minus1 > 0) \/ v.ids # v.num_subpics_minus1 + 1
    \/ v.chroma_tool_offsets = 1 /\ v.list_enabled = 1 /\ v.list_joint # v.joint
    \/ IF v.extension = 1 THEN v.extension_data = EndsInZero ELSE v.extension_data > 0

=============================================================================
