------------------------------ MODULE H264Syntax ------------------------------
(***************************************************************************)
(* Parameter sets of H.264 (src/h264.rs): for every structure what its     *)
(* parser reads and rejects and what its writer writes and refuses, each   *)
(* translated from its own function.                                       *)
(***************************************************************************)
LOCAL INSTANCE Syntax
LOCAL INSTANCE Integers
LOCAL INSTANCE Sequences
LOCAL INSTANCE SequencesExt
LOCAL INSTANCE FiniteSets

-----------------------------------------------------------------------------
(* scaling lists, as numbers: a list of coefficients and its default flag *)

\* write_scaling_list: the deltas, wrapped into -128 .. 127.
Deltas(v) ==
    IF v.use_default = 1 THEN <<-8>>
    ELSE LET last(j) == IF j = 1 THEN 8 ELSE v.list[j - 1]
             wrapped(d) == IF d > 127 THEN d - 256 ELSE IF d < -128 THEN d + 256 ELSE d
         IN  [j \in DOMAIN v.list |-> wrapped(v.list[j] - last(j))]

\* One coefficient of parse_scaling_list: what is left of the deltas, the scale
\* of the last coefficient and of the next, and the list so far.
Coefficient(s, j) ==
    LET next == IF s.next = 0 THEN 0 ELSE (s.last + Head(s.deltas) + 256) % 256
        slot == IF next = 0 THEN s.last ELSE next
    IN  [deltas |-> IF s.next = 0 THEN s.deltas ELSE Tail(s.deltas),
         next |-> next, last |-> slot, list |-> Append(s.list, slot),
         use_default |-> IF j = 1 /\ s.next # 0 /\ next = 0 THEN 1 ELSE s.use_default]

\* parse_scaling_list over size coefficients.
ScalingList(deltas, size) ==
    LET start == [deltas |-> deltas, next |-> 8, last |-> 8, list |-> <<>>, use_default |-> 0]
        end   == FoldLeft(Coefficient, start, [j \in 1 .. size |-> j])
    IN  [use_default |-> end.use_default, unread |-> end.deltas,
         list |-> IF end.use_default = 1 THEN [j \in 1 .. size |-> 0] ELSE end.list]

\* A list the parser can return holds no zero unless it is the default list.
Returnable(v) ==
    IF v.use_default = 1 THEN \A j \in DOMAIN v.list : v.list[j] = 0
    ELSE \A j \in DOMAIN v.list : v.list[j] # 0

\* The matrix of lists, one of them present: a presence flag each.
MatrixReads(v) ==
    Each(IF v.coded_count < 12 THEN v.coded_count ELSE 12,
         LAMBDA i : Flags(<<"present_flag">>)
                      \o When(i + 1 = v.present, Sub("scaling_list", IF i < 6 THEN 16 ELSE 64)))

\* The parser counts the lists and marks the one it meets.
MatrixImplied(elements, v) ==
    LET at == {i \in DOMAIN elements : elements[i].name = "scaling_list"}
    IN  [v EXCEPT !.coded_count = Len(elements) - Cardinality(at),
                  !.present = IF at = {} THEN 0 ELSE (CHOOSE i \in at : TRUE) - 1]

MatrixWrites(v) ==
    Each(v.coded_count,
         LAMBDA i : Flags(<<"present_flag">>)
                      \o When(i + 1 = v.present, Sub("scaling_list", IF i < 6 THEN 16 ELSE 64)))

MatrixRefuses(v) == v.coded_count > 12

-----------------------------------------------------------------------------
(* hypothetical reference decoder and video usability information *)

HrdTail == U(5, <<"initial_cpb_removal_delay_length_minus1", "cpb_removal_delay_length_minus1",
                  "dpb_output_delay_length_minus1", "time_offset_length">>)

CpbEntry == UE(<<"bit_rate_value_minus1", "cpb_size_value_minus1">>) \o Flags(<<"cbr_flag">>)

HrdReads(v) ==
    UE(<<"cpb_cnt_minus1">>) \o U(4, <<"bit_rate_scale", "cpb_size_scale">>)
      \o Times(v.cpb_cnt_minus1 + 1, CpbEntry) \o HrdTail

HrdRejects(v) == v.cpb_cnt_minus1 > 31

\* The parser pushes an entry for every schedule.
HrdImplied(elements, v) == [v EXCEPT !.cpb = v.cpb_cnt_minus1 + 1]

HrdWrites(v) ==
    UE(<<"cpb_cnt_minus1">>) \o U(4, <<"bit_rate_scale", "cpb_size_scale">>)
      \o Times(v.cpb, CpbEntry) \o HrdTail

\* Mutant: the schedules are not counted.
HrdRefusesCountOnly(v) == v.cpb_cnt_minus1 > 31

HrdRefuses(v) == v.cpb_cnt_minus1 > 31 \/ v.cpb # v.cpb_cnt_minus1 + 1

ExtendedSar == 255

TimingInfo == U(32, <<"num_units_in_tick", "time_scale">>) \o Flags(<<"fixed_frame_rate_flag">>)

VuiReads(v) ==
    Gated(v, "aspect_ratio_info_present_flag",
          U(8, <<"aspect_ratio_idc">>)
            \o When(v.aspect_ratio_idc = ExtendedSar, U(16, <<"sar_width", "sar_height">>)))
      \o Gated(v, "overscan_info_present_flag", Flags(<<"overscan_appropriate_flag">>))
      \o Gated(v, "video_signal_type_present_flag",
               U(3, <<"video_format">>) \o Flags(<<"video_full_range_flag">>)
                 \o Gated(v, "colour_description_present_flag",
                          U(8, <<"colour_primaries", "transfer_characteristics", "matrix_coefficients">>)))
      \o Gated(v, "chroma_loc_info_present_flag", UE(<<"type_top_field", "type_bottom_field">>))
      \o Gated(v, "timing_info_present_flag", TimingInfo)
      \o Gated(v, "nal_hrd", Sub("hrd", 0))
      \o Gated(v, "vcl_hrd", Sub("hrd", 0))
      \o When(v.nal_hrd = 1 \/ v.vcl_hrd = 1, Flags(<<"low_delay_hrd_flag">>))
      \o Flags(<<"pic_struct_present_flag">>)
      \o Gated(v, "bitstream_restriction_flag",
               Flags(<<"motion_vectors_over_pic_boundaries_flag">>)
                 \o UE(<<"max_bytes_per_pic_denom", "max_bits_per_mb_denom", "log2_max_mv_length_horizontal",
                         "log2_max_mv_length_vertical", "max_num_reorder_frames", "max_dec_frame_buffering">>))

VuiWrites(v) ==
    Gated(v, "aspect_ratio_info_present_flag",
          U(8, <<"aspect_ratio_idc">>)
            \o When(v.aspect_ratio_idc = ExtendedSar, U(16, <<"sar_width", "sar_height">>)))
      \o Gated(v, "overscan_info_present_flag", Flags(<<"overscan_appropriate_flag">>))
      \o Gated(v, "video_signal_type_present_flag",
               U(3, <<"video_format">>) \o Flags(<<"video_full_range_flag">>)
                 \o Gated(v, "colour_description_present_flag",
                          U(8, <<"colour_primaries", "transfer_characteristics", "matrix_coefficients">>)))
      \o Gated(v, "chroma_loc_info_present_flag", UE(<<"type_top_field", "type_bottom_field">>))
      \o Gated(v, "timing_info_present_flag", TimingInfo)
      \o Gated(v, "nal_hrd", Sub("hrd", 0))
      \o Gated(v, "vcl_hrd", Sub("hrd", 0))
      \o When(1 \in {v.nal_hrd, v.vcl_hrd}, Flags(<<"low_delay_hrd_flag">>))
      \o Flags(<<"pic_struct_present_flag">>)
      \o Gated(v, "bitstream_restriction_flag",
               Flags(<<"motion_vectors_over_pic_boundaries_flag">>)
                 \o UE(<<"max_bytes_per_pic_denom", "max_bits_per_mb_denom", "log2_max_mv_length_horizontal",
                         "log2_max_mv_length_vertical", "max_num_reorder_frames", "max_dec_frame_buffering">>))

-----------------------------------------------------------------------------
(* sequence parameter sets *)

HighProfiles == {100, 110, 122, 244, 44, 83, 86, 118, 128, 138, 139, 134, 135}

\* The extension of the High profiles; seq_scaling_lists is the number of lists
\* coded, zero when there is no matrix.
HighReads(v) ==
    UE(<<"chroma_format_idc">>)
      \o When(v.chroma_format_idc = 3, Flags(<<"separate_colour_plane_flag">>))
      \o UE(<<"bit_depth_luma_minus8", "bit_depth_chroma_minus8">>)
      \o Flags(<<"qpprime_y_zero_transform_bypass_flag", "seq_scaling_matrix_present_flag">>)
      \o When(v.seq_scaling_lists > 0,
              Sub("scaling_matrix", IF v.chroma_format_idc # 3 THEN 8 ELSE 12))

HighWrites(v) ==
    UE(<<"chroma_format_idc">>)
      \o When(v.chroma_format_idc = 3, Flags(<<"separate_colour_plane_flag">>))
      \o UE(<<"bit_depth_luma_minus8", "bit_depth_chroma_minus8">>)
      \o Flags(<<"qpprime_y_zero_transform_bypass_flag", "seq_scaling_matrix_present_flag">>)
      \o When(v.seq_scaling_lists > 0, Sub("scaling_matrix", v.seq_scaling_lists))

OrderReads(v) ==
    UE(<<"log2_max_frame_num_minus4", "pic_order_cnt_type">>)
      \o When(v.pic_order_cnt_type = 0, UE(<<"log2_max_pic_order_cnt_lsb_minus4">>))
      \o When(v.pic_order_cnt_type = 1,
              Flags(<<"delta_pic_order_always_zero_flag">>)
                \o SE(<<"offset_for_non_ref_pic", "offset_for_top_to_bottom_field">>)
                \o UE(<<"offsets_for_ref_frame">>)
                \o Times(v.offsets_for_ref_frame, SE(<<"offset_for_ref_frame">>)))

OrderWrites(v) ==
    UE(<<"log2_max_frame_num_minus4", "pic_order_cnt_type">>)
      \o When(v.pic_order_cnt_type = 0, UE(<<"log2_max_pic_order_cnt_lsb_minus4">>))
      \o When(v.pic_order_cnt_type = 1,
              Flags(<<"delta_pic_order_always_zero_flag">>)
                \o SE(<<"offset_for_non_ref_pic", "offset_for_top_to_bottom_field">>)
                \o UE(<<"offsets_for_ref_frame">>)
                \o Times(v.offsets_for_ref_frame, SE(<<"offset_for_ref_frame">>)))

SpsReads(v) ==
    U(8, <<"profile_idc", "constraint_set_flags", "level_idc">>)
      \o UE(<<"seq_parameter_set_id">>)
      \o When(v.profile_idc \in HighProfiles, HighReads(v))
      \o OrderReads(v)
      \o UE(<<"max_num_ref_frames">>) \o Flags(<<"gaps_in_frame_num_value_allowed_flag">>)
      \o UE(<<"pic_width_in_mbs_minus1", "pic_height_in_map_units_minus1">>)
      \o Flags(<<"frame_mbs_only_flag">>)
      \o When(v.frame_mbs_only_flag = 0, Flags(<<"mb_adaptive_frame_field_flag">>))
      \o Flags(<<"direct_8x8_inference_flag">>)
      \o Gated(v, "frame_cropping", UE(<<"left", "right", "top", "bottom">>))
      \o Gated(v, "vui", Sub("vui", 0))

SpsRejects(v) ==
    \/ v.log2_max_frame_num_minus4 > 12
    \/ v.pic_order_cnt_type = 0 /\ v.log2_max_pic_order_cnt_lsb_minus4 > 12
    \/ v.pic_order_cnt_type = 1 /\ v.offsets_for_ref_frame > 255
    \/ v.pic_order_cnt_type > 2

\* Without the extension the chroma format is 4:2:0.
SpsImplied(elements, v) ==
    [v EXCEPT !.chroma_format_idc = IF v.profile_idc \in HighProfiles THEN @ ELSE 1,
              !.seq_scaling_lists =
                 LET coded == SelectSeq(elements, LAMBDA e : e.name = "scaling_matrix")
                 IN  IF coded = <<>> THEN 0 ELSE Head(coded).bits]

SpsWrites(v) ==
    U(8, <<"profile_idc", "constraint_set_flags", "level_idc">>)
      \o UE(<<"seq_parameter_set_id">>)
      \o When(v.profile_idc \in HighProfiles, HighWrites(v))
      \o OrderWrites(v)
      \o UE(<<"max_num_ref_frames">>) \o Flags(<<"gaps_in_frame_num_value_allowed_flag">>)
      \o UE(<<"pic_width_in_mbs_minus1", "pic_height_in_map_units_minus1">>)
      \o Flags(<<"frame_mbs_only_flag">>)
      \o When(v.frame_mbs_only_flag = 0, Flags(<<"mb_adaptive_frame_field_flag">>))
      \o Flags(<<"direct_8x8_inference_flag">>)
      \o Gated(v, "frame_cropping", UE(<<"left", "right", "top", "bottom">>))
      \o Gated(v, "vui", Sub("vui", 0))

SpsRefuses(v) ==
    \/ v.profile_idc \notin HighProfiles /\ (v.seq_scaling_lists > 0 \/ v.chroma_format_idc # 1)
    \/ v.log2_max_frame_num_minus4 > 12
    \/ v.pic_order_cnt_type = 0 /\ v.log2_max_pic_order_cnt_lsb_minus4 > 12
    \/ v.pic_order_cnt_type = 1 /\ v.offsets_for_ref_frame > 255
    \/ v.pic_order_cnt_type > 2
    \/ v.seq_scaling_lists > 12

\* The count of lists the chroma format asks for; the writer does not look.
ListsFitChroma(v) ==
    v.seq_scaling_lists \in {0, IF v.chroma_format_idc # 3 THEN 8 ELSE 12}

-----------------------------------------------------------------------------
(* picture parameter sets, parsed with their sequence parameter set *)

PpsFlags ==
    Flags(<<"deblocking_filter_control_present_flag", "constrained_intra_pred_flag",
            "redundant_pic_cnt_present_flag">>)

\* The number of lists, from the chroma format of the sequence parameter set given.
PpsLists(v) ==
    6 + (IF v.transform_8x8_mode_flag = 0 THEN 0 ELSE IF v.given.chroma_format_idc # 3 THEN 2 ELSE 6)

\* What more_rbsp_data() finds is whatever the writer put behind the flags.
PpsReads(v) ==
    UE(<<"pic_parameter_set_id", "seq_parameter_set_id">>)
      \o Flags(<<"entropy_coding_mode_flag", "bottom_field_pic_order_in_frame_present_flag">>)
      \o UE(<<"num_slice_groups_minus1", "num_ref_idx_l0_default_active_minus1",
              "num_ref_idx_l1_default_active_minus1">>)
      \o Flags(<<"weighted_pred_flag">>) \o U(2, <<"weighted_bipred_idc">>)
      \o SE(<<"pic_init_qp_minus26", "pic_init_qs_minus26", "chroma_qp_index_offset">>)
      \o PpsFlags
      \o When(v.high_profile_tail_present = 1,
              Flags(<<"transform_8x8_mode_flag", "pic_scaling_matrix_present_flag">>)
                \o When(v.pic_scaling_lists > 0, Sub("scaling_matrix", PpsLists(v)))
                \o SE(<<"second_chroma_qp_index_offset">>))

PpsRejects(v) == v.num_slice_groups_minus1 # 0 \/ (v.pic_scaling_lists > 0 /\ v.given.sps = 0)

PpsImplied(elements, v) ==
    [v EXCEPT !.high_profile_tail_present =
                 IF "second_chroma_qp_index_offset" \in Names(elements) THEN 1 ELSE 0,
              !.pic_scaling_lists =
                 LET coded == SelectSeq(elements, LAMBDA e : e.name = "scaling_matrix")
                 IN  IF coded = <<>> THEN 0 ELSE Head(coded).bits]

PpsWrites(v) ==
    UE(<<"pic_parameter_set_id", "seq_parameter_set_id">>)
      \o Flags(<<"entropy_coding_mode_flag", "bottom_field_pic_order_in_frame_present_flag">>)
      \o UE(<<"num_slice_groups_minus1", "num_ref_idx_l0_default_active_minus1",
              "num_ref_idx_l1_default_active_minus1">>)
      \o Flags(<<"weighted_pred_flag">>) \o U(2, <<"weighted_bipred_idc">>)
      \o SE(<<"pic_init_qp_minus26", "pic_init_qs_minus26", "chroma_qp_index_offset">>)
      \o PpsFlags
      \o When(v.high_profile_tail_present = 1,
              Flags(<<"transform_8x8_mode_flag", "pic_scaling_matrix_present_flag">>)
                \o When(v.pic_scaling_lists > 0, Sub("scaling_matrix", v.pic_scaling_lists))
                \o SE(<<"second_chroma_qp_index_offset">>))

PpsRefuses(v) ==
    \/ v.num_slice_groups_minus1 # 0
    \/ /\ v.high_profile_tail_present = 0
       /\ v.transform_8x8_mode_flag = 1 \/ v.pic_scaling_lists > 0
    \/ v.pic_scaling_lists > 12

-----------------------------------------------------------------------------
(* slice headers: given holds the NAL unit and what the parameter sets say; a *)
(* Vec of modifications is its length, and the weights of a table are alike  *)

HasList0(v) == v.slice_type \in {"P", "SP", "B"}
HasList1(v) == v.slice_type = "B"
IsIntra(v) == v.slice_type \in {"I", "SI"}
IsField(v) == v.given.frame_mbs_only = 0 /\ v.field_pic_flag = 1

\* peek_slice_pps_id.
PeekReads == UE(<<"first_mb_in_slice", "slice_type", "pic_parameter_set_id">>)

\* parse_slice_header_minimal, which ends behind the least significant bits of the count.
MinimalSliceReads(v) ==
    UE(<<"first_mb_in_slice", "slice_type", "pic_parameter_set_id">>)
      \o When(v.given.separate_colour_planes = 1, U(2, <<"colour_plane_id">>))
      \o U(v.given.frame_num_bits, <<"frame_num">>)
      \o When(v.given.frame_mbs_only = 0, Gated(v, "field_pic_flag", Flags(<<"bottom_field_flag">>)))
      \o When(v.given.nal = "idr", UE(<<"idr_pic_id">>))
      \o When(v.given.poc_type = 0, U(v.given.lsb_bits, <<"pic_order_cnt_lsb">>))

\* parse_slice_header, from here on.
FieldReads(v) ==
    When(v.given.frame_mbs_only = 0, Gated(v, "field_pic_flag", Flags(<<"bottom_field_flag">>)))

CountReads(v) ==
    LET bottom == v.given.bottom_count_present = 1 /\ ~IsField(v)
    IN  When(v.given.poc_type = 0,
             U(v.given.lsb_bits, <<"pic_order_cnt_lsb">>) \o When(bottom, SE(<<"delta_pic_order_cnt_bottom">>)))
          \o When(v.given.poc_type = 1 /\ v.given.delta_always_zero = 0,
                  SE(<<"delta_pic_order_cnt_0">>) \o When(bottom, SE(<<"delta_pic_order_cnt_1">>)))

\* Entries of a list, less one: coded, or those of the picture parameter set.
ActiveMinus1(v, coded, default) == IF v.num_ref_idx_active_override_flag = 1 THEN coded ELSE default
Active0(v) == ActiveMinus1(v, v.num_ref_idx_l0_active_minus1, v.given.default_l0)
Active1(v) == ActiveMinus1(v, v.num_ref_idx_l1_active_minus1, v.given.default_l1)

ListSizeReads(v) ==
    When(HasList0(v),
         Gated(v, "num_ref_idx_active_override_flag",
               UE(<<"num_ref_idx_l0_active_minus1">>) \o When(HasList1(v), UE(<<"num_ref_idx_l1_active_minus1">>))))

\* The commands of one list, and the code that ends them.
ModificationReads(v, flag, commands) ==
    Gated(v, flag, Times(v[commands], UE(<<commands, "operand">>)) \o UE(<<commands>>))

WeightReads(v) ==
    Gated(v, "luma_weight_flag", SE(<<"luma_weight", "luma_offset">>))
      \o When(v.given.chroma = 1,
              Gated(v, "chroma_weight_flag", Times(2, SE(<<"chroma_weight", "chroma_offset">>))))

Weighted(v) ==
    \/ v.given.weighted_pred = 1 /\ v.slice_type \in {"P", "SP"}
    \/ v.given.weighted_bipred = 1 /\ v.slice_type = "B"

WeightTableReads(v) ==
    UE(<<"luma_log2_weight_denom">>) \o When(v.given.chroma = 1, UE(<<"chroma_log2_weight_denom">>))
      \o Times(Active0(v) + 1 + (IF HasList1(v) THEN Active1(v) + 1 ELSE 0), WeightReads(v))

Operands == <<1, 1, 2, 1, 0, 1>>

MarkingReads(v) ==
    IF v.given.nal = "idr" THEN Flags(<<"no_output_of_prior_pics_flag", "long_term_reference_flag">>)
    ELSE Gated(v, "adaptive_ref_pic_marking_mode_flag",
               FlattenSeq([i \in DOMAIN v.mmco |-> UE(<<"mmco">>) \o Times(Operands[v.mmco[i]], UE(<<"operand">>))])
                 \o UE(<<"mmco">>))

SliceReads(v) ==
    UE(<<"first_mb_in_slice", "slice_type", "pic_parameter_set_id">>)
      \o When(v.given.separate_colour_planes = 1, U(2, <<"colour_plane_id">>))
      \o U(v.given.frame_num_bits, <<"frame_num">>)
      \o FieldReads(v)
      \o When(v.given.nal = "idr", UE(<<"idr_pic_id">>))
      \o CountReads(v)
      \o When(v.given.redundant_present = 1, UE(<<"redundant_pic_cnt">>))
      \o When(HasList1(v), Flags(<<"direct_spatial_mv_pred_flag">>))
      \o ListSizeReads(v)
      \o When(HasList0(v), ModificationReads(v, "ref_pic_list_modification_flag_l0", "modifications_l0"))
      \o When(HasList1(v), ModificationReads(v, "ref_pic_list_modification_flag_l1", "modifications_l1"))
      \o When(Weighted(v), WeightTableReads(v))
      \o When(v.given.ref_idc # 0, MarkingReads(v))
      \o When(v.given.cabac = 1 /\ ~IsIntra(v), UE(<<"cabac_init_idc">>))
      \o SE(<<"slice_qp_delta">>)
      \o When(v.slice_type = "SP", Flags(<<"sp_for_switch_flag">>))
      \o When(v.slice_type \in {"SP", "SI"}, SE(<<"slice_qs_delta">>))
      \o When(v.given.deblocking_control = 1,
              UE(<<"disable_deblocking_filter_idc">>)
                \o When(v.disable_deblocking_filter_idc # 1,
                        SE(<<"slice_alpha_c0_offset_div2", "slice_beta_offset_div2">>)))

\* Macroblocks of the frame or field, or pairs of them in an MBAFF frame.
SliceUnits(v) ==
    IF IsField(v) \/ v.given.mbaff = 1 THEN v.given.frame_mbs \div 2 ELSE v.given.frame_mbs

MaxCommands == 66

\* The ranges of values that decide nothing are left out.
SliceRejects(v) ==
    LET greatest == IF IsField(v) THEN 63 ELSE 31
    IN  \/ v.given.nal = "idr" /\ (v.given.ref_idc = 0 \/ ~IsIntra(v))
        \/ v.first_mb_in_slice >= (IF SliceUnits(v) = 0 THEN 1 ELSE SliceUnits(v))
        \/ HasList0(v) /\ Active0(v) > greatest
        \/ HasList1(v) /\ Active1(v) > greatest
        \/ v.modifications_l0 > MaxCommands \/ v.modifications_l1 > MaxCommands \/ Len(v.mmco) > MaxCommands
        \/ v.disable_deblocking_filter_idc > 2

=============================================================================
