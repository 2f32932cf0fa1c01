---------------------------- MODULE H266SpsSyntax ----------------------------
(***************************************************************************)
(* The sequence parameter set of H.266 (src/h266/sps.rs), parser and       *)
(* writer, in the parts the two walk one after another, and the            *)
(* subpictures of a sequence.                                              *)
(***************************************************************************)
LOCAL INSTANCE Syntax
LOCAL INSTANCE Integers
LOCAL INSTANCE Sequences
LOCAL INSTANCE SequencesExt

-----------------------------------------------------------------------------
(* subpictures: given holds the size of the picture in coding tree units *)

\* Ceil( Log2( n ) ).
CeilLog2(n) == CHOOSE b \in 0 .. 31 : 2^b >= n /\ (b = 0 \/ 2^(b - 1) < n)

\* What is coded of the place of subpicture i.
PlaceReads(v, i) ==
    LET bits(n) == CeilLog2(n)
    IN  When(i > 0 /\ v.given.w > 1, U(bits(v.given.w), <<"ctu_top_left_x">>))
          \o When(i > 0 /\ v.given.h > 1, U(bits(v.given.h), <<"ctu_top_left_y">>))
          \o When(i < v.num_subpics_minus1 /\ v.given.w > 1, U(bits(v.given.w), <<"width_minus1">>))
          \o When(i < v.num_subpics_minus1 /\ v.given.h > 1, U(bits(v.given.h), <<"height_minus1">>))

SubpicsReads(v) ==
    UE(<<"num_subpics_minus1">>)
      \o When(v.num_subpics_minus1 > 0,
              Flags(<<"independent", "same_size">>)
                \o Each(v.num_subpics_minus1 + 1, LAMBDA i :
                      When(v.same_size = 0 \/ i = 0, PlaceReads(v, i))
                        \o When(v.independent = 0, Flags(<<"treated_as_pic_flag", "loop_filter_across_flag">>))))
      \o UE(<<"subpic_id_len_minus1">>)
      \o Gated(v, "id_mapping_signalled",
               Gated(v, "id_mapping_present",
                     Times(v.num_subpics_minus1 + 1, U(v.subpic_id_len_minus1 + 1, <<"subpic_id">>))))

MaxSubpics == 999

\* Where the subpictures lie is left to Grid.
SubpicsRejects(v) ==
    \/ v.num_subpics_minus1 > MaxSubpics
    \/ v.subpic_id_len_minus1 > 15
    \/ 2^(v.subpic_id_len_minus1 + 1) < v.num_subpics_minus1 + 1

\* Without a loop over subpictures they are independent and there are no entries.
SubpicsImplied(elements, v) ==
    [v EXCEPT !.independent = IF v.num_subpics_minus1 > 0 THEN @ ELSE 1,
              !.entries = IF v.num_subpics_minus1 > 0 THEN v.num_subpics_minus1 + 1 ELSE 0,
              !.ids = IF v.id_mapping_present = 1 THEN v.num_subpics_minus1 + 1 ELSE 0]

PlaceWrites(v, i) ==
    LET bits(n) == CeilLog2(n)
    IN  When(i > 0 /\ v.given.w > 1, U(bits(v.given.w), <<"ctu_top_left_x">>))
          \o When(i > 0 /\ v.given.h > 1, U(bits(v.given.h), <<"ctu_top_left_y">>))
          \o When(i < v.num_subpics_minus1 /\ v.given.w > 1, U(bits(v.given.w), <<"width_minus1">>))
          \o When(i < v.num_subpics_minus1 /\ v.given.h > 1, U(bits(v.given.h), <<"height_minus1">>))

SubpicsWrites(v) ==
    UE(<<"num_subpics_minus1">>)
      \o When(v.num_subpics_minus1 > 0,
              Flags(<<"independent", "same_size">>)
                \o Each(v.entries, LAMBDA i :
                      When(v.same_size = 0 \/ i = 0, PlaceWrites(v, i))
                        \o When(v.independent = 0, Flags(<<"treated_as_pic_flag", "loop_filter_across_flag">>))))
      \o UE(<<"subpic_id_len_minus1">>)
      \o Gated(v, "id_mapping_signalled",
               Gated(v, "id_mapping_present",
                     Times(v.ids, U(v.subpic_id_len_minus1 + 1, <<"subpic_id">>))))

SubpicsRefuses(v) ==
    \/ v.num_subpics_minus1 > MaxSubpics
    \/ v.entries # IF v.num_subpics_minus1 > 0 THEN v.num_subpics_minus1 + 1 ELSE 0
    \/ v.subpic_id_len_minus1 > 15
    \/ v.id_mapping_present = 1 /\ (v.id_mapping_signalled = 0 \/ v.ids # v.num_subpics_minus1 + 1)

\* The writer does not ask whether the identifiers cover the subpictures.
SubpicsFit(v) == 2^(v.subpic_id_len_minus1 + 1) >= v.num_subpics_minus1 + 1

\* The places of subpictures of one size: the first is coded, the others follow in
\* rows; none when they do not tile the picture.
Grid(num_minus1, first, w, h) ==
    LET columns == w \div first.w
    IN  IF \/ first.w \notin 1 .. w \/ first.h \notin 1 .. h
           \/ w % first.w # 0 \/ h % first.h # 0
           \/ columns * (h \div first.h) # num_minus1 + 1
          THEN <<>>
          ELSE [i \in 1 .. num_minus1 + 1 |->
                  [x |-> ((i - 1) % columns) * first.w, y |-> ((i - 1) \div columns) * first.h,
                   w |-> first.w, h |-> first.h]]

-----------------------------------------------------------------------------
(* sequence parameter sets, part by part *)

\* The bits of an extension: none, some, or some of which the last one is zero,
\* which the search for the stop bit takes for padding.
EndsInZero == 2

\* numQpTables.
QpTables(v) == IF v.same_qp_table = 1 THEN 1 ELSE IF v.joint_cbcr = 1 THEN 3 ELSE 2

\* A reference picture list of the SPS, coded with the flags it is given.
ListStruct(v) == Sub("ref_pic_list", 2 * v.long_term_ref_pics + v.inter_layer_prediction)

MaxMerge(v) == 6 - (IF v.six_minus_max_num_merge_cand < 5 THEN v.six_minus_max_num_merge_cand ELSE 5)

\* CtbLog2SizeY, and the range of MinCbLog2SizeY.
CtbLog2(v) == v.log2_ctu_size_minus5 + 5
MinCbFits(v) == v.log2_min_cb_minus2 + 2 <= (IF CtbLog2(v) < 6 THEN CtbLog2(v) ELSE 6)

\* Identifiers, profile, size and subpictures.
HeadReads(v) ==
    U(4, <<"seq_parameter_set_id", "video_parameter_set_id">>) \o U(3, <<"max_sublayers_minus1">>)
      \o U(2, <<"chroma_format_idc", "log2_ctu_size_minus5">>)
      \o Gated(v, "ptl", Sub("profile_tier_level", v.max_sublayers_minus1))
      \o Flags(<<"gdr_enabled_flag">>)
      \o Gated(v, "ref_pic_resampling", Flags(<<"res_change_in_clvs_allowed_flag">>))
      \o UE(<<"pic_width", "pic_height">>)
      \o Gated(v, "conformance_window", UE(<<"left", "right", "top", "bottom">>))
      \o Gated(v, "subpic_info", Sub("subpic_info", 0))

\* Bit depth, picture order count, extra bits and buffer.
OrderReads(v) ==
    UE(<<"bitdepth_minus8">>)
      \o Flags(<<"entropy_coding_sync_enabled_flag", "entry_point_offsets_present_flag">>)
      \o U(4, <<"log2_max_poc_lsb_minus4">>)
      \o Gated(v, "poc_msb_cycle", UE(<<"poc_msb_cycle_len_minus1">>))
      \o Count(2, "extra_ph_bits") \o Times(v.extra_ph_bits, Flags(<<"extra_ph_bit">>))
      \o Count(2, "extra_sh_bits") \o Times(v.extra_sh_bits, Flags(<<"extra_sh_bit">>))
      \o When(v.ptl = 1,
              When(v.max_sublayers_minus1 > 0, Flags(<<"sublayer_dpb_params">>))
                \o Sub("dpb_parameters", v.sublayer_dpb_params))

\* Coding blocks and their partitioning.
BlocksReads(v) ==
    UE(<<"log2_min_cb_minus2">>) \o Flags(<<"partition_constraints_override_enabled_flag">>)
      \o UE(<<"log2_diff_min_qt_min_cb_intra_luma", "mtt_depth_intra_luma">>)
      \o When(v.mtt_depth_intra_luma > 0, UE(<<"log2_diff_max_bt_intra_luma", "log2_diff_max_tt_intra_luma">>))
      \o When(v.chroma_format_idc > 0, Flags(<<"dual_tree_intra">>))
      \o When(v.dual_tree_intra = 1,
              UE(<<"log2_diff_min_qt_min_cb_intra_chroma", "mtt_depth_intra_chroma">>)
                \o When(v.mtt_depth_intra_chroma > 0,
                        UE(<<"log2_diff_max_bt_intra_chroma", "log2_diff_max_tt_intra_chroma">>)))
      \o UE(<<"log2_diff_min_qt_min_cb_inter", "mtt_depth_inter">>)
      \o When(v.mtt_depth_inter > 0, UE(<<"log2_diff_max_bt_inter", "log2_diff_max_tt_inter">>))
      \o When(v.log2_ctu_size_minus5 > 0, Flags(<<"max_luma_transform_size_64">>))

\* Transforms and the chroma quantisation tables.
TransformReads(v) ==
    Gated(v, "transform_skip", UE(<<"log2_transform_skip_max_size_minus2">>) \o Flags(<<"bdpcm_enabled_flag">>))
      \o Gated(v, "mts_enabled", Flags(<<"explicit_mts_intra_enabled_flag", "explicit_mts_inter_enabled_flag">>))
      \o Flags(<<"lfnst_enabled">>)
      \o When(v.chroma_format_idc > 0,
              Flags(<<"joint_cbcr", "same_qp_table">>)
                \o Times(QpTables(v),
                         SE(<<"qp_table_start_minus26">>) \o Count(0, "qp_points")
                           \o Times(v.qp_points, UE(<<"delta_qp_in_val_minus1", "delta_qp_diff_val">>))))

\* Loop filters and reference picture lists.
FiltersReads(v) ==
    Flags(<<"sao_enabled_flag", "alf_enabled">>)
      \o When(v.alf_enabled = 1 /\ v.chroma_format_idc > 0, Flags(<<"ccalf_enabled_flag">>))
      \o Flags(<<"lmcs_enabled_flag", "weighted_pred_flag", "weighted_bipred_flag", "long_term_ref_pics">>)
      \o When(v.video_parameter_set_id > 0, Flags(<<"inter_layer_prediction">>))
      \o Flags(<<"idr_rpl_present_flag", "rpl1_same_as_rpl0">>)
      \o UE(<<"lists0">>) \o Times(v.lists0, ListStruct(v))
      \o When(v.rpl1_same_as_rpl0 = 0, UE(<<"lists1">>) \o Times(v.lists1, ListStruct(v)))

\* Tools of inter prediction.
InterReads(v) ==
    Flags(<<"ref_wraparound_enabled_flag">>)
      \o Gated(v, "temporal_mvp", Flags(<<"sbtmvp">>)) \o Flags(<<"amvr">>)
      \o Gated(v, "bdof", Flags(<<"bdof_control_present_in_ph_flag">>)) \o Flags(<<"smvd_enabled_flag">>)
      \o Gated(v, "dmvr", Flags(<<"dmvr_control_present_in_ph_flag">>))
      \o Gated(v, "mmvd", Flags(<<"mmvd_fullpel_only_enabled_flag">>))
      \o UE(<<"six_minus_max_num_merge_cand">>) \o Flags(<<"sbt_enabled_flag">>)
      \o Gated(v, "affine",
               UE(<<"five_minus_max_num_subblock_merge_cand">>) \o Flags(<<"affine_6param_enabled_flag">>)
                 \o When(v.amvr = 1, Flags(<<"affine_amvr_enabled_flag">>))
                 \o Gated(v, "affine_prof", Flags(<<"prof_control_present_in_ph_flag">>)))
      \o Flags(<<"bcw_enabled_flag", "ciip_enabled_flag">>)
      \o When(MaxMerge(v) >= 2,
              Flags(<<"gpm">>)
                \o When(v.gpm = 1 /\ MaxMerge(v) >= 3, UE(<<"max_merge_minus_max_gpm_cand">>)))
      \o UE(<<"log2_parallel_merge_level_minus2">>)

\* Tools of intra prediction, palette and block copy.
IntraReads(v) ==
    Flags(<<"isp_enabled_flag", "mrl_enabled_flag", "mip_enabled_flag">>)
      \o When(v.chroma_format_idc > 0, Flags(<<"cclm_enabled_flag">>))
      \o When(v.chroma_format_idc = 1, Flags(<<"chroma_horizontal_collocated_flag", "chroma_vertical_collocated_flag">>))
      \o Flags(<<"palette">>)
      \o When(v.chroma_format_idc = 3 /\ v.max_luma_transform_size_64 = 0, Flags(<<"act">>))
      \o When(v.transform_skip = 1 \/ v.palette = 1, UE(<<"min_qp_prime_ts">>))
      \o Gated(v, "ibc", UE(<<"six_minus_max_num_ibc_merge_cand">>))
      \o Gated(v, "ladf",
               Count(2, "ladf_intervals") \o SE(<<"ladf_lowest_interval_qp_offset">>)
                 \o Times(v.ladf_intervals, SE(<<"ladf_qp_offset">>) \o UE(<<"ladf_delta_threshold_minus1">>)))

\* Scaling lists and virtual boundaries.
ScalingReads(v) ==
    Flags(<<"explicit_scaling_list">>)
      \o When(v.lfnst_enabled = 1 /\ v.explicit_scaling_list = 1, Flags(<<"scaling_matrix_for_lfnst_disabled_flag">>))
      \o When(v.act = 1 /\ v.explicit_scaling_list = 1, Flags(<<"scaling_for_alternative_disabled">>))
      \o When(v.scaling_for_alternative_disabled = 1, Flags(<<"scaling_matrix_designated_colour_space_flag">>))
      \o Flags(<<"dep_quant_enabled_flag", "sign_data_hiding_enabled_flag">>)
      \o Gated(v, "virtual_boundaries_enabled",
               Gated(v, "virtual_boundaries_present",
                     UE(<<"boundaries_x">>) \o Times(v.boundaries_x, UE(<<"pos_x_minus1">>))
                       \o UE(<<"boundaries_y">>) \o Times(v.boundaries_y, UE(<<"pos_y_minus1">>))))

\* Timing, usability information and extensions.
TailReads(v) ==
    When(v.ptl = 1,
         Gated(v, "timing_hrd",
               Sub("general_timing_hrd", 0)
                 \o When(v.max_sublayers_minus1 > 0, Flags(<<"sublayer_cpb_params">>))
                 \o Sub("ols_timing_hrd", IF v.sublayer_cpb_params = 1 THEN 0 ELSE v.max_sublayers_minus1)))
      \o Flags(<<"field_seq_flag">>)
      \o Gated(v, "vui", Count(0, "vui_bytes") \o Sub("byte_alignment", 0) \o Times(v.vui_bytes, U(8, <<"vui_byte">>)))
      \o Gated(v, "extension",
               Flags(<<"range_extension">>) \o U(7, <<"extension_7bits">>)
                 \o When(v.range_extension = 1,
                         Flags(<<"extended_precision_flag">>)
                           \o When(v.transform_skip = 1, Flags(<<"ts_residual_coding_rice_present_in_sh_flag">>))
                           \o Flags(<<"rrc_rice_extension_flag", "persistent_rice_adaptation_enabled_flag",
                                      "reverse_last_sig_coeff_enabled_flag">>)))
      \o When(v.extension_7bits > 0, Sub("extension_data", v.extension_data))

HeadWrites(v) ==
    U(4, <<"seq_parameter_set_id", "video_parameter_set_id">>) \o U(3, <<"max_sublayers_minus1">>)
      \o U(2, <<"chroma_format_idc", "log2_ctu_size_minus5">>)
      \o Gated(v, "ptl", Sub("profile_tier_level", v.max_sublayers_minus1))
      \o Flags(<<"gdr_enabled_flag">>)
      \o Gated(v, "ref_pic_resampling", Flags(<<"res_change_in_clvs_allowed_flag">>))
      \o UE(<<"pic_width", "pic_height">>)
      \o Gated(v, "conformance_window", UE(<<"left", "right", "top", "bottom">>))
      \o Gated(v, "subpic_info", Sub("subpic_info", 0))

OrderWrites(v) ==
    UE(<<"bitdepth_minus8">>)
      \o Flags(<<"entropy_coding_sync_enabled_flag", "entry_point_offsets_present_flag">>)
      \o U(4, <<"log2_max_poc_lsb_minus4">>)
      \o Gated(v, "poc_msb_cycle", UE(<<"poc_msb_cycle_len_minus1">>))
      \o Count(2, "extra_ph_bits") \o Times(v.extra_ph_bits, Flags(<<"extra_ph_bit">>))
      \o Count(2, "extra_sh_bits") \o Times(v.extra_sh_bits, Flags(<<"extra_sh_bit">>))
      \o When(v.dpb = 1,
              When(v.max_sublayers_minus1 > 0, Flags(<<"sublayer_dpb_params">>))
                \o Sub("dpb_parameters", v.sublayer_dpb_params))

BlocksWrites(v) ==
    UE(<<"log2_min_cb_minus2">>) \o Flags(<<"partition_constraints_override_enabled_flag">>)
      \o UE(<<"log2_diff_min_qt_min_cb_intra_luma", "mtt_depth_intra_luma">>)
      \o When(v.mtt_depth_intra_luma > 0, UE(<<"log2_diff_max_bt_intra_luma", "log2_diff_max_tt_intra_luma">>))
      \o When(v.chroma_format_idc > 0, Flags(<<"dual_tree_intra">>))
      \o When(v.dual_tree_intra = 1,
              UE(<<"log2_diff_min_qt_min_cb_intra_chroma", "mtt_depth_intra_chroma">>)
                \o When(v.mtt_depth_intra_chroma > 0,
                        UE(<<"log2_diff_max_bt_intra_chroma", "log2_diff_max_tt_intra_chroma">>)))
      \o UE(<<"log2_diff_min_qt_min_cb_inter", "mtt_depth_inter">>)
      \o When(v.mtt_depth_inter > 0, UE(<<"log2_diff_max_bt_inter", "log2_diff_max_tt_inter">>))
      \o When(v.log2_ctu_size_minus5 > 0, Flags(<<"max_luma_transform_size_64">>))

TransformWrites(v) ==
    Gated(v, "transform_skip", UE(<<"log2_transform_skip_max_size_minus2">>) \o Flags(<<"bdpcm_enabled_flag">>))
      \o Gated(v, "mts_enabled", Flags(<<"explicit_mts_intra_enabled_flag", "explicit_mts_inter_enabled_flag">>))
      \o Flags(<<"lfnst_enabled">>)
      \o When(v.chroma_format_idc > 0,
              Flags(<<"joint_cbcr", "same_qp_table">>)
                \o Times(v.qp_tables,
                         SE(<<"qp_table_start_minus26">>) \o Count(0, "qp_points")
                           \o Times(v.qp_points, UE(<<"delta_qp_in_val_minus1", "delta_qp_diff_val">>))))

FiltersWrites(v) ==
    Flags(<<"sao_enabled_flag", "alf_enabled">>)
      \o When(v.alf_enabled = 1 /\ v.chroma_format_idc > 0, Flags(<<"ccalf_enabled_flag">>))
      \o Flags(<<"lmcs_enabled_flag", "weighted_pred_flag", "weighted_bipred_flag", "long_term_ref_pics">>)
      \o When(v.video_parameter_set_id > 0, Flags(<<"inter_layer_prediction">>))
      \o Flags(<<"idr_rpl_present_flag", "rpl1_same_as_rpl0">>)
      \o UE(<<"lists0">>) \o Times(v.lists0, ListStruct(v))
      \o When(v.rpl1_same_as_rpl0 = 0, UE(<<"lists1">>) \o Times(v.lists1, ListStruct(v)))

InterWrites(v) ==
    Flags(<<"ref_wraparound_enabled_flag">>)
      \o Gated(v, "temporal_mvp", Flags(<<"sbtmvp">>)) \o Flags(<<"amvr">>)
      \o Gated(v, "bdof", Flags(<<"bdof_control_present_in_ph_flag">>)) \o Flags(<<"smvd_enabled_flag">>)
      \o Gated(v, "dmvr", Flags(<<"dmvr_control_present_in_ph_flag">>))
      \o Gated(v, "mmvd", Flags(<<"mmvd_fullpel_only_enabled_flag">>))
      \o UE(<<"six_minus_max_num_merge_cand">>) \o Flags(<<"sbt_enabled_flag">>)
      \o Gated(v, "affine",
               UE(<<"five_minus_max_num_subblock_merge_cand">>) \o Flags(<<"affine_6param_enabled_flag">>)
                 \o When(v.amvr = 1, Flags(<<"affine_amvr_enabled_flag">>))
                 \o Gated(v, "affine_prof", Flags(<<"prof_control_present_in_ph_flag">>)))
      \o Flags(<<"bcw_enabled_flag", "ciip_enabled_flag">>)
      \o When(MaxMerge(v) >= 2,
              Flags(<<"gpm">>)
                \o When(v.gpm = 1 /\ MaxMerge(v) >= 3, UE(<<"max_merge_minus_max_gpm_cand">>)))
      \o UE(<<"log2_parallel_merge_level_minus2">>)

IntraWrites(v) ==
    Flags(<<"isp_enabled_flag", "mrl_enabled_flag", "mip_enabled_flag">>)
      \o When(v.chroma_format_idc > 0, Flags(<<"cclm_enabled_flag">>))
      \o When(v.chroma_format_idc = 1, Flags(<<"chroma_horizontal_collocated_flag", "chroma_vertical_collocated_flag">>))
      \o Flags(<<"palette">>)
      \o When(v.chroma_format_idc = 3 /\ v.max_luma_transform_size_64 = 0, Flags(<<"act">>))
      \o When(v.transform_skip = 1 \/ v.palette = 1, UE(<<"min_qp_prime_ts">>))
      \o Gated(v, "ibc", UE(<<"six_minus_max_num_ibc_merge_cand">>))
      \o Gated(v, "ladf",
               Count(2, "ladf_intervals") \o SE(<<"ladf_lowest_interval_qp_offset">>)
                 \o Times(v.ladf_intervals, SE(<<"ladf_qp_offset">>) \o UE(<<"ladf_delta_threshold_minus1">>)))

ScalingWrites(v) ==
    Flags(<<"explicit_scaling_list">>)
      \o When(v.lfnst_enabled = 1 /\ v.explicit_scaling_list = 1, Flags(<<"scaling_matrix_for_lfnst_disabled_flag">>))
      \o When(v.act = 1 /\ v.explicit_scaling_list = 1, Flags(<<"scaling_for_alternative_disabled">>))
      \o When(v.scaling_for_alternative_disabled = 1, Flags(<<"scaling_matrix_designated_colour_space_flag">>))
      \o Flags(<<"dep_quant_enabled_flag", "sign_data_hiding_enabled_flag">>)
      \o Gated(v, "virtual_boundaries_enabled",
               Gated(v, "virtual_boundaries_present",
                     UE(<<"boundaries_x">>) \o Times(v.boundaries_x, UE(<<"pos_x_minus1">>))
                       \o UE(<<"boundaries_y">>) \o Times(v.boundaries_y, UE(<<"pos_y_minus1">>))))

TailWrites(v) ==
    When(v.ptl = 1,
         Gated(v, "timing_hrd",
               Sub("general_timing_hrd", 0)
                 \o When(v.max_sublayers_minus1 > 0, Flags(<<"sublayer_cpb_params">>))
                 \o Sub("ols_timing_hrd", IF v.sublayer_cpb_params = 1 THEN 0 ELSE v.max_sublayers_minus1)))
      \o Flags(<<"field_seq_flag">>)
      \o Gated(v, "vui", Count(0, "vui_bytes") \o Sub("byte_alignment", 0) \o Times(v.vui_bytes, U(8, <<"vui_byte">>)))
      \o Gated(v, "extension",
               Flags(<<"range_extension">>) \o U(7, <<"extension_7bits">>)
                 \o When(v.range_extension = 1,
                         Flags(<<"extended_precision_flag">>)
                           \o When(v.transform_skip = 1, Flags(<<"ts_residual_coding_rice_present_in_sh_flag">>))
                           \o Flags(<<"rrc_rice_extension_flag", "persistent_rice_adaptation_enabled_flag",
                                      "reverse_last_sig_coeff_enabled_flag">>)))
      \o When(v.extension_7bits > 0, Sub("extension_data", v.extension_data))

-----------------------------------------------------------------------------

\* What both sides check.
InRange(v) ==
    /\ v.max_sublayers_minus1 <= 6 /\ v.log2_ctu_size_minus5 <= 2
    /\ v.pic_width > 0 /\ v.pic_height > 0
    /\ v.bitdepth_minus8 <= 8 /\ v.log2_max_poc_lsb_minus4 <= 12
    /\ v.poc_msb_cycle = 1 => v.poc_msb_cycle_len_minus1 <= 27 - v.log2_max_poc_lsb_minus4
    /\ v.extra_ph_bits \in {0, 8, 16} /\ v.extra_sh_bits \in {0, 8, 16}
    /\ MinCbFits(v)
    /\ v.transform_skip = 1 => v.log2_transform_skip_max_size_minus2 <= 3
    /\ v.lists0 <= 64 /\ v.lists1 <= 64
    /\ v.six_minus_max_num_merge_cand <= 5
    /\ v.gpm = 1 /\ MaxMerge(v) >= 3 => v.max_merge_minus_max_gpm_cand <= MaxMerge(v) - 2
    /\ v.log2_parallel_merge_level_minus2 <= CtbLog2(v) - 2
    /\ v.transform_skip = 1 \/ v.palette = 1 => v.min_qp_prime_ts <= 8
    /\ v.ibc = 1 => v.six_minus_max_num_ibc_merge_cand <= 5
    /\ v.ladf = 1 => v.ladf_intervals \in 1 .. 4
    /\ v.vui = 1 => v.vui_bytes \in 1 .. 1024

\* A chroma table starts and ends inside of the range of the parameter.
QpTablesFit(v) ==
    /\ v.qp_table_start_minus26 \in -26 - 6 * v.bitdepth_minus8 .. 36
    /\ v.qp_points > 0 /\ v.qp_points - 1 <= 36 - v.qp_table_start_minus26

\* Numbers of virtual boundaries, zero across a picture of at most eight samples.
BoundariesFit(v) ==
    v.virtual_boundaries_enabled = 1 /\ v.virtual_boundaries_present = 1 =>
        /\ v.boundaries_x <= IF v.pic_width <= 8 THEN 0 ELSE 3
        /\ v.boundaries_y <= IF v.pic_height <= 8 THEN 0 ELSE 3

SubblockCandFits(v) == v.affine = 1 => v.five_minus_max_num_subblock_merge_cand <= 5 - v.sbtmvp

SpsRejects(v) ==
    \/ ~InRange(v)
    \/ v.chroma_format_idc > 0 /\ ~QpTablesFit(v)
    \/ ~SubblockCandFits(v) \/ ~BoundariesFit(v)
    \/ v.extension_7bits > 0 /\ v.extension_data = EndsInZero

SpsReads(v) ==
    HeadReads(v) \o OrderReads(v) \o BlocksReads(v) \o TransformReads(v) \o FiltersReads(v)
      \o InterReads(v) \o IntraReads(v) \o ScalingReads(v) \o TailReads(v)

\* A table of one kind is used for all of chroma when there is none to compare with.
SpsImplied(elements, v) ==
    [v EXCEPT !.dpb = v.ptl,
              !.same_qp_table = IF v.chroma_format_idc > 0 THEN @ ELSE 1,
              !.qp_tables = IF v.chroma_format_idc > 0 THEN QpTables(v) ELSE 0,
              !.qp_points = IF v.chroma_format_idc > 0 THEN @ ELSE 0]

SpsWrites(v) ==
    HeadWrites(v) \o OrderWrites(v) \o BlocksWrites(v) \o TransformWrites(v) \o FiltersWrites(v)
      \o InterWrites(v) \o IntraWrites(v) \o ScalingWrites(v) \o TailWrites(v)

SpsRefuses(v) ==
    \/ ~InRange(v)
    \/ v.dpb # v.ptl
    \/ v.dual_tree_intra = 1 /\ v.chroma_format_idc = 0
    \/ IF v.chroma_format_idc > 0 THEN v.qp_tables # QpTables(v) \/ ~QpTablesFit(v) ELSE v.qp_tables > 0
    \/ v.rpl1_same_as_rpl0 = 1 /\ v.lists1 > 0
    \/ /\ v.virtual_boundaries_enabled = 1 /\ v.virtual_boundaries_present = 1
       /\ v.boundaries_x > 3 \/ v.boundaries_y > 3
    \/ v.ptl = 0 /\ v.timing_hrd = 1
    \/ v.extension = 0 /\ (v.range_extension = 1 \/ v.extension_7bits > 0)
    \/ IF v.extension_7bits > 0 THEN v.extension_data = EndsInZero ELSE v.extension_data > 0

\* What the writer leaves to its caller: two ranges, and flags set although what
\* enables them is not.
SpsFits(v) ==
    /\ SubblockCandFits(v) /\ BoundariesFit(v)
    /\ v.max_sublayers_minus1 = 0 => v.sublayer_dpb_params = 0 /\ v.sublayer_cpb_params = 0
    /\ v.act = 1 => v.chroma_format_idc = 3 /\ v.max_luma_transform_size_64 = 0
    /\ v.scaling_for_alternative_disabled = 1 => v.act = 1 /\ v.explicit_scaling_list = 1
    /\ v.max_luma_transform_size_64 = 1 => v.log2_ctu_size_minus5 > 0
    /\ v.inter_layer_prediction = 1 => v.video_parameter_set_id > 0

=============================================================================
