------------------------------ MODULE HevcSyntax ------------------------------
(***************************************************************************)
(* Parameter sets of HEVC (src/hevc.rs), parser and writer of each, and    *)
(* the two parsers of a slice header: parse_slice_header_minimal there and *)
(* parse_slice_segment_header in src/hevc/slice.rs.  Entries of a repeated *)
(* block are alike, so one field stands for all of them.                   *)
(***************************************************************************)
LOCAL INSTANCE Syntax
LOCAL INSTANCE Integers
LOCAL INSTANCE Sequences
LOCAL INSTANCE SequencesExt

-----------------------------------------------------------------------------
(* scaling lists, as numbers *)

\* write_scaling_list_data for one list: each coefficient as its residue from the
\* last; the remainder of a negative difference is negative, as in Rust.
ListDeltas(list, first) ==
    LET rem(d)     == IF d < 0 THEN -((-d) % 256) ELSE d % 256
        residue(d) == IF rem(d) > 127 THEN rem(d) - 256
                      ELSE IF rem(d) < -128 THEN rem(d) + 256 ELSE rem(d)
    IN  [i \in DOMAIN list |-> residue(list[i] - (IF i = 1 THEN first ELSE list[i - 1]))]

\* parse_scaling_list_data for one list, none when a delta is out of range.
ListOfDeltas(deltas, first) ==
    IF \E i \in DOMAIN deltas : deltas[i] \notin -128 .. 127 THEN <<>>
    ELSE FoldLeft(LAMBDA list, d :
                     Append(list, ((IF list = <<>> THEN first ELSE Last(list)) + d + 256) % 256),
                  <<>>, deltas)

\* The lists of every size; at sizeId 3 there are two, which predict by thirds.
\* An explicit list has its DC coefficient from sizeId 2 on.
MatrixIds(size) == IF size = 3 THEN {0, 3} ELSE 0 .. 5

ScalingListReads(v) ==
    Each(4, LAMBDA size :
        Each(IF size = 3 THEN 2 ELSE 6, LAMBDA matrix :
            Flags(<<"pred_mode_flag">>)
              \o When(v.pred_mode_flag = 0, UE(<<"pred_matrix_id_delta">>))
              \o When(v.pred_mode_flag = 1,
                      When(size > 1, SE(<<"dc_coef_minus8">>))
                        \o Sub("delta_coef", IF size = 0 THEN 16 ELSE 64))))

ScalingListRejects(v) ==
    \/ v.pred_mode_flag = 0 /\ \E size \in 0 .. 3 : \E m \in MatrixIds(size) :
          v.pred_matrix_id_delta > IF size = 3 THEN m \div 3 ELSE m
    \/ v.pred_mode_flag = 1 /\ v.dc_coef_minus8 \notin -7 .. 247

ScalingListWrites(v) ==
    Each(4, LAMBDA size :
        Each(IF size = 3 THEN 2 ELSE 6, LAMBDA matrix :
            Flags(<<"pred_mode_flag">>)
              \o IF v.pred_mode_flag = 0 THEN UE(<<"pred_matrix_id_delta">>)
                 ELSE When(size > 1, SE(<<"dc_coef_minus8">>))
                        \o Sub("delta_coef", IF size = 0 THEN 16 ELSE 64)))

ScalingListRefuses(v) ==
    \/ v.pred_mode_flag = 0 /\ \E size \in 0 .. 3 : \E m \in MatrixIds(size) :
          v.pred_matrix_id_delta > IF size = 3 THEN m \div 3 ELSE m
    \/ v.pred_mode_flag = 1 /\ v.dc_coef_minus8 \notin -7 .. 247

-----------------------------------------------------------------------------
(* short-term reference picture sets, as numbers: s0 and s1 are sequences of *)
(* [poc, used], nearest picture first                                        *)

\* An explicit set of the bitstream: counts and differences from entry to entry.
ExplicitWrites(set) ==
    LET steps(entries, sign) ==
            [i \in DOMAIN entries |->
               [minus1 |-> sign * (entries[i].poc - (IF i = 1 THEN 0 ELSE entries[i - 1].poc)) - 1,
                used |-> entries[i].used]]
    IN  [s0 |-> steps(set.s0, -1), s1 |-> steps(set.s1, 1)]

ExplicitRefuses(set, dpb) ==
    LET coded == ExplicitWrites(set)
    IN  \/ Len(set.s0) > dpb
        \/ Len(set.s1) > (IF Len(set.s0) > dpb THEN 0 ELSE dpb - Len(set.s0))
        \/ \E i \in DOMAIN coded.s0 : coded.s0[i].minus1 \notin 0 .. 2^15 - 1
        \/ \E i \in DOMAIN coded.s1 : coded.s1[i].minus1 \notin 0 .. 2^15 - 1

ExplicitReads(coded) ==
    LET sums(steps, sign) ==
            FoldLeft(LAMBDA entries, s :
                Append(entries, [poc |-> (IF entries = <<>> THEN 0 ELSE Last(entries).poc)
                                           + sign * (s.minus1 + 1),
                                 used |-> s.used]), <<>>, steps)
    IN  [s0 |-> sums(coded.s0, -1), s1 |-> sums(coded.s1, 1)]

\* Mutant: the pictures keep the order of the other set.
PredictedInOrder(ref, delta, flags) ==
    LET moved == [j \in DOMAIN flags |->
                    [poc |-> delta + (IF j <= Len(ref.s0) THEN ref.s0[j].poc
                                      ELSE IF j < Len(flags) THEN ref.s1[j - Len(ref.s0)].poc ELSE 0),
                     flag |-> flags[j]]]
        kept(Side(_)) == SelectSeq(moved, LAMBDA e : Side(e.poc) /\ e.flag # "none")
        entries(s) == [i \in DOMAIN s |-> [poc |-> s[i].poc, used |-> s[i].flag = "used"]]
    IN  [s0 |-> entries(kept(LAMBDA poc : poc < 0)), s1 |-> entries(kept(LAMBDA poc : poc > 0))]

\* A set predicted from ref: every picture of ref and the predicted picture itself
\* moved by delta, those whose flag j is set, each side nearest first.  flags[j] is
\* "none", "kept" or "used", for the pictures of ref.s0, of ref.s1, and for delta.
Predicted(ref, delta, flags) ==
    LET n0 == Len(ref.s0)
        n1 == Len(ref.s1)
        at(poc, j) == [poc |-> poc + delta, flag |-> flags[j]]
        below == [i \in 1 .. n0 |-> at(ref.s0[i].poc, i)]
        above == [i \in 1 .. n1 |-> at(ref.s1[i].poc, n0 + i)]
        self  == <<at(0, n0 + n1 + 1)>>
        taken(entries, Side(_)) ==
            LET kept == SelectSeq(entries, LAMBDA e : Side(e.poc) /\ e.flag # "none")
            IN  [i \in DOMAIN kept |-> [poc |-> kept[i].poc, used |-> kept[i].flag = "used"]]
    IN  [s0 |-> taken(Reverse(above) \o self \o below, LAMBDA poc : poc < 0),
         s1 |-> taken(Reverse(below) \o self \o above, LAMBDA poc : poc > 0)]

\* The derivation the writer repeats to check the set it is given.
Rederived(ref, delta, flags) ==
    LET n0 == Len(ref.s0)
        n1 == Len(ref.s1)
        moved == [j \in 1 .. n0 + n1 + 1 |->
                    delta + (IF j <= n0 THEN ref.s0[j].poc
                             ELSE IF j <= n0 + n1 THEN ref.s1[j - n0].poc ELSE 0)]
        indices(a, b) == [i \in 1 .. (b - a + 1) |-> a + i - 1]
        entries(order, Side(_)) ==
            LET kept == SelectSeq(order, LAMBDA j : Side(moved[j]) /\ flags[j] # "none")
            IN  [i \in DOMAIN kept |-> [poc |-> moved[kept[i]], used |-> flags[kept[i]] = "used"]]
    IN  [s0 |-> entries(Reverse(indices(n0 + 1, n0 + n1)) \o <<n0 + n1 + 1>> \o indices(1, n0),
                        LAMBDA poc : poc < 0),
         s1 |-> entries(Reverse(indices(1, n0)) \o <<n0 + n1 + 1>> \o indices(n0 + 1, n0 + n1),
                        LAMBDA poc : poc > 0)]

-----------------------------------------------------------------------------
(* hypothetical reference decoder *)

\* Whether a name was coded; how an Option comes back.
Present(elements, name) == IF name \in Names(elements) THEN 1 ELSE 0

CpbReads(v, count) ==
    Times(count, UE(<<"bit_rate_value_minus1", "cpb_size_value_minus1">>)
                   \o When(v.sub_pic = 1, UE(<<"cpb_size_du_value_minus1", "bit_rate_du_value_minus1">>))
                   \o Flags(<<"cbr_flag">>))

HrdCommonReads(v) ==
    Flags(<<"nal", "vcl">>)
      \o When(v.nal = 1 \/ v.vcl = 1,
              Gated(v, "sub_pic",
                    U(8, <<"tick_divisor_minus2">>)
                      \o U(5, <<"du_cpb_removal_delay_increment_length_minus1">>)
                      \o Flags(<<"sub_pic_cpb_params_in_pic_timing_sei_flag">>)
                      \o U(5, <<"dpb_output_delay_du_length_minus1">>))
                \o U(4, <<"bit_rate_scale", "cpb_size_scale">>)
                \o When(v.sub_pic = 1, U(4, <<"cpb_size_du_scale">>))
                \o U(5, <<"initial_cpb_removal_delay_length_minus1",
                          "au_cpb_removal_delay_length_minus1", "dpb_output_delay_length_minus1">>))

\* given.common is commonInfPresentFlag, given.sub_layers maxNumSubLayersMinus1.
HrdReads(v) ==
    When(v.given.common = 1, HrdCommonReads(v))
      \o Times(v.given.sub_layers + 1,
               Flags(<<"fixed_general">>)
                 \o When(v.fixed_general = 0, Flags(<<"fixed_within">>))
                 \o (IF v.fixed_general = 1 \/ v.fixed_within = 1
                       THEN UE(<<"elemental_duration_in_tc_minus1">>) ELSE Flags(<<"low_delay">>))
                 \o When(v.low_delay = 0, UE(<<"cpb_cnt_minus1">>))
                 \o When(v.nal = 1, CpbReads(v, v.cpb_cnt_minus1 + 1))
                 \o When(v.vcl = 1, CpbReads(v, v.cpb_cnt_minus1 + 1)))

HrdRejects(v) == v.cpb_cnt_minus1 > 31

\* What is inferred: the flag of a fixed rate, the common part of the entry before,
\* and a list of schedules for each kind of conformance.
HrdImplied(elements, v) ==
    LET common == [v EXCEPT !.nal = IF v.given.common = 1 THEN @ ELSE v.given.nal,
                            !.vcl = IF v.given.common = 1 THEN @ ELSE v.given.vcl,
                            !.sub_pic = IF v.given.common = 1 THEN @ ELSE v.given.sub_pic]
    IN  [common EXCEPT
           !.fixed_within = IF v.fixed_general = 1 THEN 1 ELSE @,
           !.elemental = Present(elements, "elemental_duration_in_tc_minus1"),
           !.nal_cpb = IF common.nal = 1 THEN v.cpb_cnt_minus1 + 1 ELSE 0,
           !.vcl_cpb = IF common.vcl = 1 THEN v.cpb_cnt_minus1 + 1 ELSE 0,
           !.sub_layers = v.given.sub_layers + 1]

CpbWrites(v, count) ==
    Times(count, UE(<<"bit_rate_value_minus1", "cpb_size_value_minus1">>)
                   \o When(v.sub_pic = 1, UE(<<"cpb_size_du_value_minus1", "bit_rate_du_value_minus1">>))
                   \o Flags(<<"cbr_flag">>))

HrdCommonWrites(v) ==
    Flags(<<"nal", "vcl">>)
      \o When(v.nal = 1 \/ v.vcl = 1,
              Gated(v, "sub_pic",
                    U(8, <<"tick_divisor_minus2">>)
                      \o U(5, <<"du_cpb_removal_delay_increment_length_minus1">>)
                      \o Flags(<<"sub_pic_cpb_params_in_pic_timing_sei_flag">>)
                      \o U(5, <<"dpb_output_delay_du_length_minus1">>))
                \o U(4, <<"bit_rate_scale", "cpb_size_scale">>)
                \o When(v.sub_pic = 1, U(4, <<"cpb_size_du_scale">>))
                \o U(5, <<"initial_cpb_removal_delay_length_minus1",
                          "au_cpb_removal_delay_length_minus1", "dpb_output_delay_length_minus1">>))

HrdWrites(v) ==
    When(v.given.common = 1, HrdCommonWrites(v))
      \o Times(v.sub_layers,
               Flags(<<"fixed_general">>)
                 \o When(v.fixed_general = 0, Flags(<<"fixed_within">>))
                 \o (IF v.fixed_within = 1 THEN UE(<<"elemental_duration_in_tc_minus1">>)
                     ELSE Flags(<<"low_delay">>))
                 \o When(v.low_delay = 0, UE(<<"cpb_cnt_minus1">>))
                 \o When(v.nal = 1, CpbWrites(v, v.nal_cpb))
                 \o When(v.vcl = 1, CpbWrites(v, v.vcl_cpb)))

HrdRefuses(v) ==
    \/ v.sub_layers # v.given.sub_layers + 1
    \/ v.fixed_general = 1 /\ v.fixed_within = 0
    \/ v.fixed_within = 1 /\ (v.elemental = 0 \/ v.low_delay = 1)
    \/ v.fixed_within = 0 /\ v.elemental = 1
    \/ v.low_delay = 0 /\ v.cpb_cnt_minus1 > 31
    \/ v.low_delay = 1 /\ v.cpb_cnt_minus1 # 0
    \/ v.nal_cpb # (IF v.nal = 1 THEN v.cpb_cnt_minus1 + 1 ELSE 0)
    \/ v.vcl_cpb # (IF v.vcl = 1 THEN v.cpb_cnt_minus1 + 1 ELSE 0)

\* A VPS entry without a common part must carry that of the entry before.
HrdInherits(v) ==
    v.given.common = 1 \/ (v.nal = v.given.nal /\ v.vcl = v.given.vcl /\ v.sub_pic = v.given.sub_pic)

-----------------------------------------------------------------------------
(* video usability information *)

ExtendedSar == 255

VuiReads(v) ==
    Gated(v, "aspect_ratio_info_present_flag",
          U(8, <<"aspect_ratio_idc">>)
            \o When(v.aspect_ratio_idc = ExtendedSar, U(16, <<"sar_width", "sar_height">>)))
      \o Gated(v, "overscan_info_present_flag", Flags(<<"overscan_appropriate_flag">>))
      \o Gated(v, "video_signal_type_present_flag",
               U(3, <<"video_format">>) \o Flags(<<"video_full_range_flag">>)
                 \o Gated(v, "colour_description_present_flag",
                          U(8, <<"colour_primaries", "transfer_characteristics", "matrix_coeffs">>)))
      \o Gated(v, "chroma_loc_info_present_flag", UE(<<"type_top_field", "type_bottom_field">>))
      \o Flags(<<"neutral_chroma_indication_flag", "field_seq_flag", "frame_field_info_present_flag">>)
      \o Gated(v, "default_display_window", UE(<<"left", "right", "top", "bottom">>))
      \o Gated(v, "vui_timing_info_present_flag",
               U(32, <<"vui_num_units_in_tick", "vui_time_scale">>)
                 \o Gated(v, "vui_poc_proportional_to_timing_flag", UE(<<"num_ticks_poc_diff_one_minus1">>))
                 \o Gated(v, "hrd_parameters", Sub("hrd", 0)))
      \o Gated(v, "bitstream_restriction_flag",
               Flags(<<"tiles_fixed_structure_flag", "motion_vectors_over_pic_boundaries_flag",
                       "restricted_ref_pic_lists_flag">>)
                 \o UE(<<"min_spatial_segmentation_idc", "max_bytes_per_pic_denom", "max_bits_per_min_cu_denom",
                         "log2_max_mv_length_horizontal", "log2_max_mv_length_vertical">>))

VuiWrites(v) ==
    Gated(v, "aspect_ratio_info_present_flag",
          U(8, <<"aspect_ratio_idc">>)
            \o When(v.aspect_ratio_idc = ExtendedSar, U(16, <<"sar_width", "sar_height">>)))
      \o Gated(v, "overscan_info_present_flag", Flags(<<"overscan_appropriate_flag">>))
      \o Gated(v, "video_signal_type_present_flag",
               U(3, <<"video_format">>) \o Flags(<<"video_full_range_flag">>)
                 \o Gated(v, "colour_description_present_flag",
                          U(8, <<"colour_primaries", "transfer_characteristics", "matrix_coeffs">>)))
      \o Gated(v, "chroma_loc_info_present_flag", UE(<<"type_top_field", "type_bottom_field">>))
      \o Flags(<<"neutral_chroma_indication_flag", "field_seq_flag", "frame_field_info_present_flag">>)
      \o Gated(v, "default_display_window", UE(<<"left", "right", "top", "bottom">>))
      \o Gated(v, "vui_timing_info_present_flag",
               U(32, <<"vui_num_units_in_tick", "vui_time_scale">>)
                 \o Gated(v, "vui_poc_proportional_to_timing_flag", UE(<<"num_ticks_poc_diff_one_minus1">>))
                 \o Gated(v, "hrd_parameters", Sub("hrd", 0)))
      \o Gated(v, "bitstream_restriction_flag",
               Flags(<<"tiles_fixed_structure_flag", "motion_vectors_over_pic_boundaries_flag",
                       "restricted_ref_pic_lists_flag">>)
                 \o UE(<<"min_spatial_segmentation_idc", "max_bytes_per_pic_denom", "max_bits_per_min_cu_denom",
                         "log2_max_mv_length_horizontal", "log2_max_mv_length_vertical">>))

VuiRefuses(v) == v.vui_timing_info_present_flag = 0 /\ v.hrd_parameters = 1

-----------------------------------------------------------------------------
(* profile, tier and level *)

ProfileReads ==
    U(2, <<"profile_space">>) \o Flags(<<"tier_flag">>) \o U(5, <<"profile_idc">>)
      \o U(32, <<"profile_compatibility_flags">>) \o U(48, <<"constraint_bits">>)

PtlReads(v) ==
    ProfileReads \o U(8, <<"general_level_idc">>)
      \o When(v.given > 0,
              Times(v.given, Flags(<<"profile", "level">>))
                \o U(2 * (8 - v.given), <<"sub_layer_reserved_bits">>)
                \o Times(v.given, When(v.profile = 1, ProfileReads)
                                    \o When(v.level = 1, U(8, <<"sub_layer_level_idc">>))))

\* An entry is pushed for every sub-layer.
PtlImplied(elements, v) == [v EXCEPT !.sub_layers = v.given]

ProfileWrites ==
    U(2, <<"profile_space">>) \o Flags(<<"tier_flag">>) \o U(5, <<"profile_idc">>)
      \o U(32, <<"profile_compatibility_flags">>) \o U(48, <<"constraint_bits">>)

PtlWrites(v) ==
    ProfileWrites \o U(8, <<"general_level_idc">>)
      \o When(v.given > 0,
              Times(v.sub_layers, Flags(<<"profile", "level">>))
                \o U(2 * (8 - v.given), <<"sub_layer_reserved_bits">>)
                \o Times(v.sub_layers, When(v.profile = 1, ProfileWrites)
                                         \o When(v.level = 1, U(8, <<"sub_layer_level_idc">>))))

PtlRefuses(v) ==
    \/ v.sub_layers # v.given
    \/ v.given > 0 /\ v.sub_layer_reserved_bits \div 2^(2 * (8 - v.given)) # 0

-----------------------------------------------------------------------------
(* ordering of sub-layers, in the VPS and in the SPS *)

OrderingReads(v) ==
    Flags(<<"ordering_present">>)
      \o Times(IF v.ordering_present = 1 THEN v.max_sub_layers_minus1 + 1 ELSE 1,
               UE(<<"max_dec_pic_buffering_minus1", "max_num_reorder_pics", "max_latency_increase_plus1">>))

OrderingRejects(v) == v.max_dec_pic_buffering_minus1 > 15

\* Every entry is kept, the last one a second time for whom it suffices.
OrderingImplied(v) ==
    [v EXCEPT !.ordering = IF v.ordering_present = 1 THEN v.max_sub_layers_minus1 + 1 ELSE 1,
              !.highest = v.max_dec_pic_buffering_minus1]

OrderingWrites(v) ==
    Flags(<<"ordering_present">>)
      \o Times(v.ordering,
               UE(<<"max_dec_pic_buffering_minus1", "max_num_reorder_pics", "max_latency_increase_plus1">>))

\* Mutant: the sub-layers are not counted.
OrderingRefusesValues(v) == v.max_dec_pic_buffering_minus1 > 15

OrderingRefuses(v) ==
    \/ v.ordering # (IF v.ordering_present = 1 THEN v.max_sub_layers_minus1 + 1 ELSE 1)
    \/ v.max_dec_pic_buffering_minus1 > 15

-----------------------------------------------------------------------------
(* video parameter sets *)

VpsReads(v) ==
    U(4, <<"vps_video_parameter_set_id">>)
      \o Flags(<<"vps_base_layer_internal_flag", "vps_base_layer_available_flag">>)
      \o U(6, <<"vps_max_layers_minus1">>) \o U(3, <<"max_sub_layers_minus1">>)
      \o Flags(<<"vps_temporal_id_nesting_flag">>) \o U(16, <<"vps_reserved_0xffff_16bits">>)
      \o Sub("profile_tier_level", v.max_sub_layers_minus1)
      \o OrderingReads(v)
      \o U(6, <<"vps_max_layer_id">>) \o UE(<<"vps_num_layer_sets_minus1">>)
      \o Times(v.vps_num_layer_sets_minus1, Times(v.vps_max_layer_id + 1, Flags(<<"layer_id_included">>)))
      \o Gated(v, "timing_info",
               U(32, <<"vps_num_units_in_tick", "vps_time_scale">>)
                 \o Gated(v, "poc_proportional", UE(<<"vps_num_ticks_poc_diff_one_minus1">>))
                 \o UE(<<"hrd_parameters">>)
                 \o Each(v.hrd_parameters, LAMBDA i :
                       UE(<<"hrd_layer_set_idx">>) \o When(i > 0, Flags(<<"cprms_present_flag">>))
                         \o Sub("hrd", IF i = 0 THEN 1 ELSE v.cprms_present_flag)))
      \o Flags(<<"vps_extension_flag">>)

VpsRejects(v) ==
    \/ v.max_sub_layers_minus1 > 6
    \/ OrderingRejects(v)
    \/ v.vps_num_layer_sets_minus1 > 1023
    \/ v.timing_info = 1 /\ v.hrd_parameters > v.vps_num_layer_sets_minus1 + 1

\* A mask for every layer set but the first; an entry of its own common part first.
VpsImplied(elements, v) ==
    [OrderingImplied(v) EXCEPT
        !.layer_id_included = v.vps_num_layer_sets_minus1,
        !.first_cprms = IF v.hrd_parameters > 0 THEN 1 ELSE 0]

VpsWrites(v) ==
    U(4, <<"vps_video_parameter_set_id">>)
      \o Flags(<<"vps_base_layer_internal_flag", "vps_base_layer_available_flag">>)
      \o U(6, <<"vps_max_layers_minus1">>) \o U(3, <<"max_sub_layers_minus1">>)
      \o Flags(<<"vps_temporal_id_nesting_flag">>) \o U(16, <<"vps_reserved_0xffff_16bits">>)
      \o Sub("profile_tier_level", v.max_sub_layers_minus1)
      \o OrderingWrites(v)
      \o U(6, <<"vps_max_layer_id">>) \o UE(<<"vps_num_layer_sets_minus1">>)
      \o Times(v.layer_id_included, Times(v.vps_max_layer_id + 1, Flags(<<"layer_id_included">>)))
      \o Gated(v, "timing_info",
               U(32, <<"vps_num_units_in_tick", "vps_time_scale">>)
                 \o Gated(v, "poc_proportional", UE(<<"vps_num_ticks_poc_diff_one_minus1">>))
                 \o UE(<<"hrd_parameters">>)
                 \o Each(v.hrd_parameters, LAMBDA i :
                       UE(<<"hrd_layer_set_idx">>) \o When(i # 0, Flags(<<"cprms_present_flag">>))
                         \o Sub("hrd", IF i = 0 THEN v.first_cprms ELSE v.cprms_present_flag)))
      \o Flags(<<"vps_extension_flag">>)

VpsRefuses(v) ==
    \/ v.vps_extension_flag = 1
    \/ v.max_sub_layers_minus1 > 6
    \/ v.vps_num_layer_sets_minus1 > 1023
    \/ OrderingRefuses(v)
    \/ v.vps_max_layer_id > 63
    \/ v.layer_id_included # v.vps_num_layer_sets_minus1
    \/ /\ v.timing_info = 1
       /\ \/ v.hrd_parameters > v.vps_num_layer_sets_minus1 + 1
          \/ v.hrd_parameters > 0 /\ v.first_cprms = 0
    \/ v.timing_info = 0 /\ v.hrd_parameters > 0

-----------------------------------------------------------------------------
(* sequence parameter sets *)

SpsRangeReads ==
    Flags(<<"transform_skip_rotation_enabled_flag", "transform_skip_context_enabled_flag",
            "implicit_rdpcm_enabled_flag", "explicit_rdpcm_enabled_flag",
            "extended_precision_processing_flag", "intra_smoothing_disabled_flag",
            "high_precision_offsets_enabled_flag", "persistent_rice_adaptation_enabled_flag",
            "cabac_bypass_alignment_enabled_flag">>)

\* Up to the reference picture sets; each of these is coded by a function of its
\* own, the number of its pictures stands for it.
SpsHeadReads(v) ==
    U(4, <<"sps_video_parameter_set_id">>) \o U(3, <<"max_sub_layers_minus1">>)
      \o Flags(<<"sps_temporal_id_nesting_flag">>)
      \o Sub("profile_tier_level", v.max_sub_layers_minus1)
      \o UE(<<"sps_seq_parameter_set_id", "chroma_format_idc">>)
      \o When(v.chroma_format_idc = 3, Flags(<<"separate_colour_plane_flag">>))
      \o UE(<<"pic_width_in_luma_samples", "pic_height_in_luma_samples">>)
      \o Gated(v, "conformance_window", UE(<<"left", "right", "top", "bottom">>))
      \o UE(<<"bit_depth_luma_minus8", "bit_depth_chroma_minus8", "log2_max_poc_lsb_minus4">>)
      \o OrderingReads(v)
      \o UE(<<"log2_min_cb_minus3", "log2_diff_cb", "log2_min_tb_minus2", "log2_diff_tb",
              "max_transform_hierarchy_depth_inter", "max_transform_hierarchy_depth_intra">>)
      \o Gated(v, "scaling_list_enabled", Gated(v, "scaling_list_data", Sub("scaling_list", 0)))
      \o Flags(<<"amp_enabled_flag", "sample_adaptive_offset_enabled_flag">>)
      \o Gated(v, "pcm_enabled",
               U(4, <<"pcm_sample_bit_depth_luma_minus1", "pcm_sample_bit_depth_chroma_minus1">>)
                 \o UE(<<"log2_min_pcm_cb_minus3", "log2_diff_pcm_cb">>)
                 \o Flags(<<"pcm_loop_filter_disabled_flag">>))

SpsReads(v) ==
    SpsHeadReads(v)
      \o UE(<<"num_short_term_ref_pic_sets">>)
      \o Each(v.num_short_term_ref_pic_sets,
              LAMBDA i : Sub("st_ref_pic_set", i) \o UE(<<"pictures_of_set">>))
      \o Gated(v, "long_term_present",
               UE(<<"num_long_term_ref_pics_sps">>)
                 \o Times(v.num_long_term_ref_pics_sps,
                          U(v.log2_max_poc_lsb_minus4 + 4, <<"lt_ref_pic_poc_lsb_sps">>)
                            \o Flags(<<"used_by_curr_pic_lt_sps_flag">>)))
      \o Flags(<<"sps_temporal_mvp_enabled_flag", "strong_intra_smoothing_enabled_flag">>)
      \o Gated(v, "vui", Sub("vui", v.max_sub_layers_minus1))
      \o Gated(v, "extension",
               Flags(<<"range_flag", "multilayer_flag", "three_d_flag", "scc_flag">>)
                 \o U(4, <<"extension_4bits">>))
      \o When(v.range_flag = 1, SpsRangeReads)

\* CtbLog2SizeY must be that of a profile.
CtbFits(v) == v.log2_min_cb_minus3 + 3 + v.log2_diff_cb \in 4 .. 6

SpsRejects(v) ==
    \/ v.max_sub_layers_minus1 > 6
    \/ v.log2_max_poc_lsb_minus4 > 12
    \/ OrderingRejects(v)
    \/ ~CtbFits(v)
    \/ v.num_short_term_ref_pic_sets > 64
    \/ v.num_short_term_ref_pic_sets > 0 /\ v.pictures_of_set > v.highest
    \/ v.long_term_present = 1 /\ v.num_long_term_ref_pics_sps > 32
    \/ 1 \in {v.multilayer_flag, v.three_d_flag, v.scc_flag}

SpsImplied(elements, v) ==
    [OrderingImplied(v) EXCEPT
        !.short_term_rps = v.num_short_term_ref_pic_sets,
        !.long_term_ref_pics = v.num_long_term_ref_pics_sps,
        !.range_extension = v.range_flag]

SpsRangeWrites ==
    Flags(<<"transform_skip_rotation_enabled_flag", "transform_skip_context_enabled_flag",
            "implicit_rdpcm_enabled_flag", "explicit_rdpcm_enabled_flag",
            "extended_precision_processing_flag", "intra_smoothing_disabled_flag",
            "high_precision_offsets_enabled_flag", "persistent_rice_adaptation_enabled_flag",
            "cabac_bypass_alignment_enabled_flag">>)

SpsHeadWrites(v) ==
    U(4, <<"sps_video_parameter_set_id">>) \o U(3, <<"max_sub_layers_minus1">>)
      \o Flags(<<"sps_temporal_id_nesting_flag">>)
      \o Sub("profile_tier_level", v.max_sub_layers_minus1)
      \o UE(<<"sps_seq_parameter_set_id", "chroma_format_idc">>)
      \o When(v.chroma_format_idc = 3, Flags(<<"separate_colour_plane_flag">>))
      \o UE(<<"pic_width_in_luma_samples", "pic_height_in_luma_samples">>)
      \o Gated(v, "conformance_window", UE(<<"left", "right", "top", "bottom">>))
      \o UE(<<"bit_depth_luma_minus8", "bit_depth_chroma_minus8", "log2_max_poc_lsb_minus4">>)
      \o OrderingWrites(v)
      \o UE(<<"log2_min_cb_minus3", "log2_diff_cb", "log2_min_tb_minus2", "log2_diff_tb",
              "max_transform_hierarchy_depth_inter", "max_transform_hierarchy_depth_intra">>)
      \o Gated(v, "scaling_list_enabled", Gated(v, "scaling_list_data", Sub("scaling_list", 0)))
      \o Flags(<<"amp_enabled_flag", "sample_adaptive_offset_enabled_flag">>)
      \o Gated(v, "pcm_enabled",
               U(4, <<"pcm_sample_bit_depth_luma_minus1", "pcm_sample_bit_depth_chroma_minus1">>)
                 \o UE(<<"log2_min_pcm_cb_minus3", "log2_diff_pcm_cb">>)
                 \o Flags(<<"pcm_loop_filter_disabled_flag">>))

\* The flags of the extensions that are refused are written as zeros.
SpsWrites(v) ==
    SpsHeadWrites(v)
      \o UE(<<"num_short_term_ref_pic_sets">>)
      \o Each(v.short_term_rps, LAMBDA i : Sub("st_ref_pic_set", i) \o UE(<<"pictures_of_set">>))
      \o Gated(v, "long_term_present",
               UE(<<"num_long_term_ref_pics_sps">>)
                 \o Times(v.long_term_ref_pics,
                          U(v.log2_max_poc_lsb_minus4 + 4, <<"lt_ref_pic_poc_lsb_sps">>)
                            \o Flags(<<"used_by_curr_pic_lt_sps_flag">>)))
      \o Flags(<<"sps_temporal_mvp_enabled_flag", "strong_intra_smoothing_enabled_flag">>)
      \o Gated(v, "vui", Sub("vui", v.max_sub_layers_minus1))
      \o Gated(v, "extension",
               Flags(<<"range_flag", "multilayer_flag", "three_d_flag", "scc_flag">>)
                 \o U(4, <<"extension_4bits">>))
      \o When(v.range_flag = 1, SpsRangeWrites)

SpsRefuses(v) ==
    \/ 1 \in {v.multilayer_flag, v.three_d_flag, v.scc_flag}
    \/ v.extension_4bits # 0
    \/ v.max_sub_layers_minus1 > 6
    \/ v.chroma_format_idc # 3 /\ v.separate_colour_plane_flag = 1
    \/ v.log2_max_poc_lsb_minus4 > 12
    \/ OrderingRefuses(v)
    \/ ~CtbFits(v)
    \/ v.scaling_list_enabled = 0 /\ v.scaling_list_data = 1
    \/ v.num_short_term_ref_pic_sets # v.short_term_rps
    \/ v.short_term_rps > 64
    \/ v.short_term_rps > 0 /\ v.pictures_of_set > v.highest
    \/ /\ v.long_term_present = 1
       /\ v.num_long_term_ref_pics_sps # v.long_term_ref_pics \/ v.long_term_ref_pics > 32
    \/ v.long_term_present = 0 /\ v.long_term_ref_pics > 0
    \/ v.extension = 0 /\ (v.range_flag = 1 \/ v.range_extension = 1)
    \/ v.range_flag # v.range_extension

\* The number the writer checks the sets against is that of the last entry.
HighestFits(v) == v.highest = v.max_dec_pic_buffering_minus1

-----------------------------------------------------------------------------
(* picture parameter sets *)

TilesReads(v) ==
    UE(<<"num_tile_columns_minus1", "num_tile_rows_minus1">>) \o Flags(<<"uniform_spacing">>)
      \o When(v.uniform_spacing = 0,
              Times(v.num_tile_columns_minus1, UE(<<"column_width_minus1">>))
                \o Times(v.num_tile_rows_minus1, UE(<<"row_height_minus1">>)))
      \o Flags(<<"loop_filter_across_tiles_enabled_flag">>)

\* The length of the list stands for chroma_qp_offset_list_len_minus1.
PpsRangeReads(v) ==
    When(v.transform_skip = 1, UE(<<"log2_max_transform_skip_block_size_minus2">>))
      \o Flags(<<"cross_component_prediction_enabled_flag">>)
      \o Gated(v, "chroma_qp_offsets",
               UE(<<"diff_cu_chroma_qp_offset_depth", "offset_list">>)
                 \o Times(v.offset_list, SE(<<"cb_qp_offset_list", "cr_qp_offset_list">>)))
      \o UE(<<"log2_sao_offset_scale_luma", "log2_sao_offset_scale_chroma">>)

PpsReads(v) ==
    UE(<<"pps_pic_parameter_set_id", "pps_seq_parameter_set_id">>)
      \o Flags(<<"dependent_slice_segments_enabled_flag", "output_flag_present_flag">>)
      \o U(3, <<"num_extra_slice_header_bits">>)
      \o Flags(<<"sign_data_hiding_enabled_flag", "cabac_init_present_flag">>)
      \o UE(<<"num_ref_idx_l0_default_active_minus1", "num_ref_idx_l1_default_active_minus1">>)
      \o SE(<<"init_qp_minus26">>)
      \o Flags(<<"constrained_intra_pred_flag", "transform_skip">>)
      \o Gated(v, "cu_qp_delta", UE(<<"diff_cu_qp_delta_depth">>))
      \o SE(<<"pps_cb_qp_offset", "pps_cr_qp_offset">>)
      \o Flags(<<"pps_slice_chroma_qp_offsets_present_flag", "weighted_pred_flag", "weighted_bipred_flag",
                 "transquant_bypass_enabled_flag", "tiles_enabled", "entropy_coding_sync_enabled_flag">>)
      \o When(v.tiles_enabled = 1, TilesReads(v))
      \o Flags(<<"pps_loop_filter_across_slices_enabled_flag">>)
      \o Gated(v, "deblocking_control",
               Flags(<<"deblocking_filter_override_enabled_flag", "deblocking_disabled">>)
                 \o When(v.deblocking_disabled = 0, SE(<<"pps_beta_offset_div2", "pps_tc_offset_div2">>)))
      \o Gated(v, "scaling_list_data", Sub("scaling_list", 0))
      \o Flags(<<"lists_modification_present_flag">>) \o UE(<<"log2_parallel_merge_level_minus2">>)
      \o Flags(<<"slice_segment_header_extension_present_flag">>)
      \o Gated(v, "extension",
               Flags(<<"range_flag", "multilayer_flag", "three_d_flag", "scc_flag">>)
                 \o U(4, <<"extension_4bits">>))
      \o When(v.range_flag = 1, PpsRangeReads(v))

PpsRejects(v) ==
    \/ v.range_flag = 1 /\ v.chroma_qp_offsets = 1 /\ v.offset_list \notin 1 .. 6
    \/ 1 \in {v.multilayer_flag, v.three_d_flag, v.scc_flag}

\* Lists are as long as what announced them.
PpsImplied(elements, v) ==
    LET explicit == v.tiles_enabled = 1 /\ v.uniform_spacing = 0
    IN  [v EXCEPT !.tiles = v.tiles_enabled, !.range_extension = v.range_flag,
                  !.column_widths = IF explicit THEN v.num_tile_columns_minus1 ELSE 0,
                  !.row_heights = IF explicit THEN v.num_tile_rows_minus1 ELSE 0]

TilesWrites(v) ==
    UE(<<"num_tile_columns_minus1", "num_tile_rows_minus1">>) \o Flags(<<"uniform_spacing">>)
      \o When(v.uniform_spacing = 0,
              Times(v.column_widths, UE(<<"column_width_minus1">>))
                \o Times(v.row_heights, UE(<<"row_height_minus1">>)))
      \o Flags(<<"loop_filter_across_tiles_enabled_flag">>)

PpsRangeWrites(v) ==
    When(v.transform_skip = 1, UE(<<"log2_max_transform_skip_block_size_minus2">>))
      \o Flags(<<"cross_component_prediction_enabled_flag">>)
      \o Gated(v, "chroma_qp_offsets",
               UE(<<"diff_cu_chroma_qp_offset_depth", "offset_list">>)
                 \o Times(v.offset_list, SE(<<"cb_qp_offset_list", "cr_qp_offset_list">>)))
      \o UE(<<"log2_sao_offset_scale_luma", "log2_sao_offset_scale_chroma">>)

PpsWrites(v) ==
    UE(<<"pps_pic_parameter_set_id", "pps_seq_parameter_set_id">>)
      \o Flags(<<"dependent_slice_segments_enabled_flag", "output_flag_present_flag">>)
      \o U(3, <<"num_extra_slice_header_bits">>)
      \o Flags(<<"sign_data_hiding_enabled_flag", "cabac_init_present_flag">>)
      \o UE(<<"num_ref_idx_l0_default_active_minus1", "num_ref_idx_l1_default_active_minus1">>)
      \o SE(<<"init_qp_minus26">>)
      \o Flags(<<"constrained_intra_pred_flag", "transform_skip">>)
      \o Gated(v, "cu_qp_delta", UE(<<"diff_cu_qp_delta_depth">>))
      \o SE(<<"pps_cb_qp_offset", "pps_cr_qp_offset">>)
      \o Flags(<<"pps_slice_chroma_qp_offsets_present_flag", "weighted_pred_flag", "weighted_bipred_flag",
                 "transquant_bypass_enabled_flag", "tiles_enabled", "entropy_coding_sync_enabled_flag">>)
      \o When(v.tiles_enabled = 1, TilesWrites(v))
      \o Flags(<<"pps_loop_filter_across_slices_enabled_flag">>)
      \o Gated(v, "deblocking_control",
               Flags(<<"deblocking_filter_override_enabled_flag", "deblocking_disabled">>)
                 \o When(v.deblocking_disabled = 0, SE(<<"pps_beta_offset_div2", "pps_tc_offset_div2">>)))
      \o Gated(v, "scaling_list_data", Sub("scaling_list", 0))
      \o Flags(<<"lists_modification_present_flag">>) \o UE(<<"log2_parallel_merge_level_minus2">>)
      \o Flags(<<"slice_segment_header_extension_present_flag">>)
      \o Gated(v, "extension",
               Flags(<<"range_flag", "multilayer_flag", "three_d_flag", "scc_flag">>)
                 \o U(4, <<"extension_4bits">>))
      \o When(v.range_flag = 1, PpsRangeWrites(v))

PpsRefuses(v) ==
    \/ 1 \in {v.multilayer_flag, v.three_d_flag, v.scc_flag}
    \/ v.extension_4bits # 0
    \/ v.tiles_enabled # v.tiles
    \/ /\ v.tiles_enabled = 1
       /\ IF v.uniform_spacing = 0
            THEN v.column_widths # v.num_tile_columns_minus1 \/ v.row_heights # v.num_tile_rows_minus1
            ELSE v.column_widths > 0 \/ v.row_heights > 0
    \/ v.extension = 0 /\ (v.range_flag = 1 \/ v.range_extension = 1)
    \/ v.range_flag # v.range_extension
    \/ /\ v.range_flag = 1
       /\ \/ v.transform_skip = 0 /\ v.log2_max_transform_skip_block_size_minus2 # 0
          \/ v.chroma_qp_offsets = 1 /\ v.offset_list \notin 1 .. 6
          \/ v.chroma_qp_offsets = 0 /\ v.offset_list > 0

-----------------------------------------------------------------------------
(* slice headers: given holds the flags of the parameter sets, the kind of NAL *)
(* unit (trail, idr, cra or bla) and the size in coding tree blocks            *)

\* Ceil( Log2( n ) ), and the number of significant bits of n.
CeilLog2(n) == CHOOSE b \in 0 .. 31 : 2^b >= n /\ (b = 0 \/ 2^(b - 1) < n)
SignificantBits(n) == CHOOSE b \in 0 .. 31 : 2^b > n /\ (b = 0 \/ 2^(b - 1) <= n)

\* parse_slice_segment_header and the head of parse_independent.
SegmentReads(v) ==
    Flags(<<"first_segment">>)
      \o When(v.given.nal \in {"idr", "cra", "bla"}, Flags(<<"no_output_of_prior_pics_flag">>))
      \o UE(<<"slice_pic_parameter_set_id">>)
      \o When(v.first_segment = 0,
              When(v.given.dependent_enabled = 1, Flags(<<"dependent">>))
                \o U(CeilLog2(v.given.ctbs), <<"slice_segment_address">>))
      \o When(v.dependent = 0,
              Times(v.given.extra_bits, Flags(<<"slice_reserved_flag">>))
                \o UE(<<"slice_type">>)
                \o When(v.given.output_flag = 1, Flags(<<"pic_output_flag">>))
                \o When(v.given.separate_planes = 1, U(2, <<"colour_plane_id">>))
                \o When(v.given.nal # "idr", U(v.given.lsb_bits, <<"slice_pic_order_cnt_lsb">>)))

\* is_irap of hevc.rs, which leaves out BLA pictures.
HasPriorPicsFlag(v) == v.given.nal \in {"idr", "cra"}

\* parse_slice_header_minimal, which does not take dependent segments.
MinimalReads(v) ==
    Flags(<<"first_segment">>)
      \o When(HasPriorPicsFlag(v), Flags(<<"no_output_of_prior_pics_flag">>))
      \o UE(<<"slice_pic_parameter_set_id">>)
      \o When(v.first_segment = 0 /\ v.given.dependent_enabled = 1, Flags(<<"dependent">>))
      \o When(v.dependent = 0 /\ v.first_segment = 0,
              U(SignificantBits(v.given.ctbs), <<"slice_segment_address">>))
      \o When(v.dependent = 0,
              Times(v.given.extra_bits, Flags(<<"slice_reserved_flag">>))
                \o UE(<<"slice_type">>)
                \o When(v.given.output_flag = 1, Flags(<<"pic_output_flag">>))
                \o When(v.given.separate_planes = 1, U(2, <<"colour_plane_id">>))
                \o When(v.given.nal # "idr", U(v.given.lsb_bits, <<"slice_pic_order_cnt_lsb">>)))

=============================================================================
