------------------------------ MODULE H266Syntax ------------------------------
(***************************************************************************)
(* The structures the parameter sets of H.266 share (src/h266/params.rs),  *)
(* the small NAL units of src/h266.rs, the adaptation parameter sets with  *)
(* their three payloads (src/h266/aps.rs) and the video parameter set      *)
(* (src/h266/vps.rs): parser and writer of each.                           *)
(***************************************************************************)
LOCAL INSTANCE Syntax
LOCAL INSTANCE Integers
LOCAL INSTANCE Sequences
LOCAL INSTANCE SequencesExt
LOCAL INSTANCE FiniteSets

Align == Sub("byte_alignment", 0)
Trailing == Sub("rbsp_trailing_bits", 0)

-----------------------------------------------------------------------------
(* decoded picture buffer: given holds the highest sub-layer and whether all *)
(* sub-layers are described                                                  *)

DpbReads(v) ==
    Times(v.given.max_sublayers_minus1 + 1 - (IF v.given.all = 1 THEN 0 ELSE v.given.max_sublayers_minus1),
          UE(<<"max_dec_pic_buffering_minus1", "max_num_reorder_pics", "max_latency_increase_plus1">>))

DpbRejects(v) ==
    \/ v.max_dec_pic_buffering_minus1 > 15
    \/ v.max_num_reorder_pics > v.max_dec_pic_buffering_minus1

DpbImplied(elements, v) ==
    [v EXCEPT !.entries = IF v.given.all = 1 THEN v.given.max_sublayers_minus1 + 1 ELSE 1]

DpbWrites(v) ==
    Times(v.entries,
          UE(<<"max_dec_pic_buffering_minus1", "max_num_reorder_pics", "max_latency_increase_plus1">>))

DpbRefuses(v) == v.entries # IF v.given.all = 1 THEN v.given.max_sublayers_minus1 + 1 ELSE 1

\* The writer leaves the ranges to its caller.
DpbFits(v) == ~DpbRejects(v)

-----------------------------------------------------------------------------
(* hypothetical reference decoder *)

AnyHrd(v) == v.nal = 1 \/ v.vcl = 1

GeneralHrdReads(v) ==
    U(32, <<"num_units_in_tick", "time_scale">>) \o Flags(<<"nal", "vcl">>)
      \o When(AnyHrd(v),
              Flags(<<"general_same_pic_timing_in_all_ols_flag", "du">>)
                \o When(v.du = 1, U(8, <<"tick_divisor_minus2">>))
                \o U(4, <<"bit_rate_scale", "cpb_size_scale">>)
                \o When(v.du = 1, U(4, <<"cpb_size_du_scale">>))
                \o UE(<<"hrd_cpb_cnt_minus1">>))

GeneralHrdRejects(v) ==
    \/ v.num_units_in_tick = 0 \/ v.time_scale = 0
    \/ AnyHrd(v) /\ v.hrd_cpb_cnt_minus1 > 31

GeneralHrdWrites(v) ==
    U(32, <<"num_units_in_tick", "time_scale">>) \o Flags(<<"nal", "vcl">>)
      \o When(AnyHrd(v),
              Flags(<<"general_same_pic_timing_in_all_ols_flag", "du">>)
                \o When(v.du = 1, U(8, <<"tick_divisor_minus2">>))
                \o U(4, <<"bit_rate_scale", "cpb_size_scale">>)
                \o When(v.du = 1, U(4, <<"cpb_size_du_scale">>))
                \o UE(<<"hrd_cpb_cnt_minus1">>))

GeneralHrdRefuses(v) ==
    \/ v.num_units_in_tick = 0 \/ v.time_scale = 0
    \/ AnyHrd(v) /\ v.hrd_cpb_cnt_minus1 > 31

\* One kind of schedule of a sub-layer; given holds the general parameters.
SchedulesReads(v) ==
    Times(v.given.hrd_cpb_cnt_minus1 + 1,
          UE(<<"bit_rate_value_minus1", "cpb_size_value_minus1">>)
            \o When(v.given.du = 1, UE(<<"cpb_size_du_value_minus1", "bit_rate_du_value_minus1">>))
            \o Flags(<<"cbr_flag">>))

SchedulesWrites(v, count) ==
    Times(count,
          UE(<<"bit_rate_value_minus1", "cpb_size_value_minus1">>)
            \o When(v.du_values = 1, UE(<<"cpb_size_du_value_minus1", "bit_rate_du_value_minus1">>))
            \o Flags(<<"cbr_flag">>))

SchedulesRefuses(v, count) == count # v.given.hrd_cpb_cnt_minus1 + 1 \/ v.du_values # v.given.du

OlsHrdReads(v) ==
    Times(v.given.max_sublayers_val - v.given.first_sublayer + 1,
          Flags(<<"fixed_general">>)
            \o When(v.fixed_general = 0, Flags(<<"fixed_within">>))
            \o (IF v.fixed_general = 1 \/ v.fixed_within = 1 THEN UE(<<"elemental_duration_in_tc_minus1">>)
                ELSE When(AnyHrd(v.given) /\ v.given.hrd_cpb_cnt_minus1 = 0, Flags(<<"low_delay_hrd_flag">>)))
            \o When(v.given.nal = 1, SchedulesReads(v))
            \o When(v.given.vcl = 1, SchedulesReads(v)))

OlsHrdRejects(v) == v.fixed_within = 1 /\ v.elemental_duration_in_tc_minus1 > 2047

OlsHrdImplied(elements, v) ==
    [v EXCEPT !.fixed_within = IF v.fixed_general = 1 THEN 1 ELSE @,
              !.sublayers = v.given.max_sublayers_val - v.given.first_sublayer + 1,
              !.nal_schedules = IF v.given.nal = 1 THEN v.given.hrd_cpb_cnt_minus1 + 1 ELSE 0,
              !.vcl_schedules = IF v.given.vcl = 1 THEN v.given.hrd_cpb_cnt_minus1 + 1 ELSE 0,
              !.du_values = IF AnyHrd(v.given) THEN v.given.du ELSE 0]

OlsHrdWrites(v) ==
    Times(v.sublayers,
          Flags(<<"fixed_general">>)
            \o When(v.fixed_general = 0, Flags(<<"fixed_within">>))
            \o (IF v.fixed_within = 1 THEN UE(<<"elemental_duration_in_tc_minus1">>)
                ELSE When(AnyHrd(v.given) /\ v.given.hrd_cpb_cnt_minus1 = 0, Flags(<<"low_delay_hrd_flag">>)))
            \o When(v.given.nal = 1, SchedulesWrites(v, v.nal_schedules))
            \o When(v.given.vcl = 1, SchedulesWrites(v, v.vcl_schedules)))

OlsHrdRefuses(v) ==
    \/ v.sublayers # v.given.max_sublayers_val - v.given.first_sublayer + 1
    \/ v.fixed_within = 1 /\ v.elemental_duration_in_tc_minus1 > 2047
    \/ (v.nal_schedules > 0) # (v.given.nal = 1)
    \/ (v.vcl_schedules > 0) # (v.given.vcl = 1)
    \/ v.given.nal = 1 /\ SchedulesRefuses(v, v.nal_schedules)
    \/ v.given.vcl = 1 /\ SchedulesRefuses(v, v.vcl_schedules)

\* A rate fixed in general is fixed within the sequence; the writer does not look.
OlsHrdFits(v) == v.fixed_general = 1 => v.fixed_within = 1

-----------------------------------------------------------------------------
(* reference picture lists: entries alike, given what the SPS enables *)

RplReads(v) ==
    UE(<<"entries">>)
      \o When(v.given.long_term = 1 /\ v.given.in_sps_list = 1 /\ v.entries > 0, Flags(<<"ltrp_in_header">>))
      \o Times(v.entries,
               When(v.given.inter_layer = 1, Flags(<<"inter_layer">>))
                 \o (IF v.given.inter_layer = 1 /\ v.inter_layer = 1 THEN UE(<<"ilrp_idx">>)
                     ELSE When(v.given.long_term = 1, Flags(<<"short_term">>))
                            \o (IF v.given.long_term = 0 \/ v.short_term = 1
                                  THEN UE(<<"abs_delta_poc_st">>)
                                         \o When(v.abs_delta_poc_st > 0, Flags(<<"strp_entry_sign_flag">>))
                                  ELSE When(v.ltrp_in_header = 0, U(v.given.lsb_bits, <<"poc_lsb_lt">>)))))

MaxEntries == 29

RplRejects(v) == v.entries > MaxEntries \/ (v.entries > 0 /\ v.abs_delta_poc_st > 2^15 - 1)

\* What is inferred: the lsb in the header, and the kind of an entry.
RplImplied(elements, v) ==
    [v EXCEPT
        !.ltrp_in_header = IF "ltrp_in_header" \in Names(elements) THEN @ ELSE 1,
        !.short_term = IF "abs_delta_poc_st" \in Names(elements) THEN 1 ELSE 0,
        !.lsb_present = IF "poc_lsb_lt" \in Names(elements) THEN 1 ELSE 0]

RplWrites(v) ==
    UE(<<"entries">>)
      \o When(v.given.long_term = 1 /\ v.given.in_sps_list = 1 /\ v.entries > 0, Flags(<<"ltrp_in_header">>))
      \o Times(v.entries,
               When(v.given.inter_layer = 1, Flags(<<"inter_layer">>))
                 \o (IF v.inter_layer = 1 THEN UE(<<"ilrp_idx">>)
                     ELSE IF v.short_term = 1
                       THEN When(v.given.long_term = 1, Flags(<<"short_term">>))
                              \o UE(<<"abs_delta_poc_st">>)
                              \o When(v.abs_delta_poc_st > 0, Flags(<<"strp_entry_sign_flag">>))
                       ELSE Flags(<<"short_term">>)
                              \o When(v.lsb_present = 1, U(v.given.lsb_bits, <<"poc_lsb_lt">>))))

RplRefuses(v) ==
    \/ v.entries > MaxEntries
    \/ /\ v.entries > 0
       /\ IF v.inter_layer = 1 THEN v.given.inter_layer = 0
          ELSE IF v.short_term = 1 THEN v.abs_delta_poc_st > 2^15 - 1
          ELSE \/ v.given.long_term = 0
               \/ (v.lsb_present = 1) # (v.ltrp_in_header = 0)
               \/ v.lsb_present = 1 /\ v.given.lsb_bits < 31 /\ v.poc_lsb_lt >= 2^v.given.lsb_bits

\* Outside of the lists of the SPS the lsb is always in the header.
RplFits(v) ==
    (v.given.long_term = 0 \/ v.given.in_sps_list = 0 \/ v.entries = 0) => v.ltrp_in_header = 1

-----------------------------------------------------------------------------
(* profile, tier and level *)

\* walk_general_constraints_info: 69 named bits, the number of additional bits, of
\* which six are named when there are more than five, and alignment.
ConstraintsBits == 77

PtlReads(v) ==
    When(v.given.profile = 1, U(7, <<"profile">>) \o Flags(<<"general_tier_flag">>))
      \o U(8, <<"general_level_idc">>)
      \o Flags(<<"ptl_frame_only_constraint_flag", "ptl_multilayer_enabled_flag">>)
      \o When(v.given.profile = 1,
              Gated(v, "gci_present",
                    U(8, <<"gci_num_additional_bits">>)
                      \o Sub("general_constraints", ConstraintsBits + v.gci_num_additional_bits))
                \o Align)
      \o Times(v.given.max_sublayers_minus1, Flags(<<"sublayer_level_present">>)) \o Align
      \o When(v.sublayer_level_present = 1, Times(v.given.max_sublayers_minus1, U(8, <<"sublayer_level_idc">>)))
      \o When(v.given.profile = 1,
              U(8, <<"sub_profiles">>) \o Times(v.sub_profiles, U(32, <<"general_sub_profile_idc">>)))

\* What is kept: options, lists as long as was read, and the bits of the constraints.
PtlImplied(elements, v) ==
    [v EXCEPT !.profile = v.given.profile,
              !.gci_bits = IF v.gci_present = 1 THEN ConstraintsBits + v.gci_num_additional_bits ELSE 0,
              !.level_flags = v.given.max_sublayers_minus1,
              !.levels = IF v.sublayer_level_present = 1 THEN v.given.max_sublayers_minus1 ELSE 0]

PtlWrites(v) ==
    When(v.given.profile = 1, U(7, <<"profile">>) \o Flags(<<"general_tier_flag">>))
      \o U(8, <<"general_level_idc">>)
      \o Flags(<<"ptl_frame_only_constraint_flag", "ptl_multilayer_enabled_flag">>)
      \o When(v.given.profile = 1,
              Gated(v, "gci_present",
                    U(8, <<"gci_num_additional_bits">>) \o Sub("general_constraints", v.gci_bits))
                \o Align)
      \o Times(v.level_flags, Flags(<<"sublayer_level_present">>)) \o Align
      \o Times(v.levels, U(8, <<"sublayer_level_idc">>))
      \o When(v.given.profile = 1,
              U(8, <<"sub_profiles">>) \o Times(v.sub_profiles, U(32, <<"general_sub_profile_idc">>)))

PtlRefuses(v) ==
    \/ v.given.profile = 1 /\ v.profile = 0
    \/ v.given.profile = 0 /\ (v.profile = 1 \/ v.sub_profiles > 0 \/ v.gci_present = 1)
    \/ /\ v.given.profile = 1
       /\ IF v.gci_present = 1 THEN v.gci_bits < ConstraintsBits ELSE v.gci_bits > 0
    \/ v.level_flags # v.given.max_sublayers_minus1
    \/ v.levels # IF v.sublayer_level_present = 1 THEN v.level_flags ELSE 0
    \/ v.given.profile = 1 /\ v.sub_profiles > 255

\* The bits retained are as many as they themselves announce; without sub-layers
\* there is no flag, and without a profile nothing to align.
PtlFits(v) ==
    /\ v.gci_present = 1 => v.gci_bits = ConstraintsBits + v.gci_num_additional_bits
    /\ v.given.max_sublayers_minus1 = 0 => v.sublayer_level_present = 0

-----------------------------------------------------------------------------
(* operating point information, decoding capability information, delimiter *)

OpiReads(v) ==
    Flags(<<"ols_info", "htid_info">>) \o When(v.ols_info = 1, UE(<<"opi_ols_idx">>))
      \o When(v.htid_info = 1, U(3, <<"opi_htid_plus1">>)) \o Flags(<<"opi_extension_flag">>)
      \o When(v.opi_extension_flag = 0, Trailing)

OpiWrites(v) ==
    Flags(<<"ols_info", "htid_info">>) \o When(v.ols_info = 1, UE(<<"opi_ols_idx">>))
      \o When(v.htid_info = 1, U(3, <<"opi_htid_plus1">>)) \o Flags(<<"opi_extension_flag">>) \o Trailing

OpiRefuses(v) == v.opi_extension_flag = 1 \/ (v.htid_info = 1 /\ v.opi_htid_plus1 > 7)

DciReads(v) ==
    U(4, <<"dci_reserved_zero_4bits">>) \o Count(4, "profile_tier_levels")
      \o Times(v.profile_tier_levels, Sub("profile_tier_level", 0)) \o Flags(<<"dci_extension_flag">>)
      \o When(v.dci_extension_flag = 0, Trailing)

\* One more than a u(4).
DciRejects(v) == v.profile_tier_levels \notin 1 .. 16

DciWrites(v) ==
    U(4, <<"dci_reserved_zero_4bits">>) \o Count(4, "profile_tier_levels")
      \o Times(v.profile_tier_levels, Sub("profile_tier_level", 0)) \o Flags(<<"dci_extension_flag">>) \o Trailing

DciRefuses(v) ==
    \/ v.dci_extension_flag = 1
    \/ v.profile_tier_levels \notin 1 .. 16
    \/ v.dci_reserved_zero_4bits > 15

AudReads(v) == Flags(<<"aud_irap_or_gdr_flag">>) \o U(3, <<"aud_pic_type">>) \o Trailing
AudWrites(v) == Flags(<<"aud_irap_or_gdr_flag">>) \o U(3, <<"aud_pic_type">>) \o Trailing
AudRefuses(v) == v.aud_irap_or_gdr_flag > 1 \/ v.aud_pic_type > 7

-----------------------------------------------------------------------------
(* picture headers: one parser without and one with the SPS *)

HeaderReads(v) ==
    Flags(<<"ph_gdr_or_irap_pic_flag", "ph_non_ref_pic_flag">>)
      \o When(v.ph_gdr_or_irap_pic_flag = 1, Flags(<<"ph_gdr_pic_flag">>))
      \o Flags(<<"ph_inter_slice_allowed_flag">>)
      \o When(v.ph_inter_slice_allowed_flag = 1, Flags(<<"ph_intra_slice_allowed_flag">>))
      \o UE(<<"ph_pic_parameter_set_id">>)

HeaderRejects(v) == v.ph_pic_parameter_set_id > 63

HeaderWithSpsReads(v) ==
    Flags(<<"ph_gdr_or_irap_pic_flag", "ph_non_ref_pic_flag">>)
      \o When(v.ph_gdr_or_irap_pic_flag = 1, Flags(<<"ph_gdr_pic_flag">>))
      \o Flags(<<"ph_inter_slice_allowed_flag">>)
      \o When(v.ph_inter_slice_allowed_flag = 1, Flags(<<"ph_intra_slice_allowed_flag">>))
      \o UE(<<"ph_pic_parameter_set_id">>) \o U(v.given.lsb_bits, <<"ph_pic_order_cnt_lsb">>)
      \o When(v.ph_gdr_or_irap_pic_flag = 1 /\ v.ph_gdr_pic_flag = 1, UE(<<"ph_recovery_poc_cnt">>))

HeaderWithSpsRejects(v) == v.ph_pic_parameter_set_id > 63

IsGdr(v) == v.ph_gdr_or_irap_pic_flag = 1 /\ v.ph_gdr_pic_flag = 1

-----------------------------------------------------------------------------
(* adaptation parameter sets: the coefficients of a filter are alike *)

CeilLog2(n) == CHOOSE b \in 0 .. 31 : 2^b >= n /\ (b = 0 \/ 2^(b - 1) < n)

-----------------------------------------------------------------------------
(* adaptive loop filter: a Vec of rows is its length, and signs are kept of  *)
(* every coefficient                                                         *)

NumAlfFilters == 25

LumaReads(v) ==
    Flags(<<"luma_clip">>) \o UE(<<"luma_num_minus1">>)
      \o When(v.luma_num_minus1 > 0, Times(NumAlfFilters, U(CeilLog2(v.luma_num_minus1 + 1), <<"luma_delta_idx">>)))
      \o Times(v.luma_num_minus1 + 1, Times(12, UE(<<"luma_abs">>) \o When(v.luma_abs # 0, Flags(<<"luma_sign">>))))
      \o When(v.luma_clip = 1, Times(v.luma_num_minus1 + 1, Times(12, U(2, <<"luma_clip_idx">>))))

ChromaReads(v) ==
    Flags(<<"chroma_clip">>) \o UE(<<"chroma_num_minus1">>)
      \o Times(v.chroma_num_minus1 + 1,
               Times(6, UE(<<"chroma_abs">>) \o When(v.chroma_abs # 0, Flags(<<"chroma_sign">>)))
                 \o When(v.chroma_clip = 1, Times(6, U(2, <<"chroma_clip_idx">>))))

CrossReads(v) ==
    UE(<<"cc_num_minus1">>)
      \o Times(v.cc_num_minus1 + 1, Times(7, U(3, <<"cc_abs">>) \o When(v.cc_abs # 0, Flags(<<"cc_sign">>))))

\* Both cross-component banks alike, each behind its own flag.
AlfReads(v) ==
    Flags(<<"luma_flag">>)
      \o When(v.given.chroma_present = 1, Flags(<<"chroma_flag", "cc_cb_flag", "cc_cr_flag">>))
      \o When(v.luma_flag = 1, LumaReads(v)) \o When(v.chroma_flag = 1, ChromaReads(v))
      \o When(v.cc_cb_flag = 1, CrossReads(v)) \o When(v.cc_cr_flag = 1, CrossReads(v))

AlfRejects(v) ==
    \/ /\ v.luma_flag = 1
       /\ v.luma_num_minus1 >= NumAlfFilters \/ v.luma_delta_idx > v.luma_num_minus1 \/ v.luma_abs > 128
    \/ v.chroma_flag = 1 /\ (v.chroma_num_minus1 > 7 \/ v.chroma_abs > 128)
    \/ (v.cc_cb_flag = 1 \/ v.cc_cr_flag = 1) /\ v.cc_num_minus1 > 3

\* The contents kept, and the rows of each.
AlfImplied(elements, v) ==
    LET rows(flag, n) == IF flag = 1 THEN n + 1 ELSE 0
    IN  [v EXCEPT !.luma = v.luma_flag, !.luma_rows = rows(v.luma_flag, v.luma_num_minus1),
                  !.luma_clip_rows = rows(v.luma_clip, v.luma_num_minus1),
                  !.chroma = v.chroma_flag, !.chroma_rows = rows(v.chroma_flag, v.chroma_num_minus1),
                  !.chroma_clip_rows = rows(v.chroma_clip, v.chroma_num_minus1),
                  !.cc_cb = v.cc_cb_flag, !.cc_cr = v.cc_cr_flag,
                  !.cc_rows = IF v.cc_cb_flag = 1 \/ v.cc_cr_flag = 1 THEN v.cc_num_minus1 + 1 ELSE 0]

LumaWrites(v) ==
    Flags(<<"luma_clip">>) \o UE(<<"luma_num_minus1">>)
      \o When(v.luma_num_minus1 > 0, Times(NumAlfFilters, U(CeilLog2(v.luma_num_minus1 + 1), <<"luma_delta_idx">>)))
      \o Times(v.luma_rows, Times(12, UE(<<"luma_abs">>) \o When(v.luma_abs # 0, Flags(<<"luma_sign">>))))
      \o Times(v.luma_clip_rows, Times(12, U(2, <<"luma_clip_idx">>)))

ChromaWrites(v) ==
    Flags(<<"chroma_clip">>) \o UE(<<"chroma_num_minus1">>)
      \o Times(v.chroma_num_minus1 + 1,
               Times(6, UE(<<"chroma_abs">>) \o When(v.chroma_abs # 0, Flags(<<"chroma_sign">>)))
                 \o When(v.chroma_clip = 1, Times(6, U(2, <<"chroma_clip_idx">>))))

CrossWrites(v) ==
    UE(<<"cc_num_minus1">>)
      \o Times(v.cc_rows, Times(7, U(3, <<"cc_abs">>) \o When(v.cc_abs # 0, Flags(<<"cc_sign">>))))

AlfWrites(v) ==
    Flags(<<"luma_flag">>)
      \o When(v.given.chroma_present = 1, Flags(<<"chroma_flag", "cc_cb_flag", "cc_cr_flag">>))
      \o When(v.luma_flag = 1, LumaWrites(v)) \o When(v.chroma_flag = 1, ChromaWrites(v))
      \o When(v.cc_cb_flag = 1, CrossWrites(v)) \o When(v.cc_cr_flag = 1, CrossWrites(v))

\* A sign that is not coded is clear.
LumaRefuses(v) ==
    \/ v.luma_num_minus1 >= NumAlfFilters \/ v.luma_rows # v.luma_num_minus1 + 1
    \/ v.luma_clip_rows # IF v.luma_clip = 1 THEN v.luma_num_minus1 + 1 ELSE 0
    \/ v.luma_delta_idx > v.luma_num_minus1
    \/ v.luma_abs > 128 \/ (v.luma_abs = 0 /\ v.luma_sign = 1)
    \/ v.luma_clip = 1 /\ v.luma_clip_idx > 3

ChromaRefuses(v) ==
    \/ v.chroma_num_minus1 > 7 \/ v.chroma_rows # v.chroma_num_minus1 + 1
    \/ v.chroma_clip_rows # IF v.chroma_clip = 1 THEN v.chroma_num_minus1 + 1 ELSE 0
    \/ v.chroma_abs > 128 \/ (v.chroma_abs = 0 /\ v.chroma_sign = 1)
    \/ v.chroma_clip = 1 /\ v.chroma_clip_idx > 3

\* Mutant: the filters are not counted.
CrossRefusesValues(v) == v.cc_num_minus1 > 3 \/ v.cc_abs > 7 \/ (v.cc_abs = 0 /\ v.cc_sign = 1)

CrossRefuses(v) ==
    \/ v.cc_num_minus1 > 3 \/ v.cc_rows # v.cc_num_minus1 + 1
    \/ v.cc_abs > 7 \/ (v.cc_abs = 0 /\ v.cc_sign = 1)

AlfRefuses(v) ==
    \/ v.given.chroma_present = 0 /\ (v.chroma_flag = 1 \/ v.cc_cb_flag = 1 \/ v.cc_cr_flag = 1)
    \/ v.luma # v.luma_flag \/ v.chroma # v.chroma_flag \/ v.cc_cb # v.cc_cb_flag \/ v.cc_cr # v.cc_cr_flag
    \/ v.luma_flag = 1 /\ LumaRefuses(v)
    \/ v.chroma_flag = 1 /\ ChromaRefuses(v)
    \/ (v.cc_cb_flag = 1 \/ v.cc_cr_flag = 1) /\ CrossRefuses(v)

-----------------------------------------------------------------------------
(* luma mapping with chroma scaling: the codewords of the coded bins alike,  *)
(* outside telling whether a word beside them is not zero                    *)

MaxBin(v) == 15 - v.delta_max_bin_idx

LmcsReads(v) ==
    UE(<<"min_bin_idx", "delta_max_bin_idx", "delta_cw_prec_minus1">>)
      \o Times(MaxBin(v) - v.min_bin_idx + 1,
               U(v.delta_cw_prec_minus1 + 1, <<"delta_abs_cw">>) \o When(v.delta_abs_cw > 0, Flags(<<"delta_sign_cw">>)))
      \o When(v.given.chroma_present = 1,
              U(3, <<"delta_abs_crs">>) \o When(v.delta_abs_crs > 0, Flags(<<"delta_sign_crs">>)))

LmcsInRange(v) ==
    /\ v.min_bin_idx <= 15 /\ v.delta_max_bin_idx <= 15 /\ v.min_bin_idx <= MaxBin(v)
    /\ v.delta_cw_prec_minus1 <= 14

LmcsRejects(v) == ~LmcsInRange(v)

\* The words that are not coded stay zero.
LmcsImplied(elements, v) == [v EXCEPT !.outside = 0]

LmcsWrites(v) ==
    UE(<<"min_bin_idx", "delta_max_bin_idx", "delta_cw_prec_minus1">>)
      \o Times(MaxBin(v) - v.min_bin_idx + 1,
               U(v.delta_cw_prec_minus1 + 1, <<"delta_abs_cw">>) \o When(v.delta_abs_cw > 0, Flags(<<"delta_sign_cw">>)))
      \o When(v.given.chroma_present = 1,
              U(3, <<"delta_abs_crs">>) \o When(v.delta_abs_crs > 0, Flags(<<"delta_sign_crs">>)))

LmcsRefuses(v) ==
    \/ ~LmcsInRange(v)
    \/ v.delta_abs_cw >= 2^(v.delta_cw_prec_minus1 + 1)
    \/ v.delta_abs_cw = 0 /\ v.delta_sign_cw = 1
    \/ v.outside = 1
    \/ IF v.given.chroma_present = 1
         THEN v.delta_abs_crs > 7 \/ (v.delta_abs_crs = 0 /\ v.delta_sign_crs = 1)
         ELSE v.delta_abs_crs > 0 \/ v.delta_sign_crs = 1

-----------------------------------------------------------------------------
(* scaling lists: one of the 28, given its number and whether chroma is coded *)

MaxIdDelta(id) == id - (IF id < 2 THEN 0 ELSE IF id < 8 THEN 2 ELSE 8)
IdCoded(given) == given.chroma_present = 1 \/ given.id % 3 = 2 \/ given.id = 27

\* The first list of a size has none to refer to.
Refers(v) == (v.copy_mode = 1 \/ v.pred_mode = 1) /\ v.given.id \notin {0, 2, 8}

ListReads(v) ==
    When(IdCoded(v.given),
         Flags(<<"copy_mode">>)
           \o When(v.copy_mode = 0, Flags(<<"pred_mode">>))
           \o When(Refers(v), UE(<<"pred_id_delta">>))
           \o When(v.copy_mode = 0, When(v.given.id > 13, SE(<<"dc_coef">>)) \o Sub("delta_coefs", v.given.id)))

DcInRange(v) == v.copy_mode = 0 /\ v.given.id > 13 => v.dc_coef \in -128 .. 127

ListRejects(v) == IdCoded(v.given) /\ (v.pred_id_delta > MaxIdDelta(v.given.id) \/ ~DcInRange(v))

ListImplied(elements, v) == [v EXCEPT !.copy_mode = IF IdCoded(v.given) THEN @ ELSE 1]

ListWrites(v) ==
    When(IdCoded(v.given),
         Flags(<<"copy_mode">>)
           \o When(v.copy_mode = 0, Flags(<<"pred_mode">>))
           \o When(Refers(v), UE(<<"pred_id_delta">>))
           \o When(v.copy_mode = 0, When(v.given.id > 13, SE(<<"dc_coef">>)) \o Sub("delta_coefs", v.given.id)))

ListRefuses(v) ==
    /\ IdCoded(v.given)
    /\ \/ v.copy_mode = 1 /\ v.pred_mode = 1
       \/ IF Refers(v) THEN v.pred_id_delta > MaxIdDelta(v.given.id) ELSE v.pred_id_delta > 0
       \/ ~DcInRange(v)

\* The coefficients: a sum of differences that starts at the DC.  skipped are the
\* positions in the quadrant that is not coded, which repeat the sum.
Failure == <<>>

Accumulated(deltas, dc, skipped, n) ==
    LET step(s, i) ==
            IF i \in skipped THEN [s EXCEPT !.list = Append(@, s.sum)]
            ELSE [sum |-> s.sum + Head(s.deltas), list |-> Append(s.list, s.sum + Head(s.deltas)), deltas |-> Tail(s.deltas)]
    IN  FoldLeft(step, [sum |-> dc, list |-> <<>>, deltas |-> deltas], [i \in 1 .. n |-> i]).list

Differences(list, dc, skipped) ==
    LET step(s, i) ==
            IF i \in skipped THEN [s EXCEPT !.ok = @ /\ list[i] = s.prev]
            ELSE [ok |-> s.ok /\ list[i] - s.prev \in -128 .. 127, prev |-> list[i],
                  deltas |-> Append(s.deltas, list[i] - s.prev)]
        all == FoldLeft(step, [ok |-> TRUE, prev |-> dc, deltas |-> <<>>], [i \in DOMAIN list |-> i])
    IN  IF all.ok THEN all.deltas ELSE Failure

\* diag_scan_8x8: up and to the right along the diagonals of a square, leaving out
\* what lies beside the block.
DiagScan(size) ==
    LET step(s, i) ==
            IF s.y < 0 THEN [s EXCEPT !.y = s.x, !.x = 0]
            ELSE [x |-> s.x + 1, y |-> s.y - 1,
                  out |-> IF s.x < size /\ s.y < size /\ Len(s.out) < size * size
                            THEN Append(s.out, <<s.x, s.y>>) ELSE s.out]
    IN  FoldLeft(step, [x |-> 0, y |-> 0, out |-> <<>>], [i \in 1 .. 3 * size * size |-> i]).out

\* What is left out of a list of 64x64 blocks.
Skipped(id, scan) == {i \in DOMAIN scan : id > 25 /\ scan[i][1] >= 4 /\ scan[i][2] >= 4}

-----------------------------------------------------------------------------
(* the set: a type, an identifier and the payload the type names *)

Alf == 0
Lmcs == 1
Scaling == 2

ApsReads(v) ==
    U(3, <<"params_type">>) \o U(5, <<"id">>) \o Flags(<<"chroma_present">>) \o Sub("payload", v.params_type)
      \o Flags(<<"extension">>) \o When(v.extension = 0, Trailing)

ApsRejects(v) ==
    \/ v.params_type \notin {Alf, Lmcs, Scaling}
    \/ v.id > IF v.params_type = Lmcs THEN 3 ELSE 7

ApsImplied(elements, v) == [v EXCEPT !.payload = v.params_type]

ApsWrites(v) ==
    U(3, <<"params_type">>) \o U(5, <<"id">>) \o Flags(<<"chroma_present">>) \o Sub("payload", v.payload)
      \o Flags(<<"extension">>) \o Trailing

ApsRefuses(v) ==
    \/ v.extension = 1
    \/ v.params_type # v.payload
    \/ v.id > IF v.params_type = Lmcs THEN 3 ELSE 7

-----------------------------------------------------------------------------
(* video parameter set: its layers, and the output layer sets derived.  A     *)
(* layer is [independent, direct], direct being its vps_direct_ref_layer flags, *)
(* one for each layer before it; an output layer set of mode 2 is a row of      *)
(* flags, one for each layer.  A list of indices is represented by the highest  *)
(* of them.                                                                    *)

Independent == [independent |-> 1, direct |-> <<>>]

-----------------------------------------------------------------------------
(* output layer sets: derive_ols_info *)

\* The layers a layer is predicted from: its direct references, and theirs.
DirectRefs(layers, i) == {j \in 0 .. i - 1 : j < Len(layers[i + 1].direct) /\ layers[i + 1].direct[j + 1] = 1}

Dependencies(layers) ==
    FoldLeft(LAMBDA dep, i : Append(dep, DirectRefs(layers, i) \union UNION {dep[k + 1] : k \in DirectRefs(layers, i)}),
             <<>>, [i \in DOMAIN layers |-> i - 1])

\* Mutant of Included: only the layers that are output.
IncludedOutputs(layers, row) == {k - 1 : k \in {l \in DOMAIN row : row[l] = 1}}

Included(layers, row) ==
    LET output == {k \in DOMAIN row : row[k] = 1}
    IN  {k - 1 : k \in output} \union UNION {Dependencies(layers)[k] : k \in output}

\* TotalNumOlss and NumMultiLayerOlss, or no set at all where the code fails.
OlsInfo(v) ==
    IF v.each_layer_is_an_ols = 1 THEN [total |-> Len(v.layers), multi |-> 0]
    ELSE IF v.ols_mode_idc \in {0, 1} THEN [total |-> Len(v.layers), multi |-> Len(v.layers) - 1]
    ELSE IF v.ols_mode_idc = 3 \/ \E i \in DOMAIN v.rows : Len(v.rows[i]) # Len(v.layers) \/ 1 \notin ToSet(v.rows[i])
      THEN [total |-> 0, multi |-> 0]
    ELSE [total |-> Len(v.rows) + 1,
          multi |-> Cardinality({i \in DOMAIN v.rows : Cardinality(Included(v.layers, v.rows[i])) > 1})]

-----------------------------------------------------------------------------
(* video parameter sets *)

LayerReads(v, i) ==
    LET layer == v.layers[i + 1]
    IN  U(6, <<"vps_layer_id">>)
          \o When(i > 0 /\ v.all_independent = 0,
                  Flags(<<"independent">>)
                    \o When(layer.independent = 0,
                            Flags(<<"max_tid_ref_present">>)
                              \o Each(i, LAMBDA j :
                                    Flags(<<"direct">>)
                                      \o When(v.max_tid_ref_present = 1 /\ layer.direct[j + 1] = 1,
                                              U(3, <<"max_tid_il_ref_pics_plus1">>)))))

OlssReads(v) ==
    When(v.all_independent = 1, Flags(<<"each_layer_is_an_ols">>))
      \o When(v.each_layer_is_an_ols = 0,
              When(v.all_independent = 0, U(2, <<"ols_mode_idc">>))
                \o When(v.ols_mode_idc = 2,
                        Count(8, "rows") \o Times(Len(v.rows), Times(Len(v.layers), Flags(<<"output_layer">>)))))
      \o Count(8, "ptls")

PtlsReads(v) ==
    Each(v.ptls, LAMBDA i :
            When(i > 0, Flags(<<"pt_present">>)) \o When(v.default_max_tid = 0, U(3, <<"ptl_max_tid">>)))
      \o Sub("alignment", 0)
      \o Each(v.ptls, LAMBDA i : Sub("profile_tier_level", 10 * (IF i = 0 THEN 1 ELSE v.pt_present) + v.ptl_max_tid))
      \o When(v.ptls > 1 /\ v.ptls # OlsInfo(v).total, Times(OlsInfo(v).total, UE(<<"ptl_idx">>)))

DpbsReads(v) ==
    Count(0, "dpbs") \o When(v.max_sublayers_minus1 > 0, Flags(<<"sublayer_dpb_params">>))
      \o Times(v.dpbs, When(v.default_max_tid = 0, U(3, <<"dpb_max_tid">>))
                         \o Sub("dpb_parameters", 10 * v.sublayer_dpb_params + v.dpb_max_tid))
      \o Times(OlsInfo(v).multi,
               UE(<<"ols_dpb_pic_width", "ols_dpb_pic_height">>) \o U(2, <<"ols_dpb_chroma_format">>)
                 \o UE(<<"bitdepth_minus8">>)
                 \o When(v.dpbs > 1 /\ v.dpbs # OlsInfo(v).multi, UE(<<"dpb_idx">>)))

HrdsReads(v) ==
    Sub("general_timing_hrd", 0) \o When(v.max_sublayers_minus1 > 0, Flags(<<"sublayer_cpb_params">>))
      \o Count(0, "hrds")
      \o Times(v.hrds, When(v.default_max_tid = 0, U(3, <<"hrd_max_tid">>))
                         \o Sub("ols_timing_hrd", 10 * v.sublayer_cpb_params + v.hrd_max_tid))
      \o When(v.hrds > 1 /\ v.hrds # OlsInfo(v).multi, Times(OlsInfo(v).multi, UE(<<"hrd_idx">>)))

VpsReads(v) ==
    U(4, <<"video_parameter_set_id">>) \o Count(6, "layers") \o U(3, <<"max_sublayers_minus1">>)
      \o When(Len(v.layers) > 1 /\ v.max_sublayers_minus1 > 0, Flags(<<"default_max_tid">>))
      \o When(Len(v.layers) > 1, Flags(<<"all_independent">>))
      \o Each(Len(v.layers), LAMBDA i : LayerReads(v, i))
      \o When(Len(v.layers) > 1, OlssReads(v))
      \o PtlsReads(v)
      \o When(v.each_layer_is_an_ols = 0, DpbsReads(v) \o Gated(v, "timing_hrd", HrdsReads(v)))
      \o Gated(v, "extension", Sub("extension_data", v.extension_data))

EndsInZero == 2

\* A dependent layer has a flag for every layer before it, one of them set.
LayersFit(v) ==
    v.all_independent = 0 =>
        \A i \in DOMAIN v.layers :
            i > 1 /\ v.layers[i].independent = 0 =>
                Len(v.layers[i].direct) = i - 1 /\ 1 \in ToSet(v.layers[i].direct)

\* An index that is coded is in range.
IndexInRange(n, total, idx) == n > 1 /\ n # total => idx < n

DpbsInRange(v) ==
    /\ v.dpbs \in 1 .. OlsInfo(v).multi
    /\ v.dpb_max_tid <= v.max_sublayers_minus1
    /\ v.bitdepth_minus8 <= 8
    /\ IndexInRange(v.dpbs, OlsInfo(v).multi, v.dpb_idx)
    /\ v.timing_hrd = 1 =>
         /\ v.hrds \in 1 .. OlsInfo(v).multi
         /\ v.hrd_max_tid <= v.max_sublayers_minus1
         /\ IndexInRange(v.hrds, OlsInfo(v).multi, v.hrd_idx)

VpsRejects(v) ==
    \/ v.max_sublayers_minus1 > 6
    \/ Len(v.layers) > 1 /\ v.ids_rise = 0
    \/ ~LayersFit(v)
    \/ OlsInfo(v).total = 0
    \/ v.ptls > OlsInfo(v).total
    \/ v.ptl_max_tid > v.max_sublayers_minus1
    \/ ~IndexInRange(v.ptls, OlsInfo(v).total, v.ptl_idx)
    \/ v.each_layer_is_an_ols = 0 /\ ~DpbsInRange(v)
    \/ v.extension = 1 /\ v.extension_data = EndsInZero

\* What is inferred where it is not coded: the flags and the mode at the top, the
\* sub-layers and indices, and as many entries as there are output layer sets.
VpsImplied(elements, v) ==
    LET coded(f) == f \in Names(elements)
        one   == ~coded("all_independent")
        all   == IF one THEN 1 ELSE v.all_independent
        each  == IF one THEN 1 ELSE IF all = 1 THEN v.each_layer_is_an_ols ELSE 0
        mode  == IF coded("ols_mode_idc") THEN v.ols_mode_idc ELSE 2
        set   == [v EXCEPT !.all_independent = all, !.each_layer_is_an_ols = each, !.ols_mode_idc = mode,
                           !.default_max_tid = IF coded("default_max_tid") THEN @ ELSE 1,
                           !.layers = IF all = 1 THEN [i \in DOMAIN @ |-> Independent] ELSE @,
                           !.rows = IF coded("rows") THEN @ ELSE <<>>]
        tid(x) == IF set.default_max_tid = 0 THEN x ELSE v.max_sublayers_minus1
        multi  == each = 0
        timing == multi /\ v.timing_hrd = 1
        idx(n, total, x) == IF n > 1 /\ n # total THEN x ELSE n - 1
        ptls == IF one THEN 1 ELSE v.ptls
    IN  [set EXCEPT
            !.ids_rise = 1, !.il_inferred = 1, !.first_pt_present = 1,
            !.ptls = ptls,
            !.ptl_max_tid = tid(@), !.dpb_max_tid = IF multi THEN tid(@) ELSE 0,
            !.hrd_max_tid = IF timing THEN tid(@) ELSE 0,
            !.ptl_idxs = OlsInfo(set).total, !.ptl_idx = idx(ptls, OlsInfo(set).total, @),
            !.ols_dpbs = IF multi THEN OlsInfo(set).multi ELSE 0,
            !.dpb_idx = IF multi THEN idx(v.dpbs, OlsInfo(set).multi, @) ELSE 0,
            !.hrd_idxs = IF timing THEN OlsInfo(set).multi ELSE 0,
            !.hrd_idx = IF timing THEN idx(v.hrds, OlsInfo(set).multi, @) ELSE 0]

LayerWrites(v, i) ==
    LET layer == v.layers[i + 1]
    IN  U(6, <<"vps_layer_id">>)
          \o When(i > 0 /\ v.all_independent = 0,
                  Flags(<<"independent">>)
                    \o When(layer.independent = 0,
                            Flags(<<"max_tid_ref_present">>)
                              \o Each(i, LAMBDA j :
                                    Flags(<<"direct">>)
                                      \o When(v.max_tid_ref_present = 1 /\ layer.direct[j + 1] = 1,
                                              U(3, <<"max_tid_il_ref_pics_plus1">>)))))

OlssWrites(v) ==
    When(v.all_independent = 1, Flags(<<"each_layer_is_an_ols">>))
      \o When(v.each_layer_is_an_ols = 0,
              When(v.all_independent = 0, U(2, <<"ols_mode_idc">>))
                \o When(v.ols_mode_idc = 2,
                        Count(8, "rows") \o Each(Len(v.rows), LAMBDA i : Times(Len(v.rows[i + 1]), Flags(<<"output_layer">>)))))
      \o Count(8, "ptls")

PtlsWrites(v) ==
    Each(v.ptls, LAMBDA i :
            When(i > 0, Flags(<<"pt_present">>)) \o When(v.default_max_tid = 0, U(3, <<"ptl_max_tid">>)))
      \o Sub("alignment", 0)
      \o Each(v.ptls, LAMBDA i :
                Sub("profile_tier_level", 10 * (IF i = 0 THEN v.first_pt_present ELSE v.pt_present) + v.ptl_max_tid))
      \o When(v.ptls > 1 /\ v.ptls # OlsInfo(v).total, Times(v.ptl_idxs, UE(<<"ptl_idx">>)))

DpbsWrites(v) ==
    Count(0, "dpbs") \o When(v.max_sublayers_minus1 > 0, Flags(<<"sublayer_dpb_params">>))
      \o Times(v.dpbs, When(v.default_max_tid = 0, U(3, <<"dpb_max_tid">>))
                         \o Sub("dpb_parameters", 10 * v.sublayer_dpb_params + v.dpb_max_tid))
      \o Times(v.ols_dpbs,
               UE(<<"ols_dpb_pic_width", "ols_dpb_pic_height">>) \o U(2, <<"ols_dpb_chroma_format">>)
                 \o UE(<<"bitdepth_minus8">>)
                 \o When(v.dpbs > 1 /\ v.dpbs # OlsInfo(v).multi, UE(<<"dpb_idx">>)))

HrdsWrites(v) ==
    Sub("general_timing_hrd", 0) \o When(v.max_sublayers_minus1 > 0, Flags(<<"sublayer_cpb_params">>))
      \o Count(0, "hrds")
      \o Times(v.hrds, When(v.default_max_tid = 0, U(3, <<"hrd_max_tid">>))
                         \o Sub("ols_timing_hrd", 10 * v.sublayer_cpb_params + v.hrd_max_tid))
      \o When(v.hrds > 1 /\ v.hrds # OlsInfo(v).multi, Times(v.hrd_idxs, UE(<<"hrd_idx">>)))

VpsWrites(v) ==
    U(4, <<"video_parameter_set_id">>) \o Count(6, "layers") \o U(3, <<"max_sublayers_minus1">>)
      \o When(Len(v.layers) > 1 /\ v.max_sublayers_minus1 > 0, Flags(<<"default_max_tid">>))
      \o When(Len(v.layers) > 1, Flags(<<"all_independent">>))
      \o Each(Len(v.layers), LAMBDA i : LayerWrites(v, i))
      \o When(Len(v.layers) > 1, OlssWrites(v))
      \o PtlsWrites(v)
      \o When(v.each_layer_is_an_ols = 0, DpbsWrites(v) \o Gated(v, "timing_hrd", HrdsWrites(v)))
      \o Gated(v, "extension", Sub("extension_data", v.extension_data))

LayersRefused(v) ==
    \/ Len(v.layers) \notin 1 .. 64
    \/ v.default_max_tid = 0 /\ ~(Len(v.layers) > 1 /\ v.max_sublayers_minus1 > 0)
    \/ v.all_independent = 0 /\ Len(v.layers) = 1
    \/ Len(v.layers) > 1 /\ v.ids_rise = 0
    \/ \E i \in DOMAIN v.layers :
         LET layer == v.layers[i]
         IN  IF i > 1 /\ v.all_independent = 0
               THEN IF layer.independent = 0 THEN Len(layer.direct) # i - 1 \/ v.il_inferred = 0 ELSE layer.direct # <<>>
               ELSE layer # Independent

OlssRefused(v) ==
    \/ OlsInfo(v).total = 0
    \/ v.ptls \notin 1 .. OlsInfo(v).total
    \/ IF Len(v.layers) > 1
         THEN \/ v.all_independent = 0 /\ v.each_layer_is_an_ols = 1
              \/ v.each_layer_is_an_ols = 0 /\ v.all_independent = 1 /\ v.ols_mode_idc # 2
              \/ (v.each_layer_is_an_ols = 0 /\ v.ols_mode_idc = 2) # (v.rows # <<>>)
         ELSE v.ptls # 1 \/ v.rows # <<>>

\* An index that is coded is in range, and one that is not has the inferred value.
IndexRefused(n, total, idx) == IF n > 1 /\ n # total THEN idx >= n ELSE idx # n - 1

MaxTidRefused(v, tid) ==
    IF v.default_max_tid = 0 THEN tid > v.max_sublayers_minus1 ELSE tid # v.max_sublayers_minus1

DpbsRefused(v) ==
    \/ v.dpbs \notin 1 .. OlsInfo(v).multi
    \/ MaxTidRefused(v, v.dpb_max_tid)
    \/ v.ols_dpbs # OlsInfo(v).multi \/ v.bitdepth_minus8 > 8
    \/ IndexRefused(v.dpbs, OlsInfo(v).multi, v.dpb_idx)
    \/ /\ v.timing_hrd = 1
       /\ \/ v.hrds \notin 1 .. OlsInfo(v).multi
          \/ MaxTidRefused(v, v.hrd_max_tid)
          \/ v.hrd_idxs # OlsInfo(v).multi
          \/ IndexRefused(v.hrds, OlsInfo(v).multi, v.hrd_idx)

VpsRefuses(v) ==
    \/ v.max_sublayers_minus1 > 6
    \/ LayersRefused(v) \/ OlssRefused(v)
    \/ v.first_pt_present = 0 \/ MaxTidRefused(v, v.ptl_max_tid)
    \/ v.ptl_idxs # OlsInfo(v).total \/ IndexRefused(v.ptls, OlsInfo(v).total, v.ptl_idx)
    \/ IF v.each_layer_is_an_ols = 0 THEN DpbsRefused(v) ELSE v.dpbs > 0 \/ v.ols_dpbs > 0 \/ v.timing_hrd = 1
    \/ IF v.extension = 1 THEN v.extension_data = EndsInZero ELSE v.extension_data > 0

\* The writer does not ask for a direct reference, nor for the flags of sub-layers
\* that do not exist to be clear.
VpsFits(v) ==
    /\ LayersFit(v)
    /\ v.max_sublayers_minus1 = 0 => v.sublayer_dpb_params = 0 /\ v.sublayer_cpb_params = 0

=============================================================================
