------------------------------ MODULE Av1Syntax ------------------------------
(***************************************************************************)
(* Headers of AV1: the sequence header with its two parsers                *)
(* (parse_sequence_header of src/av1.rs, parse_sequence_header_obu of      *)
(* src/av1/sequence.rs) and its writer, the metadata OBUs, the frame       *)
(* header of src/av1.rs, which stops early and knows key frames only, and  *)
(* that of src/av1/frame.rs, which reads every element.                    *)
(***************************************************************************)
LOCAL INSTANCE Syntax
LOCAL INSTANCE Integers
LOCAL INSTANCE Sequences
LOCAL INSTANCE SequencesExt

Select == 2     \* SELECT_SCREEN_CONTENT_TOOLS and SELECT_INTEGER_MV
Identity == 2   \* color_description: none, another, or the identity one

-----------------------------------------------------------------------------
(* color_config *)

\* bit_depth is coded as high_bitdepth and, where it can be 12, twelve_bit.
DepthReads(v) ==
    Count(1, "bit_depth") \o When(v.seq_profile = 2 /\ v.bit_depth > 8, Count(1, "bit_depth"))

DescriptionReads(v) ==
    Count(1, "color_description")
      \o When(v.color_description > 0, U(8, <<"color_primaries", "transfer_characteristics", "matrix_coefficients">>))

SubsamplingReads(v) ==
    When(v.seq_profile = 2 /\ v.bit_depth = 12, Gated(v, "subsampling_x", Flags(<<"subsampling_y">>)))
      \o When(v.subsampling_x = 1 /\ v.subsampling_y = 1, U(2, <<"chroma_sample_position">>))

\* In parse_sequence_header.
ColorReads(v) ==
    DepthReads(v) \o When(v.seq_profile # 1, Flags(<<"monochrome">>)) \o DescriptionReads(v)
      \o (IF v.monochrome = 1 THEN Flags(<<"color_range">>)
          ELSE When(v.color_description # Identity, Flags(<<"color_range">>) \o SubsamplingReads(v))
                 \o Flags(<<"separate_uv_delta_q">>))

\* color_config of sequence.rs: monochrome returns, the identity description only
\* skips the sampling.
FullColorReads(v) ==
    LET head == DepthReads(v) \o When(v.seq_profile # 1, Flags(<<"monochrome">>)) \o DescriptionReads(v)
    IN  IF v.monochrome = 1 THEN head \o Flags(<<"color_range">>)
        ELSE head \o When(v.color_description # Identity, Flags(<<"color_range">>) \o SubsamplingReads(v))
                  \o Flags(<<"separate_uv_delta_q">>)

\* What is not coded is inferred from the profile and the depth.
ColorImplied(v) ==
    LET depth == IF v.bit_depth = 12 /\ v.seq_profile # 2 THEN 10 ELSE v.bit_depth
        fixed(x, y) == [v EXCEPT !.bit_depth = depth, !.subsampling_x = x, !.subsampling_y = y]
    IN  IF v.monochrome = 1 THEN fixed(1, 1)
        ELSE IF v.color_description = Identity THEN [fixed(0, 0) EXCEPT !.color_range = 1]
        ELSE IF v.seq_profile = 0 THEN fixed(1, 1)
        ELSE IF v.seq_profile = 1 THEN fixed(0, 0)
        ELSE IF depth = 12 THEN [v EXCEPT !.bit_depth = depth]
        ELSE fixed(1, 0)

ColorWrites(v) ==
    Count(1, "bit_depth") \o When(v.seq_profile = 2 /\ v.bit_depth \in {10, 12}, Count(1, "bit_depth"))
      \o When(v.seq_profile # 1, Flags(<<"monochrome">>)) \o DescriptionReads(v)
      \o (IF v.monochrome = 1 THEN Flags(<<"color_range">>)
          ELSE IF v.color_description = Identity THEN Flags(<<"separate_uv_delta_q">>)
          ELSE Flags(<<"color_range">>)
                 \o When(v.seq_profile > 1 /\ v.bit_depth = 12, Gated(v, "subsampling_x", Flags(<<"subsampling_y">>)))
                 \o When(v.subsampling_x = 1 /\ v.subsampling_y = 1, U(2, <<"chroma_sample_position">>))
                 \o Flags(<<"separate_uv_delta_q">>))

ColorRefuses(v) ==
    LET sampling == <<v.subsampling_x, v.subsampling_y>>
    IN  \/ v.bit_depth = 12 /\ v.seq_profile # 2
        \/ v.seq_profile = 1 /\ v.monochrome = 1
        \/ v.monochrome = 1 /\ (sampling # <<1, 1>> \/ v.chroma_sample_position # 0 \/ v.separate_uv_delta_q = 1)
        \/ v.monochrome = 0 /\ v.color_description = Identity /\ (v.color_range = 0 \/ sampling # <<0, 0>>)
        \/ v.monochrome = 0 /\ v.color_description # Identity /\
             \/ v.seq_profile = 0 /\ sampling # <<1, 1>>
             \/ v.seq_profile = 1 /\ sampling # <<0, 0>>
             \/ v.seq_profile = 2 /\ IF v.bit_depth = 12 THEN sampling = <<0, 1>> ELSE sampling # <<1, 0>>
             \/ IF sampling = <<1, 1>> THEN v.chroma_sample_position > 3 ELSE v.chroma_sample_position # 0

-----------------------------------------------------------------------------
(* sequence header; given says what the bits hold that the structure of       *)
(* src/av1.rs has no field for: a decoder model, more operating points         *)

TimingReads(v) ==
    Gated(v, "timing_info",
          U(32, <<"num_units_in_display_tick", "time_scale">>)
            \o Gated(v, "equal_picture_interval", Coded("uvlc", 0, <<"num_ticks_per_picture_minus_1">>)))

\* One operating point, as both parsers read it without a decoder model.
PointReads(v) ==
    U(12, <<"operating_point_idc_0">>) \o U(5, <<"seq_level_idx_0">>)
      \o When(v.seq_level_idx_0 > 7, Flags(<<"seq_tier_0">>))
      \o When(v.initial_display_delay_present_flag = 1,
              Gated(v, "initial_display_delay", U(4, <<"initial_display_delay_minus_1">>)))

SizeReads(v) ==
    Count(4, "frame_width_bits") \o Count(4, "frame_height_bits")
      \o U(v.frame_width_bits, <<"max_frame_width_minus_1">>) \o U(v.frame_height_bits, <<"max_frame_height_minus_1">>)

ToolsReads(v) ==
    Flags(<<"enable_interintra_compound", "enable_masked_compound", "enable_warped_motion", "enable_dual_filter">>)
      \o Gated(v, "enable_order_hint", Flags(<<"enable_jnt_comp", "enable_ref_frame_mvs">>))
      \o Flags(<<"seq_choose_screen_content_tools">>)
      \o When(v.seq_choose_screen_content_tools = 0, U(1, <<"seq_force_screen_content_tools">>))
      \o When(v.seq_force_screen_content_tools > 0,
              Flags(<<"seq_choose_integer_mv">>)
                \o When(v.seq_choose_integer_mv = 0, U(1, <<"seq_force_integer_mv">>)))
      \o When(v.enable_order_hint = 1, Count(3, "order_hint_bits"))

\* Sizes, identifiers and tools, in all three functions.
ShapeReads(v) ==
    SizeReads(v)
      \o When(v.reduced_still_picture_header = 0, Flags(<<"frame_id_numbers_present_flag">>))
      \o When(v.frame_id_numbers_present_flag = 1,
              U(4, <<"delta_frame_id_length_minus_2">>) \o U(3, <<"additional_frame_id_length_minus_1">>))
      \o Flags(<<"use_128x128_superblock", "enable_filter_intra", "enable_intra_edge_filter">>)
      \o When(v.reduced_still_picture_header = 0, ToolsReads(v))
      \o Flags(<<"enable_superres", "enable_cdef", "enable_restoration">>)

SequenceReads(v) ==
    U(3, <<"seq_profile">>) \o Flags(<<"still_picture", "reduced_still_picture_header">>)
      \o (IF v.reduced_still_picture_header = 1 THEN U(5, <<"seq_level_idx_0">>)
          ELSE TimingReads(v) \o When(v.timing_info = 1, Flags(<<"decoder_model_info_present_flag">>))
                 \o Flags(<<"initial_display_delay_present_flag">>) \o U(5, <<"operating_points_cnt_minus_1">>)
                 \o PointReads(v))
      \o ShapeReads(v)
      \o ColorReads(v) \o Flags(<<"film_grain_params_present">>)

SequenceRejects(v) ==
    \/ v.seq_profile > 2
    \/ v.reduced_still_picture_header = 1 /\ v.still_picture = 0
    \/ v.reduced_still_picture_header = 0 /\
         \/ v.timing_info = 1 /\ (v.num_units_in_display_tick = 0 \/ v.time_scale = 0 \/ v.given.decoder_model = 1)
         \/ v.given.points > 1

\* The numbers of bits are coded less one.
SequenceImplied(elements, v) ==
    LET width(bits) == ((bits - 1) % 16) + 1
        tools == IF v.reduced_still_picture_header = 1
                   THEN [v EXCEPT !.seq_force_screen_content_tools = Select, !.seq_force_integer_mv = Select]
                 ELSE [v EXCEPT
                         !.seq_force_screen_content_tools = IF v.seq_choose_screen_content_tools = 1 THEN Select ELSE @,
                         !.seq_force_integer_mv =
                           IF \/ v.seq_choose_screen_content_tools = 0 /\ v.seq_force_screen_content_tools = 0
                              \/ v.seq_choose_integer_mv = 1
                             THEN Select ELSE @]
    IN  ColorImplied([tools EXCEPT !.frame_width_bits = width(@), !.frame_height_bits = width(@),
                                   !.order_hint_bits = IF v.enable_order_hint = 1 THEN ((@ - 1) % 8) + 1 ELSE 0])

\* parse_sequence_header_obu: every operating point, with the decoder model.
PointsReads(v) ==
    Times(v.given.points,
          U(12, <<"operating_point_idc_0">>) \o U(5, <<"seq_level_idx_0">>)
            \o When(v.seq_level_idx_0 > 7, Flags(<<"seq_tier_0">>))
            \o When(v.timing_info = 1 /\ v.given.decoder_model = 1,
                    Flags(<<"decoder_model_present">>)
                      \o When(v.given.delay_bits > 0,
                              U(v.given.delay_bits, <<"decoder_buffer_delay", "encoder_buffer_delay">>)
                                \o Flags(<<"low_delay_mode_flag">>)))
            \o When(v.initial_display_delay_present_flag = 1,
                    Gated(v, "initial_display_delay", U(4, <<"initial_display_delay_minus_1">>))))

FullSequenceReads(v) ==
    U(3, <<"seq_profile">>) \o Flags(<<"still_picture", "reduced_still_picture_header">>)
      \o (IF v.reduced_still_picture_header = 1 THEN U(5, <<"seq_level_idx_0">>)
          ELSE TimingReads(v)
                 \o When(v.timing_info = 1,
                         Flags(<<"decoder_model_info_present_flag">>)
                           \o When(v.given.decoder_model = 1,
                                   U(5, <<"buffer_delay_length_minus_1">>) \o U(32, <<"num_units_in_decoding_tick">>)
                                     \o U(5, <<"buffer_removal_time_length_minus_1",
                                               "frame_presentation_time_length_minus_1">>)))
                 \o Flags(<<"initial_display_delay_present_flag">>) \o U(5, <<"operating_points_cnt_minus_1">>)
                 \o PointsReads(v))
      \o ShapeReads(v)
      \o FullColorReads(v) \o Flags(<<"film_grain_params_present">>)

\* Identifiers of more than 16 bits are refused by this parser alone.
FullSequenceRejects(v) ==
    \/ v.seq_profile > 2
    \/ v.reduced_still_picture_header = 1 /\ v.still_picture = 0
    \/ v.frame_id_numbers_present_flag = 1
         /\ v.delta_frame_id_length_minus_2 + v.additional_frame_id_length_minus_1 + 3 > 16

SequenceWrites(v) ==
    U(3, <<"seq_profile">>) \o Flags(<<"still_picture", "reduced_still_picture_header">>)
      \o (IF v.reduced_still_picture_header = 1 THEN U(5, <<"seq_level_idx_0">>)
          ELSE TimingReads(v) \o When(v.timing_info = 1, Flags(<<"decoder_model_info_present_flag">>))
                 \o Flags(<<"initial_display_delay_present_flag">>) \o U(5, <<"operating_points_cnt_minus_1">>)
                 \o U(12, <<"operating_point_idc_0">>) \o U(5, <<"seq_level_idx_0">>)
                 \o When(v.seq_level_idx_0 > 7, Flags(<<"seq_tier_0">>))
                 \o When(v.initial_display_delay_present_flag = 1,
                         Gated(v, "initial_display_delay", U(4, <<"initial_display_delay_minus_1">>))))
      \o ShapeReads(v)
      \o ColorWrites(v) \o Flags(<<"film_grain_params_present">>)

\* What a reduced header leaves out must have its inferred value.
ReducedRefuses(v) ==
    \/ v.timing_info = 1 \/ v.initial_display_delay_present_flag = 1 \/ v.seq_tier_0 = 1
    \/ v.operating_point_idc_0 # 0 \/ v.frame_id_numbers_present_flag = 1
    \/ v.enable_order_hint = 1 \/ v.enable_jnt_comp = 1 \/ v.enable_ref_frame_mvs = 1
    \/ v.seq_force_screen_content_tools # Select \/ v.seq_force_integer_mv # Select \/ v.order_hint_bits # 0

ToolsRefuses(v) ==
    \/ v.enable_order_hint = 0 /\ (v.enable_jnt_comp = 1 \/ v.enable_ref_frame_mvs = 1)
    \/ IF v.seq_choose_screen_content_tools = 1 THEN v.seq_force_screen_content_tools # Select
       ELSE v.seq_force_screen_content_tools > 1
    \/ IF v.seq_force_screen_content_tools = 0 \/ v.seq_choose_integer_mv = 1 THEN v.seq_force_integer_mv # Select
       ELSE v.seq_force_integer_mv > 1
    \/ IF v.enable_order_hint = 1 THEN v.order_hint_bits \notin 1 .. 8 ELSE v.order_hint_bits # 0

SequenceRefuses(v) ==
    \/ v.seq_profile > 2 \/ v.seq_level_idx_0 > 31
    \/ v.reduced_still_picture_header = 1 /\ (v.still_picture = 0 \/ ReducedRefuses(v))
    \/ v.reduced_still_picture_header = 0 /\
         \/ v.timing_info = 1 /\ (v.num_units_in_display_tick = 0 \/ v.time_scale = 0)
         \/ v.operating_point_idc_0 > 4095
         \/ v.seq_level_idx_0 <= 7 /\ v.seq_tier_0 = 1
         \/ v.initial_display_delay = 1
              /\ (v.initial_display_delay_present_flag = 0 \/ v.initial_display_delay_minus_1 > 15)
         \/ ToolsRefuses(v)
    \/ v.frame_width_bits \notin 1 .. 16 \/ v.frame_height_bits \notin 1 .. 16
    \/ v.max_frame_width_minus_1 >= 2^v.frame_width_bits \/ v.max_frame_height_minus_1 >= 2^v.frame_height_bits
    \/ v.frame_id_numbers_present_flag = 1
         /\ (v.delta_frame_id_length_minus_2 > 15 \/ v.additional_frame_id_length_minus_1 > 7)
    \/ ColorRefuses(v)

\* The writer has one operating point to write and no decoder model.
OnePoint(v) == v.given.decoder_model = 0 /\ v.given.points = 1

-----------------------------------------------------------------------------
(* metadata OBUs; bodies are told apart by their metadata_type, which is read *)
(* first                                                                      *)

Cll == 1
Mdcv == 2
Scalability == 3
T35 == 4
Timecode == 5
ExplicitStructure == 14   \* SCALABILITY_SS
Extended == 255           \* the country code with an extension

Layers(v) == v.spatial_layers_cnt_minus_1 + 1

GroupReads(v) ==
    U(3, <<"temporal_id">>) \o Flags(<<"temporal_switching_up_point_flag", "spatial_switching_up_point_flag">>)
      \o U(3, <<"ref_pic_diffs">>) \o Times(v.ref_pic_diffs, U(8, <<"ref_pic_diff">>))

\* A list is present when its flag is set; the parser then reads an entry for
\* every layer.
StructureReads(v) ==
    U(2, <<"spatial_layers_cnt_minus_1">>)
      \o Count(1, "spatial_layer_dimensions") \o Count(1, "spatial_layer_ref_ids") \o Count(1, "temporal_groups")
      \o U(3, <<"reserved">>)
      \o When(v.spatial_layer_dimensions > 0, Times(Layers(v), U(16, <<"max_width", "max_height">>)))
      \o When(v.spatial_layer_ref_ids > 0, Times(Layers(v), U(8, <<"ref_id">>)))
      \o When(v.temporal_groups > 0, U(8, <<"temporal_groups">>) \o Times(v.temporal_groups, GroupReads(v)))

TimecodeReads(v) ==
    U(5, <<"counting_type">>) \o Flags(<<"full_timestamp_flag", "discontinuity_flag", "cnt_dropped_flag">>)
      \o U(9, <<"n_frames">>)
      \o (IF v.full_timestamp_flag = 1 THEN U(6, <<"seconds_value", "minutes_value">>) \o U(5, <<"hours_value">>)
          ELSE Gated(v, "seconds", U(6, <<"seconds_value">>)
                 \o Gated(v, "minutes", U(6, <<"minutes_value">>)
                      \o Gated(v, "hours", U(5, <<"hours_value">>)))))
      \o U(5, <<"time_offset_length">>)
      \o When(v.time_offset_length > 0, U(v.time_offset_length, <<"time_offset_value">>))

MetadataReads(v) ==
    Coded("leb128", 0, <<"metadata_type">>)
      \o (CASE v.metadata_type = Cll -> U(16, <<"max_cll", "max_fall">>)
           [] v.metadata_type = Mdcv -> Times(4, U(16, <<"chromaticity_x", "chromaticity_y">>))
                                          \o U(32, <<"luminance_max", "luminance_min">>)
           [] v.metadata_type = Scalability ->
                U(8, <<"scalability_mode_idc">>)
                  \o When(v.scalability_mode_idc = ExplicitStructure, StructureReads(v))
           [] v.metadata_type = T35 ->
                U(8, <<"country_code">>) \o When(v.country_code = Extended, U(8, <<"country_code_extension_byte">>))
                  \o Coded("bytes", 0, <<"payload">>)
           [] v.metadata_type = Timecode -> TimecodeReads(v)
           [] OTHER -> Coded("bytes", 0, <<"payload">>))

\* Options become present, lists get their lengths; zeros at the end of a payload
\* are padding (payload: 0 empty, 1 ends in another byte, 2 ends in a zero).
MetadataImplied(elements, v) ==
    LET got == Names(elements)
        some(name) == IF name \in got THEN 1 ELSE 0
        entries(flag) == IF flag = 0 THEN 0 ELSE Layers(v)
    IN  [v EXCEPT !.structure = IF v.metadata_type = Scalability /\ v.scalability_mode_idc = ExplicitStructure THEN 1 ELSE 0,
                  !.spatial_layer_dimensions = entries(@), !.spatial_layer_ref_ids = entries(@),
                  !.extension = some("country_code_extension_byte"),
                  !.seconds = some("seconds_value"), !.minutes = some("minutes_value"), !.hours = some("hours_value"),
                  !.payload = IF @ = 2 THEN 1 ELSE @]

MetadataWrites(v) ==
    Coded("leb128", 0, <<"metadata_type">>)
      \o (CASE v.metadata_type = Cll -> U(16, <<"max_cll", "max_fall">>)
           [] v.metadata_type = Mdcv -> Times(3, U(16, <<"chromaticity_x", "chromaticity_y">>))
                                          \o U(16, <<"chromaticity_x", "chromaticity_y">>)
                                          \o U(32, <<"luminance_max", "luminance_min">>)
           [] v.metadata_type = Scalability ->
                U(8, <<"scalability_mode_idc">>)
                  \o When(v.scalability_mode_idc = ExplicitStructure,
                          U(2, <<"spatial_layers_cnt_minus_1">>)
                            \o Count(1, "spatial_layer_dimensions") \o Count(1, "spatial_layer_ref_ids")
                            \o Count(1, "temporal_groups") \o U(3, <<"reserved">>)
                            \o Times(v.spatial_layer_dimensions, U(16, <<"max_width", "max_height">>))
                            \o Times(v.spatial_layer_ref_ids, U(8, <<"ref_id">>))
                            \o When(v.temporal_groups > 0,
                                    U(8, <<"temporal_groups">>)
                                      \o Times(v.temporal_groups,
                                               U(3, <<"temporal_id">>)
                                                 \o Flags(<<"temporal_switching_up_point_flag",
                                                            "spatial_switching_up_point_flag">>)
                                                 \o U(3, <<"ref_pic_diffs">>)
                                                 \o Times(v.ref_pic_diffs, U(8, <<"ref_pic_diff">>)))))
           [] v.metadata_type = T35 ->
                U(8, <<"country_code">>) \o When(v.country_code = Extended, U(8, <<"country_code_extension_byte">>))
                  \o Coded("bytes", 0, <<"payload">>)
           [] v.metadata_type = Timecode ->
                U(5, <<"counting_type">>) \o Flags(<<"full_timestamp_flag", "discontinuity_flag", "cnt_dropped_flag">>)
                  \o U(9, <<"n_frames">>)
                  \o (IF v.full_timestamp_flag = 1
                        THEN U(6, <<"seconds_value", "minutes_value">>) \o U(5, <<"hours_value">>)
                        ELSE Gated(v, "seconds", U(6, <<"seconds_value">>)
                               \o Gated(v, "minutes", U(6, <<"minutes_value">>)
                                    \o Gated(v, "hours", U(5, <<"hours_value">>)))))
                  \o U(5, <<"time_offset_length">>)
                  \o When(v.time_offset_length > 0, U(v.time_offset_length, <<"time_offset_value">>))
           [] OTHER -> Coded("bytes", 0, <<"payload">>))

\* Mutant: the dimensions of the layers are not counted.
StructureRefusesValues(v) ==
    \/ v.structure = 0 \/ v.spatial_layers_cnt_minus_1 > 3
    \/ v.spatial_layer_ref_ids \notin {0, Layers(v)} \/ v.temporal_groups > 255
    \/ v.temporal_groups > 0 /\ (v.temporal_id > 7 \/ v.ref_pic_diffs > 7)

StructureRefuses(v) ==
    \/ v.structure = 0 \/ v.spatial_layers_cnt_minus_1 > 3
    \/ v.spatial_layer_dimensions \notin {0, Layers(v)} \/ v.spatial_layer_ref_ids \notin {0, Layers(v)}
    \/ v.temporal_groups > 255
    \/ v.temporal_groups > 0 /\ (v.temporal_id > 7 \/ v.ref_pic_diffs > 7)

TimecodeRefuses(v) ==
    \/ v.n_frames > 511 \/ v.time_offset_length > 31
    \/ v.full_timestamp_flag = 1 /\ (v.seconds = 0 \/ v.minutes = 0 \/ v.hours = 0)
    \/ v.full_timestamp_flag = 0 /\ v.seconds = 0 /\ (v.minutes = 1 \/ v.hours = 1)

MetadataRefuses(v) ==
    \/ v.metadata_type = Scalability /\ v.scalability_mode_idc = ExplicitStructure /\ StructureRefuses(v)
    \/ v.metadata_type = T35 /\ v.country_code = Extended /\ v.extension = 0
    \/ v.metadata_type = T35 /\ v.payload = 2
    \/ v.metadata_type = Timecode /\ TimecodeRefuses(v)
    \/ v.metadata_type > Timecode /\ v.payload = 2

-----------------------------------------------------------------------------
(* the frame header of src/av1.rs, of a key frame; given is the sequence header *)

Key == 0

\* parse_frame_header of src/av1.rs, which stops behind allow_intrabc.
KeyFrameReads(v) ==
    LET seq == v.given
        tools == IF seq.screen_content = Select THEN v.allow_screen_content_tools = 1 ELSE seq.screen_content = 1
    IN  When(seq.reduced = 0,
             Flags(<<"show_existing_frame">>) \o U(2, <<"frame_type">>) \o Flags(<<"show_frame">>)
               \o When(v.show_frame = 0, Flags(<<"showable_frame">>))
               \o Flags(<<"error_resilient_mode">>))
          \o Flags(<<"disable_cdf_update">>)
          \o When(seq.screen_content = Select, Flags(<<"allow_screen_content_tools">>))
          \o When(tools /\ seq.integer_mv = Select, Flags(<<"force_integer_mv">>))
          \o When(seq.id_bits > 0, U(seq.id_bits, <<"current_frame_id">>))
          \o When(seq.reduced = 0, Flags(<<"frame_size_override_flag">>))
          \o When(seq.order_hint_bits > 0, U(seq.order_hint_bits, <<"order_hint">>))
          \o When(seq.reduced = 0 /\ v.show_frame = 0, U(3, <<"primary_ref_frame">>))
          \o When(seq.reduced = 0 /\ v.frame_size_override_flag = 1, U(8, <<"frame_width", "frame_height">>))
          \o When(seq.superres = 1, Gated(v, "use_superres", U(3, <<"coded_denom">>)))
          \o Gated(v, "render_and_frame_size_different", U(16, <<"render_width", "render_height">>))
          \o When(tools, Flags(<<"allow_intrabc">>))

KeyFrameRejects(v) == v.given.reduced = 0 /\ (v.show_existing_frame = 1 \/ v.frame_type # Key)

-----------------------------------------------------------------------------
(* uncompressed_header, element by element (src/av1/frame.rs).  given holds  *)
(* what the sequence header and the reference state say; of the eight        *)
(* segments the first carries features, of the references all carry one      *)
(* warp model.                                                               *)

KeyFrame == 0
InterFrame == 1
IntraOnlyFrame == 2
SwitchFrame == 3
NoPrimary == 7          \* PRIMARY_REF_NONE
ChosenPerFrame == 2     \* SELECT

\* Types and flags in force, the inferred ones included.
Type(v) == IF v.given.reduced = 1 THEN KeyFrame ELSE v.frame_type
IsIntra(v) == Type(v) \in {KeyFrame, IntraOnlyFrame}
Shown(v) == v.given.reduced = 1 \/ v.show_frame = 1
Showable(v) == IF v.given.reduced = 1 THEN FALSE
               ELSE IF v.show_frame = 1 THEN Type(v) # KeyFrame ELSE v.showable_frame = 1
\* A reduced header leaves error_resilient_mode at its default.
Resilient(v) ==
    /\ v.given.reduced = 0
    /\ \/ Type(v) = SwitchFrame \/ v.error_resilient_mode = 1
       \/ Type(v) = KeyFrame /\ v.show_frame = 1
ScreenContent(v) ==
    IF v.given.screen_content = ChosenPerFrame THEN v.allow_screen_content_tools = 1 ELSE v.given.screen_content = 1
IntegerMv(v) ==
    ScreenContent(v) /\ IF v.given.integer_mv = ChosenPerFrame THEN v.force_integer_mv = 1 ELSE v.given.integer_mv = 1
Overridden(v) == Type(v) = SwitchFrame \/ (v.given.reduced = 0 /\ v.frame_size_override_flag = 1)
Primary(v) == IF IsIntra(v) \/ Resilient(v) THEN NoPrimary ELSE v.primary_ref_frame
RefreshesAll(v) == Type(v) = SwitchFrame \/ (Type(v) = KeyFrame /\ Shown(v)) \/ v.refresh_frame_flags = 255

\* frame_presentation_time, when a decoder model counts unequal intervals.
TimeReads(v) == When(v.given.decoder_model = 1, U(8, <<"frame_presentation_time">>))

ShowExistingReads(v) ==
    U(3, <<"frame_to_show_map_idx">>) \o TimeReads(v)
      \o When(v.given.id_bits > 0, U(v.given.id_bits, <<"display_frame_id">>))

TypeReads(v) ==
    U(2, <<"frame_type">>) \o Flags(<<"show_frame">>)
      \o When(v.show_frame = 1, TimeReads(v)) \o When(v.show_frame = 0, Flags(<<"showable_frame">>))
      \o When(~(v.frame_type = SwitchFrame \/ (v.frame_type = KeyFrame /\ v.show_frame = 1)),
              Flags(<<"error_resilient_mode">>))

ToolReads(v) ==
    Flags(<<"disable_cdf_update">>)
      \o When(v.given.screen_content = ChosenPerFrame, Flags(<<"allow_screen_content_tools">>))
      \o When(ScreenContent(v) /\ v.given.integer_mv = ChosenPerFrame, Flags(<<"force_integer_mv">>))
      \o When(v.given.id_bits > 0, U(v.given.id_bits, <<"current_frame_id">>))
      \o When(Type(v) # SwitchFrame /\ v.given.reduced = 0, Flags(<<"frame_size_override_flag">>))
      \o When(v.given.order_hint_bits > 0, U(v.given.order_hint_bits, <<"order_hint">>))
      \o When(~IsIntra(v) /\ ~Resilient(v), U(3, <<"primary_ref_frame">>))
      \o When(v.given.decoder_model = 1,
              Gated(v, "buffer_removal_time_present", U(8, <<"buffer_removal_time">>)))

RefreshReads(v) ==
    When(~(Type(v) = SwitchFrame \/ (Type(v) = KeyFrame /\ Shown(v))), U(8, <<"refresh_frame_flags">>))
      \o When((~IsIntra(v) \/ ~RefreshesAll(v)) /\ Resilient(v) /\ v.given.order_hint_bits > 0,
              Times(8, U(v.given.order_hint_bits, <<"ref_order_hint">>)))

SuperresReads(v) == When(v.given.superres = 1, Gated(v, "use_superres", U(3, <<"coded_denom">>)))

FrameSizeReads(v) == When(Overridden(v), U(8, <<"frame_width", "frame_height">>)) \o SuperresReads(v)

RenderReads(v) == Gated(v, "render_and_frame_size_different", U(16, <<"render_width", "render_height">>))

\* frame_width after superres_params: a very narrow frame is not scaled.
Scaled(v) == v.given.superres = 1 /\ v.use_superres = 1 /\ (v.width * 8 + 4) \div 9 # v.width

IntraReads(v) ==
    FrameSizeReads(v) \o RenderReads(v) \o When(ScreenContent(v) /\ ~Scaled(v), Flags(<<"allow_intrabc">>))

RefReads(v) ==
    When(v.given.order_hint_bits > 0,
         Gated(v, "frame_refs_short_signaling", U(3, <<"last_frame_idx", "gold_frame_idx">>)))
      \o Times(7, When(v.given.order_hint_bits = 0 \/ v.frame_refs_short_signaling = 0, U(3, <<"ref_frame_idx">>))
                    \o When(v.given.id_bits > 0, U(v.given.id_bits - 1, <<"delta_frame_id_minus_1">>)))

\* frame_size_with_refs: a flag for every reference up to the one found (0: none).
InterSizeReads(v) ==
    IF Overridden(v) /\ ~Resilient(v)
      THEN Times(IF v.found_ref = 0 THEN 7 ELSE v.found_ref, Flags(<<"found_ref">>))
             \o (IF v.found_ref = 0 THEN FrameSizeReads(v) \o RenderReads(v) ELSE SuperresReads(v))
      ELSE FrameSizeReads(v) \o RenderReads(v)

InterReads(v) ==
    RefReads(v) \o InterSizeReads(v)
      \o When(~IntegerMv(v), Flags(<<"allow_high_precision_mv">>))
      \o Flags(<<"is_filter_switchable">>) \o When(v.is_filter_switchable = 0, U(2, <<"interpolation_filter">>))
      \o Flags(<<"is_motion_mode_switchable">>)
      \o When(~Resilient(v) /\ v.given.ref_frame_mvs = 1, Flags(<<"use_ref_frame_mvs">>))

IntraBC(v) == IsIntra(v) /\ ScreenContent(v) /\ ~Scaled(v) /\ v.allow_intrabc = 1

\* Quantizer deltas of one kind are all coded or all zero.
QuantReads(v) ==
    U(8, <<"base_q_idx">>) \o Gated(v, "delta_q", Coded("su", 7, <<"delta_q_y_dc">>))
      \o When(v.given.planes > 1,
              When(v.given.separate_uv = 1, Flags(<<"diff_uv_delta">>))
                \o Times(IF v.given.separate_uv = 1 /\ v.diff_uv_delta = 1 THEN 4 ELSE 2,
                         Gated(v, "delta_q", Coded("su", 7, <<"delta_q_uv">>))))
      \o Gated(v, "using_qmatrix",
               U(4, <<"qm_y", "qm_u">>) \o When(v.given.separate_uv = 1, U(4, <<"qm_v">>)))

\* Mutant: the flag is taken as coded when it is not.
UpdatesDataIfCoded(v) == v.segmentation_update_data = 1

UpdatesData(v) == Primary(v) = NoPrimary \/ v.segmentation_update_data = 1

SegmentationReads(v) ==
    Gated(v, "segmentation_enabled",
          When(Primary(v) # NoPrimary,
               Gated(v, "segmentation_update_map", Flags(<<"segmentation_temporal_update">>))
                 \o Flags(<<"segmentation_update_data">>))
            \o When(UpdatesData(v),
                    Gated(v, "feature_q", Coded("su", 9, <<"feature_value">>)) \o Times(7, Flags(<<"feature_enabled">>))
                      \o Times(7 * 8, Flags(<<"feature_enabled">>))))

\* qindex of a segment: the first one may have a quantizer feature, its own or one
\* loaded from the primary reference frame.
FeatureQ(v) ==
    IF v.segmentation_enabled = 0 THEN 0
    ELSE IF UpdatesData(v) THEN (IF v.feature_q = 1 THEN v.feature_value ELSE 0)
    ELSE v.given.loaded_q

Clamped(q) == IF q < 0 THEN 0 ELSE IF q > 255 THEN 255 ELSE q
Lossless(v) == v.delta_q = 0 /\ v.base_q_idx = 0 /\ Clamped(v.base_q_idx + FeatureQ(v)) = 0

DeltaReads(v) ==
    When(v.base_q_idx > 0,
         Gated(v, "delta_q_present",
               U(2, <<"delta_q_res">>)
                 \o When(~IntraBC(v), Gated(v, "delta_lf_present", U(2, <<"delta_lf_res">>) \o Flags(<<"delta_lf_multi">>)))))

\* Deltas are updated all or none.
LoopFilterReads(v) ==
    When(~(Lossless(v) \/ IntraBC(v)),
         U(6, <<"loop_filter_level", "loop_filter_level">>)
           \o When(v.given.planes > 1 /\ v.loop_filter_level > 0, U(6, <<"loop_filter_level_u", "loop_filter_level_v">>))
           \o U(3, <<"loop_filter_sharpness">>)
           \o Gated(v, "loop_filter_delta_enabled",
                    Gated(v, "loop_filter_delta_update",
                          Times(10, Gated(v, "update_delta", Coded("su", 7, <<"loop_filter_delta">>))))))

CdefReads(v) ==
    When(~(Lossless(v) \/ IntraBC(v) \/ v.given.cdef = 0),
         U(2, <<"cdef_damping_minus_3", "cdef_bits">>)
           \o Times(2^v.cdef_bits,
                    U(4, <<"cdef_y_pri_strength">>) \o U(2, <<"cdef_y_sec_strength">>)
                      \o When(v.given.planes > 1, U(4, <<"cdef_uv_pri_strength">>) \o U(2, <<"cdef_uv_sec_strength">>))))

RestorationReads(v) ==
    When(~((Lossless(v) /\ ~Scaled(v)) \/ IntraBC(v) \/ v.given.restoration = 0),
         U(2, <<"lr_type_y">>) \o When(v.given.planes > 1, U(2, <<"lr_type_uv", "lr_type_uv">>))
           \o When(v.lr_type_y > 0 \/ (v.given.planes > 1 /\ v.lr_type_uv > 0),
                   Flags(<<"lr_unit_shift">>)
                     \o When(v.given.big = 0 /\ v.lr_unit_shift = 1, Flags(<<"lr_unit_extra_shift">>))
                     \o When(v.given.subsampled = 1 /\ v.given.planes > 1 /\ v.lr_type_uv > 0, Flags(<<"lr_uv_shift">>))))

\* Models: 0 identity, 1 translation, 2 rotzoom, 3 affine.
MotionReads(v) ==
    When(~IsIntra(v),
         Times(7, Flags(<<"is_global">>)
                    \o When(v.gm_type > 0,
                            Flags(<<"is_rot_zoom">>) \o When(v.gm_type # 2, Flags(<<"is_translation">>)))
                    \o Coded("subexp", 0, [i \in 1 .. <<0, 2, 4, 6>>[v.gm_type + 1] |-> "gm_param"])))

NumPositions(v) == 2 * v.ar_coeff_lag * (v.ar_coeff_lag + 1)

PointsOfChroma(v) ==
    ~(v.given.planes = 1 \/ v.chroma_scaling_from_luma = 1 \/ (v.given.subsampled = 1 /\ v.num_y_points = 0))

GrainReads(v) ==
    LET luma   == v.given.planes > 1 /\ v.chroma_scaling_from_luma = 1
        chroma == NumPositions(v) + (IF v.num_y_points > 0 THEN 1 ELSE 0)
        scaled == PointsOfChroma(v) /\ v.num_uv_points > 0
    IN  Gated(v, "apply_grain",
          U(16, <<"grain_seed">>) \o When(Type(v) = InterFrame, Flags(<<"update_grain">>))
            \o (IF Type(v) = InterFrame /\ v.update_grain = 0 THEN U(3, <<"film_grain_params_ref_idx">>)
                ELSE U(4, <<"num_y_points">>) \o Times(v.num_y_points, U(8, <<"point_y_value", "point_y_scaling">>))
                       \o When(v.given.planes > 1, Flags(<<"chroma_scaling_from_luma">>))
                       \o When(PointsOfChroma(v),
                               Times(2, U(4, <<"num_uv_points">>)
                                          \o Times(v.num_uv_points, U(8, <<"point_uv_value", "point_uv_scaling">>))))
                       \o U(2, <<"grain_scaling_minus_8", "ar_coeff_lag">>)
                       \o When(v.num_y_points > 0, Times(NumPositions(v), U(8, <<"ar_coeffs_y_plus_128">>)))
                       \o When(luma \/ scaled, Times(2 * chroma, U(8, <<"ar_coeffs_uv_plus_128">>)))
                       \o U(2, <<"ar_coeff_shift_minus_6", "grain_scale_shift">>)
                       \o When(scaled, Times(2, U(8, <<"uv_mult", "uv_luma_mult">>) \o U(9, <<"uv_offset">>)))
                       \o Flags(<<"overlap_flag", "clip_to_restricted_range">>)))

GrainRejects(v) ==
    /\ v.given.grain = 1 /\ (Shown(v) \/ Showable(v)) /\ v.apply_grain = 1
    /\ ~(Type(v) = InterFrame /\ v.update_grain = 0)
    /\ \/ v.num_y_points > 14
       \/ PointsOfChroma(v) /\ v.num_uv_points > 10

\* What follows the sizes and references.
BodyReads(v) ==
    When(~(v.given.reduced = 1 \/ v.disable_cdf_update = 1), Flags(<<"disable_frame_end_update_cdf">>))
      \o Sub("tile_info", 0) \o QuantReads(v) \o SegmentationReads(v) \o DeltaReads(v)
      \o LoopFilterReads(v) \o CdefReads(v) \o RestorationReads(v)
      \o When(~Lossless(v), Flags(<<"tx_mode_select">>))
      \o When(~IsIntra(v),
              Gated(v, "reference_select", When(v.given.skip_mode = 1 /\ v.given.order_hint_bits > 0,
                                                Flags(<<"skip_mode_present">>))))
      \o When(~(IsIntra(v) \/ Resilient(v) \/ v.given.warped = 0), Flags(<<"allow_warped_motion">>))
      \o Flags(<<"reduced_tx_set">>) \o MotionReads(v)
      \o When(v.given.grain = 1 /\ (Shown(v) \/ Showable(v)), GrainReads(v))

FrameReads(v) ==
    When(v.given.reduced = 0, Flags(<<"show_existing_frame">>))
      \o (IF v.given.reduced = 0 /\ v.show_existing_frame = 1 THEN ShowExistingReads(v)
          ELSE When(v.given.reduced = 0, TypeReads(v)) \o ToolReads(v) \o RefreshReads(v)
                 \o (IF IsIntra(v) THEN IntraReads(v) ELSE InterReads(v))
                 \o BodyReads(v))

=============================================================================
