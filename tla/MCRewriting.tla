----------------------------- MODULE MCRewriting -----------------------------
(* Instances of Rewriting for TLC: the fields of every kind and their values. *)
EXTENDS RewritingCodes, TLC

Bit == {0, 1}
Least(values) == CHOOSE x \in values : \A y \in values : x <= y

Strings(letters, lengths) == UNION {[1 .. n -> letters] : n \in lengths}

Pictures(pocs) == [i \in DOMAIN pocs |-> [poc |-> pocs[i], used |-> TRUE]]

H264Values == [
    h264_sps |-> [profile_idc |-> {66, 100}, chroma_format_idc |-> 0 .. 3, seq_scaling_lists |-> {0, 8, 12, 13},
                  log2_max_frame_num_minus4 |-> {0, 12, 13}, pic_order_cnt_type |-> 0 .. 3,
                  log2_max_pic_order_cnt_lsb_minus4 |-> {0, 12, 13}, offsets_for_ref_frame |-> {0, 2, 256},
                  frame_mbs_only_flag |-> Bit, frame_cropping |-> Bit, vui |-> Bit],
    h264_pps |-> [num_slice_groups_minus1 |-> Bit, high_profile_tail_present |-> Bit, transform_8x8_mode_flag |-> Bit,
                  pic_scaling_lists |-> {0, 6, 8, 12, 13}, given |-> [sps : Bit, chroma_format_idc : {1, 3}]],
    h264_vui |-> [aspect_ratio_info_present_flag |-> Bit, aspect_ratio_idc |-> {1, 255}, overscan_info_present_flag |-> Bit,
                  video_signal_type_present_flag |-> Bit, colour_description_present_flag |-> Bit,
                  chroma_loc_info_present_flag |-> Bit, timing_info_present_flag |-> Bit, nal_hrd |-> Bit, vcl_hrd |-> Bit,
                  bitstream_restriction_flag |-> Bit],
    h264_hrd |-> [cpb_cnt_minus1 |-> {0, 1, 31, 32}, cpb |-> {0, 1, 2, 32, 33}],
    h264_matrix |-> [coded_count |-> {6, 8, 12, 13}, present |-> {0, 1, 6, 7, 12}],
    h264_list |-> [use_default |-> Bit, list |-> {<<0, 0, 0>>} \union [1 .. 3 -> {1, 128, 129, 255}]],
    h264_slice |-> [first_mb_in_slice |-> {0, 2, 3, 4, 6}, slice_type |-> {"P", "B", "I", "SP", "SI"}, field_pic_flag |-> Bit,
                    num_ref_idx_active_override_flag |-> Bit, num_ref_idx_l0_active_minus1 |-> {0, 2, 31, 32, 64},
                    num_ref_idx_l1_active_minus1 |-> {0, 2, 32}, ref_pic_list_modification_flag_l0 |-> Bit, modifications_l0 |-> {0, 2, 67},
                    ref_pic_list_modification_flag_l1 |-> Bit, modifications_l1 |-> {0, 1, 67}, luma_weight_flag |-> Bit,
                    chroma_weight_flag |-> Bit, adaptive_ref_pic_marking_mode_flag |-> Bit, mmco |-> {<<>>, <<5>>, <<1, 3, 2>>, <<4, 6>>},
                    disable_deblocking_filter_idc |-> 0 .. 3, given |-> {}]
]

HevcValues == [
    hevc_vps |-> [max_sub_layers_minus1 |-> {0, 1, 6, 7}, ordering_present |-> Bit, ordering |-> {1, 2, 7},
                  max_dec_pic_buffering_minus1 |-> {0, 15, 16}, highest |-> {0, 15}, vps_max_layer_id |-> {0, 1, 63},
                  vps_num_layer_sets_minus1 |-> {0, 1, 2, 1024}, layer_id_included |-> {0, 1, 2}, timing_info |-> Bit,
                  poc_proportional |-> Bit, hrd_parameters |-> 0 .. 3, first_cprms |-> Bit, cprms_present_flag |-> Bit,
                  vps_extension_flag |-> Bit],
    hevc_sps |-> [max_sub_layers_minus1 |-> {0, 1, 7}, chroma_format_idc |-> {1, 3}, separate_colour_plane_flag |-> Bit,
                  conformance_window |-> Bit, log2_max_poc_lsb_minus4 |-> {0, 12, 13}, ordering_present |-> Bit,
                  ordering |-> {1, 2}, max_dec_pic_buffering_minus1 |-> {1, 4, 16}, highest |-> {1, 4, 16},
                  log2_min_cb_minus3 |-> {0, 1}, log2_diff_cb |-> {0, 1, 3}, scaling_list_enabled |-> Bit,
                  scaling_list_data |-> Bit, pcm_enabled |-> Bit, num_short_term_ref_pic_sets |-> {0, 2, 65},
                  short_term_rps |-> {0, 2, 65}, pictures_of_set |-> {0, 2}, long_term_present |-> Bit,
                  num_long_term_ref_pics_sps |-> {0, 2, 33}, long_term_ref_pics |-> {0, 2, 33}, vui |-> Bit,
                  extension |-> Bit, range_flag |-> Bit, range_extension |-> Bit, multilayer_flag |-> Bit,
                  three_d_flag |-> Bit, scc_flag |-> Bit, extension_4bits |-> {0}],
    hevc_pps |-> [cu_qp_delta |-> Bit, tiles_enabled |-> Bit, tiles |-> Bit, num_tile_columns_minus1 |-> {0, 2},
                  num_tile_rows_minus1 |-> {0, 1}, uniform_spacing |-> Bit, column_widths |-> {0, 2}, row_heights |-> {0, 1},
                  deblocking_control |-> Bit, deblocking_disabled |-> Bit, scaling_list_data |-> Bit, extension |-> Bit,
                  range_flag |-> Bit, range_extension |-> Bit, multilayer_flag |-> Bit, three_d_flag |-> Bit, scc_flag |-> Bit,
                  extension_4bits |-> {0}, transform_skip |-> Bit, log2_max_transform_skip_block_size_minus2 |-> Bit,
                  chroma_qp_offsets |-> Bit, offset_list |-> {0, 1, 6, 7}],
    hevc_vui |-> [aspect_ratio_info_present_flag |-> Bit, aspect_ratio_idc |-> {1, 255}, overscan_info_present_flag |-> Bit,
                  video_signal_type_present_flag |-> Bit, colour_description_present_flag |-> Bit,
                  chroma_loc_info_present_flag |-> Bit, default_display_window |-> Bit, vui_timing_info_present_flag |-> Bit,
                  vui_poc_proportional_to_timing_flag |-> Bit, hrd_parameters |-> Bit, bitstream_restriction_flag |-> Bit],
    hevc_hrd |-> [nal |-> Bit, vcl |-> Bit, sub_pic |-> Bit, fixed_general |-> Bit, fixed_within |-> Bit, elemental |-> Bit,
                  low_delay |-> Bit, cpb_cnt_minus1 |-> {0, 1, 32}, nal_cpb |-> 0 .. 2, vcl_cpb |-> 0 .. 2,
                  sub_layers |-> 1 .. 2, given |-> [common : Bit, sub_layers : Bit, nal : Bit, vcl : {1}, sub_pic : Bit]],
    hevc_ptl |-> [profile |-> Bit, level |-> Bit, sub_layers |-> {0, 1, 6}, sub_layer_reserved_bits |-> {0, 16, 16384},
                  given |-> {0, 1, 6}],
    hevc_lists |-> [pred_mode_flag |-> Bit, pred_matrix_id_delta |-> Bit, dc_coef_minus8 |-> {-8, -7, 0, 247, 248}],
    hevc_list |-> [first |-> {8, 1, 255}, list |-> [1 .. 3 -> {0, 1, 127, 128, 255}]],
    hevc_rps |-> [delta |-> {-4, -2, -1, 1, 2, 4}, flags |-> [1 .. 5 -> {"none", "kept", "used"}],
                  ref |-> {[s0 |-> Pictures(s0), s1 |-> Pictures(s1)] :
                              s0 \in {<<>>, <<-1, -2>>, <<-1, -4>>, <<-2>>}, s1 \in {<<>>, <<1>>, <<2, 4>>, <<1, 3>>}}],
    hevc_slice |-> [first_segment |-> Bit, dependent |-> Bit,
                    given |-> [nal : {"trail", "idr", "cra", "bla"}, dependent_enabled : Bit, ctbs : {3, 4, 5},
                               extra_bits : {0, 2}, output_flag : Bit, separate_planes : Bit, lsb_bits : {4, 16}]]
]

Layer(direct) == [independent |-> IF direct = <<>> THEN 1 ELSE 0, direct |-> direct]

H266Values == [
    h266_dpb |-> [max_dec_pic_buffering_minus1 |-> {1, 4, 16}, max_num_reorder_pics |-> {0, 2, 5}, entries |-> {1, 3},
                  given |-> [max_sublayers_minus1 : {0, 2}, all : Bit]],
    h266_general_hrd |-> [num_units_in_tick |-> Bit, time_scale |-> Bit, nal |-> Bit, vcl |-> Bit, du |-> Bit,
                          hrd_cpb_cnt_minus1 |-> {0, 31, 32}],
    h266_ols_hrd |-> [fixed_general |-> Bit, fixed_within |-> Bit, elemental_duration_in_tc_minus1 |-> {0, 2047, 2048},
                      du_values |-> Bit, sublayers |-> 1 .. 3, nal_schedules |-> 0 .. 2, vcl_schedules |-> 0 .. 2,
                      given |-> [max_sublayers_val : {2}, first_sublayer : {0, 2}, nal : Bit, vcl : Bit, du : Bit,
                                 hrd_cpb_cnt_minus1 : Bit]],
    h266_rpl |-> [entries |-> {0, 2, 29, 30}, ltrp_in_header |-> Bit, inter_layer |-> Bit, short_term |-> Bit,
                  abs_delta_poc_st |-> {0, 1, 32767, 32768}, lsb_present |-> Bit, poc_lsb_lt |-> {0, 15, 16},
                  given |-> [long_term : Bit, inter_layer : Bit, in_sps_list : Bit, lsb_bits : {4}]],
    h266_ptl |-> [profile |-> Bit, gci_present |-> Bit, gci_num_additional_bits |-> {0, 5, 6, 255}, gci_bits |-> {0, 76, 77, 82, 83},
                  level_flags |-> 0 .. 2, sublayer_level_present |-> Bit, levels |-> 0 .. 2, sub_profiles |-> {0, 2, 256},
                  given |-> [profile : Bit, max_sublayers_minus1 : {0, 2}]],
    h266_opi |-> [ols_info |-> Bit, htid_info |-> Bit, opi_htid_plus1 |-> {0, 7, 8}, opi_extension_flag |-> Bit],
    h266_dci |-> [dci_reserved_zero_4bits |-> {0, 15, 16}, profile_tier_levels |-> {0, 1, 15, 16, 17}, dci_extension_flag |-> Bit],
    h266_aud |-> [aud_irap_or_gdr_flag |-> 0 .. 2, aud_pic_type |-> {0, 7, 8}],
    h266_header |-> [ph_gdr_or_irap_pic_flag |-> Bit, ph_gdr_pic_flag |-> Bit, ph_inter_slice_allowed_flag |-> Bit,
                     ph_pic_parameter_set_id |-> {0, 63, 64}, given |-> [lsb_bits : {4, 16}]],
    h266_subpics |-> [num_subpics_minus1 |-> {0, 1, 3, 1000}, independent |-> Bit, same_size |-> Bit, entries |-> {0, 2, 4},
                      subpic_id_len_minus1 |-> {0, 1, 15, 16}, id_mapping_signalled |-> Bit, id_mapping_present |-> Bit,
                      ids |-> {0, 1, 2, 4}, given |-> [w : {1, 2, 5}, h : {1, 3}]],
    h266_grid |-> [num_minus1 |-> 0 .. 5, first |-> [w : 0 .. 4, h : 0 .. 4], w |-> 1 .. 4, h |-> 1 .. 4],
    h266_sps |-> [video_parameter_set_id |-> Bit, max_sublayers_minus1 |-> {0, 1, 7}, chroma_format_idc |-> {0, 1, 3},
                  log2_ctu_size_minus5 |-> {0, 1, 3}, ptl |-> Bit, dpb |-> Bit, ref_pic_resampling |-> Bit, pic_width |-> {0, 8, 64},
                  pic_height |-> {8, 64}, conformance_window |-> Bit, subpic_info |-> Bit, bitdepth_minus8 |-> {0, 8, 9},
                  log2_max_poc_lsb_minus4 |-> {0, 12, 13}, poc_msb_cycle |-> Bit, poc_msb_cycle_len_minus1 |-> {0, 15, 16, 27, 28},
                  extra_ph_bits |-> {0, 8, 24}, extra_sh_bits |-> {0, 16}, sublayer_dpb_params |-> Bit,
                  log2_min_cb_minus2 |-> {0, 3, 4, 5}, mtt_depth_intra_luma |-> Bit, dual_tree_intra |-> Bit,
                  mtt_depth_intra_chroma |-> Bit, mtt_depth_inter |-> Bit, max_luma_transform_size_64 |-> Bit, transform_skip |-> Bit,
                  log2_transform_skip_max_size_minus2 |-> {0, 3, 4}, mts_enabled |-> Bit, lfnst_enabled |-> Bit, joint_cbcr |-> Bit,
                  same_qp_table |-> Bit, qp_tables |-> 0 .. 3, qp_table_start_minus26 |-> {-27, -26, 0, 36, 37}, qp_points |-> {0, 1, 2, 37, 38},
                  alf_enabled |-> Bit, long_term_ref_pics |-> Bit, inter_layer_prediction |-> Bit, rpl1_same_as_rpl0 |-> Bit,
                  lists0 |-> {0, 2, 64, 65}, lists1 |-> {0, 2, 65}, temporal_mvp |-> Bit, sbtmvp |-> Bit, amvr |-> Bit, bdof |-> Bit,
                  dmvr |-> Bit, mmvd |-> Bit, six_minus_max_num_merge_cand |-> {0, 3, 4, 5, 6}, affine |-> Bit,
                  five_minus_max_num_subblock_merge_cand |-> {0, 4, 5, 6}, affine_prof |-> Bit, gpm |-> Bit,
                  max_merge_minus_max_gpm_cand |-> {0, 1, 4, 5}, log2_parallel_merge_level_minus2 |-> {0, 3, 4}, palette |-> Bit, act |-> Bit,
                  min_qp_prime_ts |-> {0, 8, 9}, ibc |-> Bit, six_minus_max_num_ibc_merge_cand |-> {0, 5, 6}, ladf |-> Bit,
                  ladf_intervals |-> {1, 4, 5}, explicit_scaling_list |-> Bit, scaling_for_alternative_disabled |-> Bit,
                  virtual_boundaries_enabled |-> Bit, virtual_boundaries_present |-> Bit, boundaries_x |-> {0, 3, 4}, boundaries_y |-> {0, 3, 4},
                  timing_hrd |-> Bit, sublayer_cpb_params |-> Bit, vui |-> Bit, vui_bytes |-> {0, 1, 1024, 1025}, extension |-> Bit,
                  range_extension |-> Bit, extension_7bits |-> {0, 1, 127}, extension_data |-> 0 .. 2],
    h266_pps |-> [pic_width |-> Bit, conf_win |-> Bit, scaling_win |-> Bit, no_pic_partition |-> Bit, subpic_id_mapping |-> Bit,
                  num_subpics_minus1 |-> {0, 1, 1000}, subpic_id_len_minus1 |-> {0, 15, 16}, ids |-> 0 .. 2, partition |-> Bit,
                  num_ref_idx0 |-> {0, 14, 15}, num_ref_idx1 |-> {0, 15}, weighted_pred |-> Bit, weighted_bipred |-> Bit, wraparound |-> Bit,
                  chroma_tool_offsets |-> Bit, qp_offset |-> {-13, -12, 0, 12, 13}, joint |-> Bit, list_enabled |-> Bit, list |-> {0, 1, 6, 7},
                  list_joint |-> Bit, deblocking |-> Bit, override |-> Bit, disabled |-> Bit, luma_offset |-> {0, 12, 13},
                  chroma_offset |-> {0, 12, 13}, rpl_info_in_ph |-> Bit, extension |-> Bit, extension_data |-> 0 .. 2],
    h266_partition |-> [log2_ctu_size_minus5 |-> 0 .. 3, column_widths |-> Strings(1 .. 3, 0 .. 2) \union {<<1, 2, 1>>},
                        row_heights |-> Strings(1 .. 3, 0 .. 2), rect_slice_flag |-> Bit, single_slice_per_subpic_flag |-> Bit,
                        num_slices_in_pic_minus1 |-> {0, 1, 2, 3, 1000}, tile_idx_delta_present_flag |-> Bit,
                        rect_slices |-> Strings({-1, 1}, 0 .. 3), given |-> [w : {2, 4, 31}, h : {2, 4}]],
    h266_tiles |-> [explicit |-> UNION {[1 .. n -> 1 .. 4] : n \in 1 .. 3}, total |-> 1 .. 9, max |-> {2, 5, 30}],
    h266_slices |-> [codes |-> {}, given |-> {}],
    h266_vps |-> [max_sublayers_minus1 |-> {0, 2, 7}, default_max_tid |-> Bit, all_independent |-> Bit, ids_rise |-> Bit, il_inferred |-> Bit,
                  layers |-> {<<Layer(<<>>)>> \o rest :
                                 rest \in {<<>>} \union {<<Layer(b)>> : b \in {<<>>, <<1>>, <<0>>}}
                                           \union {<<Layer(b), Layer(c)>> : b \in {<<>>, <<1>>}, c \in {<<>>, <<0, 1>>, <<1, 0>>, <<1>>}}},
                  max_tid_ref_present |-> Bit, each_layer_is_an_ols |-> Bit, ols_mode_idc |-> 0 .. 3,
                  rows |-> UNION {[1 .. k -> {<<1>>, <<0, 0, 1>>, <<0, 1, 0>>, <<0, 1>>, <<0, 0>>}] : k \in 0 .. 2},
                  ptls |-> 0 .. 3, first_pt_present |-> Bit, pt_present |-> Bit, ptl_max_tid |-> {0, 2, 3}, ptl_idxs |-> 1 .. 3, ptl_idx |-> 0 .. 2,
                  dpbs |-> 0 .. 2, sublayer_dpb_params |-> Bit, dpb_max_tid |-> {0, 2, 3}, ols_dpbs |-> 0 .. 2, bitdepth_minus8 |-> {0, 9},
                  dpb_idx |-> 0 .. 1, timing_hrd |-> Bit, sublayer_cpb_params |-> Bit, hrds |-> 0 .. 2, hrd_max_tid |-> {0, 2, 3},
                  hrd_idxs |-> 0 .. 2, hrd_idx |-> 0 .. 1, extension |-> Bit, extension_data |-> 0 .. 2],
    h266_aps |-> [params_type |-> 0 .. 3, payload |-> 0 .. 2, id |-> {0, 3, 4, 7, 8}, extension |-> Bit],
    h266_alf |-> [luma_flag |-> Bit, luma |-> Bit, luma_clip |-> Bit, luma_num_minus1 |-> {0, 2, 24, 25}, luma_delta_idx |-> {0, 2, 3, 24},
                  luma_rows |-> {0, 1, 3}, luma_abs |-> {0, 128, 129}, luma_sign |-> Bit, luma_clip_rows |-> {0, 1, 3}, luma_clip_idx |-> {0, 4},
                  chroma_flag |-> Bit, chroma |-> Bit, chroma_clip |-> Bit, chroma_num_minus1 |-> {0, 7, 8}, chroma_rows |-> {0, 1, 8},
                  chroma_abs |-> {0, 129}, chroma_sign |-> Bit, chroma_clip_rows |-> 0 .. 1, chroma_clip_idx |-> {0, 4},
                  cc_cb_flag |-> Bit, cc_cr_flag |-> Bit, cc_cb |-> Bit, cc_cr |-> Bit, cc_num_minus1 |-> {0, 3, 4}, cc_rows |-> {0, 1, 4},
                  cc_abs |-> {0, 7, 8}, cc_sign |-> Bit, given |-> [chroma_present : Bit]],
    h266_lmcs |-> [min_bin_idx |-> {0, 8, 15, 16}, delta_max_bin_idx |-> {0, 7, 8, 15, 16}, delta_cw_prec_minus1 |-> {0, 3, 14, 15},
                   delta_abs_cw |-> {0, 1, 15, 16}, delta_sign_cw |-> Bit, outside |-> Bit, delta_abs_crs |-> {0, 7, 8}, delta_sign_crs |-> Bit,
                   given |-> [chroma_present : Bit]],
    h266_list |-> [copy_mode |-> Bit, pred_mode |-> Bit, pred_id_delta |-> {0, 1, 5, 6}, dc_coef |-> {-129, -128, 0, 127, 128},
                   given |-> [id : {0, 1, 2, 7, 8, 13, 14, 26, 27}, chroma_present : Bit]],
    h266_coefs |-> [list |-> [1 .. 3 -> {-128, -1, 0, 127}], dc |-> {-1, 0, 127}, skipped |-> {{}, {3}, {2, 3}}],
    h266_scan |-> [size |-> {2, 4, 8}]
]

MCAv1Context == [reduced : {0}, screen_content : {1, 2}, integer_mv : {0, 2}, id_bits : {0, 5}, order_hint_bits : {0, 3},
                 decoder_model : {0}, superres : Bit, ref_frame_mvs : {1}, planes : {1, 3}, separate_uv : {1}, loaded_q : {7},
                 cdef : {1}, restoration : {1}, big : Bit, subsampled : {1}, skip_mode : {1}, warped : {1}, grain : Bit]

Av1Values == [
    av1_seq |-> [seq_profile |-> 0 .. 3, still_picture |-> Bit, reduced_still_picture_header |-> Bit, seq_level_idx_0 |-> {0, 7, 8, 31, 32},
                 seq_tier_0 |-> Bit, operating_point_idc_0 |-> {0, 4095, 4096}, timing_info |-> Bit, num_units_in_display_tick |-> Bit,
                 time_scale |-> Bit, equal_picture_interval |-> Bit, initial_display_delay_present_flag |-> Bit, initial_display_delay |-> Bit,
                 initial_display_delay_minus_1 |-> {0, 15, 16}, frame_width_bits |-> {0, 1, 16, 17}, frame_height_bits |-> {1, 16},
                 max_frame_width_minus_1 |-> {0, 1, 2}, max_frame_height_minus_1 |-> {0, 2}, frame_id_numbers_present_flag |-> Bit,
                 delta_frame_id_length_minus_2 |-> {0, 13, 15, 16}, additional_frame_id_length_minus_1 |-> {0, 7, 8}, enable_order_hint |-> Bit,
                 enable_jnt_comp |-> Bit, enable_ref_frame_mvs |-> Bit, order_hint_bits |-> {0, 1, 8, 9}, seq_choose_screen_content_tools |-> Bit,
                 seq_force_screen_content_tools |-> 0 .. 2, seq_choose_integer_mv |-> Bit, seq_force_integer_mv |-> 0 .. 2, bit_depth |-> {8, 10, 12},
                 monochrome |-> Bit, color_description |-> 0 .. 2, color_range |-> Bit, subsampling_x |-> Bit, subsampling_y |-> Bit,
                 chroma_sample_position |-> {0, 3, 4}, separate_uv_delta_q |-> Bit,
                 given |-> [decoder_model : Bit, points : {1, 2}, delay_bits : {5}]],
    av1_meta |-> [metadata_type |-> 1 .. 6, scalability_mode_idc |-> {0, 14}, structure |-> Bit, spatial_layers_cnt_minus_1 |-> {0, 3, 4},
                  spatial_layer_dimensions |-> {0, 1, 4}, spatial_layer_ref_ids |-> {0, 1, 4}, temporal_groups |-> {0, 1, 255, 256}, temporal_id |-> {0, 7, 8},
                  ref_pic_diffs |-> {0, 7, 8}, country_code |-> {0, 255}, extension |-> Bit, payload |-> 0 .. 2, full_timestamp_flag |-> Bit,
                  seconds |-> Bit, minutes |-> Bit, hours |-> Bit, n_frames |-> {0, 511, 512}, time_offset_length |-> {0, 31, 32}],
    av1_frame |-> [show_existing_frame |-> Bit, frame_type |-> 0 .. 3, show_frame |-> Bit, showable_frame |-> Bit, error_resilient_mode |-> Bit,
                   disable_cdf_update |-> Bit, allow_screen_content_tools |-> Bit, force_integer_mv |-> Bit, frame_size_override_flag |-> Bit,
                   primary_ref_frame |-> {0, 7}, buffer_removal_time_present |-> {0}, refresh_frame_flags |-> {0, 255}, use_superres |-> Bit, width |-> {4, 64},
                   render_and_frame_size_different |-> Bit, allow_intrabc |-> Bit, frame_refs_short_signaling |-> Bit, found_ref |-> {0, 1, 7},
                   is_filter_switchable |-> {1}, base_q_idx |-> {0, 60}, delta_q |-> Bit, diff_uv_delta |-> Bit, using_qmatrix |-> Bit,
                   segmentation_enabled |-> Bit, segmentation_update_map |-> Bit, segmentation_update_data |-> Bit, feature_q |-> Bit,
                   feature_value |-> {-60, 5}, delta_q_present |-> Bit, delta_lf_present |-> Bit, loop_filter_level |-> {0, 9}, loop_filter_delta_enabled |-> Bit,
                   loop_filter_delta_update |-> Bit, update_delta |-> Bit, cdef_bits |-> {0, 3}, lr_type_y |-> Bit, lr_type_uv |-> Bit, lr_unit_shift |-> Bit,
                   reference_select |-> Bit, gm_type |-> 0 .. 3, apply_grain |-> Bit, update_grain |-> Bit, num_y_points |-> {0, 14, 15},
                   chroma_scaling_from_luma |-> Bit, num_uv_points |-> {0, 10, 11}, ar_coeff_lag |-> {0, 3}, given |-> MCAv1Context],
    av1_refs |-> [bits |-> {}, hints |-> {}, current |-> {}, last |-> {}, gold |-> {}],
    av1_skip |-> [refHints |-> {}],
    av1_ids |-> [idBits |-> {}, diffBits |-> {}, current |-> {}, id |-> {}],
    av1_tiles |-> [uniform |-> {}, codes |-> {}, given |-> {}],
    av1_group |-> [start |-> {}, at |-> {}, fieldBytes |-> {}, sizes |-> {}, missing |-> {}],
    av1_recentered |-> [low |-> {}, size |-> {}],
    av1_subexp |-> [symbols |-> {}],
    av1_param |-> [index |-> {}, first |-> {}, next |-> {}]
]

Vp9Values == [
    vp9_key |-> [profile |-> 0 .. 4, show_existing_frame |-> Bit, frame_type |-> Bit, error_resilient_mode |-> Bit, bit_depth |-> {8, 10, 12},
                 color_space |-> {0, 7, 8}, color_range |-> Bit, subsampling_x |-> Bit, subsampling_y |-> Bit,
                 frame_size |-> {0, 1, 448, 449, 4096, 4097, 65536, 65537}, render_size_present |-> Bit, render_size |-> {0, 1, 449, 65536, 65537},
                 refresh_frame_flags |-> {0, 255}, intra_only |-> Bit, frame_context_idx |-> Bit, refresh_frame_context |-> Bit,
                 frame_parallel_decoding_mode |-> Bit, coded_frame_context_idx |-> {0, 3, 4}, loop_filter_level |-> {0, 63, 64},
                 loop_filter_sharpness |-> {0, 7, 8}, mode_ref_delta_enabled |-> Bit, ref_delta |-> {-64, -63, 0, 1, 63, 64}, mode_delta |-> {-1, 0},
                 base_q_idx |-> {-1, 0, 255, 256}, delta_q |-> {-16, -15, 0, 15, 16}, segmentation_enabled |-> Bit, update_map |-> Bit,
                 tree_prob |-> {0, 254, 255}, temporal_update |-> Bit, pred_prob |-> {0, 255}, update_data |-> Bit, abs_or_delta_update |-> Bit,
                 feature_enable |-> Bit, feature_data |-> {-256, -255, -1, 0, 1, 3, 4, 63, 64, 255, 256}, log2_tile_cols |-> {0, 1, 2, 4, 8},
                 log2_tile_rows |-> 0 .. 3, compressed_header_size |-> {0, 1, 65535, 65536}, given |-> [all : Bit, feature : 0 .. 3]]
]

CodeValues == [
    code_read |-> [code |-> {}, n |-> {}, r |-> {}],
    code_write |-> [code |-> {}, n |-> {}, v |-> {}, before |-> {}, after |-> {}],
    code_trailing |-> [data |-> {}],
    nal_bytes |-> [bytes |-> {}],
    nal_units |-> [rbsps |-> {}, header |-> {}, codes |-> {}],
    sei_messages |-> [messages |-> {}],
    obus |-> [obus |-> {}],
    ivf |-> [frames |-> {}],
    bdus |-> [units |-> {}, stuffing |-> {}, slice |-> {}],
    superframe |-> [frames |-> {}, width |-> {}],
    obu_stream |-> [types |-> {}]
]

MCValues == H264Values @@ HevcValues @@ H266Values @@ Av1Values @@ Vp9Values @@ CodeValues

Lowest(k) == [f \in DOMAIN MCValues[k] |-> IF f = "given" THEN 0 ELSE Least(MCValues[k][f])]

MCSliceContext ==
    {[nal |-> n, ref_idc |-> r, frame_mbs_only |-> 1 - f, mbaff |-> f, frame_mbs |-> 6, frame_num_bits |-> 4, poc_type |-> p + a, lsb_bits |-> 5,
      delta_always_zero |-> 1 - b, bottom_count_present |-> b, separate_colour_planes |-> a, chroma |-> 1 - a, redundant_present |-> a,
      default_l0 |-> 2, default_l1 |-> 0, weighted_pred |-> b, weighted_bipred |-> a, cabac |-> a, deblocking_control |-> b] :
        n \in {"idr", "trail"}, r \in Bit, f \in Bit, p \in Bit, b \in Bit, a \in Bit}

HevcAndH264Starts == [
    h264_sps |-> {[Lowest("h264_sps") EXCEPT !.profile_idc = p, !.chroma_format_idc = 1] : p \in {66, 100}},
    h264_pps |-> {[num_slice_groups_minus1 |-> 0, high_profile_tail_present |-> 0, transform_8x8_mode_flag |-> 0,
                   pic_scaling_lists |-> 0, given |-> [sps |-> 1, chroma_format_idc |-> 1]]},
    h264_vui |-> {Lowest("h264_vui")},
    h264_hrd |-> {[cpb_cnt_minus1 |-> 0, cpb |-> 1]},
    h264_matrix |-> {[coded_count |-> 8, present |-> 0]},
    h264_list |-> {[use_default |-> 0, list |-> <<1, 1, 1>>]},
    h264_slice |-> {[first_mb_in_slice |-> 0, slice_type |-> t, field_pic_flag |-> IF g.frame_mbs_only = 0 THEN m ELSE 0,
                     num_ref_idx_active_override_flag |-> m, num_ref_idx_l0_active_minus1 |-> 0, num_ref_idx_l1_active_minus1 |-> m,
                     ref_pic_list_modification_flag_l0 |-> m, modifications_l0 |-> m, ref_pic_list_modification_flag_l1 |-> 0,
                     modifications_l1 |-> 0, luma_weight_flag |-> 0, chroma_weight_flag |-> 1, adaptive_ref_pic_marking_mode_flag |-> m,
                     mmco |-> <<>>, disable_deblocking_filter_idc |-> 0, given |-> g] :
                        t \in {"P", "B", "I", "SP", "SI"}, m \in Bit, g \in MCSliceContext},
    hevc_vps |-> {Lowest("hevc_vps"), [Lowest("hevc_vps") EXCEPT !.timing_info = 1, !.first_cprms = 1]},
    hevc_sps |-> {[Lowest("hevc_sps") EXCEPT !.log2_diff_cb = 1], [Lowest("hevc_sps") EXCEPT !.log2_diff_cb = 1,
                     !.extension = 1, !.short_term_rps = 2, !.num_short_term_ref_pic_sets = 2, !.long_term_present = 1]},
    hevc_pps |-> {Lowest("hevc_pps"), [Lowest("hevc_pps") EXCEPT !.extension = 1, !.range_flag = 1, !.range_extension = 1,
                     !.tiles_enabled = 1, !.tiles = 1]},
    hevc_vui |-> {Lowest("hevc_vui")},
    hevc_hrd |-> {[nal |-> n, vcl |-> 1, sub_pic |-> 0, fixed_general |-> 0, fixed_within |-> 0, elemental |-> 0, low_delay |-> 0,
                   cpb_cnt_minus1 |-> 0, nal_cpb |-> n, vcl_cpb |-> 1, sub_layers |-> 1,
                   given |-> [common |-> 1, sub_layers |-> 0, nal |-> 1, vcl |-> 1, sub_pic |-> 0]] : n \in Bit},
    hevc_ptl |-> {[profile |-> 0, level |-> 0, sub_layers |-> n, sub_layer_reserved_bits |-> 0, given |-> n] : n \in {0, 1, 6}},
    hevc_lists |-> {Lowest("hevc_lists")},
    hevc_list |-> {[first |-> 8, list |-> <<0, 0, 0>>]},
    hevc_rps |-> [delta : {-1}, flags : {<<"used", "used", "used", "used", "used">>}, ref : MCValues.hevc_rps.ref],
    hevc_slice |-> [first_segment : {1}, dependent : {0}, given : MCValues.hevc_slice.given]
]

H266Given == [
    h266_dpb |-> [max_sublayers_minus1 |-> 0, all |-> 0],
    h266_ols_hrd |-> [max_sublayers_val |-> 2, first_sublayer |-> 2, nal |-> 1, vcl |-> 0, du |-> 0, hrd_cpb_cnt_minus1 |-> 0],
    h266_rpl |-> [long_term |-> 1, inter_layer |-> 0, in_sps_list |-> 1, lsb_bits |-> 4],
    h266_ptl |-> [profile |-> 1, max_sublayers_minus1 |-> 0],
    h266_header |-> [lsb_bits |-> 4],
    h266_subpics |-> [w |-> 5, h |-> 3],
    h266_alf |-> [chroma_present |-> 1],
    h266_lmcs |-> [chroma_present |-> 1],
    h266_list |-> [id |-> 14, chroma_present |-> 1]
]

Given(k) == [f \in DOMAIN MCValues[k] |-> IF f = "given" THEN H266Given[k] ELSE Least(MCValues[k][f])]

OneLayer == <<Layer(<<>>)>>

H266Starts == [
    h266_dpb |-> {Given("h266_dpb")},
    h266_general_hrd |-> {Lowest("h266_general_hrd")},
    h266_ols_hrd |-> {[Given("h266_ols_hrd") EXCEPT !.nal_schedules = 1]},
    h266_rpl |-> {[Given("h266_rpl") EXCEPT !.entries = 2]},
    h266_ptl |-> {[Given("h266_ptl") EXCEPT !.profile = 1]},
    h266_opi |-> {Lowest("h266_opi")},
    h266_dci |-> {Lowest("h266_dci")},
    h266_aud |-> {Lowest("h266_aud")},
    h266_header |-> {Given("h266_header")},
    h266_subpics |-> {[Given("h266_subpics") EXCEPT !.num_subpics_minus1 = n - 1, !.entries = n, !.subpic_id_len_minus1 = 1] : n \in {2, 4}},
    h266_grid |-> [num_minus1 : 0 .. 5, first : [w : 0 .. 4, h : 0 .. 4], w : 1 .. 4, h : 1 .. 4],
    h266_sps |-> {[Lowest("h266_sps") EXCEPT !.pic_width = 64, !.pic_height = 64, !.chroma_format_idc = 1, !.qp_tables = 2,
                      !.qp_table_start_minus26 = 0, !.qp_points = 1, !.ptl = p, !.dpb = p] : p \in Bit}
                   \union {[Lowest("h266_sps") EXCEPT !.pic_width = 64, !.pic_height = 64, !.same_qp_table = 1, !.qp_table_start_minus26 = 0,
                              !.extension = 1, !.range_extension = 1, !.ladf = 1, !.vui = 1, !.vui_bytes = 1, !.affine = 1, !.gpm = 1,
                              !.virtual_boundaries_enabled = 1, !.virtual_boundaries_present = 1]},
    h266_pps |-> {[Lowest("h266_pps") EXCEPT !.pic_width = 1, !.qp_offset = 0, !.partition = 1, !.chroma_tool_offsets = c, !.deblocking = 1,
                      !.list = 1] : c \in Bit},
    h266_partition |-> [log2_ctu_size_minus5 : {0}, column_widths : {<<1>>}, row_heights : {<<1>>, <<2>>}, rect_slice_flag : {1},
                        single_slice_per_subpic_flag : {0}, num_slices_in_pic_minus1 : 0 .. 2, tile_idx_delta_present_flag : Bit,
                        rect_slices : Strings(Bit, 0 .. 5), given : {[w |-> 2, h |-> 2], [w |-> 2, h |-> 4]}],
    h266_tiles |-> [explicit : MCValues.h266_tiles.explicit, total : 1 .. 9, max : {2, 5, 30}],
    h266_slices |-> [codes : [1 .. 5 -> 0 .. 2],
                     given : [cols : 1 .. 3, rows : {<<1>>, <<3>>, <<1, 1>>, <<1, 2>>, <<2, 1, 1>>}, num : 1 .. 3, delta : {0}]]
                     \union [codes : [1 .. 7 -> {-1, 0, 1}], given : [cols : {2}, rows : {<<1, 1>>, <<1, 2>>}, num : 1 .. 3, delta : {1}]],
    h266_vps |-> {[f \in DOMAIN MCValues.h266_vps |->
                     CASE f = "layers" -> l [] f = "rows" -> IF m = 2 /\ l # OneLayer THEN <<[i \in DOMAIN l |-> IF i = Len(l) THEN 1 ELSE 0]>> ELSE <<>>
                       [] f = "all_independent" -> IF l = OneLayer THEN 1 ELSE 0
                       [] f = "each_layer_is_an_ols" -> IF l = OneLayer THEN 1 ELSE 0
                       [] f = "ols_mode_idc" -> IF l = OneLayer THEN 2 ELSE m
                       [] f \in {"default_max_tid", "ids_rise", "il_inferred", "first_pt_present", "ptls"} -> 1
                       [] f = "ptl_idxs" -> IF l = OneLayer THEN 1 ELSE IF m = 2 THEN 2 ELSE Len(l)
                       [] f \in {"dpbs", "ols_dpbs"} -> IF l = OneLayer THEN 0 ELSE IF m = 2 THEN 1 ELSE Len(l) - 1
                       [] f \in {"timing_hrd", "hrds"} -> IF l = OneLayer THEN 0 ELSE t
                       [] f = "hrd_idxs" -> IF l = OneLayer \/ t = 0 THEN 0 ELSE IF m = 2 THEN 1 ELSE Len(l) - 1
                       [] f = "dpb_idx" -> IF l # OneLayer /\ m = 1 THEN Len(l) - 2 ELSE 0
                       [] OTHER -> 0] : m \in {1, 2}, t \in Bit, l \in {OneLayer, OneLayer \o <<Layer(<<1>>)>>, OneLayer \o <<Layer(<<1>>), Layer(<<0, 1>>)>>}},
    h266_aps |-> {Lowest("h266_aps")},
    h266_alf |-> {Given("h266_alf"),
                  [Given("h266_alf") EXCEPT !.luma_flag = 1, !.luma = 1, !.luma_rows = 1, !.chroma_flag = 1, !.chroma = 1, !.chroma_rows = 1]},
    h266_lmcs |-> {Given("h266_lmcs")},
    h266_list |-> {[Given("h266_list") EXCEPT !.dc_coef = 0, !.given = g] : g \in MCValues.h266_list.given},
    h266_coefs |-> [list : MCValues.h266_coefs.list, dc : {-1, 0, 127}, skipped : {{}, {3}, {2, 3}}],
    h266_scan |-> [size : {2, 4, 8}]
]

Av1Starts == [
    av1_seq |-> {[Lowest("av1_seq") EXCEPT !.still_picture = r, !.reduced_still_picture_header = r, !.seq_force_screen_content_tools = 2 * r,
                    !.seq_force_integer_mv = 2, !.frame_width_bits = 16, !.frame_height_bits = 16, !.subsampling_x = 1, !.subsampling_y = 1,
                    !.given = [decoder_model |-> 0, points |-> 1, delay_bits |-> 5]] : r \in Bit}
                 \union {[Lowest("av1_seq") EXCEPT !.seq_profile = 2, !.bit_depth = 12, !.timing_info = 1, !.num_units_in_display_tick = 1, !.time_scale = 1,
                    !.seq_level_idx_0 = 8, !.frame_id_numbers_present_flag = 1, !.enable_order_hint = 1, !.order_hint_bits = 8, !.frame_width_bits = 16,
                    !.seq_force_screen_content_tools = 1, !.given = [decoder_model |-> 0, points |-> 1, delay_bits |-> 5]]},
    av1_meta |-> {[Lowest("av1_meta") EXCEPT !.metadata_type = t, !.scalability_mode_idc = 14, !.structure = IF t = 3 THEN 1 ELSE 0] : t \in 1 .. 6},
    av1_frame |-> {[Lowest("av1_frame") EXCEPT !.frame_type = t, !.show_frame = 1, !.width = 64, !.given = g] : t \in {0, 1, 2}, g \in MCAv1Context}
                  \union {[Lowest("av1_frame") EXCEPT !.frame_type = 1, !.segmentation_enabled = 1, !.primary_ref_frame = 7, !.width = 64, !.given = g] :
                               g \in {c \in MCAv1Context : c.screen_content = 2}},
    av1_refs |-> [bits : {4}, current : {0}, last : {0}, gold : {1, 5}, hints : {[s \in 0 .. 7 |-> IF s < 4 THEN f[s + 1] ELSE g[s - 3]] :
                     f \in [1 .. 4 -> {12, 13, 15, 0, 1, 3}], g \in {<<13, 13, 1, 1>>, <<14, 15, 2, 1>>, <<0, 0, 0, 0>>, <<15, 14, 13, 12>>}}],
    av1_skip |-> [refHints : [1 .. 7 -> {13, 15, 0, 2}] \union [1 .. 7 -> {14, 15, 1}]],
    av1_ids |-> {i \in [idBits : {4, 5}, diffBits : {2, 3}, current : 0 .. 31, id : 0 .. 31] : i.current < 2^i.idBits /\ i.id < 2^i.idBits},
    av1_tiles |-> [uniform : BOOLEAN, codes : {<<>>, <<1>>, <<1, 1>>, <<0, 1, 1>>, <<2, 0, 1, 0>>, <<0, 0, 0, 0, 0>>, <<3, 3, 3, 3>>, <<1, 1, 1, 1, 1, 1>>},
                   given : [cols : 1 .. 9, rows : {1, 2, 5, 9}, maxWidth : {3, 4}, maxArea : {9}, maxTiles : {4}]],
    av1_group |-> [start : 0 .. 3, at : 0 .. 2, fieldBytes : 1 .. 4, sizes : UNION {[1 .. n -> 1 .. 3] : n \in 1 .. 4}, missing : 0 .. 3],
    av1_recentered |-> [low : {-3, 0, 5}, size : 1 .. 12],
    av1_subexp |-> [symbols : 1 .. 70],
    av1_param |-> [index : 0 .. 5, first : [translation : BOOLEAN, precise : BOOLEAN, v : {0, 1, 2, 255, 256, 511, 512, 1023, 1024, 4095, 8190, 8191, 8192}],
                   next : [translation : BOOLEAN, precise : BOOLEAN]]
]

Vp9Starts == [
    vp9_key |-> {[Lowest("vp9_key") EXCEPT !.profile = p, !.bit_depth = 8, !.subsampling_x = 1, !.subsampling_y = 1, !.frame_size = 449, !.render_size = 449,
                    !.refresh_frame_flags = 255, !.segmentation_enabled = 1, !.update_data = 1, !.feature_enable = p, !.feature_data = 0, !.ref_delta = 0,
                    !.mode_delta = 0, !.base_q_idx = 0, !.delta_q = 0, !.compressed_header_size = 1, !.given = [all |-> a, feature |-> f]] :
                    <<p, a, f>> \in {<<0, 0, 0>>, <<1, 0, 2>>, <<1, 1, 1>>, <<1, 0, 3>>}}
                \union {[Lowest("vp9_key") EXCEPT !.profile = p, !.bit_depth = 8 + 2 * (p \div 2), !.color_space = 7, !.color_range = 1,
                           !.frame_size = 448, !.render_size = 448, !.refresh_frame_flags = 255, !.base_q_idx = 0, !.delta_q = 0,
                           !.ref_delta = 0, !.mode_delta = 0, !.feature_data = 0, !.compressed_header_size = 1, !.given = [all |-> 0, feature |-> 0]] : p \in 0 .. 3}
]

MCObus == {o \in [obu_type : {1, 15, 16}, extension_flag : BOOLEAN, has_size_field : {TRUE}, temporal_id : {0, 7, 8}, spatial_id : {0, 3, 4},
                  payload : {<<>>, <<0, 3>>, <<1, 1, 0, 0, 2, 0, 3>>, <<1, 2, 3, 1, 2, 3, 1, 2>>}] :
              o.temporal_id = 0 \/ o.spatial_id \in {0, 4}}

CodeStarts == [
    code_read |-> [code : {"u", "ue", "se", "su", "sm", "te", "ns", "uvlc", "le", "bytes"}, n : 0 .. 7,
                   r : [bits : Strings(Bit, {0, 2, 6}), pos : 0 .. 3]]
                  \union [code : {"ue", "se", "uvlc"}, n : {0}, r : [bits : Strings(Bit, {8, 10}), pos : {0}]],
    code_write |-> [code : {"u", "su", "sm", "le", "te", "ns", "bytes"}, n : 0 .. 7, v : 0 .. 17, before : {<<>>, <<1>>, <<0, 1>>}, after : {<<>>, <<1>>, <<0, 1>>}]
                   \union [code : {"su", "sm"}, n : 1 .. 7, v : -33 .. -1, before : {<<1>>}, after : {<<>>, <<1>>}]
                   \union [code : {"ue", "uvlc", "ns"}, n : {16, 17}, v : 0 .. 63, before : {<<0>>}, after : {<<>>, <<1>>}]
                   \union [code : {"se"}, n : {0}, v : -32 .. 32, before : {<<1>>}, after : {<<>>, <<1>>}],
    code_trailing |-> [data : Strings(Bit, 0 .. 5)],
    nal_bytes |-> [bytes : Strings(0 .. 3, 0 .. 5) \union Strings({0, 1, 3}, 6 .. 7)],
    nal_units |-> [rbsps : [1 .. 2 -> Strings({0, 1, 3}, 0 .. 3)], header : {1}, codes : [1 .. 2 -> {<<0, 0, 1>>, <<0, 0, 0, 1>>}]],
    sei_messages |-> [messages : Strings([type : {0, 2, 3, 7}, payload : {<<>>, <<0>>, <<2, 0>>, <<3, 3, 0>>, <<0, 2, 1, 0>>}], 0 .. 2)],
    obus |-> [obus : Strings(MCObus, 1 .. 1) \union {<<a, b>> : a \in {o \in MCObus : o.obu_type < 16}, b \in {o \in MCObus : o.obu_type = 1}}],
    ivf |-> [frames : Strings([timestamp : {0, 1, 4^7}, payload : {<<>>, <<0>>, <<3, 0, 0, 0, 0>>}], 0 .. 2)],
    bdus |-> [units : Strings([type : {0, 1, 3}, payload : {<<>>, <<0>>, <<1>>, <<0, 1>>, <<0, 0>>, <<3, 0, 0>>}], 0 .. 2), stuffing : {<<>>, <<0>>, <<3, 0>>}, slice : {1}],
    superframe |-> [frames : Strings({<<>>, <<1>>, <<0, 5>>, <<4>>, <<1, 2, 3, 1, 2>>}, 1 .. 3), width : 1 .. 4],
    obu_stream |-> [types : Strings({"sequence_header", "temporal_delimiter", "frame", "frame_header", "tile_group", "other"}, 0 .. 5)]
]

MCStarts == HevcAndH264Starts @@ H266Starts @@ Av1Starts @@ Vp9Starts @@ CodeStarts

\* Kinds that begin with every structure need no edit, the widest ones bear two.
MCMaxEdits == [k \in DOMAIN MCValues |->
    CASE k \in {"h266_grid", "h266_tiles", "h266_slices", "h266_coefs", "h266_scan", "av1_refs", "av1_skip", "av1_ids",
               "av1_tiles", "av1_group", "av1_recentered", "av1_subexp", "av1_param"} \union DOMAIN CodeValues -> 0
      [] k \in {"av1_frame", "h264_slice", "h266_partition"} -> 1
      [] k \in {"h266_sps", "h266_vps", "h266_pps", "h266_alf", "hevc_rps", "av1_seq", "vp9_key"} -> 2
      [] OTHER -> 3]
=============================================================================
