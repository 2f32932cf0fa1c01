------------------------------ MODULE Vp9Syntax ------------------------------
(***************************************************************************)
(* The uncompressed header of a VP9 key frame: its parser and its writer   *)
(* in src/vp9.rs, and the parser of src/vp9/frame.rs where it reads a key  *)
(* frame otherwise.                                                        *)
(*                                                                         *)
(* One size stands for width and height, one delta, probability and        *)
(* segmentation feature for those of its array.  A value at its sentinel   *)
(* need not be coded: the writer never does it, in streams (all is 1 in    *)
(* what the parser is given) it may be coded all the same.                 *)
(***************************************************************************)
LOCAL INSTANCE Syntax
LOCAL INSTANCE Integers
LOCAL INSTANCE Sequences
LOCAL INSTANCE SequencesExt

KeyFrameType == 0
Rgb == 7            \* CS_RGB
NotCoded == 255     \* the probability that is not coded

\* A value behind a flag that says whether it is coded.
Optional(v, all, sentinel, element) ==
    Coded("if_coded", 1, <<element.name>>) \o When(all = 1 \/ v[element.name] # sentinel, <<element>>)
Signed(n, name) == Coded("su", n, <<name>>)[1]
Prob(name) == Coded("prob", 8, <<name>>)[1]

\* What n bits with a sign bit hold of x.
InSigned(n, x) == IF x < 0 THEN -((-x) % 2^n) ELSE x % 2^n
FitsSigned(n, x) == -2^n < x /\ x < 2^n

-----------------------------------------------------------------------------
(* color_config *)

Sampled(v) == v.profile \in {1, 3}

ColorReads(v) ==
    When(v.profile >= 2, Count(1, "bit_depth")) \o U(3, <<"color_space">>)
      \o When(v.color_space # Rgb, Flags(<<"color_range">>) \o When(Sampled(v), Flags(<<"subsampling_x", "subsampling_y">>)))
      \o When(Sampled(v), Flags(<<"reserved_zero">>))

ColorWrites(v) ==
    When(v.profile \in {2, 3}, Count(1, "bit_depth")) \o U(3, <<"color_space">>)
      \o (IF v.color_space = Rgb THEN Flags(<<"reserved_zero">>)
          ELSE Flags(<<"color_range">>)
                 \o When(Sampled(v), Flags(<<"subsampling_x", "subsampling_y", "reserved_zero">>)))

\* What is not coded is inferred.
ColorImplied(v) ==
    LET depth   == IF v.profile < 2 THEN 8 ELSE IF v.bit_depth = 12 THEN 12 ELSE 10
        fixed(s) == [v EXCEPT !.bit_depth = depth, !.subsampling_x = s, !.subsampling_y = s]
    IN  IF v.color_space = Rgb THEN [fixed(0) EXCEPT !.color_range = 1]
        ELSE IF Sampled(v) THEN [v EXCEPT !.bit_depth = depth]
        ELSE fixed(1)

\* The complete parser has no RGB in the profiles without sampling.
FullColorRejects(v) == v.color_space = Rgb /\ ~Sampled(v)

ColorRefuses(v) ==
    \/ v.profile \in {0, 1} /\ v.bit_depth # 8
    \/ v.profile \in {2, 3} /\ v.bit_depth \notin {10, 12}
    \/ v.color_space > 7
    \/ IF v.color_space = Rgb
         THEN v.color_range = 0 \/ v.subsampling_x = 1 \/ v.subsampling_y = 1 \/ ~Sampled(v)
         ELSE ~Sampled(v) /\ (v.subsampling_x = 0 \/ v.subsampling_y = 0)

-----------------------------------------------------------------------------
(* frame_size, render_size, and the frame contexts *)

Size(name) == Coded("minus1", 16, <<name>>)
SizeReads(v) == Size("frame_size") \o Gated(v, "render_size_present", Size("render_size"))
InSize(x) == ((x - 1) % 2^16) + 1

SizeImplied(v) ==
    LET frame == InSize(v.frame_size)
    IN  [v EXCEPT !.frame_size = frame,
                  !.render_size = IF v.render_size_present = 1 THEN InSize(v.render_size) ELSE frame]

SizeRefuses(v) ==
    \/ v.frame_size \notin 1 .. 2^16
    \/ IF v.render_size_present = 1 THEN v.render_size \notin 1 .. 2^16 ELSE v.render_size # v.frame_size

ContextReads(v) ==
    When(v.error_resilient_mode = 0, Flags(<<"refresh_frame_context", "frame_parallel_decoding_mode">>))
      \o U(2, <<"coded_frame_context_idx">>)

\* A key frame refreshes every slot and resets its context.
ContextImplied(v) ==
    LET key == [v EXCEPT !.refresh_frame_flags = 255, !.intra_only = 0, !.frame_context_idx = 0]
    IN  IF v.error_resilient_mode = 1
          THEN [key EXCEPT !.refresh_frame_context = 0, !.frame_parallel_decoding_mode = 1] ELSE key

ContextRefuses(v) ==
    \/ v.refresh_frame_flags # 255 \/ v.intra_only = 1 \/ v.frame_context_idx # 0
    \/ v.error_resilient_mode = 1 /\ (v.refresh_frame_context = 1 \/ v.frame_parallel_decoding_mode = 0)
    \/ v.coded_frame_context_idx > 3

-----------------------------------------------------------------------------
(* loop filter, quantization, segmentation *)

AnyDelta(v) == v.ref_delta # 0 \/ v.mode_delta # 0

LoopFilterCodes(v, all) ==
    U(6, <<"loop_filter_level">>) \o U(3, <<"loop_filter_sharpness">>)
      \o Gated(v, "mode_ref_delta_enabled",
               Coded("if_any", 1, <<"mode_ref_delta_update">>)
                 \o When(all = 1 \/ AnyDelta(v),
                         Optional(v, all, 0, Signed(6, "ref_delta")) \o Optional(v, all, 0, Signed(6, "mode_delta"))))

LoopFilterRefuses(v) ==
    \/ v.loop_filter_level > 63 \/ v.loop_filter_sharpness > 7
    \/ v.mode_ref_delta_enabled = 0 /\ AnyDelta(v)
    \/ ~FitsSigned(6, v.ref_delta) \/ ~FitsSigned(6, v.mode_delta)

QuantCodes(v, all) == U(8, <<"base_q_idx">>) \o Optional(v, all, 0, Signed(4, "delta_q"))
QuantRefuses(v) == v.base_q_idx \notin 0 .. 255 \/ ~FitsSigned(4, v.delta_q)

\* Bits of the features: quantizer, loop filter, reference frame, skip.
FeatureBits(v) == <<8, 6, 2, 0>>[v.given.feature + 1]
FeatureSigned(v) == v.given.feature < 2

SegmentationCodes(v, all) ==
    Gated(v, "segmentation_enabled",
          Gated(v, "update_map",
                Optional(v, all, NotCoded, Prob("tree_prob"))
                  \o Gated(v, "temporal_update", Optional(v, all, NotCoded, Prob("pred_prob"))))
            \o Gated(v, "update_data",
                     Flags(<<"abs_or_delta_update">>)
                       \o Gated(v, "feature_enable",
                                <<IF FeatureSigned(v) THEN Signed(FeatureBits(v), "feature_data")
                                  ELSE U(FeatureBits(v), <<"feature_data">>)[1]>>)))

\* Without an update of the map the probabilities stay as the structure was made.
SegmentationImplied(v) ==
    LET map == v.segmentation_enabled = 1 /\ v.update_map = 1
        kept(x) == IF map THEN x % 256 ELSE 0
    IN  [v EXCEPT !.tree_prob = kept(v.tree_prob),
                  !.pred_prob = IF map /\ v.temporal_update = 0 THEN NotCoded ELSE kept(v.pred_prob),
                  !.feature_data = IF FeatureSigned(v) THEN InSigned(FeatureBits(v), v.feature_data)
                                   ELSE v.feature_data % 2^FeatureBits(v)]

\* What the writer does not look at when it does not code it.
SegmentationFits(v) ==
    /\ v.segmentation_enabled = 0 => v.update_map = 0 /\ v.update_data = 0
    /\ v.update_map = 0 => v.temporal_update = 0 /\ v.tree_prob = 0 /\ v.pred_prob = 0
    /\ v.update_data = 0 => v.abs_or_delta_update = 0 /\ v.feature_enable = 0 /\ v.feature_data = 0

SegmentationRefuses(v) ==
    /\ v.segmentation_enabled = 1
    /\ \/ v.update_map = 1 /\ v.temporal_update = 0 /\ v.pred_prob # NotCoded
       \/ v.update_data = 1 /\
            IF v.feature_enable = 0 THEN v.feature_data # 0
            ELSE IF FeatureSigned(v) THEN ~FitsSigned(FeatureBits(v), v.feature_data)
            ELSE v.feature_data \notin 0 .. 2^FeatureBits(v) - 1

-----------------------------------------------------------------------------
(* tile_info: a column of tiles is 4 to 64 blocks of 64 wide *)

DivUp(a, b) == (a + b - 1) \div b
Blocks64(v) == DivUp(DivUp(v.frame_size, 8), 8)
Exponents == 0 .. 16

MinLog2(blocks) == CHOOSE n \in Exponents : 64 * 2^n >= blocks /\ \A m \in 0 .. n - 1 : 64 * 2^m < blocks
MaxLog2(blocks) ==
    CHOOSE n \in Exponents : blocks \div 2^(n + 1) < 4 /\ \A m \in 0 .. n - 1 : blocks \div 2^(m + 1) >= 4

\* parse_frame counts the exponent of the widest up by itself and takes one off.
FullMaxLog2(blocks) ==
    (CHOOSE n \in Exponents \ {0} : blocks \div 2^n < 4 /\ \A m \in 1 .. n - 1 : blocks \div 2^m >= 4) - 1

TileCodes(v, max) ==
    Times(v.log2_tile_cols - MinLog2(Blocks64(v)), Coded("increment", 1, <<"log2_tile_cols">>))
      \o When(v.log2_tile_cols < max, Coded("stop", 1, <<"log2_tile_cols">>))
      \o Coded("rows", IF v.log2_tile_rows = 0 THEN 1 ELSE 2, <<"log2_tile_rows">>)
TileReads(v) == TileCodes(v, MaxLog2(Blocks64(v)))
FullTileReads(v) == TileCodes(v, FullMaxLog2(Blocks64(v)))

TileImplied(v) ==
    LET min == MinLog2(Blocks64(v))
        max == MaxLog2(Blocks64(v))
    IN  [v EXCEPT !.log2_tile_cols = IF @ < min THEN min ELSE IF @ > max THEN max ELSE @,
                  !.log2_tile_rows = IF @ > 2 THEN 2 ELSE @]

TileRefuses(v) ==
    \/ v.log2_tile_cols \notin MinLog2(Blocks64(v)) .. MaxLog2(Blocks64(v))
    \/ v.log2_tile_rows > 2

-----------------------------------------------------------------------------
(* uncompressed_header *)

StartReads(v) ==
    U(2, <<"profile">>) \o When(v.profile = 3, Flags(<<"reserved_zero">>))
      \o Flags(<<"show_existing_frame", "frame_type", "show_frame", "error_resilient_mode">>)

\* Up to the tiles, which each parser derives by itself.
BeforeTiles(v) ==
    StartReads(v) \o U(24, <<"sync_code">>) \o ColorReads(v) \o SizeReads(v) \o ContextReads(v)
      \o LoopFilterCodes(v, v.given.all) \o QuantCodes(v, v.given.all) \o SegmentationCodes(v, v.given.all)

HeaderReads(v) == BeforeTiles(v) \o TileReads(v) \o U(16, <<"compressed_header_size">>)
FullHeaderReads(v) == BeforeTiles(v) \o FullTileReads(v) \o U(16, <<"compressed_header_size">>)

HeaderRejects(v) == v.show_existing_frame = 1 \/ v.frame_type # KeyFrameType

\* Of the key frames that the other one returns.
FullHeaderRejects(v) == FullColorRejects(v) \/ v.compressed_header_size = 0

HeaderImplied(elements, v) ==
    LET filtered == [v EXCEPT !.ref_delta = InSigned(6, @), !.mode_delta = InSigned(6, @), !.delta_q = InSigned(4, @)]
    IN  TileImplied(SegmentationImplied(ContextImplied(SizeImplied(ColorImplied(filtered)))))

HeaderWrites(v) ==
    StartReads(v) \o U(24, <<"sync_code">>) \o ColorWrites(v) \o SizeReads(v) \o ContextReads(v)
      \o LoopFilterCodes(v, 0) \o QuantCodes(v, 0) \o SegmentationCodes(v, 0) \o TileReads(v)
      \o U(16, <<"compressed_header_size">>)

HeaderRefuses(v) ==
    \/ v.show_existing_frame = 1 \/ v.frame_type # KeyFrameType \/ v.profile > 3
    \/ ColorRefuses(v) \/ SizeRefuses(v) \/ ContextRefuses(v) \/ LoopFilterRefuses(v)
    \/ QuantRefuses(v) \/ SegmentationRefuses(v) \/ TileRefuses(v)
    \/ v.compressed_header_size > 65535

=============================================================================
