------------------------------- MODULE FrontEnds -------------------------------
(***************************************************************************)
(* The front ends a decoder keeps between two NAL units or OBUs: H264Parser,*)
(* HevcParser, Av1RefState, Vp9State and the counts of PocState.  A program *)
(* opens a stream of one codec; what the front end of that codec holds then *)
(* changes with every unit, and the others stay as they were made.          *)
(***************************************************************************)
EXTENDS H264Stream, HevcStream, Av1RefState, Vp9RefState, H264PocSync

CONSTANT Codecs     \* of "h264", "h264_counts", "hevc", "av1" and "vp9"

ASSUME CodecsAssumption == Codecs \subseteq {"h264", "h264_counts", "hevc", "av1", "vp9"}

VARIABLE codec      \* of the stream that was opened
frontEndVars == <<codec, h264StreamVars, hevcStreamVars, av1Vars, vp9Vars, pocSyncVars>>

Opened(c, step, others) == codec = c /\ step /\ UNCHANGED <<codec, others>>
H264Step(step) == Opened("h264", step, <<hevcStreamVars, av1Vars, vp9Vars, pocSyncVars>>)
HevcStep(step) == Opened("hevc", step, <<h264StreamVars, av1Vars, vp9Vars, pocSyncVars>>)
Av1Step(step)  == Opened("av1", step, <<h264StreamVars, hevcStreamVars, vp9Vars, pocSyncVars>>)
Vp9Step(step)  == Opened("vp9", step, <<h264StreamVars, hevcStreamVars, av1Vars, pocSyncVars>>)
CountsStep(step) == Opened("h264_counts", step, <<h264StreamVars, hevcStreamVars, av1Vars, vp9Vars>>)

\* Only the stream that was opened may be configured out of band.
FrontEndsInit ==
    /\ codec \in Codecs
    /\ H264StreamInit /\ HevcStreamInit /\ Av1Init /\ Vp9Init /\ PocSyncInit
    /\ codec # "vp9" => vp9Profile = CHOOSE p \in Vp9Profiles : TRUE
    /\ codec # "h264" => sentSps = NoSet
    /\ codec # "hevc" => wroteSps = Missing /\ frame.pps = CHOOSE id \in HevcPpsIds : TRUE

FrontEndsNext ==
    \/ H264Step(SendSps)
    \/ H264Step(SendPps)
    \/ H264Step(Configure)
    \/ H264Step(SendDelimiter)
    \/ H264Step(StartPicture)
    \/ H264Step(ContinuePicture)
    \/ H264Step(EndPicture)
    \/ HevcStep(SendHevcSps)
    \/ HevcStep(SendHevcPps)
    \/ HevcStep(ConfigureHevc)
    \/ HevcStep(SendEnd)
    \/ HevcStep(StartFrame)
    \/ HevcStep(ContinueFrame)
    \/ \E c \in Av1Frames : Av1Step(HandleFrame(c))
    \/ \E c \in Av1Frames : Av1Step(RefuseFrame(c))
    \/ \E c \in Av1Frames : Av1Step(LoseFrame(c))
    \/ \E s \in Slots : Av1Step(ShowExisting(s))
    \/ \E s \in Slots : Av1Step(RefuseShown(s))
    \/ \E c \in Vp9Frames : Vp9Step(DecodeFrame(c))
    \/ \E c \in Vp9Frames : Vp9Step(RefuseVp9Frame(c))
    \/ \E c \in Vp9Frames : Vp9Step(LoseVp9Frame(c))
    \/ \E s \in Vp9Slots : Vp9Step(ShowSlot(s))
    \/ CountsStep(PocSyncNext)

FrontEndsSpec == FrontEndsInit /\ [][FrontEndsNext]_frontEndVars

\* What a parser makes of a slice or a segment it makes with the parameter sets the
\* encoder wrote it with, however often sets were replaced, lost or sent too early.
ParsedWithTheirSets == ParsedWithItsSets /\ SegmentsWithTheirSets

\* Of AV1 and of VP9: what lost and refused frames did not touch, the decoder keeps as
\* the encoder means it, and reads every header that takes nothing else.
SlotsInStep == StaysInStep /\ Vp9StaysInStep

=============================================================================
