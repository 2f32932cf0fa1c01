CONSTANTS
    Codecs = {"h264", "h264_counts", "hevc", "av1", "vp9"}
    NoSet = NoSet
    SpsContents <- SpsChoices
    PpsIds = {0, 1}
    H264Headers <- HeaderChoices
    MaxPictures = 3
    MaxSets = 1
    Missing = Missing
    HevcPpsIds = {0, 1}
    MaxHevcPictures = 3
    MaxHevcSets = 2
    MaxSegments = 3
    Slots = {0, 1, 2}
    Av1Frames <- FrameChoices
    Vp9Slots = {0, 1}
    Vp9Profiles = {0, 1}
    Vp9Frames <- Vp9Choices
    MaxVp9Frames = 4
    HintBits = 3
    IdBits = 3
    DeltaIdBits = 1
    MaxAv1Frames = 4
    None = None
    PocLimit = 16
    SyncSps <- FourCycle
    Deltas <- BottomDeltas
    Span = 3
SPECIFICATION FrontEndsSpec
INVARIANTS
    NoPictureBeginsTwice
    EveryPictureBegins
    ParsedWithTheirSets
    CompletedBehindFirst
    SlotsInStep
    HintsVouch
    CountsAgree
PROPERTIES
    IndependentFramesAsMeant
CHECK_DEADLOCK FALSE
