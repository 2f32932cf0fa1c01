CONSTANTS
    WordBits = 6
    ByteBits = 2
    LebBytes = 3
    Values <- MCValues
    Starts <- MCStarts
    MaxEdits <- MCMaxEdits
SPECIFICATION Spec
INVARIANTS
    H264SetsInverse
    HevcSetsInverse
    H266SetsInverse
    FrameHeadersInverse
    SetsPredicted
    OutputLayerSets
    ReferencesKept
    ParsersAgree
    PicturesPartitioned
    CodesInverse
    FramingInverse
CHECK_DEADLOCK FALSE
