SPECIFICATION Spec
CONSTANTS
    None = None
    PocLimit = 64
    MaxPics = 16
    SyncSps <- FourCycle
    Profiles <- AllProfiles
    EncoderRefs = 2
INVARIANTS
    CountsAgree
    ReferencesAgree
    SkipsExactly
