SPECIFICATION Spec
CONSTANTS
    None = None
    PocLimit = 64
    SpsSet <- ListSps
    Headers <- ListHeaders
    Slices <- ListSlices
    MaxKey = 3
INVARIANTS
    SecondFieldFits
    LongTermIdxUnique
    RefreshIsolates
    CapacityHolds
    InitialListsAsMeant
    ModificationAsMeant
PROPERTIES
    MarkingOnlyWeakens
