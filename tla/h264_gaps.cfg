SPECIFICATION FairSpec
CONSTANTS
    None = None
    PocLimit = 32
    SpsSet <- WindowSps
    Headers <- WindowHeaders
    MaxKey = 5
INVARIANTS
    KeysNameOneStore
    Type2FollowsDecoding
PROPERTIES
    CallsReturn
    ImplementsWindow
