SPECIFICATION SurfacesSpec
CONSTANTS
    None = None
    PocLimit = 64
    SpsSet <- GapSps
    Headers <- GapHeaders
    MaxKey = 4
    ClearsAfterError = TRUE
INVARIANTS
    SurfacesAccounted
    ShortcutEqualsWalk
