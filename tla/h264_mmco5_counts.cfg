SPECIFICATION Spec
CONSTANTS
    None = None
    PocLimit = 16
    SpsSet <- RefreshSps
    Headers <- RefreshHeaders
    MaxKey = 2
INVARIANTS
    Mmco5CountsFit
