CONSTANTS
    WordBits = 6
    ByteBits = 2
    LebBytes = 3
    Values <- MCValues
    Starts <- MCStarts
    MaxEdits <- MCMaxEdits
SPECIFICATION Spec
INVARIANTS
    PartitionsInverse
CHECK_DEADLOCK FALSE
