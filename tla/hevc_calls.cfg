SPECIFICATION Spec
CONSTANTS
    None = None
    PocLimit = 8
    MaxPics = 2
    SpsSet <- FourCycle
    Headers <- McHeaders
    MaxKey = 4
INVARIANTS
    BoundHolds
    SurfacesExact
    ListsMatchMarking
    RefListsServe
PROPERTIES
    MarkingOnlyWeakens
