SPECIFICATION Spec
CONSTANTS
    Records = {1, 2, 3, 4}
    RootRecord = 1
    FirstUserRecord = 3
    Names <- AllNames
    RootName <- Root
    DepthCap = 6
    FreeDepth = 1
    WasteBytes = 3
    Wrap = 2
    Plans <- BuildAndUpdate
INVARIANTS
    IndexIsConsistent
    RankedRegionDescends
    ExcludedIsUnlisted
PROPERTY
    SlotsChangeGeneration
