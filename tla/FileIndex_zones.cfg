SPECIFICATION Spec
CONSTANTS
    Records = {1, 3, 4, 5}
    RootRecord = 1
    FirstUserRecord = 3
    Names <- AllNames
    RootName <- Root
    DepthCap = 6
    FreeDepth = 1
    WasteBytes = 3
    Wrap = 2
    Plans <- Zoned
INVARIANT
    ZonesAreInherited
