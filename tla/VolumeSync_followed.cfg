SPECIFICATION SyncSpec
CONSTANTS
    Records = {1, 2, 3, 4, 5, 6}
    RootRecord = 1
    FirstUserRecord = 2
    Names <- ThreeNames
    RootName <- Root
    DepthCap = 8
    FreeDepth = 1
    WasteBytes = 4
    Wrap = 2
    Home = 2
    Plans <- Followed
INVARIANTS
    IndexFollowsVolume
