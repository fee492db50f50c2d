SPECIFICATION PanelsSpec
CONSTANTS
    Texts = {t1}
    Blank = Blank
    Key = Key
    Model = Model
    MaxAsks = 2
    MaxImages = 2
    MaxApps = 1
    MaxTogether = 2
    BtScenes <- MCBtScenes
    SlowDriver = FALSE
    MaxMoves = 1
    MaxRetries = 3
    MaxFaults = 1
INVARIANTS
    KeyStaysInEntry
    StreamsAreOwned
    WaitsForAnImage
    RestingPanelAgrees
    LinkIsConsistent
PROPERTIES
    AnswerIsShown
    PanelCatchesUp
CHECK_DEADLOCK FALSE
