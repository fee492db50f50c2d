SPECIFICATION DockSpec
CONSTANTS
    Parts = {"reveal", "taskbar", "boost"}
    h1 = h1
    h2 = h2
    k2 = k2
    o1 = o1
    a1 = a1
    m1 = m1
    m2 = m2
    Pixels = {h1, h2, k2, o1, a1}
    NoPixel = NoPixel
    Monitors = {m1, m2}
    NoMonitor = NoMonitor
    PlaceOf <- MCPlaceOf
    MonitorOf <- MCMonitorOf
    Scenes <- MCScenes
    SamePixel = FALSE
    MaxStill = 1
    Bars = {1, 2}
    Primary = 1
    Tempers <- MCTempers
    MultiBefore = {"on"}
    CalmPasses = 2
    WakePasses = 2
    MaxTrouble = 4
    Pids = {1, 2}
    Tables <- MCTables
    MaxChanges = 2
INVARIANTS
    DockTypeOK
    OverlayFollowsDock
    TargetsAreRespected
    ReportedAreGone
PROPERTIES
    PointerIsHeeded
    RestsAgain
    QuitGivesBack
CHECK_DEADLOCK FALSE
