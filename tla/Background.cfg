SPECIFICATION BackgroundSpec
CONSTANTS
    Parts = {"worker", "hotkey", "update", "access", "media"}
    p1 = p1
    p2 = p2
    MaxJobs = 4
    EventCreated = FALSE
    MaxFocusChanges = 4
    MaxVersion = 2
    MaxDay = 2
    MaxStarts = 2
    MaxToggles = 1
    MaxCrashes = 1
    MaxMischief = 3
    SlowExit = FALSE
    Letters <- MCLetters
    Tokens <- MCTokens
    Batches = 2
    PipeRoom = 2
    MaxFailures = 2
    MaxDocks = 2
    Players <- MCPlayers
    NoPlayer = NoPlayer
    Toggling = {p1}
    Scenes <- MCMusic
    MaxPresses = 2
INVARIANTS
    BackgroundTypeOK
    ChordFollowsFocus
    LoopIsBounded
    IndexIsOfOneAttempt
    ClicksAreKept
PROPERTIES
    KeepsPromise
    ThreadsDeliver
    UpdatesEndWell
CHECK_DEADLOCK FALSE
