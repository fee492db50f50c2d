SPECIFICATION RowSpec
CONSTANTS
    Parts = {"catalog", "gestures"}
    mail = mail
    notes = notes
    paint = paint
    Apps = {mail, notes}
    FirstPins <- TwoPins
    MaxChanges = 2
    MaxEdits = 2
    MaxEvents = 2
    MaxShows = 1
    MaxPending = 1
    Programs = {mail, notes, paint}
    NoTile = NoTile
    FirstPinned <- TwoPins
    MaxStrokes = 2
    MaxUpsets = 2
INVARIANTS
    RowShowsPins
    GesturesAreClean
    TilesCarryTheirPins
PROPERTIES
    DirtyRevealIsFresh
    RowCatchesUp
CHECK_DEADLOCK FALSE
