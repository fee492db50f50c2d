---------------------------- MODULE DockGestures ----------------------------
(***************************************************************************)
(* What the buttons of the mouse do to the tiles of the dock               *)
(* (DockApp.cpp): a press opens its tile, a drag moves a pin, the          *)
(* separator scales the dock, a right click opens a menu that pins and     *)
(* unpins, while a worker replaces the shelf of tiles under all of them.   *)
(* A release has two messengers, the window that holds the capture and the *)
(* low-level hook; what it does is posted once more, to leave the hook's   *)
(* thread free. What is posted is handled before input, timers last.       *)
(* The record `hand` holds the members of a gesture; a handler composes    *)
(* functions on it as the code does. Tiles are numbered from 1; 0 is the   *)
(* code's -1. A tile of the tray stands for every slot of it.              *)
(***************************************************************************)
EXTENDS Naturals, FiniteSets, SequencesExt

CONSTANTS
    Programs, NoTile,
    FirstPinned,            \* the pins of the configuration
    MaxStrokes,             \* presses of the left button
    MaxUpsets               \* what disturbs a gesture, menus included

\* The import of the pins drops duplicates (AppendUniquePin of DockConfig.cpp).
ASSUME GesturesAreBounded ==
    /\ IsFiniteSet(Programs) /\ MaxStrokes \in Nat \ {0} /\ MaxUpsets \in Nat
    /\ FirstPinned \in Seq(Programs)
    /\ \A i, j \in DOMAIN FirstPinned : i # j => FirstPinned[i] # FirstPinned[j]
    /\ (Programs \cup {NoTile}) \cap {"start", "search", "trash", "power", "clock", "divider"} = {}
    /\ NoTile \notin Programs

VARIABLES
    pinned,    \* Config.Pins()
    shelf,     \* m_displayApps: what a tile shows and the pin it stands for
    live,      \* the programs the shelf knows a window of
    battery,   \* the tray shows the power slot
    hand,
    menu,      \* the context menu: its tile and that tile's pin when it opened
    down,      \* the left button is down
    posts,     \* posted: a release, or what a release does
    release,   \* the release is in the input queue of the dock
    raised,    \* the dock is up
    lost,      \* neither messenger took the last release
    asked,     \* the tile under the last press
    deeds,     \* what that press did
    strokes, upsets

gestureVars == <<pinned, shelf, live, battery, hand, menu, down, posts,
                 release, raised, lost, asked, deeds, strokes, upsets>>

Special == {"start", "search"}
Tray == {"trash", "power", "clock"}
TileNames == Programs \cup Special \cup Tray \cup {"divider"}
Branches == {"scaled", "dropped", "clicked"}

\* m_pressedIcon and its target, m_draggedIcon (its target is the same),
\* m_scalingDivider, m_dragSnapAnimating, m_suppressDragUntilRelease, the
\* ghost window, the capture, and more than the stall limit without a sample.
Hand ==
    [pressed : Nat, target : TileNames \cup {NoTile}, dragged : Nat,
     scaling : BOOLEAN, snap : BOOLEAN, suppress : BOOLEAN, ghost : BOOLEAN,
     capture : BOOLEAN, lapse : BOOLEAN]

GesturesTypeOK ==
    /\ pinned \in Seq(Programs) /\ live \subseteq Programs
    /\ shelf \in Seq([tile : TileNames, pin : Nat])
    /\ hand \in Hand
    /\ menu \in [open : BOOLEAN, tile : TileNames \cup {NoTile}, pin : Nat]
    /\ posts \in Seq({"up"} \cup Branches)
    /\ {battery, down, release, raised, lost} \subseteq BOOLEAN
    /\ asked \in TileNames \cup {NoTile} /\ deeds \in Seq(TileNames)
    /\ strokes \in 0 .. MaxStrokes /\ upsets \in 0 .. MaxUpsets

-----------------------------------------------------------------------------
(* The shelf.                                                              *)

Tile(t) == [tile |-> t, pin |-> 0]
Fixed == <<Tile("start"), Tile("search")>>
OfPins(p) == [i \in 1 .. Len(p) |-> [tile |-> p[i], pin |-> i]]
Behind(rest) ==
    IF rest = <<>> THEN <<>>
    ELSE <<Tile("divider")>> \o [i \in 1 .. Len(rest) |-> Tile(rest[i])]
Row(p, rest) == Fixed \o OfPins(p) \o Behind(rest)

\* The sequences that list a set once, in any order; those of numbers, upwards.
Listings(S) == {f \in [1 .. Cardinality(S) -> S] : \A i, j \in DOMAIN f : i # j => f[i] # f[j]}
Upwards(S) == {f \in [1 .. Cardinality(S) -> S] : \A i, j \in DOMAIN f : i < j => f[i] < f[j]}

\* Rows of pins p with the tiles of the shelf that still have a window and are not
\* in p, in the order they had (ApplyPinUnpinLayoutChange).
LooseAt(p, l) == {i \in DOMAIN shelf : shelf[i].tile \in l \ ToSet(p)}
Loose(p, l) == {[i \in DOMAIN f |-> shelf[f[i]].tile] : f \in Upwards(LooseAt(p, l))}
Spliced(p) == {Row(p, kept) : kept \in Loose(p, live)}

\* BuildDisplayAppsSnapshot: these first, then the new windows as they lie.
Opened(l) == l \ (ToSet(pinned) \cup {shelf[i].tile : i \in LooseAt(pinned, l)})
Rebuilt(l) ==
    {Row(pinned, kept \o opened) : kept \in Loose(pinned, l), opened \in Listings(Opened(l))}

\* The tiles of the tray follow; a hit counts through both.
Slots == IF battery THEN <<"trash", "power", "clock">> ELSE <<"trash", "clock">>
Shown == [i \in 1 .. Len(shelf) |-> shelf[i].tile] \o Slots

\* IsPersistentDisplayIcon, m_dividerIndex (or the end), InsertionIndexForDrag.
IsPin(r, i) == i \in DOMAIN r /\ r[i].pin > 0
Movable == CHOOSE n \in 1 .. Len(shelf) + 1 :
    /\ n = Len(shelf) + 1 \/ shelf[n].tile = "divider"
    /\ \A i \in 1 .. n - 1 : shelf[i].tile # "divider"
Insertions == (3 .. Movable) \ {hand.dragged}

-----------------------------------------------------------------------------
(* The members of a gesture.                                               *)

DragActive(h) == h.dragged > 0 \/ h.snap \/ h.scaling

ClearPress(h) ==
    [h EXCEPT !.pressed = 0, !.target = NoTile, !.dragged = 0, !.scaling = FALSE,
              !.snap = FALSE, !.ghost = @ /\ ~(h.dragged > 0 \/ h.snap)]
Suppressed(h) == [h EXCEPT !.suppress = TRUE]

\* WM_CAPTURECHANGED, sent within ReleaseCapture.
CaptureChanged(h) == IF DragActive(h) THEN h ELSE ClearPress(h)
LetGo(h) == IF h.capture THEN CaptureChanged([h EXCEPT !.capture = FALSE]) ELSE h

\* RemapInteractionAfterLayoutChange: both indices follow the target.
At(r, t) == IF \E i \in DOMAIN r : r[i].tile = t
            THEN CHOOSE i \in DOMAIN r : r[i].tile = t ELSE 0
Dropped(h) == [Suppressed(ClearPress(LetGo(h))) EXCEPT !.ghost = FALSE]
\* A mutant: the indices stay where they were.
MutRemap(h, r) == h
Remap(h, r) ==
    LET i == At(r, h.target)
    IN  IF h.pressed = 0 THEN h
        ELSE IF IsPin(r, i) \/ h.target \in Special
             THEN [h EXCEPT !.pressed = i, !.dragged = IF @ > 0 THEN i ELSE 0]
             ELSE Dropped(h)

\* AdvanceDragSnapBack, the last frame; BeginHide, what concerns the gesture.
SnappedBack(h) == [ClearPress([h EXCEPT !.ghost = FALSE]) EXCEPT !.snap = FALSE]
Hidden(h) == [ClearPress(LetGo(h)) EXCEPT !.ghost = FALSE]

-----------------------------------------------------------------------------
(* Input of the dock: only when nothing posted waits, and the dock is up.  *)

Kept == UNCHANGED <<pinned, shelf, live, battery, raised>>
Done == UNCHANGED <<lost, asked, deeds, strokes>>
Input == posts = <<>> /\ ~release /\ raised
NoMenu == [open |-> FALSE, tile |-> NoTile, pin |-> 0]

\* A button goes down: the hook closes the menu first, unless the system did not
\* wait for it.
HookSeesPress ==
    \/ menu' = NoMenu /\ UNCHANGED upsets
    \/ menu.open /\ upsets < MaxUpsets /\ upsets' = upsets + 1 /\ UNCHANGED menu

\* WM_LBUTTONDOWN. The separator is hit first, in its padding too.
Pressed(i) ==
    LET h == ClearPress(hand)
    IN  IF i \in DOMAIN Shown /\ Shown[i] = "divider"
        THEN [h EXCEPT !.scaling = TRUE, !.capture = TRUE]
        ELSE IF i = 0 THEN h
        ELSE [h EXCEPT !.pressed = i, !.capture = TRUE, !.suppress = FALSE, !.lapse = FALSE,
                       !.target = IF i \in DOMAIN shelf THEN shelf[i].tile ELSE NoTile]
Press(i) ==
    /\ Input /\ ~down /\ strokes < MaxStrokes
    /\ hand' = Pressed(i)
    /\ down' = TRUE /\ strokes' = strokes + 1 /\ deeds' = <<>>
    /\ asked' = IF i = 0 THEN NoTile ELSE Shown[i]
    /\ lost' = FALSE
    /\ HookSeesPress
    /\ UNCHANGED <<posts, release>> /\ Kept

\* BeginDrag, of a pin the button holds.
BeginDragOf(h) == [h EXCEPT !.dragged = h.pressed, !.ghost = TRUE]

\* WM_MOUSEMOVE with a tile pressed. HandlePointer takes a sample before the
\* stall is judged, so the judgement finds none; off the dock it hides the dock.
Judged(h) == IF h.lapse THEN Suppressed(ClearPress(h)) ELSE h
Sampled(h) == [h EXCEPT !.lapse = FALSE]
DragStarts ==
    /\ Input /\ down /\ hand.pressed > 0 /\ ~DragActive(hand)
    /\ LET h == Judged(Sampled(hand))
       IN  IsPin(shelf, h.pressed) /\ ~h.suppress /\ hand' = BeginDragOf(h)
    /\ UNCHANGED <<menu, down, posts, release, upsets>> /\ Done /\ Kept

\* BeginHide: the pointer left, or another part of the dock called it. Its window
\* no longer gets input, and its slide drops the press and the menu.
LoweredBy(h) ==
    /\ hand' = Hidden(h) /\ menu' = NoMenu /\ raised' = FALSE
    /\ UNCHANGED <<pinned, shelf, live, battery, down, posts, release>> /\ Done
MovesOff ==
    /\ Input /\ down /\ hand.pressed > 0 /\ ~DragActive(hand)
    /\ LoweredBy(Sampled(hand)) /\ UNCHANGED upsets
Lower ==
    /\ raised /\ upsets < MaxUpsets
    /\ LoweredBy(hand) /\ upsets' = upsets + 1
Raise ==
    /\ ~raised /\ ~release /\ posts = <<>>
    /\ raised' = TRUE
    /\ UNCHANGED <<pinned, shelf, live, battery, hand, menu, down, posts, release, upsets>>
    /\ Done

\* The button goes up. While a drag lasts the hook posts a release of its own,
\* unless the system did not wait for it; the window gets the real one if it has
\* the capture or is below the pointer.
Release(heard, below) ==
    /\ down /\ posts = <<>> /\ ~release
    /\ down' = FALSE
    /\ release' = (raised /\ (hand.capture \/ below))
    /\ posts' = IF DragActive(hand) /\ heard THEN <<"up">> ELSE <<>>
    /\ IF heard THEN UNCHANGED upsets ELSE upsets < MaxUpsets /\ upsets' = upsets + 1
    /\ lost' = ~(release' \/ heard)
    /\ UNCHANGED <<hand, menu, asked, deeds, strokes>> /\ Kept

\* WM_LBUTTONUP posts what is to be done.
Branch(h) == IF h.scaling THEN "scaled" ELSE IF h.dragged > 0 THEN "dropped" ELSE "clicked"
UpHandled(m) == IF hand.snap THEN m ELSE Append(m, Branch(hand))
PostedUp ==
    /\ posts # <<>> /\ Head(posts) = "up"
    /\ posts' = UpHandled(Tail(posts))
    /\ UNCHANGED <<hand, menu, down, release, upsets>> /\ Done /\ Kept
InputUp ==
    /\ posts = <<>> /\ release
    /\ release' = FALSE /\ posts' = UpHandled(<<>>)
    /\ UNCHANGED <<hand, menu, down, upsets>> /\ Done /\ Kept

-----------------------------------------------------------------------------
(* kDeferredClickMessage.                                                  *)

Deferred(what) ==
    /\ posts # <<>> /\ Head(posts) = what /\ ~hand.snap
    /\ posts' = Tail(posts)
    /\ UNCHANGED <<live, battery, raised, menu, down, release, lost, asked, strokes, upsets>>

\* After each branch. (Its check for a tile that glides back never holds: see
\* GesturesLeaveNoTrace.)
Ends(h) == IF LetGo(h).snap THEN LetGo(h) ELSE ClearPress(LetGo(h))

DeferredScale ==
    /\ Deferred("scaled")
    /\ hand' = Ends(hand)
    /\ UNCHANGED <<pinned, shelf, deeds>>

\* FinishDrag before tile `to`, or off the dock.
SnapsBack(to) ==
    /\ hand' = Ends([hand EXCEPT !.snap = TRUE])
    /\ UNCHANGED <<pinned, shelf, deeds>>

\* CompleteDrag: the pin moves in the configuration and, by other indices, its
\* tile in the shelf; the pins of the tiles are counted anew.
PinsUpTo(r, n) == Cardinality({i \in 1 .. n : r[i].pin > 0})
Before(to) == PinsUpTo(shelf, to - 1)
Shifted(s, from, to) == InsertAt(RemoveAt(s, from), IF to > from THEN to - 1 ELSE to, s[from])
Renumbered(r) ==
    [i \in DOMAIN r |-> [r[i] EXCEPT !.pin = IF @ = 0 THEN 0 ELSE PinsUpTo(r, i)]]
\* A mutant: the tiles keep the numbers they had.
MutCompleted(to) ==
    /\ pinned' = Shifted(pinned, shelf[hand.dragged].pin, Before(to) + 1)
    /\ shelf' = Shifted(shelf, hand.dragged, to)
Completed(to) ==
    /\ pinned' = Shifted(pinned, shelf[hand.dragged].pin, Before(to) + 1)
    /\ shelf' = Renumbered(Shifted(shelf, hand.dragged, to))
Stays(to) == Before(to) \in {shelf[hand.dragged].pin - 1, shelf[hand.dragged].pin}

DeferredDrop(to) ==
    /\ Deferred("dropped") /\ hand.dragged > 0
    /\ \/ (to = 0 \/ Stays(to)) /\ SnapsBack(to)
       \/ /\ to > 0 /\ ~Stays(to)
          /\ Completed(to)
          /\ deeds' = Append(deeds, shelf[hand.dragged].tile)
          /\ hand' = Ends(ClearPress(hand))
NothingToDrop ==
    /\ Deferred("dropped") /\ hand.dragged = 0
    /\ hand' = Ends(hand)
    /\ UNCHANGED <<pinned, shelf, deeds>>

\* ActivatePressedApp, whatever the tile: its press is forgotten first.
DeferredClick ==
    /\ Deferred("clicked")
    /\ IF hand.pressed \in DOMAIN Shown
       THEN /\ deeds' = Append(deeds, Shown[hand.pressed])
            /\ hand' = Ends(Suppressed(ClearPress(hand)))
       ELSE UNCHANGED deeds /\ hand' = Ends(hand)
    /\ UNCHANGED <<pinned, shelf>>

SnapEnds ==
    /\ hand.snap /\ hand' = SnappedBack(hand)
    /\ UNCHANGED <<menu, down, posts, release, upsets>> /\ Done /\ Kept

-----------------------------------------------------------------------------
(* What comes between.                                                     *)

Upset == upsets < MaxUpsets /\ upsets' = upsets + 1

\* The thread stalls with a tile pressed; a sample of the pointer ends that, and
\* the cursor timer, if it is the first to come, drops the press.
Hitch ==
    /\ Upset /\ hand.pressed > 0 /\ ~hand.lapse
    /\ hand' = [hand EXCEPT !.lapse = TRUE]
    /\ UNCHANGED <<menu, down, posts, release>> /\ Done /\ Kept
Moves ==
    /\ posts = <<>> /\ hand.lapse /\ hand' = Sampled(hand)
    /\ UNCHANGED <<menu, down, posts, release, upsets>> /\ Done /\ Kept
PumpCursor ==
    /\ posts = <<>> /\ ~release /\ ~DragActive(hand)
    /\ hand.lapse
    /\ hand' = [(IF hand.pressed > 0 THEN Judged(hand) ELSE hand) EXCEPT !.lapse = FALSE]
    /\ UNCHANGED <<menu, down, posts, release, upsets>> /\ Done /\ Kept

\* Another window takes the capture.
CaptureStolen ==
    /\ Upset /\ hand.capture
    /\ hand' = CaptureChanged([hand EXCEPT !.capture = FALSE])
    /\ UNCHANGED <<menu, down, posts, release>> /\ Done /\ Kept

\* ApplyBackgroundRefresh of a worker that found windows of l.
ShelfChanged(r) == r # shelf
Refresh(l) ==
    /\ Upset /\ l # live
    /\ live' = l /\ shelf' \in Rebuilt(l)
    /\ hand' = IF ShelfChanged(shelf') THEN Remap(hand, shelf') ELSE hand
    /\ UNCHANGED <<pinned, battery, raised, menu, down, posts, release>> /\ Done

\* RefreshTray: the shelf keeps its tiles, those of the tray move.
TrayChanges ==
    /\ Upset /\ raised /\ battery' = ~battery
    /\ UNCHANGED <<pinned, shelf, live, raised, hand, menu, down, posts, release>> /\ Done

\* WM_RBUTTONUP; a menu that was open was closed by the press.
RightClick(i) ==
    /\ Upset /\ Input
    /\ menu' = [open |-> TRUE,
                tile |-> IF i \in DOMAIN Shown /\ Shown[i] # "divider" THEN Shown[i] ELSE NoTile,
                pin |-> IF i \in DOMAIN shelf THEN shelf[i].pin ELSE 0]
    /\ UNCHANGED <<hand, down, posts, release>> /\ Done /\ Kept

\* CloseContextMenu: the pointer left it, Escape, or an item that opens, closes
\* or ends something.
MenuCloses ==
    /\ menu.open /\ menu' = NoMenu
    /\ UNCHANGED <<hand, down, posts, release, upsets>> /\ Done /\ Kept

\* ExecuteContextCommand: the menu closes, the configuration changes, the shelf is
\* spliced from it. AddForegroundApplication takes any program.
Chooses(p) ==
    /\ menu.open /\ ~down /\ posts = <<>> /\ ~release
    /\ menu' = NoMenu
    /\ pinned' = p /\ shelf' \in Spliced(p)
    /\ hand' = Remap(hand, shelf')
    /\ UNCHANGED <<live, battery, raised, down, posts, release, upsets>> /\ Done
UnpinTile ==
    /\ menu.tile \in Programs /\ menu.pin \in DOMAIN pinned
    /\ Chooses(RemoveAt(pinned, menu.pin))
PinTile ==
    /\ menu.tile \in Programs \ ToSet(pinned) /\ menu.pin = 0
    /\ Chooses(Append(pinned, menu.tile))
PinForeground(t) ==
    /\ menu.tile \notin Programs \cup Special \cup {"trash"} /\ t \notin ToSet(pinned)
    /\ Chooses(Append(pinned, t))

-----------------------------------------------------------------------------

Empty ==
    [pressed |-> 0, target |-> NoTile, dragged |-> 0, scaling |-> FALSE, snap |-> FALSE,
     suppress |-> FALSE, ghost |-> FALSE, capture |-> FALSE, lapse |-> FALSE]

\* A dock that is up, over programs that run or not.
GesturesInit ==
    /\ pinned = FirstPinned /\ live \in SUBSET Programs
    /\ shelf \in {Row(pinned, opened) : opened \in Listings(live \ ToSet(pinned))}
    /\ hand = Empty /\ menu = NoMenu /\ posts = <<>> /\ deeds = <<>> /\ asked = NoTile
    /\ battery \in BOOLEAN /\ down = FALSE /\ release = FALSE /\ raised = TRUE /\ lost = FALSE
    /\ strokes = 0 /\ upsets = 0

GesturesNext ==
    \/ \E i \in 0 .. Len(Shown) : Press(i) \/ RightClick(i)
    \/ DragStarts \/ MovesOff \/ Lower \/ Raise
    \/ \E heard, below \in BOOLEAN : Release(heard, below)
    \/ PostedUp \/ InputUp
    \/ DeferredScale \/ NothingToDrop \/ DeferredClick
    \/ \E to \in {0} \cup Insertions : DeferredDrop(to)
    \/ SnapEnds \/ Hitch \/ Moves \/ PumpCursor \/ CaptureStolen
    \/ \E l \in SUBSET Programs : Refresh(l)
    \/ TrayChanges \/ MenuCloses \/ UnpinTile \/ PinTile
    \/ \E t \in Programs : PinForeground(t)

GesturesSpec == GesturesInit /\ [][GesturesNext]_gestureVars

-----------------------------------------------------------------------------
(* Properties.                                                             *)

\* One press does one thing, to the tile that was pressed, although the release
\* comes twice, is posted on and meets another shelf. (A slot of the tray is found
\* by its number alone.)
GesturesHitTheirTile ==
    /\ Len(deeds) <= 1
    /\ deeds # <<>> /\ asked \notin Tray => deeds[1] = asked

\* The number a tile unpins and drags by is that of its own pin, after every
\* splice of the shelf, move of a pin and refresh; no program has two tiles, and
\* the separator stands between pins and others.
TilesCarryTheirPins ==
    /\ \A i \in DOMAIN shelf : shelf[i].pin > 0 =>
           shelf[i].pin \in DOMAIN pinned /\ pinned[shelf[i].pin] = shelf[i].tile
    /\ \A i, j \in DOMAIN shelf : i # j => shelf[i].tile # shelf[j].tile
    /\ ToSet(pinned) \subseteq {shelf[i].tile : i \in 3 .. Movable - 1}
    /\ Movable > Len(shelf) \/ Movable < Len(shelf)

\* The ghost is up exactly while a tile is dragged or glides back; a drag whose
\* button is up has its release on the way, from whichever messenger, or glides;
\* the capture is kept for a press that still has its release to come; a press
\* without the capture, whose release may never come, is dropped at once; and no
\* branch waits while a tile glides back.
GesturesLeaveNoTrace ==
    /\ hand.ghost <=> hand.dragged > 0 \/ hand.snap
    /\ DragActive(hand) => down \/ release \/ posts # <<>> \/ hand.snap \/ lost
    /\ hand.capture => down \/ release \/ posts # <<>>
    /\ hand.pressed > 0 /\ ~DragActive(hand) => hand.capture
    /\ hand.snap => ToSet(posts) \subseteq {"up"}

\* The two together, with the types: a gesture does one thing, to the tile it began
\* on, and leaves nothing behind.
GesturesAreClean == GesturesTypeOK /\ GesturesHitTheirTile /\ GesturesLeaveNoTrace

\* What follows does not hold of the code, and no run checks it; the README says why.

\* "drop any in-progress press so a post-stall jitter cannot begin an accidental
\* reorder drag": no drag begins by the first move after a stall.
StallDropsPress == [][hand'.dragged > 0 /\ hand.dragged = 0 => ~hand.lapse]_gestureVars

\* The menu unpins the tile it was opened for.
UnpinsWhatWasAsked ==
    [][ToSet(pinned) \ ToSet(pinned') \subseteq {menu.tile}]_gestureVars
=============================================================================
