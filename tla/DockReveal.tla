----------------------------- MODULE DockReveal -----------------------------
(***************************************************************************)
(* When the dock slides in and out (DockApp.cpp). The pointer is seen in   *)
(* three ways: a low-level mouse hook, which an elevated foreground window *)
(* blinds; a cursor timer, which is stopped while the dock is hidden and   *)
(* the hook can see; and samples taken when the foreground changes or a    *)
(* shell flyout closes. All handlers run on the UI thread, one at a time:  *)
(* `dock` is its state and each handler a function from state to state.    *)
(* The slide is its last frame; a drag, a popup (Quick Settings) and the   *)
(* Search panel are open or not.                                           *)
(***************************************************************************)
EXTENDS FiniteSets, Naturals

CONSTANTS
    Pixels, NoPixel,        \* the points the pointer visits
    Monitors, NoMonitor,
    PlaceOf,                \* a pixel is in the hot zone, over the pill or away
    MonitorOf,
    Scenes,                 \* what the user does, with which pixels and windows
    SamePixel,              \* may the pointer return to the pixel last posted?
    MaxStill                \* still pumps before the timer calms (10 in the code)

Foregrounds == [elevated : BOOLEAN, fills : Monitors \cup {NoMonitor}]
Doings == {"windows", "drag", "popup", "search", "clock"}

ASSUME PixelsAreRead ==
    /\ PlaceOf \in [Pixels -> {"hot", "over", "away"}]
    /\ MonitorOf \in [Pixels -> Monitors]
    /\ NoPixel \notin Pixels /\ NoMonitor \notin Monitors
    /\ Scenes \subseteq [does : SUBSET Doings, pixels : SUBSET Pixels,
                         windows : SUBSET Foregrounds]
    /\ SamePixel \in BOOLEAN /\ MaxStill \in Nat

VARIABLES
    scene,         \* the doings of this run
    dock,          \* the fields of DockApp the reveal reads and writes
    cursor,        \* where the pointer is
    lastPosted,    \* MouseHook's static: the pixel it posted last
    posted,        \* the newest kPointerMessage in the queue
    hook,          \* m_mouseHook is installed
    foreground,    \* the foreground window: elevated?, the monitor it fills
    winEvent,      \* EVENT_SYSTEM_FOREGROUND not yet delivered
    syncPosted,    \* kCursorWatchSyncMessage in the queue
    flyout,        \* a shell flyout (Start, notifications) is visible
    unheard        \* the pointer's place changed its meaning with no event

revealVars == <<scene, dock, cursor, lastPosted, posted, hook, foreground, winEvent,
                syncPosted, flyout, unheard>>

DockWindow == [elevated |-> FALSE, fills |-> NoMonitor]

Ui ==
    [vis : {"Hidden", "Showing", "Visible", "Hiding"},
     host : Monitors, last : Pixels, drag : BOOLEAN, popup : BOOLEAN,
     search : BOOLEAN,
     hold : BOOLEAN, seen : BOOLEAN, until : {"none", "running", "due"},
     covered : BOOLEAN,                 \* m_overlayHiddenForFlyout
     render : BOOLEAN, input : BOOLEAN, \* the two overlay windows are shown
     watch : {"off", "fast", "calm"}, calm : BOOLEAN, still : 0 .. MaxStill,
     elevated : {"unknown", "yes", "no"},   \* the cached elevation
     timers : SUBSET {"refresh", "tray", "backdrop"}]

RevealTypeOK ==
    /\ dock \in Ui
    /\ cursor \in Pixels
    /\ lastPosted \in Pixels \cup {NoPixel}
    /\ posted \in Pixels \cup {NoPixel}
    /\ foreground \in Foregrounds
    /\ {hook, winEvent, syncPosted, flyout, unheard} \subseteq BOOLEAN

-----------------------------------------------------------------------------
(* What the code asks of a point.                                          *)

Up(u) == u.vis \in {"Showing", "Visible"}
InHotZone(p) == PlaceOf[p] = "hot"
FullscreenAt(p) == foreground.fills = MonitorOf[p]
\* The pill is where it will rest only when the dock is Visible: during a slide
\* a pixel of the resting pill may or may not be over it.
MayBeOver(u, p) ==
    IF PlaceOf[p] # "over" \/ MonitorOf[p] # u.host \/ u.vis = "Hidden" THEN {FALSE}
    ELSE IF u.vis = "Visible" THEN {TRUE} ELSE BOOLEAN
Left(u, p) == PlaceOf[p] = "away" \/ MonitorOf[p] # u.host

\* Quick Settings open: its zone is not left while it is open.
NeedsHookPointerPost(u, p, over) ==
    IF Up(u)
    THEN ~over /\ (InHotZone(p) \/ u.popup \/ u.search)
    ELSE InHotZone(p) /\ ~FullscreenAt(p)

-----------------------------------------------------------------------------
(* The cursor timer.                                                       *)

\* IsElevatedForeground: the cached answer, or a fresh one.
Elevation(u) ==
    IF u.elevated # "unknown" THEN u.elevated
    ELSE IF foreground.elevated THEN "yes" ELSE "no"

\* A mutant: the hook is trusted under an elevated window.
MutDesiredWatch(u, h) ==
    CASE u.vis = "Hidden" /\ h -> "off"
      [] u.vis = "Visible" /\ u.calm /\ ~u.drag -> "calm"
      [] OTHER -> "fast"

\* DesiredCursorWatchIntervalMs; m_mouseHook is `h`.
DesiredWatch(u, h) ==
    CASE u.vis = "Hidden" /\ h /\ Elevation(u) = "no" -> "off"
      [] u.vis = "Visible" /\ u.calm /\ ~u.drag -> "calm"
      [] OTHER -> "fast"

SyncCursorWatchInterval(u, h) ==
    [u EXCEPT !.watch = DesiredWatch(u, h),
              !.elevated = IF u.vis = "Hidden" /\ h THEN Elevation(u) ELSE @]

-----------------------------------------------------------------------------
(* Show, hide and the end of a slide.                                      *)

BeginShow(u, h) ==
    IF u.hold \/ Up(u) THEN u
    ELSE SyncCursorWatchInterval(
            [u EXCEPT !.vis = "Showing", !.render = TRUE, !.input = TRUE], h)

\* Closing the context menu syncs the timer while the dock still counts as up.
BeginHide(u, h) ==
    IF ~Up(u) THEN u
    ELSE [SyncCursorWatchInterval([u EXCEPT !.drag = FALSE], h) EXCEPT
            !.vis = "Hiding", !.popup = FALSE, !.input = FALSE, !.timers = {}]

SlideEnds(u, h) ==
    IF u.vis = "Showing"
    THEN [u EXCEPT !.vis = "Visible", !.timers = {"refresh", "tray", "backdrop"}]
    ELSE SyncCursorWatchInterval(
            [u EXCEPT !.vis = "Hidden", !.timers = {"refresh"}, !.popup = FALSE,
                      !.drag = FALSE, !.input = FALSE, !.render = FALSE], h)

HandlePointer(u, p, over, h) ==
    LET moved == [u EXCEPT !.last = p]
        hot == InHotZone(p) /\ ~FullscreenAt(p)
        here == IF hot THEN [moved EXCEPT !.host = MonitorOf[p]] ELSE moved
        busy == here.search \/ here.popup \/ over
    IN  IF u.drag \/ u.hold THEN moved
        ELSE IF ~Up(here) THEN IF hot THEN BeginShow(here, h) ELSE here
        ELSE IF ~busy /\ (FullscreenAt(p) \/ (~InHotZone(p) /\ Left(here, p)))
             THEN BeginHide(here, h)
        ELSE here

-----------------------------------------------------------------------------
(* The hold while a flyout of the shell is up.                             *)

HideOverlayForShellFlyout(u) ==
    [u EXCEPT !.covered = TRUE, !.timers = @ \ {"backdrop"}, !.popup = FALSE,
              !.render = FALSE, !.input = FALSE]

PrepareShellForStartMenu(u) ==
    HideOverlayForShellFlyout(
        [u EXCEPT !.hold = TRUE, !.seen = FALSE, !.until = "running"])

\* A mutant: the overlay comes back over a dock that was hidden meanwhile.
MutRestoreOverlay(u) ==
    IF u.covered
    THEN [u EXCEPT !.covered = FALSE, !.render = TRUE, !.input = TRUE,
                   !.timers = @ \cup {"backdrop"}]
    ELSE u

RestoreOverlayAfterShellFlyout(u) ==
    LET bare == [u EXCEPT !.covered = FALSE]
    IN  IF u.covered /\ Up(u)
        THEN [bare EXCEPT !.render = TRUE, !.input = TRUE,
                          !.timers = @ \cup {"backdrop"}]
        ELSE bare

\* Sampled at once: a pointer already in the hot zone posts no movement.
ReleaseShellFlyoutHold(u, over, h) ==
    LET freed == RestoreOverlayAfterShellFlyout(
                    [u EXCEPT !.hold = FALSE, !.seen = FALSE, !.until = "none"])
    IN  SyncCursorWatchInterval(
            IF freed.drag THEN freed ELSE HandlePointer(freed, cursor, over, h), h)

\* A mutant: the end of a flyout starts no countdown.
MutMaintainHold(u, over, h) ==
    CASE ~u.hold -> u
      [] u.hold /\ flyout -> [u EXCEPT !.seen = TRUE, !.until = "none"]
      [] u.hold /\ ~flyout /\ u.until # "due" -> u
      [] OTHER -> ReleaseShellFlyoutHold(u, over, h)

\* The hold's part of MaintainNativeTaskbarSuppression.
MaintainHold(u, over, h) ==
    CASE ~u.hold -> u
      [] u.hold /\ flyout -> [u EXCEPT !.seen = TRUE, !.until = "none"]
      [] u.hold /\ ~flyout /\ u.seen /\ u.until = "none" ->
            [u EXCEPT !.until = "running"]
      [] u.hold /\ ~flyout /\ u.until = "running" -> u
      [] OTHER -> ReleaseShellFlyoutHold(u, over, h)

-----------------------------------------------------------------------------
(* The handlers of the UI thread.                                          *)

\* EnsureMouseHook: installed, or tried again.
Hooks == IF hook THEN {TRUE} ELSE BOOLEAN

Others == <<scene, cursor, foreground, flyout>>

\* Run: the timer is started and the pointer looked at once.
Started(p, m, h) ==
    LET idle == [vis |-> "Hidden", host |-> m, last |-> p, drag |-> FALSE,
                 popup |-> FALSE, search |-> FALSE, hold |-> FALSE, seen |-> FALSE,
                 until |-> "none", covered |-> FALSE, render |-> FALSE,
                 input |-> FALSE, watch |-> "off", calm |-> FALSE, still |-> 0,
                 elevated |-> "unknown", timers |-> {}]
        first == HandlePointer(SyncCursorWatchInterval(idle, h), p, FALSE, h)
    IN  IF first.vis = "Hidden" THEN [first EXCEPT !.timers = {"refresh"}] ELSE first

RevealInit ==
    /\ scene \in Scenes
    /\ cursor \in scene.pixels /\ hook \in BOOLEAN /\ foreground \in scene.windows
    /\ \E m \in Monitors : dock = Started(cursor, m, hook)
    /\ lastPosted = NoPixel /\ posted = NoPixel
    /\ winEvent = FALSE /\ syncPosted = FALSE /\ flyout = FALSE /\ unheard = FALSE

\* kPointerMessage: the newest point, asked again whether it matters.
PointerMessage ==
    /\ posted # NoPixel
    /\ posted' = NoPixel
    /\ \E over \in MayBeOver(dock, posted) :
        dock' = IF NeedsHookPointerPost(dock, posted, over)
                THEN HandlePointer(dock, posted, over, hook) ELSE dock
    /\ UNCHANGED <<Others, lastPosted, hook, winEvent, syncPosted, unheard>>

\* WM_MOUSEMOVE of the input window, and of a captured drag.
InputMove ==
    /\ dock.last # cursor
    /\ dock.drag \/ (dock.input /\ TRUE \in MayBeOver(dock, cursor))
    /\ dock' = HandlePointer(dock, cursor, ~dock.drag, hook)
    /\ UNCHANGED <<Others, lastPosted, posted, hook, winEvent, syncPosted, unheard>>

\* ForegroundWinEventProc.
DeliverWinEvent ==
    /\ winEvent
    /\ winEvent' = FALSE /\ syncPosted' = TRUE
    /\ UNCHANGED <<Others, dock, lastPosted, posted, hook, unheard>>

\* kCursorWatchSyncMessage.
SyncMessage ==
    /\ syncPosted
    /\ syncPosted' = FALSE
    /\ \E h \in Hooks, over \in MayBeOver(dock, cursor) :
        /\ hook' = h
        /\ \E synced \in {SyncCursorWatchInterval([dock EXCEPT !.elevated = "unknown"], h)} :
            dock' = IF dock.drag THEN synced ELSE HandlePointer(synced, cursor, over, h)
    /\ UNCHANGED <<Others, lastPosted, posted, winEvent, unheard>>

\* PumpCursorWatch: a still pointer is not looked at again.
Pump ==
    /\ dock.watch # "off"
    /\ \E h \in Hooks, over \in MayBeOver(dock, cursor) :
      \E synced \in {SyncCursorWatchInterval(dock, h)} :
        LET stiller == [synced EXCEPT !.still = IF @ < MaxStill THEN @ + 1 ELSE @]
            calmed == IF stiller.still = MaxStill /\ ~stiller.calm
                      THEN SyncCursorWatchInterval([stiller EXCEPT !.calm = TRUE], h)
                      ELSE stiller
            awake == IF synced.calm \/ synced.still # 0
                     THEN SyncCursorWatchInterval(
                            [synced EXCEPT !.calm = FALSE, !.still = 0], h)
                     ELSE synced
        IN  /\ hook' = h /\ unheard' = (unheard /\ (dock.drag \/ cursor = dock.last))
            /\ dock' = IF dock.drag THEN synced
                       ELSE IF cursor = dock.last
                       THEN IF dock.vis = "Visible" THEN calmed ELSE synced
                       ELSE HandlePointer(awake, cursor, over, h)
    /\ UNCHANGED <<Others, lastPosted, posted, winEvent, syncPosted>>

\* The taskbar monitor's tick, as far as the reveal goes. A hook it installs
\* stops the timer of a hidden dock before that has looked at the pointer.
MonitorTick ==
    /\ \E h \in Hooks, over \in MayBeOver(dock, cursor) :
        /\ hook' = h /\ unheard' = (unheard \/ h # hook)
        /\ \E kept \in {MaintainHold(dock, over, hook)} :
            dock' = SyncCursorWatchInterval(kept, h)
    /\ UNCHANGED <<Others, lastPosted, posted, winEvent, syncPosted>>

\* AdvanceAnimation, the last frame.
SlideFinishes ==
    /\ dock.vis \in {"Showing", "Hiding"}
    /\ dock' = SlideEnds(dock, hook)
    /\ UNCHANGED <<Others, lastPosted, posted, hook, winEvent, syncPosted, unheard>>

\* 0.8 s without a flyout, 0.35 s after it closed.
HoldRunsOut ==
    /\ dock.until = "running"
    /\ dock' = [dock EXCEPT !.until = "due"]
    /\ UNCHANGED <<Others, lastPosted, posted, hook, winEvent, syncPosted, unheard>>

\* The cached elevation is half a second old.
ElevationExpires ==
    /\ dock.elevated # "unknown"
    /\ dock' = [dock EXCEPT !.elevated = "unknown"]
    /\ UNCHANGED <<Others, lastPosted, posted, hook, winEvent, syncPosted, unheard>>

-----------------------------------------------------------------------------
(* The user and the desktop.                                               *)

\* WM_MOUSEMOVE seen by MouseHook, which never posts one pixel twice running.
MovePointer(p) ==
    /\ p # cursor
    /\ SamePixel \/ p # lastPosted
    /\ cursor' = p
    /\ \E over \in MayBeOver(dock, p) :
        IF /\ hook /\ ~foreground.elevated /\ ~dock.drag
           /\ NeedsHookPointerPost(dock, p, over) /\ p # lastPosted
        THEN lastPosted' = p /\ posted' = p /\ unheard' = FALSE
        ELSE UNCHANGED <<lastPosted, posted, unheard>>
    /\ UNCHANGED <<dock, hook, foreground, winEvent, syncPosted, flyout>>

\* Another application's window comes to the front.
ForegroundChanges(f) ==
    /\ f # foreground
    /\ foreground' = f /\ winEvent' = TRUE /\ unheard' = FALSE
    /\ UNCHANGED <<dock, cursor, lastPosted, posted, hook, syncPosted, flyout>>

\* "Apps can enter or leave fullscreen without a focus change."
FillsQuietly(m) ==
    /\ ~dock.search /\ m # foreground.fills
    /\ foreground' = [foreground EXCEPT !.fills = m] /\ unheard' = TRUE
    /\ UNCHANGED <<dock, cursor, lastPosted, posted, hook, winEvent, syncPosted, flyout>>

FlyoutChanges ==
    /\ flyout' = ~flyout
    /\ UNCHANGED <<dock, cursor, lastPosted, posted, hook, foreground, winEvent,
                   syncPosted, unheard>>

\* A press on an icon that moved far enough; the release, or the ghost's return.
BeginDrag ==
    /\ dock.input /\ ~dock.drag /\ ~dock.popup /\ TRUE \in MayBeOver(dock, cursor)
    /\ dock' = [dock EXCEPT !.drag = TRUE]
    /\ UNCHANGED <<Others, lastPosted, posted, hook, winEvent, syncPosted, unheard>>

FinishDrag ==
    /\ dock.drag
    /\ dock' = [dock EXCEPT !.drag = FALSE, !.last = cursor]
    /\ unheard' = TRUE
    /\ UNCHANGED <<Others, lastPosted, posted, hook, winEvent, syncPosted>>

\* Quick Settings opens from its tray icon; a click outside or Escape closes it.
OpenPopup ==
    /\ dock.input /\ ~dock.drag /\ ~dock.popup /\ TRUE \in MayBeOver(dock, cursor)
    /\ dock' = [dock EXCEPT !.popup = TRUE]
    /\ UNCHANGED <<Others, lastPosted, posted, hook, winEvent, syncPosted, unheard>>

ClosePopup ==
    /\ dock.popup
    /\ dock' = [dock EXCEPT !.popup = FALSE]
    /\ unheard' = TRUE
    /\ UNCHANGED <<Others, lastPosted, posted, hook, winEvent, syncPosted>>

\* Ctrl+Space. The panel is a window of this process: its focus is no event.
SearchOpens ==
    /\ ~dock.search
    /\ dock' = [BeginShow(dock, hook) EXCEPT !.popup = FALSE, !.search = TRUE]
    /\ foreground' = DockWindow /\ unheard' = TRUE
    /\ UNCHANGED <<cursor, lastPosted, posted, hook, winEvent, syncPosted, flyout>>

\* The window that gets the focus back belongs to another process.
SearchCloses(hideDockIfAway, f) ==
    /\ dock.search
    /\ LET closed == [dock EXCEPT !.search = FALSE]
       IN  dock' = IF hideDockIfAway /\ PlaceOf[cursor] = "away"
                   THEN BeginHide(closed, hook) ELSE closed
    /\ foreground' = f /\ winEvent' = TRUE /\ unheard' = FALSE
    /\ UNCHANGED <<cursor, lastPosted, posted, hook, syncPosted, flyout>>

\* The clock: the dock makes way for the notification centre, if it opens.
OpenClock(opened) ==
    /\ dock.vis # "Hidden" /\ ~dock.hold /\ ~dock.drag
    /\ \E over \in MayBeOver(dock, cursor) :
        LET held == PrepareShellForStartMenu(dock)
        IN  dock' = IF opened THEN held ELSE ReleaseShellFlyoutHold(held, over, hook)
    /\ UNCHANGED <<Others, lastPosted, posted, hook, winEvent, syncPosted, unheard>>

RevealUser ==
    /\ \/ \E p \in scene.pixels : MovePointer(p)
       \/ /\ "windows" \in scene.does
          /\ \E f \in scene.windows : ForegroundChanges(f) \/ FillsQuietly(f.fills)
       \/ "drag" \in scene.does /\ (BeginDrag \/ FinishDrag)
       \/ "popup" \in scene.does /\ (OpenPopup \/ ClosePopup)
       \/ "search" \in scene.does /\ SearchOpens
       \/ \E hide \in BOOLEAN, f \in scene.windows : SearchCloses(hide, f)
       \/ /\ "clock" \in scene.does
          /\ FlyoutChanges \/ \E opened \in BOOLEAN : OpenClock(opened)
    /\ UNCHANGED scene

RevealDock ==
    \/ PointerMessage \/ InputMove \/ DeliverWinEvent \/ SyncMessage \/ Pump
    \/ MonitorTick \/ SlideFinishes \/ HoldRunsOut \/ ElevationExpires

RevealNext == RevealUser \/ RevealDock

\* The thread takes its messages and its timers go off; the user owes nothing.
RevealFairness ==
    /\ WF_revealVars(PointerMessage) /\ WF_revealVars(DeliverWinEvent)
    /\ WF_revealVars(SyncMessage) /\ WF_revealVars(Pump)
    /\ WF_revealVars(MonitorTick) /\ WF_revealVars(SlideFinishes)
    /\ WF_revealVars(HoldRunsOut) /\ WF_revealVars(ElevationExpires)

RevealSpec == RevealInit /\ [][RevealNext]_revealVars /\ RevealFairness

-----------------------------------------------------------------------------

\* The overlay is on screen and takes clicks exactly while the dock is up and
\* no flyout covers it, through every interleaving of slide, hold and search.
OverlayFollowsDock ==
    /\ dock.input <=> Up(dock) /\ ~dock.covered
    /\ Up(dock) /\ ~dock.covered => dock.render
    /\ dock.vis = "Hidden" => ~dock.render /\ dock.timers = {"refresh"} /\ ~dock.popup
    /\ dock.covered <=> dock.hold

\* "Touch the bottom edge of your screen and it slides in": a pointer in the hot
\* zone of a monitor no fullscreen window fills never rests on a hidden dock.
Touching ==
    /\ dock.vis = "Hidden" /\ ~dock.hold /\ ~unheard
    /\ InHotZone(cursor) /\ ~FullscreenAt(cursor)
TouchReveals == Touching ~> ~Touching

\* "Move away and it's gone": the dock does not stay up under a pointer that
\* left it, or over a fullscreen window.
Unwanted ==
    /\ dock.vis = "Visible" /\ ~dock.hold /\ ~dock.drag /\ ~dock.popup /\ ~dock.search
    /\ ~unheard /\ MayBeOver(dock, cursor) = {FALSE}
    /\ FullscreenAt(cursor) \/ (~InHotZone(cursor) /\ Left(dock, cursor))
LeavingHides == Unwanted ~> ~Unwanted

\* A flyout's hold ends once no flyout is visible, whatever the slide, the
\* search or a second tick did meanwhile.
Holding == dock.hold /\ ~flyout
HoldEnds == Holding ~> ~Holding

\* A hidden dock with a working hook under an ordinary window polls nothing.
Polling ==
    /\ dock.vis = "Hidden" /\ hook /\ ~foreground.elevated /\ dock.watch # "off"
HiddenIsQuiet == Polling ~> ~Polling

=============================================================================
