----------------------------- MODULE DockProofs -----------------------------
(***************************************************************************)
(* The dock on the desktop: its hold on the taskbar, the boost, and both   *)
(* with the reveal of its overlay in the composition MCDock.  A dock       *)
(* that stops gives back what it took, for any bars, any answers of        *)
(* Explorer and any number of troubles; a boost closes what was chosen,    *)
(* for any process ids, tables and number of changes around it.            *)
(***************************************************************************)
EXTENDS MCDock, FiniteSetTheorems, TLAPS

-----------------------------------------------------------------------------
(* THE OVERLAY.  The overlay windows of DockReveal follow the dock, for    *)
(* any pixels, monitors, windows and doings of the user.  A handler is a   *)
(* composition of functions on the state `dock`; each keeps what Shown     *)
(* says of it.                                                             *)

USE DEF revealVars, Others

\* OverlayFollowsDock, of any state.
Shown(u) ==
    /\ u.input <=> Up(u) /\ ~u.covered
    /\ Up(u) /\ ~u.covered => u.render
    /\ u.vis = "Hidden" => ~u.render /\ u.timers = {"refresh"} /\ ~u.popup
    /\ u.covered <=> u.hold

Good(u) == u \in Ui /\ Shown(u)

\* A state that differs in none of the fields Shown reads.
Alike(u, v) ==
    /\ v.vis = u.vis /\ v.hold = u.hold /\ v.covered = u.covered
    /\ v.render = u.render /\ v.input = u.input /\ v.timers = u.timers
    /\ v.popup = u.popup

LEMMA AlikeIsGood ==
    ASSUME NEW u, NEW v, Good(u), v \in Ui, Alike(u, v)
    PROVE  Good(v)
  BY DEF Good, Shown, Alike, Up

LEMMA SyncIsGood ==
    ASSUME NEW u \in Ui, NEW h \in BOOLEAN
    PROVE  /\ SyncCursorWatchInterval(u, h) \in Ui
           /\ Alike(u, SyncCursorWatchInterval(u, h))
           /\ SyncCursorWatchInterval(u, h).search = u.search
           /\ SyncCursorWatchInterval(u, h).drag = u.drag
<1>1. DesiredWatch(u, h) \in {"off", "fast", "calm"}
  BY DEF DesiredWatch
<1>2. Elevation(u) \in {"unknown", "yes", "no"}
  BY DEF Elevation, Ui
<1>3. (IF u.vis = "Hidden" /\ h THEN Elevation(u) ELSE u.elevated) \in {"unknown", "yes", "no"}
  BY <1>2 DEF Ui
<1> QED  BY <1>1, <1>3 DEF SyncCursorWatchInterval, Alike, Ui

LEMMA BeginShowIsGood ==
    ASSUME NEW u, Good(u), NEW h \in BOOLEAN
    PROVE  Good(BeginShow(u, h))
<1>1. CASE u.hold \/ Up(u)
  BY <1>1 DEF BeginShow
<1>2. CASE ~(u.hold \/ Up(u))
  <2> DEFINE v == [u EXCEPT !.vis = "Showing", !.render = TRUE, !.input = TRUE]
  <2>1. Good(v)
    BY <1>2 DEF Good, Shown, Up, Ui
  <2> QED  BY <1>2, <2>1, SyncIsGood, AlikeIsGood DEF BeginShow, Good
<1> QED  BY <1>1, <1>2

LEMMA BeginHideIsGood ==
    ASSUME NEW u, Good(u), NEW h \in BOOLEAN
    PROVE  Good(BeginHide(u, h))
<1>1. CASE ~Up(u)
  BY <1>1 DEF BeginHide
<1>2. CASE Up(u)
  <2> DEFINE v == [u EXCEPT !.drag = FALSE]
  <2> DEFINE w == SyncCursorWatchInterval(v, h)
  <2>1. v \in Ui /\ Alike(u, v)
    BY DEF Good, Ui, Alike
  <2>2. w \in Ui /\ Alike(u, w)
    BY <2>1, SyncIsGood DEF Alike
  <2>3. BeginHide(u, h) = [w EXCEPT !.vis = "Hiding", !.popup = FALSE, !.input = FALSE,
                                     !.timers = {}]
    BY <1>2 DEF BeginHide
  <2> HIDE DEF w
  <2> QED  BY ZenonT(60), <2>2, <2>3 DEF Good, Shown, Alike, Up, Ui
<1> QED  BY <1>1, <1>2

LEMMA SlideEndsIsGood ==
    ASSUME NEW u, Good(u), NEW h \in BOOLEAN, u.vis \in {"Showing", "Hiding"}
    PROVE  Good(SlideEnds(u, h))
<1>1. CASE u.vis = "Showing"
  BY <1>1 DEF SlideEnds, Good, Shown, Up, Ui
<1>2. CASE u.vis # "Showing"
  <2> DEFINE v == [u EXCEPT !.vis = "Hidden", !.timers = {"refresh"}, !.popup = FALSE,
                            !.drag = FALSE, !.input = FALSE, !.render = FALSE]
  <2>1. Good(v)
    BY <1>2 DEF Good, Shown, Up, Ui
  <2> QED  BY <1>2, <2>1, SyncIsGood, AlikeIsGood DEF SlideEnds, Good
<1> QED  BY <1>1, <1>2

LEMMA HandlePointerIsGood ==
    ASSUME NEW u, Good(u), NEW p \in Pixels, NEW over \in BOOLEAN, NEW h \in BOOLEAN
    PROVE  Good(HandlePointer(u, p, over, h))
<1> DEFINE seen == [u EXCEPT !.last = p]
           hot == InHotZone(p) /\ ~FullscreenAt(p)
           there == [seen EXCEPT !.host = MonitorOf[p]]
           here == IF hot THEN there ELSE seen
<1>1. seen \in Ui /\ Alike(u, seen)
  BY DEF Good, Ui, Alike
<1>2. MonitorOf[p] \in Monitors
  BY PixelsAreRead
<1>3. there \in Ui /\ Alike(u, there)
  BY <1>1, <1>2 DEF Ui, Alike
<1>4. here \in {seen, there}
  OBVIOUS
<1>5. Good(seen) /\ Good(there)
  BY <1>1, <1>3, AlikeIsGood
<1>6. HandlePointer(u, p, over, h) \in {seen, here, BeginShow(here, h), BeginHide(here, h)}
  BY DEF HandlePointer
<1> HIDE DEF seen, there, here
<1>7. Good(here)
  BY <1>4, <1>5
<1>8. Good(BeginShow(here, h)) /\ Good(BeginHide(here, h))
  BY <1>7, BeginShowIsGood, BeginHideIsGood
<1> QED  BY <1>5, <1>6, <1>7, <1>8

\* The dock makes way for a flyout only while it is on screen.
LEMMA PrepareShellIsGood ==
    ASSUME NEW u, Good(u), u.vis # "Hidden"
    PROVE  Good(PrepareShellForStartMenu(u))
<1> DEFINE v == PrepareShellForStartMenu(u)
<1>1. v = [u EXCEPT !.hold = TRUE, !.seen = FALSE, !.until = "running", !.covered = TRUE,
                    !.timers = @ \ {"backdrop"}, !.popup = FALSE, !.render = FALSE,
                    !.input = FALSE]
  BY DEF PrepareShellForStartMenu, HideOverlayForShellFlyout, Good, Ui
<1> HIDE DEF v
<1>2. v \in Ui
  <2>1. u.timers \ {"backdrop"} \in SUBSET {"refresh", "tray", "backdrop"}
    BY DEF Good, Ui
  <2> QED  BY <1>1, <2>1 DEF Good, Ui
<1>3. Shown(v)
  <2>1. v.vis = u.vis /\ v.covered /\ v.hold /\ ~v.input
    BY <1>1 DEF Good, Ui
  <2> QED  BY <2>1 DEF Shown, Up
<1> QED  BY <1>2, <1>3 DEF Good, v

\* A hold and what it covers end together.
LEMMA RestoreOverlayIsGood ==
    ASSUME NEW u, Good(u)
    PROVE  Good(RestoreOverlayAfterShellFlyout(
                    [u EXCEPT !.hold = FALSE, !.seen = FALSE, !.until = "none"]))
<1> DEFINE v == [u EXCEPT !.hold = FALSE, !.seen = FALSE, !.until = "none"]
           bare == [v EXCEPT !.covered = FALSE]
           back == [bare EXCEPT !.render = TRUE, !.input = TRUE,
                                !.timers = @ \cup {"backdrop"}]
<1>1. v \in Ui /\ bare \in Ui /\ back \in Ui
  BY DEF Good, Ui
<1>2. CASE u.covered /\ Up(u)
  <2>1. RestoreOverlayAfterShellFlyout(v) = back
    BY <1>2 DEF RestoreOverlayAfterShellFlyout, Up, Good, Ui
  <2>2. Shown(back)
    BY <1>2 DEF Shown, Good, Up, Ui
  <2> QED  BY <1>1, <2>1, <2>2 DEF Good
<1>3. CASE ~(u.covered /\ Up(u))
  <2>1. RestoreOverlayAfterShellFlyout(v) = bare
    BY <1>3 DEF RestoreOverlayAfterShellFlyout, Up, Good, Ui
  <2>2. Shown(bare)
    BY <1>3 DEF Shown, Good, Up, Ui
  <2> QED  BY <1>1, <2>1, <2>2 DEF Good
<1> QED  BY <1>2, <1>3

LEMMA ReleaseIsGood ==
    ASSUME NEW u, Good(u), NEW over \in BOOLEAN, NEW h \in BOOLEAN, cursor \in Pixels
    PROVE  Good(ReleaseShellFlyoutHold(u, over, h))
<1> DEFINE freed == RestoreOverlayAfterShellFlyout(
                        [u EXCEPT !.hold = FALSE, !.seen = FALSE, !.until = "none"])
           seen == IF freed.drag THEN freed ELSE HandlePointer(freed, cursor, over, h)
<1>1. Good(freed)
  BY RestoreOverlayIsGood
<1>2. ReleaseShellFlyoutHold(u, over, h) = SyncCursorWatchInterval(seen, h)
  BY DEF ReleaseShellFlyoutHold
<1> HIDE DEF freed
<1>3. Good(seen)
  BY <1>1, HandlePointerIsGood
<1> HIDE DEF seen
<1> QED  BY <1>2, <1>3, SyncIsGood, AlikeIsGood DEF Good

LEMMA MaintainHoldIsGood ==
    ASSUME NEW u, Good(u), NEW over \in BOOLEAN, NEW h \in BOOLEAN, cursor \in Pixels
    PROVE  Good(MaintainHold(u, over, h))
<1> DEFINE v == [u EXCEPT !.seen = TRUE, !.until = "none"]
           w == [u EXCEPT !.until = "running"]
<1>1. Good(v) /\ Good(w)
  <2>1. v \in Ui /\ Alike(u, v) /\ w \in Ui /\ Alike(u, w)
    BY DEF Good, Ui, Alike
  <2> QED  BY <2>1, AlikeIsGood
<1>2. MaintainHold(u, over, h) \in {u, v, w, ReleaseShellFlyoutHold(u, over, h)}
  BY DEF MaintainHold
<1> HIDE DEF v, w
<1> QED  BY <1>1, <1>2, ReleaseIsGood

-----------------------------------------------------------------------------
(* The inductive invariant, and a lemma for each action.                   *)

SceneIsRead == scene \in Scenes

RevealIInv == RevealTypeOK /\ SceneIsRead /\ OverlayFollowsDock

LEMMA ShownHere == OverlayFollowsDock <=> Shown(dock)
  BY DEF OverlayFollowsDock, Shown

LEMMA OverIsBoolean ==
    ASSUME NEW u, NEW p, NEW over \in MayBeOver(u, p)
    PROVE  over \in BOOLEAN
  BY DEF MayBeOver

LEMMA GoodNow ==
    ASSUME RevealIInv
    PROVE  /\ Good(dock) /\ dock \in Ui
           /\ cursor \in Pixels /\ posted \in Pixels \cup {NoPixel}
           /\ hook \in BOOLEAN /\ flyout \in BOOLEAN
           /\ foreground \in Foregrounds
           /\ scene.pixels \subseteq Pixels /\ scene.windows \subseteq Foregrounds
  BY ShownHere, PixelsAreRead DEF RevealIInv, RevealTypeOK, SceneIsRead, Good

\* A step of the dock leaves the desktop alone: a good state is all it owes.
LEMMA DockStep ==
    ASSUME RevealIInv, Good(dock'), UNCHANGED Others, UNCHANGED lastPosted,
           posted' \in {posted, NoPixel}, hook' \in BOOLEAN, winEvent' \in BOOLEAN,
           syncPosted' \in BOOLEAN, unheard' \in BOOLEAN
    PROVE  RevealIInv'
<1>1. Shown(dock') <=> OverlayFollowsDock'
  BY DEF OverlayFollowsDock, Shown, Up
<1> QED  BY <1>1 DEF RevealIInv, RevealTypeOK, SceneIsRead, Good

LEMMA StartedIsGood ==
    ASSUME NEW p \in Pixels, NEW m \in Monitors, NEW h \in BOOLEAN
    PROVE  Good(Started(p, m, h))
<1> DEFINE idle == [vis |-> "Hidden", host |-> m, last |-> p, drag |-> FALSE,
                    popup |-> FALSE, search |-> FALSE, hold |-> FALSE, seen |-> FALSE,
                    until |-> "none", covered |-> FALSE, render |-> FALSE,
                    input |-> FALSE, watch |-> "off", calm |-> FALSE, still |-> 0,
                    elevated |-> "unknown", timers |-> {}]
           looked == SyncCursorWatchInterval(idle, h)
           seen == [looked EXCEPT !.last = p]
           hot == InHotZone(p) /\ ~FullscreenAt(p)
           here == IF hot THEN [seen EXCEPT !.host = MonitorOf[p]] ELSE seen
           up == [here EXCEPT !.vis = "Showing", !.render = TRUE, !.input = TRUE]
           first == HandlePointer(looked, p, FALSE, h)
           armed == [here EXCEPT !.timers = {"refresh"}]
<1>1. MonitorOf[p] \in Monitors /\ 0 \in 0 .. MaxStill
  BY PixelsAreRead
<1>2. idle \in Ui
  BY <1>1 DEF Ui
<1>3. looked \in Ui /\ Alike(idle, looked) /\ ~looked.drag
  BY <1>2, SyncIsGood
<1>4. here \in Ui /\ here.vis = "Hidden" /\ ~here.hold /\ ~here.covered /\ ~here.render
      /\ ~here.input /\ ~here.popup
  <2> HIDE DEF looked
  <2> QED  BY <1>1, <1>3 DEF Ui, Alike
<1>5. Good(armed)
  <2> HIDE DEF here
  <2> QED  BY <1>4 DEF Good, Shown, Up, Ui
<1>6. Good(SyncCursorWatchInterval(up, h)) /\ SyncCursorWatchInterval(up, h).vis = "Showing"
  <2> HIDE DEF here
  <2>1. Good(up) /\ up.vis = "Showing"
    BY <1>4 DEF Good, Shown, Up, Ui
  <2> HIDE DEF up
  <2> QED  BY <2>1, SyncIsGood, AlikeIsGood DEF Good, Alike
<1>7. first = IF hot THEN SyncCursorWatchInterval(up, h) ELSE here
  <2>1. ~Up(here) /\ ~looked.drag /\ ~looked.hold
    <3> HIDE DEF here, looked
    <3> QED  BY <1>3, <1>4 DEF Up, Alike
  <2>2. BeginShow(here, h) = SyncCursorWatchInterval(up, h)
    <3> HIDE DEF here
    <3> QED  BY <2>1, <1>4 DEF BeginShow
  <2>3. first = IF hot THEN BeginShow(here, h) ELSE here
    BY <2>1 DEF HandlePointer
  <2> QED  BY <2>2, <2>3
<1>8. Started(p, m, h) = IF first.vis = "Hidden" THEN [first EXCEPT !.timers = {"refresh"}]
                                                 ELSE first
  BY DEF Started
<1> HIDE DEF first, here, up, looked
<1> QED  BY <1>4, <1>5, <1>6, <1>7, <1>8

LEMMA InitInv == RevealInit => RevealIInv
<1> SUFFICES ASSUME RevealInit PROVE RevealIInv
  OBVIOUS
<1>1. scene \in Scenes /\ cursor \in Pixels /\ foreground \in Foregrounds /\ hook \in BOOLEAN
  BY PixelsAreRead DEF RevealInit
<1>2. Good(dock)
  BY <1>1, StartedIsGood DEF RevealInit
<1> QED  BY <1>1, <1>2, ShownHere DEF RevealInit, RevealIInv, RevealTypeOK, SceneIsRead, Good

LEMMA PointerMessageInv == RevealIInv /\ PointerMessage => RevealIInv'
<1> SUFFICES ASSUME RevealIInv, PointerMessage PROVE RevealIInv'
  OBVIOUS
<1>1. PICK over \in MayBeOver(dock, posted) :
        dock' = IF NeedsHookPointerPost(dock, posted, over)
                THEN HandlePointer(dock, posted, over, hook) ELSE dock
  BY DEF PointerMessage
<1>2. Good(dock')
  BY <1>1, GoodNow, OverIsBoolean, HandlePointerIsGood DEF PointerMessage
<1> QED  BY <1>2, DockStep DEF PointerMessage, RevealIInv, RevealTypeOK

LEMMA InputMoveInv == RevealIInv /\ InputMove => RevealIInv'
<1> SUFFICES ASSUME RevealIInv, InputMove PROVE RevealIInv'
  OBVIOUS
<1>1. Good(dock')
  BY GoodNow, HandlePointerIsGood DEF InputMove
<1> QED  BY <1>1, DockStep DEF InputMove, RevealIInv, RevealTypeOK

LEMMA DeliverWinEventInv == RevealIInv /\ DeliverWinEvent => RevealIInv'
<1> SUFFICES ASSUME RevealIInv, DeliverWinEvent PROVE RevealIInv'
  OBVIOUS
<1> QED  BY GoodNow, DockStep DEF DeliverWinEvent, RevealIInv, RevealTypeOK

LEMMA SyncMessageInv == RevealIInv /\ SyncMessage => RevealIInv'
<1> SUFFICES ASSUME RevealIInv, SyncMessage PROVE RevealIInv'
  OBVIOUS
<1>0. PICK h \in Hooks, over \in MayBeOver(dock, cursor) :
        /\ hook' = h
        /\ \E synced \in {SyncCursorWatchInterval([dock EXCEPT !.elevated = "unknown"], h)} :
            dock' = IF dock.drag THEN synced ELSE HandlePointer(synced, cursor, over, h)
  BY DEF SyncMessage
<1> DEFINE synced == SyncCursorWatchInterval([dock EXCEPT !.elevated = "unknown"], h)
<1>1. /\ hook' = h
      /\ dock' = IF dock.drag THEN synced ELSE HandlePointer(synced, cursor, over, h)
  BY <1>0
<1>2. h \in BOOLEAN /\ over \in BOOLEAN
  BY GoodNow, OverIsBoolean DEF Hooks
<1> DEFINE asked == [dock EXCEPT !.elevated = "unknown"]
<1>3. asked \in Ui /\ Alike(dock, asked)
  BY GoodNow DEF Ui, Alike
<1>4. synced = SyncCursorWatchInterval(asked, h)
  OBVIOUS
<1> HIDE DEF asked, synced
<1>5. Good(synced)
  BY <1>2, <1>3, <1>4, GoodNow, SyncIsGood, AlikeIsGood DEF Alike, Good
<1>6. Good(dock')
  BY <1>1, <1>2, <1>5, GoodNow, HandlePointerIsGood
<1> QED  BY <1>1, <1>2, <1>6, DockStep DEF SyncMessage, RevealIInv, RevealTypeOK

LEMMA PumpInv == RevealIInv /\ Pump => RevealIInv'
<1> SUFFICES ASSUME RevealIInv, Pump PROVE RevealIInv'
  OBVIOUS
<1>0. PICK h \in Hooks, over \in MayBeOver(dock, cursor) :
      \E synced \in {SyncCursorWatchInterval(dock, h)} :
        LET stiller == [synced EXCEPT !.still = IF @ < MaxStill THEN @ + 1 ELSE @]
            calmed == IF stiller.still = MaxStill /\ ~stiller.calm
                      THEN SyncCursorWatchInterval([stiller EXCEPT !.calm = TRUE], h)
                      ELSE stiller
            awake == IF synced.calm \/ synced.still # 0
                     THEN SyncCursorWatchInterval(
                            [synced EXCEPT !.calm = FALSE, !.still = 0], h)
                     ELSE synced
        IN  /\ hook' = h /\ unheard' = (unheard /\ (dock.drag \/ cursor = dock.last))
            /\ dock' = IF dock.drag THEN synced
                       ELSE IF cursor = dock.last
                       THEN IF dock.vis = "Visible" THEN calmed ELSE synced
                       ELSE HandlePointer(awake, cursor, over, h)
  BY DEF Pump
<1>1. PICK synced \in {SyncCursorWatchInterval(dock, h)} :
        LET stiller == [synced EXCEPT !.still = IF @ < MaxStill THEN @ + 1 ELSE @]
            calmed == IF stiller.still = MaxStill /\ ~stiller.calm
                      THEN SyncCursorWatchInterval([stiller EXCEPT !.calm = TRUE], h)
                      ELSE stiller
            awake == IF synced.calm \/ synced.still # 0
                     THEN SyncCursorWatchInterval(
                            [synced EXCEPT !.calm = FALSE, !.still = 0], h)
                     ELSE synced
        IN  /\ hook' = h /\ unheard' = (unheard /\ (dock.drag \/ cursor = dock.last))
            /\ dock' = IF dock.drag THEN synced
                       ELSE IF cursor = dock.last
                       THEN IF dock.vis = "Visible" THEN calmed ELSE synced
                       ELSE HandlePointer(awake, cursor, over, h)
  BY <1>0
<1>2. h \in BOOLEAN /\ over \in BOOLEAN
  BY GoodNow, OverIsBoolean DEF Hooks
<1>3. Good(synced)
  BY <1>2, GoodNow, SyncIsGood, AlikeIsGood DEF Good
<1> DEFINE stiller == [synced EXCEPT !.still = IF @ < MaxStill THEN @ + 1 ELSE @]
           stopped == [stiller EXCEPT !.calm = TRUE]
           moving == [synced EXCEPT !.calm = FALSE, !.still = 0]
           calmed == IF stiller.still = MaxStill /\ ~stiller.calm
                     THEN SyncCursorWatchInterval(stopped, h) ELSE stiller
           awake == IF synced.calm \/ synced.still # 0
                    THEN SyncCursorWatchInterval(moving, h) ELSE synced
<1>4. /\ hook' = h /\ unheard' = (unheard /\ (dock.drag \/ cursor = dock.last))
      /\ dock' \in {synced, calmed, HandlePointer(awake, cursor, over, h)}
  BY <1>1
<1>5. MaxStill \in Nat
  BY PixelsAreRead
<1>6. synced.still \in 0 .. MaxStill
  BY <1>3 DEF Good, Ui
<1>7. (IF synced.still < MaxStill THEN synced.still + 1 ELSE synced.still) \in 0 .. MaxStill
  BY <1>5, <1>6
<1>8. /\ stiller \in Ui /\ Alike(synced, stiller)
      /\ stopped \in Ui /\ Alike(synced, stopped)
      /\ moving \in Ui /\ Alike(synced, moving)
  <2>1. synced \in Ui
    BY <1>3 DEF Good
  <2>2. stiller \in Ui /\ Alike(synced, stiller)
    BY <1>7, <2>1 DEF Ui, Alike
  <2>3. stopped \in Ui /\ Alike(synced, stopped)
    <3> HIDE DEF stiller
    <3> QED  BY <2>2 DEF Ui, Alike
  <2>4. moving \in Ui /\ Alike(synced, moving)
    <3>1. 0 \in 0 .. MaxStill
      BY <1>5
    <3> QED  BY <2>1, <3>1 DEF Ui, Alike
  <2> QED  BY <2>2, <2>3, <2>4
<1> HIDE DEF stiller, stopped, moving
<1>9. Good(stiller) /\ Good(stopped) /\ Good(moving)
  BY <1>3, <1>8, AlikeIsGood
<1>10. Good(calmed) /\ Good(awake)
  BY <1>2, <1>3, <1>9, SyncIsGood, AlikeIsGood DEF Good
<1> HIDE DEF calmed, awake
<1>11. Good(dock')
  BY <1>2, <1>3, <1>4, <1>10, GoodNow, HandlePointerIsGood
<1>12. unheard' \in BOOLEAN
  BY <1>4, GoodNow DEF RevealIInv, RevealTypeOK
<1> QED  BY <1>2, <1>4, <1>11, <1>12, DockStep DEF Pump, RevealIInv, RevealTypeOK

LEMMA MonitorTickInv == RevealIInv /\ MonitorTick => RevealIInv'
<1> SUFFICES ASSUME RevealIInv, MonitorTick PROVE RevealIInv'
  OBVIOUS
<1>1. PICK h \in Hooks, over \in MayBeOver(dock, cursor) :
        /\ hook' = h /\ unheard' = (unheard \/ h # hook)
        /\ \E kept \in {MaintainHold(dock, over, hook)} :
            dock' = SyncCursorWatchInterval(kept, h)
  BY DEF MonitorTick
<1> DEFINE kept == MaintainHold(dock, over, hook)
<1>2. h \in BOOLEAN /\ over \in BOOLEAN
  BY GoodNow, OverIsBoolean DEF Hooks
<1>3. Good(kept)
  BY <1>2, GoodNow, MaintainHoldIsGood
<1> HIDE DEF kept
<1>4. Good(dock')
  BY <1>1, <1>2, <1>3, SyncIsGood, AlikeIsGood DEF Good, kept
<1>5. unheard' \in BOOLEAN
  BY <1>1 DEF RevealIInv, RevealTypeOK
<1> QED  BY <1>1, <1>2, <1>4, <1>5, DockStep DEF MonitorTick, RevealIInv, RevealTypeOK

LEMMA TimerInv == RevealIInv /\ (SlideFinishes \/ HoldRunsOut \/ ElevationExpires) => RevealIInv'
<1> SUFFICES ASSUME RevealIInv, SlideFinishes \/ HoldRunsOut \/ ElevationExpires
             PROVE  RevealIInv'
  OBVIOUS
<1>1. CASE SlideFinishes
  <2>1. Good(dock')
    BY <1>1, GoodNow, SlideEndsIsGood DEF SlideFinishes
  <2> QED  BY <1>1, <2>1, DockStep DEF SlideFinishes, RevealIInv, RevealTypeOK
<1>2. CASE HoldRunsOut
  <2>1. dock' \in Ui /\ Alike(dock, dock')
    BY <1>2, GoodNow DEF HoldRunsOut, Ui, Alike
  <2>2. Good(dock')
    BY <2>1, GoodNow, AlikeIsGood
  <2> QED  BY <1>2, <2>2, DockStep DEF HoldRunsOut, RevealIInv, RevealTypeOK
<1>3. CASE ElevationExpires
  <2>1. dock' \in Ui /\ Alike(dock, dock')
    BY <1>3, GoodNow DEF ElevationExpires, Ui, Alike
  <2>2. Good(dock')
    BY <2>1, GoodNow, AlikeIsGood
  <2> QED  BY <1>3, <2>2, DockStep DEF ElevationExpires, RevealIInv, RevealTypeOK
<1> QED  BY <1>1, <1>2, <1>3

LEMMA DockInv == RevealIInv /\ RevealDock => RevealIInv'
  BY PointerMessageInv, InputMoveInv, DeliverWinEventInv, SyncMessageInv, PumpInv,
     MonitorTickInv, TimerInv DEF RevealDock

-----------------------------------------------------------------------------
(* The user.                                                               *)

\* The desktop moves under a dock that stays as it is.
LEMMA DesktopInv ==
    ASSUME RevealIInv, scene' = scene,
           \/ \E p \in scene.pixels : MovePointer(p)
           \/ \E f \in scene.windows : ForegroundChanges(f) \/ FillsQuietly(f.fills)
           \/ FlyoutChanges
    PROVE  RevealIInv'
<1>1. CASE \E p \in scene.pixels : MovePointer(p)
  <2>1. PICK p \in scene.pixels : MovePointer(p)
    BY <1>1
  <2>2. p \in Pixels
    BY GoodNow
  <2>3. RevealTypeOK'
    BY <2>1, <2>2 DEF MovePointer, RevealIInv, RevealTypeOK
  <2> QED  BY <2>1, <2>3 DEF MovePointer, RevealIInv, SceneIsRead, OverlayFollowsDock, Up
<1>2. CASE \E f \in scene.windows : ForegroundChanges(f) \/ FillsQuietly(f.fills)
  <2>1. PICK f \in scene.windows : ForegroundChanges(f) \/ FillsQuietly(f.fills)
    BY <1>2
  <2>2. f \in Foregrounds /\ [foreground EXCEPT !.fills = f.fills] \in Foregrounds
    BY GoodNow DEF Foregrounds
  <2>3. RevealTypeOK'
    BY <2>1, <2>2 DEF ForegroundChanges, FillsQuietly, RevealIInv, RevealTypeOK
  <2> QED  BY <2>1, <2>3
           DEF ForegroundChanges, FillsQuietly, RevealIInv, SceneIsRead, OverlayFollowsDock, Up
<1>3. CASE FlyoutChanges
  BY <1>3 DEF FlyoutChanges, RevealIInv, RevealTypeOK, SceneIsRead, OverlayFollowsDock, Up
<1> QED  BY <1>1, <1>2, <1>3

\* A drag or a popup on the input window, which is shown only while it is up.
LEMMA GestureInv ==
    ASSUME RevealIInv, scene' = scene,
           BeginDrag \/ FinishDrag \/ OpenPopup \/ ClosePopup
    PROVE  RevealIInv'
<1>1. Good(dock')
  <2>1. CASE BeginDrag \/ FinishDrag
    <3>1. dock' \in Ui /\ Alike(dock, dock')
      BY ZenonT(60), <2>1, GoodNow DEF BeginDrag, FinishDrag, Ui, Alike
    <3> QED  BY <3>1, GoodNow, AlikeIsGood
  <2>2. CASE OpenPopup \/ ClosePopup
    <3>1. dock' \in Ui
      BY ZenonT(60), <2>2, GoodNow DEF OpenPopup, ClosePopup, Ui
    <3>2. Shown(dock')
      BY <2>2, GoodNow DEF OpenPopup, ClosePopup, Good, Shown, Up, Ui
    <3> QED  BY <3>1, <3>2 DEF Good
  <2> QED  BY <2>1, <2>2
<1> QED  BY <1>1, DockStep
         DEF BeginDrag, FinishDrag, OpenPopup, ClosePopup, RevealIInv, RevealTypeOK

LEMMA SearchInv ==
    ASSUME RevealIInv, scene' = scene,
           SearchOpens \/ \E hide \in BOOLEAN, f \in scene.windows : SearchCloses(hide, f)
    PROVE  RevealIInv'
<1>1. CASE SearchOpens
  <2> DEFINE shown == BeginShow(dock, hook)
  <2>1. Good(shown)
    BY GoodNow, BeginShowIsGood
  <2>2. dock' = [shown EXCEPT !.popup = FALSE, !.search = TRUE]
    BY <1>1 DEF SearchOpens
  <2> HIDE DEF shown
  <2>3. dock' \in Ui
    BY <2>1, <2>2 DEF Good, Ui
  <2>4. Shown(dock')
    BY <2>1, <2>2 DEF Good, Shown, Up, Ui
  <2>5. OverlayFollowsDock'
    BY <2>4 DEF OverlayFollowsDock, Shown, Up
  <2>6. DockWindow \in Foregrounds
    BY DEF DockWindow, Foregrounds
  <2> QED  BY <1>1, <2>3, <2>5, <2>6 DEF SearchOpens, RevealIInv, RevealTypeOK, SceneIsRead
<1>2. CASE \E hide \in BOOLEAN, f \in scene.windows : SearchCloses(hide, f)
  <2>1. PICK hide \in BOOLEAN, f \in scene.windows : SearchCloses(hide, f)
    BY <1>2
  <2> DEFINE closed == [dock EXCEPT !.search = FALSE]
  <2>2. closed \in Ui /\ Alike(dock, closed)
    BY GoodNow DEF Ui, Alike
  <2>3. dock' \in {closed, BeginHide(closed, hook)}
    BY <2>1 DEF SearchCloses
  <2> HIDE DEF closed
  <2>4. Good(dock')
    BY <2>2, <2>3, GoodNow, AlikeIsGood, BeginHideIsGood
  <2>5. OverlayFollowsDock'
    BY <2>4 DEF OverlayFollowsDock, Good, Shown, Up
  <2>6. f \in Foregrounds
    BY GoodNow
  <2> QED  BY <2>1, <2>4, <2>5, <2>6
           DEF SearchCloses, RevealIInv, RevealTypeOK, SceneIsRead, Good
<1> QED  BY <1>1, <1>2

LEMMA OpenClockInv ==
    ASSUME RevealIInv, scene' = scene, NEW opened \in BOOLEAN, OpenClock(opened)
    PROVE  RevealIInv'
<1> DEFINE held == PrepareShellForStartMenu(dock)
<1>1. PICK over \in MayBeOver(dock, cursor) :
        dock' = IF opened THEN held ELSE ReleaseShellFlyoutHold(held, over, hook)
  BY DEF OpenClock
<1>2. Good(held)
  BY GoodNow, PrepareShellIsGood DEF OpenClock
<1> HIDE DEF held
<1>3. Good(dock')
  BY <1>1, <1>2, GoodNow, OverIsBoolean, ReleaseIsGood
<1> QED  BY <1>3, DockStep DEF OpenClock, RevealIInv, RevealTypeOK

LEMMA UserInv == RevealIInv /\ RevealUser => RevealIInv'
<1> SUFFICES ASSUME RevealIInv, RevealUser PROVE RevealIInv'
  OBVIOUS
<1>1. scene' = scene
  BY DEF RevealUser
<1> QED  BY <1>1, DesktopInv, GestureInv, SearchInv, OpenClockInv DEF RevealUser

-----------------------------------------------------------------------------

LEMMA StutterInv == RevealIInv /\ UNCHANGED revealVars => RevealIInv'
  BY DEF RevealIInv, RevealTypeOK, SceneIsRead, OverlayFollowsDock, Up

LEMMA AlwaysIInv == RevealSpec => []RevealIInv
<1>1. RevealIInv /\ [RevealNext]_revealVars => RevealIInv'
  BY DockInv, UserInv, StutterInv DEF RevealNext
<1> QED  BY InitInv, <1>1, PTL DEF RevealSpec

\* Every field of the dock, the pointer's messages and the desktop keep their
\* types, for any pixels, monitors, windows and doings.
THEOREM TypeCorrect == RevealSpec => []RevealTypeOK
<1>1. RevealIInv => RevealTypeOK
  BY DEF RevealIInv
<1> QED  BY AlwaysIInv, <1>1, PTL

\* The two overlay windows are shown exactly while the dock is up and no flyout
\* of the shell covers it, and a hidden dock keeps only its refresh timer.
THEOREM OverlayFollows == RevealSpec => []OverlayFollowsDock
<1>1. RevealIInv => OverlayFollowsDock
  BY DEF RevealIInv
<1> QED  BY AlwaysIInv, <1>1, PTL

HIDE DEF revealVars, Others

USE DEF boostVars, worldVars, passVars

-----------------------------------------------------------------------------
(* THE TASKBAR.                                                            *)

\* What the user is owed: while no exit was a crash, nor one without Explorer, the
\* setting is the user's when no dock runs, and is in the hands of the one that does.
AutoIsOwed ==
    spared =>
        /\ ~desk.up => desk.auto = users.auto
        /\ desk.up => desk.saved # "none" /\ (desk.saved = "auto" <=> users.auto)

\* No rectangle is lost when Explorer does not flatten; before the first trouble the
\* desktop is whole, and with the start of the dock as the only one it holds them all.
BarsAreOwed ==
    /\ ~temper.flattens /\ desk.alive => desk.tall = Bars
    /\ trouble = 0 => ~desk.up /\ desk.alive /\ desk.tall = Bars /\ ~desk.created
    /\ trouble = 1 /\ desk.up =>
          /\ desk.rects = Bars /\ desk.alive
          /\ ~desk.hold /\ ~desk.created /\ ~desk.repairing

TakeoverInv ==
    /\ TakeoverTypeOK /\ temper \in Tempers /\ users \in [auto : BOOLEAN, multi : MultiBefore]
    /\ AutoIsOwed /\ BarsAreOwed

-----------------------------------------------------------------------------
(* The dock's calls.  s is the desk before one and r the desk after it.    *)

\* Explorer lives on, the dock runs on, and no rectangle is lost for good.
Goes(s, r) ==
    /\ r \in Takeover
    /\ r.up = s.up /\ r.alive = s.alive /\ r.created = s.created /\ r.hold = s.hold
    /\ ~temper.flattens => r.tall = s.tall

Keeps(s, r) == Goes(s, r) /\ r.saved = s.saved /\ r.rects = s.rects
Stays(s, r) == Keeps(s, r) /\ r.repairing = s.repairing

LEMMA StaysOn ==
    ASSUME NEW q, NEW r, NEW s, Stays(q, r), Stays(r, s)
    PROVE  Stays(q, s)
  BY DEF Stays, Keeps, Goes

LEMMA CallsStay ==
    ASSUME NEW s \in Takeover
    PROVE  /\ \A b \in BOOLEAN : Stays(s, SetAuto(s, b))
           /\ Stays(s, HideBars(s)) /\ Stays(s, Collapse(s))
           /\ Stays(s, DisableMultiMonitor(s)) /\ Stays(s, Found(s))
<1> USE DEF Takeover, Stays, Keeps, Goes
<1>1. \A b \in BOOLEAN : Stays(s, SetAuto(s, b))
  BY DEF SetAuto
<1>2. Stays(s, HideBars(s))
  BY DEF HideBars
<1>3. Stays(s, Collapse(s))
  <2>1. s.tall \in SUBSET Bars /\ {} \in SUBSET Bars
    BY DEF Takeover
  <2>2. (IF temper.flattens THEN s.tall \ ToCollapse(s) ELSE s.tall) \in SUBSET Bars
    BY <2>1
  <2> QED  BY <2>1, <2>2 DEF Collapse
<1>4. Stays(s, DisableMultiMonitor(s)) /\ Stays(s, Found(s))
  BY DEF DisableMultiMonitor, Found
<1> QED  BY <1>1, <1>2, <1>3, <1>4

LEMMA ExpandStays ==
    ASSUME NEW s \in Takeover, temper \in Temper
    PROVE  Stays(s, Expand(s)) /\ Stays(s, ExpandBeside(s))
<1> USE DEF Takeover, Stays, Keeps, Goes, Temper
<1>1. Stays(s, Expand(s))
  BY ZenonT(60) DEF Expand
<1>2. Stays(s, ExpandBeside(s))
  <2>1. s.shown \in SUBSET Bars /\ s.tall \in SUBSET Bars
    BY DEF Takeover
  <2>2. /\ s.shown \ Beside(s) \in SUBSET Bars
        /\ (IF temper.flattens THEN s.tall \ Beside(s) ELSE s.tall) \in SUBSET Bars
    BY <2>1
  <2>3. (s.fullBeside \/ (Beside(s) # {} /\ temper.yieldsBeside)) \in BOOLEAN
    OBVIOUS
  <2> QED  BY ZenonT(60), <2>2, <2>3 DEF ExpandBeside
<1> QED  BY <1>1, <1>2

LEMMA CadenceStays ==
    ASSUME NEW s \in Takeover
    PROVE  Stays(s, StartMonitor(s)) /\ Stays(s, Fast(s)) /\ Stays(s, Calmer(s))
<1> DEFINE quiet == IF s.quiet < CalmPasses THEN s.quiet + 1 ELSE CalmPasses
<1>1. s.quiet \in 0 .. CalmPasses /\ CalmPasses \in 0 .. CalmPasses /\ 0 \in 0 .. CalmPasses
  BY TakeoverIsBounded DEF Takeover
<1>2. quiet \in 0 .. CalmPasses
  BY <1>1, TakeoverIsBounded
<1>3. (s.fast /\ quiet < CalmPasses) \in BOOLEAN
  OBVIOUS
<1> HIDE DEF quiet
<1> USE DEF Takeover, Stays, Keeps, Goes
<1>4. Stays(s, StartMonitor(s)) /\ Stays(s, Fast(s))
  BY ZenonT(60), <1>1 DEF StartMonitor, Fast
<1>5. Stays(s, [s EXCEPT !.quiet = quiet, !.fast = s.fast /\ quiet < CalmPasses])
  BY ZenonT(60), <1>2, <1>3
<1> QED  BY <1>4, <1>5 DEF Calmer, quiet

\* A suppression saves the setting it finds if none is saved, and records the
\* rectangles it finds.
Saved(s) == IF s.saved # "none" THEN s.saved ELSE IF IsAuto(s) THEN "auto" ELSE "plain"
Suppressed(s, r) ==
    /\ Goes(s, r) /\ r.repairing = s.repairing
    /\ r.saved = Saved(s) /\ r.rects = s.tall

LEMMA ThenStays ==
    ASSUME NEW q, NEW r, NEW s, Suppressed(q, r), Stays(r, s)
    PROVE  Suppressed(q, s)
  BY DEF Suppressed, Stays, Keeps, Goes

LEMMA SuppressSaves ==
    ASSUME NEW s \in Takeover, temper \in Temper
    PROVE  Suppressed(s, Suppress(s)) /\ Suppressed(s, HideTaskbar(s))
<1> DEFINE a == SaveAuto(s)
           b == SetAuto(a, FALSE)
           c == RecordRects(b)
           d == HideBars(c)
           e == Collapse(d)
           f == DisableMultiMonitor(e)
           g == Found(f)
           h == Expand(g)
           i == ExpandBeside(h)
<1>1. Goes(s, a) /\ a.repairing = s.repairing /\ a.saved = Saved(s) /\ a.tall = s.tall
  BY DEF SaveAuto, Saved, Goes, Takeover
<1>2. b \in Takeover /\ Stays(a, b) /\ b.tall = a.tall
  <2>1. a \in Takeover
    BY <1>1 DEF Goes
  <2>2. Stays(a, b)
    BY <2>1, CallsStay
  <2>3. b.tall = a.tall
    BY <2>1 DEF SetAuto, Takeover
  <2> QED  BY <2>2, <2>3 DEF Stays, Keeps, Goes
<1>3. Goes(b, c) /\ c.repairing = b.repairing /\ c.saved = b.saved /\ c.rects = b.tall
  BY <1>2 DEF RecordRects, Goes, Takeover
<1>4. Suppressed(s, c)
  BY <1>1, <1>2, <1>3 DEF Suppressed, Stays, Keeps, Goes
<1>5. Stays(c, d)
  BY <1>3, CallsStay DEF Goes
<1>6. Stays(d, e)
  BY <1>5, CallsStay DEF Stays, Keeps, Goes
<1>7. Stays(e, f)
  BY <1>6, CallsStay DEF Stays, Keeps, Goes
<1>8. Stays(f, g)
  BY <1>7, CallsStay DEF Stays, Keeps, Goes
<1>9. Stays(g, h)
  BY <1>8, ExpandStays DEF Stays, Keeps, Goes
<1>10. Stays(h, i)
  BY <1>9, ExpandStays DEF Stays, Keeps, Goes
<1>11. Suppressed(s, i)
  BY <1>4, <1>5, <1>6, <1>7, <1>8, <1>9, <1>10, ThenStays
<1>12. Stays(i, StartMonitor(i))
  BY <1>10, CadenceStays DEF Stays, Keeps, Goes
<1> HIDE DEF a, b, c, d, e, f, g, h, i
<1>13. Suppress(s) = i
  <2>1. d = HideBars(RecordRects(SetAuto(SaveAuto(s), FALSE)))
    BY DEF a, b, c, d
  <2>2. g = Found(DisableMultiMonitor(Collapse(d)))
    BY DEF e, f, g
  <2>3. h = Expand(g) /\ i = ExpandBeside(h)
    BY DEF h, i
  <2> QED  BY <2>1, <2>2, <2>3 DEF Suppress, Then
<1>14. HideTaskbar(s) = StartMonitor(i)
  BY <1>13 DEF HideTaskbar, Then
<1> QED  BY <1>11, <1>12, <1>13, <1>14, ThenStays

LEMMA MaintainStays ==
    ASSUME NEW s \in Takeover, temper \in Temper
    PROVE  /\ Stays(s, Maintain(s))
           /\ Stays(s, Then(Maintain(s), Fast)) /\ Stays(s, Then(Maintain(s), Calmer))
<1> DEFINE a == SetAuto(s, FALSE)
           b == HideBars(a)
           c == Collapse(b)
           d == Expand(c)
           e == ExpandBeside(d)
<1>1. Stays(s, a)
  BY CallsStay
<1>2. Stays(a, b)
  BY <1>1, CallsStay DEF Stays, Keeps, Goes
<1>3. Stays(b, c)
  BY <1>2, CallsStay DEF Stays, Keeps, Goes
<1>4. Stays(c, d)
  BY <1>3, ExpandStays DEF Stays, Keeps, Goes
<1>5. Stays(d, e)
  BY <1>4, ExpandStays DEF Stays, Keeps, Goes
<1>6. Stays(s, e)
  BY <1>1, <1>2, <1>3, <1>4, <1>5, StaysOn
<1>7. Stays(e, Fast(e)) /\ Stays(e, Calmer(e))
  BY <1>5, CadenceStays DEF Stays, Keeps, Goes
<1>8. Maintain(s) = e
  BY DEF Maintain, Then
<1> HIDE DEF e
<1>9. Then(Maintain(s), Fast) = Fast(e) /\ Then(Maintain(s), Calmer) = Calmer(e)
  BY <1>8 DEF Then
<1> QED  BY <1>6, <1>7, <1>8, <1>9, StaysOn

-----------------------------------------------------------------------------
(* The repair of the windows.                                              *)

LEMMA PutBackStays ==
    ASSUME NEW s \in Takeover
    PROVE  Stays(s, PutBack(s)) /\ Stays(s, Capture(s))
<1> USE DEF Takeover, Stays, Keeps, Goes
<1>1. Stays(s, [s EXCEPT !.window = "low", !.mover = "dock"])
  OBVIOUS
<1>2. Stays(s, PutBack(s))
  BY <1>1 DEF PutBack
<1>3. Stays(s, [s EXCEPT !.snap = s.window, !.snapMonitors = s.monitors])
  OBVIOUS
<1>4. Stays(s, Capture(s))
  BY <1>3 DEF Capture
<1> QED  BY <1>2, <1>4

LEMMA MendedStays ==
    ASSUME NEW s \in Takeover, temper \in Temper
    PROVE  Stays(s, Mended(s))
<1> DEFINE a == IF s.full THEN s ELSE Expand(s)
<1>1. Stays(s, a)
  BY ExpandStays DEF Stays, Keeps, Goes
<1>2. Stays(a, PutBack(a))
  BY <1>1, PutBackStays DEF Stays, Keeps, Goes
<1> QED  BY <1>1, <1>2, StaysOn DEF Mended

\* A pass leaves the desk to its repair or ends it.
Passes(s, r) == Keeps(s, r) /\ (r.repairing => s.repairing)

LEMMA ClearPasses ==
    ASSUME NEW s \in Takeover
    PROVE  Passes(s, ClearWake(s)) /\ Passes(s, LastPass(s)) /\ ~ClearWake(s).repairing
<1>1. 0 \in 0 .. WakePasses
  BY TakeoverIsBounded
<1> USE <1>1 DEF Takeover, Passes, Keeps, Goes
<1>2. Passes(s, ClearWake(s)) /\ ~ClearWake(s).repairing
  BY ZenonT(60) DEF ClearWake
<1>3. Passes(s, [s EXCEPT !.passes = 0, !.repairing = FALSE])
  OBVIOUS
<1>4. Passes(s, LastPass(s))
  BY <1>2, <1>3 DEF LastPass
<1> QED  BY <1>2, <1>4

LEMMA RepairPasses ==
    ASSUME NEW s \in Takeover, NEW dragging \in BOOLEAN, temper \in Temper
    PROVE  Passes(s, RepairPass(s, dragging))
<1> DEFINE fewer == IF s.passes = 0 THEN 0 ELSE s.passes - 1
           ticked == [s EXCEPT !.passes = fewer, !.held = dragging]
           same == ~dragging /\ ticked.monitors = ticked.snapMonitors
           repaired == IF same THEN Mended(ticked) ELSE ticked
<1>1. fewer \in 0 .. WakePasses
  BY TakeoverIsBounded DEF Takeover
<1> HIDE DEF fewer
<1>2. Stays(s, ticked)
  BY <1>1 DEF Takeover, Stays, Keeps, Goes
<1> HIDE DEF ticked, same
<1>3. Stays(s, repaired)
  BY <1>2, MendedStays, StaysOn DEF Stays, Keeps, Goes
<1> HIDE DEF repaired
<1>4. Passes(repaired, LastPass(repaired))
  BY <1>3, ClearPasses DEF Stays, Keeps, Goes
<1>5. Passes(s, repaired) /\ Passes(s, LastPass(repaired))
  BY <1>3, <1>4 DEF Stays, Passes, Keeps, Goes
<1>6. \/ RepairPass(s, dragging) = ClearWake(s)
      \/ RepairPass(s, dragging) = LastPass(repaired)
      \/ RepairPass(s, dragging) = repaired
  BY DEF RepairPass, repaired, same, ticked, fewer
<1> QED  BY <1>5, <1>6, ClearPasses

LEMMA RepairKeeps ==
    ASSUME NEW s \in Takeover, NEW dragging \in BOOLEAN, temper \in Temper
    PROVE  Keeps(s, BeginRepair(s, dragging))
<1> DEFINE begun == [s EXCEPT !.passes = WakePasses]
           first == RepairPass(begun, dragging)
<1>1. Stays(s, begun)
  BY TakeoverIsBounded DEF Takeover, Stays, Keeps, Goes
<1> HIDE DEF begun
<1>2. Passes(begun, first)
  BY <1>1, RepairPasses DEF Stays, Keeps, Goes
<1> HIDE DEF first
<1>3. Keeps(s, first)
  BY <1>1, <1>2 DEF Stays, Passes, Keeps, Goes
<1>4. Keeps(s, [first EXCEPT !.repairing = TRUE])
  BY <1>3 DEF Takeover, Keeps, Goes
<1>5. BeginRepair(s, dragging) \in {s, first, [first EXCEPT !.repairing = TRUE]}
  BY DEF BeginRepair, begun, first
<1> QED  BY <1>3, <1>4, <1>5 DEF Keeps, Goes

\* After a wake the bars are suppressed and the repair begins.
Owes(s, r) == Goes(s, r) /\ r.saved = Saved(s)

LEMMA AwakeOwes ==
    ASSUME NEW s \in Takeover, NEW dragging \in BOOLEAN, temper \in Temper
    PROVE  Owes(s, Awake(s, dragging)) /\ Owes(s, HideTaskbar(s))
<1>1. Suppressed(s, HideTaskbar(s))
  BY SuppressSaves
<1>2. Keeps(HideTaskbar(s), BeginRepair(HideTaskbar(s), dragging))
  BY <1>1, RepairKeeps DEF Suppressed, Goes
<1> QED  BY <1>1, <1>2 DEF Awake, Owes, Suppressed, Keeps, Goes

-----------------------------------------------------------------------------
(* The process.                                                            *)

\* What RestoreTaskbar leaves: the setting and the rectangles, if Explorer lives.
Restored(s, r) ==
    /\ r \in Takeover
    /\ r.up = s.up /\ r.alive = s.alive /\ r.created = s.created
    /\ ~r.hold /\ ~r.repairing /\ r.saved = "none"
    /\ r.auto = (IF s.saved # "none" /\ s.alive THEN s.saved = "auto" ELSE s.auto)
    /\ s.alive => r.tall = s.tall \cup s.rects
    /\ r.shown = r.tall

LEMMA RestoreGives ==
    ASSUME NEW s \in Takeover
    PROVE  Restored(s, Restore(s))
<1> DEFINE a == [s EXCEPT !.hold = FALSE, !.ticking = FALSE]
           b == ClearWake(a)
           c == GiveAutoBack(b)
           tall == IF c.alive THEN c.tall \cup c.rects ELSE {}
<1>1. /\ a \in Takeover /\ ~a.hold /\ a.saved = s.saved /\ a.auto = s.auto /\ a.up = s.up
      /\ a.alive = s.alive /\ a.created = s.created /\ a.tall = s.tall /\ a.rects = s.rects
  BY DEF Takeover
<1> HIDE DEF a
<1>2. /\ b \in Takeover /\ ~b.hold /\ b.saved = s.saved /\ b.auto = s.auto /\ b.up = s.up
      /\ b.alive = s.alive /\ b.created = s.created /\ b.tall = s.tall /\ b.rects = s.rects
      /\ ~b.repairing
  <2>1. 0 \in 0 .. WakePasses
    BY TakeoverIsBounded
  <2>2. b \in Takeover
    BY ZenonT(60), <1>1, <2>1 DEF ClearWake, Takeover
  <2> QED  BY <1>1, <2>2 DEF ClearWake, Takeover
<1> HIDE DEF b
<1>3. /\ c \in Takeover /\ ~c.hold /\ c.saved = "none" /\ c.up = s.up
      /\ c.auto = (IF s.saved # "none" /\ s.alive THEN s.saved = "auto" ELSE s.auto)
      /\ c.alive = s.alive /\ c.created = s.created /\ c.tall = s.tall /\ c.rects = s.rects
      /\ ~c.repairing
  <2>1. CASE s.saved = "none"
    BY <1>2, <2>1 DEF GiveAutoBack
  <2>2. CASE s.saved # "none"
    <3> DEFINE d == [b EXCEPT !.saved = "none"]
    <3>1. /\ d \in Takeover /\ ~d.hold /\ d.saved = "none" /\ d.up = s.up /\ d.auto = s.auto
          /\ d.alive = s.alive /\ d.created = s.created /\ d.tall = s.tall
          /\ d.rects = s.rects /\ ~d.repairing
      BY <1>2 DEF Takeover
    <3> HIDE DEF d
    <3>2. c = SetAuto(d, s.saved = "auto")
      BY <1>2, <2>2 DEF c, d, GiveAutoBack
    <3>3. CASE s.alive
      <4> DEFINE was == s.saved = "auto"
      <4>1. was \in BOOLEAN /\ c = [d EXCEPT !.auto = was]
        BY <3>1, <3>2, <3>3 DEF SetAuto
      <4> HIDE DEF was, c
      <4>2. /\ c \in Takeover /\ ~c.hold /\ c.saved = "none" /\ c.up = s.up /\ c.auto = was
            /\ c.alive = s.alive /\ c.created = s.created /\ c.tall = s.tall
            /\ c.rects = s.rects /\ ~c.repairing
        BY <3>1, <4>1 DEF Takeover
      <4> QED  BY <2>2, <3>3, <4>2 DEF was
    <3>4. CASE ~s.alive
      BY <3>1, <3>2, <3>4 DEF SetAuto
    <3> QED  BY <3>3, <3>4
  <2> QED  BY <2>1, <2>2
<1> HIDE DEF c
<1>4. tall \in SUBSET Bars
  BY <1>3 DEF Takeover
<1>5. s.alive => tall = s.tall \cup s.rects
  BY <1>3
<1> HIDE DEF tall
<1>6. Restored(s, [c EXCEPT !.tall = tall, !.shown = tall, !.hidden = FALSE, !.rects = {}])
  BY ZenonT(60), <1>3, <1>4, <1>5 DEF Restored, Takeover
<1> QED  BY <1>6 DEF Restore, a, b, c, tall

LEMMA FreshIsNew ==
    ASSUME NEW s \in Takeover
    PROVE  /\ Fresh(s) \in Takeover /\ Gone(s) \in Takeover
           /\ Fresh(s).up /\ Fresh(s).saved = "none" /\ Fresh(s).rects = {}
           /\ ~Fresh(s).repairing /\ ~Fresh(s).hold
           /\ Fresh(s).alive = s.alive /\ Fresh(s).auto = s.auto /\ Fresh(s).tall = s.tall
           /\ Fresh(s).created = s.created
           /\ ~Gone(s).up /\ Gone(s).auto = s.auto /\ Gone(s).tall = s.tall
           /\ Gone(s).alive = s.alive /\ Gone(s).shown = s.shown
<1>1. 0 \in 0 .. WakePasses /\ 0 \in 0 .. CalmPasses /\ {} \in SUBSET Bars
  BY TakeoverIsBounded
<1> DEFINE f == Fresh(s)
<1>2. f \in Takeover
  <2> DEFINE a == [s EXCEPT !.up = TRUE, !.saved = "none", !.rects = {}, !.known = {}]
             b == [a EXCEPT !.hidden = FALSE, !.observed = "none",
                            !.ticking = FALSE, !.fast = FALSE]
             c == [b EXCEPT !.quiet = 0, !.hold = FALSE, !.locked = FALSE, !.asleep = FALSE]
             d == [c EXCEPT !.snap = "none", !.passes = 0, !.repairing = FALSE, !.held = FALSE]
  <2>1. f = d
    BY DEF Fresh
  <2>2. a \in Takeover
    BY <1>1 DEF Takeover
  <2> HIDE DEF f, a
  <2>3. b \in Takeover
    BY ZenonT(60), <2>2 DEF Takeover
  <2> HIDE DEF b
  <2>4. c \in Takeover
    BY ZenonT(60), <1>1, <2>3 DEF Takeover
  <2> HIDE DEF c
  <2>5. d \in Takeover
    BY ZenonT(60), <1>1, <2>4 DEF Takeover
  <2> QED  BY <2>1, <2>5
<1>3. /\ f.up /\ f.saved = "none" /\ f.rects = {} /\ ~f.repairing /\ ~f.hold
  BY SMTT(60) DEF Fresh, Takeover
<1>4. /\ f.alive = s.alive /\ f.auto = s.auto /\ f.tall = s.tall /\ f.created = s.created
      /\ f.shown = s.shown
  BY SMTT(60) DEF Fresh, Takeover
<1> HIDE DEF f
<1> DEFINE g == [f EXCEPT !.up = FALSE, !.snapMonitors = 2, !.created = FALSE]
<1>5. g \in Takeover
  BY ZenonT(60), <1>2 DEF Takeover
<1>6. /\ ~g.up /\ g.auto = f.auto /\ g.tall = f.tall /\ g.alive = f.alive
      /\ g.shown = f.shown
  BY <1>2 DEF Takeover
<1> HIDE DEF g
<1>7. Gone(s) = g
  BY DEF Gone, f, g
<1> QED  BY <1>2, <1>3, <1>4, <1>5, <1>6, <1>7 DEF f

LEMMA StartInv ==
    ASSUME TakeoverInv, Start
    PROVE  TakeoverInv' /\ desk'.up
<1> DEFINE f == Fresh(desk)
           r == Restore(f)
<1>1. temper \in Temper /\ desk \in Takeover /\ desk.alive /\ ~desk.up
  BY TakeoverIsBounded DEF TakeoverInv, TakeoverTypeOK, Start
<1>2. /\ f \in Takeover /\ f.up /\ f.saved = "none" /\ f.rects = {} /\ f.alive
      /\ f.auto = desk.auto /\ f.tall = desk.tall /\ f.created = desk.created
  BY <1>1, FreshIsNew
<1> HIDE DEF f
<1>3. Restored(f, r)
  BY <1>2, RestoreGives
<1>4. /\ r \in Takeover /\ r.up /\ r.saved = "none" /\ r.alive /\ r.auto = desk.auto
      /\ r.tall = desk.tall /\ r.created = desk.created /\ ~r.hold /\ ~r.repairing
  BY <1>2, <1>3 DEF Restored
<1> HIDE DEF r
<1>5. Suppressed(r, desk')
  <2>1. desk' = HideTaskbar(r)
    BY DEF Start, r, f
  <2> QED  BY <1>1, <1>4, <2>1, SuppressSaves
<1>6. /\ desk' \in Takeover /\ desk'.up /\ desk'.alive /\ desk'.created = desk.created
      /\ ~desk'.hold /\ ~desk'.repairing /\ desk'.rects = desk.tall
      /\ desk'.saved = (IF desk.auto THEN "auto" ELSE "plain")
      /\ ~temper.flattens => desk'.tall = desk.tall
  BY <1>4, <1>5 DEF Suppressed, Goes, Saved, IsAuto
<1>7. /\ trouble' = trouble + 1 /\ trouble' \in 0 .. MaxTrouble /\ trouble \in Nat
      /\ temper' = temper /\ users' = users /\ spared' = spared
  BY TakeoverIsBounded DEF Start, TakeoverInv, TakeoverTypeOK
<1>8. TakeoverTypeOK' /\ temper' \in Tempers /\ users' \in [auto : BOOLEAN, multi : MultiBefore]
  BY <1>6, <1>7 DEF TakeoverInv, TakeoverTypeOK
<1>9. AutoIsOwed'
  BY <1>1, <1>6, <1>7 DEF TakeoverInv, AutoIsOwed
<1>10. BarsAreOwed'
  BY <1>1, <1>6, <1>7 DEF TakeoverInv, BarsAreOwed
<1> QED  BY <1>6, <1>8, <1>9, <1>10 DEF TakeoverInv

\* A normal exit under a living Explorer pays both debts.
LEMMA StopInv ==
    ASSUME TakeoverInv, Stop
    PROVE  /\ TakeoverInv'
           /\ spared' => /\ trouble = 1 \/ ~temper.flattens => desk'.shown = Bars
                         /\ desk'.auto = users.auto
<1> DEFINE r == Restore(desk)
<1>1. desk \in Takeover /\ desk.up
  BY DEF TakeoverInv, TakeoverTypeOK, Stop
<1>2. Restored(desk, r)
  BY <1>1, RestoreGives
<1>3. desk' = Gone(r)
  BY DEF Stop
<1> HIDE DEF r
<1>4. /\ desk' \in Takeover /\ ~desk'.up /\ desk'.auto = r.auto /\ desk'.tall = r.tall
      /\ desk'.alive = desk.alive /\ desk'.shown = r.shown
  BY <1>2, <1>3, FreshIsNew DEF Restored
<1>5. /\ temper' = temper /\ users' = users /\ trouble' = trouble
      /\ spared' = (spared /\ desk.alive)
  BY DEF Stop
<1>6. spared' => desk'.auto = users.auto
  BY <1>1, <1>2, <1>4, <1>5 DEF Restored, TakeoverInv, AutoIsOwed
<1>7. desk.alive => desk'.tall = desk.tall \cup desk.rects /\ desk'.shown = desk'.tall
  BY <1>2, <1>4 DEF Restored
<1>8. (trouble = 1 \/ ~temper.flattens) /\ desk.alive => desk'.tall = Bars
  <2>1. desk.tall \subseteq Bars /\ desk.rects \subseteq Bars
    BY <1>1 DEF Takeover
  <2> QED  BY <1>1, <1>7, <2>1 DEF TakeoverInv, BarsAreOwed
<1>9. TakeoverTypeOK' /\ temper' \in Tempers /\ users' \in [auto : BOOLEAN, multi : MultiBefore]
  BY <1>4, <1>5 DEF TakeoverInv, TakeoverTypeOK
<1>10. AutoIsOwed'
  BY <1>4, <1>5, <1>6 DEF AutoIsOwed
<1>11. BarsAreOwed'
  BY <1>1, <1>4, <1>5, <1>8 DEF TakeoverInv, BarsAreOwed
<1> QED  BY <1>5, <1>6, <1>7, <1>8, <1>9, <1>10, <1>11 DEF TakeoverInv

LEMMA CrashInv ==
    ASSUME TakeoverInv, Crash
    PROVE  TakeoverInv' /\ ~spared'
<1>1. /\ desk' \in Takeover /\ ~desk'.up /\ desk'.tall = desk.tall /\ desk'.alive = desk.alive
      /\ desk.up /\ ~spared' /\ temper' = temper /\ users' = users /\ trouble' = trouble
  BY FreshIsNew DEF Crash, TakeoverInv, TakeoverTypeOK
<1> QED  BY <1>1 DEF TakeoverInv, TakeoverTypeOK, AutoIsOwed, BarsAreOwed

-----------------------------------------------------------------------------
(* The running dock, Explorer and the system.                              *)

\* What the dock does by itself.
LEMMA PassesInv ==
    ASSUME TakeoverInv, Steady, desk.up, Passes(desk, desk')
    PROVE  TakeoverInv' /\ desk'.up
<1>1. /\ desk' \in Takeover /\ desk'.up /\ desk'.alive = desk.alive
      /\ desk'.created = desk.created /\ desk'.hold = desk.hold
      /\ ~temper.flattens => desk'.tall = desk.tall
      /\ desk'.saved = desk.saved /\ desk'.rects = desk.rects
      /\ desk'.repairing => desk.repairing
  BY DEF Passes, Keeps, Goes
<1> QED
  BY <1>1 DEF Steady, TakeoverInv, TakeoverTypeOK, AutoIsOwed, BarsAreOwed

\* What happens to it, or may happen only after more than the start.
LEMMA TroubledInv ==
    ASSUME TakeoverInv, UNCHANGED <<temper, users, spared>>,
           desk' \in Takeover, desk'.up = desk.up,
           desk.saved # "none" => desk'.saved = desk.saved,
           desk.up \/ desk'.auto = desk.auto,
           ~temper.flattens /\ desk'.alive => desk'.tall = Bars,
           trouble' \in 1 .. MaxTrouble, trouble' = 1 => ~desk.up
    PROVE  TakeoverInv'
<1>1. trouble' \in 0 .. MaxTrouble /\ trouble' # 0
  OBVIOUS
<1> QED
  BY <1>1 DEF TakeoverInv, TakeoverTypeOK, AutoIsOwed, BarsAreOwed

\* A suppression, of a desk that differs in what no debt is about.
LEMMA OwesInv ==
    ASSUME TakeoverInv, UNCHANGED <<temper, users, spared>>, desk.up,
           NEW s, s \in Takeover, s.up, s.alive = desk.alive, s.saved = desk.saved,
           s.tall = desk.tall,
           Owes(s, desk'), trouble' \in 2 .. MaxTrouble
    PROVE  TakeoverInv' /\ desk'.up
<1>1. /\ desk' \in Takeover /\ desk'.up /\ desk'.alive = desk.alive
      /\ desk.saved # "none" => desk'.saved = desk.saved
      /\ ~temper.flattens => desk'.tall = desk.tall
  BY DEF Owes, Goes, Saved
<1>2. ~temper.flattens /\ desk'.alive => desk'.tall = Bars
  BY <1>1 DEF TakeoverInv, BarsAreOwed
<1>3. trouble' \in 1 .. MaxTrouble /\ trouble' # 1
  OBVIOUS
<1> QED  BY <1>1, <1>2, <1>3, TroubledInv

LEMMA TicksInv ==
    ASSUME TakeoverInv,
           TickHeld \/ TickReleases \/ Tick \/ \E dragging \in BOOLEAN : RepairTick(dragging)
    PROVE  TakeoverInv' /\ desk'.up
<1>1. temper \in Temper /\ desk \in Takeover /\ Steady /\ desk.up
  BY TakeoverIsBounded
  DEF TakeoverInv, TakeoverTypeOK, TickHeld, TickReleases, Tick, RepairTick
<1>2. CASE TickHeld
  <2>1. Stays(desk, HideBars(desk))
    BY <1>1, CallsStay
  <2>2. Stays(HideBars(desk), Fast(HideBars(desk)))
    BY <2>1, CadenceStays DEF Stays, Keeps, Goes
  <2>3. Stays(desk, desk')
    BY <1>2, <2>1, <2>2, StaysOn DEF TickHeld
  <2>4. Passes(desk, desk')
    BY <2>3 DEF Stays, Passes
  <2> QED  BY <1>1, <2>4, PassesInv
<1>3. CASE TickReleases
  <2> DEFINE s == [HideBars(desk) EXCEPT !.hold = FALSE]
  <2>1. Stays(desk, HideBars(desk))
    BY <1>1, CallsStay
  <2>2. HideBars(desk).tall = desk.tall
    BY <1>1 DEF HideBars, Takeover
  <2> DEFINE h == HideBars(desk)
  <2>3. h \in Takeover /\ h.up /\ h.alive = desk.alive /\ h.saved = desk.saved /\ h.tall = desk.tall
    BY <1>1, <2>1, <2>2 DEF Stays, Keeps, Goes
  <2> HIDE DEF h
  <2>4. /\ s \in Takeover /\ s.up /\ s.alive = desk.alive /\ s.saved = desk.saved
        /\ s.tall = desk.tall
    <3>1. s = [h EXCEPT !.hold = FALSE]
      BY DEF h
    <3> HIDE DEF s
    <3> QED  BY ZenonT(60), <2>3, <3>1 DEF Takeover
  <2>5. desk' = Fast(Suppress(s))
    BY <1>3 DEF TickReleases
  <2> HIDE DEF s
  <2>6. Suppressed(s, Suppress(s))
    BY <1>1, <2>4, SuppressSaves
  <2>7. Stays(Suppress(s), desk')
    BY <2>5, <2>6, CadenceStays DEF Suppressed, Goes
  <2>8. Owes(s, desk')
    BY <2>6, <2>7, ThenStays DEF Suppressed, Owes
  <2>9. trouble' \in 2 .. MaxTrouble
    BY <1>1, <1>3, TakeoverIsBounded
    DEF Steady, TickReleases, TakeoverInv, TakeoverTypeOK, BarsAreOwed
  <2> QED  BY <1>1, <2>4, <2>8, <2>9, OwesInv DEF Steady
<1>4. CASE Tick
  <2>1. Stays(desk, desk')
    BY <1>1, <1>4, MaintainStays DEF Tick
  <2>2. Passes(desk, desk')
    BY <2>1 DEF Stays, Passes
  <2> QED  BY <1>1, <2>2, PassesInv
<1>5. CASE \E dragging \in BOOLEAN : RepairTick(dragging)
  BY <1>1, <1>5, RepairPasses, PassesInv DEF RepairTick
<1> QED  BY <1>2, <1>3, <1>4, <1>5

LEMMA CreatedInv ==
    ASSUME TakeoverInv, TaskbarCreated
    PROVE  TakeoverInv' /\ desk'.up
<1> DEFINE s == [desk EXCEPT !.created = FALSE]
<1>1. temper \in Temper /\ desk \in Takeover /\ Steady /\ desk.up
  BY TakeoverIsBounded DEF TakeoverInv, TakeoverTypeOK, TaskbarCreated
<1>2. /\ s \in Takeover /\ s.up /\ s.alive = desk.alive /\ s.saved = desk.saved
      /\ s.tall = desk.tall
  BY <1>1 DEF Takeover
<1>3. desk' = HideTaskbar(s)
  BY DEF TaskbarCreated
<1> HIDE DEF s
<1>4. Owes(s, desk')
  BY <1>1, <1>2, <1>3, SuppressSaves DEF Suppressed, Owes
<1>5. trouble' \in 2 .. MaxTrouble
  BY <1>1, TakeoverIsBounded
  DEF Steady, TaskbarCreated, TakeoverInv, TakeoverTypeOK, BarsAreOwed
<1> QED  BY <1>1, <1>2, <1>4, <1>5, OwesInv DEF Steady

LEMMA SqueezedStays ==
    ASSUME NEW s \in Takeover
    PROVE  Stays(s, Squeezed(s)) /\ Squeezed(s).auto = s.auto /\ Squeezed(s).tall = s.tall
<1> DEFINE up == [s EXCEPT !.window = "high", !.mover = "shell"]
<1>1. Stays(s, up) /\ up.auto = s.auto /\ up.tall = s.tall
  BY DEF Takeover, Stays, Keeps, Goes
<1>2. Stays(s, s)
  BY DEF Stays, Keeps, Goes
<1> QED  BY <1>1, <1>2 DEF Squeezed

LEMMA ShellInv ==
    ASSUME TakeoverInv, UNCHANGED <<temper, users, spared>>,
           \/ ShellTroubles /\ trouble < MaxTrouble /\ trouble' = trouble + 1
           \/ ShellStarts /\ trouble' = trouble
    PROVE  TakeoverInv' /\ desk'.up = desk.up
<1>1. /\ desk \in Takeover /\ trouble' \in 1 .. MaxTrouble /\ (trouble' = 1 => ~desk.up)
      /\ ~temper.flattens /\ desk.alive => desk.tall = Bars
  BY TakeoverIsBounded DEF TakeoverInv, TakeoverTypeOK, BarsAreOwed, ShellStarts
<1> SUFFICES /\ desk' \in Takeover /\ desk'.up = desk.up /\ desk'.saved = desk.saved
             /\ desk'.auto = desk.auto
             /\ ~temper.flattens /\ desk'.alive => desk'.tall = Bars
  BY <1>1, TroubledInv
<1>2. CASE \E b \in Bars : ShellShows(b)
  <2>1. PICK b \in Bars : ShellShows(b)
    BY <1>2
  <2>2. desk.shown \cup {b} \in SUBSET Bars /\ desk.tall \cup {b} \in SUBSET Bars
    BY <1>1 DEF Takeover
  <2>3. desk.tall = Bars => desk.tall \cup {b} = Bars
    OBVIOUS
  <2> DEFINE shown == desk.shown \cup {b}
             tall == desk.tall \cup {b}
  <2>4. desk' = [desk EXCEPT !.shown = shown, !.tall = tall] /\ desk.alive
    BY <2>1 DEF ShellShows
  <2> HIDE DEF shown, tall
  <2>5. shown \in SUBSET Bars /\ tall \in SUBSET Bars /\ (desk.tall = Bars => tall = Bars)
    BY <2>2, <2>3 DEF shown, tall
  <2> QED  BY <1>1, <2>4, <2>5 DEF Takeover
<1>3. CASE ShellReserves
  <2> DEFINE s == [desk EXCEPT !.full = FALSE]
  <2>1. s \in Takeover /\ s.up = desk.up /\ s.saved = desk.saved /\ s.auto = desk.auto
        /\ s.tall = desk.tall /\ s.alive = desk.alive
    BY <1>1 DEF Takeover
  <2>2. desk' = Squeezed(s)
    BY <1>3 DEF ShellReserves
  <2> HIDE DEF s
  <2> QED  BY <1>1, <2>1, <2>2, SqueezedStays DEF Stays, Keeps, Goes
<1>4. CASE ShellReservesBeside
  BY ZenonT(60), <1>1, <1>4 DEF ShellReservesBeside, Takeover
<1>5. CASE ShellDies
  BY ZenonT(60), <1>1, <1>5 DEF ShellDies, Takeover
<1>6. CASE ShellStarts
  <2> DEFINE s == [desk EXCEPT !.alive = TRUE, !.shown = Bars, !.tall = Bars,
                               !.full = FALSE, !.fullBeside = FALSE, !.created = desk.up]
  <2>1. s \in Takeover /\ s.up = desk.up /\ s.saved = desk.saved /\ s.auto = desk.auto
        /\ s.tall = Bars
    BY ZenonT(60), <1>1 DEF Takeover
  <2>2. desk' = Squeezed(s)
    BY <1>6 DEF ShellStarts
  <2> HIDE DEF s
  <2> QED  BY <1>1, <2>1, <2>2, SqueezedStays DEF Stays, Keeps, Goes
<1> QED  BY <1>2, <1>3, <1>4, <1>5, <1>6 DEF ShellTroubles

LEMMA SystemInv ==
    ASSUME TakeoverInv, UNCHANGED <<temper, users, spared>>, SystemTroubles,
           trouble < MaxTrouble, trouble' = trouble + 1
    PROVE  TakeoverInv' /\ desk'.up = desk.up
<1>1. /\ temper \in Temper /\ desk \in Takeover
      /\ trouble' \in 1 .. MaxTrouble /\ (trouble' = 1 => ~desk.up)
      /\ ~temper.flattens /\ desk.alive => desk.tall = Bars
  BY TakeoverIsBounded DEF TakeoverInv, TakeoverTypeOK, BarsAreOwed
<1>2. CASE WindowMoves
  <2>1. /\ desk' \in Takeover /\ desk'.up = desk.up /\ desk'.saved = desk.saved
        /\ desk'.auto = desk.auto /\ desk'.alive = desk.alive /\ desk'.tall = desk.tall
    BY ZenonT(60), <1>1, <1>2 DEF WindowMoves, Takeover
  <2> QED  BY <1>1, <2>1, TroubledInv
<1>3. CASE ClockClick
  <2> DEFINE s == [desk EXCEPT !.hold = TRUE, !.ticking = TRUE]
  <2>1. s \in Takeover /\ s.up = desk.up /\ s.saved = desk.saved /\ s.alive = desk.alive
        /\ s.tall = desk.tall
    BY <1>1 DEF Takeover
  <2>2. desk' = Fast(s) /\ desk.up
    BY <1>3 DEF ClockClick
  <2> HIDE DEF s
  <2>3. /\ desk' \in Takeover /\ desk'.up = desk.up /\ desk'.saved = desk.saved
        /\ desk'.alive = desk.alive /\ (~temper.flattens => desk'.tall = desk.tall)
    BY <2>1, <2>2, CadenceStays DEF Stays, Keeps, Goes
  <2> QED  BY <1>1, <2>2, <2>3, TroubledInv
<1>4. CASE Lock \/ Suspend
  <2> DEFINE s == Capture(desk)
  <2>1. Stays(desk, s)
    BY <1>1, PutBackStays
  <2> HIDE DEF s
  <2>2. desk.up /\ desk' \in {[s EXCEPT !.locked = TRUE], [s EXCEPT !.asleep = TRUE]}
    BY <1>4 DEF Lock, Suspend, s
  <2>3. Stays(s, desk')
    <3>1. s \in Takeover
      BY <2>1 DEF Stays, Keeps, Goes
    <3>2. Stays(s, [s EXCEPT !.locked = TRUE]) /\ Stays(s, [s EXCEPT !.asleep = TRUE])
      BY <3>1 DEF Stays, Keeps, Goes, Takeover
    <3> QED  BY <2>2, <3>2
  <2>4. Stays(desk, desk')
    BY <2>1, <2>3, StaysOn
  <2> QED  BY <1>1, <2>2, <2>4, TroubledInv DEF Stays, Keeps, Goes
<1>5. CASE \E dragging \in BOOLEAN :
             \/ Unlock(dragging) \/ Resume(dragging)
             \/ \E m \in {1, 2} : DisplayChange(m, dragging)
  <2>1. PICK dragging \in BOOLEAN, m \in {1, 2} :
            Unlock(dragging) \/ Resume(dragging) \/ DisplayChange(m, dragging)
    BY <1>5
  <2>2. PICK s \in {[desk EXCEPT !.locked = FALSE], [desk EXCEPT !.asleep = FALSE],
                    [desk EXCEPT !.monitors = m]} : desk' = Awake(s, dragging)
    BY <2>1 DEF Unlock, Resume, DisplayChange, Awake
  <2>3. s \in Takeover /\ s.up = desk.up /\ s.alive = desk.alive /\ s.saved = desk.saved
        /\ s.tall = desk.tall
    <3>1. CASE s = [desk EXCEPT !.locked = FALSE]
      BY ZenonT(60), <1>1, <3>1 DEF Takeover
    <3>2. CASE s = [desk EXCEPT !.asleep = FALSE]
      BY ZenonT(60), <1>1, <3>2 DEF Takeover
    <3>3. CASE s = [desk EXCEPT !.monitors = m]
      BY <1>1, <3>3 DEF Takeover
    <3> QED  BY <2>2, <3>1, <3>2, <3>3
  <2>4. Owes(s, desk')
    BY <1>1, <2>2, <2>3, AwakeOwes
  <2>5. desk.up
    BY <2>1 DEF Unlock, Resume, DisplayChange
  <2>6. trouble' \in 2 .. MaxTrouble
    BY <1>1, <2>5
  <2> QED  BY <2>3, <2>4, <2>5, <2>6, OwesInv
<1> QED  BY <1>2, <1>3, <1>4, <1>5 DEF SystemTroubles

LEMMA AutohideInv ==
    ASSUME TakeoverInv, UNCHANGED <<temper, spared>>, AutohideChosen,
           trouble < MaxTrouble, trouble' = trouble + 1
    PROVE  TakeoverInv' /\ desk'.up = desk.up
<1>1. /\ desk' \in Takeover /\ desk'.up = desk.up /\ desk'.saved = desk.saved
      /\ desk'.auto /\ desk'.alive = desk.alive /\ desk'.tall = desk.tall
  BY DEF AutohideChosen, TakeoverInv, TakeoverTypeOK, Takeover
<1>2. trouble' \in 1 .. MaxTrouble /\ (trouble' = 1 => ~desk.up)
  BY TakeoverIsBounded DEF TakeoverInv, TakeoverTypeOK, BarsAreOwed
<1>3. CASE desk.up
  BY <1>1, <1>2, <1>3, TroubledInv DEF AutohideChosen, TakeoverInv, BarsAreOwed
<1>4. CASE ~desk.up
  <2>1. users' = [users EXCEPT !.auto = TRUE]
    BY <1>4 DEF AutohideChosen
  <2>2. users' \in [auto : BOOLEAN, multi : MultiBefore] /\ users'.auto
    BY <2>1 DEF TakeoverInv
  <2>3. AutoIsOwed'
    BY <1>1, <1>4, <2>2 DEF AutoIsOwed
  <2>4. BarsAreOwed'
    BY <1>1, <1>2, <1>4 DEF TakeoverInv, BarsAreOwed
  <2>5. TakeoverTypeOK' /\ temper' \in Tempers
    BY <1>1, <1>2 DEF TakeoverInv, TakeoverTypeOK
  <2> QED  BY <1>1, <2>2, <2>3, <2>4, <2>5 DEF TakeoverInv
<1> QED  BY <1>3, <1>4

\* What a step of the takeover gives back.
GivesBack ==
    desk.up /\ ~desk'.up /\ spared' =>
        /\ trouble = 1 \/ ~temper.flattens => desk'.shown = Bars
        /\ desk'.auto = users.auto

LEMMA TakeoverStep ==
    TakeoverInv /\ [TakeoverNext]_takeoverVars => TakeoverInv' /\ GivesBack
<1> SUFFICES ASSUME TakeoverInv, [TakeoverNext]_takeoverVars
             PROVE  TakeoverInv' /\ GivesBack
  OBVIOUS
<1>1. CASE Start
  BY <1>1, StartInv DEF GivesBack
<1>2. CASE Stop
  BY <1>2, StopInv DEF GivesBack
<1>3. CASE Crash
  BY <1>3, CrashInv DEF GivesBack
<1>4. CASE TickHeld \/ TickReleases \/ Tick \/ \E dragging \in BOOLEAN : RepairTick(dragging)
  BY <1>4, TicksInv DEF GivesBack
<1>5. CASE TaskbarCreated
  BY <1>5, CreatedInv DEF GivesBack
<1>6. CASE Trouble
  BY <1>6, AutohideInv, ShellInv, SystemInv DEF Trouble, GivesBack
<1>7. CASE ShellReturns
  BY <1>7, ShellInv DEF ShellReturns, Steady, GivesBack
<1>8. CASE UNCHANGED takeoverVars
  BY <1>8 DEF takeoverVars, GivesBack, TakeoverInv, TakeoverTypeOK, AutoIsOwed, BarsAreOwed
<1> QED  BY <1>1, <1>2, <1>3, <1>4, <1>5, <1>6, <1>7, <1>8 DEF TakeoverNext

LEMMA TakeoverBegins == TakeoverInit => TakeoverInv
<1> SUFFICES ASSUME TakeoverInit PROVE TakeoverInv
  OBVIOUS
<1>1. 0 \in 0 .. WakePasses /\ 0 \in 0 .. CalmPasses /\ 0 \in 0 .. MaxTrouble
  BY TakeoverIsBounded
<1>2. users.auto \in BOOLEAN /\ users.multi \in {"absent", "on", "off"}
  BY TakeoverIsBounded DEF TakeoverInit
<1>3. desk \in Takeover
  BY <1>1, <1>2 DEF TakeoverInit, Takeover
<1> QED
  BY <1>1, <1>2, <1>3
  DEF TakeoverInit, TakeoverInv, TakeoverTypeOK, AutoIsOwed, BarsAreOwed

LEMMA TakeoverHolds == TakeoverSpec => []TakeoverInv
  BY TakeoverBegins, TakeoverStep, PTL DEF TakeoverSpec

\* However often Explorer dies, returns and takes its strip back, and however often
\* the dock suppresses the bars in between: one that stops gives the user's autohide
\* back, and all bars unless Explorer flattened them in the meantime (RestoreTaskbar).
THEOREM StopGivesBack == TakeoverSpec => QuitGivesBack
<1>1. TakeoverInv /\ [TakeoverNext]_takeoverVars => [GivesBack]_takeoverVars
  BY TakeoverStep
<1> QED  BY TakeoverHolds, <1>1, PTL DEF TakeoverSpec, QuitGivesBack, GivesBack

-----------------------------------------------------------------------------
(* THE BOOST.                                                              *)

\* A target is the one process that ever has its identity, and keeps its program.
Known(t) ==
    /\ t.pid \in Pids /\ t.id \in 1 .. births /\ ~IsProtected(t.exe)
    /\ \A q \in Pids : procs[q].id = t.id => q = t.pid /\ procs[q].exe = t.exe

\* Identities are never given twice.
Identified ==
    /\ births \in Nat
    /\ \A p \in Pids : procs[p].id \in 0 .. births /\ (Live(p) => procs[p].id # 0)
    /\ \A p, q \in Pids : procs[p].id = procs[q].id /\ Live(p) => p = q
    /\ \A p \in Pids : ~Live(p) => procs[p].id = 0

Ending == {"end", "endClose", "endKill"}
Closing == {"closing", "look", "kill"}

\* What is chosen, left, attempted and counted is of processes that were found.
Traced ==
    /\ \A t \in chosen : Known(t)
    /\ at \in Ending => \A s \in left : s.pid \in Pids
    /\ at \in {"endClose", "endKill"} => turn.target.pid \in Pids
    /\ at \in Closing => left \subseteq chosen
    /\ attempted \subseteq chosen
    /\ at \notin Closing => attempted = {}
    /\ counted \subseteq 1 .. births

\* Between its check and what is done, the id of a target has the program that was
\* checked, nobody, or a process that started since.
StillTheirs(p, exe, since) ==
    procs[p].exe = exe \/ procs[p].id = 0 \/ procs[p].id > since

Checked ==
    at \in {"look", "kill"} =>
        /\ turn.target \in chosen /\ turn.target.pid # fg
        /\ turn.since \in 0 .. births
        /\ StillTheirs(turn.target.pid, turn.target.exe, turn.since)
        /\ at = "kill" => allow /\ turn.target.exe \notin ExesWithWindows

\* What was attempted and still runs was asked to close.
Asked == \A t \in attempted, p \in Pids : procs[p].id = t.id => t.id \in closeAsked

BoostInv == BoostTypeOK /\ Identified /\ Traced /\ Checked /\ Asked /\ ReportedAreGone

\* What the processes may become in a step: the same ones with other windows,
\* gone, or new ones with a new identity; what was asked stays asked.
Later ==
    /\ births' \in Nat /\ births' >= births
    /\ \A p \in Pids :
          \/ procs'[p].id = procs[p].id /\ procs'[p].exe = procs[p].exe /\ (Live(p) <=> Live(p)')
          \/ procs'[p] = Nobody
          \/ procs'[p].id = births' /\ births' = births + 1
    /\ births' = births \/ \E p \in Pids : \A q \in Pids \ {p} : procs'[q] = procs[q]
    /\ closeAsked \subseteq closeAsked'

LEMMA BoostBegins == BoostInit => BoostInv
<1> SUFFICES ASSUME BoostInit PROVE BoostInv
  OBVIOUS
<1> USE DEF BoostInit
<1>1. Cardinality(Pids) \in Nat
  BY TablesAreProcesses, FS_CardinalityType
<1>2. BoostTypeOK
  BY <1>1, TablesAreProcesses DEF BoostTypeOK, Exes, Live, NoTurn
<1>3. Identified
  BY <1>1, TablesAreProcesses DEF Identified, Live, Nobody, Exes
<1>4. Traced /\ Checked /\ Asked /\ ReportedAreGone
  BY DEF Traced, Checked, Asked, ReportedAreGone, Ending, Closing
<1> QED  BY <1>2, <1>3, <1>4 DEF BoostInv

\* A later table still gives no identity twice, and none that was reported gone.
LEMMA LaterIsIdentified ==
    ASSUME BoostInv, Later, UNCHANGED <<counted, blind>>
    PROVE  Identified' /\ ReportedAreGone' /\ counted \subseteq 1 .. births'
<1> USE DEF BoostInv, Identified, Traced, Later
<1>1. \A p \in Pids : ~Live(p)' => procs'[p].id = 0
  BY DEF Live, Nobody
<1>2. \A p \in Pids : procs'[p].id \in 0 .. births' /\ (Live(p)' => procs'[p].id # 0)
  BY DEF Live, Nobody
<1>3. ASSUME NEW p \in Pids, NEW q \in Pids, procs'[p].id = procs'[q].id, Live(p)'
      PROVE  p = q
  BY <1>1, <1>2, <1>3 DEF Live, Nobody
<1>4. counted \subseteq 1 .. births'
  OBVIOUS
<1>5. ASSUME NEW p \in Pids, procs'[p].id \in counted
      PROVE  procs[p].id = procs'[p].id
  BY <1>5 DEF Nobody
<1>6. ReportedAreGone'
  BY <1>5 DEF ReportedAreGone
<1> QED  BY <1>1, <1>2, <1>3, <1>4, <1>6

\* What is known of a target stays known, and who has its identity had it before.
LEMMA LaterIsKnown ==
    ASSUME BoostInv, Later, NEW t, Known(t)
    PROVE  Known(t)' /\ \A q \in Pids : procs'[q].id = t.id => procs[q].id = t.id
<1>1. \A q \in Pids : procs'[q].id = t.id => procs[q].id = t.id /\ procs'[q].exe = procs[q].exe
  BY DEF BoostInv, Identified, Known, Later, Nobody
<1>2. t.id \in 1 .. births'
  BY DEF BoostInv, Identified, Known, Later
<1> QED  BY <1>1, <1>2 DEF Known

LEMMA LaterIsFresh ==
    ASSUME BoostInv, Later, NEW p \in Pids, NEW exe, NEW since \in 0 .. births,
           StillTheirs(p, exe, since)
    PROVE  StillTheirs(p, exe, since)' /\ since \in 0 .. births'
  BY DEF BoostInv, Identified, Later, StillTheirs, Nobody

\* A step that leaves the choice and the report alone keeps what is known of them.
LEMMA LaterInv ==
    ASSUME BoostInv, Later, BoostTypeOK', UNCHANGED <<chosen, counted, blind>>,
           attempted' \subseteq chosen, at' \notin Closing => attempted' = {},
           at' \in Closing => left' \subseteq chosen,
           at' \in Ending => \A s \in left' : s.pid \in Pids,
           at' \in {"endClose", "endKill"} => turn'.target.pid \in Pids,
           Checked', Asked'
    PROVE  BoostInv'
<1>1. Identified' /\ ReportedAreGone' /\ counted' \subseteq 1 .. births'
  BY LaterIsIdentified
<1>2. \A t \in chosen' : Known(t)'
  BY LaterIsKnown DEF BoostInv, Traced
<1>3. Traced'
  BY <1>1, <1>2 DEF Traced
<1> QED  BY <1>1, <1>3 DEF BoostInv

\* A step beside the pass.
LEMMA BesideInv ==
    ASSUME BoostInv, Later, BoostTypeOK',
           UNCHANGED <<at, left, turn, chosen, fg, allow, attempted, counted, blind>>
    PROVE  BoostInv'
<1>1. Asked'
  <2> SUFFICES ASSUME NEW t \in attempted, NEW p \in Pids, procs'[p].id = t.id
               PROVE  t.id \in closeAsked'
    BY DEF Asked
  <2>1. Known(t)
    BY DEF BoostInv, Traced
  <2>2. procs[p].id = t.id
    BY <2>1, LaterIsKnown
  <2> QED  BY <2>2 DEF BoostInv, Asked, Later
<1>2. Checked'
  <2> SUFFICES ASSUME at \in {"look", "kill"} PROVE Checked'
    BY DEF Checked
  <2>1. turn.target.pid \in Pids
    BY DEF BoostInv, Checked, Traced, Known
  <2>2. StillTheirs(turn.target.pid, turn.target.exe, turn.since)' /\ turn.since \in 0 .. births'
    BY <2>1, LaterIsFresh DEF BoostInv, Checked, StillTheirs
  <2> QED  BY <2>2 DEF BoostInv, Checked, ExesWithWindows
<1> QED  BY <1>1, <1>2, LaterInv DEF BoostInv, Traced

\* A step that is not of CloseTargets.
LEMMA AwayInv ==
    ASSUME BoostInv, Later, BoostTypeOK', UNCHANGED <<chosen, counted, blind>>,
           attempted' = {}, at' \notin Closing,
           at' \in Ending => \A s \in left' : s.pid \in Pids,
           at' \in {"endClose", "endKill"} => turn'.target.pid \in Pids
    PROVE  BoostInv'
<1>1. Asked' /\ Checked'
  BY DEF Asked, Checked, Closing
<1> QED  BY <1>1, LaterInv

\* A process closes itself, or is terminated.
LEMMA TerminateIsLater ==
    ASSUME BoostInv, NEW p \in Pids, Terminate(p), births' = births
    PROVE  Later /\ procs' \in [Pids -> Processes] /\ front' \in Pids \cup {NoPid}
<1>1. Nobody \in Processes
  BY DEF Nobody, Processes, Windows
<1> QED  BY <1>1 DEF BoostInv, BoostTypeOK, Identified, Terminate, Without, Later, Live

\* A process is asked to close.
LEMMA AskIsLater ==
    ASSUME BoostInv, NEW p \in Pids, AskToClose(p), births' = births
    PROVE  Later /\ closeAsked' \in SUBSET Nat
<1>1. procs[p].id \in Nat /\ closeAsked \in SUBSET Nat
  BY DEF BoostInv, BoostTypeOK, Identified
<1>2. /\ births \in Nat /\ UNCHANGED procs
      /\ closeAsked' = closeAsked \cup {procs[p].id}
  BY DEF BoostInv, Identified, AskToClose
<1>3. \A q \in Pids : Live(q) <=> Live(q)'
  BY <1>2 DEF Live
<1>4. Later
  BY <1>2, <1>3 DEF Later
<1> QED  BY <1>1, <1>2, <1>4

-----------------------------------------------------------------------------
(* The other processes.                                                    *)

LEMMA WorldInv ==
    ASSUME BoostInv, NEW p \in Pids,
           \/ World(ProcessExits(p)) \/ World(ProcessStarts(p))
           \/ World(WindowChanges(p)) \/ World(FocusChanges(p))
    PROVE  BoostInv'
<1> USE DEF World, WorldUnchanged, passVars, ledger
<1>1. CASE World(ProcessExits(p))
  <2> USE <1>1 DEF ProcessExits
  <2>1. Later /\ procs' \in [Pids -> Processes] /\ front' \in Pids \cup {NoPid}
    BY TerminateIsLater
  <2>2. BoostTypeOK'
    BY <2>1 DEF BoostInv, BoostTypeOK, Terminate
  <2> QED  BY <2>1, <2>2, BesideInv
<1>2. CASE World(ProcessStarts(p))
  <2> USE <1>2 DEF ProcessStarts
  <2>1. PICK exe \in Exes, win \in {"none", "shown"} :
            procs' = [procs EXCEPT ![p] = [exe |-> exe, id |-> births + 1, win |-> win]]
    OBVIOUS
  <2>2. [exe |-> exe, id |-> births + 1, win |-> win] \in Processes
    BY DEF BoostInv, Identified, Processes, Windows
  <2>3. BoostTypeOK'
    BY <2>1, <2>2 DEF BoostInv, BoostTypeOK
  <2>4. Later
    BY <2>1 DEF Later, BoostInv, Identified, BoostTypeOK, Live
  <2> QED  BY <2>3, <2>4, BesideInv
<1>3. CASE World(WindowChanges(p))
  <2> USE <1>3 DEF WindowChanges
  <2>1. PICK win \in {"none", "hidden", "shown"} : procs' = [procs EXCEPT ![p].win = win]
    OBVIOUS
  <2>2. [procs[p] EXCEPT !.win = win] \in Processes
    BY DEF BoostInv, BoostTypeOK, Processes, Windows
  <2>3. procs' = [procs EXCEPT ![p] = [procs[p] EXCEPT !.win = win]]
    BY <2>1
  <2>4. BoostTypeOK'
    BY <2>2, <2>3 DEF BoostInv, BoostTypeOK
  <2>5. /\ procs'[p].id = procs[p].id /\ procs'[p].exe = procs[p].exe
        /\ \A q \in Pids \ {p} : procs'[q] = procs[q]
    BY <2>3 DEF BoostInv, BoostTypeOK, Processes
  <2>6. procs'[p] # Nobody
    BY <2>5 DEF BoostInv, Identified, Live, Nobody
  <2>7. Later
    BY <2>5, <2>6 DEF Later, BoostInv, Identified, Live
  <2> QED  BY <2>4, <2>7, BesideInv
<1>4. CASE World(FocusChanges(p))
  <2> USE <1>4 DEF FocusChanges
  <2>1. Later
    BY DEF Later, BoostInv, Identified, Live
  <2>2. BoostTypeOK'
    BY DEF BoostInv, BoostTypeOK
  <2> QED  BY <2>1, <2>2, BesideInv
<1> QED  BY <1>1, <1>2, <1>3, <1>4

LEMMA ClosesItselfInv ==
    ASSUME BoostInv, ClosesItself
    PROVE  BoostInv'
<1> USE DEF ClosesItself, WorldUnchanged, passVars, ledger
<1>1. PICK p \in Pids : Live(p) /\ procs[p].id \in closeAsked /\ Terminate(p)
  OBVIOUS
<1>2. Later /\ procs' \in [Pids -> Processes] /\ front' \in Pids \cup {NoPid}
  BY <1>1, TerminateIsLater
<1>3. BoostTypeOK'
  BY <1>1, <1>2 DEF BoostInv, BoostTypeOK, Terminate
<1> QED  BY <1>2, <1>3, BesideInv

-----------------------------------------------------------------------------
(* The boost.                                                              *)

\* Nothing of the world changes.
LEMMA StillIsLater ==
    ASSUME BoostInv, UNCHANGED <<procs, births, closeAsked>>
    PROVE  Later
  BY DEF BoostInv, Identified, Later, Live

LEMMA InterfaceInv ==
    ASSUME BoostInv, StartBoost \/ ApplyBoostResult \/ Finish \/ Throws \/ LateJudgment
    PROVE  BoostInv'
<1> USE DEF passVars, ledger, worldVars
<1>1. Later
  BY StillIsLater DEF StartBoost, ApplyBoostResult, Finish, Throws, LateJudgment
<1>2. CASE StartBoost
  <2>1. BoostTypeOK'
    BY <1>2 DEF StartBoost, BoostInv, BoostTypeOK
  <2>2. at' \notin Closing \cup Ending /\ attempted' = {}
    BY <1>2 DEF StartBoost, BoostInv, Traced, Closing, Ending
  <2> QED  BY <1>1, <1>2, <2>1, <2>2, AwayInv DEF StartBoost, Ending
<1>3. CASE ApplyBoostResult
  <2>1. BoostTypeOK'
    BY ZenonT(60), <1>3 DEF ApplyBoostResult, BoostInv, BoostTypeOK
  <2> QED  BY <1>1, <1>3, <2>1, BesideInv DEF ApplyBoostResult
<1>4. CASE Finish
  <2>1. BoostTypeOK'
    BY <1>4 DEF Finish, UnpostedLatch, BoostAt, BoostInv, BoostTypeOK
  <2>2. at' \notin Closing \cup Ending /\ attempted' = {}
    BY <1>4 DEF Finish, BoostAt, BoostInv, Traced, Closing, Ending
  <2> QED  BY <1>1, <1>4, <2>1, <2>2, AwayInv DEF Finish, Ending
<1>5. CASE Throws
  <2>1. BoostTypeOK'
    BY <1>5 DEF Throws, BoostUnchanged, BoostInv, BoostTypeOK
  <2>2. at' \notin Closing \cup Ending /\ attempted' = {}
    BY <1>5 DEF Throws, BoostInv, Traced, Closing, Ending
  <2> QED  BY <1>1, <1>5, <2>1, <2>2, AwayInv DEF Throws, Ending
<1>6. CASE LateJudgment
  <2>1. BoostTypeOK'
    BY <1>6 DEF LateJudgment, BoostInv, BoostTypeOK
  <2> QED  BY <1>1, <1>6, <2>1, BesideInv DEF LateJudgment
<1> QED  BY <1>2, <1>3, <1>4, <1>5, <1>6

LEMMA FaultInv ==
    ASSUME BoostInv, LateJudgmentFaults
    PROVE  BoostInv'
<1> USE DEF LateJudgmentFaults, worldVars
<1>1. BoostTypeOK'
  BY DEF BoostInv, BoostTypeOK, NoTurn
<1>2. Identified'
  BY DEF BoostInv, Identified, Live
<1>3. Traced' /\ Checked' /\ Asked' /\ ReportedAreGone'
  BY DEF Traced, Checked, Asked, ReportedAreGone, Ending, Closing
<1> QED  BY <1>1, <1>2, <1>3 DEF BoostInv

\* Choosing what starts up.
LEMMA StartupInv ==
    ASSUME BoostInv, \/ ListStartup \/ JudgeStartup \/ StartupBudget \/ DisableStartup
                     \/ EndDone
    PROVE  BoostInv'
<1> USE DEF BoostAt, BoostUnchanged, Selected, StartupHeuristic, ledger, worldVars
<1>1. Later
  BY StillIsLater DEF ListStartup, JudgeStartup, StartupBudget, DisableStartup, EndDone
<1>2. attempted' = {} /\ UNCHANGED <<chosen, counted, blind, turn>>
  BY DEF ListStartup, JudgeStartup, StartupBudget, DisableStartup, EndDone, BoostInv, Traced, Closing
<1>3. CASE ListStartup
  BY <1>1, <1>2, <1>3, AwayInv DEF ListStartup, BoostInv, BoostTypeOK, Ending, Closing
<1>4. CASE JudgeStartup
  BY <1>1, <1>2, <1>4, AwayInv DEF JudgeStartup, BoostInv, BoostTypeOK, Ending, Closing
<1>5. CASE StartupBudget
  BY <1>1, <1>2, <1>5, AwayInv DEF StartupBudget, BoostInv, BoostTypeOK, Ending, Closing
<1>6. CASE DisableStartup
  BY <1>1, <1>2, <1>6, AwayInv DEF DisableStartup, BoostInv, BoostTypeOK, Ending, Closing
<1>7. CASE EndDone
  BY <1>1, <1>2, <1>7, AwayInv DEF EndDone, BoostInv, BoostTypeOK, Ending, Closing
<1> QED  BY <1>3, <1>4, <1>5, <1>6, <1>7

\* Ending it, whatever has the id by then.
LEMMA EndInv ==
    ASSUME BoostInv, EndOne \/ EndActs
    PROVE  BoostInv'
<1> USE DEF BoostAt, BoostUnchanged, worldVars
<1>1. CASE EndOne
  <2>1. PICK s \in left :
           /\ left' = left \ {s}
           /\ \/ UNCHANGED <<at, turn>>
              \/ turn' = [target |-> s, since |-> births] /\ at' \in {"endClose", "endKill"}
    BY <1>1 DEF EndOne, TakeTurn
  <2>2. s.pid \in Pids /\ at = "end" /\ attempted = {} /\ births \in Nat
    BY <1>1 DEF EndOne, BoostInv, Traced, Identified, Ending, Closing
  <2>3. BoostTypeOK'
    BY <1>1, <2>1, <2>2 DEF EndOne, BoostInv, BoostTypeOK
  <2>4. Later
    BY <1>1, StillIsLater DEF EndOne
  <2>5. /\ at' \in Ending /\ \A r \in left' : r.pid \in Pids
        /\ at' \in {"endClose", "endKill"} => turn'.target.pid \in Pids
    BY <2>1, <2>2 DEF BoostInv, Traced, Ending
  <2>6. at' \notin Closing
    BY <2>5 DEF Ending, Closing
  <2> QED  BY <1>1, <2>2, <2>3, <2>4, <2>5, <2>6, AwayInv DEF EndOne
<1>2. CASE EndActs
  <2> DEFINE p == turn.target.pid
  <2>1. /\ at \in {"endClose", "endKill"} /\ at' = "end" /\ turn' = NoTurn
        /\ \/ UNCHANGED <<procs, front, closeAsked>>
           \/ AskToClose(p)
           \/ Terminate(p)
    BY <1>2 DEF EndActs, LeaveAlone, TurnEnds
  <2>2. p \in Pids /\ attempted = {} /\ \A r \in left : r.pid \in Pids
    BY <2>1 DEF BoostInv, Traced, Ending, Closing
  <2>3. Later /\ procs' \in [Pids -> Processes] /\ front' \in Pids \cup {NoPid}
        /\ closeAsked' \in SUBSET Nat
    <3>1. CASE UNCHANGED <<procs, front, closeAsked>>
      BY <1>2, <3>1, StillIsLater DEF EndActs, BoostInv, BoostTypeOK
    <3>2. CASE AskToClose(p)
      BY <1>2, <2>2, <3>2, AskIsLater DEF EndActs, AskToClose, BoostInv, BoostTypeOK
    <3>3. CASE Terminate(p)
      <4>1. births' = births
        BY <1>2 DEF EndActs
      <4> HIDE DEF p
      <4> QED  BY <2>2, <3>3, <4>1, TerminateIsLater DEF Terminate, BoostInv, BoostTypeOK
    <3> QED  BY <2>1, <3>1, <3>2, <3>3
  <2>4. BoostTypeOK'
    BY <1>2, <2>1, <2>3 DEF EndActs, BoostInv, BoostTypeOK, NoTurn
  <2> QED  BY <1>2, <2>1, <2>2, <2>3, <2>4, AwayInv DEF EndActs, Closing
<1> QED  BY <1>1, <1>2

\* A step that looks at the processes and chooses among known ones.
LEMMA ChoiceInv ==
    ASSUME BoostInv, BoostTypeOK', UNCHANGED <<procs, births, closeAsked, counted, blind>>,
           \A t \in chosen' : Known(t), attempted' = {},
           at' \notin Ending \cup Closing
    PROVE  BoostInv'
<1>1. Identified' /\ ReportedAreGone' /\ counted' \subseteq 1 .. births'
  BY StillIsLater, LaterIsIdentified
<1>2. Traced' /\ Checked' /\ Asked'
  BY <1>1 DEF Traced, Known, Checked, Asked, Ending, Closing
<1> QED  BY <1>1, <1>2 DEF BoostInv

LEMMA ProfileInv ==
    ASSUME BoostInv, Profile \/ Judge \/ Budget
    PROVE  BoostInv'
<1> USE DEF BoostAt, BoostUnchanged, Targets, worldVars, ledger
<1>1. attempted = {}
  BY DEF BoostInv, Traced, Profile, Judge, Budget, Closing
<1>2. CASE Profile
  <2> DEFINE cs == {Candidate(p) : p \in {q \in Pids : /\ Live(q) /\ q # front
                                                      /\ ~IsProtected(procs[q].exe)}}
  <2>1. \A t \in cs : Known(t)
    BY DEF BoostInv, Identified, Known, Candidate
  <2>2. chosen' \subseteq cs /\ allow' \in BOOLEAN /\ at' \in {"judge", "finish", "close"}
    <3>1. CASE cs = {} \/ ~key
      BY <1>2, <3>1 DEF Profile, Heuristic
    <3>2. CASE ~(cs = {} \/ ~key)
      BY <1>2, <3>2 DEF Profile, BoostInv, BoostTypeOK
    <3> QED  BY <3>1, <3>2
  <2>3. BoostTypeOK'
    BY <1>2, <2>2 DEF Profile, BoostInv, BoostTypeOK
  <2> HIDE DEF cs
  <2> QED  BY <1>1, <1>2, <2>1, <2>2, <2>3, ChoiceInv DEF Profile, Ending, Closing
<1>3. CASE Judge \/ Budget
  <2>1. chosen' \subseteq chosen /\ allow' \in BOOLEAN /\ at' \in {"finish", "close"}
    BY <1>3 DEF Judge, Budget, Heuristic
  <2>2. UNCHANGED <<procs, births, closeAsked, counted, blind, attempted>>
    BY <1>3 DEF Judge, Budget
  <2>3. BoostTypeOK'
    <3>1. CASE Judge
      BY <2>1, <3>1 DEF Judge, BoostInv, BoostTypeOK
    <3>2. CASE Budget
      BY <2>1, <3>2 DEF Budget, BoostInv, BoostTypeOK
    <3> QED  BY <1>3, <3>1, <3>2
  <2>4. \A t \in chosen' : Known(t)
    BY <2>1 DEF BoostInv, Traced
  <2> QED  BY <1>1, <2>1, <2>2, <2>3, <2>4, ChoiceInv DEF Ending, Closing
<1> QED  BY <1>2, <1>3

-----------------------------------------------------------------------------
(* Closing.                                                                *)

LEMMA BeginCloseInv ==
    ASSUME BoostInv, BeginClose
    PROVE  BoostInv'
<1> USE DEF BeginClose, BoostAt, BoostUnchanged, worldVars, ledger
<1>1. Later
  BY StillIsLater
<1>2. BoostTypeOK'
  BY DEF BoostInv, BoostTypeOK
<1>3. attempted' = {} /\ Asked' /\ Checked'
  BY DEF BoostInv, Traced, Closing, Asked, Checked
<1> QED  BY <1>1, <1>2, <1>3, LaterInv DEF Ending, Closing

\* Who has the identity of a target is the target, and can be opened.
LEMMA GoneIsFree ==
    ASSUME BoostInv, NEW t, Known(t), MayNotOpen(t.pid)
    PROVE  \A p \in Pids : procs[p].id # t.id
<1> SUFFICES ASSUME NEW p \in Pids, procs[p].id = t.id PROVE FALSE
  OBVIOUS
<1>1. p = t.pid /\ procs[p].exe = t.exe /\ t.id # 0
  BY DEF Known, BoostInv, Identified
<1>2. Live(p)
  BY <1>1 DEF BoostInv, Identified
<1> QED  BY <1>1, <1>2 DEF MayNotOpen, Known

\* The check: the report gains what is gone, or the target has its turn.
LEMMA CheckOneInv ==
    ASSUME BoostInv, CheckOne
    PROVE  BoostInv'
<1> USE DEF CheckOne, BoostAt, BoostUnchanged, worldVars
<1>1. PICK t \in left :
        /\ left' = left \ {t}
        /\ \/ UNCHANGED <<at, turn, counted>>
           \/ /\ MayNotOpen(t.pid) /\ counted' = counted \cup {t.id} /\ UNCHANGED <<at, turn>>
           \/ /\ t.pid # fg /\ StillTheTarget(t) /\ UNCHANGED counted
              /\ turn' = [target |-> t, since |-> births] /\ at' = "look"
  BY DEF TakeTurn
<1>2. /\ at = "closing" /\ t \in chosen /\ Known(t) /\ left' \subseteq chosen
      /\ attempted \subseteq chosen /\ t.pid \in Pids /\ t.id \in Nat /\ births \in Nat
  BY <1>1 DEF BoostInv, Traced, Known, Closing, Identified
<1>3. BoostTypeOK'
  <2>1. counted' \in SUBSET Nat
    BY <1>1, <1>2 DEF BoostInv, BoostTypeOK
  <2>2. turn'.target.pid \in Pids \cup {NoPid} /\ turn'.since \in Nat
    BY <1>1, <1>2 DEF BoostInv, BoostTypeOK
  <2>3. at' \in {"closing", "look"}
    BY <1>1, <1>2
  <2> QED  BY <2>1, <2>2, <2>3 DEF BoostInv, BoostTypeOK
<1>4. Later
  BY StillIsLater
<1>5. Asked'
  BY DEF BoostInv, Asked
<1>6. CASE UNCHANGED <<at, turn, counted>>
  <2>1. Checked'
    BY <1>2, <1>6 DEF Checked
  <2> QED  BY <1>2, <1>3, <1>4, <1>5, <1>6, <2>1, LaterInv DEF Ending, Closing
<1>7. CASE MayNotOpen(t.pid) /\ counted' = counted \cup {t.id} /\ UNCHANGED <<at, turn>>
  <2>1. Identified'
    BY DEF BoostInv, Identified, Live
  <2>2. ReportedAreGone'
    BY <1>2, <1>7, GoneIsFree DEF BoostInv, ReportedAreGone
  <2>3. Traced' /\ Checked'
    BY <1>2, <1>7 DEF BoostInv, Traced, Known, Checked, Ending, Closing
  <2> QED  BY <1>3, <1>5, <2>1, <2>2, <2>3 DEF BoostInv
<1>8. CASE /\ t.pid # fg /\ StillTheTarget(t) /\ UNCHANGED counted
           /\ turn' = [target |-> t, since |-> births] /\ at' = "look"
  <2>1. Checked'
    BY <1>2, <1>8 DEF Checked, StillTheTarget, StillTheirs
  <2> QED  BY <1>2, <1>3, <1>4, <1>5, <1>8, <2>1, LaterInv DEF Ending, Closing
<1> QED  BY <1>1, <1>6, <1>7, <1>8

\* What is done, to the target or to what has its id by then.
LEMMA TurnInv ==
    ASSUME BoostInv, LookOne \/ KillOne
    PROVE  BoostInv'
<1> USE DEF BoostAt, BoostUnchanged, TurnUnchanged
<1> DEFINE t == turn.target
<1>1. /\ at \in {"look", "kill"} /\ at' \in Closing
      /\ UNCHANGED <<births, changes, startup, entries, chosen, allow, fg, left, counted, blind>>
      /\ UNCHANGED <<late, key, boosting, reply, alive>>
      /\ at' \in {"look", "kill"} => at = "look" /\ at' = "kill" /\ UNCHANGED turn
                                     /\ allow /\ t.exe \notin ExesWithWindows
      /\ turn' \in {turn, NoTurn}
  BY DEF LookOne, KillOne, TurnEnds, Closing
<1>2. \/ UNCHANGED <<procs, front, closeAsked, attempted>>
      \/ AskToClose(t.pid) /\ attempted' = attempted \cup {t}
      \/ Terminate(t.pid) /\ attempted' = attempted \cup {t}
  BY DEF LookOne, KillOne, LeaveAlone
<1>3. /\ t \in chosen /\ Known(t) /\ t.pid \in Pids /\ t.id # 0
      /\ left \subseteq chosen /\ attempted \subseteq chosen
  BY <1>1 DEF BoostInv, Checked, Traced, Known, Closing, Identified
<1>4. /\ Later /\ procs' \in [Pids -> Processes] /\ front' \in Pids \cup {NoPid}
      /\ closeAsked' \in SUBSET Nat
  <2>1. CASE UNCHANGED <<procs, front, closeAsked, attempted>>
    BY <1>1, <2>1, StillIsLater DEF BoostInv, BoostTypeOK
  <2>2. CASE AskToClose(t.pid)
    BY <1>1, <1>3, <2>2, AskIsLater DEF AskToClose, BoostInv, BoostTypeOK
  <2>3. CASE Terminate(t.pid)
    BY <1>1, <1>3, <2>3, TerminateIsLater DEF Terminate, BoostInv, BoostTypeOK
  <2> QED  BY <1>2, <2>1, <2>2, <2>3
<1>5. BoostTypeOK'
  BY <1>1, <1>4 DEF BoostInv, BoostTypeOK, NoTurn, Closing
<1>6. Asked'
  <2> SUFFICES ASSUME NEW u \in attempted', NEW p \in Pids, procs'[p].id = u.id
               PROVE  u.id \in closeAsked'
    BY DEF Asked
  <2>1. Known(u) /\ procs[p].id = u.id
    <3>1. u \in chosen
      BY <1>2, <1>3
    <3>2. Known(u)
      BY <3>1 DEF BoostInv, Traced
    <3> QED  BY <1>4, <3>2, LaterIsKnown
  <2>2. CASE u \in attempted
    BY <1>4, <2>1, <2>2 DEF BoostInv, Asked, Later
  <2>3. CASE u = t /\ AskToClose(t.pid)
    BY <2>1, <2>3 DEF Known, AskToClose
  <2>4. CASE u = t /\ Terminate(t.pid)
    <3>1. procs'[t.pid].id = 0
      BY <1>3, <2>4 DEF Terminate, Without, Nobody, BoostInv, BoostTypeOK
    <3> QED  BY <1>3, <2>1, <2>4, <3>1 DEF Known
  <2> QED  BY <1>2, <2>2, <2>3, <2>4
<1>7. Checked'
  <2> SUFFICES ASSUME at' \in {"look", "kill"} PROVE Checked'
    BY DEF Checked
  <2>1. StillTheirs(turn.target.pid, turn.target.exe, turn.since)' /\ turn.since \in 0 .. births'
    BY <1>1, <1>3, <1>4, LaterIsFresh DEF BoostInv, Checked, StillTheirs
  <2> QED  BY <1>1, <2>1 DEF BoostInv, Checked, ExesWithWindows
<1>8. attempted' \subseteq chosen
  BY <1>2, <1>3
<1> HIDE DEF t
<1> QED  BY <1>1, <1>3, <1>4, <1>5, <1>6, <1>7, <1>8, LaterInv DEF Ending, Closing

LEMMA ConfirmInv ==
    ASSUME BoostInv, Confirm
    PROVE  BoostInv'
<1> USE DEF Confirm, BoostAt, BoostUnchanged, worldVars
<1>1. PICK fails \in BOOLEAN :
        /\ counted' = counted \cup {t.id : t \in Exited(IF fails THEN {} ELSE {p \in Pids : Live(p)})}
        /\ blind' = (blind \/ fails)
  OBVIOUS
<1> DEFINE gone == Exited(IF fails THEN {} ELSE {p \in Pids : Live(p)})
<1>2. \A t \in gone : t \in attempted /\ Known(t) /\ t.id \in 1 .. births /\ t.id \in Nat
  BY DEF Exited, BoostInv, Traced, Known, BoostTypeOK
<1>3. ASSUME NEW t \in gone, NEW p \in Pids, procs[p].id = t.id
      PROVE  fails /\ t.id \in closeAsked
  <2>1. /\ Known(t) /\ t.id # 0 /\ procs[p].id = t.id
        /\ p = t.pid
    <3>1. Known(t) /\ t.id \in 1 .. births /\ procs[p].id = t.id /\ births \in Nat
      BY <1>2, <1>3 DEF BoostInv, Identified
    <3> QED  BY <3>1 DEF Known
  <2>2. Live(p)
    BY <1>3, <2>1 DEF BoostInv, Identified
  <2>3. fails
    BY <2>1, <2>2 DEF Exited
  <2> QED  BY <1>2, <1>3, <2>3 DEF BoostInv, Asked
<1>4. BoostTypeOK'
  <2>1. counted' \in SUBSET Nat
    BY <1>1, <1>2 DEF BoostInv, BoostTypeOK
  <2>2. blind' \in BOOLEAN
    BY <1>1
  <2> QED  BY <2>1, <2>2 DEF BoostInv, BoostTypeOK
<1>5. Identified'
  BY DEF BoostInv, Identified, Live
<1>6. ReportedAreGone'
  <2> SUFFICES ASSUME NEW p \in Pids, procs[p].id \in counted'
               PROVE  blind' /\ procs[p].id \in closeAsked
    BY DEF ReportedAreGone
  <2>1. CASE procs[p].id \in counted
    BY <1>1, <2>1 DEF BoostInv, ReportedAreGone
  <2>2. CASE \E t \in gone : procs[p].id = t.id
    BY <1>1, <1>3, <2>2
  <2> QED  BY <1>1, <2>1, <2>2
<1>7. counted' \subseteq 1 .. births
  BY <1>1, <1>2 DEF BoostInv, Traced
<1>8. Traced' /\ Checked' /\ Asked'
  BY <1>7 DEF Traced, Checked, Asked, Ending, Closing
<1> QED  BY <1>4, <1>5, <1>6, <1>8 DEF BoostInv

-----------------------------------------------------------------------------

LEMMA BoostStep == BoostInv /\ [BoostNext]_boostVars => BoostInv'
<1> SUFFICES ASSUME BoostInv, [BoostNext]_boostVars PROVE BoostInv'
  OBVIOUS
<1>1. CASE UNCHANGED boostVars
  <2>1. Later
    BY <1>1, StillIsLater DEF boostVars, worldVars
  <2>2. BoostTypeOK'
    BY <1>1 DEF boostVars, worldVars, passVars, ledger, BoostInv, BoostTypeOK
  <2> QED  BY <1>1, <2>1, <2>2, BesideInv DEF boostVars, passVars, ledger
<1>2. CASE BoostNext
  BY <1>2, InterfaceInv, FaultInv, StartupInv, EndInv, ProfileInv, BeginCloseInv, CheckOneInv,
     TurnInv, ConfirmInv, ClosesItselfInv, WorldInv DEF BoostNext, Boost
<1> QED  BY <1>1, <1>2

\* Types, for any processes around the boost.
THEOREM BoostTypesHold == BoostSpec => []BoostTypeOK
<1>1. BoostSpec => []BoostInv
  BY BoostBegins, BoostStep, PTL DEF BoostSpec
<1> QED  BY <1>1, PTL DEF BoostInv

\* However often a process id passes from one process to another, what the boost
\* reports closed has exited; where the snapshot that confirms it failed, it has
\* exited or was asked to.
THEOREM ReportIsTrue == BoostSpec => []ReportedAreGone
<1>1. BoostSpec => []BoostInv
  BY BoostBegins, BoostStep, PTL DEF BoostSpec
<1> QED  BY <1>1, PTL DEF BoostInv

\* A step that acts for a target finds at its id the program that was checked, or
\* a process that started since; every other step acts for none, or on none.
LEMMA StepRespects ==
    BoostInv /\ TargetsAreRespected /\ [BoostNext]_boostVars => TargetsAreRespected'
<1> SUFFICES ASSUME BoostInv, TargetsAreRespected, [BoostNext]_boostVars
             PROVE  TargetsAreRespected'
  OBVIOUS
<1>1. CASE LookOne \/ KillOne
  <2> DEFINE t == turn.target
  <2>1. \/ act' = NoAct
        \/ \E kind \in {"close", "kill"} :
              /\ act' = Act("targets", kind) /\ at \in {"look", "kill"}
              /\ kind = "kill" => at = "kill"
              /\ Live(t.pid)
    BY <1>1 DEF LookOne, KillOne, BoostAt, LeaveAlone, HasWindows, Live, Nobody
  <2>2. CASE act' = NoAct
    BY <2>2 DEF TargetsAreRespected, NoAct
  <2>3. ASSUME NEW kind \in {"close", "kill"}, act' = Act("targets", kind),
               at \in {"look", "kill"}, kind = "kill" => at = "kill", Live(t.pid)
        PROVE  TargetsAreRespected'
    <3>1. /\ t \in chosen /\ t.pid # fg /\ StillTheirs(t.pid, t.exe, turn.since)
          /\ kind = "kill" => allow /\ t.exe \notin ExesWithWindows
      BY <2>3 DEF BoostInv, Checked
    <3>2. t.pid \in Pids /\ ~IsProtected(t.exe)
      BY <3>1 DEF BoostInv, Traced, Known
    <3>3. procs[t.pid].id # 0
      BY <2>3, <3>2 DEF BoostInv, Identified
    <3>4. (procs[t.pid].exe = t.exe /\ ~IsProtected(procs[t.pid].exe)) \/ procs[t.pid].id > turn.since
      BY <3>1, <3>2, <3>3 DEF StillTheirs
    <3> QED  BY <2>3, <3>1, <3>4 DEF TargetsAreRespected, Act
  <2> QED  BY <2>1, <2>2, <2>3
<1>2. CASE EndActs
  <2>1. PICK kind \in {"close", "kill"} : act' = NoAct \/ act' = Act("startup", kind)
    BY <1>2 DEF EndActs, LeaveAlone
  <2> QED  BY <2>1 DEF TargetsAreRespected, Act, NoAct
<1>3. CASE act' = act \/ act' = NoAct
  BY <1>3 DEF TargetsAreRespected, NoAct
<1>4. [BoostNext]_boostVars => LookOne \/ KillOne \/ EndActs \/ act' = act \/ act' = NoAct
  BY DEF BoostNext, Boost, StartBoost, ApplyBoostResult, LateJudgment, LateJudgmentFaults,
         ClosesItself, World, WorldUnchanged, ListStartup, JudgeStartup, StartupBudget,
         DisableStartup, EndOne, EndDone, Profile, Judge, Budget, BeginClose, CheckOne, Confirm,
         Finish, Throws, boostVars, passVars
<1> QED  BY <1>1, <1>2, <1>3, <1>4

\* Whatever starts, exits and takes over a process id, only what was chosen is
\* closed, and never the foreground process or a protected one, unless a process
\* takes over the id after the check.
THEOREM OnlyTargetsAreClosed == BoostSpec => []TargetsAreRespected
<1>1. BoostInit => TargetsAreRespected
  BY DEF BoostInit, TargetsAreRespected, NoAct
<1> QED  BY <1>1, BoostBegins, BoostStep, StepRespects, PTL DEF BoostSpec

-----------------------------------------------------------------------------
(* THE COMPOSITION: a step of it is a step of a part or leaves the part    *)
(* alone.                                                                  *)

LEMMA EachPartSteps ==
    [DockNext]_dockVars =>
        [RevealNext]_revealVars /\ [TakeoverNext]_takeoverVars /\ [BoostNext]_boostVars
  BY DEF DockNext, dockVars

LEMMA EachPartBegins == DockInit => RevealIInv /\ TakeoverInv /\ BoostInv /\ TargetsAreRespected
<1>1. DockInit => RevealInit /\ TakeoverInit /\ BoostInit
  BY DEF DockInit
<1>2. BoostInit => TargetsAreRespected
  BY DEF BoostInit, TargetsAreRespected, NoAct
<1> QED  BY <1>1, <1>2, InitInv, TakeoverBegins, BoostBegins

LEMMA DockHolds == DockSpec => [](RevealIInv /\ TakeoverInv /\ BoostInv /\ TargetsAreRespected)
<1>1. RevealIInv /\ TakeoverInv /\ BoostInv /\ TargetsAreRespected /\ [DockNext]_dockVars
        => (RevealIInv /\ TakeoverInv /\ BoostInv /\ TargetsAreRespected)'
  <2>1. RevealIInv /\ [RevealNext]_revealVars => RevealIInv'
    BY DockInv, UserInv, StutterInv DEF RevealNext
  <2> QED  BY <2>1, EachPartSteps, TakeoverStep, BoostStep, StepRespects
<1> QED  BY EachPartBegins, <1>1, PTL DEF DockSpec

\* The variables of the reveal, the taskbar and the boost keep their types.
THEOREM DockTypesHold == DockSpec => []DockTypeOK
<1>1. RevealIInv /\ TakeoverInv /\ BoostInv => DockTypeOK
  BY DEF RevealIInv, TakeoverInv, BoostInv, DockTypeOK
<1> QED  BY DockHolds, <1>1, PTL

\* What holds of each part holds where they are composed: the overlay follows the
\* dock; the boost touches only its targets, or what took over the id of one after
\* its check, and reports only what is gone, where its snapshot can tell; and a dock
\* that stops gives the taskbar back.
THEOREM DockIsRight ==
    DockSpec => /\ [](OverlayFollowsDock /\ TargetsAreRespected /\ ReportedAreGone)
                /\ QuitGivesBack
<1>1. RevealIInv /\ BoostInv => OverlayFollowsDock /\ ReportedAreGone
  BY DEF RevealIInv, BoostInv
<1>2. TakeoverInv /\ [DockNext]_dockVars => [GivesBack]_takeoverVars
  BY TakeoverStep, EachPartSteps
<1> QED  BY DockHolds, <1>1, <1>2, PTL DEF DockSpec, QuitGivesBack, GivesBack
=============================================================================
