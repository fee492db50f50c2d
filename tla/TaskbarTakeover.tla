-------------------------- MODULE TaskbarTakeover --------------------------
(***************************************************************************)
(* How the dock takes the taskbar from Explorer, keeps it and gives it     *)
(* back, and how it repairs windows after a wake (DockApp.cpp). Explorer   *)
(* is modelled by what the dock's calls meet: its bars are shown or not,   *)
(* tall or flattened to nothing; it may show them again, reserve their     *)
(* strip of the desktop again, die and restart. The record `desk` holds    *)
(* Explorer's side and the dock's; an operation of the dock is a function  *)
(* from desk to desk, and a handler composes them as the code does.        *)
(***************************************************************************)
EXTENDS FiniteSets, Naturals

CONSTANTS
    Bars, Primary,          \* Shell_TrayWnd and the secondary trays
    Tempers,                \* how Explorer may answer
    MultiBefore,            \* MMTaskbarEnabled before the first start
    CalmPasses,             \* quiet ticks before the monitor slows (5)
    WakePasses,             \* passes of one wake repair (40)
    MaxTrouble              \* what Explorer, the user and the system do, starts
                            \* of the dock included

\* flattens: a collapsed bar gets an empty rectangle, or keeps a stale one.
\* yields, yieldsBeside: the work area the dock sets stays set.
Temper == [flattens : BOOLEAN, yields : BOOLEAN, yieldsBeside : BOOLEAN]

ASSUME TakeoverIsBounded ==
    /\ Primary \in Bars /\ Tempers \subseteq Temper
    /\ MultiBefore \subseteq {"absent", "on", "off"}
    /\ CalmPasses \in Nat \ {0} /\ WakePasses \in Nat \ {0}
    /\ MaxTrouble \in Nat

VARIABLES
    desk,
    temper,    \* the Explorer of this run
    users,     \* the user's own settings: autohide, bars on every monitor
    spared,    \* every exit was a normal one, under a living Explorer
    trouble

takeoverVars == <<desk, temper, users, spared, trouble>>

\* Explorer, the session and one window of an application; from `up` on the
\* members of DockApp, of which `ticking` and `repairing` are timers.
Takeover ==
    [alive : BOOLEAN, shown : SUBSET Bars, tall : SUBSET Bars, auto : BOOLEAN,
     multi : {"absent", "on", "off"}, full : BOOLEAN, fullBeside : BOOLEAN,
     created : BOOLEAN,               \* TaskbarCreated broadcast, not delivered
     monitors : {1, 2}, window : {"low", "high"}, mover : {"user", "shell", "dock"},
     up : BOOLEAN, saved : {"none", "auto", "plain"}, rects : SUBSET Bars,
     known : SUBSET Bars, hidden : BOOLEAN,
     observed : {"none", "full", "strip"}, ticking : BOOLEAN, fast : BOOLEAN,
     quiet : 0 .. CalmPasses, hold : BOOLEAN, locked : BOOLEAN, asleep : BOOLEAN,
     snap : {"none", "low", "high"}, snapMonitors : {1, 2},
     passes : 0 .. WakePasses, repairing : BOOLEAN,
     held : BOOLEAN]                  \* a mouse button was down at the last pass

TakeoverTypeOK ==
    /\ desk \in Takeover
    /\ trouble \in 0 .. MaxTrouble

-----------------------------------------------------------------------------
(* The dock's calls to Explorer.                                           *)

\* Op after s; TLC then evaluates s once.
Then(s, Op(_)) == CHOOSE r \in {Op(x) : x \in {s}} : TRUE

\* GetTaskbarAppBarState and SetTaskbarAppBarState: nobody answers for a dead one.
IsAuto(s) == s.alive /\ s.auto
SetAuto(s, b) == IF s.alive THEN [s EXCEPT !.auto = b] ELSE s

HideBars(s) == [s EXCEPT !.shown = {}]

\* CollapseNativeTaskbarAppBar. A bar hidden with the rectangle it had when it
\* was last collapsed is left alone, and so is a flat hidden one.
ToCollapse(s) == s.shown \cup (s.tall \ s.known)
Collapse(s) ==
    [s EXCEPT !.shown = {}, !.known = s.tall,
              !.tall = IF temper.flattens THEN @ \ ToCollapse(s) ELSE @]

\* A mutant: a set that did not last is reported each time.
MutCorrects(s) == ~s.full

\* ExpandPrimaryWorkArea; "Retrying the set is fine", reporting it is not.
Corrects(s) == ~s.full /\ s.observed # "strip"
Expand(s) ==
    IF s.full THEN [s EXCEPT !.observed = "full"]
    ELSE [s EXCEPT !.observed = "strip", !.full = temper.yields]

\* ExpandSecondaryMonitorWorkAreas.
Beside(s) == IF s.fullBeside THEN {} ELSE (s.shown \cup s.tall) \ {Primary}
ExpandBeside(s) ==
    [s EXCEPT !.shown = @ \ Beside(s),
              !.tall = IF temper.flattens THEN @ \ Beside(s) ELSE @,
              !.fullBeside = @ \/ (Beside(s) # {} /\ temper.yieldsBeside)]

\* A mutant: each suppression saves the setting it finds.
MutSaveAuto(s) == [s EXCEPT !.saved = IF IsAuto(s) THEN "auto" ELSE "plain"]

\* SuppressNativeTaskbar. The rectangles are those the bars have now.
SaveAuto(s) ==
    IF s.saved # "none" THEN s
    ELSE [s EXCEPT !.saved = IF IsAuto(s) THEN "auto" ELSE "plain"]
RecordRects(s) == [s EXCEPT !.rects = s.tall]
DisableMultiMonitor(s) == [s EXCEPT !.multi = "off"]
Found(s) == [s EXCEPT !.hidden = s.alive]
Suppress(s) ==
    LET hidden(x) == HideBars(RecordRects(SetAuto(SaveAuto(x), FALSE)))
        gone(x) == Found(DisableMultiMonitor(Collapse(x)))
    IN  Then(Then(Then(hidden(s), gone), Expand), ExpandBeside)

StartMonitor(s) ==
    [s EXCEPT !.quiet = CalmPasses, !.fast = FALSE, !.ticking = TRUE]
HideTaskbar(s) == Then(Suppress(s), StartMonitor)

-----------------------------------------------------------------------------
(* The snapshot of the windows over a sleep, and its repair.               *)

ClearWake(s) == [s EXCEPT !.snap = "none", !.passes = 0, !.repairing = FALSE]

\* CaptureWakeLayout: the first one, and only of a whole desktop.
Capture(s) ==
    IF ~s.hidden \/ s.snap # "none" \/ ~s.full THEN s
    ELSE [s EXCEPT !.snap = s.window, !.snapMonitors = s.monitors]

\* A window that reached into the strip and no longer does.
PutBack(s) ==
    IF s.full /\ s.snap = "low" /\ s.window = "high"
    THEN [s EXCEPT !.window = "low", !.mover = "dock"] ELSE s

\* A mutant: a pass that widened the work area leaves the windows to the next.
MutMended(s) == IF s.full THEN PutBack(s) ELSE Expand(s)

Mended(s) == PutBack(IF s.full THEN s ELSE Expand(s))

\* The last pass: kept only for the unlock to come.
LastPass(s) ==
    IF s.locked THEN [s EXCEPT !.passes = 0, !.repairing = FALSE] ELSE ClearWake(s)

RepairPass(s, dragging) ==
    LET ticked == [s EXCEPT !.passes = IF @ = 0 THEN 0 ELSE @ - 1, !.held = dragging]
        same == ~dragging /\ ticked.monitors = ticked.snapMonitors
        repaired == IF same THEN Mended(ticked) ELSE ticked
    IN  IF s.snap = "none" \/ ~s.hidden THEN ClearWake(s)
        ELSE IF repaired.passes = 0 THEN LastPass(repaired) ELSE repaired

BeginRepair(s, dragging) ==
    LET first == RepairPass([s EXCEPT !.passes = WakePasses], dragging)
    IN  IF s.snap = "none" THEN s
        ELSE IF first.snap # "none" THEN [first EXCEPT !.repairing = TRUE]
        ELSE first

Awake(s, dragging) == BeginRepair(HideTaskbar(s), dragging)

-----------------------------------------------------------------------------
(* The process.                                                            *)

\* RestoreTaskbar. "a bare SHOWWINDOW is ignored while the appbar is still
\* collapsed to a zero rect from suppression."
GiveAutoBack(s) ==
    IF s.saved = "none" THEN s ELSE SetAuto([s EXCEPT !.saved = "none"], s.saved = "auto")
Restore(s) ==
    LET back == GiveAutoBack(ClearWake([s EXCEPT !.hold = FALSE, !.ticking = FALSE]))
        tall == IF back.alive THEN back.tall \cup back.rects ELSE {}
    IN  [back EXCEPT !.tall = tall, !.shown = tall, !.hidden = FALSE, !.rects = {}]

Steady == UNCHANGED <<temper, users, trouble, spared>>

\* The constructor and the start of Run.
Fresh(s) ==
    [s EXCEPT !.up = TRUE, !.saved = "none", !.rects = {}, !.known = {},
              !.hidden = FALSE, !.observed = "none",
              !.ticking = FALSE, !.fast = FALSE, !.quiet = 0, !.hold = FALSE,
              !.locked = FALSE, !.asleep = FALSE, !.snap = "none", !.passes = 0, !.repairing = FALSE,
              !.held = FALSE]

Gone(s) == [Fresh(s) EXCEPT !.up = FALSE, !.snapMonitors = 2, !.created = FALSE]

Start ==
    /\ ~desk.up /\ desk.alive /\ trouble < MaxTrouble
    /\ desk' = HideTaskbar(Restore(Fresh(desk)))
    /\ trouble' = trouble + 1
    /\ UNCHANGED <<temper, users, spared>>

\* WM_CLOSE, or the end of the session.
Stop ==
    /\ desk.up
    /\ desk' = Gone(Restore(desk))
    /\ spared' = (spared /\ desk.alive)
    /\ UNCHANGED <<temper, users, trouble>>

Crash ==
    /\ desk.up /\ spared
    /\ desk' = Gone(desk)
    /\ spared' = FALSE
    /\ UNCHANGED <<temper, users, trouble>>

\* The monitor's tick while a flyout holds the dock, and the tick that ends it.
Fast(s) == [s EXCEPT !.quiet = 0, !.fast = TRUE]
TickHeld == desk.up /\ desk.ticking /\ desk.hold /\ desk' = Fast(HideBars(desk)) /\ Steady
TickReleases ==
    /\ desk.up /\ desk.ticking /\ desk.hold
    /\ desk' = Fast(Suppress([HideBars(desk) EXCEPT !.hold = FALSE]))
    /\ Steady

\* MaintainNativeTaskbarSuppression and the timer's cadence.
Corrected(s) ==
    LET plain == HideBars(SetAuto(s, FALSE))
    IN  \/ IsAuto(s) \/ s.shown # {} \/ ToCollapse(plain) # {} \/ Corrects(s)
        \/ Beside(Collapse(plain)) # {}
Maintain(s) ==
    LET plain(x) == HideBars(SetAuto(x, FALSE))
    IN  Then(Then(Then(plain(s), Collapse), Expand), ExpandBeside)
\* A mutant: the quiet ticks are counted on.
MutCalmer(s) == [s EXCEPT !.quiet = @ + 1, !.fast = @ /\ s.quiet + 1 < CalmPasses]

Calmer(s) ==
    LET quiet == IF s.quiet < CalmPasses THEN s.quiet + 1 ELSE CalmPasses
    IN  [s EXCEPT !.quiet = quiet, !.fast = @ /\ quiet < CalmPasses]
Tick ==
    /\ desk.up /\ desk.ticking /\ ~desk.hold
    /\ desk' = IF Corrected(desk) THEN Then(Maintain(desk), Fast) ELSE Then(Maintain(desk), Calmer)
    /\ Steady

\* The timer of the wake repair; a held mouse button puts a pass off.
RepairTick(dragging) ==
    /\ desk.up /\ desk.repairing
    /\ desk' = RepairPass(desk, dragging)
    /\ Steady

TaskbarCreated ==
    /\ desk.up /\ desk.created
    /\ desk' = HideTaskbar([desk EXCEPT !.created = FALSE])
    /\ Steady

-----------------------------------------------------------------------------
(* Explorer, the user and the system.                                      *)

Squeezed(s) ==
    IF s.window = "low" THEN [s EXCEPT !.window = "high", !.mover = "shell"] ELSE s

ShellShows(b) ==
    desk.alive /\ desk' = [desk EXCEPT !.shown = @ \cup {b}, !.tall = @ \cup {b}]
ShellReserves ==
    desk.alive /\ desk.full /\ desk' = Squeezed([desk EXCEPT !.full = FALSE])
ShellReservesBeside == desk.alive /\ desk.fullBeside /\ desk' = [desk EXCEPT !.fullBeside = FALSE]
ShellDies == desk.alive /\ desk' = [desk EXCEPT !.alive = FALSE, !.shown = {}, !.tall = {}]
ShellStarts ==
    /\ ~desk.alive
    /\ desk' = Squeezed([desk EXCEPT !.alive = TRUE, !.shown = Bars, !.tall = Bars,
                               !.full = FALSE, !.fullBeside = FALSE, !.created = desk.up])

\* A choice made under a running dock is taken back by it.
AutohideChosen ==
    /\ desk.alive /\ ~desk.auto
    /\ desk' = [desk EXCEPT !.auto = TRUE]
    /\ users' = IF desk.up THEN users ELSE [users EXCEPT !.auto = TRUE]
WindowMoves ==
    /\ ~desk.locked /\ ~desk.asleep
    /\ \E w \in {"low", "high"} \ {desk.window} :
        desk' = [desk EXCEPT !.window = w, !.mover = "user"]
ClockClick == desk.up /\ ~desk.hold /\ desk' = Fast([desk EXCEPT !.hold = TRUE, !.ticking = TRUE])

Lock == desk.up /\ ~desk.locked /\ desk' = [Capture(desk) EXCEPT !.locked = TRUE]
Unlock(dragging) ==
    desk.up /\ desk.locked /\ desk' = Awake([desk EXCEPT !.locked = FALSE], dragging)
Suspend == desk.up /\ desk' = [Capture(desk) EXCEPT !.asleep = TRUE]
Resume(dragging) == desk.up /\ desk' = Awake([desk EXCEPT !.asleep = FALSE], dragging)
DisplayChange(m, dragging) ==
    desk.up /\ desk' = BeginRepair(HideTaskbar([desk EXCEPT !.monitors = m]), dragging)

ShellTroubles ==
    \/ \E b \in Bars : ShellShows(b)
    \/ ShellReserves \/ ShellReservesBeside \/ ShellDies
SystemTroubles ==
    \/ WindowMoves \/ ClockClick \/ Lock \/ Suspend
    \/ \E dragging \in BOOLEAN :
        \/ Unlock(dragging) \/ Resume(dragging)
        \/ \E m \in {1, 2} : DisplayChange(m, dragging)

Trouble ==
    /\ trouble < MaxTrouble /\ trouble' = trouble + 1
    /\ AutohideChosen \/ ((ShellTroubles \/ SystemTroubles) /\ UNCHANGED users)
    /\ UNCHANGED <<temper, spared>>

\* Winlogon starts Explorer again.
ShellReturns == ShellStarts /\ Steady

TakeoverInit ==
    /\ temper \in Tempers
    /\ users \in [auto : BOOLEAN, multi : MultiBefore]
    /\ spared = TRUE /\ trouble = 0
    /\ desk = [alive |-> TRUE, shown |-> Bars, tall |-> Bars, auto |-> users.auto,
            multi |-> users.multi, full |-> FALSE, fullBeside |-> FALSE,
            created |-> FALSE, monitors |-> 2, window |-> "low", mover |-> "user",
            up |-> FALSE, saved |-> "none", rects |-> {}, known |-> {},
            hidden |-> FALSE, observed |-> "none",
            ticking |-> FALSE, fast |-> FALSE, quiet |-> 0, hold |-> FALSE,
            locked |-> FALSE, asleep |-> FALSE, snap |-> "none", snapMonitors |-> 2, passes |-> 0,
            repairing |-> FALSE, held |-> FALSE]

TakeoverNext ==
    \/ Start \/ Stop \/ Crash \/ TickHeld \/ TickReleases \/ Tick
    \/ \E dragging \in BOOLEAN : RepairTick(dragging)
    \/ TaskbarCreated \/ Trouble \/ ShellReturns

\* The timers of a running dock go off and its messages arrive; a flyout closes.
TakeoverFairness ==
    /\ WF_takeoverVars(TickHeld) /\ SF_takeoverVars(TickReleases)
    /\ WF_takeoverVars(Tick) /\ WF_takeoverVars(RepairTick(FALSE))
    /\ WF_takeoverVars(TaskbarCreated) /\ WF_takeoverVars(ShellReturns)

TakeoverSpec == TakeoverInit /\ [][TakeoverNext]_takeoverVars /\ TakeoverFairness

-----------------------------------------------------------------------------

\* "Hoverdock hides the Windows taskbar": a bar Explorer shows under a running
\* dock is hidden again, whatever restarts, wakes and flyouts come between, and
\* the monitor does not fight for ever with an Explorer that gives way slowly or
\* not at all: once the trouble is over it goes back to its slow cadence.
BarShown == desk.up /\ desk.shown # {}
Fighting == desk.up /\ desk.fast
BarsSettle == (BarShown \/ Fighting) ~> ~(BarShown \/ Fighting)

\* A dock that stops gives the user's autohide back and lets its timers rest,
\* however often it suppressed the bars in between.
QuitGivesBack ==
    [][desk.up /\ ~desk'.up /\ spared' =>
            /\ trouble = 1 \/ ~temper.flattens => desk'.shown = Bars
            /\ desk'.auto = users.auto]_takeoverVars

\* A window Explorer pulled up out of the strip during a repair is put back,
\* unless the monitors changed, a button was held or the dock lost the bars.
Pulled ==
    /\ desk.up /\ desk.repairing /\ desk.hidden /\ desk.snap = "low" /\ temper.yields
    /\ desk.window = "high" /\ desk.mover = "shell" /\ desk.monitors = desk.snapMonitors
PulledWindowsReturn ==
    Pulled ~> (desk.window = "low" \/ desk.mover # "shell" \/ ~desk.up \/ ~desk.hidden
               \/ desk.monitors # desk.snapMonitors \/ desk.held)

\* What follows does not hold and no run checks it; the README says why.

\* "Everything is restored": a dock that stops normally leaves the bars on screen
\* and the user's settings as they were.
EverythingIsRestored ==
    [][desk.up /\ ~desk'.up /\ spared' =>
            desk'.shown = Bars /\ desk'.auto = users.auto /\ desk'.multi = users.multi]_takeoverVars

\* "Anything else is a deliberate move and is left alone": the repair never
\* undoes where the user put a window.
DeliberateMovesStay ==
    [][desk'.mover = "dock" /\ desk'.window # desk.window => desk.mover = "shell"]_takeoverVars

=============================================================================
