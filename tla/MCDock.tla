------------------------------- MODULE MCDock -------------------------------
(***************************************************************************)
(* The dock's window on the desktop, its reveal and its hold on the        *)
(* taskbar, and the boost, which closes the windows of others.  A          *)
(* behaviour picks one of Parts and steps only that one, so the state      *)
(* spaces add up.                                                          *)
(***************************************************************************)
EXTENDS DockReveal, TaskbarTakeover, BoostRun, TLC

CONSTANTS Parts, h1, h2, k2, o1, a1, m1, m2

VARIABLE part

dockVars == <<part, revealVars, takeoverVars, boostVars>>

\* Two hot pixels of monitor m1, one of m2, one over the pill and one away.
MCPlaceOf == (h1 :> "hot") @@ (h2 :> "hot") @@ (k2 :> "hot") @@ (o1 :> "over") @@ (a1 :> "away")
MCMonitorOf == [p \in {h1, h2, o1, a1} |-> m1] @@ (k2 :> m2)

Ordinary == [elevated |-> FALSE, fills |-> NoMonitor]
Elevated == [elevated |-> TRUE, fills |-> NoMonitor]
Filling == [elevated |-> FALSE, fills |-> m1]

Scene(does, pixels, windows) == [does |-> does, pixels |-> pixels, windows |-> windows]
Fullscreen == Scene({"windows"}, {h1, k2, a1}, {Ordinary, Filling})
MCScenes ==
    { Fullscreen,
      Scene({"windows"}, {h1, k2, a1}, {Ordinary, Elevated}),
      Scene({"clock", "drag"}, {h1, h2, o1}, {Ordinary}),
      Scene({"clock"}, {h1, h2, a1}, {Ordinary}),
      Scene({"search"}, {h1, h2, a1}, {Ordinary}),
      Scene({"drag", "popup"}, {h1, h2, a1, o1}, {Ordinary}) }
OneScene == {Fullscreen}

\* Explorer gives way at once, takes its strip back for ever, or keeps a
\* rectangle it does not show.
Answers(f, y, b) == [flattens |-> f, yields |-> y, yieldsBeside |-> b]
MCTempers == {Answers(TRUE, TRUE, TRUE), Answers(TRUE, FALSE, FALSE), Answers(FALSE, TRUE, TRUE)}

\* Process tables: a program with a helper, a program and a protected one.
P(exe, id, win) == [exe |-> exe, id |-> id, win |-> win]
MCTables == { <<P("chat", 1, "shown"), P("chat", 2, "none")>>,
              <<P("tool", 1, "shown"), P("shell", 2, "shown")>> }

DockInit ==
    /\ part \in Parts
    /\ RevealInit
    /\ part # "reveal" => /\ scene = Fullscreen /\ cursor = a1 /\ ~hook
                          /\ foreground = Ordinary /\ dock.host = m1
    /\ TakeoverInit
    /\ part # "taskbar" => /\ temper = Answers(TRUE, TRUE, TRUE)
                           /\ users = [auto |-> FALSE, multi |-> CHOOSE m \in MultiBefore : TRUE]
    /\ startup \in {{}, {"chat", "tool"}}
    /\ BoostInit /\ (part # "boost" => /\ procs = CHOOSE t \in Tables : TRUE
                                       /\ front = NoPid /\ ~key /\ startup = {})

DockNext ==
    \/ part = "reveal" /\ RevealNext /\ UNCHANGED <<part, takeoverVars, boostVars>>
    \/ part = "taskbar" /\ TakeoverNext /\ UNCHANGED <<part, revealVars, boostVars>>
    \/ part = "boost" /\ BoostNext /\ UNCHANGED <<part, revealVars, takeoverVars>>

\* A taskbar nobody took owes nothing; a dock always has timers, so what
\* RevealFairness says is asked for where the reveal steps.
Reveals == part = "reveal"
DockFairness ==
    /\ TakeoverFairness /\ BoostFairness
    /\ WF_revealVars(Reveals /\ PointerMessage) /\ WF_revealVars(Reveals /\ DeliverWinEvent)
    /\ WF_revealVars(Reveals /\ SyncMessage) /\ WF_revealVars(Reveals /\ Pump)
    /\ WF_revealVars(Reveals /\ MonitorTick) /\ WF_revealVars(Reveals /\ SlideFinishes)
    /\ WF_revealVars(Reveals /\ HoldRunsOut)
    /\ WF_revealVars(Reveals /\ ElevationExpires)

DockSpec == DockInit /\ [][DockNext]_dockVars /\ DockFairness

\* The types of the parts.
DockTypeOK == RevealTypeOK /\ TakeoverTypeOK /\ BoostTypeOK

\* "Touch the bottom edge of your screen and it slides in. Move away and it's
\* gone": where the pointer rests decides, whichever of hook, timer and sample
\* saw it go there.
PointerIsHeeded == TouchReveals /\ LeavingHides

\* What was begun ends. What a flyout or an elevated window made the dock do ends
\* with it; the latch that keeps a second boost out opens again, however the first
\* one ends; a bar Explorer shows goes away and the fight for it ends; a window
\* Explorer pulled up comes down.
RestsAgain ==
    /\ HoldEnds /\ HiddenIsQuiet /\ BoostEnds
    /\ BarsSettle /\ PulledWindowsReturn

=============================================================================
