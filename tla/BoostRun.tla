------------------------------ MODULE BoostRun ------------------------------
(***************************************************************************)
(* "Boost performance": a detached thread of the dock chooses startup      *)
(* entries to disable and processes to close, by a judgment asked of a     *)
(* service or by a heuristic, and closes them while processes start, exit, *)
(* reuse process ids and change their windows around it (RunPerformance-   *)
(* Boost in DockApp.cpp, PerfBoost.cpp).  The judgment is asked on another *)
(* thread and given up after its budget; that thread then still runs, on   *)
(* inputs the boost's thread has left.  What is to be closed is checked,   *)
(* then its windows are looked for, then it is opened again by its id:     *)
(* the world goes on between these steps.                                  *)
(*                                                                         *)
(* A process is a program, an identity that tells it from a later process  *)
(* of the same id, and its windows.  Caps on numbers, memory, processor    *)
(* time and ages only narrow a choice and are left out; so are startup     *)
(* entries that are shortcuts, which end no process.                       *)
(***************************************************************************)
EXTENDS Integers, FiniteSets

CONSTANTS Pids,        \* process ids
          Tables,      \* process tables to begin with
          MaxChanges   \* bound: what other processes do

Exes == {"chat", "tool", "shell"}
Windows == {"none", "hidden", "shown"}
Processes == [exe : Exes \cup {"none"}, id : Nat, win : Windows]

\* IsProtectedExecutable, IsHardProtectedStartup, IsCriticalFileName and
\* IsUiHelperProcess; LooksLikeOptionalStartupSoftHeuristic.
IsProtected(exe) == exe = "shell"
LooksOptional(exe) == exe = "chat"

\* No process, and no foreground process.
Nobody == [exe |-> "none", id |-> 0, win |-> "none"]
NoPid == 0

\* The first processes have an identity each.
ASSUME TablesAreProcesses ==
    /\ IsFiniteSet(Pids) /\ NoPid \notin Pids /\ MaxChanges \in Nat
    /\ \A t \in Tables :
          /\ t \in [Pids -> Processes]
          /\ \A p \in Pids : t[p].exe \in Exes /\ t[p].id \in 1 .. Cardinality(Pids)
          /\ \A p, q \in Pids : t[p].id = t[q].id => p = q

NoAct == [by |-> "none"]
NoTurn == [target |-> [pid |-> NoPid, exe |-> "none"], since |-> 0]

VARIABLES
    procs,       \* the processes of the session
    front,       \* the process of the foreground window
    births,      \* processes started so far: the last identity
    changes,     \* bound: what other processes did
    closeAsked,  \* identities with WM_CLOSE in a window's queue
    key,         \* there is an API key
    startup,     \* enabled startup entries, by program
    boosting,    \* m_boostInFlight
    at,          \* where the boost's thread is
    entries,     \* startup entries chosen
    chosen,      \* candidates, then the targets chosen from them
    allow,       \* allowTerminateWindowless
    fg,          \* the foreground process as a pass sampled it
    left,        \* what is left of a pass
    turn,        \* the process it handles, and births when that was checked
    attempted,   \* targets asked to close, or terminated
    counted,     \* identities reported closed by CloseTargets
    blind,       \* history: the snapshot that confirms them failed
    reply,       \* the finished reply is posted
    late,        \* judgments given up that have not returned
    alive,       \* the dock runs
    act          \* history: what the pass has just closed or terminated, for which choice

worldVars == <<procs, front, births, changes, closeAsked>>
ledger == <<turn, attempted, counted, blind>>
passVars == <<entries, chosen, allow, fg, left, ledger, act>>
boostVars == <<worldVars, key, startup, boosting, at, passVars, reply, late, alive>>

BoostInit ==
    /\ procs \in Tables
    /\ front \in {NoPid} \cup {p \in Pids : procs[p].win = "shown"}
    /\ births = Cardinality(Pids)
    /\ changes = 0
    /\ closeAsked = {}
    /\ key \in BOOLEAN
    /\ startup \in SUBSET {"chat", "tool"}
    /\ boosting = FALSE /\ at = "new"
    /\ entries = {} /\ chosen = {} /\ allow = FALSE /\ fg = NoPid
    /\ left = {} /\ turn = NoTurn /\ attempted = {} /\ counted = {} /\ blind = FALSE
    /\ act = NoAct
    /\ reply = FALSE /\ late = 0 /\ alive = TRUE

Live(p) == procs[p] # Nobody

\* The processes without p.
Without(p) == [procs EXCEPT ![p] = Nobody]

-----------------------------------------------------------------------------
(* The interface thread.                                                   *)

\* RunPerformanceBoost; once per run of the model.
StartBoost ==
    /\ alive /\ at = "new" /\ ~boosting
    /\ boosting' = TRUE
    /\ at' = "startup"
    /\ UNCHANGED <<worldVars, key, startup, passVars, reply, late, alive>>

\* ApplyBoostResult.
ApplyBoostResult ==
    /\ alive /\ reply
    /\ reply' = FALSE
    /\ boosting' = FALSE
    /\ UNCHANGED <<worldVars, key, startup, at, passVars, late, alive>>

-----------------------------------------------------------------------------
(* Choosing startup entries.                                               *)

BoostAt(s) == alive /\ at = s

BoostUnchanged == UNCHANGED <<key, boosting, reply, alive>>

\* SelectStartupHeuristic.
StartupHeuristic == {e \in startup : LooksOptional(e)}

\* What was selected is disabled and ended; nothing selected, nothing done.
Selected(es) ==
    /\ entries' = es
    /\ at' = IF es = {} THEN "profile" ELSE "disable"

\* EnumerateStartupCandidates and what follows it.
ListStartup ==
    /\ BoostAt("startup")
    /\ IF startup = {} \/ ~key
       THEN Selected(StartupHeuristic)
       ELSE at' = "judgeStartup" /\ UNCHANGED entries
    /\ UNCHANGED <<worldVars, startup, chosen, allow, fg, left, ledger, act, late>>
    /\ BoostUnchanged

\* ClassifyForStartupBoost answers in time: a choice, or a failure.
JudgeStartup ==
    /\ BoostAt("judgeStartup")
    /\ \/ \E es \in SUBSET startup : Selected(es)
       \/ Selected(StartupHeuristic)
    /\ UNCHANGED <<worldVars, startup, chosen, allow, fg, left, ledger, act, late>>
    /\ BoostUnchanged

\* waitForJudgment gives up.
StartupBudget ==
    /\ BoostAt("judgeStartup")
    /\ Selected(StartupHeuristic)
    /\ late' = late + 1
    /\ UNCHANGED <<worldVars, startup, chosen, allow, fg, left, ledger, act>>
    /\ BoostUnchanged

\* DisableStartupTargets writes StartupApproved, which nothing here reads again.
\* Then the pass of EndAssociatedProcesses samples the foreground and takes its
\* snapshot, which may fail.
DisableStartup ==
    /\ BoostAt("disable")
    /\ fg' = front
    /\ \/ left' = {[pid |-> p, exe |-> procs[p].exe] : p \in {q \in Pids : Live(q)}}
       \/ left' = {}
    /\ at' = "end"
    /\ UNCHANGED <<worldVars, startup, entries, chosen, allow, ledger, act, late>>
    /\ BoostUnchanged

\* The process of s is handled from here on.
TakeTurn(s, next) ==
    /\ turn' = [target |-> s, since |-> births]
    /\ at' = next

TurnEnds(next) == turn' = NoTurn /\ at' = next

\* Executables of targets that had a window.
ExesWithWindows == {t.exe : t \in {u \in chosen : u.win}}

HasWindowedTwin(p) == \E q \in Pids \ {p} : procs[q].exe = procs[p].exe /\ procs[q].win = "shown"

Act(by, kind) ==
    LET p == turn.target.pid
    IN  [by |-> by, kind |-> kind, pid |-> p, exe |-> procs[p].exe, id |-> procs[p].id,
         meant |-> turn.target.exe, since |-> turn.since, fg |-> fg, allow |-> allow,
         windowed |-> turn.target.exe \in ExesWithWindows, helper |-> HasWindowedTwin(p)]

\* The process with this id is asked to close by its windows, or terminated.
HasWindows(p) == procs[p].win # "none"
AskToClose(p) == closeAsked' = closeAsked \cup {procs[p].id} /\ UNCHANGED <<procs, front>>
Terminate(p) ==
    /\ procs' = Without(p)
    /\ front' = IF front = p THEN NoPid ELSE front
    /\ UNCHANGED closeAsked

\* Nothing is done: the process is gone, or cannot be opened or terminated.
LeaveAlone == act' = NoAct /\ UNCHANGED <<procs, front, closeAsked>>

\* EndAssociatedProcesses, one process of the snapshot: by the name it had there,
\* and with a window or without.
EndOne ==
    /\ BoostAt("end")
    /\ \E s \in left :
         /\ left' = left \ {s}
         /\ IF s.pid = fg \/ s.exe \notin entries \/ IsProtected(s.exe) \/ ~Live(s.pid)
            THEN UNCHANGED <<at, turn>>
            ELSE TakeTurn(s, IF procs[s.pid].win = "shown" THEN "endClose" ELSE "endKill")
    /\ act' = NoAct
    /\ UNCHANGED <<worldVars, startup, entries, chosen, allow, fg, attempted, counted, blind, late>>
    /\ BoostUnchanged

EndActs ==
    /\ LET p == turn.target.pid
       IN  \/ BoostAt("endClose") /\ HasWindows(p) /\ act' = Act("startup", "close") /\ AskToClose(p)
           \/ BoostAt("endClose") /\ ~HasWindows(p) /\ LeaveAlone
           \/ BoostAt("endKill") /\ Live(p) /\ act' = Act("startup", "kill") /\ Terminate(p)
           \/ BoostAt("endKill") /\ LeaveAlone
    /\ TurnEnds("end")
    /\ UNCHANGED <<births, changes, startup, entries, chosen, allow, fg, left, attempted, counted,
                   blind, late>>
    /\ BoostUnchanged

EndDone ==
    /\ BoostAt("end") /\ left = {}
    /\ at' = "profile"
    /\ entries' = {} /\ fg' = NoPid /\ act' = NoAct
    /\ UNCHANGED <<worldVars, startup, chosen, allow, left, ledger, late>>
    /\ BoostUnchanged

-----------------------------------------------------------------------------
(* Choosing processes.                                                     *)

Candidate(p) == [pid |-> p, exe |-> procs[p].exe, id |-> procs[p].id, win |-> procs[p].win # "none"]

\* Targets chosen, closed if there are any.
Targets(ts, terminate) ==
    /\ chosen' = ts
    /\ allow' = terminate
    /\ at' = IF ts = {} THEN "finish" ELSE "close"

\* selectHeuristic: settled applications with windows.
Heuristic(cs) == \E ts \in SUBSET {c \in cs : c.win} : Targets(ts, FALSE)

\* EnumerateClosableCandidates and what follows it.
Profile ==
    /\ BoostAt("profile")
    /\ LET cs == {Candidate(p) : p \in {q \in Pids : /\ Live(q) /\ q # front
                                                     /\ ~IsProtected(procs[q].exe)}}
       IN  IF cs = {} \/ ~key
           THEN Heuristic(cs)
           ELSE chosen' = cs /\ at' = "judge" /\ UNCHANGED allow
    /\ UNCHANGED <<worldVars, startup, entries, fg, left, ledger, act, late>>
    /\ BoostUnchanged

\* ClassifyForBoost answers in time: judged safe and idle, or a failure.
Judge ==
    /\ BoostAt("judge")
    /\ \/ \E ts \in SUBSET chosen : Targets(ts, TRUE)
       \/ Heuristic(chosen)
    /\ UNCHANGED <<worldVars, startup, entries, fg, left, ledger, act, late>>
    /\ BoostUnchanged

Budget ==
    /\ BoostAt("judge")
    /\ Heuristic(chosen)
    /\ late' = late + 1
    /\ UNCHANGED <<worldVars, startup, entries, fg, left, ledger, act>>
    /\ BoostUnchanged

-----------------------------------------------------------------------------
(* CloseTargets.                                                           *)

BeginClose ==
    /\ BoostAt("close")
    /\ fg' = front
    /\ left' = chosen
    /\ at' = "closing"
    /\ UNCHANGED <<worldVars, startup, entries, chosen, allow, ledger, act, late>>
    /\ BoostUnchanged

\* A mutant: the live process is not compared with the one chosen.
MutStillTheTarget(t) == TRUE

\* The freshness check, of the live image.
StillTheTarget(t) == procs[t.pid].exe = t.exe /\ ~IsProtected(procs[t.pid].exe)

\* OpenProcess finds no process, or is refused by one that nobody would choose.
MayNotOpen(p) == ~Live(p) \/ IsProtected(procs[p].exe)

\* The check of one target. What can not be opened is taken for gone.
CheckOne ==
    /\ BoostAt("closing")
    /\ \E t \in left :
         /\ left' = left \ {t}
         /\ \/ /\ t.pid = fg \/ (Live(t.pid) /\ ~StillTheTarget(t))
               /\ UNCHANGED <<at, turn, counted>>
            \/ /\ t.pid # fg /\ MayNotOpen(t.pid)
               /\ counted' = counted \cup {t.id}
               /\ UNCHANGED <<at, turn>>
            \/ /\ t.pid # fg /\ Live(t.pid) /\ StillTheTarget(t)
               /\ TakeTurn(t, "look")
               /\ UNCHANGED counted
    /\ act' = NoAct
    /\ UNCHANGED <<worldVars, startup, entries, chosen, allow, fg, attempted, blind, late>>
    /\ BoostUnchanged

TurnUnchanged ==
    /\ UNCHANGED <<births, changes, startup, entries, chosen, allow, fg, left, counted, blind, late>>
    /\ BoostUnchanged

\* The windows of its id are asked to close; if there are none, it may be terminated.
LookOne ==
    /\ BoostAt("look")
    /\ LET t == turn.target
       IN  IF HasWindows(t.pid)
           THEN /\ act' = Act("targets", "close") /\ AskToClose(t.pid)
                /\ attempted' = attempted \cup {t}
                /\ TurnEnds("closing")
           ELSE /\ LeaveAlone /\ UNCHANGED attempted
                /\ IF ~allow \/ t.exe \in ExesWithWindows
                   THEN TurnEnds("closing")
                   ELSE at' = "kill" /\ UNCHANGED turn
    /\ TurnUnchanged

\* Its id is opened again to terminate what has it now; either call may fail.
KillOne ==
    /\ BoostAt("kill")
    /\ LET t == turn.target
       IN  \/ /\ Live(t.pid)
              /\ act' = Act("targets", "kill") /\ Terminate(t.pid)
              /\ attempted' = attempted \cup {t}
           \/ LeaveAlone /\ UNCHANGED attempted
    /\ TurnEnds("closing")
    /\ TurnUnchanged

\* A mutant: what was attempted is counted.
MutExited(shown) == attempted

\* The targets whose id the snapshot does not show.
Exited(shown) == {t \in attempted : t.pid \notin shown}

\* A second later, if anything was attempted. A snapshot that fails shows nothing.
Confirm ==
    /\ BoostAt("closing") /\ left = {}
    /\ \E fails \in BOOLEAN :
         /\ fails => attempted # {}
         /\ counted' = counted \cup
              {t.id : t \in Exited(IF fails THEN {} ELSE {p \in Pids : Live(p)})}
         /\ blind' = (blind \/ fails)
    /\ at' = "finish"
    /\ chosen' = {} /\ allow' = FALSE /\ fg' = NoPid /\ attempted' = {} /\ act' = NoAct
    /\ UNCHANGED <<worldVars, startup, entries, left, turn, late>>
    /\ BoostUnchanged

-----------------------------------------------------------------------------
(* The end of the boost's thread.                                          *)

\* postStatus lets the latch go when PostMessageW fails.
UnpostedLatch == FALSE

\* postStatus(..., true), by a return, by EnsureBoostFinished or by the handler
\* of an exception.
Finish ==
    /\ BoostAt("finish")
    /\ at' = "done"
    /\ \/ reply' = TRUE /\ UNCHANGED boosting
       \/ boosting' = UnpostedLatch /\ UNCHANGED reply
    /\ UNCHANGED <<worldVars, key, startup, passVars, late, alive>>

\* An exception, wherever the thread is.
Throws ==
    /\ alive
    /\ at \in {"startup", "judgeStartup", "profile", "judge", "close"}
    /\ at' = "finish"
    /\ UNCHANGED <<worldVars, startup, passVars, late>>
    /\ BoostUnchanged

\* A judgment that was given up returns and reads the vector it was lent by
\* reference, which the boost's thread has destroyed: it may find bytes as good
\* as any, whose answer nobody reads.
LateJudgment ==
    /\ alive /\ late > 0
    /\ late' = late - 1
    /\ UNCHANGED <<worldVars, key, startup, boosting, at, passVars, reply, alive>>

\* It finds an address no longer mapped, and the dock dies.
LateJudgmentFaults ==
    /\ alive /\ late > 0
    /\ alive' = FALSE
    /\ late' = 0 /\ at' = "done" /\ reply' = FALSE
    /\ entries' = {} /\ chosen' = {} /\ allow' = FALSE /\ fg' = NoPid
    /\ left' = {} /\ turn' = NoTurn /\ attempted' = {} /\ counted' = {} /\ blind' = FALSE
    /\ act' = NoAct
    /\ UNCHANGED <<worldVars, key, startup, boosting>>

Boost == ListStartup \/ JudgeStartup \/ StartupBudget \/ DisableStartup \/ EndOne \/ EndActs
         \/ EndDone \/ Profile \/ Judge \/ Budget \/ BeginClose \/ CheckOne \/ LookOne \/ KillOne
         \/ Confirm \/ Finish \/ Throws

-----------------------------------------------------------------------------
(* The other processes.                                                    *)

WorldUnchanged == UNCHANGED <<key, startup, boosting, at, passVars, reply, late, alive>>

\* A boost that has finished no longer looks.
World(change) ==
    /\ alive /\ boosting /\ at \notin {"finish", "done"}
    /\ changes < MaxChanges
    /\ changes' = changes + 1
    /\ change
    /\ WorldUnchanged

ProcessExits(p) ==
    /\ Live(p)
    /\ Terminate(p)
    /\ UNCHANGED births

\* A process id may be used again.
ProcessStarts(p) ==
    /\ ~Live(p)
    /\ births' = births + 1
    /\ \E exe \in Exes, win \in {"none", "shown"} :
         procs' = [procs EXCEPT ![p] = [exe |-> exe, id |-> births + 1, win |-> win]]
    /\ UNCHANGED <<front, closeAsked>>

WindowChanges(p) ==
    /\ Live(p)
    /\ \E win \in {"none", "hidden", "shown"} : procs' = [procs EXCEPT ![p].win = win]
    /\ front' = IF procs'[p].win # "shown" /\ front = p THEN NoPid ELSE front
    /\ UNCHANGED <<births, closeAsked>>

FocusChanges(p) ==
    /\ procs[p].win = "shown" /\ front # p
    /\ front' = p
    /\ UNCHANGED <<procs, births, closeAsked>>

\* A process that was asked to may close; one that asks its user may not.
ClosesItself ==
    /\ alive /\ at \notin {"finish", "done"}
    /\ \E p \in Pids : Live(p) /\ procs[p].id \in closeAsked /\ Terminate(p)
    /\ UNCHANGED <<births, changes>>
    /\ WorldUnchanged

BoostNext ==
    \/ StartBoost \/ ApplyBoostResult \/ Boost \/ LateJudgment \/ LateJudgmentFaults
    \/ ClosesItself
    \/ \E p \in Pids : \/ World(ProcessExits(p)) \/ World(ProcessStarts(p))
                       \/ World(WindowChanges(p)) \/ World(FocusChanges(p))

BoostSpec == BoostInit /\ [][BoostNext]_boostVars

\* Threads run and budgets end; no judgment is ever promised.
BoostFairness ==
    /\ WF_boostVars(Boost)
    /\ WF_boostVars(ApplyBoostResult)

-----------------------------------------------------------------------------
(* Properties.                                                             *)

\* Type invariant.
BoostTypeOK ==
    /\ procs \in [Pids -> Processes]
    /\ front \in Pids \cup {NoPid} /\ fg \in Pids \cup {NoPid}
    /\ births \in Nat /\ changes \in Nat /\ late \in Nat
    /\ closeAsked \in SUBSET Nat
    /\ startup \in SUBSET Exes /\ entries \in SUBSET Exes
    /\ key \in BOOLEAN /\ boosting \in BOOLEAN /\ allow \in BOOLEAN
    /\ reply \in BOOLEAN /\ alive \in BOOLEAN /\ blind \in BOOLEAN
    /\ at \in {"new", "startup", "judgeStartup", "disable", "end", "endClose", "endKill", "profile",
               "judge", "close", "closing", "look", "kill", "finish", "done"}
    /\ turn.target.pid \in Pids \cup {NoPid} /\ turn.since \in Nat
    /\ counted \in SUBSET Nat

\* Rules 1, 2, 5 and 6 of PerfBoost.h as far as CloseTargets keeps them, whatever
\* starts, exits, gains or loses windows and takes over an id in the meantime. What it
\* asks to close or terminates is the program that was chosen and is not protected,
\* unless it started after the check and took over the id; its id is not that of the
\* foreground when the pass began. It is terminated only on a judgment, and never for a
\* target whose executable had a window among the targets.
TargetsAreRespected ==
    act.by = "targets" =>
        /\ (act.exe = act.meant /\ ~IsProtected(act.exe)) \/ act.id > act.since
        /\ act.pid # act.fg
        /\ act.kind = "kill" => act.allow /\ ~act.windowed

\* "Confirm who actually exited so the reported count reflects reality instead
\* of intent": what a boost counts as closed does not run any more. Where the
\* snapshot failed nothing was confirmed, and it was asked to close at least.
ReportedAreGone ==
    \A p \in Pids : procs[p].id \in counted => blind /\ procs[p].id \in closeAsked

\* The latch that keeps a second boost out is let go, however slow the service
\* and whether or not the reply can be posted.
BoostEnds == boosting ~> (~boosting \/ ~alive)

\* What follows does not hold and no run checks it; the README says why.

\* "Windowless processes that share their executable with a windowed process
\* (helpers, renderers) are never terminated."
HelpersAreSpared == act.by # "none" /\ act.kind = "kill" => ~act.helper

\* "Targets are re-validated immediately before closing": what is touched is what was
\* checked.
TakeOversAreSeen ==
    act.by = "targets" => act.exe = act.meant /\ ~IsProtected(act.exe)

\* "The reported count reflects reality".
CountIsConfirmed == \A p \in Pids : procs[p].id \notin counted

\* "Hard budget so a hung/slow api.typesafe.ai cannot leave the UI on "Startup
\* apps..." forever": an answer that comes after its budget does no harm.
LateAnswerIsHarmless == alive

=============================================================================
