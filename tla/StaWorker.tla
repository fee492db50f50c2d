------------------------------ MODULE StaWorker ------------------------------
(***************************************************************************)
(* The worker thread of src/StaWorker.h: a queue of jobs under a mutex and *)
(* an auto-reset event the thread sleeps on.  One thread, the owner, posts *)
(* and stops (DockApp's interface thread); the other is Main.  What a      *)
(* mutex protects is one step; setting the event comes after the mutex is  *)
(* released, as in the code.                                               *)
(*                                                                         *)
(* If no event can be created the job is run by a thread of its own, in no *)
(* order with the others; that is the case the constant EventCreated       *)
(* leaves out or in, and the promise of JobQueue is made without it.       *)
(***************************************************************************)
EXTENDS Naturals, Sequences

CONSTANTS MaxJobs,      \* bound: jobs posted
          EventCreated  \* FALSE: CreateEventW may fail

ASSUME StaWorkerAssumption == MaxJobs \in Nat /\ EventCreated \in BOOLEAN

VARIABLES
    jobs,      \* m_jobs
    stopping,  \* m_stopping
    created,   \* m_wake is a handle and m_thread runs, or has run
    wake,      \* the event is set
    owner,     \* where the owner is in Post or Stop
    main,      \* where Main is
    running,   \* the job Main runs, or 0
    posted,    \* history: jobs accepted into the queue
    ran,       \* history: jobs Main has run, in order
    alone      \* jobs posted without an event, on threads of their own

ownerVars == <<owner, stopping, created, posted, alone>>
vars == <<jobs, wake, main, running, ran, ownerVars>>

Init ==
    /\ jobs = <<>>
    /\ stopping = FALSE
    /\ created = FALSE
    /\ wake = FALSE
    /\ owner = "idle"
    /\ main = "none"
    /\ running = 0
    /\ posted = 0
    /\ ran = <<>>
    /\ alone = 0

-----------------------------------------------------------------------------
(* The owner.                                                              *)

\* Post under the mutex: the event and the thread on first use, the job.
Enqueue ==
    /\ owner = "idle"
    /\ ~stopping
    /\ posted < MaxJobs
    /\ created' = TRUE
    /\ main' = IF created THEN main ELSE "loop"
    /\ posted' = posted + 1
    /\ jobs' = Append(jobs, posted')
    /\ owner' = "posted"
    /\ UNCHANGED <<stopping, wake, running, ran, alone>>

\* Post with no event: a detached thread.
RunAlone ==
    /\ owner = "idle"
    /\ ~stopping
    /\ ~created
    /\ ~EventCreated
    /\ alone < MaxJobs
    /\ alone' = alone + 1
    /\ UNCHANGED <<jobs, wake, main, running, ran, owner, stopping, created, posted>>

\* Post after Stop.
Dropped ==
    /\ owner = "stopped"
    /\ stopping
    /\ UNCHANGED vars

\* A mutant: the event is set only for the first job.
MutSignalFirst == IF posted = 1 THEN TRUE ELSE wake

\* The event is set for every job.
SignalPost == TRUE

\* SetEvent at the end of Post.
PostSignals ==
    /\ owner = "posted"
    /\ owner' = "idle"
    /\ wake' = SignalPost
    /\ UNCHANGED <<jobs, main, running, ran, stopping, created, posted, alone>>

BeginStop ==
    /\ owner = "idle"
    /\ ~stopping
    /\ stopping' = TRUE
    /\ owner' = "signal"
    /\ UNCHANGED <<jobs, wake, main, running, ran, created, posted, alone>>

\* Stop sets the event.
StopSignal == TRUE

StopSignals ==
    /\ owner = "signal"
    /\ owner' = "join"
    /\ wake' = IF created THEN StopSignal ELSE wake
    /\ UNCHANGED <<jobs, main, running, ran, stopping, created, posted, alone>>

\* join, if the thread was ever begun, and the handle is closed.
Join ==
    /\ owner = "join"
    /\ main \in {"none", "done"}
    /\ owner' = "stopped"
    /\ UNCHANGED <<jobs, wake, main, running, ran, stopping, created, posted, alone>>

Owner == Enqueue \/ RunAlone \/ PostSignals \/ BeginStop \/ StopSignals \/ Join \/ Dropped

-----------------------------------------------------------------------------
(* Main.                                                                   *)

\* A mutant: a stopping worker leaves its queue behind.
MutStopsFirst == stopping

\* The thread ends when the queue is empty and Stop was called.
Ends == jobs = <<>> /\ stopping

\* The test under the mutex: a job, the end, or sleep.
Take ==
    /\ main = "loop"
    /\ IF Ends THEN /\ main' = "done"
                    /\ UNCHANGED <<jobs, running>>
       ELSE IF jobs # <<>> THEN /\ running' = Head(jobs)
                                /\ jobs' = Tail(jobs)
                                /\ main' = "run"
       ELSE /\ main' = "sleep"
            /\ UNCHANGED <<jobs, running>>
    /\ UNCHANGED <<wake, ran, ownerVars>>

\* A mutant: the finished job is not let go.
MutKeepsRunning ==
    /\ main = "run"
    /\ main' = "loop"
    /\ ran' = Append(ran, running)
    /\ UNCHANGED <<jobs, wake, running, ownerVars>>

\* The job runs, outside the mutex.
Run ==
    /\ main = "run"
    /\ main' = "loop"
    /\ running' = 0
    /\ ran' = Append(ran, running)
    /\ UNCHANGED <<jobs, wake, ownerVars>>

\* MsgWaitForMultipleObjectsEx returns and resets the event.
Wakes ==
    /\ main = "sleep"
    /\ wake
    /\ wake' = FALSE
    /\ main' = "loop"
    /\ UNCHANGED <<jobs, running, ran, ownerVars>>

\* It also returns for a message, which the thread then dispatches.
Pumps ==
    /\ main = "sleep"
    /\ main' = "loop"
    /\ UNCHANGED <<jobs, wake, running, ran, ownerVars>>

Main == Take \/ Run \/ Wakes

Next == Owner \/ Main \/ Pumps

Spec == Init /\ [][Next]_vars

\* Both threads run; that the owner stops is DockApp's destruction.
Fairness == WF_vars(PostSignals) /\ WF_vars(StopSignals) /\ WF_vars(Join) /\ WF_vars(Main)

FairSpec == Spec /\ Fairness

-----------------------------------------------------------------------------
(* Properties.                                                             *)

\* Type invariant.
TypeOK ==
    /\ jobs \in Seq(Nat)
    /\ stopping \in BOOLEAN
    /\ created \in BOOLEAN
    /\ wake \in BOOLEAN
    /\ owner \in {"idle", "posted", "signal", "join", "stopped"}
    /\ main \in {"none", "loop", "run", "sleep", "done"}
    /\ running \in Nat
    /\ posted \in Nat
    /\ ran \in Seq(Nat)
    /\ alone \in Nat
    /\ main = "run" <=> running # 0

\* The jobs that have not finished, as JobQueue counts them.
Waiting == IF running = 0 THEN jobs ELSE <<running>> \o jobs

Phase == IF ~stopping THEN "open" ELSE IF owner = "stopped" THEN "stopped" ELSE "stopping"

Abstract == INSTANCE JobQueue WITH waiting <- Waiting, ran <- ran, phase <- Phase

\* The worker keeps JobQueue's promise: order, nothing lost or run twice, and
\* a Stop that returns after the last queued job ("Runs the jobs already
\* queued, then joins the thread").
KeepsPromise == Abstract!Spec

\* Every job posted is run, without waiting for another event or message: no
\* SetEvent falls between the test of the queue and the sleep.
EveryJobRuns == []<>(Len(ran) = posted)

\* Stop always returns.
StopReturns == stopping ~> owner = "stopped"

=============================================================================
