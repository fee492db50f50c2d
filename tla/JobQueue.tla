------------------------------ MODULE JobQueue ------------------------------
(***************************************************************************)
(* What StaWorker promises its owner (the comments of src/StaWorker.h):    *)
(* posted jobs run one after the other in the order they were posted, jobs *)
(* posted after Stop are dropped, and Stop returns only when every job     *)
(* already queued has run.  Jobs are numbered in the order they are        *)
(* accepted.                                                               *)
(***************************************************************************)
EXTENDS Naturals, Sequences

VARIABLES waiting,  \* the accepted jobs that have not finished, oldest first
          ran,      \* the jobs that have finished, in that order
          phase     \* "open", "stopping" once Stop was called, "stopped"

queueVars == <<waiting, ran, phase>>

Init ==
    /\ waiting = <<>>
    /\ ran = <<>>
    /\ phase = "open"

\* A job is accepted, with the next number.
Accept ==
    /\ phase = "open"
    /\ waiting' = Append(waiting, Len(ran) + Len(waiting) + 1)
    /\ UNCHANGED <<ran, phase>>

Finish ==
    /\ waiting # <<>>
    /\ waiting' = Tail(waiting)
    /\ ran' = Append(ran, Head(waiting))
    /\ phase' = phase

Close ==
    /\ phase = "open"
    /\ phase' = "stopping"
    /\ UNCHANGED <<waiting, ran>>

Closed ==
    /\ phase = "stopping"
    /\ waiting = <<>>
    /\ phase' = "stopped"
    /\ UNCHANGED <<waiting, ran>>

Next == Accept \/ Finish \/ Close \/ Closed

Spec == Init /\ [][Next]_queueVars

=============================================================================
