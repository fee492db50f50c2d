---------------------------- MODULE MCSearchPanel ----------------------------
(***************************************************************************)
(* SearchPanel with a history of one bit: the panel was closed and opened  *)
(* again while it had an answer, and still has it.                         *)
(***************************************************************************)
EXTENDS SearchPanel

VARIABLE reopened

MCInit == Init /\ reopened = FALSE

MCNext ==
    /\ Next
    /\ reopened' = (mode' = "Ai" /\ (reopened \/ (~open /\ open')))

MCSpec == MCInit /\ [][MCNext]_<<vars, reopened>>

\* "An answer (or one still streaming) survives closing the panel": once the
\* panel is open again, only the user takes the answer away.
AnswerSurvives == [][reopened /\ mode' # "Ai" => User]_<<vars, reopened>>

=============================================================================
