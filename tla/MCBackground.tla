---------------------------- MODULE MCBackground ----------------------------
(***************************************************************************)
(* What runs beside the dock's message loop and shares no state with the   *)
(* others: the catalog worker, the search hotkey's thread, the update, the *)
(* index thread with its elevated helper and the media worker of Quick     *)
(* Settings.  A behaviour picks one of Parts and steps only that one, so   *)
(* the state spaces add up.                                                *)
(***************************************************************************)
EXTENDS StaWorker, SearchHotkey, DockUpdate, MftAccess, MediaSession

CONSTANTS Parts, p1, p2

VARIABLE part

backgroundVars == <<part, vars, hotkeyVars, updateVars, accessVars, mediaVars>>

\* A user whose helper can open every volume and one whose can open none, and an
\* elevated dock that can open one volume or both.
T(elevated, dock, reads) == [elevated |-> elevated, dock |-> dock, helper |-> reads]
MCLetters == <<"c", "d">>
MCTokens == { T(FALSE, {}, {"c", "d"}), T(FALSE, {}, {}),
              T(TRUE, {"c"}, {"c", "d"}), T(TRUE, {"c", "d"}, {"c", "d"}) }

\* Two players, one of which cannot toggle.
MCPlayers == <<p1, p2>>
Music(x, y, m, f) == [players |-> (p1 :> x) @@ (p2 :> y), moves |-> m, faults |-> f]
Quiet == Music("playing", "paused", 0, 0)
MCMusic ==
    { Quiet,
      Music("playing", "playing", 0, 0),
      Music("paused", "closed", 0, 1),
      Music("closed", "closed", 1, 0) }

BackgroundInit ==
    /\ part \in Parts
    /\ Init
    /\ HotkeyInit /\ (part # "hotkey" => holder = "none")
    /\ UpdateInit
    /\ part # "update" => disk = [c \in Copies |-> 1] /\ asset = [v \in Versions |-> v]
    /\ AccessStart(part = "access")
    /\ part # "access" => token = CHOOSE t \in Tokens : TRUE
    /\ part # "access" => ~task
    /\ MediaInit /\ (part # "media" => story = Quiet)

BackgroundNext ==
    \/ part = "worker" /\ Next
       /\ UNCHANGED <<part, hotkeyVars, updateVars, accessVars, mediaVars>>
    \/ part = "hotkey" /\ HotkeyNext
       /\ UNCHANGED <<part, vars, updateVars, accessVars, mediaVars>>
    \/ part = "update" /\ UpdateNext
       /\ UNCHANGED <<part, vars, hotkeyVars, accessVars, mediaVars>>
    \/ part = "access" /\ AccessNext
       /\ UNCHANGED <<part, vars, hotkeyVars, updateVars, mediaVars>>
    \/ part = "media" /\ MediaNext
       /\ UNCHANGED <<part, vars, hotkeyVars, updateVars, accessVars>>

BackgroundSpec ==
    /\ BackgroundInit /\ [][BackgroundNext]_backgroundVars
    /\ Fairness /\ HotkeyFairness /\ UpdateFairness /\ AccessFairness /\ MediaFairness

\* The types of the parts.
BackgroundTypeOK == TypeOK /\ HotkeyTypeOK /\ UpdateTypeOK /\ AccessTypeOK /\ MediaTypeOK

\* No thread sleeps through what was handed to it: every job posted runs, and
\* the stop of the worker and of the hotkey return although they race their
\* start, a wait that gave up and the jobs still queued; a build of the index and
\* the helper it starts come to their ends, and access that is granted is used; and
\* the media worker tells an open panel what the players do.
ThreadsDeliver ==
    /\ EveryJobRuns /\ StopReturns /\ HotkeyStops
    /\ BuildsEnd /\ DumpsEnd /\ AccessIsUsed
    /\ MediaCatchesUp

\* An update ends well: the latch that keeps a second check out opens again
\* however the check ends, after a helper the dock runs again, and a release that
\* can be installed is.
UpdatesEndWell == CheckEnds /\ DockReturns /\ UpdateArrives

=============================================================================
