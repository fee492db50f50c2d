---------------------------- MODULE SearchHotkey ----------------------------
(***************************************************************************)
(* The global Ctrl+Space of the dock (SearchHotkey.cpp): a thread of its   *)
(* own registers the chord and owns it, because a chord registered without *)
(* a window posts to the queue of the thread that registered it.  The      *)
(* interface thread starts it, waits two seconds for it, tells it to       *)
(* release the chord while a fullscreen application has the focus, and     *)
(* stops it.  What it posts is lost while the thread has no queue yet.     *)
(***************************************************************************)
EXTENDS Naturals, Sequences

CONSTANT MaxFocusChanges  \* bound: changes of the focus between fullscreen and not

ASSUME HotkeyAssumption == MaxFocusChanges \in Nat

VARIABLES
    caller,      \* where the interface thread is in Start and Stop
    joins,       \* Stop was called by: "none", "start", "end"
    thread,      \* where Run is
    threadId,    \* m_threadId is set
    hasQueue,    \* the thread has a message queue
    queue,       \* the messages in it
    installed,   \* m_installed
    suspended,   \* m_suspended
    fullscreen,  \* a fullscreen application has the focus
    toggles,
    holder,      \* who has the chord: "none", "dock", "other"
    missed       \* history: the thread's last claim found the chord taken

callerVars == <<caller, joins, suspended>>
chordVars == <<holder, missed>>
threadVars == <<thread, hasQueue, installed>>
focusVars == <<fullscreen, toggles>>
hotkeyVars == <<callerVars, threadVars, focusVars, threadId, queue, chordVars>>

HotkeyInit ==
    /\ caller = "new" /\ joins = "none"
    /\ thread = "none" /\ threadId = FALSE /\ hasQueue = FALSE
    /\ queue = <<>>
    /\ installed = FALSE /\ suspended = FALSE
    /\ fullscreen = FALSE /\ toggles = 0
    /\ holder \in {"none", "other"} /\ missed = FALSE

\* PostThreadMessageW fails for a thread without a queue.
PostThread(m) == queue' = IF hasQueue THEN Append(queue, m) ELSE queue

-----------------------------------------------------------------------------
(* The interface thread.                                                   *)

Start ==
    /\ caller = "new"
    /\ caller' = "wait"
    /\ thread' = "begin"
    /\ UNCHANGED <<joins, suspended, hasQueue, installed, focusVars, threadId, queue, chordVars>>

\* WaitForSingleObject ends with the event, or after two seconds wherever the
\* thread is then; Start does not look at which it was.
StartWaited ==
    /\ caller = "wait"
    /\ IF installed
       THEN caller' = "on" /\ joins' = joins
       ELSE caller' = "quit" /\ joins' = "start"
    /\ UNCHANGED <<suspended, threadVars, focusVars, threadId, queue, chordVars>>

\* StopSearchServices.
StopHotkey ==
    /\ caller = "on"
    /\ caller' = "quit"
    /\ joins' = "end"
    /\ UNCHANGED <<suspended, threadVars, focusVars, threadId, queue, chordVars>>

\* Stop posts WM_QUIT to a thread it knows.
PostQuit == IF threadId THEN PostThread("quit") ELSE queue' = queue

Quit ==
    /\ caller = "quit"
    /\ PostQuit
    /\ caller' = "join"
    /\ UNCHANGED <<joins, suspended, threadVars, focusVars, threadId, chordVars>>

JoinThread ==
    /\ caller = "join"
    /\ thread = "done"
    /\ caller' = IF joins = "start" THEN "off" ELSE "ended"
    /\ threadId' = FALSE
    /\ installed' = FALSE
    /\ suspended' = FALSE
    /\ UNCHANGED <<joins, thread, hasQueue, focusVars, queue, chordVars>>

\* A mutant: the thread is only told of the first suspension.
MutSuspendPosts == fullscreen

\* SetSuspended posts every change.
SuspendPosts == TRUE

\* SyncSearchHotkeyForFullscreen and SetSuspended.
SetSuspended ==
    /\ caller = "on"
    /\ threadId
    /\ suspended # fullscreen
    /\ suspended' = fullscreen
    /\ IF SuspendPosts
       THEN PostThread(IF fullscreen THEN "release" ELSE "claim")
       ELSE queue' = queue
    /\ UNCHANGED <<caller, joins, threadVars, focusVars, threadId, chordVars>>

Interface == Start \/ StartWaited \/ StopHotkey \/ Quit \/ JoinThread \/ SetSuspended

-----------------------------------------------------------------------------
(* Run.                                                                    *)

\* The thread's identity is written before it has a queue.
SetId ==
    /\ thread = "begin"
    /\ thread' = "id"
    /\ threadId' = TRUE
    /\ UNCHANGED <<callerVars, hasQueue, installed, focusVars, queue, chordVars>>

\* The first PeekMessageW makes the queue.
MakeQueue ==
    /\ thread = "id"
    /\ thread' = "queue"
    /\ hasQueue' = TRUE
    /\ UNCHANGED <<callerVars, installed, focusVars, threadId, queue, chordVars>>

\* RegisterChord succeeds unless another application has the chord.
Registered == holder # "other"

RegisterChord ==
    /\ holder' = IF Registered THEN "dock" ELSE holder
    /\ missed' = ~Registered

Register ==
    /\ thread = "queue"
    /\ thread' = "registered"
    /\ RegisterChord
    /\ installed' = Registered
    /\ UNCHANGED <<callerVars, hasQueue, focusVars, threadId, queue>>

\* Without the chord the thread ends, whatever was posted to it.
Signal ==
    /\ thread = "registered"
    /\ thread' = IF installed THEN "loop" ELSE "done"
    /\ UNCHANGED <<callerVars, hasQueue, installed, focusVars, threadId, queue, chordVars>>

\* UnregisterHotKey after the loop.
AfterLoop == IF holder = "dock" THEN "none" ELSE holder

\* GetMessageW: the chord is released or claimed again, or the loop ends.
Dispatch ==
    /\ thread = "loop" /\ queue # <<>>
    /\ queue' = Tail(queue)
    /\ thread' = IF Head(queue) = "quit" THEN "done" ELSE thread
    /\ IF Head(queue) = "claim"
       THEN RegisterChord
       ELSE holder' = AfterLoop /\ missed' = missed
    /\ UNCHANGED <<callerVars, hasQueue, installed, focusVars, threadId>>

RunHotkey == SetId \/ MakeQueue \/ Register \/ Signal \/ Dispatch

-----------------------------------------------------------------------------
(* The other applications.                                                 *)

Focus ==
    /\ toggles < MaxFocusChanges
    /\ toggles' = toggles + 1
    /\ fullscreen' = ~fullscreen
    /\ UNCHANGED <<callerVars, threadVars, threadId, queue, chordVars>>

\* Another application takes a free chord, or lets it go.
Other ==
    /\ toggles < MaxFocusChanges
    /\ toggles' = toggles + 1
    /\ holder' = CASE holder = "none" -> "other"
                   [] holder = "other" -> "none"
                   [] OTHER -> holder
    /\ UNCHANGED <<callerVars, threadVars, fullscreen, threadId, queue, missed>>

HotkeyNext == Interface \/ RunHotkey \/ Focus \/ Other

HotkeySpec == HotkeyInit /\ [][HotkeyNext]_hotkeyVars

\* Both threads go on; the dock need not stop.
HotkeyFairness ==
    /\ WF_hotkeyVars(StartWaited) /\ WF_hotkeyVars(Quit) /\ WF_hotkeyVars(JoinThread)
    /\ WF_hotkeyVars(RunHotkey)

-----------------------------------------------------------------------------
(* Properties.                                                             *)

\* Type invariant.
HotkeyTypeOK ==
    /\ caller \in {"new", "wait", "on", "quit", "join", "off", "ended"}
    /\ joins \in {"none", "start", "end"}
    /\ thread \in {"none", "begin", "id", "queue", "registered", "loop", "done"}
    /\ threadId \in BOOLEAN /\ hasQueue \in BOOLEAN
    /\ installed \in BOOLEAN /\ suspended \in BOOLEAN /\ fullscreen \in BOOLEAN
    /\ queue \in Seq({"quit", "release", "claim"})
    /\ toggles \in 0 .. MaxFocusChanges
    /\ holder \in {"none", "dock", "other"} /\ missed \in BOOLEAN
    /\ thread = "done" => holder # "dock"

\* "Releases Ctrl+Space while suspended (a fullscreen app is focused) so the
\* app receives the chord itself; re-registers it when resumed": once the
\* thread has read its messages the dock has the chord only when it is not
\* suspended, and a chord it does not have then was taken by another.
ChordFollowsFocus ==
    thread = "loop" /\ queue = <<>> =>
        IF suspended THEN holder # "dock" ELSE holder = "dock" \/ missed

\* Stop returns, from Start or at the end, suspended or not, once the thread
\* has the queue that takes its WM_QUIT ("Create this thread's message queue
\* before Start() can post WM_QUIT").
HotkeyStops == (caller = "quit" /\ hasQueue) ~> caller \in {"off", "ended"}

=============================================================================
