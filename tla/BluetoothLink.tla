---------------------------- MODULE BluetoothLink ----------------------------
(***************************************************************************)
(* The Bluetooth worker (Bluetooth.cpp) and the panel that shows what it   *)
(* publishes: one device, its link and pairing, the radio and the search.  *)
(* The panel's clicks are jobs; the newest click for the device supersedes *)
(* the queued ones and cancels the one in flight.  The audio stack and the *)
(* service helper threads bring the link up after the worker has turned to *)
(* something else, so a disconnect is followed by a guard.                 *)
(*                                                                         *)
(* Wording (the hint), names, signal strength, dry runs, the Hands-Free    *)
(* policy and a machine without WinRT or without a radio are left out.     *)
(***************************************************************************)
EXTENDS Integers, SequencesExt

CONSTANTS
    BtScenes,     \* what may happen in a behaviour: see SceneType
    SlowDriver,   \* the driver may outlast the waits for it
    MaxMoves,     \* bound: link and radio changed from outside, watcher events
    MaxRetries,   \* kMaxRefreshRetries
    MaxFaults     \* bound: queries and calls that fail

Kinds == {"audio", "other", "le"}
Deeds == {"link", "hook", "radio", "search", "pair", "stop", "fault", "move"}

\* What the user and the world do and how often the user does it, the device,
\* whether Windows has paired it, and whether the panel is on its Bluetooth
\* page.
SceneType == [does : SUBSET Deeds, clicks : Nat, kind : Kinds, bonded : BOOLEAN, page : BOOLEAN]

ASSUME ScenesAreScenes == BtScenes \subseteq SceneType
ASSUME BoundsAreNumbers == {MaxMoves, MaxRetries, MaxFaults} \subseteq Nat

JobKinds == {"refresh", "radio", "connect", "disconnect", "post", "start", "stop", "pair"}

\* A job; on is enableRadio of "radio" and forcePaired of "refresh".
JobOf(kind, on) == [kind |-> kind, on |-> on]
BtJobs == {JobOf(k, b) : k \in JobKinds, b \in BOOLEAN}
BtNoJob == JobOf("none", FALSE)

\* What PublishSnapshot copies.  row: the list that holds the device.
Shown == [ready : BOOLEAN, radio : BOOLEAN, searching : BOOLEAN, row : {"none", "found", "paired"},
          connected : BOOLEAN, busy : BOOLEAN, error : BOOLEAN]

VARIABLES
    setting,     \* the scene of this behaviour
    bonded,      \* Windows has paired the device
    link,        \* it is connected
    radio,       \* the radio is on
    paging,      \* a connection was asked of the driver and is still attempted
    enabled,     \* the audio service of the device is enabled
    pending,     \* Impl::queue
    cancel,      \* Impl::cancelJob
    job,         \* the job in flight
    place,       \* where the worker is in it
    outcome,     \* LinkWait of the connect or disconnect
    got,         \* the paired-list queries that answered
    svc,         \* the worker's own state, as PublishSnapshot copies it
    cached,      \* the paired list is younger than its cache time
    suspect,     \* refreshSuspect
    retries,     \* refreshRetries
    due,         \* retryDueMs is set
    tasks,       \* service helper threads, each chained after the one before
    leftDisabled,\* toggleTask ended between its disable and its enable
    watching,    \* a device watcher is started
    inbox,       \* watchInbox
    pairing,     \* Impl::pairing
    running,     \* Impl::running
    snap,        \* Impl::snapshot
    queued,      \* notifyQueued
    kBluetoothMessage, \* one is in the window's queue
    applying,    \* ApplyBluetoothSnapshot has let the next notification pass
    flyout,          \* m_bluetoothSnapshot
    intent,      \* history: what the newest click asked of the link, "none" when the
                 \* device was not there to ask, has moved since, or something else
                 \* was said of it
    refused,     \* history: Windows refused a switch the panel had flipped
    clicks, moves, faults

worldOf == <<bonded, link, radio, paging, enabled>>
jobOf == <<job, place, outcome, got>>
listOf == <<cached, suspect, retries, due>>
taskOf == <<tasks, leftDisabled>>
watchOf == <<watching, inbox>>
postOf == <<snap, queued, kBluetoothMessage>>
panelOf == <<applying, flyout>>
countOf == <<clicks, moves, faults>>
btVars == <<setting, worldOf, pending, cancel, jobOf, svc, listOf, taskOf, watchOf, pairing, running,
            postOf, panelOf, intent, refused, countOf>>

NoDevice == [ready |-> FALSE, radio |-> FALSE, searching |-> FALSE, row |-> "none",
          connected |-> FALSE, busy |-> FALSE, error |-> FALSE]

\* BluetoothService::Start has just queued the first refresh.
BtInit ==
    /\ setting \in BtScenes
    /\ bonded = setting.bonded /\ link \in {FALSE, setting.bonded} /\ radio = TRUE
    /\ paging = FALSE /\ enabled = TRUE
    /\ pending = <<JobOf("refresh", FALSE)>> /\ cancel = FALSE
    /\ job = BtNoJob /\ place = "idle" /\ outcome = "none" /\ got = {}
    /\ svc = NoDevice /\ cached = FALSE /\ suspect = FALSE /\ retries = 0 /\ due = FALSE
    /\ tasks = <<>> /\ leftDisabled = FALSE
    /\ watching = FALSE /\ inbox = <<>> /\ pairing = FALSE /\ running = TRUE
    /\ snap = NoDevice /\ queued = FALSE /\ kBluetoothMessage = FALSE /\ applying = FALSE /\ flyout = NoDevice
    /\ intent = "none" /\ refused = FALSE
    /\ clicks = 0 /\ moves = 0 /\ faults = 0

Does(deed) == deed \in setting.does

\* AnyRadioConnected and the notifications of WaitLink know classic devices.
Seen == link /\ setting.kind # "le"

JobCancelled == cancel \/ ~running

-----------------------------------------------------------------------------
(* Impl::Enqueue.                                                          *)

UserJobs == {"connect", "disconnect", "pair", "radio", "start", "stop"}
LinkJobs == {"connect", "disconnect"}
SearchJobs == {"start", "stop"}

\* Before the first job that no click asked for.
Ahead(q, j) ==
    LET others == {i \in 1 .. Len(q) : q[i].kind \notin UserJobs}
    IN InsertAt(q, IF others = {} THEN Len(q) + 1 ELSE Min(others), j)

Dropping(q, kinds) ==
    LET kept[n \in 0 .. Len(q)] ==
            IF n = 0 THEN <<>>
            ELSE IF q[n].kind \in kinds THEN kept[n - 1] ELSE Append(kept[n - 1], q[n])
    IN kept[Len(q)]

\* The newest intent for the device and for the search drops the older ones;
\* refreshes are merged.
Enqueue(q, j) ==
    CASE j.kind \in LinkJobs -> Ahead(Dropping(q, LinkJobs \cup {"post"}), j)
      [] j.kind \in SearchJobs -> Ahead(Dropping(q, SearchJobs), j)
      [] j.kind = "pair" -> Ahead(q, j)
      [] j.kind = "refresh" /\ \E i \in 1 .. Len(q) : q[i].kind = "refresh" ->
            [i \in 1 .. Len(q) |-> IF q[i].kind = "refresh" THEN JobOf("refresh", q[i].on \/ j.on) ELSE q[i]]
      [] OTHER -> Append(q, j)

\* The job in flight gives way: a guard to any link job, a refresh to any job
\* that jumps the queue, and a link job to its opposite.
Supersedes(j) ==
    \/ j.kind \in LinkJobs /\ place = "guard"
    \/ j.kind \in UserJobs \ {"radio"} /\ job.kind = "refresh"
    \/ <<job.kind, j.kind>> \in {<<"connect", "disconnect">>, <<"disconnect", "connect">>, <<"post", "disconnect">>}

\* The claim on the link is given up, unless a newer click's job still waits.
Unclaimed == IF \E i \in 1 .. Len(pending) : pending[i].kind \in LinkJobs THEN intent ELSE "none"

Submit(j) ==
    /\ pending' = Enqueue(pending, j)
    /\ cancel' = (cancel \/ Supersedes(j))

-----------------------------------------------------------------------------
(* PublishSnapshot and the panel.                                                  *)

\* The state of a device shows on its row.
View(s) == [s EXCEPT !.connected = @ /\ s.row = "paired", !.busy = @ /\ s.row # "none", !.error = @ /\ s.row # "none"]

\* PublishSnapshot posts a message if what it copies has changed and none is on its
\* way.
PublishSnapshot ==
    /\ snap' = View(svc')
    /\ IF snap' = snap \/ queued
       THEN UNCHANGED <<queued, kBluetoothMessage>>
       ELSE queued' = TRUE /\ kBluetoothMessage' = TRUE

PanelUnchanged == UNCHANGED <<setting, worldOf, jobOf, svc, listOf, taskOf, watchOf, running, snap, refused>>

\* A mutant: the next change may not post again.
MutApply ==
    /\ running /\ kBluetoothMessage /\ ~applying
    /\ kBluetoothMessage' = FALSE /\ applying' = TRUE
    /\ PanelUnchanged /\ UNCHANGED <<pending, cancel, pairing, queued, flyout, intent, countOf>>

\* ApplyBluetoothSnapshot: the next change may post again from here on ...
Apply ==
    /\ running /\ kBluetoothMessage /\ ~applying
    /\ kBluetoothMessage' = FALSE /\ queued' = FALSE /\ applying' = TRUE
    /\ PanelUnchanged /\ UNCHANGED <<pending, cancel, pairing, flyout, intent, countOf>>

\* ... and what is published is read.
ReadSnapshot ==
    /\ running /\ applying
    /\ flyout' = snap /\ applying' = FALSE
    /\ PanelUnchanged /\ UNCHANGED <<pending, cancel, pairing, queued, kBluetoothMessage, intent, countOf>>

Click(deed) ==
    /\ Does(deed) /\ running /\ ~applying /\ clicks < setting.clicks
    /\ clicks' = clicks + 1
    /\ PanelUnchanged /\ UNCHANGED <<queued, kBluetoothMessage, applying, moves, faults>>

\* TrayFlyoutHitKind::BluetoothConnect, on a paired row.
ClickDevice ==
    /\ Click("link")
    /\ flyout.row = "paired" /\ ~flyout.busy
    /\ IF flyout.connected
       THEN Submit(JobOf("disconnect", FALSE)) /\ intent' = "down"
       ELSE Submit(JobOf("connect", FALSE)) /\ intent' = "up"
    /\ UNCHANGED <<pairing, flyout>>

\* The harness of the test hooks asks without looking at the panel.
BtTestLive ==
    /\ Click("hook")
    /\ snap.row = "paired"
    /\ \/ Submit(JobOf("disconnect", FALSE)) /\ intent' = "down"
       \/ Submit(JobOf("connect", FALSE)) /\ intent' = "up"
    /\ UNCHANGED <<pairing, flyout>>

\* TrayFlyoutHitKind::BluetoothRadio: the panel flips first.
ClickRadio ==
    /\ Click("radio")
    /\ flyout.ready
    /\ Submit(JobOf("radio", ~flyout.radio))
    /\ flyout' = IF flyout.radio
             THEN [flyout EXCEPT !.radio = FALSE, !.searching = FALSE, !.row = IF @ = "found" THEN "none" ELSE @]
             ELSE [flyout EXCEPT !.radio = TRUE]
    /\ UNCHANGED <<pairing, intent>>

\* TrayFlyoutHitKind::BluetoothDiscover.
ClickSearch ==
    /\ Click("search")
    /\ \/ /\ flyout.searching
          /\ Submit(JobOf("stop", FALSE))
          /\ flyout' = [flyout EXCEPT !.searching = FALSE, !.row = IF @ = "found" THEN "none" ELSE @]
       \/ /\ ~flyout.searching /\ flyout.radio
          /\ Submit(JobOf("start", FALSE))
          /\ flyout' = [flyout EXCEPT !.searching = TRUE]
    /\ UNCHANGED <<pairing, intent>>

\* TrayFlyoutHitKind::BluetoothPair and BluetoothService::Pair.
ClickPair ==
    /\ Click("pair")
    /\ flyout.row = "found" /\ ~flyout.busy /\ ~pairing
    /\ Submit(JobOf("pair", FALSE))
    /\ pairing' = TRUE /\ intent' = "none"
    /\ UNCHANGED flyout

\* kBluetoothTimerId on the Bluetooth page.
Poll ==
    /\ running /\ setting.page /\ ~applying /\ ~flyout.searching /\ ~pairing
    /\ Submit(JobOf("refresh", FALSE))
    /\ pending' # pending
    /\ PanelUnchanged /\ UNCHANGED <<queued, kBluetoothMessage, applying, flyout, pairing, intent, countOf>>

\* BluetoothService::Stop: the worker is left behind if it takes too long.
StopBluetooth ==
    /\ Does("stop") /\ running
    /\ running' = FALSE /\ pairing' = FALSE /\ cancel' = TRUE
    /\ UNCHANGED <<setting, worldOf, pending, jobOf, svc, listOf, taskOf, watchOf, postOf, panelOf, intent,
                   refused, countOf>>

-----------------------------------------------------------------------------
(* The service helper threads (RunServiceTask) and the audio stack.        *)

\* steps: the services to switch; calling: the driver is in the first one;
\* half: a disable has been done and its enable has not.
TaskOf(name, steps) == [name |-> name, steps |-> steps, calling |-> FALSE, half |-> FALSE, cancel |-> FALSE]

Toggle == TaskOf("toggle", <<"disable", "enable">>)
Reenable == TaskOf("toggle", <<"enable">>)
RestoreVoice == TaskOf("restore", <<"voice">>)

StartTask(t) ==
    /\ tasks' = Append(tasks, t)
    /\ leftDisabled' = (leftDisabled /\ t.name # "toggle")

\* lastTask is told to stop before its next step.
CancelLastTask ==
    /\ tasks' = IF tasks = <<>> THEN <<>> ELSE [tasks EXCEPT ![Len(tasks)].cancel = TRUE]
    /\ UNCHANGED leftDisabled

Switches(service) ==
    /\ enabled' = IF service = "voice" THEN enabled ELSE service = "enable"
    /\ paging' = (paging \/ (service # "disable" /\ radio /\ ~link))
    /\ UNCHANGED <<setting, bonded, link, radio>>

HelperUnchangedToo ==
    UNCHANGED <<pending, cancel, jobOf, svc, listOf, watchOf, pairing, running, postOf, panelOf, intent, refused, countOf>>

\* The thread enters SetServiceState; what it enables may page the device.
TaskCalls ==
    /\ tasks # <<>> /\ ~Head(tasks).calling /\ ~Head(tasks).cancel
    /\ Switches(Head(Head(tasks).steps))
    /\ tasks' = [tasks EXCEPT ![1].calling = TRUE]
    /\ UNCHANGED leftDisabled /\ HelperUnchangedToo

\* SetServiceState returns; the task ends with its last step.
TaskReturns ==
    /\ tasks # <<>> /\ Head(tasks).calling
    /\ LET t == Head(tasks)
       IN tasks' = IF Len(t.steps) = 1 THEN Tail(tasks)
                   ELSE [tasks EXCEPT ![1] = [t EXCEPT !.steps = Tail(@), !.calling = FALSE, !.half = TRUE]]
    /\ UNCHANGED <<leftDisabled, setting, worldOf>> /\ HelperUnchangedToo

\* It was cancelled before a step.
TaskStops ==
    /\ tasks # <<>> /\ ~Head(tasks).calling /\ Head(tasks).cancel
    /\ tasks' = Tail(tasks)
    /\ leftDisabled' = (leftDisabled \/ Head(tasks).half)
    /\ UNCHANGED <<setting, worldOf>> /\ HelperUnchangedToo

WorldUnchangedToo ==
    UNCHANGED <<setting, bonded, enabled, pending, cancel, jobOf, svc, listOf, taskOf, pairing, running,
                postOf, panelOf, refused, clicks, faults>>

\* The device answers the page, or does not.
PageEnds ==
    /\ paging
    /\ paging' = FALSE /\ link' \in {TRUE, link}
    /\ UNCHANGED <<radio, watchOf, intent, moves>> /\ WorldUnchangedToo

Moves == moves < MaxMoves /\ moves' = moves + 1

\* While these run, a link that comes back is the disconnect's to drop.
Guarded == job.kind = "disconnect" /\ place \in {"waitKs", "ioctl", "waitDown", "result", "reap", "guard"}

\* The device leaves, or connects by itself.
LinkMoves ==
    /\ Does("move") /\ Moves
    /\ bonded /\ radio
    /\ link' = ~link /\ paging' = FALSE
    /\ intent' = IF Guarded /\ ~link THEN intent ELSE Unclaimed
    /\ UNCHANGED <<radio, watchOf>> /\ WorldUnchangedToo

\* A watcher callback queues an event for the worker, or drops it if the
\* watcher it belongs to has been stopped.
WatchCallback ==
    /\ watching /\ radio /\ Moves
    /\ \E gone \in {FALSE, ~bonded} :
          inbox' = Append(inbox, [gone |-> gone, bonded |-> bonded, up |-> link])
    /\ UNCHANGED <<link, radio, paging, watching, intent>> /\ WorldUnchangedToo

-----------------------------------------------------------------------------
(* The worker's loop (ThreadMain) and the search.                          *)

WorkerUnchanged == UNCHANGED <<setting, panelOf, clicks, moves>>
JobUnchanged == UNCHANGED <<bonded, taskOf, watchOf, running>>
NothingPublished == UNCHANGED postOf
WorldStands == UNCHANGED <<link, radio, paging, enabled, intent, refused>>

EndJob == job' = BtNoJob /\ place' = "idle" /\ outcome' = "none" /\ got' = {}
At(p) == place = p
Goto(p) == place' = p /\ UNCHANGED <<job, outcome, got>>

Fault == Does("fault") /\ faults < MaxFaults /\ faults' = faults + 1

\* NoteDevice: a paired device only ever gains its connection here.
Noted(s, e) ==
    CASE e.gone -> [s EXCEPT !.row = IF @ = "found" THEN "none" ELSE @]
      [] e.bonded -> [s EXCEPT !.row = "paired", !.connected = (@ /\ s.row = "paired") \/ e.up, !.error = @ /\ ~e.up]
      [] ~e.gone /\ ~e.bonded -> [s EXCEPT !.row = IF @ = "none" /\ s.searching THEN "found" ELSE @]

\* What takes an error off the row without another click for the link.
Forgiven == intent' = IF svc.error /\ ~svc'.error THEN Unclaimed ELSE intent

Drain ==
    /\ At("idle") /\ running /\ inbox # <<>>
    /\ svc' = FoldLeft(Noted, svc, inbox)
    /\ inbox' = <<>>
    /\ Forgiven
    /\ PublishSnapshot
    /\ UNCHANGED <<worldOf, refused, taskOf, watching, running, pending, cancel, jobOf, listOf, pairing, faults>>
    /\ WorkerUnchanged

\* The next job; the cancel event is reset with it.
Pop ==
    /\ At("idle") /\ running /\ inbox = <<>> /\ pending # <<>>
    /\ job' = Head(pending) /\ pending' = Tail(pending) /\ cancel' = FALSE
    /\ place' = Head(pending).kind
    /\ UNCHANGED <<outcome, got, svc, listOf, pairing, faults>>
    /\ NothingPublished /\ JobUnchanged /\ WorldStands /\ WorkerUnchanged

\* The wait for the next job runs into the retry.
Retry ==
    /\ At("idle") /\ running /\ inbox = <<>> /\ pending = <<>> /\ due
    /\ due' = FALSE
    /\ Submit(JobOf("refresh", TRUE))
    /\ UNCHANGED <<jobOf, svc, cached, suspect, retries, pairing, faults>>
    /\ NothingPublished /\ JobUnchanged /\ WorldStands /\ WorkerUnchanged

\* The worker leaves its loop, and with it StopWatcher.
WorkerEnds ==
    /\ At("idle") /\ ~running
    /\ Goto("ended")
    /\ watching' = FALSE /\ inbox' = <<>> /\ svc' = [svc EXCEPT !.searching = FALSE]
    /\ UNCHANGED <<bonded, taskOf, running, pending, cancel, listOf, pairing, faults>>
    /\ NothingPublished /\ WorldStands /\ WorkerUnchanged

Unsearched(s) == [s EXCEPT !.searching = FALSE, !.row = IF @ = "found" THEN "none" ELSE @]

StartSearch ==
    /\ At("start")
    /\ LET s == [svc EXCEPT !.radio = @ \/ radio]
       IN IF ~s.radio
          THEN svc' = s /\ refused' = TRUE /\ UNCHANGED <<watchOf, faults>>
          ELSE \/ /\ svc' = [Unsearched(s) EXCEPT !.searching = TRUE, !.error = FALSE]
                  /\ watching' = TRUE /\ inbox' = <<>>
                  /\ UNCHANGED <<refused, faults>>
               \/ /\ Fault
                  /\ svc' = [Unsearched(s) EXCEPT !.error = FALSE]
                  /\ watching' = FALSE /\ inbox' = <<>>
                  /\ refused' = TRUE
    /\ Forgiven
    /\ PublishSnapshot /\ EndJob
    /\ UNCHANGED <<worldOf, taskOf, running, pending, cancel, listOf, pairing>>
    /\ WorkerUnchanged

StopSearch ==
    /\ At("stop")
    /\ svc' = Unsearched(svc)
    /\ watching' = FALSE /\ inbox' = <<>>
    /\ PublishSnapshot /\ EndJob
    /\ Submit(JobOf("refresh", TRUE))
    /\ UNCHANGED <<bonded, taskOf, running, listOf, pairing, faults>>
    /\ WorldStands /\ WorkerUnchanged

-----------------------------------------------------------------------------
(* Refreshing and the radio.                                               *)

\* RefreshRadio, and whether the paired list is asked for.
RefreshRadio ==
    /\ At("refresh")
    /\ \/ svc' = [svc EXCEPT !.radio = radio] /\ UNCHANGED <<suspect, faults>>
       \/ Fault /\ suspect' = TRUE /\ UNCHANGED svc
    /\ Goto(IF ~svc.searching /\ ~pairing /\ (job.on \/ ~cached \/ svc.row # "paired")
            THEN "query" ELSE "refreshed")
    /\ UNCHANGED <<pending, cancel, cached, retries, due, pairing>>
    /\ NothingPublished /\ JobUnchanged /\ WorldStands /\ WorkerUnchanged

\* RefreshPaired waits for one query, then for the other.
Query(p, q, then) ==
    /\ At(p)
    /\ \/ ~JobCancelled /\ got' = got \cup {q} /\ UNCHANGED faults
       \/ JobCancelled /\ UNCHANGED <<got, faults>>
       \/ ~JobCancelled /\ Fault /\ UNCHANGED got
    /\ place' = then /\ UNCHANGED <<job, outcome>>
    /\ UNCHANGED <<pending, cancel, svc, listOf, pairing>>
    /\ NothingPublished /\ JobUnchanged /\ WorldStands /\ WorkerUnchanged

QueryClassic == Query("query", "classic", "queryLe")
QueryLe == Query("queryLe", "le", "list")

Classic == setting.kind # "le"

\* The rest of RefreshPaired: a classic device that Windows remembers is kept
\* when the enumeration dropped it, and its link is read from the radio.
Listed(present) ==
    LET kept == ~present /\ Classic /\ svc.radio /\ svc.row = "paired" /\ bonded
        there == present \/ kept
    IN /\ svc' = [svc EXCEPT !.row = IF there THEN "paired" ELSE IF @ = "paired" THEN "none" ELSE @,
                             !.connected = there /\ link]
       /\ suspect' = (suspect \/ kept)
       /\ cached' = TRUE

TakeList ==
    /\ At("list")
    /\ LET answered == bonded /\ (IF Classic THEN "classic" ELSE "le") \in got
       IN \/ got = {} /\ suspect' = TRUE /\ UNCHANGED <<svc, cached, faults>>
          \/ got # {} /\ Listed(answered) /\ UNCHANGED faults
          \/ got # {} /\ answered /\ Fault /\ Listed(FALSE)
    /\ place' = [refresh |-> "refreshed", radio |-> "switched", pair |-> "listed"][job.kind]
    /\ got' = {} /\ UNCHANGED <<job, outcome>>
    /\ UNCHANGED <<pending, cancel, retries, due, pairing>>
    /\ NothingPublished /\ JobUnchanged /\ WorldStands /\ WorkerUnchanged

\* A refresh that kept older state is tried again, a few times.
EndRefresh ==
    /\ At("refreshed")
    /\ retries' = IF ~suspect THEN 0 ELSE IF retries < MaxRetries THEN retries + 1 ELSE retries
    /\ due' = (suspect /\ retries < MaxRetries)
    /\ suspect' = FALSE
    /\ svc' = [svc EXCEPT !.ready = TRUE]
    /\ PublishSnapshot /\ EndJob
    /\ UNCHANGED <<pending, cancel, cached, pairing, faults>>
    /\ JobUnchanged /\ WorldStands /\ WorkerUnchanged

\* SetRadioState: Windows may refuse.
SwitchRadio ==
    /\ At("radio")
    /\ \/ /\ radio' = job.on
          /\ link' = (link /\ job.on) /\ paging' = (paging /\ job.on)
          /\ intent' = IF job.on THEN intent ELSE Unclaimed
          /\ UNCHANGED <<refused, faults>>
       \/ /\ Fault /\ job.on # radio /\ refused' = TRUE
          /\ UNCHANGED <<link, radio, paging, intent>>
    /\ LET s == IF job.on THEN svc ELSE Unsearched(svc)
       IN /\ svc' = [s EXCEPT !.radio = radio']
          /\ Goto(IF radio' /\ ~s.searching THEN "query" ELSE "switched")
    /\ watching' = (watching /\ job.on)
    /\ inbox' = IF job.on THEN inbox ELSE <<>>
    /\ UNCHANGED <<bonded, taskOf, running, enabled, pending, cancel, listOf, pairing>>
    /\ NothingPublished /\ WorkerUnchanged

EndSwitch ==
    /\ At("switched")
    /\ svc' = [svc EXCEPT !.ready = TRUE]
    /\ PublishSnapshot /\ EndJob
    /\ UNCHANGED <<pending, cancel, listOf, pairing, faults>>
    /\ JobUnchanged /\ WorldStands /\ WorkerUnchanged

\* The paired list grows old.
ListAges ==
    /\ cached /\ setting.page /\ At("idle") /\ cached' = FALSE
    /\ UNCHANGED <<setting, worldOf, pending, cancel, jobOf, svc, suspect, retries, due, taskOf, watchOf, pairing,
                   running, postOf, panelOf, intent, refused, countOf>>

-----------------------------------------------------------------------------
(* Connecting and disconnecting.                                           *)

Audio == setting.kind = "audio"

\* WaitLink: the link is looked at before the cancel event, and that before
\* the deadline, which outlasts what the driver does unless it is slow.
WaitLink(up, quiet) ==
    IF Seen = up THEN {"reached"}
    ELSE IF JobCancelled THEN {"cancelled"}
    ELSE IF SlowDriver \/ quiet THEN {"timeout"} ELSE {}

Await(p, up, quiet, next) ==
    /\ At(p)
    /\ \E o \in WaitLink(up, quiet) : outcome' = o /\ place' = next[o]
    /\ UNCHANGED <<job, got, pending, cancel, svc, listOf, pairing, faults>>
    /\ NothingPublished /\ WorldStands /\ WorkerUnchanged

Results == [o \in {"reached", "cancelled", "timeout"} |-> "result"]

StepUnchanged == UNCHANGED <<pending, cancel, svc, listOf, pairing>> /\ NothingPublished /\ WorkerUnchanged

\* A device the worker has no row of is an error; the row is busy first.
BeginLink ==
    /\ At("connect") \/ At("disconnect")
    /\ IF svc.row = "none"
       THEN svc' = [svc EXCEPT !.error = TRUE] /\ EndJob /\ intent' = Unclaimed
       ELSE /\ svc' = [svc EXCEPT !.error = FALSE, !.busy = TRUE]
            /\ Goto(IF job.kind = "connect" THEN "classify" ELSE IF Audio THEN "ks" ELSE "ioctl")
            /\ UNCHANGED intent
    /\ PublishSnapshot
    /\ UNCHANGED <<pending, cancel, listOf, pairing, faults>>
    /\ UNCHANGED <<worldOf, taskOf, watchOf, running, refused>> /\ WorkerUnchanged

\* ConnectClassic: already up, audio, or a device whose profiles are nudged.
Classify ==
    /\ At("classify")
    /\ outcome' = IF Seen THEN "reached" ELSE "timeout"
    /\ place' = IF ~running \/ Seen THEN "result" ELSE IF Audio THEN "join" ELSE "nudge"
    /\ UNCHANGED <<job, got, faults>>
    /\ StepUnchanged /\ JobUnchanged /\ WorldStands

Nudge(p, then) ==
    /\ At(p) /\ Goto(then)
    /\ paging' = (paging \/ (radio /\ ~link))
    /\ UNCHANGED <<link, radio, enabled, intent, refused, faults>>
    /\ StepUnchanged /\ JobUnchanged

NudgeOnce == Nudge("nudge", "waitNudge")
NudgeAgain == Nudge("nudgeAgain", "waitAgain")
WaitNudge == Await("waitNudge", TRUE, ~paging, [Results EXCEPT !["timeout"] = "nudgeAgain"]) /\ JobUnchanged
WaitAgain ==
    /\ Await("waitAgain", TRUE, ~paging, [Results EXCEPT !["timeout"] = IF Classic THEN "result" ELSE "connectLe"])
    /\ JobUnchanged

\* ConnectLe.
ConnectLe ==
    /\ At("connectLe")
    /\ \E o \in {"reached", "timeout"} :
          /\ o = "reached" => ~JobCancelled /\ radio
          /\ link' = (link \/ o = "reached") /\ paging' = (paging /\ ~link')
          /\ outcome' = o /\ place' = "result"
    /\ UNCHANGED <<job, got, radio, enabled, intent, refused, faults>>
    /\ StepUnchanged /\ JobUnchanged

\* WaitTaskIdle, then the choice between enabling what a cancelled toggle left
\* disabled and paging.
Join ==
    /\ At("join")
    /\ \/ /\ tasks = <<>> \/ (SlowDriver /\ ~JobCancelled)
          /\ IF leftDisabled /\ \A i \in 1 .. Len(tasks) : tasks[i].name # "toggle"
             THEN StartTask(Reenable) /\ Goto("waitReenable")
             ELSE Goto("page") /\ UNCHANGED taskOf
       \/ /\ tasks # <<>> /\ JobCancelled
          /\ outcome' = "cancelled" /\ place' = "result"
          /\ UNCHANGED <<job, got, taskOf>>
    /\ UNCHANGED <<bonded, watchOf, running, faults>>
    /\ StepUnchanged /\ WorldStands

\* WaitLinkDuringTask; a cancelled wait stops the task before its next step.
WaitDuringTask(p, next) ==
    /\ Await(p, TRUE, ~paging /\ tasks = <<>>, next)
    /\ IF outcome' = "cancelled" THEN CancelLastTask ELSE UNCHANGED taskOf
    /\ UNCHANGED <<bonded, watchOf, running>>

WaitReenable == WaitDuringTask("waitReenable", [Results EXCEPT !["timeout"] = "page"])
WaitToggle == WaitDuringTask("waitToggle", Results)

\* PageAudio: if no driver takes the request, the audio service is toggled.
Page ==
    /\ At("page")
    /\ \/ /\ paging' = (paging \/ (radio /\ ~link)) /\ Goto("waitPage") /\ UNCHANGED taskOf
       \/ /\ JobCancelled /\ outcome' = "cancelled" /\ place' = "result"
          /\ UNCHANGED <<job, got, paging, taskOf>>
       \/ /\ ~JobCancelled /\ StartTask(Toggle) /\ Goto("waitToggle") /\ UNCHANGED paging
    /\ UNCHANGED <<bonded, watchOf, running, link, radio, enabled, intent, refused, faults>>
    /\ StepUnchanged

WaitPage == Await("waitPage", TRUE, ~paging, Results) /\ JobUnchanged

\* DisconnectDevice: a graceful disconnect by the audio stack ...
KsDisconnect ==
    /\ At("ks")
    /\ CancelLastTask
    /\ \/ Goto("waitKs") /\ link' \in {FALSE, link}
       \/ Goto("ioctl") /\ UNCHANGED link
    /\ UNCHANGED <<bonded, watchOf, running, radio, paging, enabled, intent, refused, faults>>
    /\ StepUnchanged

WaitKs == Await("waitKs", FALSE, TRUE, [Results EXCEPT !["timeout"] = "ioctl"]) /\ JobUnchanged

\* ... and DisconnectClassic, which a re-drop does not check.
Drop(p, then) ==
    /\ At(p) /\ Goto(then)
    /\ CancelLastTask
    /\ \/ link' = (link /\ ~Classic) /\ UNCHANGED <<refused, faults>>
       \/ Fault /\ Seen /\ refused' = (refused \/ p # "ioctl") /\ UNCHANGED link
    /\ UNCHANGED <<bonded, watchOf, running, radio, paging, enabled, intent>>
    /\ StepUnchanged

To(p) == [o \in {"reached", "cancelled", "timeout"} |-> p]

DropLink == Drop("ioctl", "waitDown")
ReapDrop == Drop("reapDrop", "waitReapDown")
Redrop == Drop("redrop", "waitRedrop")
WaitDown == Await("waitDown", FALSE, TRUE, Results) /\ JobUnchanged
WaitReapDown == Await("waitReapDown", FALSE, TRUE, To("guard")) /\ JobUnchanged
WaitRedrop == Await("waitRedrop", FALSE, TRUE, To("after")) /\ JobUnchanged

\* The result is published; a superseded job leaves no error.
EndLink ==
    /\ At("result") /\ job.kind \in LinkJobs
    /\ LET connect == job.kind = "connect"
           ok == outcome = "reached"
           s == [svc EXCEPT !.busy = FALSE]
       IN /\ svc' = IF ok THEN [s EXCEPT !.connected = connect, !.error = FALSE]
                    ELSE IF outcome = "cancelled" THEN [s EXCEPT !.connected = Seen]
                    ELSE [s EXCEPT !.error = TRUE]
          /\ IF ok /\ ~connect /\ running
             THEN Goto("reap") /\ UNCHANGED pending
             ELSE /\ EndJob
                  /\ pending' = IF ~ok \/ ~running THEN pending
                                ELSE LET q == Enqueue(pending, JobOf("refresh", TRUE))
                                     IN IF Audio THEN Enqueue(q, JobOf("post", FALSE)) ELSE q
    /\ PublishSnapshot
    /\ UNCHANGED <<cancel, listOf, pairing, faults>>
    /\ JobUnchanged /\ WorldStands /\ WorkerUnchanged

\* ReapTaskAfterDisconnect.
Reap ==
    /\ At("reap")
    /\ \/ tasks = <<>> /\ Goto("guard")
       \/ tasks # <<>> /\ Goto("reapWait")
    /\ UNCHANGED faults /\ StepUnchanged /\ JobUnchanged /\ WorldStands

ReapWait ==
    /\ At("reapWait")
    /\ \/ /\ JobCancelled \/ (SlowDriver /\ tasks # <<>>) \/ (tasks = <<>> /\ ~Seen)
          /\ Goto("guard")
       \/ tasks = <<>> /\ ~JobCancelled /\ Seen /\ Goto("reapDrop")
    /\ UNCHANGED faults /\ StepUnchanged /\ JobUnchanged /\ WorldStands

\* A mutant: the guard does not wait for what is still paged.
MutGuard ==
    /\ At("guard")
    /\ \/ JobCancelled /\ Goto("after")
       \/ ~JobCancelled /\ Seen /\ Goto("redrop")
       \/ ~JobCancelled /\ ~Seen /\ Goto("after")
    /\ UNCHANGED faults /\ StepUnchanged /\ JobUnchanged /\ WorldStands

\* GuardAfterDisconnect; a newer connect counts userConnectSeq as it cancels.
Guard ==
    /\ At("guard")
    /\ \/ JobCancelled /\ Goto("after")
       \/ ~JobCancelled /\ Seen /\ Goto("redrop")
       \/ ~JobCancelled /\ ~Seen /\ (SlowDriver \/ ~paging) /\ Goto("after")
    /\ UNCHANGED faults /\ StepUnchanged /\ JobUnchanged /\ WorldStands

AfterGuard ==
    /\ At("after")
    /\ svc' = [svc EXCEPT !.connected = @ \/ Seen]
    /\ IF Seen THEN PublishSnapshot ELSE NothingPublished
    /\ EndJob
    /\ pending' = IF running THEN Enqueue(pending, JobOf("refresh", TRUE)) ELSE pending
    /\ UNCHANGED <<cancel, listOf, pairing, faults>>
    /\ JobUnchanged /\ WorldStands /\ WorkerUnchanged

\* PostConnect: voice services that are missing are enabled off the worker.
PostConnect ==
    /\ At("post")
    /\ \/ UNCHANGED taskOf
       \/ svc.row # "none" /\ ~JobCancelled /\ Seen /\ StartTask(RestoreVoice)
    /\ EndJob
    /\ UNCHANGED <<bonded, watchOf, running, faults>>
    /\ StepUnchanged /\ WorldStands

-----------------------------------------------------------------------------
(* Pairing, which connects on the same worker.                             *)

BeginPair ==
    /\ At("pair")
    /\ pairing' = TRUE
    /\ svc' = [svc EXCEPT !.busy = TRUE]
    /\ PublishSnapshot /\ Goto("prompt")
    /\ UNCHANGED <<pending, cancel, listOf, faults>>
    /\ JobUnchanged /\ WorldStands /\ WorkerUnchanged

\* Windows answers, by itself or because Stop cancels the operation.
Prompt ==
    /\ At("prompt")
    /\ \/ /\ running
          /\ bonded' = TRUE /\ link' \in {FALSE, radio}
          /\ svc' = [svc EXCEPT !.error = FALSE, !.row = "none", !.connected = FALSE]
          /\ Goto("query")
       \/ /\ outcome' = "failed" /\ place' = "result"
          /\ UNCHANGED <<bonded, link, svc, job, got>>
    /\ UNCHANGED <<pending, cancel, listOf, pairing, taskOf, watchOf, running, radio, paging, enabled, intent,
                   refused, faults>>
    /\ NothingPublished /\ WorkerUnchanged

\* Many devices connect by themselves after pairing; if not, connect once.
ConnectPaired ==
    /\ At("listed") /\ UNCHANGED svc
    /\ IF svc.row = "paired" /\ ~svc.connected /\ running
       THEN PublishSnapshot /\ Goto("classify")
       ELSE NothingPublished /\ Goto("result")
    /\ UNCHANGED <<pending, cancel, listOf, pairing, faults>>
    /\ JobUnchanged /\ WorldStands /\ WorkerUnchanged

EndPair ==
    /\ At("result") /\ job.kind = "pair"
    /\ svc' = [svc EXCEPT !.busy = FALSE, !.connected = @ \/ outcome = "reached",
                          !.error = @ \/ outcome \in {"timeout", "cancelled"} \/ (outcome = "failed" /\ running)]
    /\ pairing' = FALSE
    /\ pending' = IF outcome = "reached" /\ Audio /\ running THEN Enqueue(pending, JobOf("post", FALSE)) ELSE pending
    /\ PublishSnapshot /\ EndJob
    /\ UNCHANGED <<cancel, listOf, faults>>
    /\ JobUnchanged /\ WorldStands /\ WorkerUnchanged

-----------------------------------------------------------------------------
BtWorker ==
    \/ Drain \/ Pop \/ Retry \/ WorkerEnds
    \/ StartSearch \/ StopSearch \/ RefreshRadio \/ QueryClassic \/ QueryLe \/ TakeList \/ EndRefresh
    \/ SwitchRadio \/ EndSwitch
    \/ BeginLink \/ Classify \/ NudgeOnce \/ WaitNudge \/ NudgeAgain \/ WaitAgain \/ ConnectLe
    \/ Join \/ WaitReenable \/ Page \/ WaitPage \/ WaitToggle
    \/ KsDisconnect \/ WaitKs \/ DropLink \/ WaitDown \/ EndLink
    \/ Reap \/ ReapWait \/ ReapDrop \/ WaitReapDown \/ Guard \/ Redrop \/ WaitRedrop \/ AfterGuard
    \/ PostConnect \/ BeginPair \/ Prompt \/ ConnectPaired \/ EndPair

BtPanel == Apply \/ ReadSnapshot
BtUser == ClickDevice \/ BtTestLive \/ ClickRadio \/ ClickSearch \/ ClickPair \/ StopBluetooth
BtDriver == TaskCalls \/ TaskReturns \/ TaskStops \/ PageEnds

BtNext == BtWorker \/ BtPanel \/ BtUser \/ Poll \/ BtDriver \/ ListAges \/ LinkMoves \/ WatchCallback

\* Every wait of the worker has a deadline, the threads and the message loop
\* run, and the timer of the open page fires.
BtFairness ==
    /\ WF_btVars(BtWorker) /\ WF_btVars(BtPanel) /\ WF_btVars(BtDriver)
    /\ WF_btVars(Poll) /\ SF_btVars(ListAges)

BtSpec == BtInit /\ [][BtNext]_btVars /\ BtFairness

BtTypeOK ==
    /\ setting \in SceneType
    /\ {bonded, link, radio, paging, enabled, cancel, cached, suspect, due, leftDisabled, watching, pairing,
        running, queued, kBluetoothMessage, applying, refused} \subseteq BOOLEAN
    /\ \A i \in 1 .. Len(pending) : pending[i] \in BtJobs
    /\ job \in BtJobs \cup {BtNoJob}
    /\ outcome \in {"none", "reached", "cancelled", "timeout", "failed"}
    /\ got \subseteq {"classic", "le"}
    /\ {svc, snap, flyout} \subseteq Shown
    /\ retries \in 0 .. MaxRetries
    /\ \A i \in 1 .. Len(tasks) : tasks[i].name \in {"toggle", "restore"}
    /\ intent \in {"none", "up", "down"}

\* Nothing is left to do.
BtAtRest ==
    /\ running /\ At("idle") /\ pending = <<>> /\ inbox = <<>>
    /\ tasks = <<>> /\ ~paging

\* "Newest intent per device wins": at rest a classic device is as the newest
\* click asked, or its row says that this failed, although clicks superseded
\* jobs in flight, whose requests the driver still completed, and the device
\* came back by itself.
NewestIntentWins ==
    BtAtRest /\ Classic /\ intent # "none" /\ ~refused =>
        (Seen = (intent = "up")) # svc.error

\* The same, with the types of the worker, its queue and the panel.
LinkIsConsistent == BtTypeOK /\ NewestIntentWins

\* The row the panel shows comes to agree with the device and the radio, and
\* the pairing latch opens.  A search shows connections it was told of and no
\* more; while no page is open, what moved and what failed is only looked at
\* again by the next job.
PanelAgrees ==
    /\ ~flyout.busy /\ ~pairing
    /\ flyout.radio = radio
    /\ bonded => flyout.row = "paired" /\ flyout.connected = link
Unseen == ~setting.page /\ (moves > 0 \/ faults > 0 \/ flyout.error)
PanelSettles == <>[](~running \/ refused \/ svc.searching \/ flyout.searching \/ Unseen \/ PanelAgrees)

\* What follows does not hold and no run checks it; the README says why.

\* A device that a click connected has its audio service.
AudioIsRestored == BtAtRest /\ Seen /\ intent = "up" => enabled

\* A paired device stays in the list while Windows keeps it paired.
PairedIsListed == [][svc.row = "paired" /\ bonded' => svc'.row = "paired"]_btVars

=============================================================================
