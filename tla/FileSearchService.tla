-------------------------- MODULE FileSearchService --------------------------
(***************************************************************************)
(* The search engine of the dock: FileSearchService (FileSearch.cpp) with  *)
(* its two threads, and the part of the dock window that drives it.        *)
(*                                                                         *)
(* Three actors run concurrently:                                          *)
(*  - the UI thread: opens and closes the panel, types, handles the posted *)
(*    messages, restarts the index, stops the service;                     *)
(*  - the index thread: builds an index, publishes it, follows the journal;*)
(*  - the search thread: waits for the one pending request, answers it     *)
(*    twice (names, then names with metadata).                             *)
(* A step is one locked section, one access to an atomic, one SetEvent,    *)
(* one PostMessage or one wait: between two of them anybody may run.       *)
(*                                                                         *)
(* The content of the index is left out (FileIndex, VolumeSync); an index  *)
(* is the number of its build, its generation counter, and whether the     *)
(* build saw the elevated MFT task.                                        *)
(***************************************************************************)
EXTENDS Naturals, Sequences

CONSTANTS
    Texts,        \* the query texts the user can type
    NoText,       \* the empty search box
    Extends,      \* pairs <<t, s>>: the text t starts with the text s
    BuildGen,     \* generation of an index fresh from a build
    Completes,    \* whether the matches of a search may be kept to narrow
    Bounds        \* what may happen in one behaviour, records of
                  \*   ids      the user acts while nextId is below it
                  \*   builds   builds that may fail, journals that may wrap
                  \*   updates  journal polls that change the index
                  \*   apps     app catalogues loaded
                  \*   grants   grants of full-disk access

ASSUME ServiceAssumption ==
    /\ NoText \notin Texts
    /\ Extends \subseteq Texts \X Texts
    /\ Completes \subseteq BOOLEAN
    /\ BuildGen \in Nat
    /\ Bounds \subseteq [ids: Nat, builds: Nat, updates: Nat, apps: Nat,
                         grants: {0, 1}]

VARIABLES
    \* the UI thread (DockSearch.cpp, DockApp.cpp)
    uiPc,         \* where the UI thread is inside a handler
    open,         \* the panel is visible
    text,         \* m_searchText
    nextId,       \* m_searchRequestId
    shown,        \* the reply whose rows are displayed
    appsInFlight, \* m_searchAppsInFlight
    queue,        \* the message queue of the dock window
    \* state shared by the threads (FileSearch.h)
    stop, rebuild, active,   \* the atomics m_stop, m_rebuild, m_active
    wake,         \* m_wake, an auto-reset event, is signalled
    reqLock,      \* who holds m_requestLock across steps
    hasRequest, request,     \* the one-slot mailbox
    index,        \* m_index
    apps,         \* version of m_apps
    indexing,     \* m_status.indexing
    granted,      \* the elevated MFT task is registered
    \* the index thread
    ixPc, ixTask, ixLong, builds, updates,
    \* the search thread
    srPc, srReq, srReply, cache,
    bound         \* one of Bounds, never changed

uiVars == <<uiPc, open, text, nextId, shown, appsInFlight>>
sharedVars == <<stop, rebuild, active, wake>>
reqVars == <<reqLock, hasRequest, request>>
dataVars == <<index, apps, indexing, granted>>
ixVars == <<ixPc, ixTask, ixLong, builds, updates>>
srVars == <<srPc, srReq, srReply, cache>>
sysVars == <<uiVars, queue, sharedVars, reqVars, dataVars, ixVars, srVars>>
vars == <<sysVars, bound>>

NoIndex == [build |-> 0, gen |-> 0, task |-> FALSE]
NoRequest == [id |-> 0, text |-> NoText]
NoReply == [id |-> 0, meta |-> FALSE, build |-> 0, from |-> 0, apps |-> 0,
            indexing |-> FALSE]
NoCache == [valid |-> FALSE, text |-> NoText, build |-> 0, gen |-> 0]

StatusMsg == [kind |-> "status", reply |-> NoReply]
AppsMsg == [kind |-> "apps", reply |-> NoReply]
AccessMsg == [kind |-> "access", reply |-> NoReply]
ReplyMsg(r) == [kind |-> "reply", reply |-> r]

Replies == [id: Nat, meta: BOOLEAN, build: Nat, from: Nat, apps: Nat,
            indexing: BOOLEAN]
Requests == [id: Nat, text: Texts \cup {NoText}]
Messages == [kind: {"status", "apps", "access", "reply"}, reply: Replies]

UiPcs == {"init", "idle", "signalActive", "requery", "notify",
          "signalRestart", "stopStore", "stopSignal", "stopLock",
          "stopNotify", "joinIndex", "joinSearch", "joined"}
IxPcs == {"off", "loop", "notifyBegin", "clear", "build", "publish",
          "notifyEnd", "retry", "check", "poll", "wait", "done"}
SrPcs == {"off", "acquire", "check", "sleep", "asleep", "search", "status",
          "superseded", "post", "details", "postDetails", "done"}

Indexes == [build: Nat, gen: Nat, task: BOOLEAN]
Caches == [valid: BOOLEAN, text: Texts \cup {NoText}, build: Nat, gen: Nat]

UiTypeOK ==
    /\ uiPc \in UiPcs /\ open \in BOOLEAN /\ text \in Texts \cup {NoText}
    /\ nextId \in Nat /\ shown \in Replies /\ appsInFlight \in BOOLEAN
    /\ queue \in Seq(Messages)

SharedTypeOK ==
    /\ stop \in BOOLEAN /\ rebuild \in BOOLEAN /\ active \in BOOLEAN
    /\ wake \in BOOLEAN
    /\ reqLock \in {"free", "search"} /\ hasRequest \in BOOLEAN
    /\ request \in Requests
    /\ index \in Indexes /\ apps \in Nat
    /\ indexing \in BOOLEAN /\ granted \in BOOLEAN

ThreadTypeOK ==
    /\ ixPc \in IxPcs /\ ixTask \in BOOLEAN /\ ixLong \in BOOLEAN
    /\ builds \in Nat /\ updates \in Nat
    /\ srPc \in SrPcs /\ srReq \in Requests /\ srReply \in Replies
    /\ cache \in Caches

TypeOK == UiTypeOK /\ SharedTypeOK /\ ThreadTypeOK

Init ==
    /\ uiPc = "init" /\ open = FALSE /\ text = NoText /\ nextId = 0
    /\ shown = NoReply /\ appsInFlight = FALSE /\ queue = <<>>
    /\ stop = FALSE /\ rebuild = FALSE /\ active = FALSE /\ wake = FALSE
    /\ reqLock = "free" /\ hasRequest = FALSE /\ request = NoRequest
    /\ index = NoIndex /\ apps = 0 /\ indexing = TRUE /\ granted = FALSE
    /\ ixPc = "off" /\ ixTask = FALSE /\ ixLong = FALSE
    /\ builds = 0 /\ updates = 0
    /\ srPc = "off" /\ srReq = NoRequest /\ srReply = NoReply
    /\ cache = NoCache
    /\ bound \in Bounds

\* The handlers of the dock window run until it is being destroyed; what is
\* posted to it from then on is never dispatched.
Ending == uiPc \in {"stopStore", "stopSignal", "stopLock", "stopNotify",
                    "joinIndex", "joinSearch", "joined"}

Post(m) == queue' = IF Ending THEN queue ELSE Append(queue, m)

-----------------------------------------------------------------------------
(* The UI thread. *)

\* StartSearchServices: Start() creates both threads, the app list is loaded.
Start ==
    /\ uiPc = "init"
    /\ uiPc' = "idle" /\ stop' = FALSE /\ ixPc' = "loop" /\ srPc' = "acquire"
    /\ appsInFlight' = TRUE
    /\ UNCHANGED <<open, text, nextId, shown, queue, rebuild, active, wake,
                   reqVars, dataVars, ixTask, ixLong, builds, updates,
                   srReq, srReply, cache>>

\* FileSearchService::Query: the newest request replaces the pending one.
FillSlot(id, t) ==
    /\ reqLock = "free"
    /\ hasRequest' = TRUE /\ request' = [id |-> id, text |-> t]
    /\ UNCHANGED reqLock

\* SearchTextChanged in search mode: a new id; an empty box clears the rows.
TextChanged(t) ==
    /\ text' = t /\ nextId' = nextId + 1
    /\ IF t = NoText
       THEN /\ shown' = NoReply /\ uiPc' = "idle"
            /\ UNCHANGED reqVars
       ELSE /\ FillSlot(nextId + 1, t) /\ uiPc' = "notify"
            /\ UNCHANGED shown

\* OpenSearch: rows cleared, SetActive(true), apps refreshed; the previous
\* text, if any, is searched again.
OpenPanel ==
    /\ uiPc = "idle" /\ ~open /\ nextId < bound.ids
    /\ open' = TRUE /\ shown' = NoReply /\ appsInFlight' = TRUE
    /\ active' = TRUE
    /\ uiPc' = IF active THEN "requery" ELSE "signalActive"
    /\ UNCHANGED <<text, nextId, queue, stop, rebuild, wake, reqVars,
                   dataVars, ixVars, srVars>>

\* A mutant: the opening panel does not wake the index thread.
MutNoCatchUpSignal == UNCHANGED wake

\* SetActive(true): SetEvent(m_wake) after the exchange.
CatchUpSignal == wake' = TRUE

SignalActive ==
    /\ uiPc = "signalActive" /\ uiPc' = "requery" /\ CatchUpSignal
    /\ UNCHANGED <<open, text, nextId, shown, appsInFlight, queue, stop,
                   rebuild, active, reqVars, dataVars, ixVars, srVars>>

Requery ==
    /\ uiPc = "requery"
    /\ IF text = NoText
       THEN uiPc' = "idle" /\ UNCHANGED <<text, nextId, shown, reqVars>>
       ELSE TextChanged(text)
    /\ UNCHANGED <<open, appsInFlight, queue, sharedVars, dataVars, ixVars,
                   srVars>>

\* A keystroke that edits the text.
Type(t) ==
    /\ uiPc = "idle" /\ open /\ nextId < bound.ids
    /\ TextChanged(t)
    /\ UNCHANGED <<open, appsInFlight, queue, sharedVars, dataVars, ixVars,
                   srVars>>

\* CloseSearch: SetActive(false), replies on their way become stale.
BumpOnClose == nextId' = nextId + 1

ClosePanel ==
    /\ uiPc = "idle" /\ open /\ nextId < bound.ids
    /\ open' = FALSE /\ active' = FALSE /\ shown' = NoReply
    /\ BumpOnClose
    /\ UNCHANGED <<uiPc, text, appsInFlight, queue, stop, rebuild, wake,
                   reqVars, dataVars, ixVars, srVars>>

\* A mutant: the query is not notified.
MutNotNotified(pc) == pc

\* notify_one after the request lock is released.
Awake(pc) == IF pc = "asleep" THEN "acquire" ELSE pc

NotifyOne ==
    /\ uiPc = "notify" /\ uiPc' = "idle" /\ srPc' = Awake(srPc)
    /\ UNCHANGED <<open, text, nextId, shown, appsInFlight, queue, sharedVars,
                   reqVars, dataVars, ixVars, srReq, srReply, cache>>

\* The handlers of the messages the threads post.
Receive(kind) ==
    /\ uiPc = "idle" /\ queue # <<>> /\ Head(queue).kind = kind
    /\ queue' = Tail(queue)

\* kSearchStatusMessage: search again when the panel is open.
OnStatus ==
    /\ Receive("status")
    /\ IF open
       THEN TextChanged(text)
       ELSE UNCHANGED <<uiPc, text, nextId, shown, reqVars>>
    /\ UNCHANGED <<open, appsInFlight, sharedVars, dataVars, ixVars, srVars>>

\* ApplySearchApps: the new catalogue is installed (SetApps, under the index
\* lock) and an open panel with text is searched again.
OnApps ==
    /\ Receive("apps")
    /\ appsInFlight' = FALSE /\ apps' = apps + 1
    /\ IF open /\ text # NoText
       THEN TextChanged(text)
       ELSE UNCHANGED <<uiPc, text, nextId, shown, reqVars>>
    /\ UNCHANGED <<open, sharedVars, index, indexing, granted, ixVars, srVars>>

\* A mutant: any reply to an open panel is shown.
MutAcceptsAny(r) == open

\* ApplySearchReply: only the newest request's reply, only while open. A
\* metadata reply refreshes the subtitles of the rows already shown.
Accepts(r) == open /\ r.id = nextId

OnReply ==
    /\ Receive("reply")
    /\ LET r == Head(queue).reply
       IN shown' = IF Accepts(r) /\ ~r.meta THEN r ELSE shown
    /\ UNCHANGED <<uiPc, open, text, nextId, appsInFlight, sharedVars,
                   reqVars, dataVars, ixVars, srVars>>

\* kSearchMftAccessMessage, then Restart(): m_rebuild, then the event.
OnAccess ==
    /\ Receive("access")
    /\ rebuild' = TRUE /\ uiPc' = "signalRestart"
    /\ UNCHANGED <<open, text, nextId, shown, appsInFlight, stop, active,
                   wake, reqVars, dataVars, ixVars, srVars>>

SignalRestart ==
    /\ uiPc = "signalRestart" /\ uiPc' = "idle" /\ wake' = TRUE
    /\ UNCHANGED <<open, text, nextId, shown, appsInFlight, queue, stop,
                   rebuild, active, reqVars, dataVars, ixVars, srVars>>

\* Stop(), called when the dock window is destroyed: the panel is gone.
StopCalled ==
    /\ uiPc = "idle"
    /\ uiPc' = "stopStore" /\ open' = FALSE /\ shown' = NoReply
    /\ queue' = <<>>
    /\ UNCHANGED <<text, nextId, appsInFlight, sharedVars, reqVars, dataVars,
                   ixVars, srVars>>

StopStore ==
    /\ uiPc = "stopStore" /\ uiPc' = "stopSignal" /\ stop' = TRUE
    /\ UNCHANGED <<open, text, nextId, shown, appsInFlight, queue, rebuild,
                   active, wake, reqVars, dataVars, ixVars, srVars>>

StopSignal ==
    /\ uiPc = "stopSignal" /\ uiPc' = "stopLock" /\ wake' = TRUE
    /\ UNCHANGED <<open, text, nextId, shown, appsInFlight, queue, stop,
                   rebuild, active, reqVars, dataVars, ixVars, srVars>>

\* A mutant: Stop does not take the lock of the request.
MutStopWithoutLock == hasRequest' = FALSE

\* The empty-looking locked section of Stop: it cannot run while the search
\* thread stands between its test of the predicate and its sleep.
LockedByStop == reqLock = "free" /\ hasRequest' = FALSE

StopLock ==
    /\ uiPc = "stopLock" /\ uiPc' = "stopNotify"
    /\ LockedByStop
    /\ UNCHANGED <<open, text, nextId, shown, appsInFlight, queue, sharedVars,
                   reqLock, request, dataVars, ixVars, srVars>>

StopNotify ==
    /\ uiPc = "stopNotify" /\ uiPc' = "joinIndex" /\ srPc' = Awake(srPc)
    /\ UNCHANGED <<open, text, nextId, shown, appsInFlight, queue, sharedVars,
                   reqVars, dataVars, ixVars, srReq, srReply, cache>>

JoinIndex ==
    /\ uiPc = "joinIndex" /\ ixPc = "done" /\ uiPc' = "joinSearch"
    /\ UNCHANGED <<open, text, nextId, shown, appsInFlight, queue, sharedVars,
                   reqVars, dataVars, ixVars, srVars>>

JoinSearch ==
    /\ uiPc = "joinSearch" /\ srPc = "done" /\ uiPc' = "joined"
    /\ UNCHANGED <<open, text, nextId, shown, appsInFlight, queue, sharedVars,
                   reqVars, dataVars, ixVars, srVars>>

\* Detached threads of the dock: the app catalogue is loaded ...
AppsLoaded ==
    /\ appsInFlight /\ apps < bound.apps
    /\ \A i \in 1..Len(queue) : queue[i].kind # "apps"
    /\ Post(AppsMsg)
    /\ UNCHANGED <<uiVars, sharedVars, reqVars, dataVars, ixVars, srVars>>

\* ... and RequestMftAccess registers the elevated task, then posts.
AccessGranted ==
    /\ uiPc # "init" /\ ~granted /\ bound.grants = 1
    /\ granted' = TRUE /\ Post(AccessMsg)
    /\ UNCHANGED <<uiVars, sharedVars, reqVars, index, apps, indexing, ixVars,
                   srVars>>

-----------------------------------------------------------------------------
(* The index thread: IndexThread, BuildIndex, PollJournals. *)

IxStep(from, to) == ixPc = from /\ ixPc' = to

\* Top of the outer loop.
IxLoop ==
    /\ ixPc = "loop"
    /\ IF stop
       THEN ixPc' = "done" /\ UNCHANGED indexing
       ELSE ixPc' = "notifyBegin" /\ indexing' = TRUE
    /\ UNCHANGED <<uiVars, queue, sharedVars, reqVars, index, apps, granted,
                   ixTask, ixLong, builds, updates, srVars>>

IxNotifyBegin ==
    /\ IxStep("notifyBegin", "clear") /\ Post(StatusMsg)
    /\ UNCHANGED <<uiVars, sharedVars, reqVars, dataVars, ixTask, ixLong,
                   builds, updates, srVars>>

\* m_rebuild is cleared before the build: a Restart from here on is kept.
IxClear ==
    /\ IxStep("clear", "build")
    /\ rebuild' = FALSE
    /\ ixTask' = FALSE /\ builds' = builds + 1
    /\ UNCHANGED <<uiVars, queue, stop, active, wake, reqVars, dataVars,
                   ixLong, updates, srVars>>

\* BuildIndex asks once whether the elevated task exists, then builds.
IxBuild ==
    /\ IxStep("build", "publish") /\ ixTask' = granted
    /\ UNCHANGED <<uiVars, queue, sharedVars, reqVars, dataVars, ixLong,
                   builds, updates, srVars>>

\* The build has ended: its index, or no index, is published with the status.
\* A Restart made during the build is still pending.
KeepsRestart == UNCHANGED rebuild

IxPublish(built) ==
    /\ ixPc = "publish"
    /\ IF stop
       THEN /\ ixPc' = "done" /\ UNCHANGED <<index, indexing, rebuild, ixLong>>
       ELSE /\ built \/ builds <= bound.builds
            /\ index' = IF built
                        THEN [build |-> builds, gen |-> BuildGen,
                              task |-> ixTask]
                        ELSE NoIndex
            /\ indexing' = FALSE /\ ixPc' = "notifyEnd" /\ ixLong' = ~built
            /\ KeepsRestart
    /\ UNCHANGED <<uiVars, queue, stop, active, wake, reqVars, apps, granted,
                   ixTask, builds, updates, srVars>>

\* A mutant: the new index is not announced.
MutPublishSilently == UNCHANGED queue

\* NotifyStatus after the publication.
PublishedMsg == Post(StatusMsg)

IxNotifyEnd ==
    /\ ixPc = "notifyEnd"
    /\ ixPc' = IF ixLong THEN "retry" ELSE "check"
    /\ PublishedMsg
    /\ UNCHANGED <<uiVars, sharedVars, reqVars, dataVars, ixTask, ixLong,
                   builds, updates, srVars>>

\* The two waits end by the event, which they reset, or by their time limit
\* (5 minutes; 250 ms or 30 s).
EndOfWait == wake' = FALSE

IxRetry ==
    /\ IxStep("retry", "loop") /\ EndOfWait /\ ixLong' = FALSE
    /\ UNCHANGED <<uiVars, queue, stop, rebuild, active, reqVars, dataVars,
                   ixTask, builds, updates, srVars>>

\* while (!m_stop && !m_rebuild)
FollowsOn == ~stop /\ ~rebuild

IxCheck ==
    /\ ixPc = "check"
    /\ ixPc' = IF FollowsOn THEN "poll" ELSE "loop"
    /\ UNCHANGED <<uiVars, queue, sharedVars, reqVars, dataVars, ixTask,
                   ixLong, builds, updates, srVars>>

\* PollJournals: n updates are applied under the index lock, each a new
\* generation; an unhealthy journal asks for a rebuild. Otherwise the wait's
\* length is chosen from m_active.
IxPoll(n, healthy) ==
    /\ ixPc = "poll"
    /\ updates + n <= bound.updates /\ (healthy \/ builds <= bound.builds)
    /\ updates' = updates + n
    /\ index' = [index EXCEPT !.gen = @ + n]
    /\ IF healthy
       THEN ixPc' = "wait" /\ ixLong' = ~active /\ UNCHANGED rebuild
       ELSE ixPc' = "loop" /\ rebuild' = TRUE /\ UNCHANGED ixLong
    /\ UNCHANGED <<uiVars, queue, stop, active, wake, reqVars, apps, indexing,
                   granted, ixTask, builds, srVars>>

IxWait ==
    /\ IxStep("wait", "check") /\ EndOfWait /\ ixLong' = FALSE
    /\ UNCHANGED <<uiVars, queue, stop, rebuild, active, reqVars, dataVars,
                   ixTask, builds, updates, srVars>>

-----------------------------------------------------------------------------
(* The search thread: SearchThread. *)

SrStep(from, to) == srPc = from /\ srPc' = to

SrAcquire ==
    /\ SrStep("acquire", "check") /\ reqLock = "free" /\ reqLock' = "search"
    /\ UNCHANGED <<uiVars, queue, sharedVars, hasRequest, request, dataVars,
                   ixVars, srReq, srReply, cache>>

\* The predicate of the wait, and what follows it when it holds.
SrCheck ==
    /\ srPc = "check"
    /\ \/ /\ stop
          /\ srPc' = "done" /\ reqLock' = "free"
          /\ UNCHANGED <<hasRequest, request, srReq>>
       \/ /\ ~stop /\ hasRequest
          /\ srPc' = "search" /\ reqLock' = "free"
          /\ hasRequest' = FALSE /\ srReq' = request
          /\ request' = NoRequest
       \/ /\ ~stop /\ ~hasRequest
          /\ srPc' = "sleep"
          /\ UNCHANGED <<reqLock, hasRequest, request, srReq>>
    /\ UNCHANGED <<uiVars, queue, sharedVars, dataVars, ixVars, srReply,
                   cache>>

\* condition_variable::wait releases the lock and sleeps in one step.
SrSleep ==
    /\ SrStep("sleep", "asleep") /\ reqLock' = "free"
    /\ UNCHANGED <<uiVars, queue, sharedVars, hasRequest, request, dataVars,
                   ixVars, srReq, srReply, cache>>

\* Search under the shared index lock. A query that extends the cached one
\* re-checks the cached slots when the generation is still the cached one.
Narrows(t) ==
    /\ cache.valid /\ cache.gen = index.gen
    /\ <<t, cache.text>> \in Extends

SrSearch(complete) ==
    /\ SrStep("search", "status")
    /\ LET t == srReq.text
       IN /\ srReply' =
               [id |-> srReq.id, meta |-> FALSE, build |-> index.build,
                from |-> IF index # NoIndex /\ Narrows(t)
                         THEN cache.build ELSE index.build,
                apps |-> apps, indexing |-> FALSE]
          /\ cache' = IF index = NoIndex THEN cache
                      ELSE IF complete
                      THEN [valid |-> TRUE, text |-> t,
                            build |-> index.build, gen |-> index.gen]
                      ELSE NoCache
    /\ UNCHANGED <<uiVars, queue, sharedVars, reqVars, dataVars, ixVars,
                   srReq>>

SrStatus ==
    /\ SrStep("status", "superseded")
    /\ srReply' = [srReply EXCEPT !.indexing = indexing]
    /\ UNCHANGED <<uiVars, queue, sharedVars, reqVars, dataVars, ixVars,
                   srReq, cache>>

\* Back to the top of the loop: request and reply are locals of one turn.
Again == srPc' = "acquire" /\ srReq' = NoRequest /\ srReply' = NoReply

\* A newer request drops this one before its first reply ...
SrSuperseded ==
    /\ srPc = "superseded" /\ reqLock = "free"
    /\ \/ hasRequest /\ Again
       \/ ~hasRequest /\ srPc' = "post" /\ UNCHANGED <<srReq, srReply>>
    /\ UNCHANGED <<uiVars, queue, sharedVars, reqVars, dataVars, ixVars,
                   cache>>

SrPost ==
    /\ SrStep("post", "details")
    /\ Post(ReplyMsg(srReply))
    /\ UNCHANGED <<uiVars, sharedVars, reqVars, dataVars, ixVars, srReq,
                   srReply, cache>>

\* ... or between the files whose metadata is being read; a reply without
\* files is not tested again.
SrDetails ==
    /\ srPc = "details" /\ reqLock = "free"
    /\ \/ hasRequest /\ Again
       \/ srPc' = "postDetails" /\ UNCHANGED <<srReq, srReply>>
    /\ UNCHANGED <<uiVars, queue, sharedVars, reqVars, dataVars, ixVars,
                   cache>>

SrPostDetails ==
    /\ srPc = "postDetails" /\ Again
    /\ Post(ReplyMsg([srReply EXCEPT !.meta = TRUE]))
    /\ UNCHANGED <<uiVars, sharedVars, reqVars, dataVars, ixVars, cache>>

-----------------------------------------------------------------------------

User ==
    \/ Start \/ OpenPanel \/ ClosePanel \/ StopCalled
    \/ \E t \in Texts \cup {NoText} : Type(t)

Outside == AppsLoaded \/ AccessGranted

Ui ==
    \/ SignalActive \/ Requery \/ NotifyOne \/ SignalRestart
    \/ OnStatus \/ OnApps \/ OnReply \/ OnAccess
    \/ StopStore \/ StopSignal \/ StopLock \/ StopNotify
    \/ JoinIndex \/ JoinSearch

IndexThread ==
    \/ IxLoop \/ IxNotifyBegin \/ IxClear \/ IxBuild \/ IxNotifyEnd
    \/ \E built \in BOOLEAN : IxPublish(built)
    \/ IxRetry \/ IxCheck \/ IxWait
    \/ \E n \in {0, 1}, healthy \in BOOLEAN : IxPoll(n, healthy)

SearchThread ==
    \/ SrAcquire \/ SrCheck \/ SrSleep
    \/ \E complete \in Completes : SrSearch(complete)
    \/ SrStatus \/ SrSuperseded \/ SrPost \/ SrDetails \/ SrPostDetails

\* The dock has been destroyed: nothing more happens.
Ended == uiPc = "joined" /\ UNCHANGED sysVars

Next ==
    /\ User \/ Outside \/ Ui \/ IndexThread \/ SearchThread \/ Ended
    /\ UNCHANGED bound

\* The scheduler runs every thread, the message loop dispatches what is
\* queued, a build ends and a wait has a time limit. Nothing is assumed of
\* the user or of the detached threads.
Fairness ==
    WF_sysVars(Ui) /\ WF_sysVars(IndexThread) /\ WF_sysVars(SearchThread)

Spec == Init /\ [][Next]_vars
FairSpec == Spec /\ Fairness

-----------------------------------------------------------------------------
(* Properties. *)

\* Everybody has come to rest: no message, no pending request, the search
\* thread asleep, the index thread following the journal.
AtRest ==
    /\ uiPc = "idle" /\ queue = <<>>
    /\ srPc = "asleep" /\ ~hasRequest
    /\ ixPc \in {"retry", "check", "poll", "wait"} /\ ~rebuild

\* When everybody has come to rest, an open panel with text shows the answer
\* to its newest request, computed from the index and the app catalogue that
\* are published now, and never a stale "Indexing files..." row. Every
\* publication must reach the panel after the data it announces, and no
\* answer from before it may be the last one displayed.
RestingPanelIsFresh ==
    (AtRest /\ open /\ text # NoText) =>
        /\ shown.id = nextId
        /\ shown.build = index.build
        /\ shown.apps = apps
        /\ ~shown.indexing

\* The UI thread is about to accept the reply at the head of its queue.
NextReply == Head(queue).reply
AcceptsNext ==
    /\ uiPc = "idle" /\ queue # <<>> /\ Head(queue).kind = "reply"
    /\ Accepts(NextReply)

\* Rows for apps are positions in the list the panel holds: an accepted reply
\* was searched in the catalogue that is installed now. A reply computed
\* before SetApps and delivered after it must be dropped by its id.
AppRowsMatchCatalogue ==
    (AcceptsNext /\ ~NextReply.meta) => NextReply.apps = apps

\* "Same rows, now with size / modified time": when the second reply of a
\* request is accepted, the rows displayed are those of its first reply.
DetailsMatchRows ==
    (AcceptsNext /\ NextReply.meta)
        => shown = [NextReply EXCEPT !.meta = FALSE]

\* Stop() joins the index thread without waiting out a 30 s or 5 minute
\* wait: once it has signalled the event, a thread that waits is woken.
StopIsPrompt ==
    (ixPc \in {"retry", "wait"} /\ uiPc \in {"stopLock", "stopNotify",
        "joinIndex"}) => wake

\* Restart() and SetActive(true) act at once: the index thread never sleeps
\* on while a rebuild is asked for, nor in the 30 s wait while the panel is
\* open, except in the instant before SetEvent.
RestartIsPrompt ==
    (ixPc = "wait" /\ rebuild /\ uiPc # "signalRestart") => wake
CatchUpIsPrompt ==
    (ixPc = "wait" /\ ixLong /\ active /\ uiPc # "signalActive") => wake

\* No signal to the index thread is slept through.
SignalsAreHeard == StopIsPrompt /\ RestartIsPrompt /\ CatchUpIsPrompt

\* "a later query that extends this one narrows them ... (its matches are a
\* subset)": a narrowed search re-checks slots of the index it searches. The
\* cache outlives a rebuild and the generation counter restarts with it.
NarrowsTheSameIndex == srReply.from = srReply.build

\* Stop() returns, whatever the three threads were doing.
StopReturns == (uiPc = "stopStore") ~> (uiPc = "joined")

\* The newest query of an open panel is answered, whatever was pending.
NewestIsAnswered ==
    \A n \in UNION {1..(b.ids + 2 * b.builds + b.apps + 4) : b \in Bounds} :
        (open /\ text # NoText /\ nextId = n)
            ~> (shown.id = n \/ nextId # n \/ ~open)

\* Granted access reaches the published index unless the dock ends.
GrantTakesEffect == granted ~> (index.task \/ uiPc = "joined")
=============================================================================
