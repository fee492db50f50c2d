----------------------- MODULE FileSearchServiceProofs -----------------------
(***************************************************************************)
(* Proofs about FileSearchService for every value of its constants.        *)
(***************************************************************************)
EXTENDS FileSearchService, TLAPS

\* Abbreviations for the tuples of variables, expanded everywhere below.
USE DEF vars, sysVars, uiVars, sharedVars, reqVars, dataVars, ixVars, srVars

-----------------------------------------------------------------------------
(* Type correctness. The records are opaque but for these facts. *)

\* The values the actions write are of their types.
LEMMA ValuesTyped ==
    /\ NoReply \in Replies /\ NoRequest \in Requests
    /\ NoIndex \in Indexes /\ NoCache \in Caches
    /\ StatusMsg \in Messages /\ AppsMsg \in Messages
    /\ AccessMsg \in Messages
BY DEF NoReply, Replies, NoRequest, Requests, NoIndex, Indexes, NoCache,
       Caches, StatusMsg, AppsMsg, AccessMsg, Messages

\* A request is an id with a text.
LEMMA RequestTyped ==
    /\ \A id \in Nat, t \in Texts : [id |-> id, text |-> t] \in Requests
    /\ \A r \in Requests : r.id \in Nat /\ r.text \in Texts \cup {NoText}
BY DEF Requests

\* What is done to a reply keeps it a reply.
LEMMA ReplyTyped ==
    \A r \in Replies :
        /\ \A b \in BOOLEAN : [r EXCEPT !.indexing = b] \in Replies
        /\ [r EXCEPT !.meta = TRUE] \in Replies
        /\ ReplyMsg(r) \in Messages
BY DEF Replies, ReplyMsg, Messages

\* A message carries a reply; the queue stays one when its head is taken.
LEMMA MessageTyped ==
    /\ \A m \in Messages : m.reply \in Replies
    /\ <<>> \in Seq(Messages)
    /\ \A q \in Seq(Messages) :
          q # <<>> => Head(q) \in Messages /\ Tail(q) \in Seq(Messages)
<1>1. \A m \in Messages : m.reply \in Replies
  BY DEF Messages
<1>2. <<>> \in Seq(Messages)
  OBVIOUS
<1>3. \A q \in Seq(Messages) :
        q # <<>> => Head(q) \in Messages /\ Tail(q) \in Seq(Messages)
  OBVIOUS
<1> QED  BY <1>1, <1>2, <1>3

\* Posting a message keeps the queue a queue of messages.
LEMMA PostTyped ==
    ASSUME queue \in Seq(Messages), NEW m \in Messages, Post(m)
    PROVE  queue' \in Seq(Messages)
<1>1. Append(queue, m) \in Seq(Messages)
  OBVIOUS
<1> QED  BY <1>1 DEF Post

\* The initial values have their types.
LEMMA InitTyped == Init => TypeOK
<1> SUFFICES ASSUME Init
             PROVE  TypeOK
  OBVIOUS
<1>1. UiTypeOK
  BY ValuesTyped, MessageTyped DEF Init, UiTypeOK, UiPcs
<1>2. SharedTypeOK
  BY ValuesTyped DEF Init, SharedTypeOK
<1>3. ThreadTypeOK
  BY ValuesTyped DEF Init, ThreadTypeOK, IxPcs, SrPcs
<1> QED  BY <1>1, <1>2, <1>3 DEF TypeOK

\* SearchTextChanged keeps the types of what it writes.
LEMMA TextChangedTyped ==
    ASSUME TypeOK, NEW t \in Texts \cup {NoText}, TextChanged(t)
    PROVE  /\ text' \in Texts \cup {NoText} /\ nextId' \in Nat
           /\ shown' \in Replies /\ uiPc' \in UiPcs
           /\ reqLock' = reqLock /\ hasRequest' \in BOOLEAN
           /\ request' \in Requests
<1> USE DEF TypeOK, UiTypeOK, SharedTypeOK, UiPcs
<1>1. CASE t = NoText
  BY <1>1, ValuesTyped DEF TextChanged
<1>2. CASE t # NoText
  <2>1. request' \in Requests
    BY <1>2, RequestTyped DEF TextChanged, FillSlot
  <2> QED  BY <1>2, <2>1 DEF TextChanged, FillSlot
<1> QED  BY <1>1, <1>2

\* The steps of the UI thread and of the detached threads keep the types.
LEMMA UiTyped ==
    ASSUME TypeOK, User \/ Outside \/ Ui
    PROVE  TypeOK'
<1> USE DEF TypeOK, UiTypeOK, SharedTypeOK, ThreadTypeOK
<1>1. CASE Start
  BY ZenonT(60), <1>1 DEF Start, UiPcs, IxPcs, SrPcs
<1>2. CASE OpenPanel
  BY <1>2, ValuesTyped DEF OpenPanel, UiPcs
<1>3. CASE ClosePanel
  <2>1. nextId' \in Nat
    BY <1>3 DEF ClosePanel, BumpOnClose
  <2> QED  BY ZenonT(60), <1>3, <2>1, ValuesTyped DEF ClosePanel
<1>4. CASE StopCalled
  <2>1. queue' \in Seq(Messages)
    BY <1>4, MessageTyped DEF StopCalled
  <2> QED  BY ZenonT(60), <1>4, <2>1, ValuesTyped DEF StopCalled, UiPcs
<1>5. ASSUME NEW t \in Texts \cup {NoText}, Type(t)
      PROVE  TypeOK'
  BY <1>5, TextChangedTyped DEF Type
<1>6. CASE AppsLoaded
  <2>1. queue' \in Seq(Messages)
    BY <1>6, ValuesTyped, PostTyped DEF AppsLoaded
  <2> QED  BY <1>6, <2>1 DEF AppsLoaded
<1>7. CASE AccessGranted
  <2>1. queue' \in Seq(Messages)
    BY <1>7, ValuesTyped, PostTyped DEF AccessGranted
  <2> QED  BY <1>7, <2>1 DEF AccessGranted
<1>8. CASE SignalActive
  BY <1>8 DEF SignalActive, CatchUpSignal, UiPcs
<1>9. CASE Requery
  <2>1. CASE text = NoText
    BY <1>9, <2>1 DEF Requery, UiPcs
  <2>2. CASE text # NoText
    BY <1>9, <2>2, TextChangedTyped DEF Requery
  <2> QED  BY <2>1, <2>2
<1>10. CASE NotifyOne
  BY <1>10 DEF NotifyOne, Awake, UiPcs, SrPcs
<1>11. CASE SignalRestart
  BY <1>11 DEF SignalRestart, UiPcs
<1>12. CASE OnStatus
  <2>1. queue' \in Seq(Messages)
    BY <1>12, MessageTyped DEF OnStatus, Receive
  <2>2. CASE open
    BY <1>12, <2>1, <2>2, TextChangedTyped DEF OnStatus
  <2>3. CASE ~open
    BY <1>12, <2>1, <2>3 DEF OnStatus
  <2> QED  BY <2>2, <2>3
<1>13. CASE OnApps
  <2>1. queue' \in Seq(Messages)
    BY <1>13, MessageTyped DEF OnApps, Receive
  <2>2. apps' \in Nat
    BY <1>13 DEF OnApps
  <2>3. CASE open /\ text # NoText
    BY <1>13, <2>1, <2>2, <2>3, TextChangedTyped DEF OnApps
  <2>4. CASE ~(open /\ text # NoText)
    BY ZenonT(60), <1>13, <2>1, <2>2, <2>4 DEF OnApps
  <2> QED  BY <2>3, <2>4
<1>14. CASE OnReply
  <2>1. queue' \in Seq(Messages) /\ Head(queue).reply \in Replies
    BY <1>14, MessageTyped DEF OnReply, Receive
  <2> QED  BY <1>14, <2>1 DEF OnReply
<1>15. CASE OnAccess
  <2>1. queue' \in Seq(Messages)
    BY <1>15, MessageTyped DEF OnAccess, Receive
  <2> QED  BY <1>15, <2>1 DEF OnAccess, UiPcs
<1>16. CASE StopStore
  BY <1>16 DEF StopStore, UiPcs
<1>17. CASE StopSignal
  BY <1>17 DEF StopSignal, UiPcs
<1>18. CASE StopLock
  BY ZenonT(60), <1>18 DEF StopLock, LockedByStop, UiPcs
<1>19. CASE StopNotify
  BY <1>19 DEF StopNotify, Awake, UiPcs, SrPcs
<1>20. CASE JoinIndex
  BY <1>20 DEF JoinIndex, UiPcs
<1>21. CASE JoinSearch
  BY <1>21 DEF JoinSearch, UiPcs
<1> QED  BY <1>1, <1>2, <1>3, <1>4, <1>5, <1>6, <1>7, <1>8, <1>9, <1>10,
            <1>11, <1>12, <1>13, <1>14, <1>15, <1>16, <1>17, <1>18, <1>19,
            <1>20, <1>21
         DEF User, Outside, Ui

\* The steps of the index thread keep the types.
LEMMA IndexThreadTyped ==
    ASSUME TypeOK, IndexThread
    PROVE  TypeOK'
<1> USE DEF TypeOK, UiTypeOK, SharedTypeOK, ThreadTypeOK, IxPcs
<1>1. CASE IxLoop
  <2>1. CASE stop
    BY <1>1, <2>1 DEF IxLoop
  <2>2. CASE ~stop
    BY <1>1, <2>2 DEF IxLoop
  <2> QED  BY <2>1, <2>2
<1>2. CASE IxNotifyBegin
  <2>1. queue' \in Seq(Messages)
    BY <1>2, ValuesTyped, PostTyped DEF IxNotifyBegin, IxStep
  <2> QED  BY <1>2, <2>1 DEF IxNotifyBegin, IxStep
<1>3. CASE IxClear
  <2>1. builds' \in Nat
    BY <1>3 DEF IxClear
  <2> QED  BY ZenonT(60), <1>3, <2>1 DEF IxClear, IxStep
<1>4. CASE IxBuild
  BY <1>4 DEF IxBuild, IxStep
<1>5. CASE IxNotifyEnd
  <2>1. queue' \in Seq(Messages)
    BY <1>5, ValuesTyped, PostTyped DEF IxNotifyEnd, PublishedMsg
  <2> QED  BY <1>5, <2>1 DEF IxNotifyEnd, PublishedMsg
<1>6. ASSUME NEW built \in BOOLEAN, IxPublish(built)
      PROVE  TypeOK'
  <2>1. index' \in Indexes
    BY <1>6, ValuesTyped, ServiceAssumption DEF IxPublish, Indexes
  <2>2. CASE stop
    BY <1>6, <2>1, <2>2 DEF IxPublish
  <2>3. CASE ~stop
    BY ZenonT(60), <1>6, <2>1, <2>3 DEF IxPublish, KeepsRestart
  <2> QED  BY <2>2, <2>3
<1>7. CASE IxRetry
  BY ZenonT(60), <1>7 DEF IxRetry, IxStep, EndOfWait
<1>8. CASE IxCheck
  BY <1>8 DEF IxCheck, FollowsOn
<1>9. CASE IxWait
  BY ZenonT(60), <1>9 DEF IxWait, IxStep, EndOfWait
<1>10. ASSUME NEW n \in {0, 1}, NEW healthy \in BOOLEAN, IxPoll(n, healthy)
       PROVE  TypeOK'
  <2>1. index' \in Indexes
    BY <1>10 DEF IxPoll, Indexes
  <2>2. updates' \in Nat
    BY <1>10 DEF IxPoll
  <2>3. CASE healthy
    BY <1>10, <2>1, <2>2, <2>3 DEF IxPoll
  <2>4. CASE ~healthy
    BY <1>10, <2>1, <2>2, <2>4 DEF IxPoll
  <2> QED  BY <2>3, <2>4
<1> QED  BY <1>1, <1>2, <1>3, <1>4, <1>5, <1>6, <1>7, <1>8, <1>9, <1>10
         DEF IndexThread

\* The steps of the search thread keep the types.
LEMMA SearchThreadTyped ==
    ASSUME TypeOK, SearchThread
    PROVE  TypeOK'
<1> USE DEF TypeOK, UiTypeOK, SharedTypeOK, ThreadTypeOK, SrPcs
<1>1. CASE SrAcquire
  BY <1>1 DEF SrAcquire, SrStep
<1>2. CASE SrCheck
  <2>1. /\ srPc' \in SrPcs /\ reqLock' \in {"free", "search"}
        /\ hasRequest' \in BOOLEAN /\ srReq' \in Requests
        /\ request' \in Requests
    BY <1>2, ValuesTyped DEF SrCheck
  <2> QED  BY <1>2, <2>1 DEF SrCheck
<1>3. CASE SrSleep
  BY <1>3 DEF SrSleep, SrStep
<1>4. ASSUME NEW complete \in Completes, SrSearch(complete)
      PROVE  TypeOK'
  <2>1. srReply' \in Replies
    BY <1>4 DEF SrSearch, SrStep, Replies, Requests, Indexes, Caches
  <2>2. cache' \in Caches
    BY <1>4, ValuesTyped, RequestTyped
       DEF SrSearch, SrStep, Indexes, Caches
  <2> QED  BY <1>4, <2>1, <2>2 DEF SrSearch, SrStep
<1>5. CASE SrStatus
  <2>1. srReply' \in Replies
    BY <1>5, ReplyTyped DEF SrStatus
  <2> QED  BY <1>5, <2>1 DEF SrStatus, SrStep
<1>6. CASE SrSuperseded
  BY <1>6, ValuesTyped DEF SrSuperseded, Again
<1>7. CASE SrPost
  <2>1. queue' \in Seq(Messages)
    BY <1>7, ReplyTyped, PostTyped DEF SrPost, SrStep
  <2> QED  BY <1>7, <2>1 DEF SrPost, SrStep
<1>8. CASE SrDetails
  BY <1>8, ValuesTyped DEF SrDetails, Again
<1>9. CASE SrPostDetails
  <2>1. queue' \in Seq(Messages)
    BY <1>9, ReplyTyped, PostTyped DEF SrPostDetails
  <2> QED  BY <1>9, <2>1, ValuesTyped DEF SrPostDetails, Again
<1> QED  BY <1>1, <1>2, <1>3, <1>4, <1>5, <1>6, <1>7, <1>8, <1>9
         DEF SearchThread

\* Every step keeps the types.
LEMMA StepTyped == TypeOK /\ [Next]_vars => TypeOK'
<1> SUFFICES ASSUME TypeOK, [Next]_vars
             PROVE  TypeOK'
  OBVIOUS
<1>1. CASE User \/ Outside \/ Ui
  BY <1>1, UiTyped
<1>2. CASE IndexThread
  BY <1>2, IndexThreadTyped
<1>3. CASE SearchThread
  BY <1>3, SearchThreadTyped
<1>4. CASE UNCHANGED vars
  BY <1>4 DEF TypeOK, UiTypeOK, SharedTypeOK, ThreadTypeOK
<1> QED  BY <1>1, <1>2, <1>3, <1>4 DEF Next, Ended

\* The service never leaves its types: the mailbox, the queue and the
\* threads' positions are always among the values the code knows.
THEOREM TypeCorrect == Spec => []TypeOK
BY InitTyped, StepTyped, PTL DEF Spec
-----------------------------------------------------------------------------
(* No signal is slept through. *)

\* Once Stop has signalled, the event stays signalled until the index thread
\* has left its wait; from there it only goes to the end.
StopInv ==
    /\ uiPc \in {"stopSignal", "stopLock", "stopNotify", "joinIndex"} => stop
    /\ uiPc \in {"stopLock", "stopNotify", "joinIndex"} =>
          wake \/ ixPc \in {"check", "loop", "done"}

\* A pending rebuild keeps the event signalled until the index thread is on
\* its way to the top of the loop, where it clears the request.
RestartInv ==
    (rebuild /\ uiPc # "signalRestart") =>
        wake \/ ixPc \in {"check", "loop", "notifyBegin", "clear", "done"}

\* Both hold at first and are kept by every step.
LEMMA SignalsInit == Init => StopInv /\ RestartInv /\ CatchUpIsPrompt
BY DEF Init, StopInv, RestartInv, CatchUpIsPrompt

LEMMA SignalsStep ==
    TypeOK /\ StopInv /\ RestartInv /\ CatchUpIsPrompt /\ [Next]_vars
        => StopInv' /\ RestartInv' /\ CatchUpIsPrompt'
<1> SUFFICES ASSUME TypeOK, StopInv, RestartInv, CatchUpIsPrompt, [Next]_vars
             PROVE  StopInv' /\ RestartInv' /\ CatchUpIsPrompt'
  OBVIOUS
<1> USE DEF StopInv, RestartInv, CatchUpIsPrompt
<1>1. CASE User
  BY <1>1 DEF User, Start, OpenPanel, ClosePanel, StopCalled, Type,
              TextChanged
<1>2. CASE Outside
  BY <1>2 DEF Outside, AppsLoaded, AccessGranted
<1>3. CASE SignalActive \/ Requery \/ NotifyOne \/ SignalRestart
  BY <1>3 DEF SignalActive, CatchUpSignal, Requery, TextChanged, NotifyOne,
              SignalRestart
<1>4. CASE OnStatus \/ OnApps \/ OnReply \/ OnAccess
  BY <1>4 DEF OnStatus, OnApps, OnReply, OnAccess, Receive, TextChanged
<1>5. CASE \/ StopStore \/ StopSignal \/ StopLock \/ StopNotify
           \/ JoinIndex \/ JoinSearch
  BY <1>5 DEF StopStore, StopSignal, StopLock, StopNotify, JoinIndex,
              JoinSearch
<1>6. CASE IxLoop \/ IxNotifyBegin \/ IxClear \/ IxBuild \/ IxNotifyEnd
  BY <1>6 DEF IxLoop, IxNotifyBegin, IxStep, IxClear, IxBuild, IxNotifyEnd
<1>7. ASSUME NEW built \in BOOLEAN, IxPublish(built)
      PROVE  StopInv' /\ RestartInv' /\ CatchUpIsPrompt'
  BY <1>7 DEF IxPublish, KeepsRestart
<1>8. CASE IxRetry \/ IxCheck \/ IxWait
  BY <1>8 DEF IxRetry, IxCheck, IxWait, IxStep, EndOfWait, FollowsOn
<1>9. ASSUME NEW n \in {0, 1}, NEW healthy \in BOOLEAN, IxPoll(n, healthy)
      PROVE  StopInv' /\ RestartInv' /\ CatchUpIsPrompt'
  BY <1>9 DEF IxPoll
<1>10. CASE SearchThread
  <2>1. UNCHANGED <<uiPc, stop, wake, rebuild, active, ixPc, ixLong>>
    BY <1>10 DEF SearchThread, SrAcquire, SrCheck, SrSleep, SrSearch,
       SrStatus, SrSuperseded, SrPost, SrDetails, SrPostDetails
  <2> QED  BY <2>1
<1>11. CASE UNCHANGED vars
  BY <1>11
<1> QED  BY <1>1, <1>2, <1>3, <1>4, <1>5, <1>6, <1>7, <1>8, <1>9, <1>10,
            <1>11
         DEF Next, Ended, Ui, IndexThread

\* Stop(), Restart() and SetActive(true) reach the index thread at once: it
\* never waits out a time limit with one of their signals slept through.
THEOREM SignalsHeard == Spec => []SignalsAreHeard
<1>1. StopInv /\ RestartInv /\ CatchUpIsPrompt => SignalsAreHeard
  BY DEF StopInv, RestartInv, StopIsPrompt, RestartIsPrompt, SignalsAreHeard
<1> QED  BY <1>1, SignalsInit, SignalsStep, TypeCorrect, PTL DEF Spec
-----------------------------------------------------------------------------
(* Replies carry app rows of the installed catalogue. *)

\* The newest request may still be answered: the panel has text and is open,
\* or the dock is ending and nothing is handled any more.
Current == text # NoText /\ (open \/ Ending)

\* A request id that may be on its way, and a reply that may.
LiveId(id) == id <= nextId /\ (id = nextId => Current)
Fresh(r) == LiveId(r.id) /\ (r.id = nextId => r.apps = apps)

PanelInv == uiPc \in {"signalActive", "requery"} => open
SlotInv == hasRequest => LiveId(request.id)
TurnInv ==
    /\ srPc = "search" => LiveId(srReq.id)
    /\ srPc \in {"status", "superseded", "post", "details", "postDetails"}
          => Fresh(srReply)
QueueInv ==
    \A i \in 1..Len(queue) : queue[i].kind = "reply" => Fresh(queue[i].reply)

RowsInv == PanelInv /\ SlotInv /\ TurnInv /\ QueueInv

\* Whatever a step leaves in the queue was there before.
OnlyFromQueue ==
    \A i \in 1..Len(queue') :
        queue'[i].kind = "reply" => \E j \in 1..Len(queue) : queue'[i] = queue[j]

\* The ids that are compared are numbers.
LEMMA IdsAreNumbers ==
    ASSUME TypeOK
    PROVE  /\ nextId \in Nat /\ request.id \in Nat /\ srReq.id \in Nat
           /\ srReply.id \in Nat
           /\ \A i \in 1..Len(queue) :
                 queue[i] \in Messages /\ queue[i].reply.id \in Nat
<1>1. \A r \in Requests : r.id \in Nat
  BY DEF Requests
<1>2. \A r \in Replies : r.id \in Nat
  BY DEF Replies
<1>3. \A i \in 1..Len(queue) : queue[i] \in Messages
  BY DEF TypeOK, UiTypeOK
<1> QED  BY <1>1, <1>2, <1>3, MessageTyped
         DEF TypeOK, UiTypeOK, SharedTypeOK, ThreadTypeOK

\* A step that leaves ids, text, catalogue and replies alone keeps RowsInv.
LEMMA QuietStep ==
    ASSUME TypeOK, RowsInv, UNCHANGED <<nextId, text, apps>>,
           Current => Current', PanelInv', OnlyFromQueue,
           hasRequest' => hasRequest /\ request' = request,
           srPc' = "search" => srPc = "search" /\ srReq' = srReq,
           srPc' \in {"status", "superseded", "post", "details",
                      "postDetails"}
             => /\ srPc \in {"status", "superseded", "post", "details",
                              "postDetails"}
                /\ srReply'.id = srReply.id /\ srReply'.apps = srReply.apps
    PROVE  RowsInv'
<1>1. \A id : LiveId(id) => LiveId(id)'
  BY DEF LiveId
<1>2. ASSUME NEW r, Fresh(r)
      PROVE  Fresh(r)'
  BY <1>1, <1>2 DEF Fresh, LiveId
<1>3. SlotInv'
  BY <1>1 DEF RowsInv, SlotInv, LiveId
<1>4. TurnInv'
  BY <1>1 DEF RowsInv, TurnInv, Fresh, LiveId
<1>5. QueueInv'
  BY <1>2 DEF RowsInv, QueueInv, OnlyFromQueue
<1> QED  BY <1>3, <1>4, <1>5 DEF RowsInv

\* A new id: everything on its way is older; only the slot may hold the new
\* id, and then the panel is open with text.
LEMMA BumpStep ==
    ASSUME TypeOK, RowsInv, nextId' = nextId + 1, PanelInv', OnlyFromQueue,
           UNCHANGED <<srPc, srReq, srReply>>,
           \/ UNCHANGED <<hasRequest, request>>
           \/ request'.id = nextId + 1 /\ Current'
    PROVE  RowsInv'
<1>1. \A id \in Nat : LiveId(id) => LiveId(id)'
  BY DEF LiveId, TypeOK, UiTypeOK
<1>2. \A r : r.id \in Nat /\ Fresh(r) => Fresh(r)'
  BY DEF Fresh, LiveId, TypeOK, UiTypeOK
<1>3. SlotInv'
  <2>1. CASE UNCHANGED <<hasRequest, request>>
    BY <1>1, <2>1, IdsAreNumbers DEF RowsInv, SlotInv
  <2>2. CASE request'.id = nextId + 1 /\ Current'
    BY <2>2, IdsAreNumbers DEF SlotInv, LiveId
  <2> QED  BY <2>1, <2>2
<1>4. TurnInv'
  BY <1>1, <1>2, IdsAreNumbers DEF RowsInv, TurnInv
<1>5. QueueInv'
  BY <1>2, IdsAreNumbers DEF RowsInv, QueueInv, OnlyFromQueue
<1> QED  BY <1>3, <1>4, <1>5 DEF RowsInv

\* Without an open panel with text nothing on its way has the newest id: the
\* catalogue may change.
LEMMA StaleStep ==
    ASSUME TypeOK, RowsInv, ~Current, nextId' = nextId, PanelInv',
           OnlyFromQueue, UNCHANGED <<reqVars, srVars>>
    PROVE  RowsInv'
<1>1. \A id \in Nat : LiveId(id) => LiveId(id)'
  BY DEF LiveId
<1>2. \A r : Fresh(r) => Fresh(r)'
  BY DEF Fresh, LiveId
<1>3. SlotInv'
  BY <1>1, IdsAreNumbers DEF RowsInv, SlotInv
<1>4. TurnInv'
  BY <1>1, <1>2, IdsAreNumbers DEF RowsInv, TurnInv
<1>5. QueueInv'
  BY <1>2 DEF RowsInv, QueueInv, OnlyFromQueue
<1> QED  BY <1>3, <1>4, <1>5 DEF RowsInv

\* Taking the head of the queue, emptying it, or posting something else than
\* a reply, adds no reply.
LEMMA TailFromQueue ==
    ASSUME TypeOK, queue # <<>>, queue' = Tail(queue)
    PROVE  OnlyFromQueue
BY DEF TypeOK, UiTypeOK, OnlyFromQueue

LEMMA SameQueue ==
    ASSUME UNCHANGED queue
    PROVE  OnlyFromQueue
BY DEF OnlyFromQueue

LEMMA PostFromQueue ==
    ASSUME TypeOK, NEW m \in Messages, m.kind # "reply", Post(m)
    PROVE  OnlyFromQueue
<1>1. CASE Ending
  BY <1>1, SameQueue DEF Post
<1>2. CASE ~Ending
  BY <1>2 DEF Post, OnlyFromQueue, TypeOK, UiTypeOK
<1> QED  BY <1>1, <1>2

\* SearchTextChanged in an open panel keeps RowsInv.
LEMMA TextChangedStep ==
    ASSUME TypeOK, RowsInv, OnlyFromQueue, UNCHANGED <<srPc, srReq, srReply>>,
           NEW t \in Texts \cup {NoText}, TextChanged(t), open'
    PROVE  RowsInv'
<1>1. nextId' = nextId + 1 /\ PanelInv'
  BY DEF TextChanged, PanelInv
<1>2. \/ UNCHANGED <<hasRequest, request>>
      \/ request'.id = nextId + 1 /\ Current'
  BY DEF TextChanged, FillSlot, Current
<1> QED  BY <1>1, <1>2, BumpStep

\* The initial state has nothing on its way.
LEMMA RowsInit == Init => RowsInv
BY DEF Init, RowsInv, PanelInv, SlotInv, TurnInv, QueueInv

\* The steps of the UI thread and of the detached threads.
LEMMA UiRows ==
    ASSUME TypeOK, RowsInv, User \/ Outside \/ Ui
    PROVE  RowsInv'
<1>1. CASE Start
  <2>1. OnlyFromQueue /\ (Current => Current') /\ PanelInv'
    BY <1>1, SameQueue DEF Start, Current, Ending, PanelInv
  <2> QED  BY <1>1, <2>1, SameQueue, QuietStep DEF Start
<1>2. CASE OpenPanel
  <2>1. Current => Current'
    BY <1>2 DEF OpenPanel, Current, Ending
  <2>2. PanelInv'
    BY <1>2 DEF OpenPanel, PanelInv
  <2> QED  BY <1>2, <2>1, <2>2, SameQueue, QuietStep DEF OpenPanel
<1>3. CASE ClosePanel
  <2>1. PanelInv'
    BY <1>3 DEF ClosePanel, PanelInv
  <2> QED  BY <1>3, <2>1, SameQueue, BumpStep DEF ClosePanel, BumpOnClose
<1>4. CASE StopCalled
  <2>1. OnlyFromQueue
    BY <1>4 DEF StopCalled, OnlyFromQueue
  <2>2. Current => Current'
    BY <1>4 DEF StopCalled, Current, Ending
  <2>3. PanelInv'
    BY <1>4 DEF StopCalled, PanelInv
  <2> QED  BY <1>4, <2>1, <2>2, <2>3, QuietStep DEF StopCalled
<1>5. ASSUME NEW t \in Texts \cup {NoText}, Type(t)
      PROVE  RowsInv'
  BY <1>5, SameQueue, TextChangedStep DEF Type
<1>6. CASE AppsLoaded \/ AccessGranted
  <2>1. OnlyFromQueue
    <3>1. AppsMsg.kind # "reply" /\ AccessMsg.kind # "reply"
      BY DEF AppsMsg, AccessMsg
    <3> QED  BY <1>6, <3>1, ValuesTyped, PostFromQueue
             DEF AppsLoaded, AccessGranted
  <2>2. UNCHANGED <<uiVars, reqVars, srVars, apps>>
    BY <1>6 DEF AppsLoaded, AccessGranted
  <2>3. Current => Current'
    BY <2>2 DEF Current, Ending
  <2>4. PanelInv'
    BY <2>2 DEF RowsInv, PanelInv
  <2> QED  BY <2>1, <2>2, <2>3, <2>4, QuietStep
<1>7. CASE SignalActive \/ SignalRestart
  <2>1. UNCHANGED <<open, text, nextId, queue, reqVars, srVars, apps>>
    BY <1>7 DEF SignalActive, SignalRestart
  <2>2. Current => Current'
    BY <1>7, <2>1 DEF SignalActive, SignalRestart, Current, Ending
  <2>3. PanelInv'
    BY <1>7, <2>1 DEF SignalActive, SignalRestart, RowsInv, PanelInv
  <2> QED  BY <2>1, <2>2, <2>3, SameQueue, QuietStep
<1>8. CASE Requery
  <2>1. CASE text = NoText
    <3>1. UNCHANGED <<open, text, nextId, queue, reqVars, srVars, apps>>
      BY <1>8, <2>1 DEF Requery
    <3>2. (Current => Current') /\ PanelInv'
      BY <1>8, <2>1 DEF Requery, Current, PanelInv
    <3> QED  BY <3>1, <3>2, SameQueue, QuietStep
  <2>2. CASE text # NoText
    <3>1. open'
      BY <1>8 DEF Requery, RowsInv, PanelInv
    <3> QED  BY <1>8, <2>2, <3>1, SameQueue, TextChangedStep
             DEF Requery, TypeOK, UiTypeOK
  <2> QED  BY <2>1, <2>2
<1>9. CASE NotifyOne \/ StopNotify
  <2>1. UNCHANGED <<open, text, nextId, queue, reqVars, srReq, srReply, apps>>
    BY <1>9 DEF NotifyOne, StopNotify
  <2>2. Current => Current'
    BY <1>9, <2>1 DEF NotifyOne, StopNotify, Current, Ending
  <2>3. PanelInv' /\ srPc' \in {srPc, "acquire"}
    BY <1>9 DEF NotifyOne, StopNotify, PanelInv, Awake
  <2> QED  BY <2>1, <2>2, <2>3, SameQueue, QuietStep
<1>10. CASE OnStatus
  <2>1. OnlyFromQueue
    BY <1>10, TailFromQueue DEF OnStatus, Receive
  <2>2. CASE open
    BY <1>10, <2>1, <2>2, TextChangedStep DEF OnStatus, TypeOK, UiTypeOK
  <2>3. CASE ~open
    <3>1. UNCHANGED <<uiPc, open, text, nextId, reqVars, srVars, apps>>
      BY <1>10, <2>3 DEF OnStatus
    <3>2. (Current => Current') /\ PanelInv'
      BY <3>1 DEF Current, Ending, RowsInv, PanelInv
    <3> QED  BY <2>1, <3>1, <3>2, QuietStep
  <2> QED  BY <2>2, <2>3
<1>11. CASE OnApps
  <2>1. OnlyFromQueue
    BY <1>11, TailFromQueue DEF OnApps, Receive
  <2>2. CASE open /\ text # NoText
    BY <1>11, <2>1, <2>2, TextChangedStep DEF OnApps, TypeOK, UiTypeOK
  <2>3. CASE ~(open /\ text # NoText)
    <3>1. UNCHANGED <<uiPc, open, text, nextId, reqVars, srVars>>
      BY <1>11, <2>3 DEF OnApps
    <3>2. ~Current /\ ~Current' /\ PanelInv'
      BY <1>11, <2>3, <3>1
         DEF OnApps, Receive, Current, Ending, RowsInv, PanelInv
    <3> QED  BY <2>1, <3>1, <3>2, StaleStep
  <2> QED  BY <2>2, <2>3
<1>12. CASE OnReply \/ OnAccess
  <2>1. OnlyFromQueue
    BY <1>12, TailFromQueue DEF OnReply, OnAccess, Receive
  <2>2. UNCHANGED <<open, text, nextId, reqVars, srVars, apps>>
    BY <1>12 DEF OnReply, OnAccess
  <2>3. (Current => Current') /\ PanelInv'
    BY <1>12, <2>2
       DEF OnReply, OnAccess, Receive, Current, Ending, RowsInv, PanelInv
  <2> QED  BY <2>1, <2>2, <2>3, QuietStep
<1>13. CASE StopStore \/ StopSignal \/ StopLock \/ JoinIndex \/ JoinSearch
  <2>1. /\ UNCHANGED <<open, text, nextId, queue, request, srVars, apps>>
        /\ hasRequest' => hasRequest
    BY <1>13 DEF StopStore, StopSignal, StopLock, LockedByStop, JoinIndex,
                 JoinSearch
  <2>2. (Current => Current') /\ PanelInv'
    BY <1>13, <2>1 DEF StopStore, StopSignal, StopLock, JoinIndex, JoinSearch,
                       Current, Ending, PanelInv
  <2> QED  BY <2>1, <2>2, SameQueue, QuietStep
<1> QED  BY <1>1, <1>2, <1>3, <1>4, <1>5, <1>6, <1>7, <1>8, <1>9, <1>10,
            <1>11, <1>12, <1>13
         DEF User, Outside, Ui

\* The steps of the index thread touch none of it but the queue.
LEMMA IndexThreadRows ==
    ASSUME TypeOK, RowsInv, IndexThread
    PROVE  RowsInv'
<1>1. UNCHANGED <<uiVars, reqVars, srVars, apps>>
  BY DEF IndexThread, IxLoop, IxNotifyBegin, IxClear, IxBuild, IxNotifyEnd,
         IxPublish, IxRetry, IxCheck, IxWait, IxPoll
<1>2. OnlyFromQueue
  <2>1. UNCHANGED queue \/ Post(StatusMsg)
    BY DEF IndexThread, IxLoop, IxNotifyBegin, IxClear, IxBuild, IxNotifyEnd,
           PublishedMsg, IxPublish, IxRetry, IxCheck, IxWait, IxPoll
  <2>2. StatusMsg.kind # "reply"
    BY DEF StatusMsg
  <2> QED  BY <2>1, <2>2, SameQueue, PostFromQueue, ValuesTyped
<1>3. (Current => Current') /\ PanelInv'
  BY <1>1 DEF Current, Ending, RowsInv, PanelInv
<1> QED  BY <1>1, <1>2, <1>3, QuietStep

\* Posting the reply of the turn keeps the queue's replies fresh.
LEMMA PostReplyRows ==
    ASSUME TypeOK, QueueInv, UNCHANGED <<nextId, text, open, uiPc, apps>>,
           NEW r \in Replies, Fresh(r), Post(ReplyMsg(r))
    PROVE  QueueInv'
<1>1. \A q : Fresh(q) => Fresh(q)'
  BY DEF Fresh, LiveId, Current, Ending
<1>2. CASE Ending
  BY <1>1, <1>2 DEF Post, QueueInv
<1>3. CASE ~Ending
  <2>1. queue' = Append(queue, ReplyMsg(r)) /\ ReplyMsg(r) \in Messages
    BY <1>3, ReplyTyped DEF Post
  <2>2. ASSUME NEW i \in 1..Len(queue'), queue'[i].kind = "reply"
        PROVE  Fresh(queue[i].reply)'
    <3>1. CASE i \in 1..Len(queue)
      <4>1. queue'[i] = queue[i]
        BY <2>1, <3>1 DEF TypeOK, UiTypeOK
      <4> QED  BY <1>1, <2>2, <3>1, <4>1 DEF QueueInv
    <3>2. CASE i \notin 1..Len(queue)
      <4>1. queue'[i] = ReplyMsg(r)
        BY <2>1, <2>2, <3>2 DEF TypeOK, UiTypeOK
      <4> QED  BY <1>1, <4>1 DEF ReplyMsg
    <3> QED  BY <3>1, <3>2
  <2> QED  BY <2>2 DEF QueueInv
<1> QED  BY <1>2, <1>3

\* The steps of the search thread.
LEMMA SearchThreadRows ==
    ASSUME TypeOK, RowsInv, SearchThread
    PROVE  RowsInv'
<1>1. UNCHANGED <<uiVars, apps>>
  BY DEF SearchThread, SrAcquire, SrCheck, SrSleep, SrSearch, SrStatus,
         SrSuperseded, SrPost, SrDetails, SrPostDetails
<1>2. /\ (Current => Current') /\ PanelInv'
      /\ \A id : LiveId(id) => LiveId(id)'
  BY <1>1 DEF Current, Ending, RowsInv, PanelInv, LiveId
<1>3. CASE SrAcquire \/ SrSleep
  BY <1>1, <1>2, <1>3, SameQueue, QuietStep DEF SrAcquire, SrSleep, SrStep
<1>4. CASE SrCheck
  <2>1. SlotInv' /\ TurnInv'
    BY <1>2, <1>4 DEF SrCheck, RowsInv, SlotInv, TurnInv
  <2>2. QueueInv'
    BY <1>1, <1>2, <1>4 DEF SrCheck, RowsInv, QueueInv, Fresh
  <2> QED  BY <1>2, <2>1, <2>2 DEF RowsInv
<1>5. ASSUME NEW complete \in Completes, SrSearch(complete)
      PROVE  RowsInv'
  <2>1. /\ srPc = "search" /\ srPc' = "status"
        /\ srReply'.id = srReq.id /\ srReply'.apps = apps
        /\ UNCHANGED <<queue, hasRequest, request>>
    BY <1>5 DEF SrSearch, SrStep
  <2>2. SlotInv' /\ TurnInv'
    BY <1>1, <1>2, <2>1 DEF RowsInv, SlotInv, TurnInv, Fresh
  <2>3. QueueInv'
    BY <1>1, <1>2, <2>1 DEF RowsInv, QueueInv, Fresh
  <2> QED  BY <1>2, <2>2, <2>3 DEF RowsInv
<1>6. CASE SrStatus
  <2>1. srReply'.id = srReply.id /\ srReply'.apps = srReply.apps
    BY <1>6 DEF SrStatus, TypeOK, ThreadTypeOK, Replies
  <2> QED  BY <1>1, <1>2, <1>6, <2>1, SameQueue, QuietStep
           DEF SrStatus, SrStep
<1>7. CASE SrSuperseded \/ SrDetails
  BY <1>1, <1>2, <1>7, SameQueue, QuietStep DEF SrSuperseded, SrDetails, Again
<1>8. CASE SrPost
  <2>1. QueueInv'
    BY <1>1, <1>8, PostReplyRows
       DEF SrPost, SrStep, RowsInv, TurnInv, TypeOK, ThreadTypeOK
  <2>2. SlotInv' /\ TurnInv'
    BY <1>1, <1>2, <1>8 DEF SrPost, SrStep, RowsInv, SlotInv, TurnInv, Fresh
  <2> QED  BY <1>2, <2>1, <2>2 DEF RowsInv
<1>9. CASE SrPostDetails
  <2>1. /\ [srReply EXCEPT !.meta = TRUE] \in Replies
        /\ Fresh([srReply EXCEPT !.meta = TRUE])
    BY <1>9, ReplyTyped
       DEF SrPostDetails, RowsInv, TurnInv, Fresh, TypeOK, ThreadTypeOK,
           Replies
  <2>2. QueueInv'
    BY <1>1, <1>9, <2>1, PostReplyRows DEF SrPostDetails, RowsInv
  <2>3. SlotInv' /\ TurnInv'
    BY <1>2, <1>9 DEF SrPostDetails, Again, RowsInv, SlotInv, TurnInv
  <2> QED  BY <1>2, <2>2, <2>3 DEF RowsInv
<1> QED  BY <1>3, <1>4, <1>5, <1>6, <1>7, <1>8, <1>9 DEF SearchThread

\* Every step keeps RowsInv.
LEMMA RowsStep == TypeOK /\ RowsInv /\ [Next]_vars => RowsInv'
<1> SUFFICES ASSUME TypeOK, RowsInv, [Next]_vars
             PROVE  RowsInv'
  OBVIOUS
<1>1. CASE UNCHANGED vars
  <2>1. (Current => Current') /\ PanelInv'
    BY <1>1 DEF Current, Ending, RowsInv, PanelInv
  <2> QED  BY <1>1, <2>1, SameQueue, QuietStep
<1> QED  BY <1>1, UiRows, IndexThreadRows, SearchThreadRows DEF Next, Ended

\* An accepted reply names apps by their position in the catalogue that is
\* installed: every change of the catalogue makes the answers on their way
\* unacceptable, or finds none on its way that is.
THEOREM AppRowsCorrect == Spec => []AppRowsMatchCatalogue
<1>1. TypeOK /\ RowsInv => AppRowsMatchCatalogue
  BY DEF TypeOK, UiTypeOK, RowsInv, QueueInv, Fresh, AppRowsMatchCatalogue,
         AcceptsNext, NextReply, Accepts
<1> QED  BY <1>1, RowsInit, RowsStep, TypeCorrect, PTL DEF Spec
-----------------------------------------------------------------------------
(* A panel at rest shows the newest answer, and details match their rows.  *)

\* The turn of the search thread, and the id of the request it answers.
Turning == {"search", "status", "superseded", "post", "details", "postDetails"}
TurnId == IF srPc = "search" THEN srReq.id ELSE srReply.id

\* The second reply of a request whose first is r; m is a reply to request id.
Detailed(r) == [r EXCEPT !.meta = TRUE]
IsAnswer(m, id) == m.kind = "reply" /\ m.reply.id = id

\* The names r are in the queue q. The answers to id in q are r and its
\* details, which come after r or find it shown already.
Sent(q, r) == \E i \in 1..Len(q) : q[i] = ReplyMsg(r)
Ordered(q, sh, r, id) ==
    \A i \in 1..Len(q) : IsAnswer(q[i], id) =>
        \/ q[i].reply = r
        \/ /\ q[i].reply = Detailed(r)
           /\ sh = r \/ \E j \in 1..Len(q) : j < i /\ q[j] = ReplyMsg(r)

\* The newest request waits, or the turn that answers it has posted nothing.
Unanswered ==
    \/ hasRequest /\ request.id = nextId
    \/ srPc \in Turning \ {"details", "postDetails"} /\ TurnId = nextId

\* The newest request has one answer, r.
Answered(r) ==
    /\ Ordered(queue, shown, r, nextId)
    /\ shown.id = nextId => shown = r
    /\ srPc \in {"details", "postDetails"} /\ srReply.id = nextId =>
          srReply = r /\ (shown = r \/ Sent(queue, r))
    /\ Unanswered => /\ shown.id # nextId
                     /\ \A i \in 1..Len(queue) : ~IsAnswer(queue[i], nextId)

\* A status that will be told to the panel.
Telling == ixPc = "notifyEnd" \/ \E i \in 1..Len(queue) : queue[i] = StatusMsg

\* An answer to the newest request is of the data published now, or the panel
\* will be told.
UpToDate(r) ==
    r.id = nextId =>
        /\ r.apps = apps
        /\ r.build = index.build \/ Telling
        /\ r.indexing => indexing \/ Telling

\* The panel has text whose request has been made; its answer is on its way
\* or shown.
Asking == open /\ text # NoText /\ uiPc \notin {"signalActive", "requery"}
Served ==
    \/ Unanswered
    \/ shown.id = nextId
    \/ \E i \in 1..Len(queue) :
          IsAnswer(queue[i], nextId) /\ ~queue[i].reply.meta

\* The turn under way is older than the request that waits.
SlotIsNewer == hasRequest /\ srPc \in Turning => TurnId < request.id

PlacesInv ==
    /\ uiPc = "init" \/ Ending => ~open
    /\ shown.id <= nextId /\ ~shown.meta
    /\ srPc \in Turning \ {"search"} => ~srReply.meta
    /\ SlotIsNewer
    /\ ixPc \in {"notifyEnd", "retry", "check", "poll", "wait"} => ~indexing
OneAnswer == open => \E r \in Replies : ~r.meta /\ Answered(r)
DataInv ==
    open =>
        /\ srPc \in Turning \ {"search"} => UpToDate(srReply)
        /\ \A i \in 1..Len(queue) :
              queue[i].kind = "reply" => UpToDate(queue[i].reply)
ServedInv == Asking => Served /\ UpToDate(shown)

AnswerInv == PlacesInv /\ OneAnswer /\ DataInv /\ ServedInv

\* The elements of a queue whose head is taken, and of one that is posted to.
LEMMA TailElements ==
    ASSUME NEW q \in Seq(Messages), q # <<>>
    PROVE  /\ \A i \in 1..Len(Tail(q)) :
                 i + 1 \in 1..Len(q) /\ Tail(q)[i] = q[i + 1]
           /\ \A i \in 1..Len(q) :
                 \/ i = 1 /\ q[i] = Head(q)
                 \/ /\ i - 1 \in 1..Len(Tail(q)) /\ Tail(q)[i - 1] = q[i]
OBVIOUS

LEMMA AppendElements ==
    ASSUME NEW q \in Seq(Messages), NEW m \in Messages
    PROVE  /\ \A i \in 1..Len(q) :
                 i \in 1..Len(Append(q, m)) /\ Append(q, m)[i] = q[i]
           /\ \A i \in 1..Len(Append(q, m)) :
                 i \in 1..Len(q) \/ (i = Len(q) + 1 /\ Append(q, m)[i] = m)
           /\ Len(q) + 1 \in 1..Len(Append(q, m))
           /\ Append(q, m)[Len(q) + 1] = m
           /\ Len(q) \in Nat
OBVIOUS

\* Taking a message keeps the order, as long as it is not the names of an
\* answer whose rows are not shown.
LEMMA TailOrdered ==
    ASSUME NEW q \in Seq(Messages), q # <<>>, NEW sh, NEW r, NEW id,
           Ordered(q, sh, r, id), NEW s,
           s = r \/ (s = sh /\ Head(q) # ReplyMsg(r))
    PROVE  Ordered(Tail(q), s, r, id)
<1> SUFFICES ASSUME NEW i \in 1..Len(Tail(q)), IsAnswer(Tail(q)[i], id)
             PROVE  \/ Tail(q)[i].reply = r
                    \/ /\ Tail(q)[i].reply = Detailed(r)
                       /\ s = r \/ \E j \in 1..Len(Tail(q)) :
                                      j < i /\ Tail(q)[j] = ReplyMsg(r)
  BY DEF Ordered
<1>1. i + 1 \in 1..Len(q) /\ Tail(q)[i] = q[i + 1]
  BY TailElements
<1>2. CASE s = r
  BY <1>1, <1>2 DEF Ordered
<1>3. CASE s # r
  <2>1. \/ q[i + 1].reply = r
        \/ /\ q[i + 1].reply = Detailed(r)
           /\ \E j \in 1..Len(q) : j < i + 1 /\ q[j] = ReplyMsg(r)
    BY <1>1, <1>3 DEF Ordered
  <2>2. ASSUME NEW j \in 1..Len(q), j < i + 1, q[j] = ReplyMsg(r)
        PROVE  \E k \in 1..Len(Tail(q)) : k < i /\ Tail(q)[k] = ReplyMsg(r)
    <3>1. j - 1 \in 1..Len(Tail(q)) /\ Tail(q)[j - 1] = q[j]
      BY <1>3, <2>2, TailElements
    <3>2. j - 1 < i
      BY <2>2
    <3> QED  BY <2>2, <3>1, <3>2
  <2> QED  BY <1>1, <2>1, <2>2
<1> QED  BY <1>2, <1>3

LEMMA TailSent ==
    ASSUME NEW q \in Seq(Messages), q # <<>>, NEW r, Sent(q, r),
           Head(q) # ReplyMsg(r)
    PROVE  Sent(Tail(q), r)
<1>1. PICK i \in 1..Len(q) : q[i] = ReplyMsg(r)
  BY DEF Sent
<1>2. i - 1 \in 1..Len(Tail(q)) /\ Tail(q)[i - 1] = q[i]
  BY <1>1, TailElements
<1> QED  BY <1>1, <1>2 DEF Sent

\* Posting keeps the order when the message is no answer, the names of the
\* answer, or its details after its names.
LEMMA AppendOrdered ==
    ASSUME NEW q \in Seq(Messages), NEW m \in Messages, NEW sh, NEW r, NEW id,
           Ordered(q, sh, r, id),
           IsAnswer(m, id) =>
               m.reply = r \/ (m.reply = Detailed(r) /\ (sh = r \/ Sent(q, r)))
    PROVE  Ordered(Append(q, m), sh, r, id)
<1> DEFINE p == Append(q, m)
<1> SUFFICES ASSUME NEW i \in 1..Len(p), IsAnswer(p[i], id)
             PROVE  \/ p[i].reply = r
                    \/ /\ p[i].reply = Detailed(r)
                       /\ sh = r \/ \E j \in 1..Len(p) :
                                       j < i /\ p[j] = ReplyMsg(r)
  BY DEF Ordered
<1>1. /\ \A j \in 1..Len(q) : j \in 1..Len(p) /\ p[j] = q[j]
      /\ i \in 1..Len(q) \/ (i = Len(q) + 1 /\ p[i] = m)
      /\ Len(q) \in Nat
  BY AppendElements
<1> HIDE DEF p
<1>2. CASE i \in 1..Len(q)
  BY <1>1, <1>2 DEF Ordered
<1>3. CASE i = Len(q) + 1 /\ p[i] = m
  <2>1. ASSUME Sent(q, r)
        PROVE  \E j \in 1..Len(p) : j < i /\ p[j] = ReplyMsg(r)
    <3>1. PICK j \in 1..Len(q) : q[j] = ReplyMsg(r)
      BY <2>1 DEF Sent
    <3>2. j < i
      BY <1>1, <1>3
    <3> QED  BY <1>1, <3>1, <3>2
  <2> QED  BY <1>3, <2>1
<1> QED  BY <1>1, <1>2, <1>3

LEMMA AppendSent ==
    ASSUME NEW q \in Seq(Messages), NEW m \in Messages, NEW r,
           Sent(q, r) \/ m = ReplyMsg(r)
    PROVE  Sent(Append(q, m), r)
<1> DEFINE p == Append(q, m)
<1>1. /\ \A j \in 1..Len(q) : j \in 1..Len(p) /\ p[j] = q[j]
      /\ Len(q) + 1 \in 1..Len(p) /\ p[Len(q) + 1] = m
  BY AppendElements
<1> HIDE DEF p
<1>2. \E j \in 1..Len(p) : p[j] = ReplyMsg(r)
  BY <1>1 DEF Sent
<1> QED  BY <1>2 DEF p, Sent

\* What the invariants say of the ids that are compared.
LEMMA AnswerIds ==
    ASSUME TypeOK, RowsInv
    PROVE  /\ nextId \in Nat /\ request.id \in Nat /\ TurnId \in Nat
           /\ shown.id \in Nat /\ shown \in Replies /\ srReply \in Replies
           /\ queue \in Seq(Messages)
           /\ hasRequest => request.id <= nextId
           /\ srPc \in Turning => TurnId <= nextId
           /\ \A i \in 1..Len(queue) :
                 /\ queue[i] \in Messages /\ queue[i].reply.id \in Nat
                 /\ queue[i].kind = "reply" => queue[i].reply.id <= nextId
<1>1. shown.id \in Nat
  BY DEF TypeOK, UiTypeOK, Replies
<1>2. \A i \in 1..Len(queue) : queue[i].kind = "reply" => queue[i].reply.id <= nextId
  BY DEF RowsInv, QueueInv, Fresh, LiveId
<1>3. srPc \in Turning => TurnId <= nextId
  BY DEF RowsInv, TurnInv, Fresh, LiveId, Turning, TurnId
<1> QED  BY <1>1, <1>2, <1>3, IdsAreNumbers
         DEF TypeOK, UiTypeOK, ThreadTypeOK, RowsInv, SlotInv, LiveId, TurnId

\* The answer to the newest request has not been posted.
NotAnswered ==
    /\ srPc \in Turning \ {"search"} => srReply.id # nextId
    /\ \A i \in 1..Len(queue) : ~IsAnswer(queue[i], nextId)
    /\ Unanswered => shown.id # nextId

\* Then the rows displayed, if anything, are its answer.
LEMMA NotAnsweredYet ==
    ASSUME TypeOK', PlacesInv', NotAnswered'
    PROVE  OneAnswer' /\ DataInv'
<1>1. Answered(shown)'
  BY DEF NotAnswered, Answered, Ordered, Turning
<1>2. DataInv'
  BY DEF NotAnswered, DataInv, UpToDate, IsAnswer
<1> QED  BY <1>1, <1>2 DEF OneAnswer, TypeOK, UiTypeOK, PlacesInv

\* Without an open panel with text nothing on its way has the newest id: the
\* panel may open, the catalogue may change.
LEMMA StaleAnswer ==
    ASSUME TypeOK, TypeOK', RowsInv, ~Current, nextId' = nextId, OnlyFromQueue,
           UNCHANGED <<srPc, srReq, srReply, hasRequest, request>>,
           PlacesInv', ~Asking'
    PROVE  AnswerInv'
<1>1. /\ srPc \in Turning => TurnId # nextId
      /\ hasRequest => request.id # nextId
      /\ \A i \in 1..Len(queue) : ~IsAnswer(queue[i], nextId)
  BY DEF RowsInv, SlotInv, TurnInv, QueueInv, LiveId, Fresh, Turning, TurnId, IsAnswer
<1>2. ~Unanswered'
  BY <1>1 DEF Unanswered, Turning, TurnId
<1>3. NotAnswered'
  <2>1. srPc' \in Turning \ {"search"} => srReply'.id # nextId'
    BY <1>1 DEF TurnId
  <2>2. ASSUME NEW i \in 1..Len(queue'), IsAnswer(queue'[i], nextId') PROVE FALSE
    BY <1>1, <2>2 DEF OnlyFromQueue, IsAnswer
  <2> QED  BY <1>2, <2>1, <2>2 DEF NotAnswered
<1> QED  BY <1>3, NotAnsweredYet DEF AnswerInv, ServedInv

\* A new id: everything on its way is older.
LEMMA BumpAnswer ==
    ASSUME TypeOK, TypeOK', RowsInv, AnswerInv, nextId' = nextId + 1, OnlyFromQueue,
           UNCHANGED <<srVars, indexing, ixPc>>, shown' \in {shown, NoReply},
           uiPc' = "init" \/ Ending' => ~open',
           \/ UNCHANGED <<hasRequest, request>> /\ ~(open' /\ text' # NoText)
           \/ hasRequest' /\ request'.id = nextId + 1
    PROVE  AnswerInv'
<1>1. /\ nextId \in Nat /\ request.id \in Nat /\ TurnId \in Nat /\ shown.id \in Nat
      /\ hasRequest => request.id <= nextId
      /\ srPc \in Turning => TurnId <= nextId
      /\ \A i \in 1..Len(queue) : queue[i].kind = "reply" => queue[i].reply.id <= nextId
  BY AnswerIds
<1>2. TurnId' = TurnId
  BY DEF TurnId
<1>3. shown'.id <= nextId /\ ~shown'.meta /\ shown'.id \in Nat
  BY <1>1 DEF NoReply, AnswerInv, PlacesInv
<1>4. SlotIsNewer'
  <2>1. CASE UNCHANGED <<hasRequest, request>>
    BY <1>2, <2>1 DEF SlotIsNewer, AnswerInv, PlacesInv
  <2>2. CASE request'.id = nextId + 1
    <3>1. srPc \in Turning => TurnId < request'.id
      BY <1>1, <2>2
    <3> QED  BY <1>2, <3>1 DEF SlotIsNewer
  <2> QED  BY <2>1, <2>2
<1>5. PlacesInv'
  BY <1>1, <1>3, <1>4 DEF AnswerInv, PlacesInv, Ending
<1>6. NotAnswered'
  <2>1. srPc' \in Turning \ {"search"} => srReply'.id # nextId'
    BY <1>1 DEF TurnId
  <2>2. ASSUME NEW i \in 1..Len(queue'), IsAnswer(queue'[i], nextId') PROVE FALSE
    BY <1>1, <2>2 DEF OnlyFromQueue, IsAnswer
  <2>3. shown'.id # nextId'
    BY <1>1, <1>3
  <2> QED  BY <2>1, <2>2, <2>3 DEF NotAnswered
<1>7. ServedInv'
  BY <1>1, <1>3 DEF ServedInv, Asking, Served, Unanswered, UpToDate
<1> QED  BY <1>5, <1>6, <1>7, NotAnsweredYet DEF AnswerInv

\* A step that closes the panel, or leaves it closed.
LEMMA ClosedAnswer ==
    ASSUME AnswerInv, ~open', PlacesInv'
    PROVE  AnswerInv'
BY DEF AnswerInv, OneAnswer, DataInv, ServedInv, Asking

\* A step that leaves requests, replies and rows alone, and lets no answer
\* become stale unnoticed.
LEMMA QuietAnswer ==
    ASSUME TypeOK, AnswerInv, PlacesInv',
           UNCHANGED <<queue, nextId, shown, hasRequest, request, srReq, srReply>>,
           srPc' = srPc \/ (srPc \notin Turning /\ srPc' \notin Turning),
           open' => open, Asking' => Asking,
           ASSUME NEW r PROVE UpToDate(r) => UpToDate(r)'
    PROVE  AnswerInv'
<1>1. \A r : UpToDate(r) => UpToDate(r)'
  OBVIOUS
<1>2. Unanswered' <=> Unanswered
  BY DEF Unanswered, TurnId, Turning
<1>3. \A r : Answered(r) => Answered(r)'
  BY <1>2 DEF Answered, Turning
<1>4. OneAnswer'
  BY <1>3 DEF AnswerInv, OneAnswer
<1>5. DataInv'
  BY <1>1 DEF AnswerInv, DataInv
<1>6. Served => Served'
  BY <1>2 DEF Served
<1>7. ServedInv'
  BY <1>1, <1>6 DEF AnswerInv, ServedInv
<1> QED  BY <1>4, <1>5, <1>7 DEF AnswerInv

\* What is told stays told while the data stays, or grows by "indexing".
LEMMA DataKept ==
    ASSUME Telling => Telling', UNCHANGED <<nextId, apps>>, index'.build = index.build,
           indexing => indexing'
    PROVE  \A r : UpToDate(r) => UpToDate(r)'
BY DEF UpToDate

\* The head of the queue is dispatched: what was to be told still is, unless
\* it is this message.
LEMMA PopTelling ==
    ASSUME TypeOK, queue # <<>>, queue' = Tail(queue), Head(queue) # StatusMsg, ixPc' = ixPc
    PROVE  Telling => Telling'
<1>1. \A i \in 1..Len(queue) : \/ i = 1 /\ queue[i] = Head(queue)
                               \/ /\ i - 1 \in 1..Len(Tail(queue)) /\ Tail(queue)[i - 1] = queue[i]
  BY TailElements DEF TypeOK, UiTypeOK
<1> QED  BY <1>1 DEF Telling

\* A message that is no answer to the newest request is taken.
LEMMA PopAnswer ==
    ASSUME TypeOK, AnswerInv, PlacesInv', queue # <<>>, queue' = Tail(queue),
           ~IsAnswer(Head(queue), nextId), Head(queue) # StatusMsg,
           UNCHANGED <<open, text, nextId, shown, hasRequest, request, srVars, index, apps,
                       indexing, ixPc>>,
           Asking' => Asking
    PROVE  AnswerInv'
<1>q. queue \in Seq(Messages)
  BY DEF TypeOK, UiTypeOK
<1>e. /\ \A i \in 1..Len(queue') : \E j \in 1..Len(queue) : queue'[i] = queue[j]
      /\ \A i \in 1..Len(queue) : \/ queue[i] = Head(queue)
                                  \/ \E j \in 1..Len(queue') : queue'[j] = queue[i]
  BY <1>q, TailElements
<1>1. \A r : UpToDate(r) => UpToDate(r)'
  BY PopTelling, DataKept
<1>2. Unanswered' <=> Unanswered
  BY DEF Unanswered, TurnId
<1>3. ASSUME open, NEW r \in Replies, ~r.meta, Answered(r)
      PROVE  Answered(r)'
  <2>1. CASE Head(queue) = ReplyMsg(r)
    <3>1. r.id # nextId
      BY <2>1 DEF IsAnswer, ReplyMsg
    <3>2. \A i \in 1..Len(queue) : ~IsAnswer(queue[i], nextId)
      BY <1>3, <3>1 DEF Answered, Ordered, Detailed, IsAnswer, Replies
    <3>3. \A i \in 1..Len(queue') : ~IsAnswer(queue'[i], nextId)
      BY <1>e, <3>2
    <3> QED  BY <1>2, <1>3, <3>1, <3>3 DEF Answered, Ordered
  <2>2. CASE Head(queue) # ReplyMsg(r)
    <3>1. Ordered(queue', shown, r, nextId) /\ (Sent(queue, r) => Sent(queue', r))
      BY <1>q, <1>3, <2>2, TailOrdered, TailSent DEF Answered
    <3> QED  BY <1>2, <1>3, <1>e, <3>1 DEF Answered
  <2> QED  BY <2>1, <2>2
<1>4. OneAnswer'
  BY <1>3 DEF AnswerInv, OneAnswer
<1>5. DataInv'
  BY <1>1, <1>e DEF AnswerInv, DataInv
<1>6. Served => Served'
  BY <1>2, <1>e DEF Served
<1>7. ServedInv'
  BY <1>1, <1>6 DEF AnswerInv, ServedInv
<1> QED  BY <1>4, <1>5, <1>7 DEF AnswerInv

\* The newest request is answered: its names are displayed, or its details,
\* whose rows are displayed already.
LEMMA TakeAnswer ==
    ASSUME TypeOK, AnswerInv, PlacesInv', open, queue # <<>>, queue' = Tail(queue),
           IsAnswer(Head(queue), nextId),
           shown' = (IF Head(queue).reply.meta THEN shown ELSE Head(queue).reply),
           UNCHANGED <<open, text, nextId, hasRequest, request, srVars, index, apps,
                       indexing, ixPc>>
    PROVE  AnswerInv' /\ (Head(queue).reply.meta => Head(queue).reply = Detailed(shown))
<1>q. queue \in Seq(Messages) /\ 1 \in 1..Len(queue) /\ queue[1] = Head(queue)
  BY DEF TypeOK, UiTypeOK
<1>e. \A i \in 1..Len(queue') : \E j \in 1..Len(queue) : queue'[i] = queue[j]
  BY <1>q, TailElements
<1>1. \A r : UpToDate(r) => UpToDate(r)'
  <2>1. Head(queue) # StatusMsg
    BY DEF IsAnswer, StatusMsg
  <2> QED  BY <2>1, PopTelling, DataKept
<1>2. ~Unanswered /\ ~Unanswered'
  <2>1. ~Unanswered
    BY <1>q DEF AnswerInv, OneAnswer, Answered
  <2> QED  BY <2>1 DEF Unanswered, TurnId
<1>3. PICK r \in Replies : ~r.meta /\ Answered(r)
  BY DEF AnswerInv, OneAnswer
<1>4. Detailed(r).meta /\ Detailed(r).id = r.id
  BY DEF Detailed, Replies
<1>5. \/ ~Head(queue).reply.meta /\ Head(queue).reply = r
      \/ Head(queue).reply.meta /\ Head(queue).reply = Detailed(r) /\ shown = r
  <2>1. \/ Head(queue).reply = r
        \/ /\ Head(queue).reply = Detailed(r)
           /\ shown = r \/ \E j \in 1..Len(queue) : j < 1 /\ queue[j] = ReplyMsg(r)
    BY <1>3, <1>q DEF Answered, Ordered
  <2>2. ~\E j \in 1..Len(queue) : j < 1
    BY <1>q
  <2> QED  BY <1>3, <1>4, <2>1, <2>2
<1>6. shown' = r /\ r.id = nextId
  BY <1>4, <1>5 DEF IsAnswer
<1>7. Answered(r)'
  <2>1. Ordered(queue', r, r, nextId)
    BY <1>3, <1>q, TailOrdered DEF Answered
  <2> QED  BY <1>2, <1>3, <1>6, <2>1 DEF Answered
<1>8. OneAnswer'
  BY <1>3, <1>7 DEF OneAnswer
<1>9. DataInv'
  BY <1>1, <1>e DEF AnswerInv, DataInv
<1>10. ServedInv'
  <2>1. UpToDate(Head(queue).reply)
    BY <1>q DEF AnswerInv, DataInv, IsAnswer
  <2>2. UpToDate(r)
    BY <1>5, <2>1 DEF UpToDate, Detailed, Replies
  <2>3. UpToDate(r)'
    BY <1>1, <2>2
  <2>4. UpToDate(shown)'
    BY <1>6, <2>3 DEF UpToDate
  <2> QED  BY <1>6, <2>4 DEF ServedInv, Served
<1> QED  BY <1>5, <1>8, <1>9, <1>10 DEF AnswerInv

\* A message that is no reply is posted; what was to be told still is.
LEMMA PostAnswer ==
    ASSUME TypeOK, AnswerInv, PlacesInv', NEW m \in Messages, m.kind # "reply", Post(m),
           UNCHANGED <<uiVars, hasRequest, request, srVars, index, apps>>,
           indexing' = indexing, ixPc = "notifyEnd" => ixPc' = ixPc \/ m = StatusMsg
    PROVE  AnswerInv'
<1>1. CASE Ending
  BY <1>1, ClosedAnswer DEF AnswerInv, PlacesInv
<1>2. CASE ~Ending
  <2>1. queue \in Seq(Messages) /\ queue' = Append(queue, m)
    BY <1>2 DEF TypeOK, UiTypeOK, Post
  <2>2. /\ \A i \in 1..Len(queue) : i \in 1..Len(queue') /\ queue'[i] = queue[i]
        /\ \A i \in 1..Len(queue') : i \in 1..Len(queue) \/ queue'[i] = m
        /\ Len(queue) + 1 \in 1..Len(queue') /\ queue'[Len(queue) + 1] = m
    BY <2>1, AppendElements
  <2>3. Telling => Telling'
    BY <2>2 DEF Telling
  <2>4. \A r : UpToDate(r) => UpToDate(r)'
    BY <2>3, DataKept
  <2>5. Unanswered' <=> Unanswered
    BY DEF Unanswered, TurnId
  <2>6. \A id : ~IsAnswer(m, id)
    BY DEF IsAnswer
  <2>7. ASSUME NEW r \in Replies, Answered(r)
        PROVE  Answered(r)'
    <3>1. Ordered(queue', shown, r, nextId)
      BY <2>1, <2>6, <2>7, AppendOrdered DEF Answered
    <3>2. Sent(queue, r) => Sent(queue', r)
      BY <2>1, AppendSent
    <3>3. Unanswered => \A i \in 1..Len(queue') : ~IsAnswer(queue'[i], nextId)
      BY <2>2, <2>6, <2>7 DEF Answered
    <3> QED  BY <2>5, <2>7, <3>1, <3>2, <3>3 DEF Answered
  <2>8. OneAnswer'
    BY <2>7 DEF AnswerInv, OneAnswer
  <2>9. DataInv'
    BY <2>2, <2>4 DEF AnswerInv, DataInv
  <2>10. Served => Served'
    BY <2>2, <2>5 DEF Served
  <2>11. ServedInv'
    BY <2>4, <2>10 DEF AnswerInv, ServedInv, Asking
  <2> QED  BY <2>8, <2>9, <2>11 DEF AnswerInv
<1> QED  BY <1>1, <1>2

\* The search thread posts: names when its request is the newest and has no
\* answer yet, or details of the names it has posted.
LEMMA PostReplyAnswer ==
    ASSUME TypeOK, RowsInv, AnswerInv, PlacesInv', NEW m \in Replies, Post(ReplyMsg(m)),
           m.id = srReply.id, UpToDate(srReply) => UpToDate(m),
           \/ srPc = "post" /\ m = srReply /\ srPc' = "details" /\ srReply' = srReply
           \/ srPc = "postDetails" /\ m = Detailed(srReply) /\ srPc' = "acquire",
           UNCHANGED <<uiVars, hasRequest, request, dataVars, ixPc>>
    PROVE  AnswerInv'
<1>1. CASE Ending
  BY <1>1, ClosedAnswer DEF AnswerInv, PlacesInv
<1>2. CASE ~open
  BY <1>2, ClosedAnswer
<1>3. CASE ~Ending /\ open
  <2>n. ReplyMsg(m) \in Messages /\ ReplyMsg(m).reply = m /\ ReplyMsg(m).kind = "reply"
    BY ReplyTyped DEF ReplyMsg
  <2>1. queue \in Seq(Messages) /\ queue' = Append(queue, ReplyMsg(m))
    BY <1>3 DEF TypeOK, UiTypeOK, Post
  <2>2. /\ \A i \in 1..Len(queue) : i \in 1..Len(queue') /\ queue'[i] = queue[i]
        /\ \A i \in 1..Len(queue') : i \in 1..Len(queue) \/ queue'[i] = ReplyMsg(m)
        /\ Len(queue) + 1 \in 1..Len(queue') /\ queue'[Len(queue) + 1] = ReplyMsg(m)
    BY <2>1, <2>n, AppendElements
  <2>3. \A r : UpToDate(r) => UpToDate(r)'
    <3>1. Telling => Telling'
      BY <2>2 DEF Telling
    <3> QED  BY <3>1, DataKept
  <2>4. nextId \in Nat /\ srReply.id \in Nat /\ (hasRequest => request.id \in Nat /\ request.id <= nextId)
    BY AnswerIds, IdsAreNumbers
  <2>5. srReply.id = nextId => ~(hasRequest /\ request.id = nextId)
    <3>1. hasRequest => srReply.id < request.id
      BY DEF AnswerInv, PlacesInv, SlotIsNewer, Turning, TurnId
    <3> QED  BY <2>4, <3>1
  <2>6. Unanswered' <=> hasRequest /\ request.id = nextId
    BY DEF Unanswered, Turning
  <2>7. DataInv'
    <3>1. UpToDate(m)
      BY <1>3 DEF AnswerInv, DataInv, Turning
    <3>2. UpToDate(m)' /\ (srPc' = "details" => UpToDate(srReply)')
      BY <2>3, <3>1, <1>3 DEF UpToDate
    <3>3. \A i \in 1..Len(queue') : queue'[i].kind = "reply" => UpToDate(queue[i].reply)'
      <4> SUFFICES ASSUME NEW i \in 1..Len(queue'), queue'[i].kind = "reply"
                   PROVE  UpToDate(queue[i].reply)'
        OBVIOUS
      <4>1. CASE i \in 1..Len(queue)
        BY <1>3, <2>2, <2>3, <4>1 DEF AnswerInv, DataInv
      <4>2. CASE queue'[i] = ReplyMsg(m)
        BY <2>n, <3>2, <4>2
      <4> QED  BY <2>2, <4>1, <4>2
    <3> QED  BY <3>2, <3>3 DEF DataInv, Turning
  <2>8. PICK r \in Replies : ~r.meta /\ Answered(r)
    BY <1>3 DEF AnswerInv, OneAnswer
  <2>9. CASE srReply.id # nextId
    <3>1. \A id : IsAnswer(ReplyMsg(m), id) => id # nextId
      BY <2>n, <2>9 DEF IsAnswer
    <3>2. Ordered(queue', shown, r, nextId)
      BY <2>1, <2>n, <2>8, <3>1, AppendOrdered DEF Answered
    <3>3. \A i \in 1..Len(queue') : IsAnswer(queue'[i], nextId) => i \in 1..Len(queue) /\ queue'[i] = queue[i]
      BY <2>2, <3>1
    <3>4. Answered(r)'
      BY <2>6, <2>8, <2>9, <3>2, <3>3 DEF Answered, Unanswered
    <3>5. Served => Served'
      BY <2>2, <2>6, <2>9 DEF Served, Unanswered, TurnId
    <3>6. ServedInv'
      BY <2>3, <3>5 DEF AnswerInv, ServedInv, Asking
    <3> QED  BY <2>7, <2>8, <3>4, <3>6 DEF AnswerInv, OneAnswer
  <2>10. CASE srReply.id = nextId /\ srPc = "post"
    <3>1. Unanswered
      BY <2>10 DEF Unanswered, Turning, TurnId
    <3>2. shown.id # nextId /\ \A i \in 1..Len(queue) : ~IsAnswer(queue[i], nextId)
      BY <2>8, <3>1 DEF Answered
    <3>3. m = srReply /\ srReply' = srReply /\ srPc' = "details" /\ ~srReply.meta
      BY <2>10 DEF AnswerInv, PlacesInv, Turning
    <3>4. Ordered(queue', shown, m, nextId)
      <4>1. Ordered(queue, shown, m, nextId)
        BY <3>2 DEF Ordered
      <4> QED  BY <2>1, <2>n, <4>1, AppendOrdered
    <3>5. Sent(queue', m)
      BY <2>1, <2>n, AppendSent
    <3>6. Answered(m)'
      BY <2>5, <2>6, <2>10, <3>2, <3>3, <3>4, <3>5 DEF Answered
    <3>7. Served'
      BY <2>2, <2>n, <2>10, <3>3 DEF Served, IsAnswer
    <3>8. ServedInv'
      BY <2>3, <3>7 DEF AnswerInv, ServedInv, Asking
    <3> QED  BY <2>7, <3>3, <3>6, <3>8 DEF AnswerInv, OneAnswer
  <2>11. CASE srReply.id = nextId /\ srPc = "postDetails"
    <3>1. srReply = r /\ (shown = r \/ Sent(queue, r))
      BY <2>8, <2>11 DEF Answered
    <3>2. m = Detailed(r) /\ srPc' = "acquire"
      BY <2>11, <3>1
    <3>3. Ordered(queue', shown, r, nextId)
      BY <2>1, <2>n, <2>8, <3>1, <3>2, AppendOrdered DEF Answered
    <3>4. Answered(r)'
      BY <2>5, <2>6, <2>8, <2>11, <3>2, <3>3 DEF Answered
    <3>5. Served => Served'
      BY <2>2, <2>6, <2>11 DEF Served, Unanswered, Turning
    <3>6. ServedInv'
      BY <2>3, <3>5 DEF AnswerInv, ServedInv, Asking
    <3> QED  BY <2>7, <2>8, <3>4, <3>6 DEF AnswerInv, OneAnswer
  <2> QED  BY <2>9, <2>10, <2>11
<1> QED  BY <1>1, <1>2, <1>3

\* Where the threads are, after a step that starts no turn and no request.
LEMMA PlacesKept ==
    ASSUME PlacesInv, UNCHANGED <<nextId, srReq, srReply, request>>,
           hasRequest' => hasRequest, srPc' = srPc \/ srPc' \notin Turning,
           shown' = shown \/ (shown'.id <= nextId /\ ~shown'.meta),
           uiPc' = "init" \/ Ending' => ~open',
           ixPc' \in {"notifyEnd", "retry", "check", "poll", "wait"} => ~indexing'
    PROVE  PlacesInv'
<1>1. SlotIsNewer'
  BY DEF PlacesInv, SlotIsNewer, TurnId
<1> QED  BY <1>1 DEF PlacesInv, Turning

\* SearchTextChanged in an open panel.
LEMMA TextChangedAnswer ==
    ASSUME TypeOK, TypeOK', RowsInv, AnswerInv, OnlyFromQueue,
           UNCHANGED <<srVars, indexing, ixPc>>,
           NEW t \in Texts \cup {NoText}, TextChanged(t)
    PROVE  AnswerInv'
<1>1. nextId' = nextId + 1 /\ shown' \in {shown, NoReply}
  BY DEF TextChanged
<1>2. uiPc' \in {"idle", "notify"} /\ ~(uiPc' = "init") /\ ~Ending'
  BY DEF TextChanged, Ending
<1>3. \/ UNCHANGED <<hasRequest, request>> /\ ~(open' /\ text' # NoText)
      \/ hasRequest' /\ request'.id = nextId + 1
  BY DEF TextChanged, FillSlot
<1> QED  BY <1>1, <1>2, <1>3, BumpAnswer

LEMMA AnswerInit == Init => AnswerInv
<1> SUFFICES ASSUME Init PROVE AnswerInv
  OBVIOUS
<1>1. open = FALSE /\ uiPc = "init" /\ srPc = "off" /\ ixPc = "off" /\ nextId = 0 /\ shown = NoReply
      /\ hasRequest = FALSE
  BY DEF Init
<1>2. shown.id <= nextId /\ ~shown.meta
  BY <1>1 DEF NoReply
<1> QED  BY <1>1, <1>2
     DEF AnswerInv, PlacesInv, SlotIsNewer, Turning, OneAnswer, DataInv, ServedInv, Asking

\* The user and the detached threads.
LEMMA UserAnswer ==
    ASSUME TypeOK, TypeOK', RowsInv, AnswerInv, User \/ Outside
    PROVE  AnswerInv'
<1>p. PlacesInv /\ nextId \in Nat
  BY DEF AnswerInv, TypeOK, UiTypeOK
<1>n. NoReply.id <= nextId /\ ~NoReply.meta
  BY <1>p DEF NoReply
<1>1. CASE Start
  <2>1. ~open' /\ srPc' \notin Turning /\ ixPc' = "loop"
    BY <1>1, <1>p DEF Start, PlacesInv, Turning
  <2>2. PlacesInv'
    BY <1>1, <1>p, <2>1, PlacesKept DEF Start
  <2> QED  BY <2>1, <2>2, ClosedAnswer
<1>2. CASE OpenPanel
  <2>1. uiPc = "idle" /\ ~Current
    BY <1>2 DEF OpenPanel, Current, Ending
  <2>2. uiPc' \in {"requery", "signalActive"} /\ ~Ending' /\ uiPc' # "init"
    BY <1>2 DEF OpenPanel, Ending
  <2>3. PlacesInv'
    <3>1. ixPc' \in {"notifyEnd", "retry", "check", "poll", "wait"} => ~indexing'
      BY <1>2, <1>p DEF OpenPanel, PlacesInv
    <3> QED  BY <1>2, <1>p, <1>n, <2>2, <3>1, PlacesKept DEF OpenPanel
  <2>4. ~Asking'
    BY <2>2 DEF Asking
  <2> QED  BY <1>2, <2>1, <2>3, <2>4, SameQueue, StaleAnswer DEF OpenPanel
<1>3. CASE ClosePanel
  <2>1. uiPc' = "idle" /\ ~Ending' /\ ~open'
    BY <1>3 DEF ClosePanel, Ending
  <2> QED  BY <1>3, <2>1, SameQueue, BumpAnswer DEF ClosePanel, BumpOnClose
<1>4. CASE StopCalled
  <2>1. ~open'
    BY <1>4 DEF StopCalled
  <2>2. ixPc' \in {"notifyEnd", "retry", "check", "poll", "wait"} => ~indexing'
    BY <1>4, <1>p DEF StopCalled, PlacesInv
  <2>3. PlacesInv'
    BY <1>4, <1>p, <1>n, <2>1, <2>2, PlacesKept DEF StopCalled
  <2> QED  BY <2>1, <2>3, ClosedAnswer
<1>5. ASSUME NEW t \in Texts \cup {NoText}, Type(t)
      PROVE  AnswerInv'
  BY <1>5, SameQueue, TextChangedAnswer DEF Type
<1>6. CASE AppsLoaded \/ AccessGranted
  <2>1. UNCHANGED <<uiVars, hasRequest, request, srVars, index, apps, indexing, ixPc>>
    BY <1>6 DEF AppsLoaded, AccessGranted
  <2>2. PlacesInv'
    <3>1. UNCHANGED Ending
      BY <2>1 DEF Ending
    <3> QED  BY <1>p, <2>1, <3>1, PlacesKept DEF PlacesInv
  <2>3. AppsMsg.kind # "reply" /\ AccessMsg.kind # "reply"
    BY DEF AppsMsg, AccessMsg
  <2> QED  BY <1>6, <2>1, <2>2, <2>3, ValuesTyped, PostAnswer DEF AppsLoaded, AccessGranted
<1> QED  BY <1>1, <1>2, <1>3, <1>4, <1>5, <1>6 DEF User, Outside

\* The handlers of the dock window.
LEMMA UiAnswer ==
    ASSUME TypeOK, TypeOK', RowsInv, AnswerInv, Ui
    PROVE  AnswerInv'
<1>p. PlacesInv /\ nextId \in Nat /\ queue \in Seq(Messages)
  BY DEF AnswerInv, TypeOK, UiTypeOK
<1>n. NoReply.id <= nextId /\ ~NoReply.meta
  BY <1>p DEF NoReply
<1>1. CASE SignalActive \/ SignalRestart \/ (Requery /\ text = NoText)
  <2>1. /\ UNCHANGED <<open, text, nextId, shown, queue, hasRequest, request, srVars, index, apps,
                       indexing, ixPc>>
        /\ uiPc' \in {"requery", "idle"}
    BY <1>1 DEF SignalActive, SignalRestart, Requery
  <2>2. PlacesInv'
    BY <1>p, <2>1, PlacesKept DEF PlacesInv, Ending
  <2>3. Asking' => Asking
    BY <1>1, <2>1 DEF Asking, SignalActive, SignalRestart, Requery
  <2>4. \A r : UpToDate(r) => UpToDate(r)'
    BY <2>1, DataKept DEF Telling
  <2> QED  BY <2>1, <2>2, <2>3, <2>4, QuietAnswer
<1>2. CASE Requery /\ text # NoText
  BY <1>2, SameQueue, TextChangedAnswer DEF Requery, TypeOK, UiTypeOK
<1>3. CASE NotifyOne
  <2>1. /\ UNCHANGED <<open, text, nextId, shown, queue, hasRequest, request, srReq, srReply, index,
                       apps, indexing, ixPc>>
        /\ uiPc' = "idle"
        /\ srPc' = srPc \/ (srPc \notin Turning /\ srPc' \notin Turning)
    BY <1>3 DEF NotifyOne, Awake, Turning
  <2>2. PlacesInv'
    BY <1>p, <2>1, PlacesKept DEF PlacesInv, Ending
  <2>3. Asking' => Asking
    BY <1>3, <2>1 DEF Asking, NotifyOne
  <2>4. \A r : UpToDate(r) => UpToDate(r)'
    BY <2>1, DataKept DEF Telling
  <2> QED  BY <2>1, <2>2, <2>3, <2>4, QuietAnswer
<1>4. CASE OnStatus
  <2>1. queue # <<>> /\ queue' = Tail(queue) /\ OnlyFromQueue
    BY <1>4, TailFromQueue DEF OnStatus, Receive
  <2>2. CASE open
    BY <1>4, <2>1, <2>2, TextChangedAnswer DEF OnStatus, TypeOK, UiTypeOK
  <2>3. CASE ~open
    <3>1. UNCHANGED <<uiPc, open, text, nextId, shown, hasRequest, request, srVars, indexing, ixPc>>
      BY <1>4, <2>3 DEF OnStatus
    <3>2. PlacesInv'
      BY <1>p, <3>1, PlacesKept DEF PlacesInv, Ending
    <3> QED  BY <2>3, <3>1, <3>2, ClosedAnswer
  <2> QED  BY <2>2, <2>3
<1>5. CASE OnApps
  <2>1. queue # <<>> /\ queue' = Tail(queue) /\ OnlyFromQueue /\ uiPc = "idle"
    BY <1>5, TailFromQueue DEF OnApps, Receive
  <2>2. CASE open /\ text # NoText
    BY <1>5, <2>1, <2>2, TextChangedAnswer DEF OnApps, TypeOK, UiTypeOK
  <2>3. CASE ~(open /\ text # NoText)
    <3>1. UNCHANGED <<uiPc, open, text, nextId, shown, hasRequest, request, srVars, indexing, ixPc>>
      BY <1>5, <2>3 DEF OnApps
    <3>2. PlacesInv'
      BY <1>p, <3>1, PlacesKept DEF PlacesInv, Ending
    <3>3. ~Current /\ ~Asking'
      BY <2>1, <2>3, <3>1 DEF Current, Ending, Asking
    <3> QED  BY <2>1, <3>1, <3>2, <3>3, StaleAnswer
  <2> QED  BY <2>2, <2>3
<1>6. CASE OnReply
  <2>1. /\ queue # <<>> /\ queue' = Tail(queue) /\ Head(queue).kind = "reply"
        /\ Head(queue) \in Messages
        /\ UNCHANGED <<uiPc, open, text, nextId, hasRequest, request, srVars, index, apps, indexing,
                       ixPc>>
        /\ shown' = IF open /\ Head(queue).reply.id = nextId /\ ~Head(queue).reply.meta
                    THEN Head(queue).reply ELSE shown
    BY <1>6, <1>p DEF OnReply, Receive, Accepts
  <2>2. PlacesInv'
    BY <1>p, <2>1, PlacesKept DEF PlacesInv, Ending
  <2>3. Head(queue) # StatusMsg
    BY <2>1 DEF StatusMsg
  <2>4. CASE ~open
    BY <2>1, <2>2, <2>4, ClosedAnswer
  <2>5. CASE open /\ IsAnswer(Head(queue), nextId)
    BY <2>1, <2>2, <2>5, TakeAnswer DEF IsAnswer
  <2>6. CASE ~IsAnswer(Head(queue), nextId)
    BY <2>1, <2>2, <2>3, <2>6, PopAnswer DEF IsAnswer, Asking
  <2> QED  BY <2>4, <2>5, <2>6
<1>7. CASE OnAccess
  <2>1. /\ queue # <<>> /\ queue' = Tail(queue) /\ Head(queue).kind = "access"
        /\ UNCHANGED <<open, text, nextId, shown, hasRequest, request, srVars, index, apps, indexing,
                       ixPc>>
        /\ uiPc = "idle" /\ uiPc' = "signalRestart"
    BY <1>7 DEF OnAccess, Receive
  <2>2. PlacesInv'
    BY <1>p, <2>1, PlacesKept DEF PlacesInv, Ending
  <2>3. Head(queue) # StatusMsg /\ ~IsAnswer(Head(queue), nextId)
    BY <2>1 DEF StatusMsg, IsAnswer
  <2>4. Asking' => Asking
    BY <2>1 DEF Asking
  <2> QED  BY <2>1, <2>2, <2>3, <2>4, PopAnswer
<1>8. CASE StopStore \/ StopSignal \/ StopLock \/ StopNotify \/ JoinIndex \/ JoinSearch
  <2>1. /\ UNCHANGED <<open, nextId, shown, request, srReq, srReply, indexing, ixPc>>
        /\ hasRequest' => hasRequest
        /\ srPc' = srPc \/ srPc' \notin Turning
        /\ Ending
    BY <1>8 DEF StopStore, StopSignal, StopLock, LockedByStop, StopNotify, JoinIndex, JoinSearch,
                Awake, Turning, Ending
  <2>2. ~open'
    BY <1>p, <2>1 DEF PlacesInv
  <2>3. PlacesInv'
    BY <1>p, <2>1, <2>2, PlacesKept DEF PlacesInv
  <2> QED  BY <2>2, <2>3, ClosedAnswer
<1> QED  BY <1>1, <1>2, <1>3, <1>4, <1>5, <1>6, <1>7, <1>8 DEF Ui

\* The index thread: what it publishes will be told.
LEMMA IndexAnswer ==
    ASSUME TypeOK, TypeOK', RowsInv, AnswerInv, IndexThread
    PROVE  AnswerInv'
<1>p. PlacesInv
  BY DEF AnswerInv
<1>u. UNCHANGED <<uiVars, reqVars, srVars, apps>>
  BY DEF IndexThread, IxLoop, IxNotifyBegin, IxClear, IxBuild, IxNotifyEnd, IxPublish, IxRetry,
         IxCheck, IxWait, IxPoll
<1>a. UNCHANGED <<Asking, Ending>>
  BY <1>u DEF Asking, Ending
<1>1. CASE IxLoop \/ IxClear \/ IxBuild \/ IxRetry \/ IxCheck \/ IxWait
  <2>1. /\ UNCHANGED <<queue, index>> /\ (indexing => indexing') /\ ixPc # "notifyEnd"
        /\ ixPc' \in {"retry", "check", "poll", "wait", "notifyEnd"} =>
              indexing' = indexing /\ ixPc \in {"retry", "check", "poll", "wait"}
    BY <1>1 DEF IxLoop, IxClear, IxBuild, IxRetry, IxCheck, IxWait, IxStep, FollowsOn
  <2>2. PlacesInv'
    BY <1>p, <1>u, <1>a, <2>1, PlacesKept DEF PlacesInv
  <2>3. \A r : UpToDate(r) => UpToDate(r)'
    BY <1>u, <2>1, DataKept DEF Telling
  <2> QED  BY <1>u, <1>a, <2>1, <2>2, <2>3, QuietAnswer
<1>2. CASE IxNotifyBegin \/ IxNotifyEnd
  <2>1. /\ Post(StatusMsg) /\ UNCHANGED <<index, indexing>>
        /\ ixPc = "notifyEnd" \/ ixPc' = "clear"
    BY <1>2 DEF IxNotifyBegin, IxNotifyEnd, PublishedMsg, IxStep
  <2>2. PlacesInv'
    BY <1>p, <1>u, <1>a, <2>1, PlacesKept DEF PlacesInv
  <2>3. StatusMsg \in Messages /\ StatusMsg.kind # "reply"
    BY ValuesTyped DEF StatusMsg
  <2> QED  BY <1>u, <2>1, <2>2, <2>3, PostAnswer
<1>3. ASSUME NEW built \in BOOLEAN, IxPublish(built)
      PROVE  AnswerInv'
  <2>1. CASE stop
    <3>1. UNCHANGED <<queue, index, indexing>> /\ ixPc = "publish" /\ ixPc' = "done"
      BY <1>3, <2>1 DEF IxPublish
    <3>2. PlacesInv'
      BY <1>p, <1>u, <1>a, <3>1, PlacesKept DEF PlacesInv
    <3>3. \A r : UpToDate(r) => UpToDate(r)'
      BY <1>u, <3>1, DataKept DEF Telling
    <3> QED  BY <1>u, <1>a, <3>1, <3>2, <3>3, QuietAnswer
  <2>2. CASE ~stop
    <3>1. UNCHANGED queue /\ ixPc' = "notifyEnd" /\ ~indexing'
      BY <1>3, <2>2 DEF IxPublish
    <3>2. PlacesInv'
      BY <1>p, <1>u, <1>a, <3>1, PlacesKept DEF PlacesInv
    <3>3. \A r : UpToDate(r) => UpToDate(r)'
      BY <1>u, <3>1 DEF UpToDate, Telling
    <3> QED  BY <1>u, <1>a, <3>1, <3>2, <3>3, QuietAnswer
  <2> QED  BY <2>1, <2>2
<1>4. ASSUME NEW n \in {0, 1}, NEW healthy \in BOOLEAN, IxPoll(n, healthy)
      PROVE  AnswerInv'
  <2>1. index'.build = index.build
    BY <1>4 DEF IxPoll, TypeOK, SharedTypeOK, Indexes
  <2>2. UNCHANGED <<queue, indexing>> /\ ixPc = "poll" /\ ixPc' \in {"wait", "loop"}
    BY <1>4 DEF IxPoll
  <2>3. PlacesInv'
    BY <1>p, <1>u, <1>a, <2>2, PlacesKept DEF PlacesInv
  <2>4. \A r : UpToDate(r) => UpToDate(r)'
    BY <1>u, <2>1, <2>2, DataKept DEF Telling
  <2> QED  BY <1>u, <1>a, <2>2, <2>3, <2>4, QuietAnswer
<1> QED  BY <1>1, <1>2, <1>3, <1>4 DEF IndexThread

\* A step of the turn that posts nothing and drops no newest request keeps
\* what is answered.
LEMMA TurnAnswer ==
    ASSUME TypeOK, AnswerInv, PlacesInv', UNCHANGED <<uiVars, queue, dataVars, ixPc>>,
           Unanswered' <=> Unanswered,
           srPc' \in {"details", "postDetails"} =>
              srPc \in {"details", "postDetails"} /\ srReply' = srReply,
           srPc' \in Turning \ {"search"} => UpToDate(srReply)' \/ ~open
    PROVE  AnswerInv'
<1>1. \A r : UpToDate(r) => UpToDate(r)'
  BY DataKept DEF Telling
<1>2. \A r : Answered(r) => Answered(r)'
  BY DEF Answered
<1>3. OneAnswer'
  BY <1>2 DEF AnswerInv, OneAnswer
<1>4. DataInv'
  BY <1>1 DEF AnswerInv, DataInv
<1>5. Served => Served'
  BY DEF Served
<1>6. ServedInv'
  BY <1>1, <1>5 DEF AnswerInv, ServedInv, Asking
<1> QED  BY <1>3, <1>4, <1>6 DEF AnswerInv

\* The search thread.
LEMMA SearchAnswer ==
    ASSUME TypeOK, TypeOK', RowsInv, AnswerInv, SearchThread
    PROVE  AnswerInv'
<1>p. PlacesInv
  BY DEF AnswerInv
<1>u. UNCHANGED <<uiVars, dataVars, ixPc>>
  BY DEF SearchThread, SrAcquire, SrCheck, SrSleep, SrSearch, SrStatus, SrSuperseded, SrPost,
         SrDetails, SrPostDetails
<1>a. UNCHANGED <<Asking, Ending>>
  BY <1>u DEF Asking, Ending
<1>k. \A r : UpToDate(r) /\ UNCHANGED queue => UpToDate(r)'
  BY <1>u DEF UpToDate, Telling
<1>i. /\ nextId \in Nat /\ request.id \in Nat /\ TurnId \in Nat
      /\ hasRequest => request.id <= nextId
  BY AnswerIds
<1>1. CASE SrAcquire \/ SrSleep \/ (SrCheck /\ (stop \/ ~hasRequest))
  <2>1. /\ UNCHANGED <<queue, srReq, srReply, hasRequest, request>>
        /\ srPc \notin Turning /\ srPc' \notin Turning
    BY <1>1 DEF SrAcquire, SrSleep, SrCheck, SrStep, Turning
  <2>2. PlacesInv'
    BY <1>p, <1>u, <1>a, <2>1, PlacesKept DEF PlacesInv
  <2> QED  BY <1>u, <1>a, <1>k, <2>1, <2>2, QuietAnswer
<1>2. CASE SrCheck /\ ~(stop \/ ~hasRequest)
  <2>1. /\ hasRequest /\ ~hasRequest' /\ srReq' = request /\ srPc = "check" /\ srPc' = "search"
        /\ UNCHANGED queue
    BY <1>2 DEF SrCheck
  <2>2. Unanswered' <=> Unanswered
    BY <1>u, <2>1 DEF Unanswered, Turning, TurnId
  <2>3. PlacesInv'
    BY <1>p, <1>u, <1>a, <2>1 DEF PlacesInv, SlotIsNewer
  <2> QED  BY <1>u, <2>1, <2>2, <2>3, TurnAnswer
<1>3. ASSUME NEW complete \in Completes, SrSearch(complete)
      PROVE  AnswerInv'
  <2>1. /\ srPc = "search" /\ srPc' = "status" /\ UNCHANGED <<queue, hasRequest, request>>
        /\ srReply'.id = srReq.id /\ ~srReply'.meta /\ srReply'.apps = apps
        /\ srReply'.build = index.build /\ ~srReply'.indexing
    BY <1>3 DEF SrSearch, SrStep
  <2>2. TurnId' = TurnId
    BY <2>1 DEF TurnId
  <2>3. Unanswered' <=> Unanswered
    BY <2>1, <2>2, <1>u DEF Unanswered, Turning
  <2>4. SlotIsNewer'
    BY <1>p, <2>1, <2>2 DEF PlacesInv, SlotIsNewer, Turning
  <2>5. PlacesInv'
    BY <1>p, <1>u, <1>a, <2>1, <2>4 DEF PlacesInv
  <2>6. UpToDate(srReply)'
    BY <1>u, <2>1 DEF UpToDate
  <2> QED  BY <1>u, <2>1, <2>3, <2>5, <2>6, TurnAnswer
<1>4. CASE SrStatus
  <2>1. /\ srPc = "status" /\ srPc' = "superseded" /\ UNCHANGED <<queue, hasRequest, request>>
        /\ srReply'.id = srReply.id /\ srReply'.meta = srReply.meta
        /\ srReply'.apps = srReply.apps /\ srReply'.build = srReply.build
        /\ srReply'.indexing = indexing
    BY <1>4 DEF SrStatus, SrStep, TypeOK, ThreadTypeOK, Replies
  <2>2. TurnId' = TurnId
    BY <2>1 DEF TurnId
  <2>3. Unanswered' <=> Unanswered
    BY <2>1, <2>2, <1>u DEF Unanswered, Turning
  <2>4. SlotIsNewer'
    BY <1>p, <2>1, <2>2 DEF PlacesInv, SlotIsNewer, Turning
  <2>5. PlacesInv'
    BY <1>p, <1>u, <1>a, <2>1, <2>4 DEF PlacesInv, Turning
  <2>6. UpToDate(srReply) => UpToDate(srReply)'
    BY <1>u, <2>1 DEF UpToDate, Telling
  <2>7. open => UpToDate(srReply)
    BY <2>1 DEF AnswerInv, DataInv, Turning
  <2> QED  BY <1>u, <2>1, <2>3, <2>5, <2>6, <2>7, TurnAnswer
<1>5. CASE (SrSuperseded \/ SrDetails) /\ srPc' = "acquire"
  <2>1. /\ UNCHANGED <<queue, hasRequest, request>> /\ hasRequest
        /\ srPc \in {"superseded", "details"} /\ srPc' = "acquire"
    BY <1>5 DEF SrSuperseded, SrDetails
  <2>2. TurnId # nextId
    <3>1. TurnId < request.id
      BY <1>p, <2>1 DEF PlacesInv, SlotIsNewer, Turning
    <3> QED  BY <1>i, <2>1, <3>1
  <2>3. Unanswered' <=> Unanswered
    BY <1>u, <2>1, <2>2 DEF Unanswered, Turning
  <2>4. PlacesInv'
    BY <1>p, <1>u, <1>a, <2>1 DEF PlacesInv, SlotIsNewer, Turning
  <2> QED  BY <1>u, <2>1, <2>3, <2>4, TurnAnswer DEF Turning
<1>6. CASE (SrSuperseded \/ SrDetails) /\ srPc' # "acquire"
  <2>1. /\ UNCHANGED <<queue, hasRequest, request, srReq, srReply>>
        /\ \/ srPc = "superseded" /\ srPc' = "post"
           \/ srPc = "details" /\ srPc' = "postDetails"
    BY <1>6 DEF SrSuperseded, SrDetails, Again
  <2>2. Unanswered' <=> Unanswered
    BY <1>u, <2>1 DEF Unanswered, Turning, TurnId
  <2>3. PlacesInv'
    BY <1>p, <1>u, <1>a, <2>1 DEF PlacesInv, SlotIsNewer, Turning, TurnId
  <2>4. open => UpToDate(srReply)
    BY <2>1 DEF AnswerInv, DataInv, Turning
  <2>5. UpToDate(srReply) => UpToDate(srReply)'
    BY <1>u, <2>1 DEF UpToDate, Telling
  <2> QED  BY <1>u, <2>1, <2>2, <2>3, <2>4, <2>5, TurnAnswer
<1>7. CASE SrPost
  <2>1. /\ srPc = "post" /\ srPc' = "details" /\ UNCHANGED <<hasRequest, request, srReq, srReply>>
        /\ Post(ReplyMsg(srReply)) /\ srReply \in Replies
    BY <1>7 DEF SrPost, SrStep, TypeOK, ThreadTypeOK
  <2>2. PlacesInv'
    BY <1>p, <1>u, <1>a, <2>1 DEF PlacesInv, SlotIsNewer, Turning, TurnId
  <2> QED  BY <1>u, <2>1, <2>2, PostReplyAnswer
<1>8. CASE SrPostDetails
  <2>1. /\ srPc = "postDetails" /\ srPc' = "acquire" /\ UNCHANGED <<hasRequest, request>>
        /\ Post(ReplyMsg(Detailed(srReply))) /\ srReply \in Replies
    BY <1>8 DEF SrPostDetails, Again, Detailed, TypeOK, ThreadTypeOK
  <2>2. /\ Detailed(srReply) \in Replies /\ Detailed(srReply).id = srReply.id
        /\ Detailed(srReply).apps = srReply.apps /\ Detailed(srReply).build = srReply.build
        /\ Detailed(srReply).indexing = srReply.indexing
    BY <2>1 DEF Detailed, Replies
  <2>3. PlacesInv'
    BY <1>p, <1>u, <1>a, <2>1 DEF PlacesInv, SlotIsNewer, Turning
  <2>4. UpToDate(srReply) => UpToDate(Detailed(srReply))
    BY <2>2 DEF UpToDate
  <2> QED  BY <1>u, <2>1, <2>2, <2>3, <2>4, PostReplyAnswer
<1> QED  BY <1>1, <1>2, <1>3, <1>4, <1>5, <1>6, <1>7, <1>8 DEF SearchThread

\* Every step keeps AnswerInv.
LEMMA AnswerStep ==
    TypeOK /\ TypeOK' /\ RowsInv /\ AnswerInv /\ [Next]_vars => AnswerInv'
<1> SUFFICES ASSUME TypeOK, TypeOK', RowsInv, AnswerInv, [Next]_vars
             PROVE  AnswerInv'
  OBVIOUS
<1>1. CASE UNCHANGED vars
  <2>1. UNCHANGED <<Asking, Ending>>
    BY <1>1 DEF Asking, Ending
  <2>2. PlacesInv'
    BY <1>1, <2>1, PlacesKept DEF AnswerInv, PlacesInv
  <2>3. \A r : UpToDate(r) => UpToDate(r)'
    BY <1>1, DataKept DEF Telling
  <2> QED  BY <1>1, <2>1, <2>2, <2>3, QuietAnswer
<1> QED  BY <1>1, UserAnswer, UiAnswer, IndexAnswer, SearchAnswer DEF Next, Ended

\* The invariant holds of every behaviour.
LEMMA AnswerHolds == Spec => [](TypeOK /\ AnswerInv)
<1>1. Spec => []RowsInv
  BY RowsInit, RowsStep, TypeCorrect, PTL DEF Spec
<1> QED  BY <1>1, AnswerInit, AnswerStep, TypeCorrect, PTL DEF Spec

\* When everybody has come to rest an open panel with text shows the answer to
\* its newest request, of the index, the catalogue and the status of now:
\* every publication is told after it, and what is told asks again.
THEOREM RestingPanelFresh == Spec => []RestingPanelIsFresh
<1>1. ASSUME TypeOK, AnswerInv, AtRest, open, text # NoText
      PROVE  /\ shown.id = nextId /\ shown.build = index.build
             /\ shown.apps = apps /\ ~shown.indexing
  <2>1. queue = <<>> /\ Len(queue) = 0 /\ Asking /\ ~Unanswered
    BY <1>1 DEF AtRest, Asking, Unanswered, Turning
  <2>2. shown.id = nextId /\ UpToDate(shown)
    BY <1>1, <2>1 DEF AnswerInv, ServedInv, Served
  <2>3. ~Telling /\ ~indexing
    BY <1>1, <2>1 DEF AnswerInv, PlacesInv, Telling, AtRest
  <2> QED  BY <2>2, <2>3 DEF UpToDate
<1>2. TypeOK /\ AnswerInv => RestingPanelIsFresh
  BY <1>1 DEF RestingPanelIsFresh
<1> QED  BY <1>2, AnswerHolds, PTL

\* When the second reply of a request is accepted, the rows displayed are those
\* of its first: one search answers a request, and its names come first.
THEOREM DetailsMatch == Spec => []DetailsMatchRows
<1>1. ASSUME TypeOK, AnswerInv, AcceptsNext, NextReply.meta
      PROVE  shown = [NextReply EXCEPT !.meta = FALSE]
  <2>1. /\ open /\ queue \in Seq(Messages) /\ 1 \in 1..Len(queue) /\ queue[1] = Head(queue)
        /\ IsAnswer(queue[1], nextId) /\ queue[1].reply = NextReply
    BY <1>1 DEF AcceptsNext, Accepts, NextReply, IsAnswer, TypeOK, UiTypeOK
  <2>2. PICK r \in Replies : ~r.meta /\ Answered(r)
    BY <1>1, <2>1 DEF AnswerInv, OneAnswer
  <2>3. \/ NextReply = r
        \/ /\ NextReply = Detailed(r)
           /\ shown = r \/ \E j \in 1..Len(queue) : j < 1 /\ queue[j] = ReplyMsg(r)
    BY <2>1, <2>2 DEF Answered, Ordered
  <2>4. NextReply = Detailed(r) /\ shown = r
    BY <1>1, <2>1, <2>2, <2>3
  <2> QED  BY <2>2, <2>4 DEF Detailed, Replies
<1>2. TypeOK /\ AnswerInv => DetailsMatchRows
  BY <1>1 DEF DetailsMatchRows
<1> QED  BY <1>2, AnswerHolds, PTL
=============================================================================
