--------------------------- MODULE BackgroundProofs ---------------------------
(***************************************************************************)
(* What runs beside the message loop, in the composition that TLC checks:  *)
(* each part's invariant holds whatever the bounds, whichever part steps.  *)
(***************************************************************************)
EXTENDS MCBackground, SequenceTheorems, WellFoundedInduction, TLAPS

-----------------------------------------------------------------------------
(***************************************************************************)
(* StaWorker implements JobQueue, for every bound on the jobs.             *)
(***************************************************************************)

USE DEF vars, ownerVars

\* The job being run, the jobs queued and the jobs run are all those posted;
\* a thread that has not begun, or has ended, leaves none behind.
Counted ==
    /\ \A i \in DOMAIN jobs : jobs[i] # 0
    /\ Len(ran) + Len(Waiting) = posted
    /\ main = "none" => jobs = <<>>
    /\ main = "done" => jobs = <<>> /\ stopping
    /\ created <=> main # "none"
    /\ owner \in {"signal", "join", "stopped"} => stopping
    /\ owner = "stopped" => main \in {"none", "done"}

Inv == TypeOK /\ Counted

\* A queue with one job more, and with one less.
LEMMA QueueFacts ==
    ASSUME NEW q \in Seq(Nat), NEW n \in Nat
    PROVE  /\ Append(q, n) \in Seq(Nat) /\ Len(Append(q, n)) = Len(q) + 1
           /\ <<n>> \o q \in Seq(Nat) /\ Len(<<n>> \o q) = Len(q) + 1
           /\ <<n>> \o q # <<>> /\ Head(<<n>> \o q) = n /\ Tail(<<n>> \o q) = q
           /\ \A k \in Nat : <<n>> \o Append(q, k) = Append(<<n>> \o q, k)
           /\ q # <<>> => Head(q) \in Nat /\ Tail(q) \in Seq(Nat) /\ <<Head(q)>> \o Tail(q) = q
OBVIOUS

LEMMA WaitingTyped == TypeOK => Waiting \in Seq(Nat)
  BY QueueFacts DEF TypeOK, Waiting

LEMMA InitInv == Init => Inv
<1> SUFFICES ASSUME Init PROVE Inv
  OBVIOUS
<1> USE DEF Init
<1>1. TypeOK
  <2>1. main # "run" /\ running = 0
    OBVIOUS
  <2>2. main = "run" <=> running # 0
    BY Zenon, <2>1
  <2>3. jobs \in Seq(Nat) /\ ran \in Seq(Nat)
    OBVIOUS
  <2>4. running \in Nat /\ posted \in Nat /\ alone \in Nat
    OBVIOUS
  <2>5. stopping \in BOOLEAN /\ created \in BOOLEAN /\ wake \in BOOLEAN
    BY Zenon
  <2>6. /\ owner \in {"idle", "posted", "signal", "join", "stopped"}
        /\ main \in {"none", "loop", "run", "sleep", "done"}
    BY Zenon
  <2> QED  BY <2>2, <2>3, <2>4, <2>5, <2>6 DEF TypeOK
<1>2. Waiting = <<>> /\ Len(ran) + Len(Waiting) = posted
  BY DEF Waiting
<1>3. /\ created = FALSE
      /\ main = "none"
      /\ owner = "idle"
      /\ DOMAIN jobs = {}
  OBVIOUS
<1>4. created <=> main # "none"
  BY Zenon, <1>3
<1> QED  BY <1>1, <1>2, <1>3, <1>4 DEF Inv, Counted

\* What is not of the queue, the thread and the owner's point keeps Inv.
LEMMA OwnerInv ==
    ASSUME Inv, Owner
    PROVE  Inv'
<1> USE DEF Inv, TypeOK, Counted
<1>1. CASE Enqueue
  <2>1. posted' \in Nat /\ posted' # 0 /\ jobs' = Append(jobs, posted')
    BY <1>1 DEF Enqueue
  <2>2. jobs' \in Seq(Nat) /\ Len(jobs') = Len(jobs) + 1
    BY <2>1, QueueFacts
  <2>3. \A i \in DOMAIN jobs' : jobs'[i] # 0
    BY <2>1, <2>2
  <2>4. Waiting' = Append(Waiting, posted')
    BY <1>1, <2>1, QueueFacts DEF Waiting, Enqueue
  <2>5. Len(Waiting') = Len(Waiting) + 1
    BY <2>1, <2>4, WaitingTyped, QueueFacts
  <2>6. Len(ran') + Len(Waiting') = posted'
    <3>1. Len(ran) \in Nat /\ Len(Waiting) \in Nat
      BY WaitingTyped
    <3>2. ran' = ran /\ posted' = posted + 1
      BY <1>1 DEF Enqueue
    <3> QED  BY <2>5, <3>1, <3>2
  <2> QED  BY <1>1, <2>1, <2>2, <2>3, <2>6 DEF Enqueue
<1>2. CASE RunAlone
  BY <1>2 DEF RunAlone, Waiting
<1>3. CASE PostSignals
  BY <1>3 DEF PostSignals, SignalPost, Waiting
<1>4. CASE BeginStop
  BY <1>4 DEF BeginStop, Waiting
<1>5. CASE StopSignals
  BY <1>5 DEF StopSignals, StopSignal, Waiting
<1>6. CASE Join
  BY <1>6 DEF Join, Waiting
<1>7. CASE Dropped
  BY <1>7 DEF Dropped, Waiting
<1> QED  BY <1>1, <1>2, <1>3, <1>4, <1>5, <1>6, <1>7 DEF Owner

\* Taking a job leaves the jobs that wait as they were.
LEMMA TakeWaits ==
    ASSUME Inv, Take
    PROVE  Waiting' = Waiting
<1> USE DEF Inv, TypeOK, Counted
<1>1. CASE jobs # <<>>
  <2>1. running = 0 /\ running' = Head(jobs) /\ jobs' = Tail(jobs)
    BY <1>1 DEF Take, Ends
  <2>2. Head(jobs) # 0
    BY <1>1
  <2> QED  BY <1>1, <2>1, <2>2, QueueFacts DEF Waiting
<1>2. CASE jobs = <<>>
  BY <1>2 DEF Take, Waiting
<1> QED  BY <1>1, <1>2

LEMMA MainInv ==
    ASSUME Inv, Main \/ Pumps
    PROVE  Inv'
<1> USE DEF Inv, TypeOK, Counted
<1>1. CASE Take
  <2>1. Waiting' = Waiting
    BY <1>1, TakeWaits
  <2>2. CASE jobs # <<>>
    <3>1. running' \in Nat /\ running' # 0 /\ main' = "run" /\ jobs' = Tail(jobs)
      BY <1>1, <2>2 DEF Take, Ends
    <3>2. jobs' \in Seq(Nat) /\ \A i \in DOMAIN jobs' : jobs'[i] # 0
      BY <2>2, <3>1
    <3> QED  BY <1>1, <2>1, <2>2, <3>1, <3>2 DEF Take
  <2>3. CASE jobs = <<>>
    BY <1>1, <2>1, <2>3 DEF Take, Ends
  <2> QED  BY <2>2, <2>3
<1>2. CASE Run
  <2>1. Waiting' = jobs /\ Len(Waiting) = Len(jobs) + 1
    BY <1>2, QueueFacts DEF Run, Waiting
  <2>2. ran' \in Seq(Nat) /\ Len(ran') = Len(ran) + 1
    BY <1>2, QueueFacts DEF Run
  <2> QED  BY <1>2, <2>1, <2>2 DEF Run
<1>3. CASE Wakes \/ Pumps
  BY <1>3 DEF Wakes, Pumps, Waiting
<1> QED  BY <1>1, <1>2, <1>3 DEF Main

LEMMA NextInv == Inv /\ [Next]_vars => Inv'
<1>1. ASSUME Inv, UNCHANGED vars PROVE Inv'
  BY <1>1 DEF Inv, TypeOK, Counted, Waiting
<1> QED  BY <1>1, OwnerInv, MainInv DEF Next

\* Every step is a step of the abstract queue, or leaves it as it is.
LEMMA StepImplements ==
    ASSUME Inv, [Next]_vars
    PROVE  [Abstract!Next]_(Abstract!queueVars)
<1> USE DEF Inv, TypeOK, Counted, Abstract!queueVars
<1>1. CASE Enqueue
  <2>1. Waiting' = Append(Waiting, posted') /\ posted' = posted + 1
    BY <1>1, QueueFacts DEF Waiting, Enqueue
  <2>2. Abstract!Accept
    BY <1>1, <2>1 DEF Abstract!Accept, Phase, Enqueue
  <2> QED  BY <2>2 DEF Abstract!Next
<1>2. CASE RunAlone \/ PostSignals \/ StopSignals \/ Dropped
  BY SMTT(30), <1>2 DEF RunAlone, PostSignals, StopSignals, Dropped, Waiting, Phase
<1>3. CASE BeginStop
  BY <1>3 DEF BeginStop, Waiting, Phase, Abstract!Next, Abstract!Close
<1>4. CASE Join
  BY <1>4 DEF Join, Waiting, Phase, Abstract!Next, Abstract!Closed
<1>5. CASE Take
  BY <1>5, TakeWaits DEF Take, Phase
<1>6. CASE Run
  <2>1. Waiting # <<>> /\ Waiting' = Tail(Waiting) /\ running = Head(Waiting)
    BY <1>6, QueueFacts DEF Run, Waiting
  <2> QED  BY <1>6, <2>1 DEF Run, Phase, Abstract!Next, Abstract!Finish
<1>7. CASE Wakes \/ Pumps \/ UNCHANGED vars
  BY <1>7 DEF Wakes, Pumps, Waiting, Phase
<1> QED  BY <1>1, <1>2, <1>3, <1>4, <1>5, <1>6, <1>7 DEF Next, Owner, Main

\* The types of the queue, the two threads and the event.
THEOREM TypeCorrect == Spec => []TypeOK
<1>1. Inv => TypeOK
  BY DEF Inv
<1> QED  BY InitInv, NextInv, <1>1, PTL DEF Spec

\* The worker keeps JobQueue's promise: jobs run in the order they were
\* posted, none is lost or run twice, and Stop returns after the last of them.
THEOREM Implements == Spec => KeepsPromise
<1>1. Init => Abstract!Init
  BY DEF Init, Abstract!Init, Waiting, Phase
<1>2. Inv /\ [Next]_vars => [Abstract!Next]_(Abstract!queueVars)
  BY StepImplements
<1> QED  BY InitInv, NextInv, <1>1, <1>2, PTL DEF Spec, KeepsPromise, Abstract!Spec

HIDE DEF vars, ownerVars

-----------------------------------------------------------------------------
(***************************************************************************)
(* The search hotkey.                                                      *)
(***************************************************************************)

Chord == {"quit", "release", "claim"}

\* The thread has a queue before it registers, and registers before Start sees it;
\* a chord it did not get it does not hold.
ThreadInv ==
    /\ caller = "new" => thread = "none"
    /\ caller = "on" => installed
    /\ thread \in {"none", "begin", "id", "queue"} => ~installed /\ ~suspended
    /\ thread \in {"none", "begin", "id"} => queue = <<>> /\ ~hasQueue
    /\ thread \in {"queue", "registered", "loop"} => hasQueue
    /\ thread = "loop" => installed
    /\ installed => hasQueue
    /\ thread = "registered" /\ ~installed => holder # "dock"

\* The last message on its way to the thread is what it was last told to do, and
\* before it reads any the chord it registered is its own.
ChordInv ==
    /\ thread = "registered" /\ installed => holder = "dock" /\ (queue = <<>> => ~suspended)
    /\ thread # "done" /\ queue # <<>> /\ queue[Len(queue)] = "release" => suspended
    /\ thread # "done" /\ queue # <<>> /\ queue[Len(queue)] = "claim" => ~suspended
    /\ ChordFollowsFocus

HotkeyInv == HotkeyTypeOK /\ ThreadInv /\ ChordInv

LEMMA ChordQueue ==
    ASSUME NEW q \in Seq(Chord)
    PROVE  /\ \A m \in Chord :
                 /\ Append(q, m) \in Seq(Chord) /\ Append(q, m) # <<>>
                 /\ Append(q, m)[Len(Append(q, m))] = m
           /\ q # <<>> => /\ Head(q) \in Chord /\ Tail(q) \in Seq(Chord)
                          /\ Tail(q) = <<>> => q[Len(q)] = Head(q)
                          /\ Tail(q) # <<>> => Tail(q)[Len(Tail(q))] = q[Len(q)]
<1>1. ASSUME NEW m \in Chord
      PROVE  /\ Append(q, m) \in Seq(Chord) /\ Append(q, m) # <<>>
             /\ Append(q, m)[Len(Append(q, m))] = m
  OBVIOUS
<1>2. ASSUME q # <<>>
      PROVE  /\ Head(q) \in Chord /\ Tail(q) \in Seq(Chord)
             /\ Tail(q) = <<>> => q[Len(q)] = Head(q)
             /\ Tail(q) # <<>> => Tail(q)[Len(Tail(q))] = q[Len(q)]
  <2>1. Head(q) = q[1] /\ Len(q) \in Nat \ {0} /\ Len(Tail(q)) = Len(q) - 1
        /\ \A i \in 1 .. Len(q) - 1 : Tail(q)[i] = q[i + 1]
    BY <1>2
  <2>2. Head(q) \in Chord /\ Tail(q) \in Seq(Chord)
    BY <1>2
  <2>3. Tail(q) = <<>> => Len(q) = 1
    BY <2>1
  <2>4. Tail(q) # <<>> => Len(Tail(q)) # 0
    BY <2>2, EmptySeq, Zenon
  <2> QED  BY <2>1, <2>2, <2>3, <2>4
<1> QED  BY <1>1, <1>2

LEMMA HotkeyInvInit == HotkeyInit => HotkeyInv
<1> SUFFICES ASSUME HotkeyInit PROVE HotkeyInv
  OBVIOUS
<1>1. queue \in Seq({"quit", "release", "claim"})
  BY DEF HotkeyInit
<1>2. HotkeyTypeOK
  <2>1. toggles \in 0 .. MaxFocusChanges
    BY HotkeyAssumption DEF HotkeyInit
  <2>2. caller = "new" /\ joins = "none" /\ thread = "none" /\ ~threadId /\ ~hasQueue
        /\ ~installed /\ ~suspended /\ ~fullscreen /\ holder \in {"none", "other"} /\ ~missed
        /\ threadId \in BOOLEAN /\ hasQueue \in BOOLEAN /\ installed \in BOOLEAN
        /\ suspended \in BOOLEAN /\ fullscreen \in BOOLEAN /\ missed \in BOOLEAN
    BY DEF HotkeyInit
  <2> QED  BY <1>1, <2>1, <2>2 DEF HotkeyTypeOK
<1>3. ThreadInv
  BY DEF HotkeyInit, ThreadInv
<1>4. ChordInv
  BY DEF HotkeyInit, ChordInv, ChordFollowsFocus
<1> QED  BY <1>2, <1>3, <1>4 DEF HotkeyInv

LEMMA HotkeyInvNext == HotkeyInv /\ [HotkeyNext]_hotkeyVars => HotkeyInv'
<1> SUFFICES ASSUME HotkeyInv, [HotkeyNext]_hotkeyVars PROVE HotkeyInv'
  OBVIOUS
<1> USE DEF hotkeyVars, callerVars, chordVars, threadVars, focusVars
<1>t. queue \in Seq(Chord)
  BY DEF HotkeyInv, HotkeyTypeOK, Chord
<1>q. /\ \A m \in Chord :
            /\ Append(queue, m) \in Seq(Chord) /\ Append(queue, m) # <<>>
            /\ Append(queue, m)[Len(Append(queue, m))] = m
      /\ queue # <<>> => /\ Head(queue) \in Chord /\ Tail(queue) \in Seq(Chord)
                         /\ Tail(queue) = <<>> => queue[Len(queue)] = Head(queue)
                         /\ Tail(queue) # <<>> => Tail(queue)[Len(Tail(queue))] = queue[Len(queue)]
  BY <1>t, ChordQueue, Zenon
<1> USE DEF HotkeyInv, HotkeyTypeOK, ThreadInv, ChordInv, ChordFollowsFocus
<1>1. CASE Start
  BY <1>1 DEF Start
<1>2. CASE StartWaited
  BY <1>2 DEF StartWaited
<1>3. CASE StopHotkey
  BY <1>3 DEF StopHotkey
<1>4. CASE Quit
  <2>1. queue' = queue \/ (hasQueue /\ queue' = Append(queue, "quit"))
    BY <1>4 DEF Quit, PostQuit, PostThread
  <2>2. CASE queue' = queue
    BY <1>4, <2>2 DEF Quit
  <2>3. CASE hasQueue /\ queue' = Append(queue, "quit")
    <3>1. queue' \in Seq(Chord) /\ queue' # <<>> /\ queue'[Len(queue')] = "quit"
      BY <1>q, <2>3 DEF Chord
    <3>2. thread \notin {"none", "begin", "id"}
      BY <2>3, <1>4 DEF Quit
    <3> QED  BY <1>4, <2>3, <3>1, <3>2 DEF Quit, Chord
  <2> QED  BY <2>1, <2>2, <2>3
<1>5. CASE JoinThread
  BY <1>5 DEF JoinThread
<1>6. CASE SetSuspended
  <2>1. PICK m \in Chord : queue' = Append(queue, m) /\ m = (IF fullscreen THEN "release" ELSE "claim")
    BY <1>6 DEF SetSuspended, SuspendPosts, PostThread, Chord
  <2>2. queue' \in Seq(Chord) /\ queue' # <<>> /\ queue'[Len(queue')] = m
    BY <1>q, <2>1
  <2> QED  BY <1>6, <2>1, <2>2 DEF SetSuspended, Chord
<1>7. CASE SetId
  BY <1>7 DEF SetId
<1>8. CASE MakeQueue
  BY <1>8 DEF MakeQueue
<1>9. CASE Register
  BY <1>9 DEF Register, RegisterChord, Registered
<1>10. CASE Signal
  BY <1>10 DEF Signal
<1>11. CASE Dispatch
  <2>1. queue # <<>> /\ queue' = Tail(queue) /\ queue' \in Seq(Chord) /\ Head(queue) \in Chord
    BY <1>q, <1>11 DEF Dispatch
  <2>2. CASE queue' = <<>>
    <3>1. queue[Len(queue)] = Head(queue)
      BY <1>q, <2>1, <2>2
    <3> QED  BY ZenonT(60), <1>11, <2>1, <2>2, <3>1 DEF Dispatch, RegisterChord, Registered, AfterLoop, Chord
  <2>3. CASE queue' # <<>>
    <3>1. queue'[Len(queue')] = queue[Len(queue)]
      BY <1>q, <2>1, <2>3
    <3> QED  BY ZenonT(60), <1>11, <2>1, <2>3, <3>1 DEF Dispatch, RegisterChord, Registered, AfterLoop, Chord
  <2> QED  BY <2>2, <2>3
<1>12. CASE Focus
  BY <1>12, HotkeyAssumption DEF Focus
<1>13. CASE Other
  BY <1>13, HotkeyAssumption DEF Other
<1>14. CASE UNCHANGED hotkeyVars
  BY <1>14
<1> QED  BY <1>1, <1>2, <1>3, <1>4, <1>5, <1>6, <1>7, <1>8, <1>9, <1>10, <1>11, <1>12, <1>13, <1>14
         DEF HotkeyNext, Interface, RunHotkey

-----------------------------------------------------------------------------
(***************************************************************************)
(* The update.                                                             *)
(***************************************************************************)

SaverSet == [conf : Configs, truncated : BOOLEAN]
ReplySet == [kind : {"finished", "ready", "close"}, version : Builds, setup : BOOLEAN]
HelperSet == [kind : {"setup", "move"}, at : {"wait", "replace"}, gone : BOOLEAN,
              build : Versions, copy : Copies]
CheckSet == [at : {"none", "fetch", "download"}, manual : BOOLEAN, guard : Records,
             day : Nat, version : Builds, setup : BOOLEAN, retry : BOOLEAN]
ProcSet == [st : {"none", "up", "closing"}, copy : Copies, ver : Builds]

\* The types, with what a step in the middle of an install needs: its message is
\* still the first.
UpdateTyped == UpdateTypeOK /\ (ui = "record" => DockRuns /\ box # <<>>)

LEMMA RemoveAtProperties ==
    ASSUME NEW S, NEW s \in Seq(S), NEW i \in 1 .. Len(s)
    PROVE  /\ RemoveAt(s, i) \in Seq(S) /\ Len(RemoveAt(s, i)) = Len(s) - 1
           /\ \A j \in 1 .. Len(s) - 1 : RemoveAt(s, i)[j] = IF j < i THEN s[j] ELSE s[j + 1]
<1> DEFINE a == SubSeq(s, 1, i - 1)
           b == SubSeq(s, i + 1, Len(s))
<1>1. Len(s) \in Nat /\ i \in Nat /\ 1 <= i /\ i <= Len(s)
  OBVIOUS
<1>2. /\ a \in Seq(S) /\ Len(a) = i - 1
      /\ \A j \in 1 .. i - 1 : a[j] = s[j]
  <2>1. \A j \in 1 .. i - 1 : s[j] \in S
    BY <1>1
  <2> QED  BY <1>1, <2>1, SubSeqProperties
<1>3. /\ b \in Seq(S) /\ Len(b) = Len(s) - i
      /\ \A j \in 1 .. Len(s) - i : b[j] = s[i + j]
  <2>1. \A j \in i + 1 .. Len(s) : s[j] \in S
    BY <1>1
  <2> QED  BY <1>1, <2>1, SubSeqProperties
<1>4. RemoveAt(s, i) = a \o b
  BY DEF RemoveAt
<1> HIDE DEF a, b
<1>5. /\ a \o b \in Seq(S) /\ Len(a \o b) = Len(a) + Len(b)
      /\ \A j \in 1 .. Len(a) + Len(b) :
            (a \o b)[j] = IF j <= Len(a) THEN a[j] ELSE b[j - Len(a)]
  BY <1>2, <1>3, ConcatProperties
<1>6. ASSUME NEW j \in 1 .. Len(s) - 1
      PROVE  (a \o b)[j] = IF j < i THEN s[j] ELSE s[j + 1]
  <2>1. CASE j < i
    BY <1>1, <1>2, <1>3, <1>5, <2>1
  <2>2. CASE ~(j < i)
    <3>1. j - (i - 1) \in 1 .. Len(s) - i /\ i + (j - (i - 1)) = j + 1
      BY <1>1, <2>2
    <3>2. (a \o b)[j] = b[j - (i - 1)]
      BY <1>1, <1>2, <1>3, <1>5, <2>2
    <3> QED  BY <1>3, <2>2, <3>1, <3>2
  <2> QED  BY <2>1, <2>2
<1>7. Len(a \o b) = Len(s) - 1
  BY <1>1, <1>2, <1>3, <1>5
<1> QED  BY <1>4, <1>5, <1>6, <1>7

LEMMA RemoveAtFacts ==
    ASSUME NEW S, NEW s \in Seq(S), NEW i \in DOMAIN s
    PROVE  /\ RemoveAt(s, i) \in Seq(S) /\ Len(RemoveAt(s, i)) = Len(s) - 1
           /\ s[i] \in S
           /\ \A j \in DOMAIN RemoveAt(s, i) : \E k \in DOMAIN s : RemoveAt(s, i)[j] = s[k]
<1>1. i \in 1 .. Len(s) /\ Len(s) \in Nat /\ DOMAIN s = 1 .. Len(s) /\ s[i] \in S
  OBVIOUS
<1> DEFINE r == RemoveAt(s, i)
<1>2. /\ r \in Seq(S) /\ Len(r) = Len(s) - 1
      /\ \A j \in 1 .. Len(s) - 1 : r[j] = IF j < i THEN s[j] ELSE s[j + 1]
  BY <1>1, RemoveAtProperties
<1> HIDE DEF r
<1>3. DOMAIN r = 1 .. Len(s) - 1
  BY <1>2
<1>4. ASSUME NEW j \in DOMAIN r PROVE \E k \in DOMAIN s : r[j] = s[k]
  <2>1. j \in DOMAIN s /\ j + 1 \in DOMAIN s
    BY <1>1, <1>3
  <2> QED  BY <1>2, <1>3, <2>1
<1> QED  BY <1>1, <1>2, <1>4 DEF r

LEMMA AppendFacts ==
    ASSUME NEW S, NEW s \in Seq(S), NEW e \in S
    PROVE  /\ Append(s, e) \in Seq(S) /\ Len(Append(s, e)) = Len(s) + 1 /\ Append(s, e) # <<>>
           /\ \A j \in 1 .. Len(s) : Append(s, e)[j] = s[j]
           /\ Append(s, e)[Len(s) + 1] = e
           /\ s # <<>> => Head(Append(s, e)) = Head(s)
<1>1. /\ Append(s, e) \in Seq(S) /\ Len(Append(s, e)) = Len(s) + 1
      /\ \A j \in 1 .. Len(s) : Append(s, e)[j] = s[j]
      /\ Append(s, e)[Len(s) + 1] = e
  OBVIOUS
<1>2. Append(s, e) # <<>>
  <2> DEFINE t == Append(s, e)
  <2>1. Len(t) # 0
    BY <1>1
  <2> HIDE DEF t
  <2>2. t # <<>>
    BY <2>1, EmptySeq
  <2> QED  BY <2>2 DEF t
<1>3. ASSUME s # <<>> PROVE Head(Append(s, e)) = Head(s)
  BY <1>3
<1> QED  BY <1>1, <1>2, <1>3

LEMMA TailFacts ==
    ASSUME NEW S, NEW s \in Seq(S), s # <<>>
    PROVE  /\ Head(s) \in S /\ Head(s) = s[1] /\ 1 \in DOMAIN s
           /\ Tail(s) \in Seq(S) /\ Len(Tail(s)) = Len(s) - 1
           /\ \A j \in 1 .. Len(s) - 1 : Tail(s)[j] = s[j + 1]
OBVIOUS

LEMMA ConstantFacts ==
    /\ NoRecord \in Records /\ Defaults \in Configs /\ Defaults.record = NoRecord
    /\ NoProc \in ProcSet /\ NoProc.st = "none"
    /\ NoCheck \in CheckSet /\ NoCheck.at = "none"
    /\ NothingSpent \in [starts : Nat, toggles : Nat, crashes : Nat]
    /\ Versions \subseteq Nat \ {0} /\ Builds \subseteq Nat /\ Versions \subseteq Builds
    /\ \A b \in Builds : b > 0 => b \in Versions
    /\ 1 \in Versions
<1>1. Versions \subseteq Nat \ {0} /\ Builds \subseteq Nat /\ Versions \subseteq Builds
      /\ (\A b \in Builds : b > 0 => b \in Versions) /\ 1 \in Versions /\ 0 \in Builds
  BY UpdateAssumption DEF Versions, Builds
<1>2. NoRecord \in Records
  BY DEF NoRecord, Records, kMaxUpdateRetries
<1>3. Defaults \in Configs /\ Defaults.record = NoRecord
  BY <1>2 DEF Defaults, Configs
<1>4. NoProc \in ProcSet /\ NoProc.st = "none"
  BY <1>1 DEF NoProc, ProcSet, Copies
<1>5. NoCheck \in CheckSet /\ NoCheck.at = "none"
  BY <1>1, <1>2 DEF NoCheck, CheckSet
<1>6. NothingSpent \in [starts : Nat, toggles : Nat, crashes : Nat]
  BY DEF NothingSpent
<1> QED  BY <1>1, <1>2, <1>3, <1>4, <1>5, <1>6

\* The types again, one fact for each variable.
LEMMA UpdateTypes ==
    UpdateTypeOK <=>
    /\ disk \in [Copies -> Builds]
    /\ asset \in [Versions -> Versions]
    /\ feed \in Versions
    /\ day \in Nat
    /\ launched \in [Copies -> Nat]
    /\ proc \in ProcSet
    /\ ui \in {"idle", "record"}
    /\ conf \in Configs /\ file \in Configs
    /\ saveDue \in BOOLEAN /\ inFlight \in BOOLEAN /\ installing \in BOOLEAN
    /\ savers \in Seq(SaverSet)
    /\ worker \in CheckSet
    /\ box \in Seq(ReplySet)
    /\ helpers \in Seq(HelperSet)
    /\ tries \in [Versions -> Nat]
    /\ spent \in [starts : Nat, toggles : Nat, crashes : Nat]
BY DEF UpdateTypeOK, ProcSet, SaverSet, CheckSet, ReplySet, HelperSet

LEMMA UpdateTypesNext ==
    UpdateTypeOK' <=>
    /\ disk' \in [Copies -> Builds]
    /\ asset' \in [Versions -> Versions]
    /\ feed' \in Versions
    /\ day' \in Nat
    /\ launched' \in [Copies -> Nat]
    /\ proc' \in ProcSet
    /\ ui' \in {"idle", "record"}
    /\ conf' \in Configs /\ file' \in Configs
    /\ saveDue' \in BOOLEAN /\ inFlight' \in BOOLEAN /\ installing' \in BOOLEAN
    /\ savers' \in Seq(SaverSet)
    /\ worker' \in CheckSet
    /\ box' \in Seq(ReplySet)
    /\ helpers' \in Seq(HelperSet)
    /\ tries' \in [Versions -> Nat]
    /\ spent' \in [starts : Nat, toggles : Nat, crashes : Nat]
BY DEF UpdateTypeOK, ProcSet, SaverSet, CheckSet, ReplySet, HelperSet

LEMMA ReconciledTyped ==
    ASSUME NEW c \in Configs, NEW n \in Builds
    PROVE  Reconciled(c, n) \in Configs
<1>1. c.record \in Records /\ c.checks \in BOOLEAN
  BY DEF Configs
<1>2. CASE c.record.attempts < kMaxUpdateRetries
  <2>1. [version |-> c.record.version, time |-> 0, attempts |-> c.record.attempts + 1] \in Records
    BY <1>1, <1>2 DEF Records, kMaxUpdateRetries
  <2> QED  BY <2>1, <1>1, ConstantFacts DEF Reconciled, Configs
<1>3. CASE ~(c.record.attempts < kMaxUpdateRetries)
  BY <1>1, <1>3, ConstantFacts DEF Reconciled, Configs
<1> QED  BY <1>2, <1>3

\* A check that ends, posting or not.
LEMMA CheckTyped ==
    ASSUME UpdateTyped,
           \/ FetchFails \/ UpToDate \/ Skipped \/ Offered \/ Downloaded \/ DownloadFails
    PROVE  /\ worker' \in CheckSet /\ box' \in Seq(ReplySet) /\ inFlight' \in BOOLEAN
           /\ ui = "record" => box' # <<>>
<1> USE DEF UpdateTyped
<1>1. worker \in CheckSet /\ box \in Seq(ReplySet) /\ inFlight \in BOOLEAN /\ feed \in Versions
      /\ (ui = "record" => box # <<>>)
  BY UpdateTypes
<1>2. ASSUME NEW kind \in {"finished", "ready"}, Post(kind)
      PROVE  box' \in Seq(ReplySet) /\ inFlight' \in BOOLEAN /\ (ui = "record" => box' # <<>>)
  <2>1. Reply(kind) \in ReplySet
    BY <1>1 DEF Reply, CheckSet, ReplySet
  <2>2. Append(box, Reply(kind)) \in Seq(ReplySet) /\ Append(box, Reply(kind)) # <<>>
    BY <1>1, <2>1, AppendFacts
  <2> QED  BY <1>1, <1>2, <2>2 DEF Post
<1>3. ASSUME QuietEnd
      PROVE  box' \in Seq(ReplySet) /\ inFlight' \in BOOLEAN /\ (ui = "record" => box' # <<>>)
  BY <1>1, <1>3 DEF QuietEnd
<1>4. CheckOver => worker' \in CheckSet
  BY ConstantFacts DEF CheckOver
<1>5. CASE FetchFails
  BY <1>2, <1>3, <1>4, <1>5 DEF FetchFails
<1>6. CASE UpToDate
  BY <1>2, <1>4, <1>6 DEF UpToDate
<1>7. CASE Skipped
  BY <1>2, <1>3, <1>4, <1>7 DEF Skipped
<1>8. CASE Offered
  <2>1. worker' \in CheckSet
    BY <1>1, <1>8, ConstantFacts DEF Offered, CheckSet, SelectsSetup, AssetsOf
  <2> QED  BY <1>1, <1>8, <2>1 DEF Offered
<1>9. CASE Downloaded
  BY <1>2, <1>4, <1>9 DEF Downloaded
<1>10. CASE DownloadFails
  <2>1. CASE worker.retry
    <3>1. worker' \in CheckSet
      BY <1>1, <1>10, <2>1 DEF DownloadFails, CheckSet
    <3> QED  BY <1>1, <1>10, <2>1, <3>1 DEF DownloadFails
  <2>2. CASE ~worker.retry
    BY <1>2, <1>4, <1>10, <2>2 DEF DownloadFails
  <2> QED  BY <2>1, <2>2
<1> QED  BY <1>5, <1>6, <1>7, <1>8, <1>9, <1>10

LEMMA UpdateTypedInit == UpdateInit => UpdateTyped
<1> SUFFICES ASSUME UpdateInit PROVE UpdateTyped
  OBVIOUS
<1>1. disk \in [Copies -> Builds] /\ asset \in [Versions -> Versions] /\ feed \in Versions
  BY ConstantFacts, UpdateAssumption DEF UpdateInit, Builds, Versions
<1>2. day \in Nat /\ launched \in [Copies -> Nat] /\ proc \in ProcSet /\ ui = "idle"
      /\ conf \in Configs /\ file \in Configs
  BY ConstantFacts DEF UpdateInit
<1>3. saveDue \in BOOLEAN /\ inFlight \in BOOLEAN /\ installing \in BOOLEAN /\ worker \in CheckSet
      /\ tries \in [Versions -> Nat] /\ spent \in [starts : Nat, toggles : Nat, crashes : Nat]
  BY ConstantFacts DEF UpdateInit
<1>4. savers \in Seq(SaverSet)
  BY EmptySeq DEF UpdateInit
<1>5. box \in Seq(ReplySet)
  BY EmptySeq DEF UpdateInit
<1>6. helpers \in Seq(HelperSet)
  BY EmptySeq DEF UpdateInit
<1>7. UpdateTypeOK
  BY <1>1, <1>2, <1>3, <1>4, <1>5, <1>6, UpdateTypes
<1> QED  BY <1>2, <1>7 DEF UpdateTyped

LEMMA UpdateTypedNext == UpdateTyped /\ [UpdateNext]_updateVars => UpdateTyped'
<1> SUFFICES ASSUME UpdateTyped, [UpdateNext]_updateVars PROVE UpdateTyped'
  OBVIOUS
<1>t. /\ disk \in [Copies -> Builds]
      /\ asset \in [Versions -> Versions]
      /\ feed \in Versions
      /\ day \in Nat
      /\ launched \in [Copies -> Nat]
      /\ proc \in ProcSet
      /\ ui \in {"idle", "record"}
      /\ conf \in Configs /\ file \in Configs
      /\ saveDue \in BOOLEAN /\ inFlight \in BOOLEAN /\ installing \in BOOLEAN
      /\ savers \in Seq(SaverSet)
      /\ worker \in CheckSet
      /\ box \in Seq(ReplySet)
      /\ helpers \in Seq(HelperSet)
      /\ tries \in [Versions -> Nat]
      /\ spent \in [starts : Nat, toggles : Nat, crashes : Nat]
  BY UpdateTypes DEF UpdateTyped
<1>r. ui = "record" => proc.st = "up" /\ box # <<>>
  BY DEF UpdateTyped, DockRuns
<1>b. box # <<>> => Head(box) \in ReplySet /\ Tail(box) \in Seq(ReplySet)
  BY <1>t, TailFacts
<1> USE DEF updateVars, diskVars, dockVars, fileVars
<1> DEFINE Goal == UpdateTypeOK' /\ (ui' = "record" => proc'.st = "up" /\ box' # <<>>)
<1> SUFFICES Goal
  BY DEF UpdateTyped, DockRuns
<1>a. /\ [spent EXCEPT !.starts = @ + 1] \in [starts : Nat, toggles : Nat, crashes : Nat]
      /\ [spent EXCEPT !.toggles = @ + 1] \in [starts : Nat, toggles : Nat, crashes : Nat]
      /\ [spent EXCEPT !.crashes = @ + 1] \in [starts : Nat, toggles : Nat, crashes : Nat]
  <2>1. spent.starts + 1 \in Nat /\ spent.toggles + 1 \in Nat /\ spent.crashes + 1 \in Nat
    <3>1. spent.starts \in Nat /\ spent.toggles \in Nat /\ spent.crashes \in Nat
      BY <1>t
    <3> QED  BY <3>1
  <2> QED  BY <1>t, <2>1
<1>1. ASSUME NEW c \in Copies, Begin(c) PROVE Goal
  <2>1. launched' \in [Copies -> Nat]
    BY <1>1, <1>t DEF Begin, Copies
  <2>2. CASE UNCHANGED <<dockVars, file>>
    BY <1>1, <1>t, <1>r, <2>1, <2>2, UpdateTypesNext DEF Begin
  <2>3. CASE ~UNCHANGED <<dockVars, file>>
    <3>1. proc' = [st |-> "up", copy |-> c, ver |-> disk[c]] /\ conf' = Reconciled(file, disk[c])
          /\ file' = conf' /\ ui' = "idle" /\ saveDue' = FALSE /\ inFlight' = FALSE
          /\ installing' = FALSE /\ box' = <<>>
      BY <1>1, <2>3 DEF Begin
    <3>2. proc' \in ProcSet /\ conf' \in Configs /\ file' \in Configs
      BY <1>t, <1>1, <3>1, ReconciledTyped DEF ProcSet
    <3>3. box' \in Seq(ReplySet)
      BY <3>1, EmptySeq
    <3>4. saveDue' \in BOOLEAN /\ inFlight' \in BOOLEAN /\ installing' \in BOOLEAN /\ ui' = "idle"
      BY <3>1
    <3> QED  BY <1>1, <1>t, <2>1, <3>2, <3>3, <3>4, UpdateTypesNext DEF Begin
  <2> QED  BY <2>2, <2>3
<1>2. ASSUME NEW c \in Copies, UserStarts(c) PROVE Goal
  <2>1. launched' \in [Copies -> Nat] /\ spent' \in [starts : Nat, toggles : Nat, crashes : Nat]
    <3>1. launched[c] + 1 \in Nat
      BY <1>t
    <3> QED  BY <1>2, <1>t, <1>a, <3>1 DEF UserStarts
  <2> QED  BY <1>2, <1>t, <1>r, <2>1, UpdateTypesNext DEF UserStarts
<1>c. ASSUME NEW manual \in BOOLEAN, StartCheck(manual)
      PROVE  inFlight' \in BOOLEAN /\ worker' \in CheckSet
  <2>1. conf.record \in Records
    BY <1>t DEF Configs
  <2> QED  BY <1>c, <1>t, <2>1, ConstantFacts DEF StartCheck, CheckSet
<1>3. CASE UpdateTimer
  BY <1>3, <1>c, <1>t, <1>r, UpdateTypesNext DEF UpdateTimer
<1>4. CASE CheckNow
  BY <1>4, <1>c, <1>a, <1>t, <1>r, UpdateTypesNext DEF CheckNow
<1>5. CASE ToggleChecks
  <2>1. conf' \in Configs /\ saveDue' \in BOOLEAN /\ ui = "idle"
    BY <1>5, <1>t DEF ToggleChecks, Configs, Idle
  <2>2. inFlight' \in BOOLEAN /\ worker' \in CheckSet
    BY <1>5, <1>c, <1>t DEF ToggleChecks
  <2> QED  BY <1>5, <1>a, <1>t, <2>1, <2>2, UpdateTypesNext DEF ToggleChecks
<1>6. CASE SaveTimer
  <2>1. savers' \in Seq(SaverSet) /\ saveDue' \in BOOLEAN /\ ui = "idle"
    <3>1. [conf |-> conf, truncated |-> FALSE] \in SaverSet
      BY <1>t DEF SaverSet
    <3> QED  BY <1>6, <1>t, <3>1, AppendFacts DEF SaveTimer, Idle
  <2> QED  BY <1>6, <1>t, <2>1, UpdateTypesNext DEF SaveTimer
<1>7. CASE ApplyFinished \/ RefuseInstall
  <2>1. box' \in Seq(ReplySet) /\ inFlight' \in BOOLEAN /\ ui' = "idle"
    BY <1>7, <1>b DEF ApplyFinished, RefuseInstall, Posted, Idle
  <2> QED  BY <1>7, <1>t, <2>1, UpdateTypesNext DEF ApplyFinished, RefuseInstall
<1>8. CASE LaunchInstall
  <2>1. box # <<>> /\ proc.st = "up" /\ Head(box) \in ReplySet
    BY <1>8, <1>b DEF LaunchInstall, Posted, Idle, DockRuns
  <2>2. Head(box).version \in Versions
    <3>1. Head(box).version \in Builds /\ proc.ver \in Builds /\ Head(box).version > proc.ver
      BY <1>8, <1>t, <2>1 DEF LaunchInstall, IsNewer, ReplySet, ProcSet
    <3>2. proc.ver \in Nat /\ Head(box).version \in Nat
      BY <3>1, ConstantFacts
    <3> QED  BY <3>1, <3>2, ConstantFacts
  <2>3. tries' \in [Versions -> Nat]
    BY <1>8, <1>t, <2>2 DEF LaunchInstall
  <2>4. \A k \in {"setup", "move"} : Helper(k, Head(box)) \in HelperSet
    BY <1>t, <2>2 DEF Helper, HelperSet, ProcSet
  <2>5. helpers' \in Seq(HelperSet)
    BY <1>8, <1>t, <2>4, AppendFacts DEF LaunchInstall
  <2>6. installing' \in BOOLEAN /\ ui' = "record" /\ proc' = proc /\ box' = box
    BY <1>8 DEF LaunchInstall
  <2> QED  BY <1>8, <1>t, <2>1, <2>3, <2>5, <2>6, UpdateTypesNext DEF LaunchInstall
<1>9. CASE RecordInstall
  <2>1. box # <<>> /\ Head(box) \in ReplySet /\ Tail(box) \in Seq(ReplySet)
    BY <1>9, <1>r, <1>b DEF RecordInstall
  <2>2. conf' \in Configs /\ file' \in Configs
    <3>1. Head(box).version \in Builds
      BY <2>1 DEF ReplySet
    <3>2. conf.record \in Records /\ conf.checks \in BOOLEAN
      BY <1>t DEF Configs
    <3> DEFINE kept == IF conf.record.version = Head(box).version THEN conf.record.attempts ELSE 0
               made == [version |-> Head(box).version, time |-> day, attempts |-> kept]
    <3>3. made \in Records
      BY <1>t, <3>1, <3>2 DEF Records, kMaxUpdateRetries, Builds
    <3>4. conf' = [conf EXCEPT !.record = made] /\ file' = conf'
      BY <1>9 DEF RecordInstall
    <3> HIDE DEF made
    <3> QED  BY <1>t, <3>2, <3>3, <3>4 DEF Configs
  <2>3. [kind |-> "close", version |-> 0, setup |-> FALSE] \in ReplySet
    BY ConstantFacts DEF ReplySet, Builds
  <2>4. box' \in Seq(ReplySet) /\ ui' = "idle"
    BY <1>9, <2>1, <2>3, AppendFacts DEF RecordInstall
  <2> QED  BY <1>9, <1>t, <2>2, <2>4, UpdateTypesNext DEF RecordInstall
<1>d. Close => proc' \in ProcSet /\ box' \in Seq(ReplySet) /\ saveDue' \in BOOLEAN
  BY <1>t, EmptySeq DEF Close, ProcSet
<1>10. CASE HandleClose
  <2>1. ui = "idle"
    BY <1>10 DEF HandleClose, Posted, Idle
  <2> QED  BY <1>10, <1>d, <1>t, <2>1, UpdateTypesNext DEF HandleClose
<1>11. CASE Exit \/ DockDies
  <2>1. Dies /\ spent' \in [starts : Nat, toggles : Nat, crashes : Nat]
    BY <1>11, <1>t, <1>a DEF Exit, DockDies
  <2>2. SeenGone \in Seq(HelperSet)
    <3>1. \A i \in DOMAIN helpers : [helpers[i] EXCEPT !.gone = TRUE] \in HelperSet
      <4>1. \A i \in DOMAIN helpers : helpers[i] \in HelperSet
        BY <1>t
      <4> QED  BY <4>1 DEF HelperSet
    <3>2. DOMAIN helpers = 1 .. Len(helpers) /\ Len(helpers) \in Nat
      BY <1>t
    <3> QED  BY <3>1, <3>2 DEF SeenGone
  <2>3. proc' \in ProcSet /\ ui' = "idle" /\ conf' \in Configs /\ worker' \in CheckSet
        /\ saveDue' \in BOOLEAN /\ inFlight' \in BOOLEAN /\ installing' \in BOOLEAN
    BY <2>1, ConstantFacts DEF Dies
  <2>4. box' \in Seq(ReplySet) /\ savers' \in Seq(SaverSet)
    BY <2>1, EmptySeq DEF Dies
  <2>5. helpers' \in Seq(HelperSet)
    BY <2>1, <2>2 DEF Dies
  <2> QED  BY <1>t, <2>1, <2>3, <2>4, <2>5, UpdateTypesNext DEF Dies
<1>12. CASE Saver
  <2>1. savers' \in Seq(SaverSet) /\ file' \in Configs
    <3>1. CASE SaverOpens
      <4>1. PICK i \in DOMAIN savers : savers' = [savers EXCEPT ![i].truncated = TRUE] /\ file' = Defaults
        BY <3>1 DEF SaverOpens
      <4>2. [savers[i] EXCEPT !.truncated = TRUE] \in SaverSet
        <5>1. savers[i] \in SaverSet
          BY <1>t
        <5> QED  BY <5>1 DEF SaverSet
      <4> QED  BY <1>t, <4>1, <4>2, ConstantFacts
    <3>2. CASE SaverWrites
      <4>1. PICK i \in DOMAIN savers : savers' = RemoveAt(savers, i) /\ file' = savers[i].conf
        BY <3>2 DEF SaverWrites
      <4>2. savers' \in Seq(SaverSet) /\ savers[i] \in SaverSet
        BY <1>t, <4>1, RemoveAtFacts
      <4> QED  BY <4>1, <4>2 DEF SaverSet
    <3> QED  BY <1>12, <3>1, <3>2 DEF Saver
  <2>2. UNCHANGED <<diskVars, day, launched, dockVars, worker, helpers, tries, spent>>
    BY <1>12 DEF Saver, SaverOpens, SaverWrites
  <2> QED  BY <1>t, <1>r, <2>1, <2>2, UpdateTypesNext
<1>13. CASE Check
  <2>1. worker' \in CheckSet /\ box' \in Seq(ReplySet) /\ inFlight' \in BOOLEAN
        /\ (ui = "record" => box' # <<>>)
    BY <1>13, CheckTyped DEF Check
  <2>2. CheckUnchanged
    BY <1>13 DEF Check, FetchFails, UpToDate, Skipped, Offered, Downloaded, DownloadFails
  <2> QED  BY <1>t, <1>r, <2>1, <2>2, UpdateTypesNext DEF CheckUnchanged
<1>14. CASE HelperStep
  <2>1. PICK i \in DOMAIN helpers : Moves(i) \/ ClosesDock(i) \/ Replaces(i)
    BY <1>14 DEF HelperStep
  <2>2. helpers[i] \in HelperSet /\ RemoveAt(helpers, i) \in Seq(HelperSet)
    BY <1>t, RemoveAtFacts
  <2>3. helpers[i].copy \in Copies /\ helpers[i].build \in Builds
        /\ [helpers[i] EXCEPT !.at = "replace"] \in HelperSet
    BY <2>2, ConstantFacts DEF HelperSet
  <2>4. disk' \in [Copies -> Builds] /\ launched' \in [Copies -> Nat]
    <3>1. \A c \in Copies : launched[c] + 1 \in Nat
      BY <1>t
    <3>2. "installed" \in Copies
      BY DEF Copies
    <3>3. CASE Moves(i)
      BY <1>t, <2>3, <3>1, <3>3 DEF Moves
    <3>4. CASE ClosesDock(i)
      BY <1>t, <3>4 DEF ClosesDock
    <3>5. CASE Replaces(i)
      BY <1>t, <2>3, <3>1, <3>2, <3>5 DEF Replaces, Relaunched
    <3> QED  BY <2>1, <3>3, <3>4, <3>5
  <2>5. helpers' \in Seq(HelperSet)
    <3>1. CASE ClosesDock(i)
      BY <1>t, <2>3, <3>1 DEF ClosesDock
    <3>2. CASE ~ClosesDock(i)
      BY <2>1, <2>2, <3>2 DEF Moves, Replaces
    <3> QED  BY <3>1, <3>2
  <2>6. proc' \in ProcSet /\ box' \in Seq(ReplySet) /\ saveDue' \in BOOLEAN
        /\ (ui = "record" => proc'.st = "up" /\ box' # <<>>)
    BY <1>t, <1>r, <1>d, <2>1 DEF Moves, ClosesDock, Replaces, DockRuns
  <2>7. HelperUnchanged
    BY <2>1 DEF Moves, ClosesDock, Replaces
  <2> QED  BY <1>t, <2>4, <2>5, <2>6, <2>7, UpdateTypesNext DEF HelperUnchanged
<1>15. CASE Release
  <2>1. feed' \in Versions
    BY <1>15, <1>t, UpdateAssumption DEF Release, Versions
  <2> QED  BY <1>15, <1>t, <1>r, <2>1, UpdateTypesNext DEF Release
<1>16. CASE NextDay
  <2>1. day' \in Nat /\ tries' \in [Versions -> Nat]
    BY <1>16, <1>t DEF NextDay
  <2> QED  BY <1>16, <1>t, <1>r, <2>1, UpdateTypesNext DEF NextDay
<1>17. CASE UNCHANGED updateVars
  BY <1>17, <1>t, <1>r, UpdateTypesNext
<1> HIDE DEF Goal
<1> QED  BY <1>1, <1>2, <1>3, <1>4, <1>5, <1>6, <1>7, <1>8, <1>9, <1>10, <1>11, <1>12, <1>13, <1>14,
            <1>15, <1>16, <1>17 DEF UpdateNext, UI

\* Nothing was installed of a version after v today.
Live(v) == \A u \in Versions : u > v => tries[u] = 0

\* Saves under way or due: each may yet write an old configuration, and the click
\* that asked for it is not accounted for before it has.
Pending == (IF saveDue THEN 1 ELSE 0) + Len(savers)

\* Docks that come of what the user has started, and the one there is, if it may
\* install v.
Coming == launched["portable"] + launched["installed"] + Len(helpers)
Checking == IF proc.st = "up" /\ ~installing THEN 1 ELSE 0
Trying(v) == IF proc.st = "up" /\ ~installing /\ proc.ver < v THEN 1 ELSE 0

\* What has been lost of the record so far.
Spare(v) ==
    spent.toggles + spent.crashes - Pending
    + (IF Stale(v) THEN 0 ELSE spent.starts - Coming - Trying(v))

\* The installs of v today that a record counts.
CountedIn(r, v) ==
    IF r.version # v THEN 0
    ELSE IF r.time = day THEN r.attempts + 1
    ELSE IF r.time = 0 THEN r.attempts ELSE 0

\* The one started and not recorded yet.
Unrecorded(v) == IF ui = "record" /\ Head(box).version = v THEN 1 ELSE 0

Claim(r, v) == tries[v] <= 3 * Spare(v) + CountedIn(r, v) + Unrecorded(v)

\* The build an install of v arrives at, at most.
Top(v) == IF Stale(v) THEN v - 1 ELSE v
BuildsUpTo(n) ==
    (\A c \in Copies : disk[c] <= n) /\ (\A i \in DOMAIN helpers : helpers[i].build <= n)

\* A version that a check offers, or has found.
Offer(v) ==
    /\ v \in Versions /\ v <= feed /\ Live(v) /\ BuildsUpTo(Top(v))
    /\ conf.record.version = v => conf.record.time < day

Whole == \A i \in DOMAIN savers : ~savers[i].truncated

LifeInv ==
    /\ \A v \in Versions : asset[v] <= v
    /\ proc.st = "none" => savers = <<>> /\ worker.at = "none"
    /\ ui = "record" => installing
    /\ day >= 1 /\ conf.record.time <= day /\ file.record.time <= day
    /\ \A i \in DOMAIN savers : savers[i].conf.record.time <= day
    /\ Pending <= spent.toggles
    /\ Coming + Checking <= spent.starts
    /\ \A v \in Versions : v > feed => tries[v] = 0
    /\ BuildsUpTo(Top(feed))

CheckInv ==
    ~installing =>
       /\ worker.at # "none" => worker.day <= day
       /\ worker.at = "fetch" => worker.guard = conf.record /\ conf.record.time <= worker.day
       /\ worker.at = "download" => Offer(worker.version)
       /\ \A i \in DOMAIN box : box[i].kind = "ready" => Offer(box[i].version)

RecordInv ==
    ui = "record" =>
       LET v == Head(box).version IN
       /\ v \in Versions /\ Live(v)
       /\ \A u \in Versions : u < v /\ tries[u] > 0 => tries[v] > 0
       /\ conf.record.version = v => conf.record.time < day

TriesInv ==
    /\ LoopIsBounded
    /\ \A v \in Versions : Live(v) /\ tries[v] > 0 => BuildsUpTo(Top(v))
    /\ proc.st # "none" => \A v \in Versions : Live(v) => Claim(conf.record, v)
    /\ Whole => \A v \in Versions : Live(v) => Claim(file.record, v)

BoundInv == LifeInv /\ CheckInv /\ RecordInv /\ TriesInv

LEMMA Counts ==
    ASSUME UpdateTyped
    PROVE
    /\ day \in Nat /\ feed \in Versions
    /\ spent.starts \in Nat /\ spent.toggles \in Nat /\ spent.crashes \in Nat
    /\ Pending \in Nat /\ Coming \in Nat /\ Checking \in {0, 1}
    /\ \A v \in Versions : tries[v] \in Nat /\ asset[v] \in Versions
    /\ \A v \in Versions : Trying(v) \in 0 .. Checking
    /\ \A v \in Versions : Unrecorded(v) \in {0, 1} /\ (ui = "idle" => Unrecorded(v) = 0)
    /\ \A r \in Records, v \in Versions : CountedIn(r, v) \in 0 .. 3
    /\ conf.record \in Records /\ file.record \in Records
    /\ \A i \in DOMAIN savers : savers[i] \in SaverSet
                                /\ savers[i].conf.record \in Records
    /\ \A i \in DOMAIN helpers : helpers[i] \in HelperSet /\ helpers[i].build \in Versions
    /\ \A c \in Copies : disk[c] \in Builds /\ launched[c] \in Nat
    /\ proc.ver \in Builds
<1>t. /\ disk \in [Copies -> Builds]
      /\ asset \in [Versions -> Versions]
      /\ feed \in Versions
      /\ day \in Nat
      /\ launched \in [Copies -> Nat]
      /\ proc \in ProcSet
      /\ ui \in {"idle", "record"}
      /\ conf \in Configs /\ file \in Configs
      /\ saveDue \in BOOLEAN /\ inFlight \in BOOLEAN /\ installing \in BOOLEAN
      /\ savers \in Seq(SaverSet)
      /\ helpers \in Seq(HelperSet)
      /\ tries \in [Versions -> Nat]
      /\ spent \in [starts : Nat, toggles : Nat, crashes : Nat]
  BY UpdateTypes DEF UpdateTyped
<1>1. spent.starts \in Nat /\ spent.toggles \in Nat /\ spent.crashes \in Nat
  BY <1>t
<1>2. Pending \in Nat /\ Len(savers) \in Nat
  BY <1>t DEF Pending
<1>3. Coming \in Nat
  <2>1. launched["portable"] \in Nat /\ launched["installed"] \in Nat /\ Len(helpers) \in Nat
    BY <1>t DEF Copies
  <2> QED  BY <2>1 DEF Coming
<1>4. Checking \in {0, 1} /\ \A v \in Versions : Trying(v) \in 0 .. Checking
  BY DEF Checking, Trying
<1>5. \A v \in Versions : tries[v] \in Nat /\ asset[v] \in Versions
  BY <1>t
<1>6. \A v \in Versions : Unrecorded(v) \in {0, 1} /\ (ui = "idle" => Unrecorded(v) = 0)
  BY DEF Unrecorded
<1>7. \A r \in Records, v \in Versions : CountedIn(r, v) \in 0 .. 3
  BY DEF CountedIn, Records, kMaxUpdateRetries
<1>8. conf.record \in Records /\ file.record \in Records
  BY <1>t DEF Configs
<1>9. \A i \in DOMAIN savers : savers[i] \in SaverSet /\ savers[i].conf.record \in Records
  <2>1. \A i \in DOMAIN savers : savers[i] \in SaverSet
    BY <1>t
  <2> QED  BY <2>1 DEF SaverSet, Configs
<1>10. \A i \in DOMAIN helpers : helpers[i] \in HelperSet /\ helpers[i].build \in Versions
  <2>1. \A i \in DOMAIN helpers : helpers[i] \in HelperSet
    BY <1>t
  <2> QED  BY <2>1 DEF HelperSet
<1>11. \A c \in Copies : disk[c] \in Builds /\ launched[c] \in Nat
  BY <1>t
<1>12. proc.ver \in Builds
  BY <1>t DEF ProcSet
<1> QED  BY <1>t, <1>1, <1>2, <1>3, <1>4, <1>5, <1>6, <1>7, <1>8, <1>9, <1>10, <1>11, <1>12

LEMMA CountsNext ==
    ASSUME UpdateTyped'
    PROVE
    /\ day' \in Nat /\ feed' \in Versions
    /\ spent'.starts \in Nat /\ spent'.toggles \in Nat /\ spent'.crashes \in Nat
    /\ Pending' \in Nat /\ Coming' \in Nat /\ Checking' \in {0, 1}
    /\ \A v \in Versions : tries'[v] \in Nat /\ asset'[v] \in Versions
    /\ \A v \in Versions : Trying(v)' \in 0 .. Checking'
    /\ \A v \in Versions : Unrecorded(v)' \in {0, 1} /\ (ui' = "idle" => Unrecorded(v)' = 0)
    /\ \A r \in Records, v \in Versions : CountedIn(r, v)' \in 0 .. 3
    /\ conf'.record \in Records /\ file'.record \in Records
    /\ \A i \in DOMAIN savers' : savers'[i] \in SaverSet
                                /\ savers'[i].conf.record \in Records
    /\ \A i \in DOMAIN helpers' : helpers'[i] \in HelperSet /\ helpers'[i].build \in Versions
    /\ \A c \in Copies : disk'[c] \in Builds /\ launched'[c] \in Nat
    /\ proc'.ver \in Builds
<1>t. /\ disk' \in [Copies -> Builds]
      /\ asset' \in [Versions -> Versions]
      /\ feed' \in Versions
      /\ day' \in Nat
      /\ launched' \in [Copies -> Nat]
      /\ proc' \in ProcSet
      /\ ui' \in {"idle", "record"}
      /\ conf' \in Configs /\ file' \in Configs
      /\ saveDue' \in BOOLEAN /\ inFlight' \in BOOLEAN /\ installing' \in BOOLEAN
      /\ savers' \in Seq(SaverSet)
      /\ helpers' \in Seq(HelperSet)
      /\ tries' \in [Versions -> Nat]
      /\ spent' \in [starts : Nat, toggles : Nat, crashes : Nat]
  BY UpdateTypesNext DEF UpdateTyped
<1>1. spent'.starts \in Nat /\ spent'.toggles \in Nat /\ spent'.crashes \in Nat
  BY <1>t
<1>2. Pending' \in Nat /\ Len(savers') \in Nat
  BY <1>t DEF Pending
<1>3. Coming' \in Nat
  <2>1. launched'["portable"] \in Nat /\ launched'["installed"] \in Nat /\ Len(helpers') \in Nat
    BY <1>t DEF Copies
  <2> QED  BY <2>1 DEF Coming
<1>4. Checking' \in {0, 1} /\ \A v \in Versions : Trying(v)' \in 0 .. Checking'
  BY DEF Checking, Trying
<1>5. \A v \in Versions : tries'[v] \in Nat /\ asset'[v] \in Versions
  BY <1>t
<1>6. \A v \in Versions : Unrecorded(v)' \in {0, 1} /\ (ui' = "idle" => Unrecorded(v)' = 0)
  BY DEF Unrecorded
<1>7. \A r \in Records, v \in Versions : CountedIn(r, v)' \in 0 .. 3
  BY DEF CountedIn, Records, kMaxUpdateRetries
<1>8. conf'.record \in Records /\ file'.record \in Records
  BY <1>t DEF Configs
<1>9. \A i \in DOMAIN savers' : savers'[i] \in SaverSet /\ savers'[i].conf.record \in Records
  <2>1. \A i \in DOMAIN savers' : savers'[i] \in SaverSet
    BY <1>t
  <2> QED  BY <2>1 DEF SaverSet, Configs
<1>10. \A i \in DOMAIN helpers' : helpers'[i] \in HelperSet /\ helpers'[i].build \in Versions
  <2>1. \A i \in DOMAIN helpers' : helpers'[i] \in HelperSet
    BY <1>t
  <2> QED  BY <2>1 DEF HelperSet
<1>11. \A c \in Copies : disk'[c] \in Builds /\ launched'[c] \in Nat
  BY <1>t
<1>12. proc'.ver \in Builds
  BY <1>t DEF ProcSet
<1> QED  BY <1>t, <1>1, <1>2, <1>3, <1>4, <1>5, <1>6, <1>7, <1>8, <1>9, <1>10, <1>11, <1>12

LEMMA TopBounds ==
    ASSUME UpdateTyped, LifeInv
    PROVE  \A v \in Versions : /\ Top(v) \in Nat /\ Top(v) <= v /\ v - 1 <= Top(v) /\ asset[v] <= Top(v)
                               /\ \A u \in Versions : u <= v => Top(u) <= Top(v)
<1>1. \A v \in Versions : asset[v] \in Versions /\ asset[v] <= v
  BY Counts DEF LifeInv
<1>2. Versions \subseteq Nat \ {0}
  BY ConstantFacts
<1>3. ASSUME NEW v \in Versions PROVE v \in Nat /\ v >= 1 /\ asset[v] \in Nat
  <2>1. v \in Nat \ {0} /\ asset[v] \in Nat \ {0}
    BY <1>1, <1>2
  <2> QED  BY <2>1
<1>4. \A v \in Versions : Top(v) \in Nat /\ Top(v) <= v /\ v - 1 <= Top(v) /\ asset[v] <= Top(v)
  BY <1>1, <1>3 DEF Top, Stale
<1>5. ASSUME NEW v \in Versions, NEW u \in Versions, u <= v PROVE Top(u) <= Top(v)
  <2>1. CASE u = v
    BY <2>1, <1>4
  <2>2. CASE u # v
    <3>1. u <= v - 1
      BY <1>3, <1>5, <2>2
    <3> QED  BY <1>3, <1>4, <3>1
  <2> QED  BY <2>1, <2>2
<1> QED  BY <1>4, <1>5

LEMMA BuildsBounds ==
    ASSUME UpdateTyped, NEW m \in Nat, NEW n \in Nat, m <= n, BuildsUpTo(m)
    PROVE  BuildsUpTo(n)
<1>1. \A c \in Copies : disk[c] \in Nat
  BY Counts, ConstantFacts
<1>2. \A i \in DOMAIN helpers : helpers[i].build \in Nat
  BY Counts, ConstantFacts
<1> QED  BY <1>1, <1>2 DEF BuildsUpTo

\* What a record counts of an install that is being started.
LEMMA CountedBefore ==
    ASSUME UpdateTyped, NEW r \in Records, NEW v \in Versions, r.version = v => r.time < day
    PROVE  CountedIn(r, v) \in 0 .. 2
BY Counts DEF CountedIn, Records, kMaxUpdateRetries

\* Every version has been tried at most as often as what was lost of its records allows.
LEMMA ClaimBounds ==
    ASSUME UpdateTyped, LifeInv, RecordInv, proc.st # "none", NEW v \in Versions, Claim(conf.record, v)
    PROVE  tries[v] <= 3 * Spare(v) + 3
<1>1. CountedIn(conf.record, v) \in 0 .. 3 /\ Unrecorded(v) \in {0, 1} /\ Spare(v) \in Int /\ tries[v] \in Nat
  BY Counts DEF Spare
<1>2. CASE Unrecorded(v) = 0
  BY <1>1, <1>2 DEF Claim
<1>3. CASE Unrecorded(v) = 1
  <2>1. conf.record.version = v => conf.record.time < day
    BY <1>3 DEF Unrecorded, RecordInv
  <2>2. CountedIn(conf.record, v) \in 0 .. 2
    BY <2>1, CountedBefore, Counts
  <2> QED  BY <1>1, <1>3, <2>2 DEF Claim
<1> QED  BY <1>1, <1>2, <1>3

LEMMA SpareBounds ==
    ASSUME UpdateTyped, LifeInv, NEW v \in Versions
    PROVE  Spare(v) \in Nat /\ Spare(v) <= Losses(v) /\ Losses(v) \in Nat
<1>1. /\ spent.starts \in Nat /\ spent.toggles \in Nat /\ spent.crashes \in Nat
      /\ Pending \in Nat /\ Coming \in Nat /\ Checking \in {0, 1} /\ Trying(v) \in 0 .. Checking
      /\ Pending <= spent.toggles /\ Coming + Checking <= spent.starts
  BY Counts DEF LifeInv
<1> QED  BY <1>1 DEF Spare, Losses

\* A step that installs nothing, records nothing and does not lose the record.
Carries ==
    /\ UNCHANGED <<tries, asset, day, installing, ui>> /\ conf'.record = conf.record
    /\ ui = "record" => Head(box') = Head(box)
    /\ feed' \in {feed, feed + 1}
    /\ spent'.starts >= spent.starts /\ spent'.toggles >= spent.toggles
    /\ spent'.crashes >= spent.crashes
    /\ Pending' - spent'.toggles <= Pending - spent.toggles
    /\ Coming' - spent'.starts <= Coming - spent.starts
    /\ proc'.st = "none" <=> proc.st = "none"
    /\ proc'.st = "up" => proc' = proc
    /\ \A n \in Nat : BuildsUpTo(n) => BuildsUpTo(n)'
    /\ file'.record.time <= day /\ \A i \in DOMAIN savers' : savers'[i].conf.record.time <= day
    /\ proc.st = "none" => savers' = <<>> /\ worker'.at = "none"
    /\ \/ Whole' => Whole /\ file'.record = file.record
       \/ Pending' - spent'.toggles < Pending - spent.toggles /\ proc.st # "none"
    /\ ~installing =>
          /\ worker'.at # "none" => worker'.day <= day
          /\ worker'.at = "fetch" => worker'.guard = conf.record /\ conf.record.time <= worker'.day
          /\ worker'.at = "download" => Offer(worker'.version)
          /\ \A i \in DOMAIN box' : box'[i].kind = "ready" => Offer(box'[i].version)

LEMMA CarriesBound == UpdateTyped /\ UpdateTyped' /\ BoundInv /\ Carries => BoundInv'
<1> SUFFICES ASSUME UpdateTyped, UpdateTyped', BoundInv, Carries PROVE BoundInv'
  OBVIOUS
<1>i. LifeInv /\ CheckInv /\ RecordInv /\ TriesInv
  BY DEF BoundInv
<1>e. /\ tries' = tries /\ asset' = asset /\ day' = day /\ installing' = installing /\ ui' = ui
      /\ conf'.record = conf.record
  BY DEF Carries
<1>n. /\ spent.starts \in Nat /\ spent.toggles \in Nat /\ spent.crashes \in Nat
      /\ spent'.starts \in Nat /\ spent'.toggles \in Nat /\ spent'.crashes \in Nat
      /\ Pending \in Nat /\ Coming \in Nat /\ Checking \in {0, 1}
      /\ Pending' \in Nat /\ Coming' \in Nat /\ Checking' \in {0, 1}
      /\ feed \in Versions /\ feed' \in Versions /\ day \in Nat /\ Versions \subseteq Nat
  BY Counts, CountsNext, ConstantFacts
<1>p. \A v \in Versions : Trying(v)' <= Trying(v) /\ Trying(v) \in Nat /\ Trying(v)' \in Nat
  BY <1>e DEF Carries, Trying
<1>c. Checking' <= Checking
  BY <1>e DEF Carries, Checking
<1>l. \A v \in Versions : (Live(v)' <=> Live(v)) /\ (Stale(v)' <=> Stale(v)) /\ Top(v)' = Top(v)
  BY <1>e DEF Live, Stale, Top
<1>s. \A v \in Versions : Spare(v)' >= Spare(v) /\ Losses(v)' >= Losses(v)
                          /\ Spare(v) \in Int /\ Spare(v)' \in Int /\ Losses(v) \in Nat /\ Losses(v)' \in Nat
  <2> SUFFICES ASSUME NEW v \in Versions
               PROVE  Spare(v)' >= Spare(v) /\ Losses(v)' >= Losses(v)
                          /\ Spare(v) \in Int /\ Spare(v)' \in Int /\ Losses(v) \in Nat /\ Losses(v)' \in Nat
    OBVIOUS
  <2>1. /\ spent'.starts >= spent.starts /\ spent'.toggles >= spent.toggles
        /\ spent'.crashes >= spent.crashes
        /\ Pending' - spent'.toggles <= Pending - spent.toggles
        /\ Coming' - spent'.starts <= Coming - spent.starts
    BY DEF Carries
  <2> QED  BY <1>n, <1>p, <1>l, <2>1 DEF Spare, Losses
<1>r. \A v \in Versions : Unrecorded(v)' = Unrecorded(v)
  BY <1>e DEF Unrecorded, Carries
<1>k. \A r \in Records, v \in Versions : CountedIn(r, v)' = CountedIn(r, v)
  BY <1>e DEF CountedIn
<1>b. \A n \in Nat : BuildsUpTo(n) => BuildsUpTo(n)'
  BY DEF Carries
<1>t. \A v \in Versions : /\ Top(v) \in Nat /\ Top(v) <= v /\ v - 1 <= Top(v) /\ asset[v] <= Top(v)
                          /\ \A u \in Versions : u <= v => Top(u) <= Top(v)
  BY <1>i, TopBounds
<1>1. LifeInv'
  <2>1. (\A v \in Versions : asset[v] <= v)'
    BY <1>i, <1>e DEF LifeInv
  <2>2. (proc.st = "none" => savers = <<>> /\ worker.at = "none")'
    BY DEF Carries
  <2>3. (ui = "record" => installing)'
    BY <1>i, <1>e DEF LifeInv
  <2>4. (day >= 1 /\ conf.record.time <= day /\ file.record.time <= day)'
    BY <1>i, <1>e DEF LifeInv, Carries
  <2>5. (\A i \in DOMAIN savers : savers[i].conf.record.time <= day)'
    BY <1>e DEF Carries
  <2>6. (Pending <= spent.toggles)'
    BY <1>i, <1>n DEF LifeInv, Carries
  <2>7. (Coming + Checking <= spent.starts)'
    BY SMTT(30), <1>i, <1>n, <1>c DEF LifeInv, Carries
  <2>8. (\A v \in Versions : v > feed => tries[v] = 0)'
    BY <1>i, <1>e, <1>n DEF LifeInv, Carries
  <2>9. BuildsUpTo(Top(feed))'
    <3>1. Top(feed) \in Nat /\ Top(feed') \in Nat /\ Top(feed) <= Top(feed')
      BY <1>t, <1>n DEF Carries
    <3>2. BuildsUpTo(Top(feed'))
      BY <1>i, <3>1, BuildsBounds DEF LifeInv
    <3>3. Top(feed)' = Top(feed')
      BY <1>e DEF Top, Stale
    <3>4. (\A c \in Copies : disk'[c] <= Top(feed'))
          /\ (\A i \in DOMAIN helpers' : helpers'[i].build <= Top(feed'))
      BY <1>b, <3>1, <3>2 DEF BuildsUpTo
    <3> QED  BY <3>3, <3>4 DEF BuildsUpTo
  <2> QED  BY <2>1, <2>2, <2>3, <2>4, <2>5, <2>6, <2>7, <2>8, <2>9 DEF LifeInv
<1>o. \A v \in Versions : Offer(v) => Offer(v)'
  <2> SUFFICES ASSUME NEW v \in Versions, Offer(v) PROVE Offer(v)'
    OBVIOUS
  <2>1. v <= feed'
    BY <1>n DEF Offer, Carries
  <2>2. BuildsUpTo(Top(v))'
    <3>1. Top(v)' = Top(v) /\ Top(v) \in Nat
      BY <1>l, <1>t
    <3>2. (\A c \in Copies : disk'[c] <= Top(v)) /\ (\A i \in DOMAIN helpers' : helpers'[i].build <= Top(v))
      BY <3>1, <1>b DEF BuildsUpTo, Offer
    <3> QED  BY <3>1, <3>2 DEF BuildsUpTo
  <2> QED  BY <1>l, <1>e, <2>1, <2>2 DEF Offer
<1>v. \A v : Offer(v) => v \in Versions
  BY DEF Offer
<1>2. CheckInv'
  BY <1>o, <1>v, <1>e DEF CheckInv, Carries
<1>3. RecordInv'
  BY <1>i, <1>e, <1>l DEF RecordInv, Carries
<1>4. TriesInv'
  <2>1. LoopIsBounded'
    BY <1>i, <1>e, <1>s, Counts DEF TriesInv, LoopIsBounded, kMaxUpdateRetries
  <2>2. (\A v \in Versions : Live(v) /\ tries[v] > 0 => BuildsUpTo(Top(v)))'
    <3> SUFFICES ASSUME NEW v \in Versions, Live(v)', tries'[v] > 0 PROVE BuildsUpTo(Top(v))'
      OBVIOUS
    <3>1. Top(v)' = Top(v) /\ Top(v) \in Nat /\ BuildsUpTo(Top(v))
      BY <1>i, <1>l, <1>e, <1>t DEF TriesInv
    <3>2. (\A c \in Copies : disk'[c] <= Top(v)) /\ (\A i \in DOMAIN helpers' : helpers'[i].build <= Top(v))
      BY <3>1, <1>b DEF BuildsUpTo
    <3> QED  BY <3>1, <3>2 DEF BuildsUpTo
  <2>3. (proc.st # "none" => \A v \in Versions : Live(v) => Claim(conf.record, v))'
    <3> SUFFICES ASSUME proc'.st # "none", NEW v \in Versions, Live(v)' PROVE Claim(conf.record, v)'
      OBVIOUS
    <3>1. Claim(conf.record, v)
      BY <1>i, <1>l DEF TriesInv, Carries
    <3>2. /\ CountedIn(conf.record, v)' = CountedIn(conf.record, v)
          /\ CountedIn(conf.record, v) \in Nat /\ Unrecorded(v)' = Unrecorded(v) /\ Unrecorded(v) \in Nat
      BY <1>k, <1>e, <1>r, Counts DEF CountedIn
    <3> QED  BY <3>1, <3>2, <1>s, <1>e, Counts DEF Claim
  <2>4. (Whole => \A v \in Versions : Live(v) => Claim(file.record, v))'
    <3> SUFFICES ASSUME Whole', NEW v \in Versions, Live(v)' PROVE Claim(file.record, v)'
      OBVIOUS
    <3>n. CountedIn(file.record, v)' \in 0 .. 3 /\ Unrecorded(v) \in {0, 1} /\ tries[v] \in Nat
      BY Counts, CountsNext
    <3>1. CASE Whole /\ file'.record = file.record
      <4>1. Claim(file.record, v)
        BY <1>i, <1>l, <3>1 DEF TriesInv
      <4>2. /\ CountedIn(file.record, v)' = CountedIn(file.record, v)
            /\ CountedIn(file.record, v) \in Nat /\ Unrecorded(v)' = Unrecorded(v) /\ Unrecorded(v) \in Nat
        BY <3>1, <1>e, <1>r, Counts DEF CountedIn
      <4> QED  BY <4>1, <4>2, <1>s, <1>e, Counts DEF Claim
    <3>2. CASE Pending' - spent'.toggles < Pending - spent.toggles /\ proc.st # "none"
      <4>1. tries[v] <= 3 * Spare(v) + 3
        BY <1>i, <1>l, <3>2, ClaimBounds DEF TriesInv
      <4>2. Spare(v)' >= Spare(v) + 1
        <5>1. /\ spent'.starts >= spent.starts /\ spent'.crashes >= spent.crashes
              /\ Coming' - spent'.starts <= Coming - spent.starts
          BY DEF Carries
        <5> QED  BY <1>n, <1>p, <1>l, <3>2, <5>1 DEF Spare
      <4> QED  BY <4>1, <4>2, <1>s, <1>e, <1>r, <3>n DEF Claim
    <3> QED  BY <3>1, <3>2 DEF Carries
  <2> QED  BY <2>1, <2>2, <2>3, <2>4 DEF TriesInv
<1> QED  BY <1>1, <1>2, <1>3, <1>4 DEF BoundInv

LEMMA UserCarries ==
    ASSUME UpdateTyped, UpdateTyped', BoundInv
    PROVE  /\ \A c \in Copies : UserStarts(c) => Carries
           /\ UpdateTimer \/ CheckNow \/ ToggleChecks \/ SaveTimer => Carries
           /\ ApplyFinished \/ RefuseInstall \/ HandleClose => Carries
           /\ SaverOpens => Carries
<1> USE DEF diskVars, dockVars, fileVars
<1>i. LifeInv /\ CheckInv
  BY DEF BoundInv
<1>t. /\ proc \in ProcSet /\ savers \in Seq(SaverSet) /\ box \in Seq(ReplySet) /\ worker \in CheckSet
      /\ launched \in [Copies -> Nat] /\ spent \in [starts : Nat, toggles : Nat, crashes : Nat]
      /\ conf \in Configs /\ saveDue \in BOOLEAN /\ helpers \in Seq(HelperSet)
  BY UpdateTypes DEF UpdateTyped
<1>n. /\ spent.starts \in Nat /\ spent.toggles \in Nat /\ spent.crashes \in Nat
      /\ Len(savers) \in Nat /\ Len(helpers) \in Nat
      /\ launched["portable"] \in Nat /\ launched["installed"] \in Nat
  BY <1>t, Counts DEF Copies
<1>l. /\ conf.record.time <= day /\ file.record.time <= day
      /\ \A i \in DOMAIN savers : savers[i].conf.record.time <= day
      /\ proc.st = "none" => savers = <<>> /\ worker.at = "none"
  BY <1>i DEF LifeInv
<1>c. ~installing =>
          /\ worker.at # "none" => worker.day <= day
          /\ worker.at = "fetch" => worker.guard = conf.record /\ conf.record.time <= worker.day
          /\ worker.at = "download" => Offer(worker.version)
          /\ \A i \in DOMAIN box : box[i].kind = "ready" => Offer(box[i].version)
  BY <1>i DEF CheckInv
<1>1. ASSUME NEW c \in Copies, UserStarts(c) PROVE Carries
  <2>1. Coming' = Coming + 1 /\ spent'.starts = spent.starts + 1 /\ spent'.toggles = spent.toggles
        /\ spent'.crashes = spent.crashes /\ Pending' = Pending
    <3>1. launched'["portable"] + launched'["installed"] = launched["portable"] + launched["installed"] + 1
      BY <1>1, <1>t, <1>n DEF UserStarts, Copies
    <3> QED  BY <1>1, <1>t, <1>n, <3>1 DEF UserStarts, Coming, Pending
  <2> QED  BY SMTT(30), <1>1, <2>1, <1>n, <1>l, <1>c, Counts DEF UserStarts, Carries, Whole, BuildsUpTo
<1>s. ASSUME NEW manual \in BOOLEAN, StartCheck(manual)
      PROVE  worker'.at = "fetch" /\ worker'.guard = conf.record /\ worker'.day = day
  BY <1>s DEF StartCheck, NoCheck
<1>2. ASSUME UpdateTimer PROVE Carries
  <2>1. worker'.at = "fetch" /\ worker'.guard = conf.record /\ worker'.day = day /\ proc.st = "up"
    BY <1>2, <1>s DEF UpdateTimer, Idle, DockRuns
  <2> QED  BY <1>2, <2>1, <1>n, <1>l, <1>c, Counts DEF UpdateTimer, Carries, Whole, BuildsUpTo, Pending, Coming
<1>3. ASSUME CheckNow PROVE Carries
  <2>1. worker'.at = "fetch" /\ worker'.guard = conf.record /\ worker'.day = day /\ proc.st = "up"
        /\ spent'.starts = spent.starts /\ spent'.toggles = spent.toggles + 1 /\ spent'.crashes = spent.crashes
    BY <1>3, <1>s, <1>t DEF CheckNow, Idle, DockRuns
  <2> QED  BY SMTT(30), <1>3, <2>1, <1>n, <1>l, <1>c, Counts DEF CheckNow, Carries, Whole, BuildsUpTo, Pending, Coming
<1>4. ASSUME ToggleChecks PROVE Carries
  <2>1. /\ proc.st = "up" /\ conf'.record = conf.record
        /\ spent'.starts = spent.starts /\ spent'.toggles = spent.toggles + 1 /\ spent'.crashes = spent.crashes
    BY <1>4, <1>t DEF ToggleChecks, Idle, DockRuns, Configs
  <2>2. Pending' <= Pending + 1 /\ Pending \in Nat /\ Pending' \in Nat
    BY <1>4, <1>n DEF ToggleChecks, Pending
  <2>3. worker' = worker \/ (worker'.at = "fetch" /\ worker'.guard = conf.record /\ worker'.day = day)
    BY <1>4, <1>s DEF ToggleChecks
  <2> QED  BY SMTT(30), <1>4, <2>1, <2>2, <2>3, <1>n, <1>l, <1>c, Counts
           DEF ToggleChecks, Carries, Whole, BuildsUpTo, Coming
<1>5. ASSUME SaveTimer PROVE Carries
  <2> DEFINE e == [conf |-> conf, truncated |-> FALSE]
  <2>1. e \in SaverSet
    BY <1>t DEF SaverSet
  <2>2. /\ savers' \in Seq(SaverSet) /\ Len(savers') = Len(savers) + 1
        /\ \A j \in 1 .. Len(savers) : savers'[j] = savers[j]
        /\ savers'[Len(savers) + 1] = e
    BY <1>5, <1>t, <2>1, AppendFacts DEF SaveTimer
  <2>3. DOMAIN savers' = 1 .. Len(savers) + 1 /\ DOMAIN savers = 1 .. Len(savers)
    BY <2>2, <1>t
  <2>4. \A i \in DOMAIN savers' : (i \in DOMAIN savers /\ savers'[i] = savers[i]) \/ savers'[i] = e
    BY <2>2, <2>3, <1>n
  <2>5. Whole' => Whole
    <3>1. \A i \in DOMAIN savers : i \in DOMAIN savers' /\ savers'[i] = savers[i]
      BY <2>2, <2>3, <1>n
    <3> QED  BY <3>1 DEF Whole
  <2>6. Pending' = Pending /\ proc.st = "up"
    BY <1>5, <2>2, <1>n DEF SaveTimer, Pending, Idle, DockRuns
  <2>7. \A i \in DOMAIN savers' : savers'[i].conf.record.time <= day
    BY <2>4, <1>l
  <2> HIDE DEF e
  <2> QED  BY SMTT(30), <1>5, <2>5, <2>6, <2>7, <1>n, <1>l, <1>c, Counts DEF SaveTimer, Carries, BuildsUpTo, Coming
<1>6. ASSUME ApplyFinished \/ RefuseInstall PROVE Carries
  <2>1. box # <<>> /\ box' = Tail(box) /\ proc.st = "up" /\ ui = "idle"
    BY <1>6 DEF ApplyFinished, RefuseInstall, Posted, Idle, DockRuns
  <2>2. \A i \in DOMAIN box' : i + 1 \in DOMAIN box /\ box'[i] = box[i + 1]
    <3>1. box' \in Seq(ReplySet) /\ Len(box') = Len(box) - 1 /\ Len(box) \in Nat
          /\ \A j \in 1 .. Len(box) - 1 : box'[j] = box[j + 1]
      BY <1>t, <2>1, TailFacts
    <3>2. DOMAIN box' = 1 .. Len(box) - 1 /\ DOMAIN box = 1 .. Len(box)
      BY <3>1, <1>t
    <3> QED  BY <3>1, <3>2
  <2>3. UNCHANGED <<diskVars, day, launched, proc, ui, conf, saveDue, installing,
                    fileVars, worker, helpers, tries, spent>>
    BY <1>6 DEF ApplyFinished, RefuseInstall
  <2> QED  BY SMTT(30), <2>1, <2>2, <2>3, <1>n, <1>l, <1>c, Counts DEF Carries, Whole, BuildsUpTo, Pending, Coming
<1>7. ASSUME HandleClose PROVE Carries
  <2>1. proc.st = "up" /\ proc'.st = "closing" /\ box' = <<>> /\ saveDue' = FALSE /\ ui = "idle"
    BY <1>7, <1>t DEF HandleClose, Posted, Idle, DockRuns, Close, ProcSet
  <2>2. Pending' <= Pending /\ Pending' \in Nat /\ Pending \in Nat
    BY <1>7, <2>1, <1>n DEF Pending, HandleClose
  <2> QED  BY SMTT(30), <1>7, <2>1, <2>2, <1>n, <1>l, <1>c, Counts DEF HandleClose, Carries, Whole, BuildsUpTo, Coming
<1>8. ASSUME SaverOpens PROVE Carries
  <2>1. PICK i \in DOMAIN savers : /\ ~savers[i].truncated
                                   /\ savers' = [savers EXCEPT ![i].truncated = TRUE]
                                   /\ file' = Defaults
    BY <1>8 DEF SaverOpens
  <2>2. savers[i] \in SaverSet /\ \A j \in DOMAIN savers : savers[j] \in SaverSet
    BY <1>t
  <2>3. DOMAIN savers' = DOMAIN savers /\ savers'[i].truncated
        /\ (\A j \in DOMAIN savers : savers'[j].conf = savers[j].conf)
    BY <1>t, <2>1, <2>2 DEF SaverSet
  <2>4. Len(savers') = Len(savers) /\ savers # <<>>
    BY <1>t, <2>1
  <2>5. ~Whole'
    BY <2>1, <2>3 DEF Whole
  <2>6. UNCHANGED <<diskVars, day, launched, dockVars, worker, helpers, tries, spent>>
    BY <1>8 DEF SaverOpens
  <2>7. file'.record.time <= day
    BY <2>1, ConstantFacts, Counts DEF NoRecord
  <2>8. Pending' = Pending
    BY <2>4, <2>6 DEF Pending
  <2> QED  BY SMTT(30), <2>3, <2>4, <2>5, <2>6, <2>7, <2>8, <1>n, <1>l, <1>c, Counts DEF Carries, BuildsUpTo, Coming
<1> QED  BY <1>1, <1>2, <1>3, <1>4, <1>5, <1>6, <1>7, <1>8

LEMMA SaverWritesCarries ==
    ASSUME UpdateTyped, UpdateTyped', BoundInv, SaverWrites
    PROVE  Carries
<1> USE DEF diskVars, dockVars, fileVars
<1>i. LifeInv /\ CheckInv
  BY DEF BoundInv
<1>1. PICK i \in DOMAIN savers : savers' = RemoveAt(savers, i) /\ file' = savers[i].conf
  BY DEF SaverWrites
<1>2. UNCHANGED <<diskVars, day, launched, dockVars, worker, helpers, tries, spent>>
  BY DEF SaverWrites
<1>3. savers \in Seq(SaverSet)
  BY UpdateTypes DEF UpdateTyped
<1>4. /\ Len(savers') = Len(savers) - 1 /\ Len(savers) \in Nat
      /\ \A j \in DOMAIN savers' : \E k \in DOMAIN savers : savers'[j] = savers[k]
  BY <1>1, <1>3, RemoveAtFacts
<1>5. savers # <<>>
  BY <1>1, <1>3
<1>6. file'.record.time <= day /\ \A j \in DOMAIN savers' : savers'[j].conf.record.time <= day
  BY <1>i, <1>1, <1>4 DEF LifeInv
<1>7. Pending' = Pending - 1
  BY <1>2, <1>4 DEF Pending
<1>8. proc.st # "none"
  BY <1>i, <1>5 DEF LifeInv
<1> QED  BY <1>i, <1>2, <1>6, <1>7, <1>8, Counts DEF LifeInv, CheckInv, Carries, BuildsUpTo, Coming

\* What a check posts: never a download it has not found.
LEMMA PostKeeps ==
    ASSUME UpdateTyped, BoundInv, NEW kind \in {"finished", "ready"}, Post(kind),
           kind = "ready" => worker.at = "download"
    PROVE  /\ ui = "record" => Head(box') = Head(box)
           /\ ~installing => \A i \in DOMAIN box' : box'[i].kind = "ready" => Offer(box'[i].version)
<1>i. CheckInv
  BY DEF BoundInv
<1>t. box \in Seq(ReplySet) /\ worker \in CheckSet
  BY UpdateTypes DEF UpdateTyped
<1>1. CASE box' = box
  BY <1>i, <1>1 DEF CheckInv
<1>2. CASE box' = Append(box, Reply(kind))
  <2> DEFINE e == Reply(kind)
  <2>1. e \in ReplySet /\ e.kind = kind /\ e.version = worker.version
    BY <1>t DEF Reply, CheckSet, ReplySet
  <2>2. /\ box' \in Seq(ReplySet) /\ Len(box') = Len(box) + 1 /\ Len(box) \in Nat
        /\ \A j \in 1 .. Len(box) : box'[j] = box[j]
        /\ box'[Len(box) + 1] = e
        /\ box # <<>> => Head(box') = Head(box)
    BY <1>t, <1>2, <2>1, AppendFacts
  <2>3. DOMAIN box' = 1 .. Len(box) + 1 /\ DOMAIN box = 1 .. Len(box)
    BY <2>2, <1>t
  <2>4. \A i \in DOMAIN box' : (i \in DOMAIN box /\ box'[i] = box[i]) \/ box'[i] = e
    BY <2>2, <2>3
  <2>5. ui = "record" => box # <<>>
    BY DEF UpdateTyped
  <2> HIDE DEF e
  <2> QED  BY <1>i, <2>1, <2>2, <2>4, <2>5 DEF CheckInv
<1> QED  BY <1>1, <1>2 DEF Post

LEMMA CheckCarries ==
    ASSUME UpdateTyped, UpdateTyped', BoundInv, Check
    PROVE  Carries
<1> USE DEF diskVars, dockVars, fileVars
<1>i. LifeInv /\ CheckInv
  BY DEF BoundInv
<1>1. CheckUnchanged
  BY DEF Check, FetchFails, UpToDate, Skipped, Offered, Downloaded, DownloadFails
<1>2. worker.at # "none"
  BY DEF Check, FetchFails, UpToDate, Skipped, Offered, Downloaded, DownloadFails
<1>3. proc.st # "none"
  BY <1>i, <1>2 DEF LifeInv
<1>t. worker \in CheckSet
  BY UpdateTypes DEF UpdateTyped
<1>q. ASSUME QuietEnd
      PROVE  /\ ui = "record" => Head(box') = Head(box)
             /\ ~installing => \A i \in DOMAIN box' : box'[i].kind = "ready" => Offer(box'[i].version)
  BY <1>i, <1>q DEF QuietEnd, CheckInv
<1>4. /\ ui = "record" => Head(box') = Head(box)
      /\ ~installing => \A i \in DOMAIN box' : box'[i].kind = "ready" => Offer(box'[i].version)
  <2>1. CASE FetchFails
    BY <2>1, <1>q, PostKeeps DEF FetchFails
  <2>2. CASE UpToDate
    BY <2>2, PostKeeps DEF UpToDate
  <2>3. CASE Skipped
    BY <2>3, <1>q, PostKeeps DEF Skipped
  <2>4. CASE Offered
    BY <1>i, <2>4 DEF Offered, CheckInv
  <2>5. CASE Downloaded
    BY <2>5, PostKeeps DEF Downloaded
  <2>6. CASE DownloadFails
    <3>1. CASE worker.retry
      BY <1>i, <2>6, <3>1 DEF DownloadFails, CheckInv
    <3>2. CASE ~worker.retry
      BY <2>6, <3>2, PostKeeps DEF DownloadFails
    <3> QED  BY <3>1, <3>2
  <2> QED  BY <2>1, <2>2, <2>3, <2>4, <2>5, <2>6 DEF Check
<1>5. ~installing => /\ worker'.at # "none" => worker'.day <= day
                     /\ worker'.at # "fetch"
                     /\ worker'.at = "download" => Offer(worker'.version)
  <2>1. CASE worker' = NoCheck
    BY <2>1, ConstantFacts
  <2>2. CASE Offered
    <3> SUFFICES ASSUME ~installing PROVE worker'.at = "download" /\ worker'.day <= day /\ Offer(worker'.version)
      OBVIOUS
    <3>1. worker'.at = "download" /\ worker'.day = worker.day /\ worker'.version = feed
      BY <1>t, <2>2 DEF Offered, CheckSet
    <3>2. worker.day <= day /\ worker.guard = conf.record /\ conf.record.time <= worker.day
      BY <1>i, <2>2 DEF Offered, CheckInv
    <3>3. ~Guarded(conf.record, feed, worker.day)
      BY <2>2, <3>2 DEF Offered
    <3>4. day >= 1 /\ day \in Nat /\ worker.day \in Nat /\ conf.record.time \in Nat
      BY <1>i, <1>t, Counts DEF LifeInv, CheckSet, Records
    <3>5. conf.record.version = feed => conf.record.time < day
      BY <3>2, <3>3, <3>4 DEF Guarded, Cooldown
    <3>6. Live(feed) /\ BuildsUpTo(Top(feed))
      BY <1>i DEF LifeInv, Live
    <3>7. feed \in Versions /\ feed <= feed
      <4>1. feed \in Versions
        BY Counts
      <4>2. feed \in Nat
        BY <4>1, ConstantFacts
      <4> QED  BY <4>1, <4>2
    <3>8. Offer(feed)
      BY <3>5, <3>6, <3>7 DEF Offer
    <3> QED  BY <3>1, <3>2, <3>8
  <2>3. CASE DownloadFails /\ worker.retry
    <3>1. worker'.at = "download" /\ worker'.day = worker.day /\ worker'.version = worker.version /\ worker.at = "download"
      BY <1>t, <2>3 DEF DownloadFails, CheckSet
    <3> QED  BY <1>i, <3>1 DEF CheckInv
  <2> QED  BY <2>1, <2>2, <2>3 DEF Check, FetchFails, UpToDate, Skipped, Downloaded, DownloadFails, CheckOver
<1>6. Pending' = Pending /\ Coming' = Coming /\ (Whole' <=> Whole)
  BY <1>1 DEF CheckUnchanged, Pending, Coming, Whole
<1>7. \A n \in Nat : BuildsUpTo(n) => BuildsUpTo(n)'
  BY <1>1 DEF CheckUnchanged, BuildsUpTo
<1>8. file'.record.time <= day /\ \A i \in DOMAIN savers' : savers'[i].conf.record.time <= day
  BY <1>i, <1>1 DEF CheckUnchanged, LifeInv
<1> QED  BY <1>1, <1>3, <1>4, <1>5, <1>6, <1>7, <1>8, Counts DEF CheckUnchanged, Carries

LEMMA HelperCarries ==
    ASSUME UpdateTyped, UpdateTyped', BoundInv, HelperStep
    PROVE  Carries
<1> USE DEF diskVars, dockVars, fileVars
<1>i. LifeInv /\ CheckInv
  BY DEF BoundInv
<1>1. PICK i \in DOMAIN helpers : Moves(i) \/ ClosesDock(i) \/ Replaces(i)
  BY DEF HelperStep
<1>t. /\ helpers \in Seq(HelperSet) /\ disk \in [Copies -> Builds] /\ launched \in [Copies -> Nat]
      /\ proc \in ProcSet
  BY UpdateTypes DEF UpdateTyped
<1>2. /\ helpers[i] \in HelperSet /\ Len(helpers) \in Nat
      /\ Len(RemoveAt(helpers, i)) = Len(helpers) - 1
      /\ \A j \in DOMAIN RemoveAt(helpers, i) : \E k \in DOMAIN helpers : RemoveAt(helpers, i)[j] = helpers[k]
  BY <1>t, RemoveAtFacts
<1>3. helpers[i].copy \in Copies /\ "installed" \in Copies
  BY <1>2 DEF HelperSet, Copies
<1>n. launched["portable"] \in Nat /\ launched["installed"] \in Nat
  BY <1>t DEF Copies
<1>u. HelperUnchanged
  BY <1>1 DEF Moves, ClosesDock, Replaces
<1>4. Coming' <= Coming
  <2>1. CASE Moves(i)
    <3>1. Len(helpers') = Len(helpers) - 1
      BY <1>2, <2>1 DEF Moves
    <3>2. launched'["portable"] + launched'["installed"] = launched["portable"] + launched["installed"] + 1
      BY <1>t, <1>n, <1>3, <2>1 DEF Moves, Copies
    <3>3. launched'["portable"] \in Nat /\ launched'["installed"] \in Nat
      BY CountsNext DEF Copies
    <3> QED  BY <1>2, <1>n, <3>1, <3>2, <3>3 DEF Coming
  <2>2. CASE ClosesDock(i)
    <3>1. Len(helpers') = Len(helpers) /\ launched' = launched
      BY <1>t, <2>2 DEF ClosesDock
    <3> QED  BY <1>2, <1>n, <3>1 DEF Coming
  <2>3. CASE Replaces(i)
    <3>1. Len(helpers') = Len(helpers) - 1
      BY <1>2, <2>3 DEF Replaces
    <3>2. launched' = launched \/ launched' = [launched EXCEPT !["installed"] = @ + 1]
      BY <2>3 DEF Replaces, Relaunched
    <3>3. launched'["portable"] = launched["portable"]
          /\ launched'["installed"] \in {launched["installed"], launched["installed"] + 1}
      BY <1>t, <1>3, <3>2 DEF Copies
    <3> QED  BY <1>2, <1>n, <3>1, <3>3 DEF Coming
  <2> QED  BY <1>1, <2>1, <2>2, <2>3
<1>5. ASSUME NEW n \in Nat, BuildsUpTo(n) PROVE BuildsUpTo(n)'
  <2>1. helpers[i].build <= n /\ \A c \in Copies : disk[c] <= n
    BY <1>5 DEF BuildsUpTo
  <2>2. \A c \in Copies : disk'[c] <= n
    BY <1>1, <1>t, <1>3, <2>1 DEF Moves, ClosesDock, Replaces
  <2>3. \A j \in DOMAIN helpers' : helpers'[j].build <= n
    <3>1. CASE ClosesDock(i)
      <4>1. helpers' = [helpers EXCEPT ![i].at = "replace"]
        BY <3>1 DEF ClosesDock
      <4>2. DOMAIN helpers' = DOMAIN helpers /\ \A j \in DOMAIN helpers : helpers'[j].build = helpers[j].build
        BY <1>t, <1>2, <4>1 DEF HelperSet
      <4> QED  BY <1>5, <4>2 DEF BuildsUpTo
    <3>2. CASE helpers' = RemoveAt(helpers, i)
      BY <1>2, <1>5, <3>2 DEF BuildsUpTo
    <3> QED  BY <1>1, <3>1, <3>2 DEF Moves, Replaces
  <2> QED  BY <2>2, <2>3 DEF BuildsUpTo
<1>6. /\ proc' = proc \/ (proc.st = "up" /\ proc'.st = "closing" /\ ui = "idle")
      /\ box' = box \/ (box' = <<>> /\ ui = "idle")
      /\ saveDue' = saveDue \/ saveDue' = FALSE
  BY <1>1, <1>t DEF Moves, ClosesDock, Replaces, Close, DockRuns, ProcSet
<1>7. Pending' <= Pending /\ Pending' \in Nat /\ Pending \in Nat
  <2>1. savers' = savers
    BY <1>u DEF HelperUnchanged
  <2> QED  BY <1>6, <2>1, Counts, CountsNext DEF Pending
<1>8. Coming \in Nat /\ Coming' \in Nat /\ spent' = spent /\ spent.starts \in Nat /\ spent.toggles \in Nat
      /\ spent.crashes \in Nat /\ day \in Nat
  BY <1>u, Counts, CountsNext DEF HelperUnchanged
<1>9. ~installing => \A j \in DOMAIN box' : box'[j].kind = "ready" => Offer(box'[j].version)
  BY <1>i, <1>6 DEF CheckInv
<1>10. ui = "record" => Head(box') = Head(box)
  BY <1>6
<1>11. /\ proc'.st = "none" <=> proc.st = "none"
       /\ proc'.st = "up" => proc' = proc
  BY <1>6
<1>12. /\ file'.record.time <= day /\ \A j \in DOMAIN savers' : savers'[j].conf.record.time <= day
       /\ proc.st = "none" => savers' = <<>> /\ worker'.at = "none"
       /\ Whole' => Whole /\ file'.record = file.record
  BY <1>i, <1>u DEF HelperUnchanged, LifeInv, Whole
<1>13. ~installing =>
          /\ worker'.at # "none" => worker'.day <= day
          /\ worker'.at = "fetch" => worker'.guard = conf.record /\ conf.record.time <= worker'.day
          /\ worker'.at = "download" => Offer(worker'.version)
  BY <1>i, <1>u DEF HelperUnchanged, CheckInv
<1> QED  BY <1>4, <1>5, <1>7, <1>8, <1>9, <1>10, <1>11, <1>12, <1>13, <1>u DEF HelperUnchanged, Carries

LEMMA WorldCarries ==
    ASSUME UpdateTyped, UpdateTyped', BoundInv, Release \/ UNCHANGED updateVars
    PROVE  Carries
<1> USE DEF diskVars, dockVars, fileVars, updateVars
<1>i. LifeInv /\ CheckInv
  BY DEF BoundInv
<1>1. Pending' = Pending /\ Coming' = Coming /\ (Whole' <=> Whole)
  BY DEF Release, Pending, Coming, Whole
<1>2. \A n \in Nat : BuildsUpTo(n) => BuildsUpTo(n)'
  BY DEF Release, BuildsUpTo
<1> QED  BY <1>i, <1>1, <1>2, Counts DEF Release, Carries, LifeInv, CheckInv

\* What of the invariant every step on the same day keeps that leaves the numbers
\* of installs alone.
LEMMA SameTries ==
    ASSUME UpdateTyped, BoundInv, UNCHANGED <<tries, asset>>,
           spent'.starts >= spent.starts, spent'.toggles >= spent.toggles, spent'.crashes >= spent.crashes,
           spent' \in [starts : Nat, toggles : Nat, crashes : Nat]
    PROVE  /\ LoopIsBounded'
           /\ \A v \in Versions : (Live(v)' <=> Live(v)) /\ (Stale(v)' <=> Stale(v)) /\ Top(v)' = Top(v)
<1>1. LoopIsBounded
  BY DEF BoundInv, TriesInv
<1>2. \A v \in Versions : Losses(v)' >= Losses(v) /\ Losses(v) \in Nat /\ Losses(v)' \in Nat
  BY Counts DEF Losses, Stale
<1>3. LoopIsBounded'
  BY <1>1, <1>2, Counts DEF LoopIsBounded, kMaxUpdateRetries
<1> QED  BY <1>3 DEF Live, Stale, Top

\* A dock that begins drops the record of what it is, and grants what it is not
\* another try.
LEMMA BeginBound ==
    ASSUME UpdateTyped, UpdateTyped', BoundInv, NEW c \in Copies, Begin(c)
    PROVE  BoundInv'
<1> USE DEF diskVars, dockVars, fileVars
<1>i. LifeInv /\ CheckInv /\ RecordInv /\ TriesInv
  BY DEF BoundInv
<1>t. /\ launched \in [Copies -> Nat] /\ launched["portable"] \in Nat /\ launched["installed"] \in Nat
      /\ Len(helpers) \in Nat /\ spent.starts \in Nat /\ spent.toggles \in Nat /\ spent.crashes \in Nat
      /\ Coming \in Nat
  BY Counts, UpdateTypes DEF UpdateTyped, Copies
<1>u. UNCHANGED <<diskVars, day, savers, worker, helpers, tries, spent>>
  BY DEF Begin
<1>1. CASE UNCHANGED <<dockVars, file>>
  <2>1. Coming' <= Coming /\ Coming' \in Nat
    <3>1. launched'["portable"] + launched'["installed"] <= launched["portable"] + launched["installed"]
      BY <1>1, <1>t DEF Begin, Copies, HandsOff
    <3>2. launched'["portable"] \in Nat /\ launched'["installed"] \in Nat
      BY CountsNext DEF Copies
    <3> QED  BY SMTT(30), <1>t, <1>u, <3>1, <3>2 DEF Coming
  <2>2. Pending' = Pending /\ (Whole' <=> Whole) /\ Pending \in Nat
    BY <1>1, <1>u, Counts DEF Pending, Whole
  <2>3. \A n \in Nat : BuildsUpTo(n) => BuildsUpTo(n)'
    BY <1>u DEF BuildsUpTo
  <2>4. Carries
    BY <1>i, <1>1, <1>t, <1>u, <2>1, <2>2, <2>3, Counts DEF Carries, LifeInv, CheckInv
  <2> QED  BY <2>4, CarriesBound
<1>2. CASE ~UNCHANGED <<dockVars, file>>
  <2>1. /\ launched[c] > 0 /\ proc.st = "none"
        /\ launched' = [launched EXCEPT ![c] = @ - 1]
        /\ proc' = [st |-> "up", copy |-> c, ver |-> disk[c]]
        /\ conf' = Reconciled(file, disk[c])
        /\ file' = conf'
        /\ ui' = "idle" /\ saveDue' = FALSE
        /\ inFlight' = FALSE /\ installing' = FALSE
        /\ box' = <<>>
    BY <1>2 DEF Begin
  <2>2. savers = <<>> /\ worker.at = "none"
    BY <1>i, <2>1 DEF LifeInv
  <2>3. Coming' = Coming - 1
    <3>1. launched'["portable"] + launched'["installed"] = launched["portable"] + launched["installed"] - 1
      BY <2>1, <1>t DEF Copies
    <3>2. launched'["portable"] \in Nat /\ launched'["installed"] \in Nat
      BY CountsNext DEF Copies
    <3> QED  BY SMTT(30), <1>t, <1>u, <3>1, <3>2 DEF Coming
  <2>4. Pending' <= Pending /\ Pending \in Nat /\ Pending' \in Nat
    BY <2>1, <1>u, Counts, CountsNext DEF Pending
  <2>5. /\ LoopIsBounded'
        /\ \A v \in Versions : (Live(v)' <=> Live(v)) /\ (Stale(v)' <=> Stale(v)) /\ Top(v)' = Top(v)
    BY SMTT(30), <1>u, <1>t, CountsNext, SameTries, UpdateTypes DEF UpdateTyped
  <2>6. \A n : BuildsUpTo(n)' <=> BuildsUpTo(n)
    BY <1>u DEF BuildsUpTo
  <2> DEFINE b == disk[c]
             r == file.record
             s == conf'.record
  <2>7. /\ b \in Builds /\ b \in Nat /\ r \in Records /\ s \in Records /\ r.version \in Nat
        /\ r.time \in Nat /\ r.attempts \in 0 .. 2 /\ r.time <= day /\ day \in Nat /\ day >= 1
    <3>1. r \in Records /\ s \in Records /\ b \in Builds
      BY Counts, CountsNext
    <3> QED  BY <1>i, <3>1, Counts, ConstantFacts DEF Records, LifeInv, kMaxUpdateRetries, Builds
  <2>8. \/ s = r /\ r.version = 0
        \/ s = NoRecord /\ r.version # 0 /\ r.version <= b
        \/ s = r /\ r.version > b /\ r.attempts = 2
        \/ s = [version |-> r.version, time |-> 0, attempts |-> r.attempts + 1]
           /\ r.version > b /\ r.attempts < 2
    <3>1. conf' = Reconciled(file, b) /\ file \in Configs
      BY <2>1, UpdateTypes DEF UpdateTyped
    <3> QED  BY <2>7, <3>1 DEF Reconciled, Configs, IsNewer, kMaxUpdateRetries
  <2>9. file'.record = s /\ s.time <= day
    BY <2>1, <2>7, <2>8, Counts DEF NoRecord
  <2>10. Whole
    BY <2>2 DEF Whole
  <2>11. \A v \in Versions : Unrecorded(v) = 0 /\ Unrecorded(v)' = 0
    <3>1. ui = "idle"
      BY <2>1, UpdateTypes DEF UpdateTyped, DockRuns
    <3> QED  BY <2>1, <3>1 DEF Unrecorded
  <2>12. ASSUME NEW v \in Versions, Live(v)' PROVE Claim(conf.record, v)'
    <3>1. Claim(r, v) /\ Live(v)
      BY <1>i, <2>5, <2>10, <2>12 DEF TriesInv
    <3>2. Trying(v)' \in {0, 1} /\ Trying(v) = 0 /\ (Trying(v)' = 1 => b < v)
      BY <2>1 DEF Trying
    <3>3. /\ Spare(v) \in Nat /\ Spare(v)' \in Int /\ Spare(v)' >= Spare(v)
          /\ Trying(v)' = 0 /\ ~Stale(v) => Spare(v)' >= Spare(v) + 1
      <4>1. Spare(v) \in Nat
        BY <1>i, SpareBounds
      <4>2. spent' = spent /\ Pending' <= Pending /\ (Stale(v)' <=> Stale(v))
        BY <1>u, <2>4, <2>5
      <4>3. CASE Stale(v)
        BY <4>1, <4>2, <4>3, <1>t, <2>4 DEF Spare
      <4>4. CASE ~Stale(v)
        <5>1. PICK q \in Nat : q = Pending' /\ q <= Pending
          BY <2>4
        <5>2. PICK w \in {0, 1} : w = Trying(v)'
          BY <3>2
        <5>3. Spare(v) = spent.toggles + spent.crashes - Pending + (spent.starts - Coming)
          BY <4>4, <3>2, <1>t DEF Spare
        <5>4. Spare(v)' = spent.toggles + spent.crashes - q + (spent.starts - (Coming - 1) - w)
          BY <4>2, <4>4, <2>3, <5>1, <5>2 DEF Spare
        <5>5. q <= Pending /\ Pending \in Nat /\ q \in Nat /\ w \in {0, 1}
          BY <5>1, Counts
        <5>6. spent.toggles \in Nat /\ spent.crashes \in Nat /\ spent.starts \in Nat /\ Coming \in Nat
          BY <1>t
        <5> DEFINE n == spent.toggles + spent.crashes - q + (spent.starts - (Coming - 1) - w)
                   m == spent.toggles + spent.crashes - Pending + (spent.starts - Coming)
        <5>7. n \in Int /\ n >= m /\ (w = 0 => n >= m + 1)
          BY <5>5, <5>6
        <5>8. Spare(v) = m /\ Spare(v)' = n
          BY <5>3, <5>4
        <5> HIDE DEF n, m
        <5> QED  BY <4>1, <5>2, <5>7, <5>8
      <4> QED  BY <4>3, <4>4
    <3>4. tries[v] \in Nat /\ v \in Nat
      BY Counts, ConstantFacts
    <3>7. day' = day
      BY <1>u
    <3>5. tries[v] <= 3 * Spare(v) + CountedIn(r, v) /\ CountedIn(r, v) \in 0 .. 3
      <4>1. CountedIn(r, v) \in 0 .. 3
        BY <2>7, Counts
      <4> QED  BY <3>1, <3>3, <3>4, <2>11, <4>1 DEF Claim
    <3>6. CountedIn(conf.record, v)' \in 0 .. 3
      BY <2>7, <3>7 DEF CountedIn, Records, kMaxUpdateRetries
    <3>8. tries[v] <= 3 * Spare(v)' + CountedIn(conf.record, v)'
      <4>1. CASE r.version # v
        <5>1. CountedIn(r, v) = 0
          BY <4>1 DEF CountedIn
        <5> QED  BY <3>3, <3>4, <3>5, <3>6, <5>1
      <4>2. CASE s = r
        <5>1. CountedIn(conf.record, v)' = CountedIn(r, v)
          BY <4>2, <3>7 DEF CountedIn
        <5> QED  BY <3>3, <3>4, <3>5, <5>1
      <4>3. CASE r.version = v /\ s = NoRecord /\ v <= b
        <5>1. CASE tries[v] = 0
          BY <3>3, <3>4, <3>6, <5>1
        <5>2. CASE tries[v] > 0
          <6>1. BuildsUpTo(Top(v))
            BY <1>i, <3>1, <5>2 DEF TriesInv
          <6>2. b <= Top(v)
            BY <6>1 DEF BuildsUpTo
          <6>3. ~Stale(v)
            BY <6>2, <4>3, <2>7, <3>4 DEF Top
          <6>4. Trying(v)' = 0
            BY <3>2, <4>3, <2>7, <3>4
          <6> QED  BY <3>3, <3>4, <3>5, <3>6, <6>3, <6>4
        <5> QED  BY <5>1, <5>2, <3>4
      <4>4. CASE r.version = v /\ s = [version |-> r.version, time |-> 0, attempts |-> r.attempts + 1]
        <5>1. CountedIn(conf.record, v)' = r.attempts + 1
          BY <4>4, <3>7, <2>7 DEF CountedIn
        <5>2. CountedIn(r, v) <= r.attempts + 1
          BY <2>7 DEF CountedIn
        <5> QED  BY <3>3, <3>4, <3>5, <5>1, <5>2, <2>7
      <4> QED  BY <2>8, <4>1, <4>2, <4>3, <4>4
    <3> HIDE DEF s, r
    <3> QED  BY <3>8, <2>11, <1>u, <3>3, <3>4, <3>6 DEF Claim
  <2>13. LifeInv'
    <3>1. Checking' = 1 /\ Checking \in {0, 1}
      BY <2>1 DEF Checking
    <3>2. Coming' + Checking' <= spent'.starts
      BY <1>i, <1>t, <1>u, <2>3, <3>1 DEF LifeInv
    <3>3. Pending' <= spent'.toggles
      BY <1>i, <1>t, <1>u, <2>4 DEF LifeInv
    <3>4. (day >= 1 /\ conf.record.time <= day /\ file.record.time <= day)'
      BY <1>i, <1>u, <2>9 DEF LifeInv
    <3>5. BuildsUpTo(Top(feed))'
      <4>1. feed' = feed /\ feed \in Versions
        BY <1>u, Counts
      <4>2. Top(feed)' = Top(feed)
        BY <2>5, <4>1
      <4> QED  BY <1>i, <1>u, <4>2, <2>6 DEF LifeInv, BuildsUpTo
    <3> QED  BY <1>i, <1>u, <2>1, <2>2, <3>2, <3>3, <3>4, <3>5 DEF LifeInv
  <2>14. CheckInv'
    BY <1>u, <2>1, <2>2 DEF CheckInv
  <2>15. RecordInv'
    BY <2>1 DEF RecordInv
  <2>16. TriesInv'
    <3>1. (\A v \in Versions : Live(v) /\ tries[v] > 0 => BuildsUpTo(Top(v)))'
      <4> SUFFICES ASSUME NEW v \in Versions, Live(v)', tries'[v] > 0 PROVE BuildsUpTo(Top(v))'
        OBVIOUS
      <4>1. BuildsUpTo(Top(v)) /\ Top(v)' = Top(v)
        BY <1>i, <1>u, <2>5 DEF TriesInv
      <4> QED  BY <4>1, <1>u DEF BuildsUpTo
    <3>2. (\A v \in Versions : Live(v) => Claim(conf.record, v))'
      BY <2>12
    <3>3. (\A v \in Versions : Live(v) => Claim(file.record, v))'
      <4>1. file'.record = conf'.record
        BY <2>9
      <4> QED  BY <2>12, <4>1 DEF Claim, CountedIn
    <3> QED  BY <2>5, <3>1, <3>2, <3>3 DEF TriesInv
  <2> QED  BY <2>13, <2>14, <2>15, <2>16 DEF BoundInv
<1> QED  BY <1>1, <1>2

LEMMA SpareBoundsNext ==
    ASSUME UpdateTyped', LifeInv', NEW v \in Versions
    PROVE  Spare(v)' \in Nat
<1>1. PICK p \in Nat, k \in Nat, g \in {0, 1}, w \in {0, 1} :
         p = Pending' /\ k = Coming' /\ g = Checking' /\ w = Trying(v)' /\ w <= g
  BY CountsNext
<1>2. /\ spent'.starts \in Nat /\ spent'.toggles \in Nat /\ spent'.crashes \in Nat
      /\ p <= spent'.toggles /\ k + g <= spent'.starts
  BY <1>1, CountsNext DEF LifeInv
<1>3. p \in Nat /\ k \in Nat /\ g \in {0, 1} /\ w \in {0, 1} /\ w <= g
  BY <1>1
<1>4. CASE Stale(v)'
  <2>1. Spare(v)' = spent'.toggles + spent'.crashes - p
    BY <1>1, <1>2, <1>4 DEF Spare
  <2> QED  BY <1>2, <1>3, <2>1
<1>5. CASE ~Stale(v)'
  <2>1. Spare(v)' = spent'.toggles + spent'.crashes - p + (spent'.starts - k - w)
    BY <1>1, <1>5 DEF Spare
  <2> QED  BY <1>2, <1>3, <2>1
<1> QED  BY <1>4, <1>5

\* An install is started: of a version none newer than which was tried today, by
\* a dock that is older.
LEMMA LaunchBound ==
    ASSUME UpdateTyped, UpdateTyped', BoundInv, LaunchInstall
    PROVE  BoundInv'
<1> USE DEF diskVars, dockVars, fileVars
<1>x. PICK x : x = Head(box).version
  OBVIOUS
<1>y. PICK h : h = Helper(IF Head(box).setup THEN "setup" ELSE "move", Head(box))
  OBVIOUS
<1>i. LifeInv /\ CheckInv /\ RecordInv /\ TriesInv
  BY DEF BoundInv
<1>1. /\ ui = "idle" /\ proc.st = "up" /\ box # <<>> /\ Head(box).kind = "ready"
      /\ ~installing /\ x > proc.ver /\ installing' = TRUE /\ ui' = "record"
      /\ helpers' = Append(helpers, h) /\ tries' = [tries EXCEPT ![x] = @ + 1]
      /\ UNCHANGED <<diskVars, day, launched, proc, conf, saveDue, inFlight, box, fileVars, worker, spent>>
  BY <1>x, <1>y DEF LaunchInstall, Posted, Idle, DockRuns, IsNewer
<1>t. /\ box \in Seq(ReplySet) /\ helpers \in Seq(HelperSet) /\ tries \in [Versions -> Nat]
      /\ proc \in ProcSet
  BY UpdateTypes DEF UpdateTyped
<1>2. Offer(x)
  <2>1. Head(box) = box[1] /\ 1 \in DOMAIN box
    BY <1>1, <1>t, TailFacts
  <2> QED  BY <1>i, <1>x, <1>1, <2>1 DEF CheckInv
<1>3. /\ x \in Versions /\ x <= feed /\ Live(x) /\ BuildsUpTo(Top(x))
      /\ conf.record.version = x => conf.record.time < day
  BY <1>2 DEF Offer
<1>a. Versions \subseteq Nat /\ x \in Nat
  BY <1>3, ConstantFacts
<1>b. /\ tries[x] \in Nat /\ feed \in Versions /\ Coming \in Nat /\ spent.starts \in Nat
      /\ \A v \in Versions : tries[v] \in Nat
  BY <1>3, Counts
<1>c. Len(helpers) \in Nat
  BY <1>t
<1>d. launched["portable"] \in Nat /\ launched["installed"] \in Nat
  BY Counts DEF Copies
<1>n. /\ x \in Nat /\ tries[x] \in Nat /\ feed \in Versions /\ Versions \subseteq Nat
      /\ Coming \in Nat /\ Len(helpers) \in Nat
      /\ launched["portable"] \in Nat /\ launched["installed"] \in Nat
  BY <1>a, <1>b, <1>c, <1>d
<1>4. /\ \A v \in Versions : tries'[v] = IF v = x THEN tries[x] + 1 ELSE tries[v]
      /\ tries'[x] = tries[x] + 1
  BY <1>1, <1>3, <1>t
<1>5. ASSUME NEW v \in Versions, Live(v)'
      PROVE  Live(v) /\ (v = x \/ tries'[v] = 0)
  <2>1. v >= x
    <3>1. ~(x > v)
      BY <1>3, <1>4, <1>5, <1>n DEF Live
    <3> QED  BY <3>1, <1>n
  <2>2. Live(v)
    BY <2>1, <1>3, <1>4, <1>5, <1>n DEF Live
  <2>3. v # x => tries'[v] = 0
    BY <2>1, <1>3, <1>4, <1>n DEF Live
  <2> QED  BY <2>2, <2>3
<1>h. h \in HelperSet /\ h.build = asset[x]
  <2>1. asset[x] \in Versions
    BY <1>3, Counts
  <2> QED  BY <2>1, <1>t, <1>x, <1>y DEF Helper, HelperSet, ProcSet
<1>6. /\ helpers' \in Seq(HelperSet) /\ Len(helpers') = Len(helpers) + 1
      /\ \A j \in DOMAIN helpers' : (j \in DOMAIN helpers /\ helpers'[j] = helpers[j]) \/ helpers'[j] = h
  <2>1. /\ helpers' \in Seq(HelperSet) /\ Len(helpers') = Len(helpers) + 1
        /\ \A j \in 1 .. Len(helpers) : helpers'[j] = helpers[j]
        /\ helpers'[Len(helpers) + 1] = h
    BY <1>1, <1>t, <1>h, AppendFacts
  <2>2. DOMAIN helpers' = 1 .. Len(helpers) + 1 /\ DOMAIN helpers = 1 .. Len(helpers)
    BY <2>1, <1>t
  <2> QED  BY <2>1, <2>2, <1>n
<1>7. Coming' = Coming + 1 /\ Pending' = Pending /\ Checking = 1 /\ Checking' = 0
      /\ (\A v \in Versions : Trying(v)' = 0)
      /\ Trying(x) = 1
  BY <1>1, <1>6, <1>n DEF Coming, Pending, Checking, Trying
<1>8. \A v \in Versions : (Stale(v)' <=> Stale(v)) /\ Top(v)' = Top(v) /\ Losses(v)' = Losses(v)
  BY <1>1 DEF Stale, Top, Losses
<1>9. \A v \in Versions : CountedIn(conf.record, v)' = CountedIn(conf.record, v)
                          /\ CountedIn(file.record, v)' = CountedIn(file.record, v)
  BY <1>1 DEF CountedIn
<1>10. \A v \in Versions : /\ Top(v) \in Nat /\ asset[v] <= Top(v)
                           /\ \A u \in Versions : u <= v => Top(u) <= Top(v)
  BY <1>i, TopBounds
<1>11. ASSUME NEW m \in Nat, BuildsUpTo(m), asset[x] <= m PROVE BuildsUpTo(m)'
  BY <1>11, <1>1, <1>6, <1>h DEF BuildsUpTo
<1>12. Spare(x)' = Spare(x) /\ Spare(x) \in Nat /\ Spare(x) <= Losses(x) /\ Losses(x) \in Nat
  <2>1. Spare(x) \in Nat /\ Spare(x) <= Losses(x) /\ Losses(x) \in Nat
    BY <1>i, <1>3, SpareBounds
  <2>2. spent.starts \in Nat /\ spent' = spent
    BY <1>1, Counts
  <2>3. spent.starts - (Coming + 1) - 0 = spent.starts - Coming - 1
    BY <2>2, <1>n
  <2>4. Spare(x)' = Spare(x)
    BY <1>3, <1>7, <1>8, <2>2, <2>3 DEF Spare
  <2> QED  BY <2>1, <2>4
<1>13. CountedIn(conf.record, x) \in 0 .. 2
  BY <1>3, CountedBefore, Counts
<1>14. Unrecorded(x) = 0 /\ Unrecorded(x)' = 1
  BY <1>1, <1>x DEF Unrecorded
<1>15. LifeInv'
  <2>1. (Coming + Checking <= spent.starts)'
    BY <1>i, <1>1, <1>7, <1>n, Counts DEF LifeInv
  <2>2. (\A v \in Versions : v > feed => tries[v] = 0)'
    <3>1. \A v \in Versions : v > feed => tries[v] = 0
      BY <1>i DEF LifeInv
    <3>2. feed' = feed
      BY <1>1
    <3>3. \A v \in Versions : v > feed => v # x
      BY <1>a, <1>b, <1>3
    <3> QED  BY <3>1, <3>2, <3>3, <1>4
  <2>3. BuildsUpTo(Top(feed))'
    <3>1. Top(feed) \in Nat /\ asset[x] <= Top(feed) /\ Top(feed)' = Top(feed)
      <4>1. asset[x] <= Top(x) /\ Top(x) <= Top(feed) /\ Top(x) \in Nat /\ Top(feed) \in Nat
        BY <1>3, <1>10, <1>n
      <4>2. asset[x] \in Nat
        BY <1>3, Counts, ConstantFacts
      <4>3. feed' = feed /\ Top(feed)' = Top(feed)
        BY <1>1, <1>8, <1>n
      <4> QED  BY <4>1, <4>2, <4>3
    <3>2. BuildsUpTo(Top(feed))
      BY <1>i DEF LifeInv
    <3>3. (\A c \in Copies : disk'[c] <= Top(feed)) /\ (\A j \in DOMAIN helpers' : helpers'[j].build <= Top(feed))
      BY <1>11, <3>1, <3>2 DEF BuildsUpTo
    <3> QED  BY <3>1, <3>3 DEF BuildsUpTo
  <2>4. (Pending <= spent.toggles)'
    BY <1>i, <1>1, <1>7 DEF LifeInv
  <2> QED  BY <1>i, <1>1, <2>1, <2>2, <2>3, <2>4 DEF LifeInv
<1>16. CheckInv'
  BY <1>1 DEF CheckInv
<1>17. RecordInv'
  <2>1. Head(box)'.version = x
    BY <1>1, <1>x
  <2>2. x \in Versions /\ Live(x)'
    BY <1>3, <1>4, <1>n DEF Live
  <2>3. tries'[x] > 0
    BY <1>4, <1>n
  <2>4. (conf.record.version = x)' => (conf.record.time < day)'
    BY <1>1, <1>3
  <2> QED  BY <2>1, <2>2, <2>3, <2>4 DEF RecordInv
<1>18. TriesInv'
  <2>s. \A v \in Versions : Spare(v)' \in Nat
    BY <1>15, SpareBoundsNext
  <2>1. LoopIsBounded'
    <3> SUFFICES ASSUME NEW v \in Versions PROVE tries'[v] <= 3 * (1 + Losses(v)')
      BY DEF LoopIsBounded, kMaxUpdateRetries
    <3>1. CASE v # x
      BY <1>i, <1>4, <1>8, <3>1 DEF TriesInv, LoopIsBounded, kMaxUpdateRetries
    <3>2. CASE v = x
      <4>1. tries[x] <= 3 * Spare(x) + CountedIn(conf.record, x) + Unrecorded(x)
        BY <1>i, <1>1, <1>3 DEF TriesInv, Claim
      <4>2. tries[x] + 1 <= 3 * (1 + Losses(x))
        BY <4>1, <1>12, <1>13, <1>14, <1>n
      <4> QED  BY <1>4, <1>8, <3>2, <4>2
    <3> QED  BY <3>1, <3>2
  <2>2. (\A v \in Versions : Live(v) /\ tries[v] > 0 => BuildsUpTo(Top(v)))'
    <3> SUFFICES ASSUME NEW v \in Versions, Live(v)', tries'[v] > 0 PROVE BuildsUpTo(Top(v))'
      OBVIOUS
    <3>1. v = x
      BY <1>5
    <3>2. Top(x) \in Nat /\ asset[x] <= Top(x) /\ Top(x)' = Top(x)
      BY <1>3, <1>8, <1>10
    <3>3. (\A c \in Copies : disk'[c] <= Top(x)) /\ (\A j \in DOMAIN helpers' : helpers'[j].build <= Top(x))
      BY <1>3, <1>11, <3>2 DEF BuildsUpTo
    <3> QED  BY <3>1, <3>2, <3>3 DEF BuildsUpTo
  <2>3. ASSUME NEW r \in Records, NEW v \in Versions, Live(v)', Live(v) => Claim(r, v)
        PROVE  tries'[v] <= 3 * Spare(v)' + CountedIn(r, v) + Unrecorded(v)'
    <3>n. CountedIn(r, v) \in 0 .. 3 /\ Unrecorded(v)' \in {0, 1}
      BY Counts, CountsNext
    <3>1. CASE v = x
      <4>1. tries[x] <= 3 * Spare(x) + CountedIn(r, x) + 0
        BY <1>5, <1>14, <2>3, <3>1 DEF Claim
      <4>2. CountedIn(r, x) \in 0 .. 3
        BY <3>n, <3>1
      <4>3. tries[x] + 1 <= 3 * Spare(x) + CountedIn(r, x) + 1
        BY <4>1, <4>2, <1>12, <1>n
      <4> QED  BY <4>3, <1>4, <1>12, <1>14, <3>1
    <3>2. CASE v # x
      <4>1. tries'[v] = 0
        BY <1>5, <2>3, <3>2
      <4> QED  BY <4>1, <2>s, <3>n
    <3> QED  BY <3>1, <3>2
  <2>4. (proc.st # "none" => \A v \in Versions : Live(v) => Claim(conf.record, v))'
    <3> SUFFICES ASSUME NEW v \in Versions, Live(v)' PROVE Claim(conf.record, v)'
      OBVIOUS
    <3>1. Live(v) => Claim(conf.record, v)
      BY <1>i, <1>1 DEF TriesInv
    <3>2. tries'[v] <= 3 * Spare(v)' + CountedIn(conf.record, v) + Unrecorded(v)'
      BY <2>3, <3>1, Counts
    <3> QED  BY <3>2, <1>1, <1>9 DEF Claim
  <2>5. (Whole => \A v \in Versions : Live(v) => Claim(file.record, v))'
    <3> SUFFICES ASSUME Whole', NEW v \in Versions, Live(v)' PROVE Claim(file.record, v)'
      OBVIOUS
    <3>1. Live(v) => Claim(file.record, v)
      BY <1>i, <1>1 DEF TriesInv, Whole
    <3>2. tries'[v] <= 3 * Spare(v)' + CountedIn(file.record, v) + Unrecorded(v)'
      BY <2>3, <3>1, Counts
    <3> QED  BY <3>2, <1>1, <1>9 DEF Claim
  <2> QED  BY <2>1, <2>2, <2>4, <2>5 DEF TriesInv
<1> QED  BY <1>15, <1>16, <1>17, <1>18 DEF BoundInv

\* The install that was started is written down: the record that counts it takes
\* the place of one that counted as many, or of one of another version, which is
\* not live or was not installed today.
LEMMA RecordBound ==
    ASSUME UpdateTyped, UpdateTyped', BoundInv, RecordInstall
    PROVE  BoundInv'
<1> USE DEF diskVars, dockVars, fileVars
<1>x. PICK x : x = Head(box).version
  OBVIOUS
<1>k. PICK k : k = IF conf.record.version = x THEN conf.record.attempts ELSE 0
  OBVIOUS
<1>i. LifeInv /\ CheckInv /\ RecordInv /\ TriesInv
  BY DEF BoundInv
<1>1. /\ proc.st = "up" /\ ui = "record" /\ ui' = "idle"
      /\ conf' = [conf EXCEPT !.record = [version |-> x, time |-> day, attempts |-> k]]
      /\ file' = conf'
      /\ UNCHANGED <<diskVars, day, launched, proc, saveDue, inFlight, installing,
                     savers, worker, helpers, tries, spent>>
  BY <1>x, <1>k DEF RecordInstall, DockRuns
<1>2. /\ installing /\ x \in Versions /\ Live(x)
      /\ \A u \in Versions : u < x /\ tries[u] > 0 => tries[x] > 0
      /\ conf.record.version = x => conf.record.time < day
  BY <1>i, <1>1, <1>x DEF LifeInv, RecordInv
<1>3. conf'.record = [version |-> x, time |-> day, attempts |-> k] /\ file'.record = conf'.record
  <2>1. conf \in Configs
    BY UpdateTypes DEF UpdateTyped
  <2> QED  BY <1>1, <2>1 DEF Configs
<1>a. Versions \subseteq Nat /\ day \in Nat /\ day >= 1
  BY <1>i, ConstantFacts, Counts DEF LifeInv
<1>4. k \in 0 .. 2 /\ CountedIn(conf.record, x) <= k /\ CountedIn(conf.record, x) \in 0 .. 3
  <2>1. conf.record \in Records
    BY Counts
  <2> QED  BY <1>2, <1>a, <1>k, <2>1 DEF CountedIn, Records, kMaxUpdateRetries
<1>5. \A v \in Versions : CountedIn(conf.record, v)' = IF v = x THEN k + 1 ELSE 0
  BY <1>1, <1>3, <1>a DEF CountedIn
<1>6. \A v \in Versions : /\ Unrecorded(v) = (IF v = x THEN 1 ELSE 0)
                          /\ Unrecorded(v)' = 0
  BY <1>1, <1>x DEF Unrecorded
<1>7. Pending' = Pending /\ Coming' = Coming /\ Checking' = 0 /\ (Whole' <=> Whole)
  BY <1>1, <1>2 DEF Pending, Coming, Checking, Whole
<1>8. \A v \in Versions : Trying(v)' = 0 /\ Trying(v) = 0
  BY <1>1, <1>2 DEF Trying
<1>9. /\ LoopIsBounded'
      /\ \A v \in Versions : (Live(v)' <=> Live(v)) /\ (Stale(v)' <=> Stale(v)) /\ Top(v)' = Top(v)
  <2>1. /\ spent'.starts >= spent.starts /\ spent'.toggles >= spent.toggles
        /\ spent'.crashes >= spent.crashes /\ spent' \in [starts : Nat, toggles : Nat, crashes : Nat]
    BY <1>1, Counts, UpdateTypes DEF UpdateTyped
  <2> QED  BY <1>1, <2>1, SameTries
<1>10. \A v \in Versions : Spare(v)' = Spare(v) /\ Spare(v) \in Nat
  <2> SUFFICES ASSUME NEW v \in Versions PROVE Spare(v)' = Spare(v) /\ Spare(v) \in Nat
    OBVIOUS
  <2>1. Spare(v) \in Nat
    BY <1>i, SpareBounds
  <2>2. Spare(v)' = Spare(v)
    BY <1>1, <1>7, <1>8, <1>9 DEF Spare
  <2> QED  BY <2>1, <2>2
<1>11. ASSUME NEW v \in Versions, Live(v)' PROVE Claim(conf.record, v)' /\ Claim(file.record, v)'
  <2>1. Live(v) /\ Claim(conf.record, v)
    BY <1>i, <1>1, <1>9, <1>11 DEF TriesInv
  <2>2. tries[v] \in Nat /\ tries' = tries /\ tries[x] \in Nat
    BY <1>1, <1>2, Counts
  <2>3. tries[v] <= 3 * Spare(v) + (IF v = x THEN k + 1 ELSE 0)
    <3>1. CASE v = x
      <4>1. tries[x] <= 3 * Spare(x) + CountedIn(conf.record, x) + 1
        BY <1>6, <2>1, <3>1 DEF Claim
      <4> QED  BY <4>1, <3>1, <1>4, <1>10, <2>2
    <3>2. CASE v # x
      <4>1. CASE v > x
        <5>1. tries[v] = 0
          BY <1>2, <4>1 DEF Live
        <5> QED  BY <5>1, <3>2, <1>10
      <4>2. CASE v < x
        <5>1. tries[x] = 0
          BY <1>2, <1>a, <2>1, <4>2 DEF Live
        <5>2. tries[v] = 0
          BY <1>2, <2>2, <4>2, <5>1
        <5> QED  BY <5>2, <3>2, <1>10
      <4>3. v > x \/ v < x
        BY <3>2, <1>a, <1>2
      <4> QED  BY <4>1, <4>2, <4>3
    <3> QED  BY <3>1, <3>2
  <2>4. Claim(conf.record, v)'
    <3>1. tries'[v] <= 3 * Spare(v)' + (IF v = x THEN k + 1 ELSE 0) + 0
      BY <2>2, <2>3, <1>4, <1>10
    <3> QED  BY <3>1, <1>5, <1>6 DEF Claim
  <2>5. CountedIn(file.record, v)' = CountedIn(conf.record, v)'
    BY <1>3 DEF CountedIn
  <2> QED  BY <2>4, <2>5 DEF Claim
<1>12. LifeInv'
  <2>1. (Coming + Checking <= spent.starts)' /\ (Pending <= spent.toggles)'
    <3>1. Coming + 0 <= spent.starts /\ Pending <= spent.toggles
      BY <1>i, Counts DEF LifeInv
    <3> QED  BY <1>1, <1>7, <3>1
  <2>2. (day >= 1 /\ conf.record.time <= day /\ file.record.time <= day)'
    BY <1>1, <1>3, <1>a
  <2>3. BuildsUpTo(Top(feed))'
    <3>1. feed' = feed /\ feed \in Versions
      BY <1>1, Counts
    <3>2. Top(feed)' = Top(feed)
      BY <1>9, <3>1
    <3> QED  BY <1>i, <1>1, <3>2 DEF LifeInv, BuildsUpTo
  <2> QED  BY <1>i, <1>1, <2>1, <2>2, <2>3 DEF LifeInv
<1>13. CheckInv' /\ RecordInv'
  BY <1>1, <1>2 DEF CheckInv, RecordInv
<1>14. TriesInv'
  <2>1. (\A v \in Versions : Live(v) /\ tries[v] > 0 => BuildsUpTo(Top(v)))'
    <3> SUFFICES ASSUME NEW v \in Versions, Live(v)', tries'[v] > 0 PROVE BuildsUpTo(Top(v))'
      OBVIOUS
    <3>1. BuildsUpTo(Top(v)) /\ Top(v)' = Top(v)
      BY <1>i, <1>1, <1>9 DEF TriesInv
    <3> QED  BY <3>1, <1>1 DEF BuildsUpTo
  <2> QED  BY <1>9, <1>11, <2>1 DEF TriesInv
<1> QED  BY <1>12, <1>13, <1>14 DEF BoundInv

\* The dock dies: what the saves under way would have written counts as lost, for
\* each was asked for by a click.
LEMMA EndsBound ==
    ASSUME UpdateTyped, UpdateTyped', BoundInv, Exit \/ DockDies
    PROVE  BoundInv'
<1> USE DEF diskVars, dockVars, fileVars
<1>i. LifeInv /\ CheckInv /\ RecordInv /\ TriesInv
  BY DEF BoundInv
<1>1. /\ Dies /\ proc.st # "none"
      /\ \/ Exit /\ proc.st = "closing" /\ spent' = spent
         \/ spent' = [spent EXCEPT !.crashes = @ + 1]
  BY DEF Exit, DockDies, DockRuns
<1>t. /\ helpers \in Seq(HelperSet) /\ spent \in [starts : Nat, toggles : Nat, crashes : Nat]
      /\ savers \in Seq(SaverSet) /\ Len(savers) \in Nat
  BY UpdateTypes DEF UpdateTyped
<1>n. /\ spent.starts \in Nat /\ spent.toggles \in Nat /\ spent.crashes \in Nat
      /\ Pending \in Nat /\ Coming \in Nat /\ feed \in Versions
      /\ \A v \in Versions : tries[v] \in Nat
  BY Counts
<1>2. /\ spent'.starts = spent.starts /\ spent'.toggles = spent.toggles
      /\ spent'.crashes \in {spent.crashes, spent.crashes + 1}
  BY <1>1, <1>t
<1>3. /\ proc'.st = "none" /\ ui' = "idle" /\ conf' = Defaults /\ ~saveDue' /\ ~installing'
      /\ box' = <<>> /\ savers' = <<>> /\ worker'.at = "none" /\ helpers' = SeenGone
      /\ UNCHANGED <<disk, asset, feed, day, launched, file, tries>>
  BY <1>1, ConstantFacts DEF Dies
<1>4. /\ DOMAIN helpers' = DOMAIN helpers /\ Len(helpers') = Len(helpers)
      /\ \A i \in DOMAIN helpers : helpers'[i].build = helpers[i].build
  <2>1. \A i \in DOMAIN helpers : helpers[i] \in HelperSet
    BY <1>t
  <2>2. helpers' = [i \in DOMAIN helpers |-> [helpers[i] EXCEPT !.gone = TRUE]]
    BY <1>3 DEF SeenGone
  <2>3. DOMAIN helpers' = DOMAIN helpers
    BY <2>2
  <2>4. Len(helpers') = Len(helpers)
    <3>1. helpers' \in Seq(HelperSet)
      BY UpdateTypesNext DEF UpdateTyped
    <3>2. DOMAIN helpers' = 1 .. Len(helpers') /\ DOMAIN helpers = 1 .. Len(helpers)
          /\ Len(helpers) \in Nat /\ Len(helpers') \in Nat
      BY <1>t, <3>1
    <3>3. \A a, b \in Nat : 1 .. a = 1 .. b => a <= b
      <4> SUFFICES ASSUME NEW a \in Nat, NEW b \in Nat, 1 .. a = 1 .. b, a > b PROVE FALSE
        OBVIOUS
      <4>1. a \in 1 .. a /\ a \notin 1 .. b
        OBVIOUS
      <4> QED  BY <4>1
    <3>4. PICK a \in Nat, b \in Nat : a = Len(helpers') /\ b = Len(helpers)
      BY <3>2
    <3>5. 1 .. a = 1 .. b
      BY <2>3, <3>2, <3>4
    <3>6. a <= b /\ b <= a
      BY <3>3, <3>5
    <3>7. a = b
      BY <3>6
    <3> QED  BY <3>4, <3>7
  <2>5. \A i \in DOMAIN helpers : helpers'[i].build = helpers[i].build
    BY <2>1, <2>2 DEF HelperSet
  <2> QED  BY <2>3, <2>4, <2>5
<1>5. Pending' = 0 /\ Coming' = Coming /\ Checking' = 0 /\ (\A v \in Versions : Trying(v)' = 0)
  <2>1. Len(savers') = 0
    BY <1>3
  <2>2. Pending' = 0
    BY <1>3, <2>1 DEF Pending
  <2>3. Coming' = Coming
    BY <1>3, <1>4 DEF Coming
  <2> QED  BY <1>3, <2>2, <2>3 DEF Checking, Trying
<1>6. \A n \in Nat : BuildsUpTo(n)' <=> BuildsUpTo(n)
  BY <1>3, <1>4 DEF BuildsUpTo
<1>7. /\ LoopIsBounded'
      /\ \A v \in Versions : (Live(v)' <=> Live(v)) /\ (Stale(v)' <=> Stale(v)) /\ Top(v)' = Top(v)
  <2>1. /\ spent'.starts >= spent.starts /\ spent'.toggles >= spent.toggles
        /\ spent'.crashes >= spent.crashes /\ spent' \in [starts : Nat, toggles : Nat, crashes : Nat]
    BY <1>2, <1>n, UpdateTypesNext DEF UpdateTyped
  <2> QED  BY <1>3, <2>1, SameTries
<1>8. \A v \in Versions : Top(v) \in Nat
  BY <1>i, TopBounds
<1>9. ASSUME NEW v \in Versions
      PROVE  /\ Spare(v) \in Nat /\ Spare(v)' \in Nat /\ Spare(v)' >= Spare(v)
             /\ spent'.crashes = spent.crashes + 1 \/ Pending > 0 => Spare(v)' >= Spare(v) + 1
  <2>1. PICK w \in {0, 1} : w = Trying(v)
    BY Counts
  <2>2. Spare(v) \in Nat
    BY <1>i, SpareBounds
  <2>3. PICK c \in {0, 1} : spent'.crashes = spent.crashes + c
    BY <1>2, <1>n
  <2>4. w \in {0, 1} /\ c \in {0, 1}
    OBVIOUS
  <2>5. CASE Stale(v)
    <3>1. Spare(v) = spent.toggles + spent.crashes - Pending
      BY <2>5, <1>n DEF Spare
    <3>2. Spare(v)' = spent.toggles + (spent.crashes + c) - 0
      BY <2>5, <2>3, <1>2, <1>5, <1>7, <1>n DEF Spare
    <3> QED  BY <2>2, <2>3, <2>4, <3>1, <3>2, <1>n
  <2>6. CASE ~Stale(v)
    <3>1. Spare(v) = spent.toggles + spent.crashes - Pending + (spent.starts - Coming - w)
      BY <2>1, <2>6, <1>n DEF Spare
    <3>2. Spare(v)' = spent.toggles + (spent.crashes + c) - 0 + (spent.starts - Coming - 0)
      BY <2>6, <2>3, <1>2, <1>5, <1>7, <1>n DEF Spare
    <3> QED  BY <2>2, <2>3, <2>4, <3>1, <3>2, <1>n
  <2> QED  BY <2>5, <2>6
<1>10. \A v \in Versions : Unrecorded(v)' = 0 /\ Unrecorded(v) \in {0, 1}
  BY <1>3, Counts DEF Unrecorded
<1>11. ui = "record" => spent'.crashes = spent.crashes + 1
  <2>1. ui = "record" => proc.st = "up"
    BY DEF UpdateTyped, DockRuns
  <2> QED  BY <1>1, <1>t, <2>1
<1>12. ASSUME NEW v \in Versions, Live(v)' PROVE Claim(file.record, v)'
  <2>1. Live(v) /\ Claim(conf.record, v)
    BY <1>i, <1>1, <1>7, <1>12 DEF TriesInv
  <2>2. /\ CountedIn(file.record, v)' = CountedIn(file.record, v)
        /\ CountedIn(file.record, v) \in 0 .. 3
    BY <1>3, Counts DEF CountedIn
  <2>3. tries[v] <= 3 * Spare(v)' + CountedIn(file.record, v)
    <3>1. CASE Whole /\ Unrecorded(v) = 0
      <4>1. Claim(file.record, v)
        BY <1>i, <2>1, <3>1 DEF TriesInv
      <4> QED  BY <4>1, <3>1, <2>2, <1>9, <1>n DEF Claim
    <3>2. CASE Whole /\ Unrecorded(v) = 1
      <4>1. Claim(file.record, v)
        BY <1>i, <2>1, <3>2 DEF TriesInv
      <4>2. Spare(v)' >= Spare(v) + 1
        BY <3>2, <1>9, <1>11 DEF Unrecorded
      <4> QED  BY <4>1, <4>2, <3>2, <2>2, <1>9, <1>n DEF Claim
    <3>3. CASE ~Whole
      <4>1. Pending > 0
        <5>1. savers # <<>>
          BY <3>3 DEF Whole
        <5>2. Len(savers) > 0
          BY <1>t, <5>1
        <5> QED  BY <1>t, <5>2 DEF Pending
      <4>2. Spare(v)' >= Spare(v) + 1
        BY <4>1, <1>9
      <4>3. tries[v] <= 3 * Spare(v) + 3
        BY <1>i, <1>1, <2>1, ClaimBounds
      <4> QED  BY <4>2, <4>3, <2>2, <1>9, <1>n
    <3> QED  BY <3>1, <3>2, <3>3, <1>10
  <2>4. tries'[v] <= 3 * Spare(v)' + CountedIn(file.record, v) + 0
    BY <2>2, <2>3, <1>3, <1>9, <1>n
  <2> QED  BY <2>2, <2>4, <1>10 DEF Claim
<1>13. LifeInv'
  <2>1. (Coming + Checking <= spent.starts)' /\ (Pending <= spent.toggles)'
    <3>1. Coming + 0 <= spent.starts /\ 0 <= spent.toggles
      BY <1>i, <1>n, Counts DEF LifeInv
    <3> QED  BY <1>2, <1>5, <3>1
  <2>2. (day >= 1 /\ conf.record.time <= day /\ file.record.time <= day)'
    BY <1>i, <1>3, ConstantFacts, Counts DEF LifeInv, NoRecord
  <2>3. BuildsUpTo(Top(feed))'
    <3>1. Top(feed)' = Top(feed) /\ Top(feed) \in Nat /\ BuildsUpTo(Top(feed))
      BY <1>i, <1>3, <1>7, <1>8, <1>n DEF LifeInv
    <3>2. (\A c \in Copies : disk'[c] <= Top(feed)) /\ (\A j \in DOMAIN helpers' : helpers'[j].build <= Top(feed))
      BY <3>1, <1>6 DEF BuildsUpTo
    <3> QED  BY <3>1, <3>2 DEF BuildsUpTo
  <2> QED  BY <1>i, <1>3, <2>1, <2>2, <2>3 DEF LifeInv
<1>14. CheckInv' /\ RecordInv'
  BY <1>3 DEF CheckInv, RecordInv
<1>15. TriesInv'
  <2>1. (\A v \in Versions : Live(v) /\ tries[v] > 0 => BuildsUpTo(Top(v)))'
    <3> SUFFICES ASSUME NEW v \in Versions, Live(v)', tries'[v] > 0 PROVE BuildsUpTo(Top(v))'
      OBVIOUS
    <3>1. BuildsUpTo(Top(v)) /\ Top(v)' = Top(v) /\ Top(v) \in Nat
      BY <1>i, <1>3, <1>7, <1>8 DEF TriesInv
    <3>2. (\A c \in Copies : disk'[c] <= Top(v)) /\ (\A j \in DOMAIN helpers' : helpers'[j].build <= Top(v))
      BY <3>1, <1>6 DEF BuildsUpTo
    <3> QED  BY <3>1, <3>2 DEF BuildsUpTo
  <2> QED  BY <1>3, <1>7, <1>12, <2>1 DEF TriesInv
<1> QED  BY <1>13, <1>14, <1>15 DEF BoundInv

\* Another day: nothing was installed today, and no install of today is counted.
LEMMA DayBound ==
    ASSUME UpdateTyped, UpdateTyped', BoundInv, NextDay
    PROVE  BoundInv'
<1> USE DEF diskVars, dockVars, fileVars
<1>i. LifeInv /\ CheckInv /\ RecordInv /\ TriesInv
  BY DEF BoundInv
<1>1. /\ day' = day + 1 /\ \A v \in Versions : tries'[v] = 0
      /\ UNCHANGED <<diskVars, launched, dockVars, fileVars, worker, helpers, spent>>
  BY DEF NextDay
<1>n. /\ day \in Nat /\ feed \in Versions /\ Pending \in Nat /\ Coming \in Nat
      /\ spent.starts \in Nat /\ spent.toggles \in Nat /\ spent.crashes \in Nat
      /\ Versions \subseteq Nat
  BY Counts, ConstantFacts
<1>2. \A t \in Nat : t <= day => t <= day'
  BY <1>1, <1>n
<1>r. /\ \A r \in Records : r.time \in Nat
      /\ conf.record \in Records /\ file.record \in Records
      /\ \A i \in DOMAIN savers : savers[i].conf.record \in Records
      /\ worker.day \in Nat
  <2>1. worker \in CheckSet
    BY UpdateTypes DEF UpdateTyped
  <2>2. worker.day \in Nat
    BY <2>1 DEF CheckSet
  <2> QED  BY <2>2, Counts DEF Records
<1>3. /\ Pending' = Pending /\ Coming' = Coming /\ Checking' = Checking
      /\ \A v \in Versions : /\ Trying(v)' = Trying(v)
                             /\ (Stale(v)' <=> Stale(v)) /\ Top(v)' = Top(v)
                             /\ Losses(v)' = Losses(v)
                             /\ Live(v)'
  BY <1>1 DEF Pending, Coming, Checking, Trying, Stale, Top, Losses, Live
<1>4. \A v \in Versions : Spare(v)' \in Nat /\ Losses(v)' \in Nat
  <2> SUFFICES ASSUME NEW v \in Versions PROVE Spare(v)' \in Nat /\ Losses(v)' \in Nat
    OBVIOUS
  <2>1. Spare(v)' = Spare(v) /\ Losses(v)' = Losses(v)
    BY <1>1, <1>3 DEF Spare
  <2> QED  BY <1>i, <2>1, SpareBounds
<1>5. \A n : BuildsUpTo(n)' <=> BuildsUpTo(n)
  BY <1>1 DEF BuildsUpTo
<1>6. ASSUME NEW v \in Versions, Offer(v) PROVE Offer(v)'
  <2>1. BuildsUpTo(Top(v))'
    <3>1. BuildsUpTo(Top(v)) /\ Top(v)' = Top(v)
      BY <1>3, <1>6 DEF Offer
    <3> QED  BY <1>1, <3>1 DEF BuildsUpTo
  <2>2. (conf.record.version = v => conf.record.time < day)'
    <3>1. conf.record.time \in Nat
      BY <1>r
    <3>2. conf.record.version = v => conf.record.time < day
      BY <1>6 DEF Offer
    <3> QED  BY <1>1, <1>n, <3>1, <3>2
  <2> QED  BY <1>1, <1>3, <1>6, <2>1, <2>2 DEF Offer
<1>7. LifeInv'
  <2>1. (day >= 1 /\ conf.record.time <= day /\ file.record.time <= day)'
    BY <1>i, <1>1, <1>2, <1>n, <1>r DEF LifeInv
  <2>2. (\A i \in DOMAIN savers : savers[i].conf.record.time <= day)'
    BY <1>i, <1>1, <1>2, <1>r DEF LifeInv
  <2>3. BuildsUpTo(Top(feed))'
    <3>1. Top(feed)' = Top(feed) /\ BuildsUpTo(Top(feed))
      <4>1. feed' = feed
        BY <1>1
      <4> QED  BY <1>i, <1>3, <1>n, <4>1 DEF LifeInv
    <3> QED  BY <1>1, <3>1 DEF BuildsUpTo
  <2>4. (Pending <= spent.toggles)' /\ (Coming + Checking <= spent.starts)'
    BY <1>i, <1>1, <1>3 DEF LifeInv
  <2> QED  BY <1>i, <1>1, <2>1, <2>2, <2>3, <2>4 DEF LifeInv
<1>8. CheckInv'
  <2>1. worker'.at # "none" /\ ~installing' => worker'.day <= day'
    BY <1>i, <1>1, <1>2, <1>r DEF CheckInv
  <2>2. \A v : Offer(v) => Offer(v)'
    BY <1>6 DEF Offer
  <2> QED  BY <1>i, <1>1, <2>1, <2>2 DEF CheckInv
<1>9. RecordInv'
  <2> SUFFICES ASSUME ui' = "record" PROVE RecordInv'
    BY DEF RecordInv
  <2>1. PICK v : v = Head(box).version
    OBVIOUS
  <2>2. v \in Versions /\ (conf.record.version = v => conf.record.time < day)
    BY <1>i, <1>1, <2>1 DEF RecordInv
  <2>3. conf.record.version = v => conf.record.time < day'
    BY <1>1, <1>n, <1>r, <2>2
  <2> QED  BY <1>1, <1>3, <2>1, <2>2, <2>3 DEF RecordInv
<1>10. TriesInv'
  <2>1. LoopIsBounded'
    <3> SUFFICES ASSUME NEW v \in Versions PROVE tries'[v] <= 3 * (1 + Losses(v)')
      BY DEF LoopIsBounded, kMaxUpdateRetries
    <3> QED  BY <1>1, <1>4
  <2>2. (\A v \in Versions : Live(v) /\ tries[v] > 0 => BuildsUpTo(Top(v)))'
    BY <1>1
  <2>3. ASSUME NEW v \in Versions PROVE Claim(conf.record, v)' /\ Claim(file.record, v)'
    <3>1. tries'[v] = 0
      BY <1>1
    <3>2. /\ CountedIn(conf.record, v)' \in 0 .. 3
          /\ CountedIn(file.record, v)' \in 0 .. 3
          /\ Unrecorded(v)' \in {0, 1}
      <4>1. conf'.record \in Records /\ file'.record \in Records
        BY CountsNext
      <4>2. Unrecorded(v)' \in {0, 1}
        BY CountsNext
      <4> QED  BY <4>1, <4>2 DEF CountedIn, Records, kMaxUpdateRetries
    <3>3. \A s \in Nat, a \in 0 .. 3, u \in {0, 1} : 0 <= 3 * s + a + u
      OBVIOUS
    <3>4. /\ tries'[v] <= 3 * Spare(v)' + CountedIn(conf.record, v)' + Unrecorded(v)'
          /\ tries'[v] <= 3 * Spare(v)' + CountedIn(file.record, v)' + Unrecorded(v)'
      BY <1>4, <3>1, <3>2, <3>3
    <3> QED  BY <3>4 DEF Claim
  <2> QED  BY <2>1, <2>2, <2>3 DEF TriesInv
<1> QED  BY <1>7, <1>8, <1>9, <1>10 DEF BoundInv

LEMMA BoundInit == UpdateInit => BoundInv
<1> SUFFICES ASSUME UpdateInit PROVE BoundInv
  OBVIOUS
<1> USE DEF UpdateInit
<1>t. UpdateTyped
  BY UpdateTypedInit
<1>1. /\ spent.starts = 0 /\ spent.toggles = 0 /\ spent.crashes = 0 /\ proc.st = "none"
      /\ worker.at = "none" /\ \A v \in Versions : tries[v] = 0
  BY ConstantFacts DEF NothingSpent
<1>2. Pending = 0 /\ Coming = 0 /\ Checking = 0 /\ \A v \in Versions : Trying(v) = 0
  <2>1. Len(savers) = 0 /\ Len(helpers) = 0
    OBVIOUS
  <2>2. launched["portable"] = 0 /\ launched["installed"] = 0
    BY DEF Copies
  <2> QED  BY <1>1, <2>1, <2>2 DEF Pending, Coming, Checking, Trying
<1>3. DOMAIN helpers = {} /\ DOMAIN savers = {} /\ DOMAIN box = {}
  OBVIOUS
<1>4. LifeInv
  <2>1. BuildsUpTo(Top(feed))
    <3>1. disk["portable"] \in {0, 1} /\ disk["installed"] \in {0, 1}
      BY DEF Copies
    <3>2. asset[1] \in Versions /\ asset[1] <= 1
      BY ConstantFacts
    <3>3. ~Stale(1)
      <4>1. asset[1] \in Nat \ {0}
        BY <3>2, ConstantFacts
      <4> QED  BY <3>2, <4>1 DEF Stale
    <3>4. Top(feed) = 1
      BY <3>3 DEF Top
    <3>5. \A c \in Copies : disk[c] <= 1
      BY <3>1 DEF Copies
    <3> QED  BY <1>3, <3>4, <3>5 DEF BuildsUpTo
  <2>2. conf.record.time = 0 /\ file.record.time = 0
    BY ConstantFacts DEF NoRecord
  <2> QED  BY <1>1, <1>2, <1>3, <2>1, <2>2 DEF LifeInv
<1>5. CheckInv /\ RecordInv
  BY <1>1, <1>3 DEF CheckInv, RecordInv
<1>6. TriesInv
  <2>1. \A v \in Versions : Losses(v) \in Nat /\ Spare(v) \in Nat
    BY <1>t, <1>4, SpareBounds
  <2>2. LoopIsBounded
    BY <1>1, <2>1 DEF LoopIsBounded, kMaxUpdateRetries
  <2>3. \A v \in Versions : Claim(file.record, v)
    <3> SUFFICES ASSUME NEW v \in Versions PROVE Claim(file.record, v)
      OBVIOUS
    <3>1. CountedIn(file.record, v) \in 0 .. 3 /\ Unrecorded(v) \in {0, 1}
      BY <1>t, Counts
    <3> QED  BY <1>1, <2>1, <3>1 DEF Claim
  <2> QED  BY <1>1, <2>2, <2>3 DEF TriesInv
<1> QED  BY <1>4, <1>5, <1>6 DEF BoundInv

LEMMA BoundNext ==
    UpdateTyped /\ UpdateTyped' /\ BoundInv /\ [UpdateNext]_updateVars => BoundInv'
<1> SUFFICES ASSUME UpdateTyped, UpdateTyped', BoundInv, [UpdateNext]_updateVars PROVE BoundInv'
  OBVIOUS
<1>1. ASSUME NEW c \in Copies, Begin(c) PROVE BoundInv'
  BY <1>1, BeginBound
<1>2. CASE (\E c \in Copies : UserStarts(c)) \/ UpdateTimer \/ CheckNow \/ ToggleChecks \/ SaveTimer
           \/ ApplyFinished \/ RefuseInstall \/ HandleClose \/ SaverOpens
  BY <1>2, UserCarries, CarriesBound
<1>3. CASE SaverWrites
  BY <1>3, SaverWritesCarries, CarriesBound
<1>4. CASE Check
  BY <1>4, CheckCarries, CarriesBound
<1>5. CASE HelperStep
  BY <1>5, HelperCarries, CarriesBound
<1>6. CASE Release
  BY <1>6, WorldCarries, CarriesBound
<1>7. CASE LaunchInstall
  BY <1>7, LaunchBound
<1>8. CASE RecordInstall
  BY <1>8, RecordBound
<1>9. CASE Exit \/ DockDies
  BY <1>9, EndsBound
<1>10. CASE NextDay
  BY <1>10, DayBound
<1>11. CASE UNCHANGED updateVars
  BY <1>11, WorldCarries, CarriesBound
<1> QED  BY <1>1, <1>2, <1>3, <1>4, <1>5, <1>6, <1>7, <1>8, <1>9, <1>10, <1>11 DEF UpdateNext, UI, Saver

-----------------------------------------------------------------------------
(***************************************************************************)
(* The access to the master file tables.                                   *)
(***************************************************************************)

HelperStates == [at : {"none", "queued", "begun", "between", "inside", "flush"},
                 todo : Seq(Volumes), sent : 0 .. Batches, joined : BOOLEAN]
PipeStates == [made : BOOLEAN, client : BOOLEAN, chunks : Seq(Chunk)]
BuildStates == [at : {"idle", "elevated", "pipe", "connect", "read", "crawl"},
                todo : Seq(Volumes), any : BOOLEAN, index : Seq(Part), starts : Seq(JournalStart),
                open : BOOLEAN, delivered : Nat, failed : Nat, denied : BOOLEAN]
Publications == [mode : {"starting", "mft", "folders"}, index : Seq(Part), journals : Seq(JournalStart)]

Count == Len(Letters)

\* No volume twice, one of those to come or two at once; those before the last are
\* finished, and the last if it is not open; every journal is that of its volume.
Distinct(index) ==
    /\ Len(index) <= Count
    /\ \A i, j \in DOMAIN index : index[i].letter = index[j].letter => i = j
Closed(index, open) ==
    /\ open => index # <<>>
    /\ \A i \in DOMAIN index : index[i].finished = IF open /\ i = Len(index) THEN 0 ELSE 1
Linked(index, starts) ==
    \A k \in DOMAIN starts :
        /\ starts[k].volume \in DOMAIN index
        /\ index[starts[k].volume].letter = starts[k].letter
HasWhole(index) == \E i \in DOMAIN index : index[i].got = Batches

Sound(b) == Distinct(b.index) /\ Closed(b.index, b.open) /\ Linked(b.index, b.starts)

\* The volumes read so far are among the first n.
Among(index, n) ==
    /\ Len(index) <= n
    /\ \A i \in DOMAIN index : \E r \in 1 .. n : index[i].letter = Letters[r]
\* What is left to do are the volumes after the first n.
Left(todo, n) ==
    /\ Len(todo) = Count - n
    /\ \A j \in 1 .. Count - n : todo[j] = Letters[n + j]

\* A place in what a helper sends: the volumes it is through with, and the batches
\* of the next that are sent, or -1 before it is announced.
Place == {q \in [through : 0 .. Count, sent : -1 .. Batches] : q.sent >= 0 => q.through < Count}
At(n, k) == [through |-> n, sent |-> k]

\* What a chunk takes the stream from one place to.
Leads(q, chunk, r) ==
    \/ /\ chunk.tag = "V" /\ q.sent = -1 /\ q.through < Count
       /\ chunk.letter = Letters[q.through + 1] /\ r = At(q.through, 0)
    \/ /\ chunk.tag = "R" /\ q.sent >= 0 /\ q.sent < Batches /\ r = At(q.through, q.sent + 1)
    \/ /\ chunk.tag = "E" /\ q.sent = Batches /\ r = At(q.through + 1, -1)
    \/ /\ chunk.tag = "X" /\ q.sent < Batches /\ q.through < Count /\ r = At(q.through + 1, -1)
    \/ /\ chunk.tag = "Z" /\ q.sent = -1 /\ r = q

\* f says where the stream is after each chunk in the pipe; the reader is at its
\* beginning and the helper that is still joined at its end.
Carried(chunks, f) == \A i \in 1 .. Len(chunks) : Leads(f[i - 1], chunks[i], f[i])
ReaderAt(b, q) ==
    /\ q.sent = IF b.open THEN b.index[Len(b.index)].got ELSE -1
    /\ Among(b.index, IF b.open THEN q.through + 1 ELSE q.through)
HelperAt(h, q) ==
    /\ h.at \in {"between", "inside", "flush"}
    /\ q.sent = IF h.at = "inside" THEN h.sent ELSE -1
    /\ Left(h.todo, q.through)

\* Where the attempt, its pipe and the helper are.
PartsInv ==
    /\ pipe.made <=> build.at \in {"connect", "read"}
    /\ pipe.client => pipe.made
    /\ ~pipe.client => pipe.chunks = <<>> /\ ~helper.joined /\ build.at # "read"
    /\ helper.joined => helper.at \in {"between", "inside", "flush"}
    /\ helper.at # "inside" => helper.sent = 0
    /\ build.at \in {"pipe", "connect", "crawl"} => build.index = <<>> /\ build.starts = <<>>
    /\ build.open \/ build.delivered > 0 => build.at = "read"

BuildInv ==
    /\ Sound(build)
    /\ build.at = "elevated" =>
          \E n \in 0 .. Count : Among(build.index, n) /\ Left(build.todo, n)
    /\ build.delivered > 0 \/ (build.at = "elevated" /\ build.any) => HasWhole(build.index)

StreamInv ==
    pipe.client =>
       \E f \in [0 .. Len(pipe.chunks) -> Place] :
          /\ Carried(pipe.chunks, f)
          /\ ReaderAt(build, f[0])
          /\ helper.joined => HelperAt(helper, f[Len(pipe.chunks)])

AccessInv == AccessTypeOK /\ PartsInv /\ BuildInv /\ StreamInv /\ IndexIsOfOneAttempt

LEMMA LettersFacts ==
    /\ Count \in Nat /\ Count >= 1 /\ Batches \in Nat /\ Batches >= 1
    /\ Letters \in Seq(Volumes) /\ DOMAIN Letters = 1 .. Count
    /\ \A i \in 1 .. Count : Letters[i] \in Volumes
    /\ \A i, j \in 1 .. Count : Letters[i] = Letters[j] => i = j
BY AccessAssumption DEF Count

\* An index with the same volumes in the same places.
Alike(d, c) == Len(d) = Len(c) /\ \A i \in 1 .. Len(c) : d[i].letter = c[i].letter

LEMMA AlikeFacts ==
    ASSUME NEW c \in Seq(Part), NEW d \in Seq(Part), Alike(d, c)
    PROVE  /\ Distinct(c) => Distinct(d)
           /\ \A s : Linked(c, s) => Linked(d, s)
           /\ \A n : Among(c, n) => Among(d, n)
<1>1. DOMAIN c = 1 .. Len(c) /\ DOMAIN d = 1 .. Len(c) /\ Len(c) \in Nat
  BY DEF Alike
<1>2. Distinct(c) => Distinct(d)
  BY <1>1 DEF Distinct, Alike
<1>3. \A s : Linked(c, s) => Linked(d, s)
  BY <1>1 DEF Linked, Alike
<1>4. \A n : Among(c, n) => Among(d, n)
  BY <1>1 DEF Among, Alike
<1> QED  BY <1>2, <1>3, <1>4

\* One more volume, the next one.
WithVolume(index, n) == Append(index, [letter |-> Letters[n + 1], got |-> 0, finished |-> 0])
WithJournal(index, starts, n) ==
    Append(starts, [letter |-> Letters[n + 1], volume |-> Len(index) + 1])

LEMMA VolumeAdded ==
    ASSUME NEW index \in Seq(Part), NEW starts \in Seq(JournalStart), NEW n \in 0 .. Count - 1,
           Distinct(index), Closed(index, FALSE), Linked(index, starts), Among(index, n)
    PROVE  LET c == WithVolume(index, n)
               s == WithJournal(index, starts, n)
           IN  /\ c \in Seq(Part) /\ s \in Seq(JournalStart)
               /\ Distinct(c) /\ Closed(c, TRUE) /\ Linked(c, s) /\ Among(c, n + 1)
               /\ c[Len(c)].got = 0
               /\ HasWhole(index) => HasWhole(c)
<1> DEFINE c == WithVolume(index, n)
           s == WithJournal(index, starts, n)
<1> DEFINE p == [letter |-> Letters[n + 1], got |-> 0, finished |-> 0]
           q == [letter |-> Letters[n + 1], volume |-> Len(index) + 1]
<1>n. Len(index) \in Nat /\ n \in Nat /\ n + 1 \in 1 .. Count /\ Len(index) <= n /\ Count \in Nat
  BY LettersFacts DEF Among
<1>1. Letters[n + 1] \in Volumes
  BY <1>n, LettersFacts
<1>2. p \in Part
  BY <1>1, LettersFacts DEF Part
<1>3. q \in JournalStart
  BY <1>1, <1>n, LettersFacts DEF JournalStart, Count
<1>p. p.letter = Letters[n + 1] /\ p.got = 0 /\ p.finished = 0
      /\ q.letter = Letters[n + 1] /\ q.volume = Len(index) + 1
  OBVIOUS
<1>d. c = Append(index, p) /\ s = Append(starts, q)
  BY DEF WithVolume, WithJournal
<1> HIDE DEF p, q, c, s
<1>4. /\ c \in Seq(Part) /\ Len(c) = Len(index) + 1
      /\ \A i \in 1 .. Len(index) : c[i] = index[i]
      /\ c[Len(index) + 1] = p
  BY <1>2, <1>d
<1>5. /\ s \in Seq(JournalStart) /\ Len(s) = Len(starts) + 1
      /\ \A i \in 1 .. Len(starts) : s[i] = starts[i]
      /\ s[Len(starts) + 1] = q
  BY <1>3, <1>d
<1>6. DOMAIN c = 1 .. Len(index) + 1 /\ DOMAIN index = 1 .. Len(index)
      /\ DOMAIN s = 1 .. Len(starts) + 1 /\ DOMAIN starts = 1 .. Len(starts) /\ Len(starts) \in Nat
  BY <1>4, <1>5
<1>7. \A i \in 1 .. Len(index) : index[i].letter # Letters[n + 1]
  <2> SUFFICES ASSUME NEW i \in 1 .. Len(index), index[i].letter = Letters[n + 1] PROVE FALSE
    OBVIOUS
  <2>1. PICK r \in 1 .. n : index[i].letter = Letters[r]
    BY <1>6 DEF Among
  <2>2. r \in 1 .. Count /\ r # n + 1
    BY <1>n
  <2> QED  BY <1>n, <2>1, <2>2, LettersFacts
<1>8. Distinct(c)
  <2>1. Len(c) <= Count
    BY <1>4, <1>n
  <2> SUFFICES ASSUME NEW i \in DOMAIN c, NEW j \in DOMAIN c, c[i].letter = c[j].letter PROVE i = j
    BY <2>1 DEF Distinct
  <2>2. CASE i \in 1 .. Len(index) /\ j \in 1 .. Len(index)
    BY <2>2, <1>4, <1>6 DEF Distinct
  <2>3. CASE i \notin 1 .. Len(index) \/ j \notin 1 .. Len(index)
    <3>1. i = Len(index) + 1 \/ j = Len(index) + 1
      BY <2>3, <1>6, <1>n
    <3> QED  BY <3>1, <1>4, <1>6, <1>7, <1>n, <1>p
  <2> QED  BY <2>2, <2>3
<1>9. Closed(c, TRUE)
  <2>1. c # <<>>
    BY <1>4, <1>n
  <2>2. \A i \in 1 .. Len(index) : c[i].finished = 1
    BY <1>4, <1>6 DEF Closed
  <2>3. \A i \in DOMAIN c : c[i].finished = IF i = Len(c) THEN 0 ELSE 1
    BY <2>2, <1>4, <1>6, <1>n, <1>p
  <2> QED  BY <2>1, <2>3 DEF Closed
<1>10. Linked(c, s)
  <2> SUFFICES ASSUME NEW k \in DOMAIN s
               PROVE  s[k].volume \in DOMAIN c /\ c[s[k].volume].letter = s[k].letter
    BY DEF Linked
  <2>1. CASE k \in 1 .. Len(starts)
    <3>1. s[k] = starts[k] /\ starts[k].volume \in DOMAIN index
          /\ index[starts[k].volume].letter = starts[k].letter
      BY <2>1, <1>5, <1>6 DEF Linked
    <3> QED  BY <3>1, <1>4, <1>6, <1>n
  <2>2. CASE k = Len(starts) + 1
    BY <2>2, <1>4, <1>5, <1>6, <1>n, <1>p
  <2> QED  BY <2>1, <2>2, <1>6
<1>11. Among(c, n + 1)
  <2>1. Len(c) <= n + 1
    BY <1>4, <1>n
  <2>2. \A i \in 1 .. Len(index) : \E r \in 1 .. n + 1 : c[i].letter = Letters[r]
    BY <1>4, <1>6, <1>n DEF Among
  <2>3. \E r \in 1 .. n + 1 : p.letter = Letters[r]
    BY <1>n, <1>p
  <2>4. \A i \in DOMAIN c : \E r \in 1 .. n + 1 : c[i].letter = Letters[r]
    BY <2>2, <2>3, <1>4, <1>6, <1>n
  <2> QED  BY <2>1, <2>4 DEF Among
<1>12. HasWhole(index) => HasWhole(c)
  BY <1>4, <1>6, <1>n DEF HasWhole
<1> QED  BY <1>4, <1>5, <1>8, <1>9, <1>10, <1>11, <1>12, <1>p DEF c, s

\* More records of the last volume; an index with its last volume finished.
LEMMA RecordsAdded ==
    ASSUME NEW index \in Seq(Part), index # <<>>, NEW k \in Nat, index[Len(index)].got + k <= Batches,
           NEW c, c = [index EXCEPT ![Len(index)].got = @ + k]
    PROVE  /\ c \in Seq(Part) /\ Alike(c, index) /\ c # <<>>
           /\ \A o \in BOOLEAN : Closed(index, o) => Closed(c, o)
           /\ HasWhole(index) => HasWhole(c)
           /\ c[Len(c)].got = index[Len(index)].got + k
<1> DEFINE l == Len(index)
           e == [index[l] EXCEPT !.got = @ + k]
<1>1. l \in Nat \ {0} /\ DOMAIN index = 1 .. l /\ l \in DOMAIN index /\ index[l] \in Part
  OBVIOUS
<1>2. e \in Part /\ e.letter = index[l].letter /\ e.finished = index[l].finished
      /\ e.got = index[l].got + k
  BY <1>1, LettersFacts DEF Part
<1>3. c = [index EXCEPT ![l] = e]
  OBVIOUS
<1>b. Batches \in Nat /\ e.got <= Batches /\ \A i \in 1 .. l : index[i].got \in 0 .. Batches
  <2>1. \A i \in 1 .. l : index[i] \in Part
    BY <1>1
  <2>2. \A x \in Part : x.got \in 0 .. Batches
    BY DEF Part
  <2>3. e.got \in 0 .. Batches
    BY <1>2, <2>2
  <2> QED  BY <2>1, <2>2, <2>3, LettersFacts
<1> HIDE DEF e
<1>4. c \in Seq(Part) /\ Len(c) = l /\ DOMAIN c = 1 .. l
      /\ c[l] = e /\ \A i \in 1 .. l : i # l => c[i] = index[i]
  BY <1>1, <1>2, <1>3
<1> HIDE DEF l
<1>5. Alike(c, index)
  BY <1>1, <1>2, <1>4 DEF Alike, l
<1>6. c # <<>>
  BY <1>1, <1>4
<1>7. \A o \in BOOLEAN : Closed(index, o) => Closed(c, o)
  BY <1>1, <1>2, <1>4, <1>6 DEF Closed, l
<1>8. ASSUME HasWhole(index) PROVE HasWhole(c)
  <2>1. PICK i \in 1 .. l : index[i].got = Batches
    BY <1>1, <1>8 DEF HasWhole
  <2>2. c[i].got = Batches
    <3>1. CASE i = l
      BY <3>1, <2>1, <1>2, <1>4, <1>b
    <3>2. CASE i # l
      BY <3>2, <2>1, <1>4
    <3> QED  BY <3>1, <3>2
  <2> QED  BY <2>2, <1>4 DEF HasWhole
<1> QED  BY <1>2, <1>4, <1>5, <1>6, <1>7, <1>8 DEF l

LEMMA VolumeFinished ==
    ASSUME NEW index \in Seq(Part), Closed(index, TRUE),
           NEW c, c = [index EXCEPT ![Len(index)].finished = @ + 1]
    PROVE  /\ c \in Seq(Part) /\ Alike(c, index) /\ Closed(c, FALSE)
           /\ HasWhole(index) => HasWhole(c)
           /\ index[Len(index)].got = Batches => HasWhole(c)
<1> DEFINE l == Len(index)
           e == [index[l] EXCEPT !.finished = @ + 1]
<1>0. index # <<>>
  BY DEF Closed
<1>1. l \in Nat \ {0} /\ DOMAIN index = 1 .. l /\ l \in DOMAIN index /\ index[l] \in Part
  BY <1>0
<1>f. \A i \in 1 .. l : index[i].finished = IF i = l THEN 0 ELSE 1
  BY <1>1 DEF Closed
<1>2. e \in Part /\ e.letter = index[l].letter /\ e.finished = 1 /\ e.got = index[l].got
  <2>1. index[l].finished = 0
    BY <1>1, <1>f
  <2> QED  BY <1>1, <2>1 DEF Part
<1>3. c = [index EXCEPT ![l] = e]
  OBVIOUS
<1> HIDE DEF e
<1>4. c \in Seq(Part) /\ Len(c) = l /\ DOMAIN c = 1 .. l
      /\ c[l] = e /\ \A i \in 1 .. l : i # l => c[i] = index[i]
  BY <1>1, <1>2, <1>3
<1> HIDE DEF l
<1>5. Alike(c, index)
  BY <1>1, <1>2, <1>4 DEF Alike, l
<1>7. Closed(c, FALSE)
  BY <1>1, <1>2, <1>4, <1>f DEF Closed
<1>8. HasWhole(index) => HasWhole(c)
  <2>1. \A i \in 1 .. l : c[i].got = index[i].got
    BY <1>2, <1>4
  <2> QED  BY <2>1, <1>1, <1>4 DEF HasWhole
<1>9. index[l].got = Batches => HasWhole(c)
  BY <1>1, <1>2, <1>4 DEF HasWhole
<1> QED  BY <1>4, <1>5, <1>7, <1>8, <1>9 DEF l

\* The types again, one fact for each variable.
LEMMA AccessTypes ==
    /\ AccessTypeOK <=>
       /\ token \in Tokens
       /\ task \in BOOLEAN /\ prompting \in BOOLEAN /\ offer \in BOOLEAN /\ rebuild \in BOOLEAN
       /\ registrar \in {"none", "awaited", "given up"} /\ answer \in {"none", "yes", "no"}
       /\ helper \in HelperStates /\ pipe \in PipeStates
       /\ build \in BuildStates /\ published \in Publications
    /\ AccessTypeOK' <=>
       /\ token' \in Tokens
       /\ task' \in BOOLEAN /\ prompting' \in BOOLEAN /\ offer' \in BOOLEAN /\ rebuild' \in BOOLEAN
       /\ registrar' \in {"none", "awaited", "given up"} /\ answer' \in {"none", "yes", "no"}
       /\ helper' \in HelperStates /\ pipe' \in PipeStates
       /\ build' \in BuildStates /\ published' \in Publications
BY DEF AccessTypeOK, HelperStates, PipeStates, BuildStates, Publications

LEMMA Nothings ==
    /\ NoHelper \in HelperStates /\ NoPipe \in PipeStates /\ NoBuild \in BuildStates
    /\ Nothing \in Publications
    /\ Sound(NoBuild)
    /\ \A s \in Seq(Part) : s = <<>> => Distinct(s) /\ Closed(s, FALSE)
                                       /\ Linked(s, <<>>) /\ \A n \in Nat : Among(s, n)
<1>1. <<>> \in Seq(Part) /\ <<>> \in Seq(Volumes) /\ <<>> \in Seq(JournalStart) /\ <<>> \in Seq(Chunk)
  OBVIOUS
<1>2. 0 \in 0 .. Batches
  BY LettersFacts
<1>3. /\ NoHelper \in HelperStates /\ NoPipe \in PipeStates /\ NoBuild \in BuildStates
      /\ Nothing \in Publications
  BY <1>1, <1>2 DEF NoHelper, NoPipe, NoBuild, Nothing, HelperStates, PipeStates, BuildStates, Publications
<1>4. ASSUME NEW s \in Seq(Part), s = <<>>
      PROVE  Distinct(s) /\ Closed(s, FALSE) /\ Linked(s, <<>>) /\ \A n \in Nat : Among(s, n)
  <2>1. DOMAIN s = {} /\ Len(s) = 0
    BY <1>4
  <2> QED  BY <2>1, LettersFacts DEF Distinct, Closed, Linked, Among
<1>5. Sound(NoBuild)
  BY <1>1, <1>4 DEF Sound, NoBuild
<1> QED  BY <1>3, <1>4, <1>5

\* An attempt that begins.
LEMMA AttemptFacts ==
    ASSUME NEW b \in BuildStates, NEW w \in {"elevated", "pipe", "crawl"}, ~b.open, NEW c, c = Attempt(b, w)
    PROVE  /\ c \in BuildStates /\ Sound(c)
           /\ c.at = w /\ c.index = <<>> /\ c.starts = <<>> /\ ~c.open
           /\ c.any = b.any /\ c.delivered = b.delivered
           /\ Among(c.index, 0) /\ Left(c.todo, 0)
<1>1. <<>> \in Seq(Part) /\ <<>> \in Seq(JournalStart)
  OBVIOUS
<1>2. /\ c \in BuildStates /\ c.at = w /\ c.index = <<>> /\ c.starts = <<>> /\ ~c.open
      /\ c.any = b.any /\ c.delivered = b.delivered /\ c.todo = Letters
  BY <1>1, LettersFacts DEF Attempt, BuildStates
<1>3. Sound(c) /\ Among(c.index, 0)
  <2>1. Distinct(c.index) /\ Closed(c.index, FALSE) /\ Linked(c.index, <<>>) /\ Among(c.index, 0)
    BY <1>1, <1>2, Nothings
  <2>2. c.open = FALSE
    BY <1>2 DEF BuildStates
  <2> QED  BY <1>2, <2>1, <2>2 DEF Sound
<1>4. Left(c.todo, 0)
  BY <1>2, LettersFacts DEF Left, Count
<1> QED  BY <1>2, <1>3, <1>4

\* Another state of the attempt, whose index is as sound, closed or with a volume open.
Remade(b, c, open) ==
    /\ c \in BuildStates
    /\ Distinct(c.index) /\ Closed(c.index, open) /\ Linked(c.index, c.starts)
    /\ HasWhole(b.index) => HasWhole(c.index)
    /\ c.at = b.at /\ c.todo = b.todo /\ c.any = b.any /\ c.open = b.open
    /\ c.delivered = b.delivered /\ c.failed = b.failed

\* A volume announced.
LEMMA AddVolumeFacts ==
    ASSUME NEW b \in BuildStates, Sound(b), ~b.open, NEW n \in 0 .. Count - 1, Among(b.index, n)
    PROVE  LET c == AddVolume(b, Letters[n + 1]) IN
           /\ Remade(b, c, TRUE)
           /\ Among(c.index, n + 1) /\ c.index # <<>> /\ c.index[Len(c.index)].got = 0
<1> DEFINE c == AddVolume(b, Letters[n + 1])
           i == WithVolume(b.index, n)
           s == WithJournal(b.index, b.starts, n)
<1>1. b.index \in Seq(Part) /\ b.starts \in Seq(JournalStart) /\ b.open = FALSE
  BY DEF BuildStates
<1>2. Distinct(b.index) /\ Closed(b.index, FALSE) /\ Linked(b.index, b.starts)
  BY <1>1 DEF Sound
<1>3. /\ i \in Seq(Part) /\ s \in Seq(JournalStart)
      /\ Distinct(i) /\ Closed(i, TRUE) /\ Linked(i, s) /\ Among(i, n + 1)
      /\ i[Len(i)].got = 0
      /\ HasWhole(b.index) => HasWhole(i)
  BY <1>1, <1>2, VolumeAdded
<1>4. c = [b EXCEPT !.index = i, !.starts = s]
  BY DEF AddVolume, WithVolume, WithJournal
<1> HIDE DEF c, i, s
<1>5. /\ c \in BuildStates /\ c.index = i /\ c.starts = s
      /\ c.at = b.at /\ c.todo = b.todo /\ c.any = b.any /\ c.open = b.open
      /\ c.delivered = b.delivered /\ c.failed = b.failed
  BY <1>3, <1>4 DEF BuildStates
<1>6. c.index # <<>>
  BY <1>3, <1>5 DEF Closed
<1> QED  BY <1>3, <1>5, <1>6 DEF Remade, c

LEMMA AddRecordsFacts ==
    ASSUME NEW b \in BuildStates, Distinct(b.index), Closed(b.index, TRUE), Linked(b.index, b.starts),
           NEW k \in Nat, b.index[Len(b.index)].got + k <= Batches
    PROVE  LET c == AddRecords(b, k) IN
           /\ Remade(b, c, TRUE)
           /\ c.index # <<>> /\ c.index[Len(c.index)].got = b.index[Len(b.index)].got + k
           /\ \A n : Among(b.index, n) => Among(c.index, n)
<1> DEFINE c == AddRecords(b, k)
           i == [b.index EXCEPT ![Len(b.index)].got = @ + k]
<1>1. b.index \in Seq(Part) /\ b.index # <<>>
  BY DEF BuildStates, Closed
<1>2. /\ i \in Seq(Part) /\ Alike(i, b.index) /\ i # <<>>
      /\ \A o \in BOOLEAN : Closed(b.index, o) => Closed(i, o)
      /\ HasWhole(b.index) => HasWhole(i)
      /\ i[Len(i)].got = b.index[Len(b.index)].got + k
  BY <1>1, RecordsAdded
<1>3. c = [b EXCEPT !.index = i]
  BY DEF AddRecords
<1> HIDE DEF c, i
<1>4. /\ c \in BuildStates /\ c.index = i /\ c.starts = b.starts
      /\ c.at = b.at /\ c.todo = b.todo /\ c.any = b.any /\ c.open = b.open
      /\ c.delivered = b.delivered /\ c.failed = b.failed
  BY <1>2, <1>3 DEF BuildStates
<1>5. Distinct(i) /\ Linked(i, b.starts) /\ \A n : Among(b.index, n) => Among(i, n)
  BY <1>1, <1>2, AlikeFacts
<1> QED  BY <1>2, <1>4, <1>5 DEF Remade, c

LEMMA FinishVolumeFacts ==
    ASSUME NEW b \in BuildStates, Distinct(b.index), Closed(b.index, TRUE), Linked(b.index, b.starts)
    PROVE  LET c == FinishVolume(b) IN
           /\ Remade(b, c, FALSE)
           /\ \A n : Among(b.index, n) => Among(c.index, n)
           /\ b.index[Len(b.index)].got = Batches => HasWhole(c.index)
<1> DEFINE c == FinishVolume(b)
           i == [b.index EXCEPT ![Len(b.index)].finished = @ + 1]
<1>1. b.index \in Seq(Part)
  BY DEF BuildStates
<1>2. /\ i \in Seq(Part) /\ Alike(i, b.index) /\ Closed(i, FALSE)
      /\ HasWhole(b.index) => HasWhole(i)
      /\ b.index[Len(b.index)].got = Batches => HasWhole(i)
  BY <1>1, VolumeFinished
<1>3. c = [b EXCEPT !.index = i]
  BY DEF FinishVolume
<1> HIDE DEF c, i
<1>4. /\ c \in BuildStates /\ c.index = i /\ c.starts = b.starts
      /\ c.at = b.at /\ c.todo = b.todo /\ c.any = b.any /\ c.open = b.open
      /\ c.delivered = b.delivered /\ c.failed = b.failed
  BY <1>2, <1>3 DEF BuildStates
<1>5. Distinct(i) /\ Linked(i, b.starts) /\ \A n : Among(b.index, n) => Among(i, n)
  BY <1>1, <1>2, AlikeFacts
<1> QED  BY <1>2, <1>4, <1>5 DEF Remade, c

\* The first of what is left, and what is left after it.
LEMMA LeftFacts ==
    ASSUME NEW todo \in Seq(Volumes), NEW n \in 0 .. Count, Left(todo, n)
    PROVE  /\ todo = <<>> <=> n = Count
           /\ todo # <<>> => /\ Head(todo) = Letters[n + 1] /\ n \in 0 .. Count - 1
                             /\ Head(todo) \in Volumes
                             /\ Tail(todo) \in Seq(Volumes) /\ Left(Tail(todo), n + 1)
<1>1. Len(todo) = Count - n /\ Count \in Nat /\ n \in Nat /\ n <= Count
      /\ \A j \in 1 .. Count - n : todo[j] = Letters[n + j]
  BY LettersFacts DEF Left
<1>2. todo = <<>> <=> n = Count
  <2>1. todo = <<>> <=> Len(todo) = 0
    OBVIOUS
  <2> QED  BY <1>1, <2>1
<1>3. ASSUME todo # <<>>
      PROVE  /\ Head(todo) = Letters[n + 1] /\ n \in 0 .. Count - 1
             /\ Head(todo) \in Volumes
             /\ Tail(todo) \in Seq(Volumes) /\ Left(Tail(todo), n + 1)
  <2>1. /\ Head(todo) = todo[1] /\ Head(todo) \in Volumes /\ Tail(todo) \in Seq(Volumes)
        /\ Len(Tail(todo)) = Len(todo) - 1
        /\ \A j \in 1 .. Len(todo) - 1 : Tail(todo)[j] = todo[j + 1]
    BY <1>3
  <2>2. n \in 0 .. Count - 1 /\ 1 \in 1 .. Count - n
    BY <1>1, <1>2, <1>3
  <2>3. Left(Tail(todo), n + 1)
    <3>1. Len(Tail(todo)) = Count - (n + 1)
      BY <1>1, <2>1
    <3>2. ASSUME NEW j \in 1 .. Count - (n + 1) PROVE Tail(todo)[j] = Letters[(n + 1) + j]
      <4>1. j \in 1 .. Len(todo) - 1 /\ j + 1 \in 1 .. Count - n /\ n + (j + 1) = (n + 1) + j
        BY <1>1
      <4> QED  BY <1>1, <2>1, <4>1
    <3> QED  BY <3>1, <3>2 DEF Left
  <2> QED  BY <1>1, <2>1, <2>2, <2>3
<1> QED  BY <1>2, <1>3

\* A chunk more at the end of what is carried, and one less at its beginning.
LEMMA CarriedMore ==
    ASSUME NEW chunks \in Seq(Chunk), NEW f \in [0 .. Len(chunks) -> Place], Carried(chunks, f),
           NEW x \in Chunk, NEW q \in Place, Leads(f[Len(chunks)], x, q)
    PROVE  \E g \in [0 .. Len(Append(chunks, x)) -> Place] :
              /\ Carried(Append(chunks, x), g)
              /\ g[0] = f[0] /\ g[Len(Append(chunks, x))] = q
<1> DEFINE l == Len(chunks)
           c == Append(chunks, x)
           g == [i \in 0 .. l + 1 |-> IF i <= l THEN f[i] ELSE q]
<1>1. l \in Nat /\ Len(c) = l + 1 /\ c \in Seq(Chunk) /\ c[l + 1] = x /\ \A i \in 1 .. l : c[i] = chunks[i]
  OBVIOUS
<1>2. g \in [0 .. l + 1 -> Place] /\ g[l + 1] = q /\ \A i \in 0 .. l : g[i] = f[i]
  BY <1>1
<1> HIDE DEF l, c, g
<1>3. ASSUME NEW i \in 1 .. l + 1 PROVE Leads(g[i - 1], c[i], g[i])
  <2>1. CASE i = l + 1
    <3>1. i - 1 = l /\ l \in 0 .. l
      BY <1>1, <2>1
    <3> QED  BY <1>1, <1>2, <2>1, <3>1 DEF l
  <2>2. CASE i # l + 1
    <3>1. i \in 1 .. l /\ i \in 0 .. l /\ i - 1 \in 0 .. l
      BY <1>1, <2>2
    <3> QED  BY <1>1, <1>2, <3>1 DEF Carried, l
  <2> QED  BY <2>1, <2>2
<1>4. g[0] = f[0]
  BY <1>1, <1>2
<1> QED  BY <1>1, <1>2, <1>3, <1>4 DEF Carried, c

LEMMA CarriedLess ==
    ASSUME NEW chunks \in Seq(Chunk), chunks # <<>>, NEW f \in [0 .. Len(chunks) -> Place], Carried(chunks, f)
    PROVE  /\ Head(chunks) \in Chunk /\ Tail(chunks) \in Seq(Chunk)
           /\ f[0] \in Place /\ f[1] \in Place /\ Leads(f[0], Head(chunks), f[1])
           /\ \E g \in [0 .. Len(Tail(chunks)) -> Place] :
                 /\ Carried(Tail(chunks), g)
                 /\ g[0] = f[1] /\ g[Len(Tail(chunks))] = f[Len(chunks)]
<1> DEFINE l == Len(chunks)
           c == Tail(chunks)
           g == [i \in 0 .. l - 1 |-> f[i + 1]]
<1>1. /\ l \in Nat \ {0} /\ Len(c) = l - 1 /\ c \in Seq(Chunk) /\ Head(chunks) \in Chunk
      /\ Head(chunks) = chunks[1] /\ \A i \in 1 .. l - 1 : c[i] = chunks[i + 1]
  OBVIOUS
<1>2. g \in [0 .. l - 1 -> Place] /\ \A i \in 0 .. l - 1 : g[i] = f[i + 1]
  BY <1>1
<1>3. f[0] \in Place /\ f[1] \in Place /\ Leads(f[0], Head(chunks), f[1])
  <2>1. Leads(f[1 - 1], chunks[1], f[1])
    BY <1>1 DEF Carried
  <2> QED  BY <1>1, <2>1
<1> HIDE DEF l, c, g
<1>4. ASSUME NEW i \in 1 .. l - 1 PROVE Leads(g[i - 1], c[i], g[i])
  <2>1. i + 1 \in 1 .. l /\ (i + 1) - 1 = i /\ i \in 0 .. l - 1 /\ i - 1 \in 0 .. l - 1 /\ (i - 1) + 1 = i
    BY <1>1
  <2>2. Leads(f[(i + 1) - 1], chunks[i + 1], f[i + 1])
    BY <2>1 DEF Carried, l
  <2>3. g[i - 1] = f[i] /\ g[i] = f[i + 1]
    BY <1>2, <2>1
  <2> QED  BY <1>1, <2>1, <2>2, <2>3
<1>5. g[0] = f[1] /\ g[l - 1] = f[l]
  <2>1. 0 \in 0 .. l - 1 /\ l - 1 \in 0 .. l - 1 /\ (l - 1) + 1 = l /\ 0 + 1 = 1
    BY <1>1
  <2> QED  BY <1>2, <2>1
<1> QED  BY <1>1, <1>2, <1>3, <1>4, <1>5 DEF Carried, c, l

LEMMA AccessFacts ==
    ASSUME AccessInv
    PROVE  /\ token \in Tokens
           /\ task \in BOOLEAN /\ prompting \in BOOLEAN /\ offer \in BOOLEAN /\ rebuild \in BOOLEAN
           /\ registrar \in {"none", "awaited", "given up"} /\ answer \in {"none", "yes", "no"}
           /\ helper \in HelperStates /\ pipe \in PipeStates
           /\ build \in BuildStates /\ published \in Publications
           /\ pipe.chunks \in Seq(Chunk) /\ build.delivered \in Nat
           /\ build.todo \in Seq(Volumes) /\ helper.todo \in Seq(Volumes)
<1>1. /\ token \in Tokens
      /\ task \in BOOLEAN /\ prompting \in BOOLEAN /\ offer \in BOOLEAN /\ rebuild \in BOOLEAN
      /\ registrar \in {"none", "awaited", "given up"} /\ answer \in {"none", "yes", "no"}
      /\ helper \in HelperStates /\ pipe \in PipeStates
      /\ build \in BuildStates /\ published \in Publications
  BY AccessTypes DEF AccessInv
<1>2. pipe.chunks \in Seq(Chunk)
  BY <1>1 DEF PipeStates
<1>3. build.delivered \in Nat /\ build.todo \in Seq(Volumes)
  BY <1>1 DEF BuildStates
<1>4. helper.todo \in Seq(Volumes)
  BY <1>1 DEF HelperStates
<1> QED  BY <1>1, <1>2, <1>3, <1>4

LEMMA AccessInvInit == ASSUME NEW due \in BOOLEAN, AccessStart(due) PROVE AccessInv
<1>1. AccessTypeOK
  BY Nothings, AccessTypes DEF AccessStart
<1>2. build.open = FALSE /\ build.delivered = 0 /\ build.at = "idle" /\ build = NoBuild
  BY DEF AccessStart, NoBuild
<1>3. PartsInv
  BY <1>2 DEF AccessStart, PartsInv, NoHelper, NoPipe
<1>4. BuildInv
  BY <1>2, Nothings DEF BuildInv
<1>5. StreamInv
  BY DEF AccessStart, StreamInv, NoPipe
<1>6. IndexIsOfOneAttempt
  BY DEF AccessStart, IndexIsOfOneAttempt, Nothing
<1> QED  BY <1>1, <1>3, <1>4, <1>5, <1>6 DEF AccessInv

-----------------------------------------------------------------------------
(* The helper's steps: the build and what is published stay.               *)

LEMMA HelperStays ==
    ASSUME AccessInv, Helps, helper' \in HelperStates, pipe' \in PipeStates,
           pipe'.made <=> pipe.made, pipe'.client => pipe'.made,
           ~pipe'.client => pipe'.chunks = <<>> /\ ~helper'.joined /\ build.at # "read",
           helper'.joined => helper'.at \in {"between", "inside", "flush"},
           helper'.at # "inside" => helper'.sent = 0,
           StreamInv'
    PROVE  AccessInv'
<1>1. UNCHANGED <<token, task, registrar, prompting, answer, build, published, offer, rebuild>>
  BY DEF Helps
<1>2. AccessTypeOK'
  BY <1>1, AccessFacts, AccessTypes
<1>3. PartsInv'
  BY <1>1 DEF AccessInv, PartsInv
<1>4. BuildInv' /\ IndexIsOfOneAttempt'
  BY <1>1 DEF AccessInv, BuildInv, IndexIsOfOneAttempt
<1> QED  BY <1>2, <1>3, <1>4 DEF AccessInv

LEMMA Exits ==
    ASSUME AccessInv, NEW failed \in BOOLEAN, HelperExits(failed)
    PROVE  AccessInv'
<1>1. helper' = NoHelper /\ pipe' = pipe /\ Helps
  BY DEF HelperExits
<1>2. helper'.joined = FALSE /\ helper'.at = "none" /\ helper'.sent = 0 /\ helper' \in HelperStates
  BY <1>1, Nothings DEF NoHelper
<1>3. StreamInv'
  BY <1>1, <1>2 DEF AccessInv, StreamInv, Helps
<1> QED  BY <1>1, <1>2, <1>3, AccessFacts, HelperStays DEF AccessInv, PartsInv

LEMMA Written ==
    ASSUME AccessInv, NEW tag \in {"V", "R", "E", "X", "Z"}, NEW letter \in Volumes, Writes(tag, letter),
           helper' \in HelperStates, helper'.joined = helper.joined,
           helper'.at \in {"between", "inside", "flush"}, helper'.at # "inside" => helper'.sent = 0,
           \A q \in Place : HelperAt(helper, q) =>
               \E r \in Place : Leads(q, [tag |-> tag, letter |-> letter], r) /\ HelperAt(helper', r)
    PROVE  AccessInv'
<1> DEFINE x == [tag |-> tag, letter |-> letter]
<1>x. x \in Chunk
  BY DEF Chunk
<1> HIDE DEF x
<1>1. helper.joined /\ pipe' = [pipe EXCEPT !.chunks = Append(@, x)] /\ Helps
  BY DEF Writes, x
<1>2. pipe.client /\ pipe.made /\ pipe \in PipeStates /\ pipe.chunks \in Seq(Chunk)
  BY <1>1, AccessFacts DEF AccessInv, PartsInv
<1>3. /\ pipe' \in PipeStates /\ pipe'.made = pipe.made /\ pipe'.client = pipe.client
      /\ pipe'.chunks = Append(pipe.chunks, x)
  <2>1. Append(pipe.chunks, x) \in Seq(Chunk)
    BY <1>2, <1>x
  <2>2. pipe' = [pipe EXCEPT !.chunks = Append(pipe.chunks, x)]
    BY <1>1
  <2> QED  BY <1>2, <2>1, <2>2 DEF PipeStates
<1>4. PICK f \in [0 .. Len(pipe.chunks) -> Place] :
         /\ Carried(pipe.chunks, f) /\ ReaderAt(build, f[0])
         /\ HelperAt(helper, f[Len(pipe.chunks)])
  BY <1>1, <1>2 DEF AccessInv, StreamInv
<1>5. f[Len(pipe.chunks)] \in Place
  BY <1>2, <1>4
<1>6. PICK r \in Place : Leads(f[Len(pipe.chunks)], x, r) /\ HelperAt(helper', r)
  BY <1>4, <1>5 DEF x
<1>7. PICK g \in [0 .. Len(pipe'.chunks) -> Place] :
         Carried(pipe'.chunks, g) /\ g[0] = f[0] /\ g[Len(pipe'.chunks)] = r
  BY <1>2, <1>3, <1>4, <1>6, <1>x, CarriedMore
<1>8. StreamInv'
  <2>1. build' = build
    BY <1>1 DEF Helps
  <2>2. ReaderAt(build', g[0]) /\ HelperAt(helper', g[Len(pipe'.chunks)])
    BY <1>4, <1>6, <1>7, <2>1
  <2> QED  BY <1>7, <2>2 DEF StreamInv
<1> QED  BY <1>1, <1>2, <1>3, <1>8, HelperStays

LEMMA Connecting == ASSUME AccessInv, Connects PROVE AccessInv'
<1>1. /\ helper.at = "begun" /\ pipe.made /\ ~pipe.client /\ Helps
      /\ pipe' = [pipe EXCEPT !.client = TRUE]
      /\ helper' = [helper EXCEPT !.at = "between", !.todo = Letters, !.joined = TRUE]
  BY DEF Connects
<1>2. build.at = "connect" /\ build.index = <<>> /\ ~build.open /\ pipe.chunks = <<>> /\ helper.sent = 0
  BY <1>1 DEF AccessInv, PartsInv
<1>3. pipe' \in PipeStates /\ pipe'.made /\ pipe'.client /\ pipe'.chunks = <<>>
  BY <1>1, <1>2, AccessFacts DEF PipeStates
<1>4. /\ helper' \in HelperStates /\ helper'.at = "between" /\ helper'.todo = Letters /\ helper'.joined
      /\ helper'.sent = 0
  BY <1>1, <1>2, AccessFacts, LettersFacts DEF HelperStates
<1> DEFINE f == [i \in 0 .. 0 |-> At(0, -1)]
<1>5. At(0, -1) \in Place /\ At(0, -1).through = 0 /\ At(0, -1).sent = -1
  BY LettersFacts DEF At, Place
<1>6. Len(pipe'.chunks) = 0
  BY <1>3
<1>7. f \in [0 .. Len(pipe'.chunks) -> Place] /\ f[0] = At(0, -1)
  BY <1>5, <1>6
<1>8. Carried(pipe'.chunks, f)
  BY <1>6 DEF Carried
<1>9. ReaderAt(build', At(0, -1))
  <2>1. build' = build /\ build.index \in Seq(Part)
    BY <1>1, AccessFacts DEF Helps, BuildStates
  <2>2. Among(build.index, 0)
    <3>1. Len(build.index) = 0 /\ DOMAIN build.index = {}
      BY <1>2
    <3> QED  BY <3>1 DEF Among
  <2>3. build.open = FALSE
    BY <1>2, AccessFacts DEF BuildStates
  <2> QED  BY <1>5, <2>1, <2>2, <2>3 DEF ReaderAt
<1>10. HelperAt(helper', At(0, -1))
  BY <1>4, <1>5, LettersFacts DEF HelperAt, Left, Count
<1> HIDE DEF f
<1>11. StreamInv'
  BY <1>6, <1>7, <1>8, <1>9, <1>10 DEF StreamInv
<1> QED  BY <1>1, <1>3, <1>4, <1>11, HelperStays

LEMMA NextVolumeFacts ==
    ASSUME helper \in HelperStates, Tail(helper.todo) \in Seq(Volumes)
    PROVE  /\ NextVolume \in HelperStates /\ NextVolume.at = "between" /\ NextVolume.joined = helper.joined
           /\ NextVolume.sent = 0 /\ NextVolume.todo = Tail(helper.todo)
<1>1. NextVolume = [helper EXCEPT !.at = "between", !.todo = Tail(helper.todo), !.sent = 0]
  BY DEF NextVolume
<1>2. 0 \in 0 .. Batches /\ "between" \in {"none", "queued", "begun", "between", "inside", "flush"}
  BY LettersFacts
<1> HIDE DEF NextVolume
<1> QED  BY <1>1, <1>2 DEF HelperStates

LEMMA DumpKeeps == ASSUME AccessInv, DumpStep \/ HelperDies PROVE AccessInv'
<1>t. /\ helper \in HelperStates /\ pipe \in PipeStates /\ helper.todo \in Seq(Volumes)
      /\ helper.sent \in 0 .. Batches /\ helper.joined \in BOOLEAN
  BY AccessFacts DEF HelperStates
<1>l. Count \in Nat /\ Batches \in Nat /\ Batches >= 1
  BY LettersFacts
<1>q. \A q \in Place : /\ q.through \in 0 .. Count /\ q.sent \in -1 .. Batches /\ q = At(q.through, q.sent)
                       /\ q.sent >= 0 => q.through < Count
  BY DEF Place, At
<1>p. \A n \in 0 .. Count, k \in -1 .. Batches :
         /\ At(n, k).through = n /\ At(n, k).sent = k
         /\ (k >= 0 => n < Count) => At(n, k) \in Place
  BY DEF Place, At
<1>1. CASE HelperStarts
  <2>1. helper.at = "queued" /\ helper' = [helper EXCEPT !.at = "begun"] /\ pipe' = pipe /\ Helps
    BY <1>1 DEF HelperStarts
  <2>2. helper' \in HelperStates /\ helper'.at = "begun" /\ helper'.joined = helper.joined
        /\ helper'.sent = helper.sent
    BY <1>t, <2>1 DEF HelperStates
  <2>3. ~helper.joined /\ helper.sent = 0
    BY <2>1 DEF AccessInv, PartsInv
  <2>4. StreamInv'
    BY <2>1, <2>2, <2>3 DEF AccessInv, StreamInv, Helps
  <2> QED  BY <1>t, <2>1, <2>2, <2>3, <2>4, HelperStays DEF AccessInv, PartsInv
<1>2. CASE Connects
  BY <1>2, Connecting
<1>3. CASE NoPipeFound \/ WriteFails \/ Flushed \/ HelperDies
  <2>1. HelperExits(TRUE) \/ HelperExits(FALSE)
    BY <1>3 DEF NoPipeFound, WriteFails, Flushed, HelperDies
  <2> QED  BY <2>1, Exits
<1>4. CASE Announce
  <2>1. helper.at = "between" /\ helper.todo # <<>> /\ helper.sent = 0
    BY <1>4 DEF Announce, AccessInv, PartsInv
  <2>2. Head(helper.todo) \in Volumes /\ Tail(helper.todo) \in Seq(Volumes)
    BY <1>t, <2>1
  <2>3. ASSUME NEW q \in Place, HelperAt(helper, q)
        PROVE  /\ q.sent = -1 /\ q.through \in 0 .. Count - 1 /\ Head(helper.todo) = Letters[q.through + 1]
               /\ Left(helper.todo, q.through) /\ Left(Tail(helper.todo), q.through + 1)
    <3>1. q.sent = -1 /\ Left(helper.todo, q.through) /\ q.through \in 0 .. Count
      BY <1>q, <2>1, <2>3 DEF HelperAt
    <3> QED  BY <1>t, <2>1, <3>1, LeftFacts
  <2>4. CASE Writes("V", Head(helper.todo)) /\ helper' = [helper EXCEPT !.at = "inside"]
    <3>1. /\ helper' \in HelperStates /\ helper'.at = "inside" /\ helper'.joined = helper.joined
          /\ helper'.sent = 0 /\ helper'.todo = helper.todo
      BY <1>t, <2>1, <2>4 DEF HelperStates
    <3>2. ASSUME NEW q \in Place, HelperAt(helper, q)
          PROVE  \E r \in Place : Leads(q, [tag |-> "V", letter |-> Head(helper.todo)], r) /\ HelperAt(helper', r)
      <4>1. /\ q.sent = -1 /\ q.through \in 0 .. Count - 1 /\ Head(helper.todo) = Letters[q.through + 1]
            /\ Left(helper.todo, q.through)
        BY <2>3, <3>2
      <4>2. q.through \in 0 .. Count /\ q.through < Count /\ 0 \in -1 .. Batches
        BY <1>l, <4>1
      <4>3. At(q.through, 0) \in Place /\ At(q.through, 0).through = q.through /\ At(q.through, 0).sent = 0
        BY <1>p, <4>2
      <4>4. HelperAt(helper', At(q.through, 0))
        BY <3>1, <4>1, <4>3 DEF HelperAt
      <4>5. Leads(q, [tag |-> "V", letter |-> Head(helper.todo)], At(q.through, 0))
        BY <4>1, <4>2 DEF Leads
      <4> QED  BY <4>3, <4>4, <4>5
    <3> QED  BY <2>2, <2>4, <3>1, <3>2, Written
  <2>5. CASE Writes("X", Head(helper.todo)) /\ helper' = NextVolume
    <3>1. /\ helper' \in HelperStates /\ helper'.at = "between" /\ helper'.joined = helper.joined
          /\ helper'.sent = 0 /\ helper'.todo = Tail(helper.todo)
      BY <1>t, <1>l, <2>2, <2>5, NextVolumeFacts
    <3>2. ASSUME NEW q \in Place, HelperAt(helper, q)
          PROVE  \E r \in Place : Leads(q, [tag |-> "X", letter |-> Head(helper.todo)], r) /\ HelperAt(helper', r)
      <4>1. /\ q.sent = -1 /\ q.through \in 0 .. Count - 1 /\ Left(Tail(helper.todo), q.through + 1)
        BY <2>3, <3>2
      <4>2. q.through + 1 \in 0 .. Count /\ q.through < Count /\ -1 \in -1 .. Batches /\ q.sent < Batches
        BY <1>l, <4>1
      <4> DEFINE r == At(q.through + 1, -1)
      <4>3. r \in Place /\ r.through = q.through + 1 /\ r.sent = -1
        BY <1>p, <4>2
      <4>5. Leads(q, [tag |-> "X", letter |-> Head(helper.todo)], r)
        BY <4>1, <4>2 DEF Leads
      <4> HIDE DEF r
      <4>4. HelperAt(helper', r)
        BY <3>1, <4>1, <4>3 DEF HelperAt
      <4> QED  BY <4>3, <4>4, <4>5
    <3> QED  BY <2>2, <2>5, <3>1, <3>2, Written
  <2> QED  BY <1>4, <2>4, <2>5 DEF Announce
<1>5. CASE SendBatch \/ EndVolume
  <2>1. helper.at = "inside"
    BY <1>5 DEF SendBatch, EndVolume
  <2>2. helper.joined
    BY <1>5 DEF SendBatch, EndVolume, Writes
  <2>3. ASSUME NEW q \in Place, HelperAt(helper, q)
        PROVE  /\ q.sent = helper.sent /\ q.through \in 0 .. Count - 1 /\ helper.todo # <<>>
               /\ Left(helper.todo, q.through) /\ Left(Tail(helper.todo), q.through + 1)
    <3>1. q.sent = helper.sent /\ Left(helper.todo, q.through) /\ q.through \in 0 .. Count
      BY <1>q, <2>1, <2>3 DEF HelperAt
    <3>2. q.through < Count
      BY <1>q, <1>t, <3>1
    <3>3. helper.todo # <<>>
      BY <1>t, <1>l, <3>1, <3>2, LeftFacts
    <3> QED  BY <1>t, <3>1, <3>3, LeftFacts
  <2>4. helper.todo # <<>> /\ Head(helper.todo) \in Volumes /\ Tail(helper.todo) \in Seq(Volumes)
    <3>1. pipe.client
      BY <2>2 DEF AccessInv, PartsInv
    <3>2. PICK f \in [0 .. Len(pipe.chunks) -> Place] : HelperAt(helper, f[Len(pipe.chunks)])
      BY <2>2, <3>1 DEF AccessInv, StreamInv
    <3>3. pipe.chunks \in Seq(Chunk)
      BY AccessFacts
    <3>4. f[Len(pipe.chunks)] \in Place
      BY <3>2, <3>3
    <3>5. helper.todo # <<>>
      BY <2>3, <3>2, <3>4
    <3> QED  BY <1>t, <3>5
  <2>5. CASE SendBatch
    <3>1. /\ helper.sent < Batches /\ Writes("R", Head(helper.todo))
          /\ helper' = [helper EXCEPT !.sent = @ + 1]
      BY <2>5 DEF SendBatch
    <3>2. /\ helper' \in HelperStates /\ helper'.at = "inside" /\ helper'.joined = helper.joined
          /\ helper'.sent = helper.sent + 1 /\ helper'.todo = helper.todo
      BY <1>t, <1>l, <2>1, <3>1 DEF HelperStates
    <3>3. ASSUME NEW q \in Place, HelperAt(helper, q)
          PROVE  \E r \in Place : Leads(q, [tag |-> "R", letter |-> Head(helper.todo)], r) /\ HelperAt(helper', r)
      <4>1. /\ q.sent = helper.sent /\ q.through \in 0 .. Count - 1 /\ Left(helper.todo, q.through)
        BY <2>3, <3>3
      <4>2. q.through \in 0 .. Count /\ q.through < Count /\ q.sent + 1 \in -1 .. Batches
            /\ q.sent >= 0 /\ q.sent < Batches
        BY <1>l, <1>t, <3>1, <4>1
      <4> DEFINE r == At(q.through, q.sent + 1)
      <4>3. r \in Place /\ r.through = q.through /\ r.sent = q.sent + 1
        BY <1>p, <4>2
      <4>5. Leads(q, [tag |-> "R", letter |-> Head(helper.todo)], r)
        BY <4>1, <4>2 DEF Leads
      <4> HIDE DEF r
      <4>4. HelperAt(helper', r)
        BY <3>2, <4>1, <4>3 DEF HelperAt
      <4> QED  BY <4>3, <4>4, <4>5
    <3> QED  BY <2>4, <3>1, <3>2, <3>3, Written
  <2>6. CASE EndVolume
    <3>1. /\ helper' = NextVolume
          /\ \/ helper.sent = Batches /\ Writes("E", Head(helper.todo))
             \/ helper.sent < Batches /\ Writes("X", Head(helper.todo))
      BY <2>6 DEF EndVolume
    <3>2. /\ helper' \in HelperStates /\ helper'.at = "between" /\ helper'.joined = helper.joined
          /\ helper'.sent = 0 /\ helper'.todo = Tail(helper.todo)
      BY <1>t, <1>l, <2>4, <3>1, NextVolumeFacts
    <3>3. ASSUME NEW q \in Place, HelperAt(helper, q)
          PROVE  \E r \in Place :
                    /\ helper.sent = Batches => Leads(q, [tag |-> "E", letter |-> Head(helper.todo)], r)
                    /\ helper.sent < Batches => Leads(q, [tag |-> "X", letter |-> Head(helper.todo)], r)
                    /\ HelperAt(helper', r)
      <4>1. /\ q.sent = helper.sent /\ q.through \in 0 .. Count - 1 /\ Left(Tail(helper.todo), q.through + 1)
        BY <2>3, <3>3
      <4>2. q.through + 1 \in 0 .. Count /\ q.through < Count /\ -1 \in -1 .. Batches
        BY <1>l, <4>1
      <4> DEFINE r == At(q.through + 1, -1)
      <4>3. r \in Place /\ r.through = q.through + 1 /\ r.sent = -1
        BY <1>p, <4>2
      <4>5. /\ helper.sent = Batches => Leads(q, [tag |-> "E", letter |-> Head(helper.todo)], r)
            /\ helper.sent < Batches => Leads(q, [tag |-> "X", letter |-> Head(helper.todo)], r)
        BY <4>1, <4>2 DEF Leads
      <4> HIDE DEF r
      <4>4. HelperAt(helper', r)
        BY <3>2, <4>1, <4>3 DEF HelperAt
      <4> QED  BY <4>3, <4>4, <4>5
    <3>4. CASE helper.sent = Batches /\ Writes("E", Head(helper.todo))
      <4>1. \A q \in Place : HelperAt(helper, q) =>
               \E r \in Place : Leads(q, [tag |-> "E", letter |-> Head(helper.todo)], r) /\ HelperAt(helper', r)
        BY <3>3, <3>4
      <4> QED  BY <2>4, <3>2, <3>4, <4>1, Written
    <3>5. CASE helper.sent < Batches /\ Writes("X", Head(helper.todo))
      <4>1. \A q \in Place : HelperAt(helper, q) =>
               \E r \in Place : Leads(q, [tag |-> "X", letter |-> Head(helper.todo)], r) /\ HelperAt(helper', r)
        BY <3>3, <3>5
      <4> QED  BY <2>4, <3>2, <3>5, <4>1, Written
    <3> QED  BY <3>1, <3>4, <3>5
  <2> QED  BY <1>5, <2>5, <2>6
<1>6. CASE SendDone
  <2>1. /\ helper.at = "between" /\ helper.sent = 0
        /\ Writes("Z", Head(Letters)) /\ helper' = [helper EXCEPT !.at = "flush"]
    BY <1>6 DEF SendDone, AccessInv, PartsInv
  <2>2. Head(Letters) \in Volumes
    BY LettersFacts
  <2>3. /\ helper' \in HelperStates /\ helper'.at = "flush" /\ helper'.joined = helper.joined
        /\ helper'.sent = 0 /\ helper'.todo = helper.todo
    BY <1>t, <2>1 DEF HelperStates
  <2>4. ASSUME NEW q \in Place, HelperAt(helper, q)
        PROVE  \E r \in Place : Leads(q, [tag |-> "Z", letter |-> Head(Letters)], r) /\ HelperAt(helper', r)
    <3>1. q.sent = -1 /\ Left(helper.todo, q.through)
      BY <2>1, <2>4 DEF HelperAt
    <3>2. HelperAt(helper', q) /\ Leads(q, [tag |-> "Z", letter |-> Head(Letters)], q)
      BY <2>3, <3>1 DEF HelperAt, Leads
    <3> QED  BY <3>2
  <2> QED  BY <2>1, <2>2, <2>3, <2>4, Written
<1> QED  BY <1>1, <1>2, <1>3, <1>4, <1>5, <1>6 DEF DumpStep

-----------------------------------------------------------------------------
(* The steps of BuildIndex.  Most of them end without a pipe.              *)

Landed(b) ==
    /\ b \in BuildStates /\ b.at \notin {"connect", "read"}
    /\ Sound(b) /\ ~b.open /\ b.delivered = 0
    /\ b.at \in {"pipe", "crawl"} => b.index = <<>> /\ b.starts = <<>>
    /\ b.at = "elevated" => \E n \in 0 .. Count : Among(b.index, n) /\ Left(b.todo, n)
    /\ b.at = "elevated" /\ b.any => HasWhole(b.index)

LEMMA LandedFacts ==
    ASSUME NEW b, Landed(b)
    PROVE  /\ b.at \notin {"connect", "read"} /\ ~b.open /\ ~(b.delivered > 0) /\ Sound(b)
           /\ b.at \in {"pipe", "crawl"} => b.index = <<>> /\ b.starts = <<>>
           /\ b.at = "elevated" => \E n \in 0 .. Count : Among(b.index, n) /\ Left(b.todo, n)
           /\ b.at = "elevated" /\ b.any => HasWhole(b.index)
BY DEF Landed

LEMMA AttemptLands ==
    ASSUME NEW b \in BuildStates, ~b.open, b.delivered = 0, NEW w \in {"elevated", "pipe", "crawl"},
           w = "elevated" => ~b.any
    PROVE  Landed(Attempt(b, w))
<1> DEFINE c == Attempt(b, w)
<1>1. /\ c \in BuildStates /\ Sound(c)
      /\ c.at = w /\ c.index = <<>> /\ c.starts = <<>> /\ ~c.open
      /\ c.any = b.any /\ c.delivered = b.delivered
      /\ Among(c.index, 0) /\ Left(c.todo, 0)
  BY AttemptFacts
<1> HIDE DEF c
<1>2. 0 \in 0 .. Count
  BY LettersFacts
<1>3. Landed(c)
  BY <1>1, <1>2 DEF Landed
<1> QED  BY <1>3 DEF c

LEMMA NextAttemptLands ==
    ASSUME NEW b \in BuildStates, ~b.open, b.delivered = 0
    PROVE  Landed(AfterElevated(b)) /\ Landed(AfterHelper(b))
BY AttemptLands DEF AfterElevated, AfterHelper

LEMMA NoBuildLands ==
    /\ NoBuild \in BuildStates /\ ~NoBuild.open /\ NoBuild.delivered = 0 /\ ~NoBuild.any
    /\ Landed(NoBuild)
BY Nothings DEF Landed, NoBuild

\* Without a pipe nothing is streamed.
LEMMA Landing ==
    ASSUME AccessInv, Landed(build'),
           \/ ~pipe.made /\ pipe' = pipe /\ helper' = helper
           \/ ClosePipe,
           token' \in Tokens,
           task' \in BOOLEAN, prompting' \in BOOLEAN, offer' \in BOOLEAN, rebuild' \in BOOLEAN,
           registrar' \in {"none", "awaited", "given up"}, answer' \in {"none", "yes", "no"},
           published' \in Publications, IndexIsOfOneAttempt'
    PROVE  AccessInv'
<1>1. helper \in HelperStates /\ pipe \in PipeStates
  BY AccessFacts
<1>2. /\ pipe' \in PipeStates /\ ~pipe'.made /\ ~pipe'.client /\ pipe'.chunks = <<>>
      /\ helper' \in HelperStates /\ ~helper'.joined
      /\ helper'.at = helper.at /\ helper'.sent = helper.sent
  <2>1. CASE ~pipe.made /\ pipe' = pipe /\ helper' = helper
    BY <1>1, <2>1 DEF AccessInv, PartsInv
  <2>2. CASE ClosePipe
    <3>1. pipe' = NoPipe /\ helper' = [helper EXCEPT !.joined = FALSE]
      BY <2>2 DEF ClosePipe
    <3>2. /\ helper' \in HelperStates /\ ~helper'.joined
          /\ helper'.at = helper.at /\ helper'.sent = helper.sent
      BY <1>1, <3>1 DEF HelperStates
    <3> QED  BY <3>1, <3>2, Nothings DEF NoPipe
  <2> QED  BY <2>1, <2>2
<1>3. AccessTypeOK'
  BY <1>2, AccessTypes DEF Landed
<1>b. /\ build'.at \notin {"connect", "read"} /\ ~build'.open /\ ~(build'.delivered > 0) /\ Sound(build')
      /\ build'.at \in {"pipe", "crawl"} => build'.index = <<>> /\ build'.starts = <<>>
      /\ build'.at = "elevated" => \E n \in 0 .. Count : Among(build'.index, n) /\ Left(build'.todo, n)
      /\ build'.at = "elevated" /\ build'.any => HasWhole(build'.index)
  BY LandedFacts
<1>h. helper.at # "inside" => helper.sent = 0
  BY DEF AccessInv, PartsInv
<1>4. PartsInv'
  <2>1. pipe'.made <=> build'.at \in {"connect", "read"}
    BY <1>2, <1>b
  <2>2. ~(build'.open \/ build'.delivered > 0)
    BY <1>b, Zenon
  <2> QED  BY <1>2, <1>b, <1>h, <2>1, <2>2 DEF PartsInv
<1>5. BuildInv'
  <2>1. build'.delivered > 0 \/ (build'.at = "elevated" /\ build'.any) => HasWhole(build'.index)
    BY <1>b, Zenon
  <2> QED  BY <1>b, <2>1 DEF BuildInv
<1>6. StreamInv'
  BY <1>2 DEF StreamInv
<1> QED  BY <1>3, <1>4, <1>5, <1>6 DEF AccessInv

\* An index that is finished may be published.
LEMMA Accepted ==
    ASSUME AccessInv, NEW b \in BuildStates, NEW mode \in {"mft", "folders"}, Accept(b, mode),
           Distinct(b.index), Closed(b.index, FALSE), Linked(b.index, b.starts),
           mode = "mft" => HasWhole(b.index)
    PROVE  /\ Landed(build') /\ published' \in Publications /\ IndexIsOfOneAttempt'
           /\ offer' \in BOOLEAN /\ rebuild' \in BOOLEAN
<1>1. /\ build' = NoBuild
      /\ published' = [mode |-> mode, index |-> b.index, journals |-> b.starts]
      /\ offer' \in BOOLEAN /\ rebuild' = rebuild
  BY DEF Accept
<1>2. b.index \in Seq(Part) /\ b.starts \in Seq(JournalStart)
  BY DEF BuildStates
<1>3. published' \in Publications
  BY <1>1, <1>2 DEF Publications
<1>4. published'.index = b.index /\ published'.journals = b.starts /\ published'.mode = mode
  BY <1>1
<1>5. IndexIsOfOneAttempt'
  <2>1. /\ \A i, j \in DOMAIN b.index : b.index[i].letter = b.index[j].letter => i = j
        /\ \A i \in DOMAIN b.index : b.index[i].finished = 1
        /\ \A k \in DOMAIN b.starts :
              /\ b.starts[k].volume \in DOMAIN b.index
              /\ b.index[b.starts[k].volume].letter = b.starts[k].letter
        /\ mode = "mft" => \E i \in DOMAIN b.index : b.index[i].got = Batches
    BY DEF Distinct, Closed, Linked, HasWhole
  <2> QED  BY <1>4, <2>1 DEF IndexIsOfOneAttempt
<1>6. rebuild' \in BOOLEAN
  BY <1>1, AccessFacts
<1> QED  BY <1>1, <1>3, <1>5, <1>6, NoBuildLands

\* Nothing published, and what was published without its journals.
LEMMA PublishedLess ==
    ASSUME AccessInv
    PROVE  /\ published' = Nothing => published' \in Publications /\ IndexIsOfOneAttempt'
           /\ published' = published => published' \in Publications /\ IndexIsOfOneAttempt'
           /\ published' = [published EXCEPT !.journals = <<>>]
                 => published' \in Publications /\ IndexIsOfOneAttempt'
<1>1. published \in Publications
  BY AccessFacts
<1>2. published' = Nothing => published' \in Publications /\ IndexIsOfOneAttempt'
  BY Nothings DEF Nothing, IndexIsOfOneAttempt
<1>3. published' = published => published' \in Publications /\ IndexIsOfOneAttempt'
  BY <1>1 DEF AccessInv, IndexIsOfOneAttempt
<1>4. ASSUME published' = [published EXCEPT !.journals = <<>>]
      PROVE  published' \in Publications /\ IndexIsOfOneAttempt'
  <2>1. <<>> \in Seq(JournalStart)
    OBVIOUS
  <2>2. /\ published' \in Publications /\ published'.index = published.index
        /\ published'.mode = published.mode /\ published'.journals = <<>>
    BY <1>1, <1>4, <2>1 DEF Publications
  <2> QED  BY <2>2 DEF AccessInv, IndexIsOfOneAttempt
<1> QED  BY <1>2, <1>3, <1>4

LEMMA AmongMore == ASSUME NEW i, NEW n \in Nat, Among(i, n), i \in Seq(Part) PROVE Among(i, n + 1)
<1>1. Len(i) \in Nat /\ Len(i) <= n + 1
  BY DEF Among
<1>2. \A r \in 1 .. n : r \in 1 .. n + 1
  OBVIOUS
<1> QED  BY <1>1, <1>2 DEF Among

LEMMA WithoutPipe ==
    ASSUME AccessInv, build.at \notin {"connect", "read"}
    PROVE  build \in BuildStates /\ build.open = FALSE /\ build.delivered = 0 /\ ~pipe.made
<1>1. build \in BuildStates /\ build.open \in BOOLEAN /\ build.delivered \in Nat
  BY AccessFacts DEF BuildStates
<1>2. ~(build.open \/ build.delivered > 0) /\ ~pipe.made
  BY DEF AccessInv, PartsInv
<1>3. \A d \in Nat : ~(d > 0) => d = 0
  OBVIOUS
<1> QED  BY <1>1, <1>2, <1>3

LEMMA EnumerationFacts ==
    ASSUME NEW letter, NEW sees, NEW e \in Enumerations(letter, sees)
    PROVE  /\ e.ok \in BOOLEAN /\ e.announced \in BOOLEAN /\ e.got \in 0 .. Batches
           /\ e.ok => e.announced /\ e.got = Batches
<1>1. 0 \in 0 .. Batches /\ Batches \in 0 .. Batches /\ \A n \in 0 .. Batches - 1 : n \in 0 .. Batches
  BY LettersFacts
<1>2. \/ e = [announced |-> TRUE, got |-> Batches, ok |-> TRUE]
      \/ e = [announced |-> FALSE, got |-> 0, ok |-> FALSE]
      \/ \E n \in 0 .. Batches - 1 : e = [announced |-> TRUE, got |-> n, ok |-> FALSE]
  BY DEF Enumerations
<1>3. ASSUME e = [announced |-> TRUE, got |-> Batches, ok |-> TRUE]
      PROVE  e.ok = TRUE /\ e.announced = TRUE /\ e.got = Batches
  BY <1>3
<1>4. ASSUME e = [announced |-> FALSE, got |-> 0, ok |-> FALSE]
      PROVE  e.ok = FALSE /\ e.announced = FALSE /\ e.got = 0
  BY <1>4
<1>5. ASSUME NEW n \in 0 .. Batches - 1, e = [announced |-> TRUE, got |-> n, ok |-> FALSE]
      PROVE  e.ok = FALSE /\ e.announced = TRUE /\ e.got = n
  BY <1>5
<1> QED  BY <1>1, <1>2, <1>3, <1>4, <1>5

\* The steps of an attempt without a pipe.
LEMMA ReadVolumeKeeps == ASSUME AccessInv, ReadVolume PROVE AccessInv'
<1>0. /\ build.at = "elevated" /\ build.todo # <<>> /\ pipe' = pipe /\ helper' = helper
      /\ token' = token /\ task' = task /\ prompting' = prompting /\ registrar' = registrar /\ answer' = answer
  BY DEF ReadVolume
<1>1. /\ build \in BuildStates /\ build.todo \in Seq(Volumes) /\ build.open = FALSE
      /\ build.delivered = 0 /\ ~pipe.made /\ build.any \in BOOLEAN
  <2>1. build.todo \in Seq(Volumes) /\ build.any \in BOOLEAN
    BY AccessFacts DEF BuildStates
  <2> QED  BY <1>0, <2>1, WithoutPipe
<1>2. Sound(build) /\ (build.any => HasWhole(build.index))
  BY <1>0 DEF AccessInv, BuildInv
<1>3. PICK n \in 0 .. Count : Among(build.index, n) /\ Left(build.todo, n)
  BY <1>0 DEF AccessInv, BuildInv
<1> DEFINE letter == Head(build.todo)
<1>4. /\ letter = Letters[n + 1] /\ n \in 0 .. Count - 1
      /\ Tail(build.todo) \in Seq(Volumes) /\ Left(Tail(build.todo), n + 1)
  BY <1>0, <1>1, <1>3, LeftFacts
<1>5. n + 1 \in 0 .. Count /\ n \in Nat
  BY <1>4, LettersFacts
<1> HIDE DEF letter
<1>6. ASSUME NEW read \in BuildStates, NEW ok \in BOOLEAN,
             Sound(read), Among(read.index, n + 1), (build.any \/ ok) => HasWhole(read.index),
             read.at = build.at, read.any = build.any, ~read.open, read.delivered = 0
      PROVE  Landed([read EXCEPT !.todo = Tail(build.todo), !.any = read.any \/ ok])
  <2> DEFINE c == [read EXCEPT !.todo = Tail(build.todo), !.any = read.any \/ ok]
  <2>1. (read.any \/ ok) \in BOOLEAN
    OBVIOUS
  <2>2. /\ c \in BuildStates /\ c.at = "elevated" /\ c.todo = Tail(build.todo) /\ c.index = read.index
        /\ c.starts = read.starts /\ c.open = read.open /\ c.delivered = read.delivered
        /\ c.any = (read.any \/ ok)
    BY <1>0, <1>4, <1>6, <2>1 DEF BuildStates
  <2> HIDE DEF c
  <2>3. Sound(c) /\ Among(c.index, n + 1) /\ Left(c.todo, n + 1)
    BY <1>4, <1>6, <2>2 DEF Sound
  <2>4. c.any => HasWhole(c.index)
    BY <1>6, <2>2
  <2>5. c.delivered = 0 /\ ~c.open
    BY <1>6, <2>2
  <2>6. Landed(c)
    BY <1>5, <2>2, <2>3, <2>4, <2>5 DEF Landed
  <2> QED  BY <2>6 DEF c
<1>7. Landed(build')
  <2> DEFINE Reading(e) == IF e.announced
                           THEN FinishVolume(AddRecords(AddVolume(build, letter), e.got)) ELSE build
  <2>1. PICK e \in Enumerations(letter, token.dock) :
           build' = IF letter \in token.dock
                    THEN [Reading(e) EXCEPT !.todo = Tail(Reading(e).todo), !.any = Reading(e).any \/ e.ok]
                    ELSE AfterElevated(build)
    BY DEF ReadVolume, Goes, letter
  <2>2. CASE letter \notin token.dock
    <3>1. build' = AfterElevated(build)
      BY <2>1, <2>2
    <3> QED  BY <1>1, <3>1, NextAttemptLands
  <2>3. CASE letter \in token.dock
    <3> DEFINE read == Reading(e)
    <3>1. /\ e.ok \in BOOLEAN /\ e.announced \in BOOLEAN /\ e.got \in 0 .. Batches
          /\ e.ok => e.announced /\ e.got = Batches
      BY <2>1, EnumerationFacts
    <3>2. /\ read \in BuildStates /\ Sound(read) /\ Among(read.index, n + 1)
          /\ (build.any \/ e.ok) => HasWhole(read.index)
          /\ read.at = build.at /\ read.any = build.any /\ ~read.open /\ read.delivered = 0
          /\ read.todo = build.todo
      <4>1. CASE ~e.announced
        <5>1. read = build
          BY <4>1
        <5>2. build.index \in Seq(Part)
          BY <1>1 DEF BuildStates
        <5>3. Among(build.index, n + 1)
          BY <1>3, <1>5, <5>2, AmongMore
        <5> QED  BY <1>1, <1>2, <3>1, <4>1, <5>1, <5>3
      <4>2. CASE e.announced
        <5> DEFINE b1 == AddVolume(build, Letters[n + 1])
                   b2 == AddRecords(b1, e.got)
                   b3 == FinishVolume(b2)
        <5>1. Remade(build, b1, TRUE) /\ Among(b1.index, n + 1) /\ b1.index[Len(b1.index)].got = 0
          BY <1>1, <1>2, <1>3, <1>4, AddVolumeFacts
        <5>r. read = b3
          BY <1>4, <4>2
        <5> HIDE DEF b1, read
        <5>2. e.got \in Nat /\ b1.index[Len(b1.index)].got + e.got <= Batches /\ 0 + e.got = e.got
          BY <3>1, <5>1, LettersFacts
        <5>3. Remade(b1, b2, TRUE) /\ Among(b2.index, n + 1) /\ b2.index[Len(b2.index)].got = e.got
          BY <5>1, <5>2, AddRecordsFacts DEF Remade
        <5> HIDE DEF b2
        <5>4. /\ Remade(b2, b3, FALSE) /\ Among(b3.index, n + 1)
              /\ b2.index[Len(b2.index)].got = Batches => HasWhole(b3.index)
          BY <5>3, FinishVolumeFacts DEF Remade
        <5> HIDE DEF b3
        <5>5. (build.any \/ e.ok) => HasWhole(b3.index)
          BY <1>2, <3>1, <5>1, <5>3, <5>4 DEF Remade
        <5>6. b3.open = FALSE
          BY <1>1, <5>1, <5>3, <5>4 DEF Remade
        <5>7. Sound(b3)
          BY <5>4, <5>6 DEF Sound, Remade
        <5> QED  BY <1>1, <5>r, <5>1, <5>3, <5>4, <5>5, <5>6, <5>7 DEF Remade
      <4> QED  BY <4>1, <4>2
    <3>3. build' = [read EXCEPT !.todo = Tail(build.todo), !.any = read.any \/ e.ok]
      BY <2>1, <2>3, <3>2
    <3> HIDE DEF read
    <3> QED  BY <1>6, <3>1, <3>2, <3>3
  <2> QED  BY <2>2, <2>3
<1>8. published' = published /\ offer' = offer /\ rebuild' = rebuild
  BY DEF ReadVolume, Goes
<1> QED  BY <1>0, <1>1, <1>7, <1>8, PublishedLess, AccessFacts, Landing

LEMMA EndElevatedKeeps == ASSUME AccessInv, EndElevated PROVE AccessInv'
<1>0. /\ build.at = "elevated" /\ pipe' = pipe /\ helper' = helper
      /\ token' = token /\ task' = task /\ prompting' = prompting /\ registrar' = registrar /\ answer' = answer
  BY DEF EndElevated
<1>1. build \in BuildStates /\ build.open = FALSE /\ build.delivered = 0 /\ ~pipe.made
  BY <1>0, WithoutPipe
<1>2. Sound(build) /\ (build.any => HasWhole(build.index))
  BY <1>0 DEF AccessInv, BuildInv
<1>3. CASE build.any /\ Accept(build, "mft")
  <2>1. Distinct(build.index) /\ Closed(build.index, FALSE) /\ Linked(build.index, build.starts)
    BY <1>1, <1>2 DEF Sound
  <2>2. /\ Landed(build') /\ published' \in Publications /\ IndexIsOfOneAttempt'
        /\ offer' \in BOOLEAN /\ rebuild' \in BOOLEAN
    BY <1>1, <1>2, <1>3, <2>1, Accepted
  <2> QED  BY <1>0, <1>1, <2>2, AccessFacts, Landing
<1>4. CASE Goes(AfterElevated(build))
  <2>1. build' = AfterElevated(build) /\ published' = published /\ offer' = offer /\ rebuild' = rebuild
    BY <1>4 DEF Goes
  <2>2. Landed(build')
    BY <1>1, <2>1, NextAttemptLands
  <2> QED  BY <1>0, <1>1, <2>1, <2>2, PublishedLess, AccessFacts, Landing
<1> QED  BY <1>3, <1>4 DEF EndElevated

LEMMA CrawlKeeps == ASSUME AccessInv, Crawl PROVE AccessInv'
<1>0. /\ build.at = "crawl" /\ pipe' = pipe /\ helper' = helper
      /\ token' = token /\ task' = task /\ prompting' = prompting /\ registrar' = registrar /\ answer' = answer
  BY DEF Crawl
<1>1. build \in BuildStates /\ build.open = FALSE /\ build.index = <<>> /\ ~pipe.made
  BY <1>0, WithoutPipe DEF AccessInv, PartsInv
<1>2. CASE Accept(FinishVolume(AddVolume(build, Head(Letters))), "folders")
  <2> DEFINE b1 == AddVolume(build, Letters[0 + 1])
             b2 == FinishVolume(b1)
  <2>1. Sound(build) /\ Among(build.index, 0) /\ 0 \in 0 .. Count - 1 /\ Head(Letters) = Letters[0 + 1]
    <3>1. Len(build.index) = 0 /\ DOMAIN build.index = {}
      BY <1>1
    <3>2. Sound(build)
      BY DEF AccessInv, BuildInv
    <3> QED  BY <3>1, <3>2, LettersFacts DEF Among
  <2>2. Remade(build, b1, TRUE)
    BY <1>1, <2>1, AddVolumeFacts
  <2>4. Accept(b2, "folders")
    BY <1>2, <2>1
  <2> HIDE DEF b1
  <2>3. Remade(b1, b2, FALSE)
    BY <2>2, FinishVolumeFacts DEF Remade
  <2> HIDE DEF b2
  <2>5. /\ Landed(build') /\ published' \in Publications /\ IndexIsOfOneAttempt'
        /\ offer' \in BOOLEAN /\ rebuild' \in BOOLEAN
    BY <2>3, <2>4, Accepted DEF Remade
  <2> QED  BY <1>0, <1>1, <2>5, AccessFacts, Landing
<1>3. CASE Refuse
  <2>1. build' = NoBuild /\ published' = Nothing /\ rebuild' = TRUE /\ offer' = offer
    BY <1>3 DEF Refuse
  <2> QED  BY <1>0, <1>1, <2>1, NoBuildLands, PublishedLess, AccessFacts, Landing
<1> QED  BY <1>2, <1>3 DEF Crawl

LEMMA BeginBuildKeeps == ASSUME AccessInv, BeginBuild PROVE AccessInv'
<1>0. /\ build.at = "idle" /\ pipe' = pipe /\ helper' = helper
      /\ token' = token /\ task' = task /\ prompting' = prompting /\ registrar' = registrar /\ answer' = answer
      /\ rebuild' = FALSE /\ offer' = offer /\ published' = [published EXCEPT !.journals = <<>>]
      /\ build' = Attempt(NoBuild, "elevated") \/ build' = AfterElevated(NoBuild)
  BY DEF BeginBuild
<1>1. ~pipe.made
  BY <1>0 DEF AccessInv, PartsInv
<1>2. Landed(build')
  BY <1>0, NoBuildLands, AttemptLands, NextAttemptLands
<1> QED  BY <1>0, <1>1, <1>2, PublishedLess, AccessFacts, Landing

\* The steps with the pipe.
LEMMA OpenPipeKeeps == ASSUME AccessInv, OpenPipe PROVE AccessInv'
<1>0. /\ build.at = "pipe"
      /\ token' = token /\ task' = task /\ prompting' = prompting /\ registrar' = registrar /\ answer' = answer
  BY DEF OpenPipe
<1>1. /\ build \in BuildStates /\ build.open = FALSE /\ build.delivered = 0 /\ ~pipe.made
      /\ helper \in HelperStates /\ pipe \in PipeStates
  BY <1>0, WithoutPipe, AccessFacts
<1>2. ~helper.joined /\ (helper.at # "inside" => helper.sent = 0) /\ Sound(build)
  BY <1>1 DEF AccessInv, PartsInv, BuildInv
<1>3. CASE /\ pipe' = [NoPipe EXCEPT !.made = TRUE]
           /\ helper' = IF helper.at = "none" THEN [NoHelper EXCEPT !.at = "queued"] ELSE helper
           /\ Goes([build EXCEPT !.at = "connect", !.denied = FALSE])
  <2>1. /\ build' = [build EXCEPT !.at = "connect", !.denied = FALSE]
        /\ published' = published /\ offer' = offer /\ rebuild' = rebuild
    BY <1>3 DEF Goes
  <2>2. /\ build' \in BuildStates /\ build'.at = "connect" /\ build'.index = build.index
        /\ build'.starts = build.starts /\ build'.open = build.open /\ build'.delivered = build.delivered
    BY <1>1, <2>1 DEF BuildStates
  <2>3. pipe' \in PipeStates /\ pipe'.made /\ ~pipe'.client /\ pipe'.chunks = <<>>
    BY <1>3, Nothings DEF PipeStates, NoPipe
  <2>4. /\ helper' \in HelperStates /\ ~helper'.joined /\ (helper'.at # "inside" => helper'.sent = 0)
    <3>1. CASE helper.at = "none"
      <4>1. helper' = [NoHelper EXCEPT !.at = "queued"]
        BY <1>3, <3>1
      <4>2. helper' \in HelperStates /\ helper'.joined = FALSE /\ helper'.sent = 0
        BY <4>1, Nothings DEF HelperStates, NoHelper
      <4> QED  BY <4>2
    <3>2. CASE helper.at # "none"
      BY <1>1, <1>2, <1>3, <3>2
    <3> QED  BY <3>1, <3>2
  <2>5. AccessTypeOK'
    BY <1>0, <2>1, <2>2, <2>3, <2>4, AccessFacts, AccessTypes
  <2>6. ~(build'.open \/ build'.delivered > 0)
    BY <1>1, <2>2
  <2>7. build'.index = <<>> /\ build'.starts = <<>>
    BY <1>0, <2>2 DEF AccessInv, PartsInv
  <2>8. PartsInv'
    BY <2>2, <2>3, <2>4, <2>6, <2>7 DEF PartsInv
  <2>9. BuildInv'
    <3>1. Sound(build')
      BY <1>2, <2>2 DEF Sound
    <3>2. ~(build'.delivered > 0) /\ build'.at # "elevated"
      BY <2>2, <2>6
    <3> QED  BY <3>1, <3>2 DEF BuildInv
  <2>10. StreamInv'
    BY <2>3 DEF StreamInv
  <2>11. IndexIsOfOneAttempt'
    BY <2>1, PublishedLess
  <2> QED  BY <2>5, <2>8, <2>9, <2>10, <2>11 DEF AccessInv
<1>4. CASE Goes(AfterHelper([build EXCEPT !.denied = FALSE])) /\ pipe' = pipe /\ helper' = helper
  <2> DEFINE b == [build EXCEPT !.denied = FALSE]
  <2>1. b \in BuildStates /\ ~b.open /\ b.delivered = 0
    BY <1>1 DEF BuildStates
  <2>2. build' = AfterHelper(b) /\ published' = published /\ offer' = offer /\ rebuild' = rebuild
    BY <1>4 DEF Goes
  <2> HIDE DEF b
  <2>3. Landed(build')
    BY <2>1, <2>2, NextAttemptLands
  <2> QED  BY <1>0, <1>1, <1>4, <2>2, <2>3, PublishedLess, AccessFacts, Landing
<1> QED  BY <1>3, <1>4 DEF OpenPipe

LEMMA ConnectedKeeps == ASSUME AccessInv, Connected PROVE AccessInv'
<1>0. /\ build.at = "connect" /\ pipe.client /\ pipe' = pipe /\ helper' = helper
      /\ token' = token /\ task' = task /\ prompting' = prompting /\ registrar' = registrar /\ answer' = answer
      /\ build' = [build EXCEPT !.at = "read"]
      /\ published' = published /\ offer' = offer /\ rebuild' = rebuild
  BY DEF Connected, Goes
<1>1. /\ build' \in BuildStates /\ build'.at = "read" /\ build'.index = build.index
      /\ build'.starts = build.starts /\ build'.open = build.open /\ build'.delivered = build.delivered
  BY <1>0, AccessFacts DEF BuildStates
<1>2. AccessTypeOK'
  BY <1>0, <1>1, AccessFacts, AccessTypes
<1>3. PartsInv'
  BY <1>0, <1>1 DEF AccessInv, PartsInv
<1>4. BuildInv'
  <2>1. Sound(build')
    BY <1>1 DEF AccessInv, BuildInv, Sound
  <2> QED  BY <1>1, <2>1 DEF AccessInv, BuildInv
<1>5. StreamInv'
  BY <1>0, <1>1 DEF AccessInv, StreamInv, ReaderAt
<1>6. IndexIsOfOneAttempt'
  BY <1>0, PublishedLess
<1> QED  BY <1>2, <1>3, <1>4, <1>5, <1>6 DEF AccessInv

LEMMA ConnectTimesOutKeeps == ASSUME AccessInv, ConnectTimesOut PROVE AccessInv'
<1>0. /\ build.at = "connect" /\ ~pipe.client /\ ClosePipe
      /\ token' = token /\ task' = task /\ prompting' = prompting /\ registrar' = registrar /\ answer' = answer
      /\ build' = AfterHelper(build)
      /\ published' = published /\ offer' = offer /\ rebuild' = rebuild
  BY DEF ConnectTimesOut, Goes
<1>1. build \in BuildStates /\ build.open = FALSE /\ build.delivered = 0
  <2>1. build \in BuildStates /\ build.open \in BOOLEAN /\ build.delivered \in Nat
    BY AccessFacts DEF BuildStates
  <2>2. ~(build.open \/ build.delivered > 0)
    BY <1>0 DEF AccessInv, PartsInv
  <2>3. \A d \in Nat : ~(d > 0) => d = 0
    OBVIOUS
  <2> QED  BY <2>1, <2>2, <2>3
<1>2. Landed(build')
  BY <1>0, <1>1, NextAttemptLands
<1> QED  BY <1>0, <1>2, PublishedLess, AccessFacts, Landing

\* What the reader takes from the pipe keeps it where the stream is.
LEMMA AppliedFacts ==
    ASSUME NEW b \in BuildStates, Sound(b), NEW q \in Place, NEW r \in Place, ReaderAt(b, q),
           NEW chunk \in Chunk, chunk.tag # "Z", Leads(q, chunk, r),
           b.delivered > 0 => HasWhole(b.index)
    PROVE  LET c == Applied(b, chunk) IN
           /\ c \in BuildStates /\ Sound(c) /\ ReaderAt(c, r) /\ c.at = b.at
           /\ c.delivered > 0 => HasWhole(c.index)
<1> DEFINE c == Applied(b, chunk)
<1>t. /\ b.index \in Seq(Part) /\ b.open \in BOOLEAN /\ b.delivered \in Nat /\ b.failed \in Nat
      /\ Count \in Nat /\ Batches \in Nat /\ Batches >= 1
  BY LettersFacts DEF BuildStates
<1>b. b.open = TRUE \/ b.open = FALSE
  BY <1>t
<1>q. q.through \in 0 .. Count /\ q.sent \in -1 .. Batches /\ q.through \in Nat
  BY <1>t DEF Place
<1>r. \A n, k : At(n, k).through = n /\ At(n, k).sent = k
  BY DEF At
<1>s. Distinct(b.index) /\ Closed(b.index, b.open) /\ Linked(b.index, b.starts)
  BY DEF Sound
<1>o. ASSUME b.open = TRUE
      PROVE  /\ Closed(b.index, TRUE) /\ q.sent = b.index[Len(b.index)].got
             /\ q.sent \in 0 .. Batches /\ Among(b.index, q.through + 1)
  <2>1. Closed(b.index, TRUE) /\ q.sent = b.index[Len(b.index)].got /\ Among(b.index, q.through + 1)
    BY <1>o, <1>s DEF ReaderAt
  <2>2. b.index # <<>>
    BY <2>1 DEF Closed
  <2>3. b.index[Len(b.index)] \in Part
    BY <1>t, <2>2
  <2> QED  BY <2>1, <2>3 DEF Part
<1>n. ASSUME b.open = FALSE PROVE q.sent = -1 /\ Among(b.index, q.through)
  BY <1>n DEF ReaderAt
<1>m. Among(b.index, q.through) => Among(b.index, q.through + 1)
  BY <1>t, <1>q, AmongMore
<1>1. CASE chunk.tag = "V"
  <2>1. /\ q.sent = -1 /\ q.through \in 0 .. Count - 1 /\ chunk.letter = Letters[q.through + 1]
        /\ r = At(q.through, 0)
    BY <1>1, <1>q, <1>t DEF Leads
  <2>2. b.open = FALSE
    <3>1. q.sent \notin 0 .. Batches
      BY <1>t, <2>1
    <3> QED  BY <1>b, <1>o, <3>1
  <2> DEFINE d == AddVolume(b, Letters[q.through + 1])
  <2>3. c = [d EXCEPT !.open = TRUE]
    BY <1>1, <2>1, <2>2 DEF Applied
  <2>4. Remade(b, d, TRUE) /\ Among(d.index, q.through + 1) /\ d.index[Len(d.index)].got = 0
    BY <1>n, <2>1, <2>2, AddVolumeFacts
  <2> HIDE DEF c, d
  <2>5. /\ c \in BuildStates /\ c.open = TRUE /\ c.index = d.index /\ c.starts = d.starts
        /\ c.at = b.at /\ c.delivered = b.delivered
    BY <2>3, <2>4 DEF Remade, BuildStates
  <2>6. Sound(c)
    BY <2>4, <2>5 DEF Remade, Sound
  <2>7. ReaderAt(c, r)
    BY <1>q, <1>r, <2>1, <2>4, <2>5 DEF ReaderAt
  <2>8. c.delivered > 0 => HasWhole(c.index)
    BY <2>4, <2>5 DEF Remade
  <2> QED  BY <2>5, <2>6, <2>7, <2>8 DEF c
<1>2. CASE chunk.tag = "R"
  <2>1. q.sent >= 0 /\ q.sent < Batches /\ r = At(q.through, q.sent + 1)
    BY <1>2 DEF Leads
  <2>2. b.open = TRUE
    <3>1. q.sent # -1
      BY <1>t, <1>q, <2>1
    <3> QED  BY <1>b, <1>n, <3>1
  <2>3. c = AddRecords(b, 1)
    BY <1>2, <2>2 DEF Applied
  <2>4. b.index[Len(b.index)].got + 1 <= Batches /\ Closed(b.index, TRUE)
    <3>1. q.sent + 1 <= Batches
      BY <1>q, <1>t, <2>1
    <3>2. q.sent = b.index[Len(b.index)].got /\ Closed(b.index, TRUE)
      BY <1>o, <2>2
    <3> QED  BY <3>1, <3>2
  <2>5. /\ Remade(b, c, TRUE) /\ c.index[Len(c.index)].got = b.index[Len(b.index)].got + 1
        /\ Among(c.index, q.through + 1)
    BY <1>o, <1>s, <2>2, <2>3, <2>4, AddRecordsFacts
  <2> HIDE DEF c
  <2>6. c \in BuildStates /\ c.open = TRUE /\ c.at = b.at /\ c.delivered = b.delivered
    BY <2>2, <2>5 DEF Remade
  <2>7. Sound(c)
    BY <2>5, <2>6 DEF Remade, Sound
  <2>8. ReaderAt(c, r)
    BY <1>q, <1>r, <1>o, <2>1, <2>2, <2>5, <2>6 DEF ReaderAt
  <2>9. c.delivered > 0 => HasWhole(c.index)
    BY <2>5, <2>6 DEF Remade
  <2> QED  BY <2>6, <2>7, <2>8, <2>9 DEF c
<1>3. CASE chunk.tag = "E"
  <2>1. q.sent = Batches /\ r = At(q.through + 1, -1)
    BY <1>3 DEF Leads
  <2>2. b.open = TRUE
    <3>1. q.sent # -1
      BY <1>t, <1>q, <2>1
    <3> QED  BY <1>b, <1>n, <3>1
  <2> DEFINE d == FinishVolume(b)
  <2>3. c = [d EXCEPT !.open = FALSE, !.delivered = d.delivered + 1]
    BY <1>3, <2>2 DEF Applied
  <2>4. /\ Remade(b, d, FALSE) /\ Among(d.index, q.through + 1) /\ HasWhole(d.index)
    BY <1>o, <1>s, <2>1, <2>2, FinishVolumeFacts
  <2> HIDE DEF c, d
  <2>5. d \in BuildStates /\ d.delivered = b.delivered /\ d.delivered + 1 \in Nat /\ d.at = b.at
    BY <1>t, <2>4 DEF Remade
  <2>6. /\ c \in BuildStates /\ c.open = FALSE /\ c.index = d.index /\ c.starts = d.starts
        /\ c.at = b.at
    BY <2>3, <2>5 DEF BuildStates
  <2>7. Sound(c)
    BY <2>4, <2>6 DEF Remade, Sound
  <2>8. ReaderAt(c, r)
    <3>1. q.through + 1 \in Nat
      BY <1>q
    <3> QED  BY <1>r, <2>1, <2>4, <2>6, <3>1 DEF ReaderAt
  <2>9. HasWhole(c.index)
    BY <2>4, <2>6
  <2> QED  BY <2>6, <2>7, <2>8, <2>9 DEF c
<1>4. CASE chunk.tag = "X"
  <2>1. r = At(q.through + 1, -1)
    BY <1>4 DEF Leads
  <2> DEFINE d == IF b.open THEN FinishVolume(b) ELSE b
  <2>2. c = [d EXCEPT !.open = FALSE, !.failed = d.failed + 1]
    BY <1>4 DEF Applied
  <2>3. Remade(b, d, FALSE) /\ Among(d.index, q.through + 1)
    <3>1. CASE b.open = TRUE
      BY <1>o, <1>s, <3>1, FinishVolumeFacts
    <3>2. CASE b.open = FALSE
      BY <1>n, <1>m, <1>s, <3>2 DEF Remade
    <3> QED  BY <1>t, <3>1, <3>2
  <2> HIDE DEF c, d
  <2>4. d \in BuildStates /\ d.failed + 1 \in Nat /\ d.at = b.at /\ d.delivered = b.delivered
    BY <1>t, <2>3 DEF Remade
  <2>5. /\ c \in BuildStates /\ c.open = FALSE /\ c.index = d.index /\ c.starts = d.starts
        /\ c.at = b.at /\ c.delivered = b.delivered
    BY <2>2, <2>4 DEF BuildStates
  <2>6. Sound(c)
    BY <2>3, <2>5 DEF Remade, Sound
  <2>7. ReaderAt(c, r)
    <3>1. q.through + 1 \in Nat
      BY <1>q
    <3> QED  BY <1>r, <2>1, <2>3, <2>5, <3>1 DEF ReaderAt
  <2>8. c.delivered > 0 => HasWhole(c.index)
    BY <2>3, <2>5 DEF Remade
  <2> QED  BY <2>5, <2>6, <2>7, <2>8 DEF c
<1> QED  BY <1>1, <1>2, <1>3, <1>4 DEF Chunk

LEMMA ReadChunkKeeps == ASSUME AccessInv, ReadChunk PROVE AccessInv'
<1> DEFINE x == Head(pipe.chunks)
<1>0. /\ build.at = "read" /\ pipe.chunks # <<>> /\ x.tag # "Z"
      /\ pipe' = [pipe EXCEPT !.chunks = Tail(pipe.chunks)] /\ helper' = helper
      /\ token' = token /\ task' = task /\ prompting' = prompting /\ registrar' = registrar /\ answer' = answer
      /\ build' = Applied(build, x) /\ published' = published /\ offer' = offer /\ rebuild' = rebuild
  BY DEF ReadChunk, Goes
<1>1. pipe.client /\ pipe.made /\ pipe \in PipeStates /\ pipe.chunks \in Seq(Chunk) /\ build \in BuildStates
  BY <1>0, AccessFacts DEF AccessInv, PartsInv
<1>2. PICK f \in [0 .. Len(pipe.chunks) -> Place] :
         /\ Carried(pipe.chunks, f) /\ ReaderAt(build, f[0])
         /\ helper.joined => HelperAt(helper, f[Len(pipe.chunks)])
  BY <1>1 DEF AccessInv, StreamInv
<1>3. /\ x \in Chunk /\ Tail(pipe.chunks) \in Seq(Chunk)
      /\ f[0] \in Place /\ f[1] \in Place /\ Leads(f[0], x, f[1])
  BY <1>0, <1>1, <1>2, CarriedLess
<1>4. PICK g \in [0 .. Len(Tail(pipe.chunks)) -> Place] :
         /\ Carried(Tail(pipe.chunks), g)
         /\ g[0] = f[1] /\ g[Len(Tail(pipe.chunks))] = f[Len(pipe.chunks)]
  BY <1>0, <1>1, <1>2, CarriedLess
<1> HIDE DEF x
<1>5. Sound(build) /\ (build.delivered > 0 => HasWhole(build.index))
  BY DEF AccessInv, BuildInv
<1>6. /\ build' \in BuildStates /\ Sound(build') /\ ReaderAt(build', f[1]) /\ build'.at = "read"
      /\ build'.delivered > 0 => HasWhole(build'.index)
  BY <1>0, <1>1, <1>2, <1>3, <1>5, AppliedFacts
<1>7. /\ pipe' \in PipeStates /\ pipe'.made = pipe.made /\ pipe'.client = pipe.client
      /\ pipe'.chunks = Tail(pipe.chunks)
  BY <1>0, <1>1, <1>3 DEF PipeStates
<1>8. AccessTypeOK'
  BY <1>0, <1>6, <1>7, AccessFacts, AccessTypes
<1>9. PartsInv'
  BY <1>0, <1>1, <1>6, <1>7 DEF AccessInv, PartsInv
<1>10. BuildInv'
  BY <1>6 DEF BuildInv
<1>11. StreamInv'
  <2>1. ReaderAt(build', g[0]) /\ (helper'.joined => HelperAt(helper', g[Len(Tail(pipe.chunks))]))
    BY <1>0, <1>2, <1>4, <1>6
  <2> QED  BY <1>4, <1>7, <2>1 DEF StreamInv
<1>12. IndexIsOfOneAttempt'
  BY <1>0, PublishedLess
<1> QED  BY <1>8, <1>9, <1>10, <1>11, <1>12 DEF AccessInv

LEMMA EndReadKeeps == ASSUME AccessInv, EndRead PROVE AccessInv'
<1> DEFINE b == IF build.open THEN FinishVolume(build) ELSE build
           denied == b.delivered = 0 /\ b.failed > 0
           ended == [b EXCEPT !.open = FALSE, !.denied = denied]
<1>0. /\ build.at = "read" /\ ClosePipe
      /\ token' = token /\ task' = task /\ prompting' = prompting /\ registrar' = registrar /\ answer' = answer
      /\ IF b.delivered > 0 THEN Accept(ended, "mft") ELSE Goes(AfterHelper(ended))
  BY DEF EndRead
<1>1. build \in BuildStates /\ build.open \in BOOLEAN
  BY AccessFacts DEF BuildStates
<1>2. /\ Distinct(build.index) /\ Closed(build.index, build.open) /\ Linked(build.index, build.starts)
      /\ build.delivered > 0 => HasWhole(build.index)
  BY DEF AccessInv, BuildInv, Sound
<1>3. Remade(build, b, FALSE)
  <2>1. CASE build.open = TRUE
    BY <1>1, <1>2, <2>1, FinishVolumeFacts
  <2>2. CASE build.open = FALSE
    BY <1>1, <1>2, <2>2 DEF Remade
  <2> QED  BY <1>1, <2>1, <2>2
<1>4. denied \in BOOLEAN
  OBVIOUS
<1>5. ended = [b EXCEPT !.open = FALSE, !.denied = denied]
  OBVIOUS
<1> HIDE DEF b, denied, ended
<1>6. /\ b \in BuildStates /\ b.delivered = build.delivered
      /\ Distinct(b.index) /\ Closed(b.index, FALSE) /\ Linked(b.index, b.starts)
      /\ HasWhole(build.index) => HasWhole(b.index)
  BY <1>3 DEF Remade
<1>7. /\ ended \in BuildStates /\ ended.open = FALSE /\ ended.index = b.index /\ ended.starts = b.starts
      /\ ended.delivered = b.delivered
  BY <1>4, <1>5, <1>6 DEF BuildStates
<1>8. CASE b.delivered > 0 /\ Accept(ended, "mft")
  <2>1. HasWhole(ended.index)
    BY <1>2, <1>6, <1>7, <1>8
  <2>2. /\ Landed(build') /\ published' \in Publications /\ IndexIsOfOneAttempt'
        /\ offer' \in BOOLEAN /\ rebuild' \in BOOLEAN
    BY <1>6, <1>7, <1>8, <2>1, Accepted
  <2> QED  BY <1>0, <2>2, AccessFacts, Landing
<1>9. CASE ~(b.delivered > 0) /\ Goes(AfterHelper(ended))
  <2>1. build' = AfterHelper(ended) /\ published' = published /\ offer' = offer /\ rebuild' = rebuild
    BY <1>9 DEF Goes
  <2>2. b.delivered \in Nat
    BY <1>6 DEF BuildStates
  <2>3. \A d \in Nat : ~(d > 0) => d = 0
    OBVIOUS
  <2>4. ended.delivered = 0 /\ ~ended.open
    BY <1>7, <1>9, <2>2, <2>3
  <2>5. Landed(build')
    BY <1>7, <2>1, <2>4, NextAttemptLands
  <2> QED  BY <1>0, <2>1, <2>5, PublishedLess, AccessFacts, Landing
<1> QED  BY <1>0, <1>8, <1>9

\* The steps that leave the build, its pipe and what is published alone.
LEMMA OthersKeep ==
    ASSUME AccessInv, UNCHANGED <<token, helper, pipe, build, published>>,
           task' \in BOOLEAN, prompting' \in BOOLEAN, offer' \in BOOLEAN, rebuild' \in BOOLEAN,
           registrar' \in {"none", "awaited", "given up"}, answer' \in {"none", "yes", "no"}
    PROVE  AccessInv'
<1>1. AccessTypeOK'
  BY AccessFacts, AccessTypes
<1>2. PartsInv' /\ BuildInv' /\ StreamInv' /\ IndexIsOfOneAttempt'
  BY DEF AccessInv, PartsInv, BuildInv, StreamInv, IndexIsOfOneAttempt
<1> QED  BY <1>1, <1>2 DEF AccessInv

LEMMA AccessInvNext == AccessInv /\ [AccessNext]_accessVars => AccessInv'
<1> SUFFICES ASSUME AccessInv, [AccessNext]_accessVars
             PROVE  AccessInv'
  OBVIOUS
<1>t. /\ token \in Tokens
      /\ task \in BOOLEAN /\ prompting \in BOOLEAN /\ offer \in BOOLEAN /\ rebuild \in BOOLEAN
      /\ registrar \in {"none", "awaited", "given up"} /\ answer \in {"none", "yes", "no"}
  BY AccessFacts
<1>1. CASE Reader
  BY <1>1, ReadVolumeKeeps, EndElevatedKeeps, CrawlKeeps, OpenPipeKeeps, ConnectedKeeps,
     ConnectTimesOutKeeps, ReadChunkKeeps, EndReadKeeps DEF Reader
<1>2. CASE BeginBuild
  BY <1>2, BeginBuildKeeps
<1>3. CASE DumpStep \/ HelperDies
  BY <1>3, DumpKeeps
<1>4. CASE AskAccess \/ GivesUp \/ JournalWraps
  <2>1. /\ UNCHANGED <<token, helper, pipe, build, published>>
        /\ registrar' \in {registrar, "awaited", "given up"} /\ answer' \in {answer, "no"}
        /\ task' = task /\ offer' = offer
        /\ prompting' \in {prompting, TRUE} /\ rebuild' \in {rebuild, TRUE}
    BY <1>4 DEF AskAccess, GivesUp, JournalWraps, Rests
  <2> QED  BY <1>t, <2>1, OthersKeep
<1>5. CASE Registers
  <2>1. PICK agreed \in BOOLEAN :
           /\ task' = (task \/ agreed)
           /\ answer' = IF registrar = "given up" THEN answer ELSE IF agreed THEN "yes" ELSE "no"
    BY <1>5 DEF Registers
  <2>2. /\ UNCHANGED <<token, helper, pipe, build, published>> /\ registrar' = "none"
        /\ prompting' = prompting /\ offer' = offer /\ rebuild' = rebuild
    BY <1>5 DEF Registers, Rests
  <2>3. task' \in BOOLEAN
    BY <2>1
  <2>4. answer' \in {"none", "yes", "no"}
    BY <1>t, <2>1
  <2> QED  BY <1>t, <2>2, <2>3, <2>4, OthersKeep
<1>6. CASE AccessAnswered
  <2>1. /\ UNCHANGED <<token, helper, pipe, build, published>> /\ answer' = "none" /\ prompting' = FALSE
        /\ rebuild' = (rebuild \/ answer = "yes")
        /\ task' = task /\ registrar' = registrar /\ offer' = offer
    BY <1>6 DEF AccessAnswered, Rests
  <2>2. rebuild' \in BOOLEAN
    BY <2>1
  <2> QED  BY <1>t, <2>1, <2>2, OthersKeep
<1>7. CASE NextDock
  <2>1. /\ build' = NoBuild /\ published' = Nothing /\ offer' = FALSE /\ rebuild' = TRUE
        /\ prompting' = FALSE /\ answer' = "none" /\ registrar' \in {"none", "given up"}
        /\ ClosePipe /\ token' = token /\ task' = task
    BY <1>7 DEF NextDock
  <2> QED  BY <1>t, <2>1, NoBuildLands, PublishedLess, Landing
<1>8. CASE UNCHANGED accessVars
  BY <1>t, <1>8, OthersKeep DEF accessVars
<1> QED  BY <1>1, <1>2, <1>3, <1>4, <1>5, <1>6, <1>7, <1>8 DEF AccessNext

-----------------------------------------------------------------------------
(***************************************************************************)
(* The media controls.                                                     *)
(***************************************************************************)

WatchSteps == {"unstarted", "asking", "gone", "check", "timed wait", "asleep", "run", "rest", "publish"}
Tellings == [app : Apps, command : Commands \cup {"play", "pause"}]
MediaStates == [unavailable : BOOLEAN, sleeping : BOOLEAN, dirty : SUBSET Bits,
                requests : Seq(Commands), demand : BOOLEAN, news : BOOLEAN, state : Snapshot,
                playHold : BOOLEAN, placeHold : BOOLEAN, wish : BOOLEAN]
WatchStates == [at : WatchSteps, bits : SUBSET Bits, batch : Seq(Commands),
                session : Apps \cup {NoPlayer}, sticky : Apps \cup {NoPlayer}, read : Snapshot,
                hooked : SUBSET Apps, pollDue : BOOLEAN]
Intents == {NoIntent} \cup [app : Apps, playing : BOOLEAN, held : BOOLEAN]

MediaTyped ==
    /\ players \in [Apps -> [st : Statuses, pos : {0, 1}, track : {"x", "y"}]]
    /\ currentSession \in Apps \cup {NoPlayer}
    /\ media \in MediaStates /\ watch \in WatchStates /\ meant \in Intents
    /\ owed \in Seq(Tellings) /\ presses \in 0 .. MaxPresses

\* The worker's session: what it is stuck to, what it read of, and when it has none.
WorkerInv ==
    /\ media.sleeping <=> watch.at = "asleep"
    /\ watch.at \in {"unstarted", "asking", "gone"} => watch.session = NoPlayer
    /\ watch.session = watch.sticky
    /\ watch.session # NoPlayer => watch.read.app = watch.session
    /\ watch.at = "rest" => watch.session # NoPlayer
    /\ watch.batch # <<>> => watch.at = "run" /\ Transport(watch.bits)
    /\ media.unavailable => watch.at = "gone"
    /\ media.state.have => media.state.app # NoPlayer

\* A toggle among the requests.
Toggles(s) == \E i \in DOMAIN s : s[i] = "toggle"

\* f says whether the player plays after each request of s: it begins with p, ends with
\* q, and is q already from the last toggle on.
Course(s, f, p, q) ==
    /\ f[0] = p /\ f[Len(s)] = q
    /\ \A i \in 1 .. Len(s) : IF s[i] = "toggle" THEN f[i] # f[i - 1] ELSE f[i] = f[i - 1]
    /\ \A i \in 0 .. Len(s) : f[i] = q \/ \E j \in i + 1 .. Len(s) : s[j] = "toggle"
Takes(s, p, q) == \E f \in [0 .. Len(s) -> BOOLEAN] : Course(s, f, p, q)

Plays(app) == players[app].st = "playing"
Reading == watch.at = "run" /\ Transport(watch.bits)

IntentInv ==
    meant # NoIntent =>
       /\ owed = <<>>
       /\ watch.session = meant.app /\ media.state.app = meant.app /\ watch.read.have
       /\ players[meant.app].st # "closed" /\ meant.app \in Apps
       /\ \A a \in Apps \ {meant.app} : ~Plays(a)
       /\ Takes(watch.batch \o media.requests, Plays(meant.app), meant.playing)
       /\ media.state.playing = meant.playing
       /\ media.playHold => media.wish = meant.playing
       /\ Toggles(media.requests) /\ watch.at \in {"run", "rest", "publish"} => media.playHold
       /\ Toggles(media.requests) \/ Toggles(watch.batch) \/ watch.read.playing = meant.playing \/ Reading

MediaInv == MediaTyped /\ WorkerInv /\ IntentInv

LEMMA TakesStill ==
    ASSUME NEW s \in Seq(Commands), ~Toggles(s), NEW p \in BOOLEAN
    PROVE  Takes(s, p, p)
<1> DEFINE f == [i \in 0 .. Len(s) |-> p]
<1>1. Len(s) \in Nat /\ f \in [0 .. Len(s) -> BOOLEAN] /\ \A i \in 0 .. Len(s) : f[i] = p
  OBVIOUS
<1>2. \A i \in 1 .. Len(s) : s[i] # "toggle" /\ i \in 0 .. Len(s) /\ i - 1 \in 0 .. Len(s)
  BY <1>1 DEF Toggles
<1> HIDE DEF f
<1>3. Course(s, f, p, p)
  BY <1>1, <1>2 DEF Course
<1> QED  BY <1>1, <1>3 DEF Takes

LEMMA TakesNot ==
    ASSUME NEW s \in Seq(Commands), ~Toggles(s), NEW p, NEW q, Takes(s, p, q)
    PROVE  p = q
<1>1. PICK f \in [0 .. Len(s) -> BOOLEAN] : Course(s, f, p, q)
  BY DEF Takes
<1>2. Len(s) \in Nat /\ 0 \in 0 .. Len(s)
  OBVIOUS
<1>3. \A j \in 0 + 1 .. Len(s) : s[j] # "toggle"
  BY DEF Toggles
<1> QED  BY <1>1, <1>2, <1>3 DEF Course

LEMMA TakesMore ==
    ASSUME NEW s \in Seq(Commands), NEW p, NEW q, Takes(s, p, q), NEW x \in Commands,
           NEW r \in BOOLEAN, IF x = "toggle" THEN r # q ELSE r = q
    PROVE  Takes(Append(s, x), p, r)
<1> DEFINE l == Len(s)
           c == Append(s, x)
           g(f) == [i \in 0 .. l + 1 |-> IF i <= l THEN f[i] ELSE r]
<1>1. PICK f \in [0 .. l -> BOOLEAN] : Course(s, f, p, q)
  BY DEF Takes
<1>2. l \in Nat /\ Len(c) = l + 1 /\ c[l + 1] = x /\ \A i \in 1 .. l : c[i] = s[i]
  OBVIOUS
<1>3. PICK h : h = g(f)
  OBVIOUS
<1>4. h \in [0 .. l + 1 -> BOOLEAN] /\ h[l + 1] = r /\ \A i \in 0 .. l : h[i] = f[i]
  BY <1>2, <1>3
<1>5. /\ f[0] = p /\ f[l] = q
      /\ \A i \in 1 .. l : IF s[i] = "toggle" THEN f[i] # f[i - 1] ELSE f[i] = f[i - 1]
      /\ \A i \in 0 .. l : f[i] = q \/ \E j \in i + 1 .. l : s[j] = "toggle"
  BY <1>1 DEF Course
<1> HIDE DEF l, c, g
<1>6. h[0] = p
  BY <1>2, <1>4, <1>5
<1>7. ASSUME NEW i \in 1 .. l + 1
      PROVE  IF c[i] = "toggle" THEN h[i] # h[i - 1] ELSE h[i] = h[i - 1]
  <2>1. CASE i = l + 1
    <3>1. i - 1 = l /\ l \in 0 .. l
      BY <1>2, <2>1
    <3>2. h[i] = r /\ h[i - 1] = q /\ c[i] = x
      BY <1>2, <1>4, <1>5, <2>1, <3>1
    <3> QED  BY <3>2
  <2>2. CASE i # l + 1
    <3>1. i \in 1 .. l /\ i \in 0 .. l /\ i - 1 \in 0 .. l
      BY <1>2, <2>2
    <3>2. c[i] = s[i] /\ h[i] = f[i] /\ h[i - 1] = f[i - 1]
      BY <1>2, <1>4, <3>1
    <3> QED  BY <1>5, <3>1, <3>2
  <2> QED  BY <2>1, <2>2
<1>8. ASSUME NEW i \in 0 .. l + 1
      PROVE  h[i] = r \/ \E j \in i + 1 .. l + 1 : c[j] = "toggle"
  <2>1. CASE i = l + 1
    BY <1>4, <2>1
  <2>2. CASE i # l + 1
    <3>1. i \in 0 .. l /\ h[i] = f[i] /\ l + 1 \in i + 1 .. l + 1
      BY <1>2, <1>4, <2>2
    <3>2. CASE x = "toggle"
      BY <1>2, <3>1, <3>2
    <3>3. CASE x # "toggle" /\ f[i] = q
      BY <3>1, <3>3
    <3>4. CASE x # "toggle" /\ f[i] # q
      <4>1. PICK j \in i + 1 .. l : s[j] = "toggle"
        BY <1>5, <3>1, <3>4
      <4>2. j \in 1 .. l /\ j \in i + 1 .. l + 1
        BY <1>2, <3>1
      <4> QED  BY <1>2, <4>1, <4>2
    <3> QED  BY <3>2, <3>3, <3>4
  <2> QED  BY <2>1, <2>2
<1>9. Course(c, h, p, r)
  BY <1>2, <1>4, <1>6, <1>7, <1>8 DEF Course
<1> QED  BY <1>2, <1>4, <1>9 DEF Takes, c

LEMMA TakesLess ==
    ASSUME NEW s \in Seq(Commands), s # <<>>, NEW p, NEW q, Takes(s, p, q),
           NEW r \in BOOLEAN, IF Head(s) = "toggle" THEN r # p ELSE r = p, p \in BOOLEAN
    PROVE  Takes(Tail(s), r, q)
<1> DEFINE l == Len(s)
           c == Tail(s)
           g(f) == [i \in 0 .. l - 1 |-> f[i + 1]]
<1>1. PICK f \in [0 .. l -> BOOLEAN] : Course(s, f, p, q)
  BY DEF Takes
<1>2. l \in Nat \ {0} /\ Len(c) = l - 1 /\ Head(s) = s[1] /\ \A i \in 1 .. l - 1 : c[i] = s[i + 1]
  OBVIOUS
<1>3. PICK h : h = g(f)
  OBVIOUS
<1>4. h \in [0 .. l - 1 -> BOOLEAN] /\ \A i \in 0 .. l - 1 : h[i] = f[i + 1]
  BY <1>2, <1>3
<1>5. /\ f[0] = p /\ f[l] = q /\ f[1] \in BOOLEAN
      /\ \A i \in 1 .. l : IF s[i] = "toggle" THEN f[i] # f[i - 1] ELSE f[i] = f[i - 1]
      /\ \A i \in 0 .. l : f[i] = q \/ \E j \in i + 1 .. l : s[j] = "toggle"
  BY <1>1, <1>2 DEF Course
<1> HIDE DEF l, c, g
<1>6. h[0] = r /\ h[l - 1] = q
  <2>1. 0 \in 0 .. l - 1 /\ 0 + 1 = 1 /\ l - 1 \in 0 .. l - 1 /\ (l - 1) + 1 = l /\ 1 \in 1 .. l /\ 1 - 1 = 0
    BY <1>2
  <2>2. IF s[1] = "toggle" THEN f[1] # f[0] ELSE f[1] = f[0]
    BY <1>5, <2>1
  <2>3. f[1] = r
    BY <1>2, <1>5, <2>2
  <2> QED  BY <1>4, <1>5, <2>1, <2>3
<1>7. ASSUME NEW i \in 1 .. l - 1
      PROVE  IF c[i] = "toggle" THEN h[i] # h[i - 1] ELSE h[i] = h[i - 1]
  <2>1. i + 1 \in 1 .. l /\ (i + 1) - 1 = i /\ i \in 0 .. l - 1 /\ i - 1 \in 0 .. l - 1 /\ (i - 1) + 1 = i
    BY <1>2
  <2>2. IF s[i + 1] = "toggle" THEN f[i + 1] # f[(i + 1) - 1] ELSE f[i + 1] = f[(i + 1) - 1]
    BY <1>5, <2>1
  <2>3. c[i] = s[i + 1] /\ h[i] = f[i + 1] /\ h[i - 1] = f[i]
    BY <1>2, <1>4, <2>1
  <2> QED  BY <2>1, <2>2, <2>3
<1>8. ASSUME NEW i \in 0 .. l - 1
      PROVE  h[i] = q \/ \E j \in i + 1 .. l - 1 : c[j] = "toggle"
  <2>1. i + 1 \in 0 .. l
    BY <1>2
  <2>2. CASE f[i + 1] = q
    BY <1>4, <2>2
  <2>3. CASE f[i + 1] # q
    <3>1. PICK j \in (i + 1) + 1 .. l : s[j] = "toggle"
      BY <1>5, <2>1, <2>3
    <3>2. j - 1 \in i + 1 .. l - 1 /\ j - 1 \in 1 .. l - 1 /\ (j - 1) + 1 = j
      BY <1>2, <3>1
    <3>3. c[j - 1] = "toggle"
      BY <1>2, <3>1, <3>2
    <3> QED  BY <3>2, <3>3
  <2> QED  BY <2>2, <2>3
<1>9. Course(c, h, r, q)
  BY <1>2, <1>4, <1>6, <1>7, <1>8 DEF Course
<1> QED  BY <1>2, <1>4, <1>9 DEF Takes, c

\* What the worker has taken, and what it will take.
LEMMA RequestFacts ==
    ASSUME NEW b \in Seq(Commands), NEW r \in Seq(Commands)
    PROVE  /\ b \o r \in Seq(Commands)
           /\ Toggles(b \o r) <=> Toggles(b) \/ Toggles(r)
           /\ b = <<>> => b \o r = r /\ ~Toggles(b)
           /\ r = <<>> => b \o r = b /\ ~Toggles(r)
           /\ b # <<>> => /\ Head(b) \in Commands /\ Tail(b) \in Seq(Commands)
                          /\ Tail(b \o r) = Tail(b) \o r /\ Head(b \o r) = Head(b) /\ b \o r # <<>>
                          /\ Toggles(b) <=> Head(b) = "toggle" \/ Toggles(Tail(b))
           /\ \A x \in Commands : /\ Append(r, x) \in Seq(Commands)
                                  /\ b \o Append(r, x) = Append(b \o r, x)
                                  /\ Toggles(Append(r, x)) <=> Toggles(r) \/ x = "toggle"
<1>1. b \o r \in Seq(Commands) /\ Len(b \o r) = Len(b) + Len(r) /\ Len(b) \in Nat /\ Len(r) \in Nat
      /\ \A i \in 1 .. Len(b) + Len(r) : (b \o r)[i] = IF i <= Len(b) THEN b[i] ELSE r[i - Len(b)]
  OBVIOUS
<1>2. Toggles(b \o r) <=> Toggles(b) \/ Toggles(r)
  <2>1. ASSUME Toggles(b \o r) PROVE Toggles(b) \/ Toggles(r)
    <3>1. PICK i \in 1 .. Len(b) + Len(r) : (b \o r)[i] = "toggle"
      BY <1>1, <2>1 DEF Toggles
    <3>2. CASE i <= Len(b)
      BY <1>1, <3>1, <3>2 DEF Toggles
    <3>3. CASE ~(i <= Len(b))
      <4>1. i - Len(b) \in 1 .. Len(r) /\ r[i - Len(b)] = "toggle"
        BY <1>1, <3>1, <3>3
      <4> QED  BY <4>1 DEF Toggles
    <3> QED  BY <3>2, <3>3
  <2>2. ASSUME Toggles(b) PROVE Toggles(b \o r)
    <3>1. PICK i \in 1 .. Len(b) : b[i] = "toggle"
      BY <2>2 DEF Toggles
    <3>2. i \in 1 .. Len(b) + Len(r) /\ (b \o r)[i] = "toggle"
      BY <1>1, <3>1
    <3> QED  BY <1>1, <3>2 DEF Toggles
  <2>3. ASSUME Toggles(r) PROVE Toggles(b \o r)
    <3>1. PICK i \in 1 .. Len(r) : r[i] = "toggle"
      BY <2>3 DEF Toggles
    <3>2. Len(b) + i \in 1 .. Len(b) + Len(r) /\ ~(Len(b) + i <= Len(b)) /\ (Len(b) + i) - Len(b) = i
      BY <1>1, <3>1
    <3>3. (b \o r)[Len(b) + i] = "toggle"
      BY <1>1, <3>1, <3>2
    <3> QED  BY <1>1, <3>2, <3>3 DEF Toggles
  <2> QED  BY <2>1, <2>2, <2>3
<1>3. b = <<>> => b \o r = r /\ ~Toggles(b)
  BY DEF Toggles
<1>4. r = <<>> => b \o r = b /\ ~Toggles(r)
  BY DEF Toggles
<1>5. ASSUME b # <<>>
      PROVE  /\ Head(b) \in Commands /\ Tail(b) \in Seq(Commands)
             /\ Tail(b \o r) = Tail(b) \o r /\ Head(b \o r) = Head(b) /\ b \o r # <<>>
             /\ Toggles(b) <=> Head(b) = "toggle" \/ Toggles(Tail(b))
  <2>1. Head(b) \in Commands /\ Tail(b) \in Seq(Commands) /\ b \o r # <<>>
    BY <1>5
  <2>2. Tail(b \o r) = Tail(b) \o r
    BY <1>5
  <2>3. Head(b \o r) = Head(b)
    BY <1>5
  <2>4. Len(Tail(b)) = Len(b) - 1 /\ Len(b) >= 1 /\ Head(b) = b[1]
        /\ \A i \in 1 .. Len(b) - 1 : Tail(b)[i] = b[i + 1]
    BY <1>5
  <2>5. ASSUME Toggles(b) PROVE Head(b) = "toggle" \/ Toggles(Tail(b))
    <3>1. PICK i \in 1 .. Len(b) : b[i] = "toggle"
      BY <2>5 DEF Toggles
    <3>2. CASE i # 1
      <4>1. i - 1 \in 1 .. Len(b) - 1 /\ (i - 1) + 1 = i
        BY <1>1, <3>1, <3>2
      <4>2. Tail(b)[i - 1] = "toggle" /\ i - 1 \in DOMAIN Tail(b)
        BY <2>1, <2>4, <3>1, <4>1
      <4> QED  BY <4>2 DEF Toggles
    <3> QED  BY <2>4, <3>1, <3>2
  <2>6. ASSUME Toggles(Tail(b)) PROVE Toggles(b)
    <3>1. PICK i \in 1 .. Len(b) - 1 : Tail(b)[i] = "toggle"
      BY <2>1, <2>4, <2>6 DEF Toggles
    <3>2. i + 1 \in 1 .. Len(b) /\ b[i + 1] = "toggle"
      BY <1>1, <2>4, <3>1
    <3> QED  BY <3>2 DEF Toggles
  <2>7. Head(b) = "toggle" => Toggles(b)
    BY <2>4 DEF Toggles
  <2> QED  BY <2>1, <2>2, <2>3, <2>5, <2>6, <2>7
<1>6. ASSUME NEW x \in Commands
      PROVE  /\ Append(r, x) \in Seq(Commands)
             /\ b \o Append(r, x) = Append(b \o r, x)
             /\ Toggles(Append(r, x)) <=> Toggles(r) \/ x = "toggle"
  <2>1. Append(r, x) \in Seq(Commands) /\ Len(Append(r, x)) = Len(r) + 1 /\ Append(r, x)[Len(r) + 1] = x
        /\ \A i \in 1 .. Len(r) : Append(r, x)[i] = r[i]
    OBVIOUS
  <2>2. b \o Append(r, x) = Append(b \o r, x)
    OBVIOUS
  <2>3. ASSUME Toggles(Append(r, x)) PROVE Toggles(r) \/ x = "toggle"
    <3>1. PICK i \in 1 .. Len(r) + 1 : Append(r, x)[i] = "toggle"
      BY <2>1, <2>3 DEF Toggles
    <3>2. CASE i = Len(r) + 1
      BY <2>1, <3>1, <3>2
    <3>3. CASE i # Len(r) + 1
      <4>1. i \in 1 .. Len(r)
        BY <1>1, <3>3
      <4> QED  BY <2>1, <3>1, <4>1 DEF Toggles
    <3> QED  BY <3>2, <3>3
  <2>4. ASSUME Toggles(r) PROVE Toggles(Append(r, x))
    <3>1. PICK i \in 1 .. Len(r) : r[i] = "toggle"
      BY <2>4 DEF Toggles
    <3>2. i \in DOMAIN Append(r, x) /\ Append(r, x)[i] = "toggle"
      BY <1>1, <2>1, <3>1
    <3> QED  BY <3>2 DEF Toggles
  <2>5. x = "toggle" => Toggles(Append(r, x))
    BY <1>1, <2>1 DEF Toggles
  <2> QED  BY <2>1, <2>2, <2>3, <2>4, <2>5
<1> QED  BY <1>1, <1>2, <1>3, <1>4, <1>5, <1>6

LEMMA SnapshotFacts ==
    /\ NoMedia \in Snapshot /\ ~NoMedia.have
    /\ NoIntent \in Intents /\ NoIntent.app = NoPlayer /\ ~NoIntent.held
    /\ \A a \in Apps : a # NoPlayer /\ a \in Apps \cup {NoPlayer}
BY MediaAssumption DEF NoMedia, NoIntent, Snapshot, Intents

\* What the worker's wake-ups leave of the bridge and of the worker.
SameMedia(m, n) ==
    /\ n \in MediaStates
    /\ n.requests = m.requests /\ n.state = m.state /\ n.playHold = m.playHold /\ n.wish = m.wish
    /\ n.unavailable = m.unavailable
SameWatch(w, v) ==
    /\ v \in WatchStates
    /\ v.session = w.session /\ v.sticky = w.sticky /\ v.read = w.read
    /\ v.batch = w.batch /\ v.bits = w.bits
    /\ v.at = w.at \/ (w.at \in Parked /\ v.at = "check") \/ (w.at = "unstarted" /\ v.at = "asking")

LEMMA SameMediaFacts ==
    ASSUME NEW m \in MediaStates
    PROVE  /\ SameMedia(m, m)
           /\ \A b \in SUBSET Bits : SameMedia(m, [m EXCEPT !.dirty = b])
           /\ \A b \in BOOLEAN : /\ SameMedia(m, [m EXCEPT !.sleeping = b])
                                 /\ SameMedia(m, [m EXCEPT !.demand = b])
                                 /\ SameMedia(m, [m EXCEPT !.demand = b, !.news = FALSE])
BY DEF SameMedia, MediaStates

LEMMA RousedFacts ==
    ASSUME NEW m \in MediaStates, NEW w \in WatchStates
    PROVE  /\ SameMedia(m, Roused(m, w))
           /\ Roused(m, w).sleeping = IF w.at = "asleep" THEN FALSE ELSE m.sleeping
BY ZenonT(60), SameMediaFacts DEF Roused, SameMedia, MediaStates

LEMMA WokenFacts ==
    ASSUME NEW w \in WatchStates
    PROVE  SameWatch(w, w) /\ SameWatch(w, Woken(w)) /\ Woken(w).at # "asleep"
<1>1. SameWatch(w, w)
  BY DEF SameWatch
<1>2. CASE w.at \in Parked
  <2>1. Woken(w) = [w EXCEPT !.at = "check"] /\ "check" \in WatchSteps
    BY <1>2 DEF Woken, WatchSteps
  <2> QED  BY <1>1, <1>2, <2>1 DEF SameWatch, WatchStates
<1>3. CASE w.at \notin Parked
  BY <1>1, <1>3 DEF Woken, Parked
<1> QED  BY <1>1, <1>2, <1>3

LEMMA ToldFacts ==
    ASSUME NEW m \in MediaStates, NEW w \in WatchStates, NEW bits \in SUBSET Bits
    PROVE  /\ SameMedia(m, Told(m, w, bits))
           /\ (m.sleeping <=> w.at = "asleep") =>
                 (Told(m, w, bits).sleeping <=> (IF bits = {} THEN w ELSE Woken(w)).at = "asleep")
           /\ w.at # "asleep" => Told(m, w, bits).sleeping = m.sleeping
<1>1. CASE bits = {} \/ w.at \in {"unstarted", "asking", "gone"}
  <2>1. Told(m, w, bits) = m
    BY <1>1 DEF Told
  <2>2. (w.at \in {"unstarted", "asking", "gone"}) => Woken(w) = w
    BY DEF Woken, Parked
  <2> QED  BY <1>1, <2>1, <2>2, SameMediaFacts
<1>2. CASE ~(bits = {} \/ w.at \in {"unstarted", "asking", "gone"})
  <2> DEFINE n == Roused(m, w)
  <2>1. Told(m, w, bits) = [n EXCEPT !.dirty = n.dirty \cup bits]
    BY <1>2 DEF Told
  <2>2. SameMedia(m, n) /\ n.sleeping = IF w.at = "asleep" THEN FALSE ELSE m.sleeping
    BY RousedFacts
  <2> HIDE DEF n
  <2>3. n \in MediaStates /\ n.dirty \cup bits \in SUBSET Bits
    BY <2>2 DEF SameMedia, MediaStates
  <2>4. /\ Told(m, w, bits) \in MediaStates /\ Told(m, w, bits).sleeping = n.sleeping
        /\ SameMedia(n, Told(m, w, bits))
    BY <2>1, <2>3 DEF MediaStates, SameMedia
  <2>5. SameMedia(m, Told(m, w, bits))
    BY <2>2, <2>4 DEF SameMedia
  <2>6. Woken(w).at # "asleep" /\ (w.at # "asleep" => Woken(w).at # "asleep")
    BY WokenFacts
  <2> QED  BY <1>2, <2>2, <2>4, <2>5, <2>6
<1> QED  BY <1>1, <1>2

PlayersType == [Apps -> [st : Statuses, pos : {0, 1}, track : {"x", "y"}]]

LEMMA ObeysFacts ==
    ASSUME NEW app \in Apps \cup {NoPlayer}, NEW command \in Commands \cup {"play", "pause"},
           players \in PlayersType
    PROVE  /\ Obeys(app, command) \in PlayersType
           /\ \A a \in Apps : a # app => Obeys(app, command)[a] = players[a]
           /\ app \in Apps /\ players[app].st # "closed" =>
                 /\ Obeys(app, command)[app].st # "closed"
                 /\ Obeys(app, command)[app].st = "playing" <=>
                       CASE command = "toggle" -> players[app].st # "playing"
                         [] command = "play" -> TRUE
                         [] command = "pause" -> FALSE
                         [] OTHER -> players[app].st = "playing"
<1>1. CASE app = NoPlayer \/ players[app].st = "closed"
  BY <1>1, SnapshotFacts DEF Obeys
<1>2. CASE app \in Apps /\ players[app].st # "closed"
  <2> DEFINE p == players[app]
             n == CASE command = "toggle" -> [p EXCEPT !.st = IF p.st = "playing" THEN "paused" ELSE "playing"]
                    [] command = "play"   -> [p EXCEPT !.st = "playing"]
                    [] command = "pause"  -> [p EXCEPT !.st = "paused"]
                    [] command = "next"   -> [p EXCEPT !.pos = 0, !.track = IF p.track = "x" THEN "y" ELSE "x"]
                    [] command = "seek"   -> [p EXCEPT !.pos = 0]
  <2>1. app # NoPlayer
    BY <1>2, SnapshotFacts
  <2>2. Obeys(app, command) = [players EXCEPT ![app] = n]
    BY <1>2, <2>1 DEF Obeys
  <2>3. p \in [st : Statuses, pos : {0, 1}, track : {"x", "y"}]
    BY <1>2 DEF PlayersType
  <2>4. /\ n \in [st : Statuses, pos : {0, 1}, track : {"x", "y"}] /\ n.st # "closed"
        /\ n.st = "playing" <=> CASE command = "toggle" -> p.st # "playing"
                                  [] command = "play" -> TRUE
                                  [] command = "pause" -> FALSE
                                  [] OTHER -> p.st = "playing"
    <3>1. CASE command = "toggle"
      BY <1>2, <2>3, <3>1 DEF Statuses
    <3>2. CASE command = "play"
      BY <1>2, <2>3, <3>2 DEF Statuses
    <3>3. CASE command = "pause"
      BY <1>2, <2>3, <3>3 DEF Statuses
    <3>4. CASE command = "next"
      BY <1>2, <2>3, <3>4 DEF Statuses
    <3>5. CASE command = "seek"
      BY <1>2, <2>3, <3>5 DEF Statuses
    <3> QED  BY <3>1, <3>2, <3>3, <3>4, <3>5 DEF Commands
  <2> HIDE DEF n
  <2> QED  BY <1>2, <2>2, <2>4 DEF PlayersType
<1> QED  BY <1>1, <1>2

LEMMA ReportedFacts == ASSUME NEW as PROVE Reported(as) \in SUBSET Bits
BY DEF Reported, Bits

LEMMA FollowsFacts ==
    ASSUME NEW as, Follows(as), currentSession \in Apps \cup {NoPlayer}
    PROVE  currentSession' \in Apps \cup {NoPlayer}
<1>1. \A S \in SUBSET Apps : S # {} => (CHOOSE a \in S : TRUE) \in Apps
  OBVIOUS
<1>2. {a \in Apps : as[a].st = "playing" /\ players[a].st # "playing"} \in SUBSET Apps /\ Open(as) \in SUBSET Apps
  BY DEF Open
<1> QED  BY <1>1, <1>2 DEF Follows

LEMMA UnhookedFacts ==
    ASSUME NEW as, NEW w \in WatchStates
    PROVE  SameWatch(w, Unhooked(as, w)) /\ Unhooked(as, w).at = w.at
<1>1. w.hooked \cap Open(as) \in SUBSET Apps
  BY DEF WatchStates
<1>2. Unhooked(as, w) = [w EXCEPT !.hooked = w.hooked \cap Open(as)]
  BY DEF Unhooked
<1> QED  BY <1>1, <1>2 DEF SameWatch, WatchStates

LEMMA SameWatchComposes ==
    ASSUME NEW u, NEW v, NEW w, SameWatch(u, v), SameWatch(v, w), w.at = v.at
    PROVE  SameWatch(u, w)
BY DEF SameWatch

LEMMA LeastOf ==
    ASSUME NEW places, places \subseteq Nat, places # {}
    PROVE  \E x \in places : \A y \in places : ~(y < x)
<1>1. PICK x \in places : \A y \in places : ~ (<<y, x>> \in OpToRel(<, Nat))
  BY NatLessThanWellFounded, WFMin
<1>2. \A y \in places : ~(y < x)
  BY <1>1 DEF OpToRel
<1> QED  BY <1>1, <1>2

\* The first of some players, in the order of GetSessions.
FirstOf(as) ==
    IF as = {} THEN NoPlayer
    ELSE Players[CHOOSE i \in DOMAIN Players : Players[i] \in as /\ \A j \in 1 .. i - 1 : Players[j] \notin as]

LEMMA FirstFacts ==
    ASSUME NEW as \in SUBSET Apps
    PROVE  (as = {} /\ FirstOf(as) = NoPlayer) \/ FirstOf(as) \in as
<1>1. CASE as = {}
  BY <1>1 DEF FirstOf
<1>2. CASE as # {}
  <2> DEFINE places == {i \in DOMAIN Players : Players[i] \in as}
             P(i) == Players[i] \in as /\ \A j \in 1 .. i - 1 : Players[j] \notin as
  <2>0. Players \in Seq(Apps) /\ DOMAIN Players = 1 .. Len(Players) /\ Len(Players) \in Nat
    BY MediaAssumption
  <2>1. places \subseteq Nat /\ places # {}
    <3>1. PICK a \in Apps : a \in as
      BY <1>2
    <3>2. PICK i \in DOMAIN Players : a = Players[i]
      BY DEF Apps
    <3>3. i \in places
      BY <3>1, <3>2
    <3>4. \A k \in places : k \in Nat
      BY <2>0
    <3> QED  BY <3>3, <3>4
  <2>2. PICK x \in places : \A y \in places : ~(y < x)
    BY <2>1, LeastOf
  <2>3. \A j \in 1 .. x - 1 : Players[j] \notin as
    <3>1. ASSUME NEW j \in 1 .. x - 1, Players[j] \in as PROVE FALSE
      <4>1. x \in 1 .. Len(Players)
        BY <2>0, <2>2
      <4>2. j \in 1 .. Len(Players) /\ j < x
        BY <2>0, <4>1
      <4>3. j \in places
        BY <2>0, <3>1, <4>2
      <4> QED  BY <2>2, <4>2, <4>3
    <3> QED  BY <3>1
  <2>4. x \in DOMAIN Players /\ P(x)
    BY <2>2, <2>3
  <2>5. \E i \in DOMAIN Players : P(i)
    BY <2>4
  <2> HIDE DEF P
  <2>6. P(CHOOSE i \in DOMAIN Players : P(i))
    BY <2>5
  <2>7. Players[CHOOSE i \in DOMAIN Players : P(i)] \in as
    BY <2>6 DEF P
  <2> QED  BY <1>2, <2>7 DEF FirstOf, P
<1> QED  BY <1>1, <1>2

LEMMA PickFacts ==
    ASSUME NEW sticky \in Apps \cup {NoPlayer}, currentSession \in Apps \cup {NoPlayer}
    PROVE  /\ Pick(sticky) \in Apps \cup {NoPlayer}
           /\ sticky \in Apps /\ players[sticky].st # "closed" /\ (\A a \in Apps \ {sticky} : ~Plays(a))
                 => Pick(sticky) = sticky
<1> DEFINE playing == {a \in Apps : players[a].st = "playing"}
           paused == {a \in Apps : players[a].st = "paused"}
<1>1. Pick(sticky) =
        IF currentSession \in playing /\ sticky \in {NoPlayer, currentSession} THEN currentSession
        ELSE IF sticky \in playing THEN sticky
        ELSE IF currentSession \in playing THEN currentSession
        ELSE IF playing # {} THEN FirstOf(playing)
        ELSE IF sticky \in Open(players) THEN sticky
        ELSE IF currentSession # NoPlayer THEN currentSession
        ELSE FirstOf(paused)
  BY DEF Pick, FirstOf
<1>2. playing \in SUBSET Apps /\ paused \in SUBSET Apps
  OBVIOUS
<1>3. /\ FirstOf(playing) \in Apps \cup {NoPlayer} /\ FirstOf(paused) \in Apps \cup {NoPlayer}
  BY <1>2, FirstFacts
<1>4. ASSUME sticky \in Apps, players[sticky].st # "closed", \A a \in Apps \ {sticky} : ~Plays(a)
      PROVE  Pick(sticky) = sticky
  <2>1. playing \in SUBSET {sticky} /\ sticky \in Open(players)
    BY <1>4 DEF Plays, Open
  <2>2. playing = {} \/ sticky \in playing
    BY <2>1
  <2> HIDE DEF playing, paused
  <2> QED  BY <1>1, <2>1, <2>2
<1>5. Pick(sticky) \in Apps \cup {NoPlayer}
  <2> HIDE DEF playing, paused
  <2> QED  BY <1>1, <1>3
<1> QED  BY <1>4, <1>5

LEMMA PublishedFacts ==
    ASSUME NEW m \in MediaStates, NEW next \in Snapshot
    PROVE  LET n == Published(m, next) IN
           /\ n \in MediaStates /\ n.requests = m.requests /\ n.sleeping = m.sleeping
           /\ n.wish = m.wish /\ n.unavailable = m.unavailable
           /\ n.state.app = next.app /\ n.state.have = next.have
           /\ n.playHold => m.playHold
           /\ n.state.playing = IF KeepsPlay(m, next) THEN m.state.playing ELSE next.playing
           /\ n.playHold <=> KeepsPlay(m, next)
<1> DEFINE play == IF KeepsPlay(m, next)
                   THEN [next EXCEPT !.playing = m.state.playing, !.pos = m.state.pos] ELSE next
           placed == IF KeepsPlace(m, play) THEN [play EXCEPT !.pos = m.state.pos] ELSE play
           news == m.news \/ placed # m.state
<1>1. m.state \in Snapshot /\ m.playHold \in BOOLEAN
  BY DEF MediaStates
<1>2. /\ play \in Snapshot /\ play.app = next.app /\ play.have = next.have
      /\ play.playing = IF KeepsPlay(m, next) THEN m.state.playing ELSE next.playing
  BY <1>1 DEF Snapshot
<1>0. Published(m, next) =
        [m EXCEPT !.playHold = KeepsPlay(m, next), !.placeHold = KeepsPlace(m, play),
                  !.state = placed, !.news = news]
  BY DEF Published
<1> HIDE DEF play
<1>3. placed \in Snapshot /\ placed.app = play.app /\ placed.playing = play.playing /\ placed.have = play.have
  BY <1>1, <1>2 DEF Snapshot
<1>4. KeepsPlay(m, next) \in BOOLEAN /\ KeepsPlace(m, play) \in BOOLEAN /\ news \in BOOLEAN
      /\ (KeepsPlay(m, next) => m.playHold)
  BY DEF KeepsPlay, KeepsPlace
<1> HIDE DEF placed, news
<1>5. LET n == Published(m, next) IN
      /\ n \in MediaStates /\ n.requests = m.requests /\ n.sleeping = m.sleeping
      /\ n.wish = m.wish /\ n.unavailable = m.unavailable
      /\ n.state = placed /\ n.playHold = KeepsPlay(m, next)
  BY <1>0, <1>3, <1>4 DEF MediaStates
<1> QED  BY <1>2, <1>3, <1>4, <1>5

LEMMA ShowsFacts ==
    ASSUME NEW m \in MediaStates, NEW command \in Commands
    PROVE  LET n == Shows(m, command) IN
           /\ n \in MediaStates /\ n.requests = m.requests /\ n.sleeping = m.sleeping
           /\ n.unavailable = m.unavailable
           /\ n.state.app = m.state.app /\ n.state.have = m.state.have
           /\ command = "toggle" /\ m.state.have =>
                 /\ n.state.playing # m.state.playing /\ n.wish = n.state.playing /\ n.playHold
           /\ command # "toggle" \/ ~m.state.have =>
                 /\ n.state.playing = m.state.playing /\ n.wish = m.wish /\ n.playHold = m.playHold
<1>1. m.state \in Snapshot /\ m.state.have \in BOOLEAN /\ m.state.playing \in BOOLEAN
  BY DEF MediaStates, Snapshot
<1>2. CASE ~m.state.have
  BY <1>2 DEF Shows
<1>3. CASE m.state.have /\ command = "toggle"
  <2> DEFINE s == [m.state EXCEPT !.playing = ~m.state.playing]
             b == ~m.state.playing
  <2>1. Shows(m, command) = [m EXCEPT !.state = s, !.wish = b, !.playHold = TRUE, !.news = TRUE]
    BY <1>3 DEF Shows
  <2>2. b \in BOOLEAN /\ b # m.state.playing
    BY <1>1
  <2>3. s \in Snapshot /\ s.playing = b /\ s.app = m.state.app /\ s.have = m.state.have
    BY <1>1 DEF Snapshot
  <2> HIDE DEF s, b
  <2>4. LET n == Shows(m, command) IN
        /\ n \in MediaStates /\ n.requests = m.requests /\ n.sleeping = m.sleeping
        /\ n.unavailable = m.unavailable /\ n.state = s /\ n.wish = b /\ n.playHold = TRUE
    BY <2>1, <2>2, <2>3 DEF MediaStates
  <2> QED  BY <1>3, <2>2, <2>3, <2>4
<1>4. CASE m.state.have /\ command # "toggle"
  <2> DEFINE s == [m.state EXCEPT !.pos = 0]
  <2>1. Shows(m, command) = [m EXCEPT !.state = s, !.placeHold = TRUE, !.news = TRUE]
    BY <1>4 DEF Shows
  <2>2. s \in Snapshot /\ s.playing = m.state.playing /\ s.app = m.state.app /\ s.have = m.state.have
    BY <1>1 DEF Snapshot
  <2> HIDE DEF s
  <2>3. LET n == Shows(m, command) IN
        /\ n \in MediaStates /\ n.requests = m.requests /\ n.sleeping = m.sleeping
        /\ n.unavailable = m.unavailable /\ n.state = s /\ n.wish = m.wish /\ n.playHold = m.playHold
    BY <2>1, <2>2 DEF MediaStates
  <2> QED  BY <1>4, <2>2, <2>3
<1> QED  BY <1>1, <1>2, <1>3, <1>4

LEMMA MediaFacts ==
    ASSUME MediaInv
    PROVE  /\ players \in PlayersType /\ currentSession \in Apps \cup {NoPlayer}
           /\ media \in MediaStates /\ watch \in WatchStates /\ meant \in Intents
           /\ owed \in Seq(Tellings) /\ presses \in 0 .. MaxPresses
           /\ media.requests \in Seq(Commands) /\ media.state \in Snapshot
           /\ watch.batch \in Seq(Commands) /\ watch.read \in Snapshot
           /\ watch.session \in Apps \cup {NoPlayer} /\ watch.sticky \in Apps \cup {NoPlayer}
           /\ watch.bits \in SUBSET Bits
<1>1. /\ players \in PlayersType /\ currentSession \in Apps \cup {NoPlayer}
      /\ media \in MediaStates /\ watch \in WatchStates /\ meant \in Intents
      /\ owed \in Seq(Tellings) /\ presses \in 0 .. MaxPresses
  BY DEF MediaInv, MediaTyped, PlayersType
<1>2. media.requests \in Seq(Commands) /\ media.state \in Snapshot
  BY <1>1 DEF MediaStates
<1>3. /\ watch.batch \in Seq(Commands) /\ watch.read \in Snapshot
      /\ watch.session \in Apps \cup {NoPlayer} /\ watch.sticky \in Apps \cup {NoPlayer}
      /\ watch.bits \in SUBSET Bits
  BY <1>1 DEF WatchStates
<1> QED  BY <1>1, <1>2, <1>3

\* What is meant, if it is: a player, and whether it is to play.
LEMMA MeantFacts ==
    ASSUME MediaInv, meant # NoIntent
    PROVE  meant \in [app : Apps, playing : BOOLEAN, held : BOOLEAN]
           /\ meant.app \in Apps /\ meant.app # NoPlayer /\ meant.playing \in BOOLEAN
BY MediaFacts, SnapshotFacts DEF Intents

\* Steps that touch nothing of what is clicked and read.
LEMMA MediaLasts ==
    ASSUME MediaInv, SameMedia(media, media'), SameWatch(watch, watch'),
           media'.sleeping <=> watch'.at = "asleep",
           players' \in PlayersType, currentSession' \in Apps \cup {NoPlayer},
           owed' \in Seq(Tellings), presses' \in 0 .. MaxPresses,
           \/ meant' = NoIntent
           \/ meant' = meant /\ owed' = owed /\ \A a \in Apps : players'[a].st = players[a].st
    PROVE  MediaInv'
<1>1. meant' \in Intents
  BY MediaFacts, SnapshotFacts
<1>2. MediaTyped'
  BY <1>1 DEF MediaTyped, SameMedia, SameWatch, PlayersType
<1>3. /\ watch'.session = watch.session /\ watch'.sticky = watch.sticky /\ watch'.read = watch.read
      /\ watch'.batch = watch.batch /\ watch'.bits = watch.bits
      /\ watch'.at = watch.at \/ (watch.at \in Parked /\ watch'.at = "check")
                              \/ (watch.at = "unstarted" /\ watch'.at = "asking")
      /\ media'.requests = media.requests /\ media'.state = media.state
      /\ media'.playHold = media.playHold /\ media'.wish = media.wish
      /\ media'.unavailable = media.unavailable
  BY DEF SameMedia, SameWatch
<1>4. WorkerInv'
  BY <1>3 DEF MediaInv, WorkerInv, Parked, Transport
<1>5. IntentInv'
  <2>1. CASE meant' = NoIntent
    BY <2>1 DEF IntentInv
  <2>2. ASSUME meant # NoIntent, meant' = meant, owed' = owed, \A a \in Apps : players'[a].st = players[a].st
        PROVE  IntentInv'
    <3>1. meant.app \in Apps
      BY <2>2, MeantFacts
    <3>2. \A a \in Apps : Plays(a)' = Plays(a)
      BY <2>2 DEF Plays
    <3>3. Reading => Reading'
      BY <1>3 DEF Reading, Parked, Transport
    <3>4. watch'.at \in {"run", "rest", "publish"} => watch.at \in {"run", "rest", "publish"}
      BY <1>3
    <3>5. /\ owed = <<>>
          /\ watch.session = meant.app /\ media.state.app = meant.app /\ watch.read.have
          /\ players[meant.app].st # "closed"
          /\ \A a \in Apps \ {meant.app} : ~Plays(a)
          /\ Takes(watch.batch \o media.requests, Plays(meant.app), meant.playing)
          /\ media.state.playing = meant.playing
          /\ media.playHold => media.wish = meant.playing
          /\ Toggles(media.requests) /\ watch.at \in {"run", "rest", "publish"} => media.playHold
          /\ Toggles(media.requests) \/ Toggles(watch.batch) \/ watch.read.playing = meant.playing \/ Reading
      BY <2>2 DEF MediaInv, IntentInv
    <3>6. Takes(watch.batch \o media.requests, Plays(meant.app)', meant.playing)
      <4>1. Plays(meant.app)' = Plays(meant.app)
        BY <2>2, <3>1 DEF Plays
      <4> QED  BY Zenon, <3>5, <4>1
    <3>7. \A a \in Apps \ {meant.app} : ~Plays(a)'
      BY <3>2, <3>5
    <3>8. players'[meant.app].st # "closed"
      BY <2>2, <3>1, <3>5
    <3>9. Plays(meant.app)' <=> players'[meant'.app].st = "playing"
      BY <2>2 DEF Plays
    <3> QED  BY <1>3, <2>2, <3>1, <3>3, <3>4, <3>5, <3>6, <3>7, <3>8 DEF IntentInv, Plays
  <2> QED  BY <2>1, <2>2
<1> QED  BY <1>2, <1>4, <1>5 DEF MediaInv

LEMMA ChangesKeep ==
    ASSUME MediaInv, NEW as \in PlayersType, NEW told \in BOOLEAN, Changes(as, told),
           meant' = NoIntent, owed' \in Seq(Tellings), presses' = presses
    PROVE  MediaInv'
<1> DEFINE bits == IF told THEN Reported(as) ELSE {}
           w == IF bits = {} THEN watch ELSE Woken(watch)
<1>1. media \in MediaStates /\ watch \in WatchStates /\ (media.sleeping <=> watch.at = "asleep")
  BY MediaFacts DEF MediaInv, WorkerInv
<1>2. bits \in SUBSET Bits
  BY ReportedFacts
<1>3. /\ players' = as /\ Follows(as) /\ media' = Told(media, watch, bits)
      /\ watch' = Unhooked(as, w)
  BY DEF Changes
<1>4. w \in WatchStates /\ SameWatch(watch, w)
  BY <1>1, WokenFacts DEF SameWatch
<1>6. SameMedia(media, media') /\ (media'.sleeping <=> w.at = "asleep")
  BY ZenonT(60), <1>1, <1>2, <1>3, ToldFacts
<1> HIDE DEF bits, w
<1>5. SameWatch(watch, watch') /\ watch'.at = w.at
  BY <1>3, <1>4, UnhookedFacts, SameWatchComposes
<1>7. currentSession' \in Apps \cup {NoPlayer}
  BY <1>3, MediaFacts, FollowsFacts
<1> QED  BY <1>3, <1>5, <1>6, <1>7, MediaFacts, MediaLasts

LEMMA PlayerMovesKeeps == ASSUME MediaInv, PlayerMoves PROVE MediaInv'
<1>1. meant' = NoIntent /\ owed' = owed /\ presses' = presses
  BY DEF PlayerMoves
<1>2. players \in PlayersType
  BY MediaFacts
<1>3. PICK a \in Apps, told \in BOOLEAN :
         \/ \E st \in Statuses \ {players[a].st} : Changes([players EXCEPT ![a].st = st], told)
         \/ Changes(Obeys(a, "next"), told)
  BY DEF PlayerMoves
<1>4. CASE Changes(Obeys(a, "next"), told)
  <2>1. Obeys(a, "next") \in PlayersType
    BY <1>2, ObeysFacts DEF Commands
  <2> QED  BY <1>1, <1>4, <2>1, MediaFacts, ChangesKeep
<1>5. ASSUME NEW st \in Statuses, Changes([players EXCEPT ![a].st = st], told)
      PROVE  MediaInv'
  <2>1. [players EXCEPT ![a].st = st] \in PlayersType
    BY <1>2 DEF PlayersType
  <2> QED  BY <1>1, <1>5, <2>1, MediaFacts, ChangesKeep
<1> QED  BY <1>3, <1>4, <1>5

LEMMA SlowPlayerKeeps == ASSUME MediaInv, SlowPlayer PROVE MediaInv'
<1>1. /\ owed # <<>> /\ Changes(Obeys(Head(owed).app, Head(owed).command), TRUE)
      /\ owed' = Tail(owed) /\ presses' = presses /\ meant' = meant
  BY DEF SlowPlayer
<1>2. meant = NoIntent
  BY <1>1 DEF MediaInv, IntentInv
<1>3. Head(owed) \in Tellings /\ Tail(owed) \in Seq(Tellings)
  BY <1>1, MediaFacts
<1>4. Head(owed).app \in Apps \cup {NoPlayer} /\ Head(owed).command \in Commands \cup {"play", "pause"}
  BY <1>3 DEF Tellings
<1>5. Obeys(Head(owed).app, Head(owed).command) \in PlayersType
  BY <1>4, MediaFacts, ObeysFacts
<1> QED  BY <1>1, <1>2, <1>3, <1>5, ChangesKeep

LEMMA AskManagerKeeps == ASSUME MediaInv, AskManager PROVE MediaInv'
<1>1. watch.at = "asking" /\ watch.session = NoPlayer /\ watch.batch = <<>> /\ ~media.sleeping
  BY DEF AskManager, WorkerAt, MediaInv, WorkerInv
<1>2. meant = NoIntent
  BY <1>1, MeantFacts DEF MediaInv, IntentInv
<1>3. UNCHANGED <<players, currentSession, owed, presses, meant>>
  BY DEF AskManager, Alone
<1>4. \/ watch' = [watch EXCEPT !.at = "run"] /\ media' = media
      \/ watch' = [watch EXCEPT !.at = "gone"] /\ media' = [media EXCEPT !.unavailable = TRUE, !.news = TRUE]
  BY DEF AskManager, Proceeds
<1>5. /\ watch' \in WatchStates /\ watch'.at \in {"run", "gone"} /\ watch'.session = NoPlayer
      /\ watch'.sticky = watch.sticky /\ watch'.batch = <<>>
  BY <1>1, <1>4, MediaFacts DEF WatchStates, WatchSteps
<1>6. /\ media' \in MediaStates /\ ~media'.sleeping /\ media'.state = media.state
      /\ media'.unavailable => watch'.at = "gone"
  BY <1>1, <1>4, MediaFacts DEF MediaStates, WatchStates, MediaInv, WorkerInv
<1>7. MediaTyped'
  BY <1>3, <1>5, <1>6, MediaFacts DEF MediaTyped, PlayersType
<1>8. WorkerInv'
  BY <1>1, <1>5, <1>6 DEF MediaInv, WorkerInv
<1>9. IntentInv'
  BY <1>2, <1>3 DEF IntentInv
<1> QED  BY <1>7, <1>8, <1>9 DEF MediaInv

LEMMA TakeWorkKeeps == ASSUME MediaInv, TakeWork PROVE MediaInv'
<1> DEFINE busy == media.dirty # {} \/ media.requests # <<>> \/ (media.demand /\ watch.pollDue)
           bits == media.dirty \cup Polled \cup Sent
           b == watch.batch
           r == media.requests
<1>1. /\ watch.at = "check" /\ watch.batch = <<>> /\ ~media.sleeping /\ ~media.unavailable
      /\ media.dirty \in SUBSET Bits /\ media.demand \in BOOLEAN
  BY MediaFacts DEF TakeWork, WorkerAt, MediaInv, WorkerInv, MediaStates
<1>2. UNCHANGED <<players, currentSession, owed, presses, meant>>
  BY DEF TakeWork, Alone
<1>3. ASSUME busy PROVE MediaInv'
  <2>1. bits \in SUBSET Bits /\ (r # <<>> => Transport(bits))
    BY <1>1 DEF Polled, Sent, Bits, Transport
  <2>2. /\ watch' = [watch EXCEPT !.bits = bits, !.batch = r, !.at = "run"]
        /\ media' = [media EXCEPT !.dirty = {}, !.requests = <<>>]
    BY <1>3 DEF TakeWork, Proceeds
  <2> HIDE DEF bits
  <2>3. /\ watch' \in WatchStates /\ watch'.at = "run" /\ watch'.bits = bits /\ watch'.batch = r
        /\ watch'.session = watch.session /\ watch'.sticky = watch.sticky /\ watch'.read = watch.read
    BY <2>1, <2>2, MediaFacts DEF WatchStates, WatchSteps
  <2>4. /\ media' \in MediaStates /\ media'.requests = <<>> /\ media'.state = media.state
        /\ media'.sleeping = media.sleeping /\ media'.unavailable = media.unavailable
        /\ media'.playHold = media.playHold /\ media'.wish = media.wish
    <3>1. {} \in SUBSET Bits /\ <<>> \in Seq(Commands)
      OBVIOUS
    <3> QED  BY <2>2, <3>1, MediaFacts DEF MediaStates
  <2>5. MediaTyped'
    BY <1>2, <2>3, <2>4, MediaFacts DEF MediaTyped, PlayersType
  <2>6. WorkerInv'
    BY <1>1, <2>1, <2>3, <2>4 DEF MediaInv, WorkerInv, Transport
  <2>7. ASSUME meant # NoIntent PROVE IntentInv'
    <3>1. /\ b \o r = r /\ r \o media'.requests = r /\ ~Toggles(b) /\ ~Toggles(media'.requests)
      <4>1. b \in Seq(Commands) /\ r \in Seq(Commands) /\ b = <<>>
        BY <1>1, MediaFacts
      <4>2. b \o r = r /\ ~Toggles(b)
        BY <4>1, RequestFacts
      <4>3. \A n \in Seq(Commands) : n = <<>> => r \o n = r /\ ~Toggles(n)
        BY <4>1, RequestFacts
      <4>4. media'.requests \in Seq(Commands) /\ media'.requests = <<>>
        BY <2>4 DEF MediaStates
      <4> QED  BY <4>2, <4>3, <4>4
    <3>2. watch'.batch \o media'.requests = watch.batch \o media.requests
      BY <2>3, <3>1
    <3>3. ~Reading
      BY <1>1 DEF Reading
    <3>4. Toggles(media.requests) => Toggles(watch'.batch)
      BY <2>3
    <3> QED  BY <1>2, <2>3, <2>4, <2>7, <3>1, <3>2, <3>3, <3>4 DEF MediaInv, IntentInv, Plays, Reading
  <2> QED  BY <1>2, <2>5, <2>6, <2>7 DEF MediaInv, IntentInv
<1>4. ASSUME ~busy PROVE MediaInv'
  <2> DEFINE at == IF media.demand THEN "timed wait" ELSE "asleep"
  <2>1. at \in WatchSteps /\ (at = "asleep" <=> ~media.demand) /\ at \notin {"unstarted", "asking", "gone", "run", "rest", "publish"}
    BY DEF WatchSteps
  <2>2. watch' = [watch EXCEPT !.at = at] /\ media' = [media EXCEPT !.sleeping = ~media.demand]
    BY <1>4 DEF TakeWork, Proceeds
  <2> HIDE DEF at
  <2>3. /\ watch' \in WatchStates /\ watch'.at = at /\ watch'.batch = watch.batch /\ watch'.bits = watch.bits
        /\ watch'.session = watch.session /\ watch'.sticky = watch.sticky /\ watch'.read = watch.read
    BY <2>1, <2>2, MediaFacts DEF WatchStates
  <2>4. (~media.demand) \in BOOLEAN
    BY <1>1
  <2>5. /\ media' \in MediaStates /\ media'.requests = media.requests /\ media'.state = media.state
        /\ media'.sleeping <=> ~media.demand
        /\ media'.unavailable = media.unavailable
        /\ media'.playHold = media.playHold /\ media'.wish = media.wish
    BY <2>2, <2>4, MediaFacts DEF MediaStates
  <2>6. MediaTyped'
    BY <1>2, <2>3, <2>5, MediaFacts DEF MediaTyped, PlayersType
  <2>7. WorkerInv'
    BY <1>1, <2>1, <2>3, <2>5 DEF MediaInv, WorkerInv
  <2>8. ASSUME meant # NoIntent PROVE IntentInv'
    <3>1. ~Reading
      BY <1>1 DEF Reading
    <3> QED  BY <1>2, <2>1, <2>3, <2>5, <2>8, <3>1 DEF MediaInv, IntentInv, Plays
  <2> QED  BY <1>2, <2>6, <2>7, <2>8 DEF MediaInv, IntentInv
<1> QED  BY <1>3, <1>4

LEMMA WaitEndsKeeps == ASSUME MediaInv, WaitEnds PROVE MediaInv'
<1>1. /\ watch.at = "timed wait" /\ watch' = [watch EXCEPT !.at = "check"] /\ media' = media
      /\ UNCHANGED <<players, currentSession, owed, presses, meant>>
  BY DEF WaitEnds, WorkerAt, Proceeds, Alone
<1>2. SameWatch(watch, watch') /\ watch'.at = "check"
  BY <1>1, MediaFacts DEF SameWatch, WatchStates, WatchSteps, Parked
<1>3. ~media.sleeping
  BY <1>1 DEF MediaInv, WorkerInv
<1> QED  BY <1>1, <1>2, <1>3, MediaFacts, SameMediaFacts, MediaLasts

LEMMA PollComesDueKeeps == ASSUME MediaInv, PollComesDue PROVE MediaInv'
<1>1. /\ watch' = [watch EXCEPT !.pollDue = TRUE] /\ media' = media
      /\ UNCHANGED <<players, currentSession, owed, presses, meant>>
  BY DEF PollComesDue, Alone
<1>2. SameWatch(watch, watch') /\ watch'.at = watch.at
  BY <1>1, MediaFacts DEF SameWatch, WatchStates
<1>3. media.sleeping <=> watch.at = "asleep"
  BY DEF MediaInv, WorkerInv
<1> QED  BY <1>1, <1>2, <1>3, MediaFacts, SameMediaFacts, MediaLasts

\* A toggle flips whether a player plays, whatever command it becomes.
LEMMA CommandFacts ==
    ASSUME MediaInv, NEW app \in Apps \cup {NoPlayer}, NEW request \in Commands
    PROVE  /\ Command(app, request) \in Commands \cup {"play", "pause"}
           /\ app \in Apps /\ players[app].st # "closed" =>
                 LET as == Obeys(app, Command(app, request)) IN
                 /\ as[app].st # "closed"
                 /\ IF request = "toggle" THEN (as[app].st = "playing") # Plays(app)
                    ELSE (as[app].st = "playing") = Plays(app)
<1> DEFINE c == Command(app, request)
<1>1. /\ c \in Commands \cup {"play", "pause"}
      /\ request # "toggle" => c = request
      /\ request = "toggle" => c = "toggle" \/ (c = "pause" /\ players[app].st = "playing")
                                            \/ (c = "play" /\ players[app].st # "playing")
  BY DEF Command, Commands
<1> HIDE DEF c
<1>2. ASSUME app \in Apps, players[app].st # "closed"
      PROVE  /\ Obeys(app, c)[app].st # "closed"
             /\ Obeys(app, c)[app].st = "playing" <=>
                    CASE c = "toggle" -> players[app].st # "playing"
                      [] c = "play" -> TRUE
                      [] c = "pause" -> FALSE
                      [] OTHER -> players[app].st = "playing"
  BY <1>1, <1>2, MediaFacts, ObeysFacts
<1>3. ASSUME app \in Apps, players[app].st # "closed"
      PROVE  IF request = "toggle" THEN ~(Obeys(app, c)[app].st = "playing" <=> players[app].st = "playing")
             ELSE Obeys(app, c)[app].st = "playing" <=> players[app].st = "playing"
  BY <1>1, <1>2, <1>3 DEF Commands
<1> QED  BY <1>1, <1>2, <1>3 DEF Plays, c

\* One of what the worker has taken is done.
LEMMA TakesRest ==
    ASSUME NEW b \in Seq(Commands), NEW r \in Seq(Commands), b # <<>>,
           NEW p \in BOOLEAN, NEW q, Takes(b \o r, p, q),
           NEW x \in BOOLEAN, IF Head(b) = "toggle" THEN x # p ELSE x = p
    PROVE  Takes(Tail(b) \o r, x, q)
<1>1. /\ b \o r \in Seq(Commands) /\ b \o r # <<>> /\ Head(b \o r) = Head(b)
      /\ Tail(b \o r) = Tail(b) \o r
  BY RequestFacts
<1>2. PICK s : s = b \o r
  OBVIOUS
<1>3. s \in Seq(Commands) /\ s # <<>> /\ Head(s) = Head(b) /\ Tail(s) = Tail(b) \o r /\ Takes(s, p, q)
  BY <1>1, <1>2
<1>4. Takes(Tail(s), x, q)
  BY <1>3, TakesLess
<1> QED  BY <1>3, <1>4

LEMMA RunRequestKeeps == ASSUME MediaInv, RunRequest PROVE MediaInv'
<1> DEFINE app == watch.session
           request == Head(watch.batch)
           rest == [watch EXCEPT !.batch = Tail(watch.batch)]
           key == IF request = "seek" THEN players ELSE Obeys(currentSession, request)
           as(how) == CASE how = "obeys" -> Obeys(app, Command(app, request))
                        [] how = "throws" -> key
                        [] OTHER -> players
<1>1. PICK how \in {"obeys", "slow", "refuses", "throws"} :
         /\ app = NoPlayer => how = "throws"
         /\ players' = as(how) /\ Follows(as(how))
         /\ media' = Told(media, watch, Reported(as(how)))
         /\ watch' = Unhooked(as(how), rest)
         /\ owed' = IF how = "slow" THEN Append(owed, [app |-> app, command |-> Command(app, request)])
                    ELSE owed
         /\ meant' = IF how = "obeys" THEN meant ELSE NoIntent
  BY DEF RunRequest
<1>2. PICK to : to = as(how)
  OBVIOUS
<1>3. /\ watch.at = "run" /\ watch.batch # <<>> /\ presses' = presses /\ ~media.sleeping
      /\ Transport(watch.bits) /\ ~media.unavailable
  BY DEF RunRequest, WorkerAt, MediaInv, WorkerInv
<1>4. /\ request \in Commands /\ Tail(watch.batch) \in Seq(Commands)
      /\ app \in Apps \cup {NoPlayer} /\ Command(app, request) \in Commands \cup {"play", "pause"}
  BY <1>3, MediaFacts, CommandFacts
<1>5. to \in PlayersType
  <2>1. players \in PlayersType
    BY MediaFacts
  <2>2. Obeys(app, Command(app, request)) \in PlayersType
    BY <1>4, <2>1, ObeysFacts
  <2>3. key \in PlayersType
    BY <1>4, <2>1, MediaFacts, ObeysFacts
  <2> HIDE DEF key, app, request
  <2>4. as(how) \in {Obeys(app, Command(app, request)), key, players}
    OBVIOUS
  <2> QED  BY <1>2, <2>1, <2>2, <2>3, <2>4
<1>6. owed' \in Seq(Tellings)
  <2>1. CASE how = "slow"
    <3>1. app \in Apps
      BY <1>1, <1>4, <2>1
    <3>2. [app |-> app, command |-> Command(app, request)] \in Tellings
      BY <1>4, <3>1 DEF Tellings
    <3> QED  BY <1>1, <2>1, <3>2, MediaFacts
  <2>2. CASE how # "slow"
    BY <1>1, <2>2, MediaFacts
  <2> QED  BY <2>1, <2>2
<1>7. meant' \in Intents
  BY <1>1, MediaFacts, SnapshotFacts
<1>8. currentSession' \in Apps \cup {NoPlayer}
  BY <1>1, MediaFacts, FollowsFacts
<1>9. /\ SameMedia(media, media') /\ ~media'.sleeping
  BY <1>1, <1>3, MediaFacts, ReportedFacts, ToldFacts
<1>10. /\ rest \in WatchStates /\ rest.batch = Tail(watch.batch) /\ rest.at = "run"
       /\ rest.session = app /\ rest.sticky = watch.sticky /\ rest.read = watch.read /\ rest.bits = watch.bits
  BY <1>3, <1>4, MediaFacts DEF WatchStates
<1> HIDE DEF rest
<1>11. SameWatch(rest, watch') /\ watch'.at = "run"
  BY <1>1, <1>10, UnhookedFacts
<1>12. /\ watch' \in WatchStates /\ watch'.at = "run" /\ watch'.batch = Tail(watch.batch)
       /\ watch'.session = app /\ watch'.sticky = watch.sticky /\ watch'.read = watch.read
       /\ watch'.bits = watch.bits
  BY <1>10, <1>11 DEF SameWatch
<1>13. /\ media' \in MediaStates /\ media'.requests = media.requests /\ media'.state = media.state
       /\ media'.playHold = media.playHold /\ media'.wish = media.wish /\ ~media'.unavailable
  BY <1>3, <1>9 DEF SameMedia
<1>14. players' = to
  BY <1>1, <1>2
<1>15. MediaTyped'
  BY <1>3, <1>5, <1>6, <1>7, <1>8, <1>12, <1>13, <1>14, MediaFacts DEF MediaTyped, PlayersType
<1>16. WorkerInv'
  BY <1>3, <1>9, <1>12, <1>13 DEF MediaInv, WorkerInv, Transport
<1>17. ASSUME meant' # NoIntent PROVE IntentInv'
  <2>1. how = "obeys" /\ meant' = meant /\ meant # NoIntent /\ owed' = owed
    BY <1>1, <1>17
  <2>2. app = meant.app /\ app \in Apps /\ players[app].st # "closed"
    BY <2>1 DEF MediaInv, IntentInv
  <2>3. to = Obeys(app, Command(app, request))
    BY <1>2, <2>1
  <2>4. to[app].st # "closed"
    BY <1>4, <2>2, <2>3, CommandFacts
  <2>5. IF request = "toggle" THEN (to[app].st = "playing") # Plays(app)
        ELSE (to[app].st = "playing") = Plays(app)
    BY <1>4, <2>2, <2>3, CommandFacts
  <2>6. \A a \in Apps \ {app} : to[a] = players[a]
    BY <1>4, <2>3, MediaFacts, ObeysFacts
  <2>7. Takes(Tail(watch.batch) \o media.requests, to[app].st = "playing", meant.playing)
    <3>1. watch.batch \in Seq(Commands) /\ media.requests \in Seq(Commands)
      BY MediaFacts
    <3>2. Takes(watch.batch \o media.requests, Plays(app), meant.playing)
      <4>1. Takes(watch.batch \o media.requests, Plays(meant.app), meant.playing)
        BY <2>1 DEF MediaInv, IntentInv
      <4> QED  BY <2>2, <4>1
    <3>3. PICK p \in BOOLEAN : p = Plays(app)
      BY DEF Plays
    <3>4. PICK q \in BOOLEAN : q = (to[app].st = "playing")
      OBVIOUS
    <3>5. IF Head(watch.batch) = "toggle" THEN q # p ELSE q = p
      BY <2>5, <3>3, <3>4
    <3>6. Takes(watch.batch \o media.requests, p, meant.playing)
      BY Zenon, <3>2, <3>3
    <3>7. Takes(Tail(watch.batch) \o media.requests, q, meant.playing)
      BY <1>3, <3>1, <3>5, <3>6, TakesRest
    <3> QED  BY Zenon, <3>4, <3>7
  <2>8. Takes(Tail(watch.batch) \o media.requests, Plays(meant.app)', meant.playing)
    <3>1. Plays(meant.app)' = (to[app].st = "playing")
      BY <1>14, <2>1, <2>2 DEF Plays
    <3> QED  BY Zenon, <2>7, <3>1
  <2>9. watch'.batch \o media'.requests = Tail(watch.batch) \o media.requests /\ meant'.playing = meant.playing
    BY <1>12, <1>13, <2>1
  <2>10. \A a \in Apps \ {meant.app} : ~Plays(a)'
    BY <1>14, <2>1, <2>2, <2>6 DEF MediaInv, IntentInv, Plays
  <2>11. Reading'
    BY <1>3, <1>12 DEF Reading, Transport
  <2>12. /\ owed' = <<>>
         /\ watch.session = meant.app /\ media.state.app = meant.app /\ watch.read.have
         /\ media.state.playing = meant.playing
         /\ media.playHold => media.wish = meant.playing
         /\ Toggles(media.requests) => media.playHold
    BY <1>3, <2>1 DEF MediaInv, IntentInv
  <2>13. players'[meant.app].st # "closed"
    BY <1>14, <2>2, <2>4
  <2>14. (Takes(watch.batch \o media.requests, Plays(meant.app), meant.playing))'
    BY Zenon, <2>8, <2>9
  <2>15. (Toggles(media.requests))' => Toggles(media.requests)
    BY <1>13
  <2> QED  BY <1>12, <1>13, <2>1, <2>2, <2>10, <2>11, <2>12, <2>13, <2>14, <2>15 DEF IntentInv, Plays
<1> QED  BY <1>15, <1>16, <1>17 DEF MediaInv, IntentInv

\* The session chosen again, and what is read of it.
LEMMA ChooseKeeps == ASSUME MediaInv, Choose PROVE MediaInv'
<1> DEFINE hooked == IF "sessions" \in watch.bits THEN [watch EXCEPT !.hooked = Open(players)] ELSE watch
           again == watch.bits \cap {"sessions", "playback"} # {} \/ watch.session = NoPlayer
           picked == IF again THEN Pick(watch.sticky) ELSE watch.session
           chosen ==
              IF ~again THEN hooked
              ELSE IF picked = NoPlayer
              THEN [hooked EXCEPT !.session = NoPlayer, !.sticky = NoPlayer, !.read = NoMedia]
              ELSE IF watch.session = NoPlayer \/ picked # watch.sticky
              THEN [hooked EXCEPT !.session = picked, !.sticky = picked,
                                  !.read = [NoMedia EXCEPT !.app = picked],
                                  !.bits = hooked.bits \cup {"playback", "props", "timeline"}]
              ELSE [hooked EXCEPT !.session = picked]
           seen == IF chosen.session # NoPlayer /\ Transport(chosen.bits)
                   THEN [chosen EXCEPT !.read.have = players[picked].st # "closed",
                                       !.read.playing = players[picked].st = "playing"]
                   ELSE chosen
           at == IF seen.session = NoPlayer THEN "publish" ELSE "rest"
<1>1. /\ watch.at = "run" /\ watch.batch = <<>> /\ media' = media /\ ~media.sleeping
      /\ UNCHANGED <<players, currentSession, owed, presses, meant>>
      /\ watch.session = watch.sticky /\ (watch.session # NoPlayer => watch.read.app = watch.session)
      /\ ~media.unavailable
  BY DEF Choose, WorkerAt, Alone, MediaInv, WorkerInv
<1>2. watch' = [seen EXCEPT !.at = at]
  BY DEF Choose, Proceeds
<1>3. /\ hooked \in WatchStates /\ hooked.session = watch.session /\ hooked.sticky = watch.sticky
      /\ hooked.read = watch.read /\ hooked.bits = watch.bits /\ hooked.batch = <<>>
  <2>1. Open(players) \in SUBSET Apps /\ watch \in WatchStates
    BY MediaFacts DEF Open
  <2> QED  BY <1>1, <2>1 DEF WatchStates
<1>4. picked \in Apps \cup {NoPlayer} /\ (~again => picked # NoPlayer)
  BY MediaFacts, PickFacts
<1>5. PICK h : h = hooked
  OBVIOUS
<1>6. PICK p : p = picked
  OBVIOUS
<1> HIDE DEF hooked
<1>7. /\ chosen \in WatchStates /\ chosen.batch = <<>> /\ chosen.session = p /\ chosen.sticky = p
      /\ p # NoPlayer => chosen.read.app = p
      /\ p = watch.session /\ p # NoPlayer => chosen.read = watch.read /\ chosen.bits = watch.bits
  <2>1. /\ h \in WatchStates /\ h.session = watch.session /\ h.sticky = watch.sticky
        /\ h.read = watch.read /\ h.bits = watch.bits /\ h.batch = <<>>
    BY <1>3, <1>5
  <2>2. p \in Apps \cup {NoPlayer} /\ (~again => p # NoPlayer /\ p = watch.session)
    BY <1>4, <1>6
  <2>3. chosen =
              IF ~again THEN h
              ELSE IF p = NoPlayer
              THEN [h EXCEPT !.session = NoPlayer, !.sticky = NoPlayer, !.read = NoMedia]
              ELSE IF watch.session = NoPlayer \/ p # watch.sticky
              THEN [h EXCEPT !.session = p, !.sticky = p,
                             !.read = [NoMedia EXCEPT !.app = p],
                             !.bits = h.bits \cup {"playback", "props", "timeline"}]
              ELSE [h EXCEPT !.session = p]
    BY <1>5, <1>6
  <2> HIDE DEF chosen, picked, again
  <2>4. CASE ~again
    BY <1>1, <2>1, <2>2, <2>3, <2>4
  <2>5. CASE again /\ p = NoPlayer
    <3>1. chosen = [h EXCEPT !.session = NoPlayer, !.sticky = NoPlayer, !.read = NoMedia]
      BY <2>3, <2>5
    <3> QED  BY <2>1, <2>5, <3>1, SnapshotFacts DEF WatchStates
  <2>6. CASE again /\ p # NoPlayer /\ (watch.session = NoPlayer \/ p # watch.sticky)
    <3> DEFINE n == [NoMedia EXCEPT !.app = p]
               b == h.bits \cup {"playback", "props", "timeline"}
    <3>1. chosen = [h EXCEPT !.session = p, !.sticky = p, !.read = n, !.bits = b]
      BY <2>3, <2>6
    <3>2. n \in Snapshot /\ n.app = p
      BY <2>2, SnapshotFacts DEF Snapshot
    <3>3. b \in SUBSET Bits
      BY <2>1 DEF WatchStates, Bits
    <3> HIDE DEF n, b
    <3>4. /\ chosen \in WatchStates /\ chosen.batch = <<>> /\ chosen.session = p /\ chosen.sticky = p
          /\ chosen.read = n
      BY <2>1, <2>2, <3>1, <3>2, <3>3 DEF WatchStates
    <3> QED  BY <1>1, <2>6, <3>2, <3>4
  <2>7. CASE again /\ p # NoPlayer /\ ~(watch.session = NoPlayer \/ p # watch.sticky)
    <3>1. chosen = [h EXCEPT !.session = p] /\ p = watch.session
      BY <1>1, <2>3, <2>7
    <3>2. chosen = h
      BY <2>1, <3>1 DEF WatchStates
    <3> QED  BY <1>1, <2>1, <2>7, <3>1, <3>2
  <2> QED  BY <2>4, <2>5, <2>6, <2>7
<1>8. PICK c : c = chosen
  OBVIOUS
<1> HIDE DEF chosen
<1>9. /\ seen \in WatchStates /\ seen.batch = <<>> /\ seen.session = p /\ seen.sticky = p
      /\ seen.read.app = c.read.app /\ seen.bits = c.bits
      /\ ~Transport(c.bits) => seen.read = c.read
      /\ p # NoPlayer /\ Transport(c.bits) =>
            /\ seen.read.have <=> players[p].st # "closed"
            /\ seen.read.playing = Plays(p)
  <2> DEFINE have == players[p].st # "closed"
             playing == players[p].st = "playing"
             n == [c.read EXCEPT !.have = have, !.playing = playing]
  <2>1. c \in WatchStates /\ c.batch = <<>> /\ c.session = p /\ c.sticky = p /\ c.read \in Snapshot
    BY <1>7, <1>8 DEF WatchStates
  <2>2. seen = IF p # NoPlayer /\ Transport(c.bits) THEN [c EXCEPT !.read = n] ELSE c
    <3>1. CASE p # NoPlayer /\ Transport(c.bits)
      <4>1. seen = [c EXCEPT !.read.have = have, !.read.playing = playing]
        BY <1>6, <1>8, <2>1, <3>1
      <4>2. [c EXCEPT !.read.have = have, !.read.playing = playing] = [c EXCEPT !.read = n]
        BY <2>1 DEF WatchStates, Snapshot
      <4> QED  BY <3>1, <4>1, <4>2
    <3>2. CASE ~(p # NoPlayer /\ Transport(c.bits))
      BY <1>8, <2>1, <3>2
    <3> QED  BY <3>1, <3>2
  <2>3. have \in BOOLEAN /\ playing \in BOOLEAN /\ playing = Plays(p)
    BY DEF Plays
  <2>4. n \in Snapshot /\ n.app = c.read.app /\ n.have = have /\ n.playing = playing
    <3> HIDE DEF have, playing
    <3> QED  BY <2>1, <2>3 DEF Snapshot
  <2> HIDE DEF n, seen, playing
  <2>5. CASE p # NoPlayer /\ Transport(c.bits)
    <3>1. seen = [c EXCEPT !.read = n]
      BY <2>2, <2>5
    <3>2. seen \in WatchStates /\ seen.batch = <<>> /\ seen.session = p /\ seen.sticky = p /\ seen.read = n /\ seen.bits = c.bits
      BY <2>1, <2>4, <3>1 DEF WatchStates
    <3> QED  BY <2>3, <2>4, <2>5, <3>2
  <2>6. CASE ~(p # NoPlayer /\ Transport(c.bits))
    <3>1. seen = c
      BY <2>2, <2>6
    <3> QED  BY <2>1, <2>6, <3>1
  <2> QED  BY <2>5, <2>6
<1> HIDE DEF seen
<1>10. at = IF p = NoPlayer THEN "publish" ELSE "rest"
  BY <1>9
<1>11. at \in WatchSteps /\ at \notin {"asleep", "unstarted", "asking", "gone", "run"} /\ (at = "rest" => p # NoPlayer)
  BY <1>10 DEF WatchSteps
<1> HIDE DEF at
<1>12. /\ watch' \in WatchStates /\ watch'.at = at /\ watch'.batch = <<>> /\ watch'.session = p
       /\ watch'.sticky = p /\ watch'.read = seen.read /\ watch'.bits = seen.bits
  BY <1>2, <1>9, <1>11 DEF WatchStates
<1>13. MediaTyped'
  BY <1>1, <1>12, MediaFacts DEF MediaTyped, PlayersType
<1>14. WorkerInv'
  BY <1>1, <1>7, <1>8, <1>9, <1>11, <1>12 DEF MediaInv, WorkerInv
<1>15. ASSUME meant # NoIntent PROVE IntentInv'
  <2>1. /\ owed = <<>>
        /\ watch.session = meant.app /\ media.state.app = meant.app /\ watch.read.have
        /\ players[meant.app].st # "closed"
        /\ \A a \in Apps \ {meant.app} : ~Plays(a)
        /\ Takes(watch.batch \o media.requests, Plays(meant.app), meant.playing)
        /\ media.state.playing = meant.playing
        /\ media.playHold => media.wish = meant.playing
        /\ Toggles(media.requests) => media.playHold
        /\ Toggles(media.requests) \/ Toggles(watch.batch) \/ watch.read.playing = meant.playing \/ Reading
    BY <1>1, <1>15 DEF MediaInv, IntentInv
  <2>2. meant.app \in Apps /\ meant.app # NoPlayer
    BY <1>15, MeantFacts
  <2>3. p = meant.app
    <3>1. Pick(watch.sticky) = meant.app
      BY <1>1, <2>1, <2>2, MediaFacts, PickFacts
    <3> QED  BY <1>6, <2>1, <3>1
  <2>4. c.read = watch.read /\ c.bits = watch.bits
    BY <1>7, <1>8, <2>1, <2>2, <2>3
  <2>5. watch'.read.have
    BY <1>9, <1>12, <2>1, <2>2, <2>3, <2>4
  <2>6. Toggles(media.requests) \/ watch'.read.playing = meant.playing
    <3>1. SUFFICES ASSUME ~Toggles(media.requests) PROVE watch'.read.playing = meant.playing
      OBVIOUS
    <3>2. ~Toggles(watch.batch) /\ watch.batch \o media.requests = media.requests
      <4>1. watch.batch \in Seq(Commands) /\ media.requests \in Seq(Commands)
        BY MediaFacts
      <4>2. \A b, r \in Seq(Commands) : b = <<>> => b \o r = r /\ ~Toggles(b)
        BY RequestFacts
      <4> QED  BY <1>1, <4>1, <4>2
    <3>3. Plays(meant.app) = meant.playing
      <4>1. Takes(media.requests, Plays(meant.app), meant.playing)
        BY <2>1, <3>2
      <4> QED  BY <3>1, <4>1, MediaFacts, TakesNot
    <3>4. CASE Transport(watch.bits)
      BY <1>9, <1>12, <2>2, <2>3, <2>4, <3>3, <3>4
    <3>5. CASE ~Transport(watch.bits)
      <4>1. watch.read.playing = meant.playing
        BY <2>1, <3>1, <3>2, <3>5 DEF Reading
      <4> QED  BY <1>9, <1>12, <2>4, <3>5, <4>1
    <3> QED  BY <3>4, <3>5
  <2>7. /\ media'.requests = media.requests /\ watch'.batch = watch.batch /\ meant' = meant
        /\ owed' = owed /\ players' = players /\ media' = media
    BY <1>1, <1>12
  <2> QED  BY <1>12, <2>1, <2>2, <2>3, <2>5, <2>6, <2>7 DEF IntentInv, Plays
<1> QED  BY <1>1, <1>13, <1>14, <1>15 DEF MediaInv, IntentInv

\* Reads of the session that leave what is clicked alone.
LEMMA ReadsKeep ==
    ASSUME MediaInv, watch.at = "rest", media' = media, Alone,
           watch' \in WatchStates, watch'.at = "publish", watch'.batch = watch.batch,
           watch'.session = watch.session, watch'.sticky = watch.sticky,
           watch'.read.app = watch.read.app, watch'.read.have = watch.read.have,
           watch'.read.playing = watch.read.playing
    PROVE  MediaInv'
<1>1. UNCHANGED <<players, currentSession, owed, presses, meant>>
  BY DEF Alone
<1>2. watch.batch = <<>> /\ ~media.sleeping /\ ~media.unavailable /\ ~Reading
  BY DEF MediaInv, WorkerInv, Reading
<1>3. MediaTyped'
  BY <1>1, MediaFacts DEF MediaTyped, PlayersType
<1>4. WorkerInv'
  BY <1>2 DEF MediaInv, WorkerInv
<1>5. ASSUME meant # NoIntent PROVE IntentInv'
  BY <1>1, <1>2, <1>5 DEF MediaInv, IntentInv, Plays
<1> QED  BY <1>1, <1>3, <1>4, <1>5 DEF MediaInv, IntentInv

LEMMA ReadRestKeeps == ASSUME MediaInv, ReadRest PROVE MediaInv'
<1>1. watch.at = "rest" /\ media' = media /\ Alone
  BY DEF ReadRest, WorkerAt
<1>2. PICK track \in {watch.read.track, players[watch.session].track} :
         watch' = [watch EXCEPT !.read.track = track,
                                !.read.pos = IF Transport(watch.bits) THEN players[watch.session].pos ELSE @,
                                !.at = "publish"]
  BY DEF ReadRest, Proceeds
<1>3. watch.session \in Apps
  BY <1>1, MediaFacts DEF MediaInv, WorkerInv
<1>4. players[watch.session] \in [st : Statuses, pos : {0, 1}, track : {"x", "y"}]
  BY <1>3, MediaFacts DEF PlayersType
<1>5. watch.read \in Snapshot /\ watch \in WatchStates
  BY MediaFacts
<1> DEFINE pos == IF Transport(watch.bits) THEN players[watch.session].pos ELSE watch.read.pos
           n == [watch.read EXCEPT !.track = track, !.pos = pos]
<1>6. track \in {"", "x", "y"} /\ pos \in {0, 1}
  BY <1>4, <1>5 DEF Snapshot
<1>7. watch' = [watch EXCEPT !.read = n, !.at = "publish"]
  BY <1>2, <1>5 DEF WatchStates, Snapshot
<1> HIDE DEF pos
<1>8. n \in Snapshot /\ n.app = watch.read.app /\ n.have = watch.read.have /\ n.playing = watch.read.playing
  BY <1>5, <1>6 DEF Snapshot
<1> HIDE DEF n
<1>9. /\ watch' \in WatchStates /\ watch'.at = "publish" /\ watch'.batch = watch.batch
      /\ watch'.session = watch.session /\ watch'.sticky = watch.sticky /\ watch'.read = n
  BY <1>5, <1>7, <1>8 DEF WatchStates, WatchSteps
<1> QED  BY <1>1, <1>8, <1>9, ReadsKeep

LEMMA ReadThrowsKeeps == ASSUME MediaInv, ReadThrows PROVE MediaInv'
<1>1. watch.at = "rest" /\ media' = media /\ Alone /\ watch' = [watch EXCEPT !.at = "publish"]
  BY DEF ReadThrows, WorkerAt, Proceeds
<1>2. /\ watch' \in WatchStates /\ watch'.at = "publish" /\ watch'.batch = watch.batch
      /\ watch'.session = watch.session /\ watch'.sticky = watch.sticky /\ watch'.read = watch.read
  BY <1>1, MediaFacts DEF WatchStates, WatchSteps
<1> QED  BY <1>1, <1>2, ReadsKeep

LEMMA PublishReadKeeps == ASSUME MediaInv, PublishRead PROVE MediaInv'
<1> DEFINE next == IF watch.session = NoPlayer THEN NoMedia ELSE watch.read
           poll == watch.pollDue /\ ~Transport(watch.bits)
<1>1. /\ watch.at = "publish" /\ watch.batch = <<>> /\ ~media.sleeping /\ ~media.unavailable /\ ~Reading
      /\ watch.session = watch.sticky /\ (watch.session # NoPlayer => watch.read.app = watch.session)
      /\ UNCHANGED <<players, currentSession, owed, presses, meant>>
  BY DEF PublishRead, WorkerAt, Alone, MediaInv, WorkerInv, Reading
<1>2. /\ media' = Published(media, next)
      /\ watch' = [watch EXCEPT !.bits = {}, !.batch = <<>>, !.pollDue = poll, !.at = "check"]
  BY DEF PublishRead, Proceeds
<1>3. next \in Snapshot /\ (next.have => next.app # NoPlayer)
  BY <1>1, MediaFacts, SnapshotFacts
<1>4. watch \in WatchStates /\ media \in MediaStates /\ poll \in BOOLEAN
  BY MediaFacts DEF WatchStates
<1> HIDE DEF poll
<1>5. /\ watch' \in WatchStates /\ watch'.at = "check" /\ watch'.batch = <<>>
      /\ watch'.session = watch.session /\ watch'.sticky = watch.sticky /\ watch'.read = watch.read
  <2>1. {} \in SUBSET Bits /\ <<>> \in Seq(Commands)
    OBVIOUS
  <2> QED  BY <1>2, <1>4, <2>1 DEF WatchStates, WatchSteps
<1>6. PICK s : s = next
  OBVIOUS
<1> HIDE DEF next
<1>7. /\ media' \in MediaStates /\ media'.requests = media.requests /\ media'.sleeping = media.sleeping
      /\ media'.wish = media.wish /\ media'.unavailable = media.unavailable
      /\ media'.state.app = s.app /\ media'.state.have = s.have
      /\ media'.state.playing = IF KeepsPlay(media, s) THEN media.state.playing ELSE s.playing
      /\ media'.playHold => media.playHold
  BY <1>2, <1>3, <1>4, <1>6, PublishedFacts
<1>8. MediaTyped'
  BY <1>1, <1>5, <1>7, MediaFacts DEF MediaTyped, PlayersType
<1>9. WorkerInv'
  BY <1>1, <1>3, <1>5, <1>6, <1>7 DEF MediaInv, WorkerInv
<1>10. ASSUME meant # NoIntent PROVE IntentInv'
  <2>1. /\ owed = <<>>
        /\ watch.session = meant.app /\ media.state.app = meant.app /\ watch.read.have
        /\ players[meant.app].st # "closed"
        /\ \A a \in Apps \ {meant.app} : ~Plays(a)
        /\ Takes(watch.batch \o media.requests, Plays(meant.app), meant.playing)
        /\ media.state.playing = meant.playing
        /\ media.playHold => media.wish = meant.playing
        /\ Toggles(media.requests) => media.playHold
        /\ Toggles(media.requests) \/ watch.read.playing = meant.playing
    <3>1. ~Toggles(watch.batch)
      BY <1>1 DEF Toggles
    <3> QED  BY <1>1, <1>10, <3>1 DEF MediaInv, IntentInv
  <2>2. meant.app \in Apps /\ meant.app # NoPlayer
    BY <1>10, MeantFacts
  <2>3. s = watch.read /\ s.app = meant.app
    BY <1>1, <1>6, <2>1, <2>2 DEF next
  <2>4. media'.state.playing = meant.playing
    <3>1. CASE KeepsPlay(media, s)
      BY <1>7, <2>1, <3>1
    <3>2. CASE ~KeepsPlay(media, s) /\ media.playHold
      BY <1>7, <2>1, <2>3, <3>2 DEF KeepsPlay
    <3>3. CASE ~KeepsPlay(media, s) /\ ~media.playHold
      BY <1>7, <2>1, <2>3, <3>3
    <3> QED  BY <3>1, <3>2, <3>3
  <2>5. media'.playHold => media'.wish = meant.playing
    BY <1>7, <2>1
  <2>6. /\ media'.requests = media.requests /\ watch'.batch = watch.batch /\ meant' = meant
        /\ owed' = owed /\ players' = players /\ media'.state.app = meant.app
    BY <1>1, <1>5, <1>7, <2>3
  <2> QED  BY <1>5, <2>1, <2>2, <2>4, <2>5, <2>6 DEF IntentInv, Plays
<1> QED  BY <1>1, <1>8, <1>9, <1>10 DEF MediaInv, IntentInv

LEMMA HoldsRunOutKeeps == ASSUME MediaInv, HoldsRunOut PROVE MediaInv'
<1>1. /\ media' = [media EXCEPT !.playHold = FALSE, !.placeHold = FALSE]
      /\ meant' = IF Underway THEN NoIntent ELSE [meant EXCEPT !.held = FALSE]
      /\ UNCHANGED <<players, currentSession, owed, watch, presses>>
  BY DEF HoldsRunOut
<1>2. /\ media' \in MediaStates /\ media'.requests = media.requests /\ media'.sleeping = media.sleeping
      /\ media'.unavailable = media.unavailable /\ media'.state = media.state /\ ~media'.playHold
  BY <1>1, MediaFacts DEF MediaStates
<1>3. CASE meant' = NoIntent
  <2>1. MediaTyped'
    BY <1>1, <1>2, <1>3, MediaFacts, SnapshotFacts DEF MediaTyped, PlayersType
  <2>2. WorkerInv' /\ IntentInv'
    BY <1>1, <1>2, <1>3 DEF MediaInv, WorkerInv, IntentInv, Transport
  <2> QED  BY <2>1, <2>2 DEF MediaInv
<1>4. CASE meant' # NoIntent
  <2>1. ~Underway /\ meant' = [meant EXCEPT !.held = FALSE]
    BY <1>1, <1>4
  <2>2. meant # NoIntent
    <3>1. [NoIntent EXCEPT !.held = FALSE] = NoIntent
      <4>1. NoIntent \in [app : {NoPlayer}, playing : {FALSE}, held : {FALSE}]
        BY DEF NoIntent
      <4>2. \A r \in [app : {NoPlayer}, playing : {FALSE}, held : {FALSE}] : [r EXCEPT !.held = FALSE] = r
        OBVIOUS
      <4> QED  BY <4>1, <4>2
    <3> QED  BY <1>4, <2>1, <3>1
  <2>3. meant' \in Intents /\ meant'.app = meant.app /\ meant'.playing = meant.playing
    BY <2>1, <2>2, MeantFacts DEF Intents
  <2>4. ~Toggles(media.requests)
    <3>1. ~Toggles(watch.batch \o media.requests)
      BY <2>1 DEF Underway, Toggles
    <3>2. watch.batch \in Seq(Commands) /\ media.requests \in Seq(Commands)
      BY MediaFacts
    <3> QED  BY <3>1, <3>2, RequestFacts
  <2>5. MediaTyped'
    BY <1>1, <1>2, <2>3, MediaFacts DEF MediaTyped, PlayersType
  <2>6. WorkerInv'
    BY <1>1, <1>2 DEF MediaInv, WorkerInv, Transport
  <2>7. IntentInv'
    BY <1>1, <1>2, <2>2, <2>3, <2>4 DEF MediaInv, IntentInv, Plays, Reading, Transport
  <2> QED  BY <2>5, <2>6, <2>7 DEF MediaInv
<1> QED  BY <1>3, <1>4

LEMMA RefreshKeeps == ASSUME MediaInv, Refresh PROVE MediaInv'
<1> DEFINE m == Roused(media, watch)
           w == Started(watch)
<1>1. /\ media' = [m EXCEPT !.demand = TRUE, !.news = FALSE]
      /\ watch' = IF w.at = "asleep" THEN Woken(w) ELSE w
      /\ UNCHANGED <<players, currentSession, owed, presses, meant>>
  BY DEF Refresh, Refreshed
<1>2. media \in MediaStates /\ watch \in WatchStates /\ (media.sleeping <=> watch.at = "asleep")
  BY MediaFacts DEF MediaInv, WorkerInv
<1>3. SameMedia(media, m) /\ m.sleeping = IF watch.at = "asleep" THEN FALSE ELSE media.sleeping
  BY <1>2, RousedFacts
<1>4. SameWatch(watch, watch') /\ watch'.at # "asleep"
  <2>1. CASE watch.at = "unstarted"
    <3>1. w = [watch EXCEPT !.at = "asking"] /\ w.at = "asking" /\ watch' = w
      BY <1>1, <1>2, <2>1 DEF Started, WatchStates
    <3> QED  BY <1>2, <2>1, <3>1 DEF SameWatch, WatchStates, WatchSteps
  <2>2. CASE watch.at # "unstarted"
    <3>1. w = watch
      BY <2>2 DEF Started
    <3> QED  BY <1>1, <1>2, <3>1, WokenFacts
  <2> QED  BY <2>1, <2>2
<1> HIDE DEF m, w
<1>5. SameMedia(media, media') /\ ~media'.sleeping
  <2>1. m \in MediaStates /\ ~m.sleeping
    BY <1>2, <1>3 DEF SameMedia
  <2>2. /\ media' \in MediaStates /\ ~media'.sleeping /\ SameMedia(m, media')
    BY <1>1, <2>1 DEF MediaStates, SameMedia
  <2> QED  BY <1>3, <2>2 DEF SameMedia
<1> QED  BY <1>1, <1>4, <1>5, MediaFacts, MediaLasts

LEMMA ClosePanelKeeps == ASSUME MediaInv, ClosePanel PROVE MediaInv'
<1>1. UNCHANGED <<players, currentSession, owed, media, watch, presses, meant>>
  BY DEF ClosePanel
<1>2. media.sleeping <=> watch.at = "asleep"
  BY DEF MediaInv, WorkerInv
<1> QED  BY <1>1, <1>2, MediaFacts, SameMediaFacts, WokenFacts, MediaLasts

LEMMA DemandLapsesKeeps == ASSUME MediaInv, DemandLapses PROVE MediaInv'
<1>1. /\ media' = [media EXCEPT !.demand = FALSE]
      /\ UNCHANGED <<players, currentSession, owed, watch, presses, meant>>
  BY DEF DemandLapses
<1>2. SameMedia(media, media') /\ (media'.sleeping <=> watch'.at = "asleep")
  BY <1>1, MediaFacts DEF MediaInv, WorkerInv, SameMedia, MediaStates
<1> QED  BY <1>1, <1>2, MediaFacts, WokenFacts, MediaLasts

LEMMA KeyPressKeeps == ASSUME MediaInv, NEW command \in Commands, KeyPress(command) PROVE MediaInv'
<1> DEFINE m == Roused(media, watch)
<1>1. /\ media.unavailable /\ presses' = presses + 1 /\ presses < MaxPresses
      /\ players' = Obeys(currentSession, command) /\ Follows(players')
      /\ media' = [m EXCEPT !.demand = TRUE, !.news = FALSE]
      /\ watch' = watch /\ owed' = owed /\ meant' = NoIntent
  BY DEF KeyPress, Refreshed
<1>2. watch.at = "gone" /\ ~media.sleeping
  BY <1>1 DEF MediaInv, WorkerInv
<1>3. m = media
  BY <1>2 DEF Roused
<1> HIDE DEF m
<1>4. SameMedia(media, media') /\ media'.sleeping = media.sleeping
  BY <1>1, <1>3, MediaFacts DEF MediaStates, SameMedia
<1>5. presses' \in 0 .. MaxPresses
  BY <1>1, MediaFacts, MediaAssumption
<1>6. players' \in PlayersType
  BY <1>1, MediaFacts, ObeysFacts
<1>7. currentSession' \in Apps \cup {NoPlayer}
  BY <1>1, MediaFacts, FollowsFacts
<1>8. owed' \in Seq(Tellings) /\ SameWatch(watch, watch')
  BY <1>1, MediaFacts, WokenFacts
<1> QED  BY <1>1, <1>2, <1>4, <1>5, <1>6, <1>7, <1>8, MediaLasts

\* A click on play or pause is meant if what it was made on was so.
LEMMA PressKeeps == ASSUME MediaInv, NEW command \in Commands, Press(command) PROVE MediaInv'
<1> DEFINE shown == Shows(media, command)
           r == Append(shown.requests, command)
           m == [shown EXCEPT !.requests = r]
           clicked == [app |-> m.state.app, playing |-> m.state.playing, held |-> TRUE]
<1>1. /\ presses' = presses + 1 /\ presses < MaxPresses /\ ~media.unavailable
      /\ media' = [Roused(m, watch) EXCEPT !.demand = TRUE, !.news = FALSE]
      /\ meant' = IF command = "toggle" /\ m.state.have /\ Truthful(media.state) THEN clicked
                  ELSE IF command = "toggle" THEN NoIntent ELSE meant
      /\ watch' = Woken(watch)
      /\ UNCHANGED <<players, currentSession, owed>>
  BY DEF Press, Refreshed
<1>2. /\ media \in MediaStates /\ watch \in WatchStates /\ media.requests \in Seq(Commands)
      /\ media.state \in Snapshot /\ watch.batch \in Seq(Commands)
  BY MediaFacts
<1>3. /\ shown \in MediaStates /\ shown.requests = media.requests /\ shown.sleeping = media.sleeping
      /\ shown.unavailable = media.unavailable
      /\ shown.state.app = media.state.app /\ shown.state.have = media.state.have
      /\ command = "toggle" /\ media.state.have =>
            /\ shown.state.playing # media.state.playing /\ shown.wish = shown.state.playing /\ shown.playHold
      /\ command # "toggle" \/ ~media.state.have =>
            /\ shown.state.playing = media.state.playing /\ shown.wish = media.wish
            /\ shown.playHold = media.playHold
  BY <1>2, ShowsFacts
<1>4. PICK q : q = Append(media.requests, command)
  OBVIOUS
<1>5. q \in Seq(Commands) /\ r = q
  BY <1>2, <1>3, <1>4
<1> HIDE DEF shown
<1>6. /\ m \in MediaStates /\ m.requests = q /\ m.sleeping = media.sleeping /\ ~m.unavailable
      /\ m.state = shown.state /\ m.wish = shown.wish /\ m.playHold = shown.playHold
  BY <1>1, <1>3, <1>5 DEF MediaStates
<1>7. PICK n : n = m
  OBVIOUS
<1> HIDE DEF m
<1>8. /\ SameMedia(n, media') /\ ~media'.sleeping
  <2>1. SameMedia(n, Roused(n, watch)) /\ ~Roused(n, watch).sleeping
    BY <1>2, <1>6, <1>7, RousedFacts DEF MediaInv, WorkerInv
  <2>2. PICK u : u = Roused(n, watch)
    OBVIOUS
  <2>3. media' = [u EXCEPT !.demand = TRUE, !.news = FALSE] /\ u \in MediaStates /\ ~u.sleeping
    BY <1>1, <1>7, <2>1, <2>2 DEF SameMedia
  <2>4. SameMedia(u, media') /\ ~media'.sleeping
    BY <2>3 DEF MediaStates, SameMedia
  <2> QED  BY <2>1, <2>2, <2>4 DEF SameMedia
<1>9. SameWatch(watch, watch') /\ watch'.at # "asleep"
  BY <1>1, <1>2, WokenFacts
<1>10. /\ media' \in MediaStates /\ media'.requests = q /\ ~media'.unavailable
       /\ media'.state = shown.state /\ media'.wish = shown.wish /\ media'.playHold = shown.playHold
  BY <1>6, <1>7, <1>8 DEF SameMedia
<1>11. /\ watch' \in WatchStates /\ watch'.batch = watch.batch /\ watch'.bits = watch.bits
       /\ watch'.session = watch.session /\ watch'.sticky = watch.sticky /\ watch'.read = watch.read
       /\ watch'.at = watch.at \/ (watch.at \in Parked /\ watch'.at = "check")
                               \/ (watch.at = "unstarted" /\ watch'.at = "asking")
  BY <1>9 DEF SameWatch
<1>12. media.state.have => media.state.app \in Apps
  BY <1>2 DEF MediaInv, WorkerInv, Snapshot
<1>13. clicked = [app |-> media.state.app, playing |-> shown.state.playing, held |-> TRUE]
  BY <1>3, <1>6
<1> HIDE DEF clicked
<1>14. meant' \in Intents
  <2>1. CASE command = "toggle" /\ media.state.have
    <3>1. clicked \in Intents
      <4>1. shown.state.playing \in BOOLEAN
        BY <1>3 DEF MediaStates, Snapshot
      <4> QED  BY <1>12, <1>13, <2>1, <4>1 DEF Intents
    <3> QED  BY <1>1, <2>1, <3>1, SnapshotFacts
  <2>2. CASE ~(command = "toggle" /\ media.state.have)
    BY <1>1, <1>3, <1>6, <2>2, MediaFacts, SnapshotFacts
  <2> QED  BY <2>1, <2>2
<1>15. presses' \in 0 .. MaxPresses
  BY <1>1, MediaFacts, MediaAssumption
<1>16. MediaTyped'
  BY <1>1, <1>10, <1>11, <1>14, <1>15, MediaFacts DEF MediaTyped, PlayersType
<1>17. WorkerInv'
  BY <1>3, <1>8, <1>9, <1>10, <1>11 DEF MediaInv, WorkerInv, Parked, Transport
<1>18. ASSUME meant' # NoIntent PROVE IntentInv'
  <2> DEFINE s == watch.batch \o media.requests
  <2>1. /\ s \in Seq(Commands) /\ watch.batch \o q = Append(s, command)
        /\ Toggles(s) <=> Toggles(watch.batch) \/ Toggles(media.requests)
        /\ Toggles(q) <=> Toggles(media.requests) \/ command = "toggle"
    <3>1. \A x, y \in Seq(Commands) :
             /\ x \o y \in Seq(Commands) /\ (Toggles(x \o y) <=> Toggles(x) \/ Toggles(y))
             /\ x \o Append(y, command) = Append(x \o y, command)
             /\ Toggles(Append(y, command)) <=> Toggles(y) \/ command = "toggle"
      BY RequestFacts
    <3> QED  BY <1>2, <1>4, <3>1
  <2>2. PICK t : t = s
    OBVIOUS
  <2>3. ASSUME NEW a \in Apps, NEW p \in BOOLEAN, NEW x \in BOOLEAN, NEW y \in BOOLEAN,
               meant'.app = a, meant'.playing = y, p = Plays(a), Takes(t, p, x),
               IF command = "toggle" THEN y # x ELSE y = x,
               owed = <<>>, watch.session = a, media.state.app = a, watch.read.have,
               players[a].st # "closed", \A z \in Apps \ {a} : ~Plays(z),
               shown.state.playing = y, shown.playHold => shown.wish = y,
               Toggles(q) /\ watch'.at \in {"run", "rest", "publish"} => shown.playHold,
               Toggles(q) \/ Toggles(watch.batch) \/ watch.read.playing = y \/ Reading'
        PROVE  IntentInv'
    <3>1. Takes(Append(t, command), p, y)
      BY <2>1, <2>2, <2>3, TakesMore
    <3>2. watch'.batch \o media'.requests = Append(t, command)
      BY <1>10, <1>11, <2>1, <2>2
    <3>3. Plays(a)' = Plays(a)
      BY <1>1 DEF Plays
    <3>4. Plays(meant.app)' = p
      BY <1>1, <2>3 DEF Plays
    <3>5. (Takes(watch.batch \o media.requests, Plays(meant.app), meant.playing))'
      BY Zenon, <2>3, <3>1, <3>2, <3>4
    <3> QED  BY <1>1, <1>3, <1>10, <1>11, <2>3, <3>5 DEF IntentInv, Plays
  <2>4. ASSUME command # "toggle" PROVE IntentInv'
    <3>1. meant' = meant /\ meant # NoIntent
      BY <1>1, <1>18, <2>4
    <3>2. meant.app \in Apps /\ meant.playing \in BOOLEAN
      BY <3>1, MeantFacts
    <3>3. PICK p \in BOOLEAN : p = Plays(meant.app)
      BY DEF Plays
    <3>4. Takes(s, Plays(meant.app), meant.playing)
      BY <3>1 DEF MediaInv, IntentInv
    <3>5. Takes(t, p, meant.playing)
      BY Zenon, <2>2, <3>3, <3>4
    <3>6. Reading => Reading'
      BY <1>11 DEF Reading, Parked, Transport
    <3>7. watch'.at \in {"run", "rest", "publish"} => watch.at \in {"run", "rest", "publish"}
      BY <1>11
    <3>8. /\ owed = <<>>
          /\ watch.session = meant.app /\ media.state.app = meant.app /\ watch.read.have
          /\ players[meant.app].st # "closed"
          /\ \A a \in Apps \ {meant.app} : ~Plays(a)
          /\ media.state.playing = meant.playing
          /\ media.playHold => media.wish = meant.playing
          /\ Toggles(media.requests) /\ watch.at \in {"run", "rest", "publish"} => media.playHold
          /\ Toggles(media.requests) \/ Toggles(watch.batch) \/ watch.read.playing = meant.playing \/ Reading
      BY <3>1 DEF MediaInv, IntentInv
    <3>9. /\ shown.state.playing = media.state.playing /\ shown.wish = media.wish
          /\ shown.playHold = media.playHold /\ (Toggles(q) <=> Toggles(media.requests))
      BY <1>3, <2>1, <2>4
    <3> HIDE DEF s
    <3> QED  BY <2>3, <2>4, <3>1, <3>2, <3>3, <3>5, <3>6, <3>7, <3>8, <3>9
  <2>5. ASSUME command = "toggle" PROVE IntentInv'
    <3>1. media.state.have /\ Truthful(media.state) /\ meant' = clicked
      BY <1>1, <1>3, <1>6, <1>18, <2>5
    <3>2. PICK a \in Apps : a = media.state.app
      BY <1>12, <3>1
    <3>3. PICK y \in BOOLEAN : y = shown.state.playing
      BY <1>3 DEF MediaStates, Snapshot
    <3>4. PICK p \in BOOLEAN : p = Plays(a)
      BY DEF Plays
    <3>5. PICK x \in BOOLEAN : x = media.state.playing
      BY <1>2 DEF Snapshot
    <3>6. /\ players[a].st # "closed" /\ watch.session = a /\ watch.read.have
          /\ \A z \in Apps \ {a} : ~Plays(z)
          /\ meant.app = a \/ (Plays(a) = x /\ ~Underway /\ owed = <<>>)
      BY <3>1, <3>2, <3>5 DEF Truthful, Plays
    <3>7. Takes(t, p, x) /\ owed = <<>>
      <4>1. CASE meant.app = a
        <5>1. meant # NoIntent
          BY <4>1, SnapshotFacts
        <5>2. Takes(s, Plays(meant.app), meant.playing) /\ media.state.playing = meant.playing /\ owed = <<>>
          BY <5>1 DEF MediaInv, IntentInv
        <5> HIDE DEF s
        <5>3. Plays(meant.app) = p
          BY <3>4, <4>1
        <5>4. meant.playing = x
          BY <3>5, <5>2
        <5> QED  BY Zenon, <2>2, <5>2, <5>3, <5>4
      <4>2. CASE Plays(a) = x /\ ~Underway /\ owed = <<>>
        <5>1. ~Toggles(t) /\ p = x
          BY <2>2, <3>4, <4>2 DEF Underway, Toggles
        <5> QED  BY <2>1, <2>2, <4>2, <5>1, TakesStill
      <4> QED  BY <3>6, <4>1, <4>2
    <3>8. meant'.app = a /\ meant'.playing = y
      BY <1>13, <3>1, <3>2, <3>3
    <3>9. y # x /\ shown.wish = y /\ shown.playHold /\ Toggles(q)
      BY <1>3, <2>1, <2>5, <3>1, <3>3, <3>5
    <3> HIDE DEF s
    <3> QED  BY <2>3, <2>5, <3>2, <3>3, <3>4, <3>6, <3>7, <3>8, <3>9
  <2> QED  BY <2>4, <2>5
<1> QED  BY <1>16, <1>17, <1>18 DEF MediaInv, IntentInv

LEMMA MediaInvInit == MediaInit => MediaInv
<1> SUFFICES ASSUME MediaInit PROVE MediaInv
  OBVIOUS
<1>1. /\ story \in Scene
      /\ players = [a \in Apps |-> [st |-> story.players[a], pos |-> 1, track |-> "x"]]
      /\ currentSession \in Apps \cup {NoPlayer} /\ owed = <<>>
      /\ media = [unavailable |-> FALSE, sleeping |-> FALSE, dirty |-> {}, requests |-> <<>>,
                  demand |-> FALSE, news |-> TRUE, state |-> NoMedia,
                  playHold |-> FALSE, placeHold |-> FALSE, wish |-> FALSE]
      /\ watch = [at |-> "unstarted", bits |-> Bits, batch |-> <<>>, session |-> NoPlayer,
                  sticky |-> NoPlayer, read |-> NoMedia, hooked |-> {}, pollDue |-> TRUE]
      /\ presses = 0 /\ meant = NoIntent
  BY MediaAssumption DEF MediaInit
<1>2. players \in PlayersType
  BY <1>1 DEF Scene, PlayersType
<1>3. media \in MediaStates /\ ~media.sleeping /\ ~media.unavailable /\ ~media.state.have
  <2>1. {} \in SUBSET Bits /\ <<>> \in Seq(Commands)
    OBVIOUS
  <2> QED  BY <1>1, <2>1, SnapshotFacts DEF MediaStates
<1>4. /\ watch \in WatchStates /\ watch.at = "unstarted" /\ watch.session = NoPlayer
      /\ watch.sticky = NoPlayer /\ watch.batch = <<>>
  <2>1. {} \in SUBSET Apps /\ <<>> \in Seq(Commands) /\ "unstarted" \in WatchSteps
    BY DEF WatchSteps
  <2> QED  BY <1>1, <2>1, SnapshotFacts DEF WatchStates
<1>5. owed \in Seq(Tellings) /\ presses \in 0 .. MaxPresses
  BY <1>1, MediaAssumption
<1> QED  BY <1>1, <1>2, <1>3, <1>4, <1>5, SnapshotFacts
         DEF MediaInv, MediaTyped, WorkerInv, IntentInv, PlayersType

LEMMA MediaInvStep == MediaInv /\ [MediaNext]_mediaVars => MediaInv'
<1> SUFFICES ASSUME MediaInv, [MediaNext]_mediaVars PROVE MediaInv'
  OBVIOUS
<1>1. CASE PlayerMoves
  BY <1>1, PlayerMovesKeeps
<1>2. CASE SlowPlayer
  BY <1>2, SlowPlayerKeeps
<1>3. CASE Work
  BY <1>3, AskManagerKeeps, TakeWorkKeeps, WaitEndsKeeps, RunRequestKeeps, ChooseKeeps,
     ReadRestKeeps, PublishReadKeeps DEF Work
<1>4. CASE ReadThrows
  BY <1>4, ReadThrowsKeeps
<1>5. CASE PollComesDue
  BY <1>5, PollComesDueKeeps
<1>6. CASE HoldsRunOut
  BY <1>6, HoldsRunOutKeeps
<1>7. CASE OpenPanel \/ LiveTick
  BY <1>7, RefreshKeeps DEF OpenPanel, LiveTick
<1>8. CASE ClosePanel
  BY <1>8, ClosePanelKeeps
<1>9. CASE DemandLapses
  BY <1>9, DemandLapsesKeeps
<1>10. CASE \E command \in Commands : Press(command) \/ KeyPress(command)
  BY <1>10, PressKeeps, KeyPressKeeps
<1>11. CASE UNCHANGED mediaVars
  <2>1. UNCHANGED <<players, currentSession, owed, media, watch, presses, meant>>
    BY <1>11 DEF mediaVars
  <2>2. media.sleeping <=> watch.at = "asleep"
    BY DEF MediaInv, WorkerInv
  <2> QED  BY <2>1, <2>2, MediaFacts, SameMediaFacts, WokenFacts, MediaLasts
<1> QED  BY <1>1, <1>2, <1>3, <1>4, <1>5, <1>6, <1>7, <1>8, <1>9, <1>10, <1>11 DEF MediaNext

LEMMA ClicksFollow == MediaInv => ClicksAreKept
<1> SUFFICES ASSUME MediaInv PROVE ClicksAreKept
  OBVIOUS
<1>1. ClickStays
  BY SnapshotFacts DEF ClickStays, MediaInv, IntentInv
<1>2. ASSUME meant # NoIntent, media.requests = <<>>, watch.batch = <<>>
      PROVE  (players[meant.app].st = "playing") = meant.playing
  <2>1. Takes(watch.batch \o media.requests, Plays(meant.app), meant.playing)
    BY <1>2 DEF MediaInv, IntentInv
  <2>2. watch.batch \o media.requests = <<>>
    BY <1>2
  <2>3. <<>> \in Seq(Commands) /\ ~Toggles(<<>>)
    BY DEF Toggles
  <2>4. Takes(<<>>, Plays(meant.app), meant.playing)
    BY <2>1, <2>2
  <2>5. Plays(meant.app) = meant.playing
    BY <2>3, <2>4, TakesNot
  <2> QED  BY <2>5 DEF Plays
<1> QED  BY <1>1, <1>2 DEF ClicksAreKept, ClickLands

LEMMA MediaTypesFollow == MediaInv => MediaTypeOK
<1> SUFFICES ASSUME MediaInv PROVE MediaTypeOK
  OBVIOUS
<1>1. /\ media.dirty \in SUBSET Bits /\ watch.hooked \in SUBSET Apps
      /\ media.sleeping <=> watch.at = "asleep"
  BY MediaFacts DEF MediaStates, WatchStates, MediaInv, WorkerInv
<1> QED  BY <1>1, MediaFacts DEF MediaTypeOK, PlayersType

-----------------------------------------------------------------------------
(* The composition: a step of it is a step of a part or leaves the part alone. *)

LEMMA EachPartSteps ==
    [BackgroundNext]_backgroundVars =>
       /\ [Next]_vars
       /\ [HotkeyNext]_hotkeyVars
       /\ [UpdateNext]_updateVars
       /\ [AccessNext]_accessVars
       /\ [MediaNext]_mediaVars
BY DEF BackgroundNext, backgroundVars

LEMMA UpdateHolds == BackgroundSpec => [](UpdateTyped /\ BoundInv)
<1>1. BackgroundInit => UpdateTyped /\ BoundInv
  BY UpdateTypedInit, BoundInit DEF BackgroundInit
<1>2. UpdateTyped /\ BoundInv /\ [BackgroundNext]_backgroundVars => (UpdateTyped /\ BoundInv)'
  BY EachPartSteps, UpdateTypedNext, BoundNext
<1> QED  BY <1>1, <1>2, PTL DEF BackgroundSpec

\* Once its thread has read its messages, a suspended dock does not have the chord, and
\* another has it unless somebody else took it first, however the start, the stop and
\* the changes of focus race the thread (SearchHotkey::Run, SetSuspended).
THEOREM ChordIsRight == BackgroundSpec => []ChordFollowsFocus
<1>1. BackgroundInit => HotkeyInv
  BY HotkeyInvInit DEF BackgroundInit
<1>2. HotkeyInv /\ [BackgroundNext]_backgroundVars => HotkeyInv'
  BY EachPartSteps, HotkeyInvNext
<1>3. HotkeyInv => ChordFollowsFocus
  BY DEF HotkeyInv, ChordInv
<1> QED  BY <1>1, <1>2, <1>3, PTL DEF BackgroundSpec

\* However stale the assets, however copies, helpers, saves and restarts interleave,
\* one version is installed at most three times a day, and three times more for each
\* thing that may lose the record (ReconcileLastUpdate, ApplyUpdateResult).
THEOREM UpdatesAreBounded == BackgroundSpec => []LoopIsBounded
<1>1. BoundInv => LoopIsBounded
  BY DEF BoundInv, TriesInv
<1> QED  BY <1>1, UpdateHolds, PTL

LEMMA AccessHolds == BackgroundSpec => []AccessInv
<1>1. BackgroundInit => AccessInv
  <2>1. ASSUME BackgroundInit PROVE AccessInv
    <3>1. AccessStart(part = "access") /\ (part = "access") \in BOOLEAN
      BY <2>1 DEF BackgroundInit
    <3> QED  BY <3>1, AccessInvInit
  <2> QED  BY <2>1
<1>2. AccessInv /\ [BackgroundNext]_backgroundVars => AccessInv'
  BY EachPartSteps, AccessInvNext
<1> QED  BY <1>1, <1>2, PTL DEF BackgroundSpec

\* What is published comes from one attempt, whatever attempts came before, wherever
\* they broke off and whichever helper answered (FileSearch.cpp, BuildIndex): no volume
\* is there twice, each is linked once, every journal is that of the volume it updates.
THEOREM IndexIsSound == BackgroundSpec => []IndexIsOfOneAttempt
<1>1. AccessInv => IndexIsOfOneAttempt
  BY DEF AccessInv
<1> QED  BY <1>1, AccessHolds, PTL

LEMMA MediaHolds == BackgroundSpec => []MediaInv
<1>1. BackgroundInit => MediaInv
  BY MediaInvInit DEF BackgroundInit
<1>2. MediaInv /\ [BackgroundNext]_backgroundVars => MediaInv'
  BY EachPartSteps, MediaInvStep
<1> QED  BY <1>1, <1>2, PTL DEF BackgroundSpec

\* However many players, clicks, moves and faults: what the last click on play or pause
\* showed stays shown while it is held, whichever older snapshot is published after it,
\* and is what the player does once the clicks have been sent, however the worker took
\* them (ControlMediaSession, PublishMediaRead).
THEOREM ClicksHold == BackgroundSpec => []ClicksAreKept
<1>1. MediaInv => ClicksAreKept
  BY ClicksFollow
<1> QED  BY <1>1, MediaHolds, PTL

\* The variables of every part keep their types: the queue of the worker and what it
\* runs, the chord, the processes and records of the update, the build, its helper and
\* their pipe, the bridge between the panel and the media worker.
THEOREM BackgroundTypesHold == BackgroundSpec => []BackgroundTypeOK
<1>1. BackgroundInit => Inv /\ HotkeyInv
  BY InitInv, HotkeyInvInit DEF BackgroundInit
<1>2. Inv /\ HotkeyInv /\ [BackgroundNext]_backgroundVars => (Inv /\ HotkeyInv)'
  BY EachPartSteps, NextInv, HotkeyInvNext
<1>3. BackgroundSpec => [](Inv /\ HotkeyInv)
  BY <1>1, <1>2, PTL DEF BackgroundSpec
<1>4. Inv /\ HotkeyInv /\ UpdateTyped /\ AccessInv /\ MediaInv => BackgroundTypeOK
  BY MediaTypesFollow DEF Inv, HotkeyInv, UpdateTyped, AccessInv, BackgroundTypeOK
<1> QED  BY <1>3, <1>4, UpdateHolds, AccessHolds, MediaHolds, PTL
===============================================================================
