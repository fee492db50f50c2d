------------------------ MODULE BluetoothLinkProofs ------------------------
(***************************************************************************)
(* The newest click for the device wins (BluetoothLink): whatever the      *)
(* number of clicks, moves of the device, faults and refreshes, and        *)
(* whatever the order in which the panel, the worker, the helper threads   *)
(* and the audio stack run.                                                *)
(*                                                                         *)
(* The invariant IInv says of the queue that no job in it contradicts the  *)
(* newest click and that a pairing is followed by it (QueueFits), and of   *)
(* the link, once no click for it waits, that the job in flight is taking  *)
(* it there, place by place, or that it is there, or that the row says     *)
(* that this failed and nothing is left that could still connect it        *)
(* (ClaimFits).  Dropping and the fold of Drain are recursive functions:   *)
(* what they return is shown by induction over the length of the queue and *)
(* over the number of events.                                              *)
(***************************************************************************)
EXTENDS BluetoothLink, FiniteSetTheorems, WellFoundedInduction, TLAPS

\* Some job of q is of one of the kinds.
Has(q, kinds) == \E i \in 1 .. Len(q) : q[i].kind \in kinds
Waits == Has(pending, LinkJobs)

ListPlaces == {"query", "queryLe", "list"}
PagePlaces == {"join", "waitReenable", "page", "waitPage", "waitToggle"}
UpPlaces == {"classify", "nudge", "waitNudge", "nudgeAgain", "waitAgain", "connectLe", "result"} \cup PagePlaces
DownPlaces == {"ks", "waitKs", "ioctl", "waitDown", "result", "reap", "reapWait", "reapDrop", "waitReapDown",
               "guard", "redrop", "waitRedrop", "after"}

\* Where the worker is in a job of each kind.
PlaceFits ==
    \/ job = BtNoJob /\ place \in {"idle", "ended"}
    \/ job.kind = "refresh" /\ place \in {"refresh", "refreshed"} \cup ListPlaces
    \/ job.kind = "radio" /\ place \in {"radio", "switched"} \cup ListPlaces
    \/ job.kind = "connect" /\ place \in {"connect"} \cup UpPlaces
    \/ job.kind = "disconnect" /\ place \in {"disconnect"} \cup DownPlaces
    \/ job.kind \in {"post", "start", "stop"} /\ place = job.kind
    \/ job.kind = "pair" /\ place \in {"pair", "prompt", "listed"} \cup ListPlaces \cup UpPlaces

\* A helper thread has steps left; the watcher reports what it sees.
Tasks == [name : {"toggle", "restore"}, steps : {<<"disable", "enable">>, <<"enable">>, <<"voice">>},
          calling : BOOLEAN, half : BOOLEAN, cancel : BOOLEAN]
Events == [gone : BOOLEAN, bonded : BOOLEAN, up : BOOLEAN]

\* Types: the device and the threads, the worker, the panel.
WorldTyped ==
    /\ setting \in SceneType
    /\ bonded \in BOOLEAN /\ link \in BOOLEAN /\ radio \in BOOLEAN /\ paging \in BOOLEAN /\ enabled \in BOOLEAN
    /\ tasks \in Seq(Tasks) /\ leftDisabled \in BOOLEAN
    /\ watching \in BOOLEAN /\ inbox \in Seq(Events)
WorkerTyped ==
    /\ pending \in Seq(BtJobs) /\ cancel \in BOOLEAN
    /\ job \in BtJobs \cup {BtNoJob}
    /\ outcome \in {"none", "reached", "cancelled", "timeout", "failed"}
    /\ got \in SUBSET {"classic", "le"}
    /\ svc \in Shown
    /\ cached \in BOOLEAN /\ suspect \in BOOLEAN /\ retries \in 0 .. MaxRetries /\ due \in BOOLEAN
PanelTyped ==
    /\ pairing \in BOOLEAN /\ running \in BOOLEAN
    /\ snap \in Shown /\ flyout \in Shown
    /\ queued \in BOOLEAN /\ kBluetoothMessage \in BOOLEAN /\ applying \in BOOLEAN
    /\ intent \in {"none", "up", "down"} /\ refused \in BOOLEAN
WellTyped == WorldTyped /\ WorkerTyped /\ PanelTyped

\* Only an audio device has service helper threads.
HelpersFit ==
    /\ ~Audio => tasks = <<>> /\ ~Has(pending, {"post"}) /\ job.kind # "post"
    /\ place \in PagePlaces => Audio
    /\ place \in {"nudge", "waitNudge", "nudgeAgain", "waitAgain"} => ~Audio
    /\ place = "connectLe" => ~Classic

\* What no click asked for comes last; the radio's jobs are where they were queued.
Ordered(q) ==
    \A i, k \in 1 .. Len(q) :
        i < k /\ q[i].kind \notin UserJobs => q[k].kind \notin UserJobs \ {"radio"}
\* A pairing is followed by a click for the link.
PairFollowed(q) ==
    \A i \in 1 .. Len(q) : q[i].kind = "pair" => \E k \in (i + 1) .. Len(q) : q[k].kind \in LinkJobs

\* What waits and what is in flight are what the newest click wants.
QueueFits ==
    /\ Ordered(pending)
    /\ intent = "up" => ~Has(pending, {"disconnect"})
    /\ intent = "down" => ~Has(pending, {"connect"})
    /\ intent # "none" => PairFollowed(pending)
    /\ intent # "none" /\ ~Waits => job.kind # "pair"
    /\ intent = "up" /\ ~Waits => job.kind # "disconnect"
    /\ intent = "down" /\ ~Waits => job.kind # "connect"
    /\ running /\ cancel /\ job.kind \in LinkJobs => Waits

Still == ~paging /\ tasks = <<>>

\* How far the newest click has got, once its job has left the queue.
DownUnderWay ==
    /\ job.kind # "disconnect" => (link /\ svc.error) \/ (~link /\ ~svc.error /\ Still)
    /\ job.kind = "disconnect" =>
        /\ place # "disconnect" => ~svc.error
        /\ place = "result" => outcome \in {"reached", "timeout"} /\ (outcome = "timeout" => link)
        /\ (place = "result" /\ outcome = "reached")
           \/ place \in {"reap", "reapWait", "reapDrop", "waitReapDown", "guard"} => (link => ~paging)
        /\ place \in {"reapDrop", "waitReapDown", "guard"} => tasks = <<>>
        /\ place = "redrop" => Still
        /\ place \in {"waitRedrop", "after"} => ~link /\ Still
UpUnderWay ==
    /\ job.kind # "connect" => (link /\ ~svc.error) \/ (~link /\ svc.error /\ Still)
    /\ job.kind = "connect" =>
        /\ place # "connect" => ~svc.error
        /\ place = "result" => (outcome = "reached" /\ link) \/ (outcome = "timeout" /\ ~link /\ Still)
        /\ place \in {"page", "waitPage"} => tasks = <<>>
\* The newest click was for a device whose link is watched, and Windows refused nothing.
Owed == running /\ ~refused /\ Classic /\ ~Waits
ClaimFits == Owed => (intent = "down" => DownUnderWay) /\ (intent = "up" => UpUnderWay)

\* The inductive invariant.
IInv == WellTyped /\ PlaceFits /\ HelpersFit /\ QueueFits /\ ClaimFits

\* Every set of numbers that is not empty has a least one.
LEMMA LeastNatural ==
    ASSUME NEW T \in SUBSET Nat, T # {}
    PROVE  \E m \in T : \A n \in T : m <= n
<1> DEFINE R == OpToRel(<, Nat)
<1>1. IsWellFoundedOn(R, Nat)
  BY NatLessThanWellFounded
<1> HIDE DEF R
<1>2. PICK m \in T : \A n \in T : ~(<<n, m>> \in R)
  BY <1>1, WFMin
<1>3. ASSUME NEW n \in T PROVE m <= n
  <2>1. <<n, m>> \notin R
    BY <1>2
  <2>2. ~(n < m)
    BY <2>1 DEF R, OpToRel
  <2> QED BY <2>2
<1> QED BY <1>2, <1>3

\* A set that has 0, and the successor of each of its numbers, has them all.
LEMMA Induct ==
    ASSUME NEW T \in SUBSET Nat, 0 \in T, \A n \in T : n + 1 \in T
    PROVE  T = Nat
<1> SUFFICES ASSUME Nat \ T # {} PROVE FALSE
  OBVIOUS
<1>1. PICK m \in Nat \ T : \A n \in Nat \ T : m <= n
  BY LeastNatural
<1>2. m # 0 /\ m - 1 \in Nat /\ m - 1 \in T
  BY <1>1
<1> QED BY <1>2, <1>1

-----------------------------------------------------------------------------
(* The queue. *)

\* The function by which Dropping goes through q, up to n jobs.
IsKept(g, q, kinds, n) ==
    g = [m \in 0 .. n |->
            IF m = 0 THEN <<>>
            ELSE IF q[m].kind \in kinds THEN g[m - 1] ELSE Append(g[m - 1], q[m])]
KeptOf(q, kinds) == CHOOSE g : IsKept(g, q, kinds, Len(q))

LEMMA DroppingIsKept ==
    ASSUME NEW q, NEW kinds
    PROVE  Dropping(q, kinds) = KeptOf(q, kinds)[Len(q)]
  BY DEF Dropping, KeptOf, IsKept

LEMMA KeptExists ==
    ASSUME NEW q, NEW kinds, NEW n \in Nat
    PROVE  \E g : IsKept(g, q, kinds, n)
<1> DEFINE T == {m \in Nat : \E g : IsKept(g, q, kinds, m)}
<1>1. 0 \in T
  <2> DEFINE g == [m \in 0 .. 0 |-> <<>>]
  <2>1. IsKept(g, q, kinds, 0)
    BY DEF IsKept
  <2> QED BY <2>1
<1>2. ASSUME NEW m \in T PROVE m + 1 \in T
  <2>1. PICK g : IsKept(g, q, kinds, m)
    OBVIOUS
  <2> DEFINE last == IF q[m + 1].kind \in kinds THEN g[m] ELSE Append(g[m], q[m + 1])
  <2> DEFINE h == [k \in 0 .. (m + 1) |-> IF k = m + 1 THEN last ELSE g[k]]
  <2>2. \A k \in 0 .. (m + 1) :
           h[k] = IF k = 0 THEN <<>>
                  ELSE IF q[k].kind \in kinds THEN h[k - 1] ELSE Append(h[k - 1], q[k])
    <3> TAKE k \in 0 .. (m + 1)
    <3>1. CASE k = m + 1
      <4>1. h[k - 1] = g[m] /\ h[k] = last /\ k # 0
        BY <3>1
      <4> QED BY <3>1, <4>1
    <3>2. CASE k \in 0 .. m
      <4>1. h[k] = g[k] /\ (k # 0 => h[k - 1] = g[k - 1])
        BY <3>2
      <4> HIDE DEF h
      <4>2. g[k] = IF k = 0 THEN <<>>
                   ELSE IF q[k].kind \in kinds THEN g[k - 1] ELSE Append(g[k - 1], q[k])
        BY <2>1, <3>2 DEF IsKept
      <4> QED BY <4>1, <4>2
    <3> QED BY <3>1, <3>2
  <2>3. IsKept(h, q, kinds, m + 1)
    <3>1. h = [k \in 0 .. (m + 1) |-> h[k]]
      OBVIOUS
    <3> HIDE DEF h
    <3> QED BY <2>2, <3>1 DEF IsKept
  <2> QED BY <2>3
<1>3. T = Nat
  <2> HIDE DEF T
  <2>1. T \in SUBSET Nat
    BY DEF T
  <2> QED BY <1>1, <1>2, <2>1, Induct
<1> QED BY <1>3

\* d has the jobs of q that are of no kind in kinds, in their order: f says where each was.
Places(d, q, n, kinds, f) ==
    /\ f \in [1 .. Len(d) -> 1 .. n]
    /\ \A i, k \in 1 .. Len(d) : i < k => f[i] < f[k]
    /\ \A i \in 1 .. Len(d) : d[i] = q[f[i]] /\ d[i].kind \notin kinds
    /\ \A k \in 1 .. n : q[k].kind \notin kinds => \E i \in 1 .. Len(d) : f[i] = k

LEMMA PlacesAppend ==
    ASSUME NEW q \in Seq(BtJobs), NEW kinds, NEW n \in Nat, n + 1 <= Len(q),
           NEW d \in Seq(BtJobs), NEW f, Places(d, q, n, kinds, f),
           q[n + 1].kind \notin kinds
    PROVE  /\ Append(d, q[n + 1]) \in Seq(BtJobs)
           /\ \E h : Places(Append(d, q[n + 1]), q, n + 1, kinds, h)
<1> DEFINE e == Append(d, q[n + 1])
<1> DEFINE h == [i \in 1 .. Len(e) |-> IF i = Len(e) THEN n + 1 ELSE f[i]]
<1>1. q[n + 1] \in BtJobs
  OBVIOUS
<1>2. /\ e \in Seq(BtJobs) /\ Len(e) = Len(d) + 1 /\ Len(d) \in Nat
      /\ e[Len(e)] = q[n + 1] /\ \A i \in 1 .. Len(d) : e[i] = d[i]
  BY <1>1
<1> HIDE DEF e
<1>3. h[Len(e)] = n + 1 /\ \A i \in 1 .. Len(d) : h[i] = f[i] /\ f[i] \in 1 .. n
  BY <1>2 DEF Places
<1>4. h \in [1 .. Len(e) -> 1 .. (n + 1)]
  BY <1>2 DEF Places
<1> HIDE DEF h
<1>5. \A i, k \in 1 .. Len(e) : i < k => h[i] < h[k]
  <2> SUFFICES ASSUME NEW i \in 1 .. Len(e), NEW k \in 1 .. Len(e), i < k PROVE h[i] < h[k]
    OBVIOUS
  <2>1. CASE k = Len(e)
    BY <1>2, <1>3, <2>1
  <2>2. CASE k \in 1 .. Len(d)
    <3>1. i \in 1 .. Len(d)
      BY <1>2, <2>2
    <3>2. f[i] < f[k]
      BY <2>2, <3>1 DEF Places
    <3> QED BY <1>3, <2>2, <3>1, <3>2
  <2> QED BY <1>2, <2>1, <2>2
<1>6. \A i \in 1 .. Len(e) : e[i] = q[h[i]] /\ e[i].kind \notin kinds
  <2> TAKE i \in 1 .. Len(e)
  <2>1. CASE i = Len(e)
    BY <1>2, <1>3, <2>1
  <2>2. CASE i \in 1 .. Len(d)
    <3>1. d[i] = q[f[i]] /\ d[i].kind \notin kinds
      BY <2>2 DEF Places
    <3> QED BY <1>2, <1>3, <2>2, <3>1
  <2> QED BY <1>2, <2>1, <2>2
<1>7. \A k \in 1 .. (n + 1) : q[k].kind \notin kinds => \E i \in 1 .. Len(e) : h[i] = k
  <2> TAKE k \in 1 .. (n + 1)
  <2>1. CASE k = n + 1
    BY <1>2, <1>3, <2>1
  <2>2. CASE k \in 1 .. n
    BY <1>2, <1>3, <2>2 DEF Places
  <2> QED BY <2>1, <2>2
<1>8. Places(e, q, n + 1, kinds, h)
  BY <1>4, <1>5, <1>6, <1>7 DEF Places
<1> QED BY <1>2, <1>8 DEF e

LEMMA DroppingPlaces ==
    ASSUME NEW q \in Seq(BtJobs), NEW kinds
    PROVE  /\ Dropping(q, kinds) \in Seq(BtJobs)
           /\ \E f : Places(Dropping(q, kinds), q, Len(q), kinds, f)
<1> DEFINE g == KeptOf(q, kinds)
<1>1. IsKept(g, q, kinds, Len(q))
  BY KeptExists DEF KeptOf
<1> HIDE DEF g
<1> DEFINE T == {n \in Nat : n <= Len(q) => /\ g[n] \in Seq(BtJobs)
                                            /\ \E f : Places(g[n], q, n, kinds, f)}
<1>2. 0 \in T
  <2>1. g[0] = <<>>
    BY <1>1 DEF IsKept
  <2>2. Places(<<>>, q, 0, kinds, [i \in 1 .. 0 |-> 0])
    BY DEF Places
  <2>3. g[0] \in Seq(BtJobs) /\ \E f : Places(g[0], q, 0, kinds, f)
    BY <2>1, <2>2
  <2> QED BY <2>3
<1>3. ASSUME NEW n \in T PROVE n + 1 \in T
  <2> SUFFICES ASSUME n + 1 <= Len(q)
               PROVE  /\ g[n + 1] \in Seq(BtJobs)
                      /\ \E f : Places(g[n + 1], q, n + 1, kinds, f)
    OBVIOUS
  <2>1. /\ g[n] \in Seq(BtJobs) /\ n \in Nat
        /\ \E f : Places(g[n], q, n, kinds, f)
    OBVIOUS
  <2>2. PICK f : Places(g[n], q, n, kinds, f)
    BY <2>1
  <2>3. g[n + 1] = IF q[n + 1].kind \in kinds THEN g[n] ELSE Append(g[n], q[n + 1])
    <3>1. n + 1 \in 0 .. Len(q) /\ n + 1 # 0 /\ (n + 1) - 1 = n
      BY <2>1
    <3>2. \A m \in 0 .. Len(q) :
             g[m] = IF m = 0 THEN <<>>
                    ELSE IF q[m].kind \in kinds THEN g[m - 1] ELSE Append(g[m - 1], q[m])
      BY <1>1 DEF IsKept
    <3> QED BY <3>1, <3>2
  <2>4. CASE q[n + 1].kind \in kinds
    <3>1. Places(g[n], q, n + 1, kinds, f)
      BY <2>1, <2>2, <2>4 DEF Places
    <3> QED BY <2>1, <2>3, <2>4, <3>1
  <2>5. CASE q[n + 1].kind \notin kinds
    BY <2>1, <2>2, <2>3, <2>5, PlacesAppend
  <2> QED BY <2>4, <2>5
<1>4. T = Nat
  <2> HIDE DEF T
  <2>1. T \in SUBSET Nat
    BY DEF T
  <2> QED BY <1>2, <1>3, <2>1, Induct
<1> QED BY <1>4, DroppingIsKept DEF g

\* What Dropping does to the order and the kinds of a queue.
LEMMA DroppingFits ==
    ASSUME NEW q \in Seq(BtJobs), NEW kinds
    PROVE  LET d == Dropping(q, kinds)
           IN /\ d \in Seq(BtJobs)
              /\ Ordered(q) => Ordered(d)
              /\ \A ks : Has(d, ks) <=> Has(q, ks \ kinds)
              /\ kinds \cap LinkJobs = {} /\ PairFollowed(q) => PairFollowed(d)
<1> DEFINE d == Dropping(q, kinds)
<1>1. d \in Seq(BtJobs) /\ \E f : Places(d, q, Len(q), kinds, f)
  BY DroppingPlaces
<1>2. PICK f : Places(d, q, Len(q), kinds, f)
  BY <1>1
<1> HIDE DEF d
<1>3. /\ Len(d) \in Nat /\ Len(q) \in Nat
      /\ \A i \in 1 .. Len(d) : f[i] \in 1 .. Len(q) /\ d[i] = q[f[i]] /\ d[i].kind \notin kinds
      /\ \A i, k \in 1 .. Len(d) : i < k => f[i] < f[k]
      /\ \A k \in 1 .. Len(q) : q[k].kind \notin kinds => \E i \in 1 .. Len(d) : f[i] = k
  BY <1>1, <1>2 DEF Places
<1>4. Ordered(q) => Ordered(d)
  BY <1>3 DEF Ordered
<1>5. ASSUME NEW ks PROVE Has(d, ks) <=> Has(q, ks \ kinds)
  <2>1. ASSUME Has(d, ks) PROVE Has(q, ks \ kinds)
    <3>1. PICK i \in 1 .. Len(d) : d[i].kind \in ks
      BY <2>1 DEF Has
    <3>2. q[f[i]].kind \in ks \ kinds /\ f[i] \in 1 .. Len(q)
      BY <1>3, <3>1
    <3> QED BY <3>2 DEF Has
  <2>2. ASSUME Has(q, ks \ kinds) PROVE Has(d, ks)
    <3>1. PICK k \in 1 .. Len(q) : q[k].kind \in ks \ kinds
      BY <2>2 DEF Has
    <3>2. PICK i \in 1 .. Len(d) : f[i] = k
      BY <1>3, <3>1
    <3>3. d[i].kind \in ks
      BY <1>3, <3>1, <3>2
    <3> QED BY <3>3 DEF Has
  <2> QED BY <2>1, <2>2
<1>6. ASSUME kinds \cap LinkJobs = {}, PairFollowed(q) PROVE PairFollowed(d)
  <2> SUFFICES ASSUME NEW i \in 1 .. Len(d), d[i].kind = "pair"
               PROVE  \E k \in (i + 1) .. Len(d) : d[k].kind \in LinkJobs
    BY DEF PairFollowed
  <2>1. f[i] \in 1 .. Len(q) /\ q[f[i]].kind = "pair"
    BY <1>3
  <2>2. PICK m \in (f[i] + 1) .. Len(q) : q[m].kind \in LinkJobs
    BY <1>6, <2>1 DEF PairFollowed
  <2>3. m \in 1 .. Len(q) /\ f[i] < m /\ q[m].kind \notin kinds
    BY <1>3, <1>6, <2>1, <2>2
  <2>4. PICK k \in 1 .. Len(d) : f[k] = m
    BY <1>3, <2>3
  <2>5. d[k].kind \in LinkJobs
    BY <1>3, <2>2, <2>4
  <2>6. i < k
    <3>1. k # i
      BY <2>3, <2>4
    <3>2. ~(k < i)
      <4> SUFFICES ASSUME k < i PROVE FALSE
        OBVIOUS
      <4>1. f[k] < f[i]
        BY <1>3
      <4> QED BY <4>1, <2>3, <2>4, <2>1
    <3> QED BY <3>1, <3>2
  <2> QED BY <1>3, <2>5, <2>6
<1> QED BY <1>1, <1>4, <1>5, <1>6 DEF d

\* What InsertAt leaves where.
LEMMA InsertAtFits ==
    ASSUME NEW q \in Seq(BtJobs), NEW n \in 1 .. (Len(q) + 1), NEW j \in BtJobs
    PROVE  LET a == InsertAt(q, n, j)
           IN /\ a \in Seq(BtJobs) /\ Len(a) = Len(q) + 1
              /\ \A i \in 1 .. (n - 1) : a[i] = q[i]
              /\ a[n] = j
              /\ \A i \in (n + 1) .. (Len(q) + 1) : a[i] = q[i - 1]
<1> DEFINE l == SubSeq(q, 1, n - 1)
<1> DEFINE r == SubSeq(q, n, Len(q))
<1>1. /\ l \in Seq(BtJobs) /\ Len(l) = n - 1
      /\ \A i \in 1 .. (n - 1) : l[i] = q[i]
  OBVIOUS
<1>2. /\ r \in Seq(BtJobs) /\ Len(r) = Len(q) - n + 1
      /\ \A i \in 1 .. (Len(q) - n + 1) : r[i] = q[n + i - 1]
  OBVIOUS
<1> HIDE DEF l, r
<1> DEFINE m == l \o <<j>>
<1>3. /\ m \in Seq(BtJobs) /\ Len(m) = n /\ m[n] = j
      /\ \A i \in 1 .. (n - 1) : m[i] = q[i]
  BY <1>1
<1> HIDE DEF m
<1> DEFINE a == m \o r
<1>4. a \in Seq(BtJobs) /\ Len(a) = Len(q) + 1
  <2>1. a \in Seq(BtJobs) /\ Len(a) = Len(m) + Len(r)
    <3>1. m \in Seq(BtJobs) /\ r \in Seq(BtJobs)
      BY <1>2, <1>3
    <3> QED BY <3>1
  <2>2. Len(m) + Len(r) = Len(q) + 1
    BY <1>2, <1>3
  <2> QED BY <2>1, <2>2
<1>5. \A i \in 1 .. n : a[i] = m[i]
  BY <1>2, <1>3
<1>6. \A i \in (n + 1) .. (Len(q) + 1) : a[i] = q[i - 1]
  <2> TAKE i \in (n + 1) .. (Len(q) + 1)
  <2>1. a[i] = r[i - n]
    BY <1>2, <1>3
  <2>2. i - n \in 1 .. (Len(q) - n + 1)
    OBVIOUS
  <2>3. r[i - n] = q[n + (i - n) - 1]
    BY <1>2, <2>2
  <2> QED BY <2>1, <2>3
<1>7. a = InsertAt(q, n, j)
  BY DEF InsertAt, a, m, l, r
<1> HIDE DEF a
<1> QED BY <1>3, <1>4, <1>5, <1>6, <1>7

\* A job that jumps the queue stops before the first that no click asked for.
LEMMA AheadFits ==
    ASSUME NEW q \in Seq(BtJobs), Ordered(q), NEW j \in BtJobs, j.kind \in UserJobs \ {"radio"}
    PROVE  LET a == Ahead(q, j)
           IN /\ a \in Seq(BtJobs) /\ Ordered(a)
              /\ \A ks : Has(a, ks) <=> Has(q, ks) \/ j.kind \in ks
              /\ j.kind # "pair" /\ PairFollowed(q) => PairFollowed(a)
              /\ j.kind \in LinkJobs => PairFollowed(a)
<1> DEFINE others == {i \in 1 .. Len(q) : q[i].kind \notin UserJobs}
<1> DEFINE n == IF others = {} THEN Len(q) + 1 ELSE Min(others)
<1>1. /\ n \in 1 .. (Len(q) + 1)
      /\ \A i \in 1 .. (n - 1) : q[i].kind \in UserJobs
      /\ n <= Len(q) => q[n].kind \notin UserJobs
  <2>1. CASE others = {}
    BY <2>1
  <2>2. CASE others # {}
    <3>1. others \in SUBSET Nat
      OBVIOUS
    <3>2. \E m \in others : \A i \in others : m <= i
      BY <2>2, <3>1, LeastNatural
    <3>3. Min(others) \in others /\ \A i \in others : Min(others) <= i
      <4> HIDE DEF others
      <4> QED BY <3>2 DEF Min
    <3> DEFINE m == Min(others)
    <3>4. n = m
      BY <2>2
    <3> HIDE DEF m, n
    <3>5. m \in 1 .. Len(q) /\ q[m].kind \notin UserJobs /\ \A i \in others : m <= i
      BY <3>3 DEF m
    <3>6. \A i \in 1 .. (m - 1) : q[i].kind \in UserJobs
      BY <3>5
    <3> QED BY <3>4, <3>5, <3>6
  <2> QED BY <2>1, <2>2
<1> DEFINE a == Ahead(q, j)
<1>2. a = InsertAt(q, n, j)
  BY DEF Ahead
<1> HIDE DEF n, a
<1>3. /\ a \in Seq(BtJobs) /\ Len(a) = Len(q) + 1 /\ Len(q) \in Nat
      /\ \A i \in 1 .. (n - 1) : a[i] = q[i]
      /\ a[n] = j
      /\ \A i \in (n + 1) .. (Len(q) + 1) : a[i] = q[i - 1]
  BY <1>1, <1>2, InsertAtFits
<1>4. \A i \in n .. Len(q) : q[i].kind \notin UserJobs \ {"radio"}
  <2> TAKE i \in n .. Len(q)
  <2>1. n \in 1 .. Len(q) /\ i \in 1 .. Len(q) /\ q[n].kind \notin UserJobs
    BY <1>1, <1>3
  <2>2. CASE i = n
    BY <2>1, <2>2
  <2>3. CASE n < i
    BY <2>1, <2>3 DEF Ordered
  <2> QED BY <2>1, <2>2, <2>3
<1>5. Ordered(a)
  <2> SUFFICES ASSUME NEW i \in 1 .. Len(a), NEW k \in 1 .. Len(a), i < k, a[i].kind \notin UserJobs
               PROVE  a[k].kind \notin UserJobs \ {"radio"}
    BY DEF Ordered
  <2>1. i > n
    <3>1. i # n
      BY <1>3
    <3>2. ~(i < n)
      BY <1>1, <1>3
    <3> QED BY <1>1, <3>1, <3>2
  <2>2. k \in (n + 1) .. (Len(q) + 1) /\ k - 1 \in n .. Len(q)
    BY <1>1, <1>3, <2>1
  <2> QED BY <1>3, <1>4, <2>2
<1>6. ASSUME NEW ks PROVE Has(a, ks) <=> Has(q, ks) \/ j.kind \in ks
  <2>1. ASSUME Has(a, ks), j.kind \notin ks PROVE Has(q, ks)
    <3>1. PICK i \in 1 .. Len(a) : a[i].kind \in ks
      BY <2>1 DEF Has
    <3>2. CASE i \in 1 .. (n - 1)
      <4>1. i \in 1 .. Len(q) /\ q[i].kind \in ks
        BY <1>1, <1>3, <3>1, <3>2
      <4> QED BY <4>1 DEF Has
    <3>3. CASE i \in (n + 1) .. (Len(q) + 1)
      <4>1. i - 1 \in 1 .. Len(q) /\ q[i - 1].kind \in ks
        BY <1>1, <1>3, <3>1, <3>3
      <4> QED BY <4>1 DEF Has
    <3>4. i # n
      BY <1>3, <2>1, <3>1
    <3> QED BY <1>1, <1>3, <3>2, <3>3, <3>4
  <2>2. ASSUME Has(q, ks) PROVE Has(a, ks)
    <3>1. PICK i \in 1 .. Len(q) : q[i].kind \in ks
      BY <2>2 DEF Has
    <3>2. CASE i < n
      <4>1. i \in 1 .. Len(a) /\ a[i].kind \in ks
        BY <1>1, <1>3, <3>1, <3>2
      <4> QED BY <4>1 DEF Has
    <3>3. CASE ~(i < n)
      <4>1. i + 1 \in (n + 1) .. (Len(q) + 1)
        BY <1>1, <1>3, <3>3
      <4>2. a[i + 1] = q[(i + 1) - 1]
        BY <1>3, <4>1
      <4>3. i + 1 \in 1 .. Len(a) /\ a[i + 1].kind \in ks
        BY <1>3, <3>1, <4>2
      <4> QED BY <4>3 DEF Has
    <3> QED BY <3>2, <3>3
  <2>3. j.kind \in ks => Has(a, ks)
    BY <1>1, <1>3 DEF Has
  <2> QED BY <2>1, <2>2, <2>3
<1>7. \A i \in 1 .. Len(a) : a[i].kind = "pair" => i <= n
  <2> TAKE i \in 1 .. Len(a)
  <2> SUFFICES ASSUME n < i PROVE a[i].kind # "pair"
    BY <1>1, <1>3
  <2>1. i \in (n + 1) .. (Len(q) + 1) /\ i - 1 \in n .. Len(q)
    BY <1>1, <1>3
  <2> QED BY <1>3, <1>4, <2>1 DEF UserJobs
<1>8. ASSUME j.kind \in LinkJobs PROVE PairFollowed(a)
  <2> SUFFICES ASSUME NEW i \in 1 .. Len(a), a[i].kind = "pair"
               PROVE  \E k \in (i + 1) .. Len(a) : a[k].kind \in LinkJobs
    BY DEF PairFollowed
  <2>1. i < n
    <3>1. i # n
      BY <1>3, <1>8 DEF LinkJobs
    <3> QED BY <1>1, <1>3, <1>7, <3>1
  <2>2. n \in (i + 1) .. Len(a)
    BY <1>1, <1>3, <2>1
  <2> QED BY <1>3, <1>8, <2>2
<1>9. ASSUME j.kind # "pair", PairFollowed(q) PROVE PairFollowed(a)
  <2> SUFFICES ASSUME NEW i \in 1 .. Len(a), a[i].kind = "pair"
               PROVE  \E k \in (i + 1) .. Len(a) : a[k].kind \in LinkJobs
    BY DEF PairFollowed
  <2>1. i < n
    <3>1. i # n
      BY <1>3, <1>9
    <3> QED BY <1>1, <1>3, <1>7, <3>1
  <2>2. i \in 1 .. Len(q) /\ q[i].kind = "pair"
    BY <1>1, <1>3, <2>1
  <2>3. PICK m \in (i + 1) .. Len(q) : q[m].kind \in LinkJobs
    BY <1>9, <2>2 DEF PairFollowed
  <2>4. m < n
    <3> SUFFICES ASSUME ~(m < n) PROVE FALSE
      OBVIOUS
    <3>1. m \in n .. Len(q)
      BY <1>1, <2>3
    <3> QED BY <1>4, <2>3, <3>1 DEF LinkJobs, UserJobs
  <2>5. m \in (i + 1) .. Len(a) /\ a[m].kind \in LinkJobs
    BY <1>1, <1>3, <2>3, <2>4
  <2> QED BY <2>5
<1> QED BY <1>3, <1>5, <1>6, <1>8, <1>9 DEF a

\* A job that waits its turn is appended.
LEMMA AppendFits ==
    ASSUME NEW q \in Seq(BtJobs), Ordered(q), NEW j \in BtJobs, j.kind \notin LinkJobs \cup SearchJobs \cup {"pair"}
    PROVE  LET a == Append(q, j)
           IN /\ a \in Seq(BtJobs) /\ Ordered(a)
              /\ \A ks : Has(a, ks) <=> Has(q, ks) \/ j.kind \in ks
              /\ PairFollowed(q) => PairFollowed(a)
<1> DEFINE a == Append(q, j)
<1>1. /\ a \in Seq(BtJobs) /\ Len(a) = Len(q) + 1 /\ Len(q) \in Nat
      /\ \A i \in 1 .. Len(q) : a[i] = q[i]
      /\ a[Len(a)] = j
  OBVIOUS
<1> HIDE DEF a
<1>2. Ordered(a)
  <2> SUFFICES ASSUME NEW i \in 1 .. Len(a), NEW k \in 1 .. Len(a), i < k, a[i].kind \notin UserJobs
               PROVE  a[k].kind \notin UserJobs \ {"radio"}
    BY DEF Ordered
  <2>1. CASE k = Len(a)
    BY <1>1, <2>1 DEF UserJobs, LinkJobs, SearchJobs
  <2>2. CASE k \in 1 .. Len(q)
    <3>1. i \in 1 .. Len(q) /\ a[i] = q[i] /\ a[k] = q[k]
      BY <1>1, <2>2
    <3> QED BY <2>2, <3>1 DEF Ordered
  <2> QED BY <1>1, <2>1, <2>2
<1>3. ASSUME NEW ks PROVE Has(a, ks) <=> Has(q, ks) \/ j.kind \in ks
  BY <1>1 DEF Has
<1>4. ASSUME PairFollowed(q) PROVE PairFollowed(a)
  <2> SUFFICES ASSUME NEW i \in 1 .. Len(a), a[i].kind = "pair"
               PROVE  \E k \in (i + 1) .. Len(a) : a[k].kind \in LinkJobs
    BY DEF PairFollowed
  <2>1. i \in 1 .. Len(q) /\ q[i].kind = "pair"
    BY <1>1
  <2>2. PICK k \in (i + 1) .. Len(q) : q[k].kind \in LinkJobs
    BY <1>4, <2>1 DEF PairFollowed
  <2>3. k \in (i + 1) .. Len(a) /\ a[k] = q[k]
    BY <1>1, <2>1, <2>2
  <2> QED BY <2>2, <2>3
<1> QED BY <1>1, <1>2, <1>3, <1>4 DEF a

\* Refreshes are merged where the first of them waits.
LEMMA MergeFits ==
    ASSUME NEW q \in Seq(BtJobs), Ordered(q), NEW j \in BtJobs
    PROVE  LET a == [i \in 1 .. Len(q) |->
                        IF q[i].kind = "refresh" THEN JobOf("refresh", q[i].on \/ j.on) ELSE q[i]]
           IN /\ a \in Seq(BtJobs) /\ Ordered(a)
              /\ \A ks : Has(a, ks) <=> Has(q, ks)
              /\ PairFollowed(q) => PairFollowed(a)
<1> DEFINE a == [i \in 1 .. Len(q) |->
                    IF q[i].kind = "refresh" THEN JobOf("refresh", q[i].on \/ j.on) ELSE q[i]]
<1>1. \A i \in 1 .. Len(q) : a[i] \in BtJobs /\ a[i].kind = q[i].kind
  <2> TAKE i \in 1 .. Len(q)
  <2>1. q[i] \in BtJobs
    OBVIOUS
  <2>2. CASE q[i].kind = "refresh"
    <3>1. a[i] = JobOf("refresh", q[i].on \/ j.on)
      BY <2>2
    <3>2. q[i].on \in BOOLEAN /\ j.on \in BOOLEAN
      BY <2>1 DEF BtJobs, JobOf
    <3>3. (q[i].on \/ j.on) \in BOOLEAN
      BY <3>2
    <3> HIDE DEF a
    <3> QED BY <2>2, <3>1, <3>3 DEF BtJobs, JobOf, JobKinds
  <2> QED BY <2>1, <2>2
<1>2. Len(q) \in Nat /\ a = [i \in 1 .. Len(q) |-> a[i]]
  OBVIOUS
<1> HIDE DEF a
<1>3. a \in Seq(BtJobs) /\ Len(a) = Len(q)
  <2>1. a \in [1 .. Len(q) -> BtJobs]
    BY <1>1, <1>2
  <2> QED BY <1>2, <2>1
<1>4. Ordered(a)
  BY <1>1, <1>3 DEF Ordered
<1>5. ASSUME NEW ks PROVE Has(a, ks) <=> Has(q, ks)
  BY <1>1, <1>3 DEF Has
<1>6. ASSUME PairFollowed(q) PROVE PairFollowed(a)
  <2> SUFFICES ASSUME NEW i \in 1 .. Len(a), a[i].kind = "pair"
               PROVE  \E k \in (i + 1) .. Len(a) : a[k].kind \in LinkJobs
    BY DEF PairFollowed
  <2>1. i \in 1 .. Len(q) /\ q[i].kind = "pair"
    BY <1>1, <1>3
  <2>2. PICK k \in (i + 1) .. Len(q) : q[k].kind \in LinkJobs
    BY <1>6, <2>1 DEF PairFollowed
  <2>3. k \in 1 .. Len(q) /\ k \in (i + 1) .. Len(a)
    BY <1>2, <1>3, <2>1, <2>2
  <2> QED BY <1>1, <2>2, <2>3
<1> QED BY <1>3, <1>4, <1>5, <1>6 DEF a

\* A click for the link is the only one for it that is left.
LEMMA EnqueueLink ==
    ASSUME NEW q \in Seq(BtJobs), Ordered(q), NEW j \in BtJobs, j.kind \in LinkJobs
    PROVE  LET r == Enqueue(q, j)
           IN /\ r \in Seq(BtJobs) /\ Ordered(r) /\ PairFollowed(r)
              /\ Has(r, LinkJobs)
              /\ \A k \in LinkJobs \ {j.kind} : ~Has(r, {k})
              /\ ~Has(r, {"post"})
<1> DEFINE d == Dropping(q, LinkJobs \cup {"post"})
<1> DEFINE r == Enqueue(q, j)
<1>1. r = Ahead(d, j)
  BY DEF Enqueue, SearchJobs, LinkJobs
<1>2. d \in Seq(BtJobs) /\ Ordered(d) /\ \A ks : Has(d, ks) <=> Has(q, ks \ (LinkJobs \cup {"post"}))
  BY DroppingFits
<1> HIDE DEF d, r
<1>3. /\ r \in Seq(BtJobs) /\ Ordered(r) /\ PairFollowed(r)
      /\ \A ks : Has(r, ks) <=> Has(d, ks) \/ j.kind \in ks
  <2>1. j.kind \in UserJobs \ {"radio"}
    BY DEF LinkJobs, UserJobs
  <2> QED BY <1>1, <1>2, <2>1, AheadFits
<1>4. ASSUME NEW k \in (LinkJobs \ {j.kind}) \cup {"post"} PROVE ~Has(r, {k})
  <2>1. ~(j.kind \in {k})
    BY <1>4 DEF LinkJobs
  <2>2. {k} \ (LinkJobs \cup {"post"}) = {}
    OBVIOUS
  <2>3. ~Has(q, {})
    BY DEF Has
  <2> QED BY <1>2, <1>3, <2>1, <2>2, <2>3
<1> QED BY <1>3, <1>4 DEF r

\* Any other job leaves the clicks for the link where they are.
LEMMA EnqueueOther ==
    ASSUME NEW q \in Seq(BtJobs), Ordered(q), NEW j \in BtJobs, j.kind \notin LinkJobs
    PROVE  LET r == Enqueue(q, j)
           IN /\ r \in Seq(BtJobs) /\ Ordered(r)
              /\ \A k \in LinkJobs : Has(r, {k}) <=> Has(q, {k})
              /\ Has(r, LinkJobs) <=> Has(q, LinkJobs)
              /\ j.kind # "post" /\ Has(r, {"post"}) => Has(q, {"post"})
              /\ j.kind # "pair" /\ PairFollowed(q) => PairFollowed(r)
<1> DEFINE r == Enqueue(q, j)
<1> SUFFICES /\ r \in Seq(BtJobs) /\ Ordered(r)
             /\ j.kind # "pair" /\ PairFollowed(q) => PairFollowed(r)
             /\ \A ks : ks \subseteq LinkJobs \cup {"post"} => (Has(r, ks) <=> Has(q, ks) \/ j.kind \in ks)
  BY DEF LinkJobs
<1>1. CASE j.kind \in SearchJobs
  <2> DEFINE d == Dropping(q, SearchJobs)
  <2>1. r = Ahead(d, j)
    BY <1>1 DEF Enqueue, SearchJobs, LinkJobs
  <2>2. /\ d \in Seq(BtJobs) /\ Ordered(d) /\ \A ks : Has(d, ks) <=> Has(q, ks \ SearchJobs)
        /\ PairFollowed(q) => PairFollowed(d)
    <3>1. SearchJobs \cap LinkJobs = {}
      BY DEF SearchJobs, LinkJobs
    <3> QED BY <3>1, DroppingFits
  <2> HIDE DEF d, r
  <2>3. /\ r \in Seq(BtJobs) /\ Ordered(r)
        /\ PairFollowed(d) => PairFollowed(r)
        /\ \A ks : Has(r, ks) <=> Has(d, ks) \/ j.kind \in ks
    <3>1. j.kind \in UserJobs \ {"radio"} /\ j.kind # "pair"
      BY <1>1 DEF SearchJobs, UserJobs
    <3> QED BY <2>1, <2>2, <3>1, AheadFits
  <2>4. ASSUME NEW ks, ks \subseteq LinkJobs \cup {"post"} PROVE Has(r, ks) <=> Has(q, ks) \/ j.kind \in ks
    <3>1. ks \ SearchJobs = ks
      BY <2>4 DEF SearchJobs, LinkJobs
    <3> QED BY <2>2, <2>3, <3>1
  <2> QED BY <2>2, <2>3, <2>4
<1>2. CASE j.kind = "pair"
  <2>1. r = Ahead(q, j)
    BY <1>2 DEF Enqueue, SearchJobs, LinkJobs
  <2> HIDE DEF r
  <2> QED BY <1>2, <2>1, AheadFits DEF UserJobs
<1>3. CASE j.kind = "refresh" /\ \E i \in 1 .. Len(q) : q[i].kind = "refresh"
  <2>1. r = [i \in 1 .. Len(q) |-> IF q[i].kind = "refresh" THEN JobOf("refresh", q[i].on \/ j.on) ELSE q[i]]
    BY <1>3 DEF Enqueue, SearchJobs, LinkJobs
  <2>2. ASSUME NEW ks, ks \subseteq LinkJobs \cup {"post"} PROVE j.kind \notin ks
    BY <1>3, <2>2 DEF LinkJobs
  <2> HIDE DEF r
  <2> QED BY <2>1, <2>2, MergeFits
<1>4. CASE j.kind \notin SearchJobs \cup {"pair"} /\ ~(j.kind = "refresh" /\ \E i \in 1 .. Len(q) : q[i].kind = "refresh")
  <2>1. r = Append(q, j)
    BY <1>4 DEF Enqueue, SearchJobs, LinkJobs
  <2> HIDE DEF r
  <2> QED BY <1>4, <2>1, AppendFits
<1> QED BY <1>1, <1>2, <1>3, <1>4

\* Popping the first job.
LEMMA TailFits ==
    ASSUME NEW q \in Seq(BtJobs), q # <<>>
    PROVE  /\ Tail(q) \in Seq(BtJobs) /\ Head(q) \in BtJobs
           /\ Ordered(q) => Ordered(Tail(q))
           /\ PairFollowed(q) => PairFollowed(Tail(q))
           /\ PairFollowed(q) /\ Head(q).kind = "pair" => Has(Tail(q), LinkJobs)
           /\ \A ks : Has(q, ks) <=> Has(Tail(q), ks) \/ Head(q).kind \in ks
<1> DEFINE t == Tail(q)
<1>1. /\ t \in Seq(BtJobs) /\ Len(t) = Len(q) - 1 /\ Len(q) \in Nat /\ Len(q) # 0
      /\ \A i \in 1 .. (Len(q) - 1) : t[i] = q[i + 1]
      /\ Head(q) = q[1] /\ q[1] \in BtJobs
  OBVIOUS
<1> HIDE DEF t
<1>2. ASSUME Ordered(q) PROVE Ordered(t)
  <2> SUFFICES ASSUME NEW i \in 1 .. Len(t), NEW k \in 1 .. Len(t), i < k, t[i].kind \notin UserJobs
               PROVE  t[k].kind \notin UserJobs \ {"radio"}
    BY DEF Ordered
  <2>1. i + 1 \in 1 .. Len(q) /\ k + 1 \in 1 .. Len(q) /\ i + 1 < k + 1 /\ t[i] = q[i + 1] /\ t[k] = q[k + 1]
    BY <1>1
  <2> QED BY <1>2, <2>1 DEF Ordered
<1>3. ASSUME PairFollowed(q) PROVE PairFollowed(t)
  <2> SUFFICES ASSUME NEW i \in 1 .. Len(t), t[i].kind = "pair"
               PROVE  \E k \in (i + 1) .. Len(t) : t[k].kind \in LinkJobs
    BY DEF PairFollowed
  <2>1. i + 1 \in 1 .. Len(q) /\ q[i + 1].kind = "pair"
    BY <1>1
  <2>2. PICK k \in ((i + 1) + 1) .. Len(q) : q[k].kind \in LinkJobs
    BY <1>3, <2>1 DEF PairFollowed
  <2>3. k - 1 \in (i + 1) .. Len(t) /\ k - 1 \in 1 .. (Len(q) - 1) /\ (k - 1) + 1 = k
    BY <1>1, <2>1, <2>2
  <2>4. t[k - 1] = q[k]
    BY <1>1, <2>3
  <2> QED BY <2>2, <2>3, <2>4
<1>4. ASSUME NEW ks PROVE Has(q, ks) <=> Has(t, ks) \/ Head(q).kind \in ks
  <2>1. ASSUME Has(q, ks), Head(q).kind \notin ks PROVE Has(t, ks)
    <3>1. PICK i \in 1 .. Len(q) : q[i].kind \in ks
      BY <2>1 DEF Has
    <3>2. i - 1 \in 1 .. Len(t) /\ (i - 1) + 1 = i
      BY <1>1, <2>1, <3>1
    <3>3. t[i - 1] = q[i]
      BY <1>1, <3>2
    <3> QED BY <3>1, <3>2, <3>3 DEF Has
  <2>2. ASSUME Has(t, ks) PROVE Has(q, ks)
    <3>1. PICK i \in 1 .. Len(t) : t[i].kind \in ks
      BY <2>2 DEF Has
    <3>2. i + 1 \in 1 .. Len(q) /\ q[i + 1] = t[i]
      BY <1>1, <3>1
    <3> QED BY <3>1, <3>2 DEF Has
  <2>3. Head(q).kind \in ks => Has(q, ks)
    BY <1>1 DEF Has
  <2> QED BY <2>1, <2>2, <2>3
<1>5. ASSUME PairFollowed(q), Head(q).kind = "pair" PROVE Has(t, LinkJobs)
  <2>1. PICK k \in (1 + 1) .. Len(q) : q[k].kind \in LinkJobs
    BY <1>1, <1>5 DEF PairFollowed
  <2>2. k - 1 \in 1 .. Len(t) /\ (k - 1) + 1 = k
    BY <1>1, <2>1
  <2>3. t[k - 1] = q[k]
    BY <1>1, <2>2
  <2> QED BY <2>1, <2>2, <2>3 DEF Has
<1> QED BY <1>1, <1>2, <1>3, <1>4, <1>5 DEF t

-----------------------------------------------------------------------------
(* What the watcher's events make of a row. *)

\* An event never puts an error on the row.
LEMMA NotedFits ==
    ASSUME NEW s \in Shown, NEW e \in Events
    PROVE  Noted(s, e) \in Shown /\ (Noted(s, e).error => s.error)
<1>1. CASE e.gone
  BY <1>1 DEF Noted, Shown, Events
<1>2. CASE ~e.gone /\ e.bonded
  <2> DEFINE r == [s EXCEPT !.row = "paired", !.connected = (@ /\ s.row = "paired") \/ e.up, !.error = @ /\ ~e.up]
  <2>1. Noted(s, e) = r
    BY <1>2 DEF Noted
  <2>2. r.connected \in BOOLEAN /\ r.error \in BOOLEAN /\ (r.error => s.error)
    BY DEF Shown, Events
  <2>3. r \in Shown
    BY <2>2 DEF Shown
  <2> QED BY <2>1, <2>2, <2>3
<1>3. CASE ~e.gone /\ ~e.bonded
  BY <1>3 DEF Noted, Shown, Events
<1> QED BY <1>1, <1>2, <1>3

\* Some numbers up to n have a greatest one.
LEMMA GreatestNatural ==
    ASSUME NEW n \in Nat, NEW U \in SUBSET (1 .. n), U # {}
    PROVE  Max(U) \in U
<1> DEFINE B == {b \in Nat : \A x \in U : x <= b}
<1>1. n \in B
  OBVIOUS
<1>2. PICK m \in B : \A b \in B : m <= b
  <2> HIDE DEF B
  <2>1. B \in SUBSET Nat
    BY DEF B
  <2> QED BY <1>1, <2>1, LeastNatural
<1>3. m \in U
  <2> SUFFICES ASSUME m \notin U PROVE FALSE
    OBVIOUS
  <2>1. PICK x \in U : TRUE
    OBVIOUS
  <2>2. m \in Nat /\ m - 1 \in Nat
    BY <1>2, <2>1
  <2>3. m - 1 \in B
    BY <1>2, <2>2
  <2> QED BY <1>2, <2>2, <2>3
<1>4. \E x \in U : \A y \in U : x >= y
  BY <1>2, <1>3
<1> QED BY <1>4 DEF Max

\* The fold by which Drain goes through the events, over subsets of their places.
NoteOn(g, s, q, U) == IF U = {} THEN s ELSE Noted(g[U \ {Max(U)}], q[Max(U)])
IsDrained(g, s, q) == g = [U \in SUBSET DOMAIN q |-> NoteOn(g, s, q, U)]
DrainedOf(s, q) == CHOOSE g : IsDrained(g, s, q)

LEMMA DrainIsFold ==
    ASSUME NEW s, NEW q
    PROVE  FoldLeft(Noted, s, q) = DrainedOf(s, q)[DOMAIN q]
  BY DEF FoldLeft, MapThenFoldSet, DrainedOf, IsDrained, NoteOn

\* The places of the events, fewer by one without the last of them.
LEMMA PlacesShrink ==
    ASSUME NEW q \in Seq(Events), NEW U \in SUBSET DOMAIN q
    PROVE  /\ IsFiniteSet(U) /\ Cardinality(U) \in Nat
           /\ U # {} => /\ Max(U) \in U
                        /\ U \ {Max(U)} \in SUBSET DOMAIN q
                        /\ Cardinality(U \ {Max(U)}) = Cardinality(U) - 1
<1>1. DOMAIN q = 1 .. Len(q) /\ Len(q) \in Nat
  OBVIOUS
<1>2. IsFiniteSet(U) /\ Cardinality(U) \in Nat
  <2>1. IsFiniteSet(DOMAIN q)
    BY <1>1, FS_Interval
  <2>2. IsFiniteSet(U)
    BY <2>1, FS_Subset
  <2> QED BY <2>2, FS_CardinalityType
<1>3. U # {} => Max(U) \in U
  BY <1>1, GreatestNatural
<1> DEFINE m == Max(U)
<1>4. U # {} => Cardinality(U \ {m}) = Cardinality(U) - 1
  <2> HIDE DEF m
  <2>1. m \in U => Cardinality(U \ {m}) = Cardinality(U) - 1
    BY <1>2, FS_RemoveElement
  <2> QED BY <1>3, <2>1 DEF m
<1> QED BY <1>2, <1>3, <1>4

LEMMA DrainedExists ==
    ASSUME NEW s, NEW q \in Seq(Events)
    PROVE  \E g : IsDrained(g, s, q)
<1> DEFINE Level(n) == {U \in SUBSET DOMAIN q : Cardinality(U) <= n}
<1> DEFINE T == {n \in Nat : \E g : /\ g = [U \in Level(n) |-> g[U]]
                                    /\ \A U \in Level(n) : g[U] = NoteOn(g, s, q, U)}
<1>1. 0 \in T
  <2> DEFINE g == [U \in Level(0) |-> s]
  <2>1. g = [U \in Level(0) |-> g[U]]
    OBVIOUS
  <2>2. ASSUME NEW U \in Level(0) PROVE U = {}
    <3>1. U \in SUBSET DOMAIN q /\ Cardinality(U) <= 0
      OBVIOUS
    <3> HIDE DEF Level
    <3>2. IsFiniteSet(U) /\ Cardinality(U) \in Nat
      BY <3>1, PlacesShrink
    <3> QED BY <3>1, <3>2, FS_EmptySet
  <2>3. \A U \in Level(0) : g[U] = NoteOn(g, s, q, U)
    BY <2>2 DEF NoteOn
  <2> HIDE DEF g
  <2> QED BY <2>1, <2>3
<1>2. ASSUME NEW n \in T PROVE n + 1 \in T
  <2>1. PICK g : g = [U \in Level(n) |-> g[U]] /\ \A U \in Level(n) : g[U] = NoteOn(g, s, q, U)
    BY <1>2
  <2> DEFINE h == [U \in Level(n + 1) |-> IF U \in Level(n) THEN g[U] ELSE NoteOn(g, s, q, U)]
  <2>2. ASSUME NEW U \in Level(n + 1) PROVE h[U] = NoteOn(h, s, q, U)
    <3>1. CASE U = {}
      <4>1. U \in Level(n)
        BY <3>1, FS_EmptySet
      <4> QED BY <3>1, <4>1, <2>1 DEF NoteOn
    <3>2. CASE U # {}
      <4> DEFINE V == U \ {Max(U)}
      <4>1. V \in Level(n) /\ V \in Level(n + 1)
        BY <3>2, <1>2, PlacesShrink
      <4>2. h[V] = g[V]
        BY <4>1
      <4>3. h[U] = NoteOn(g, s, q, U)
        BY <2>1
      <4> HIDE DEF h
      <4> QED BY <3>2, <4>2, <4>3 DEF NoteOn
    <3> QED BY <3>1, <3>2
  <2>3. h = [U \in Level(n + 1) |-> h[U]]
    OBVIOUS
  <2> HIDE DEF h, Level
  <2> QED BY <2>2, <2>3
<1>3. T = Nat
  <2> HIDE DEF T
  <2>1. T \in SUBSET Nat
    BY DEF T
  <2> QED BY <1>1, <1>2, <2>1, Induct
<1> DEFINE N == Cardinality(DOMAIN q)
<1>4. N \in Nat /\ Level(N) = SUBSET DOMAIN q
  <2>1. IsFiniteSet(DOMAIN q) /\ N \in Nat
    BY PlacesShrink
  <2>2. \A U \in SUBSET DOMAIN q : Cardinality(U) <= N
    BY <2>1, FS_Subset
  <2> QED BY <2>1, <2>2
<1>5. PICK g : g = [U \in Level(N) |-> g[U]] /\ \A U \in Level(N) : g[U] = NoteOn(g, s, q, U)
  BY <1>3, <1>4
<1>6. g = [U \in SUBSET DOMAIN q |-> NoteOn(g, s, q, U)]
  BY <1>5, <1>4
<1> QED BY <1>6 DEF IsDrained

\* Draining keeps the types and never puts an error on the row.
LEMMA DrainFits ==
    ASSUME NEW s \in Shown, NEW q \in Seq(Events)
    PROVE  /\ FoldLeft(Noted, s, q) \in Shown
           /\ FoldLeft(Noted, s, q).error => s.error
<1> DEFINE g == DrainedOf(s, q)
<1>1. \A U \in SUBSET DOMAIN q : g[U] = NoteOn(g, s, q, U)
  <2>1. IsDrained(g, s, q)
    BY DrainedExists DEF DrainedOf
  <2> HIDE DEF g
  <2> QED BY <2>1 DEF IsDrained
<1> HIDE DEF g
<1> DEFINE T == {n \in Nat : \A U \in SUBSET DOMAIN q :
                    Cardinality(U) = n => g[U] \in Shown /\ (g[U].error => s.error)}
<1>2. 0 \in T
  <2> SUFFICES ASSUME NEW U \in SUBSET DOMAIN q, Cardinality(U) = 0
               PROVE  g[U] \in Shown /\ (g[U].error => s.error)
    OBVIOUS
  <2>1. U = {}
    <3>1. IsFiniteSet(U)
      BY PlacesShrink
    <3> QED BY <3>1, FS_EmptySet
  <2>2. g[U] = s
    BY <1>1, <2>1 DEF NoteOn
  <2> QED BY <2>2
<1>3. ASSUME NEW n \in T PROVE n + 1 \in T
  <2> SUFFICES ASSUME NEW U \in SUBSET DOMAIN q, Cardinality(U) = n + 1
               PROVE  g[U] \in Shown /\ (g[U].error => s.error)
    OBVIOUS
  <2> DEFINE m == Max(U)
  <2> DEFINE V == U \ {m}
  <2>1. U # {}
    <3>1. n \in Nat
      BY <1>3
    <3>2. Cardinality({}) = 0
      BY FS_EmptySet
    <3> HIDE DEF T
    <3>3. Cardinality(U) # 0
      BY <3>1
    <3> QED BY <3>2, <3>3
  <2>2. m \in DOMAIN q /\ V \in SUBSET DOMAIN q /\ Cardinality(V) = n
    <3>1. Max(U) \in U /\ U \ {Max(U)} \in SUBSET DOMAIN q /\ Cardinality(U \ {Max(U)}) = (n + 1) - 1
      BY <2>1, PlacesShrink
    <3> QED BY <3>1, <1>3
  <2>3. g[V] \in Shown /\ (g[V].error => s.error)
    BY <1>3, <2>2
  <2>4. g[U] = Noted(g[V], q[m])
    BY <1>1, <2>1 DEF NoteOn
  <2>5. q[m] \in Events
    BY <2>2
  <2> HIDE DEF m, V
  <2>6. Noted(g[V], q[m]) \in Shown /\ (Noted(g[V], q[m]).error => g[V].error)
    BY <2>3, <2>5, NotedFits
  <2> QED BY <2>3, <2>4, <2>6
<1>4. T = Nat
  <2> HIDE DEF T
  <2>1. T \in SUBSET Nat
    BY DEF T
  <2> QED BY <1>2, <1>3, <2>1, Induct
<1>5. Cardinality(DOMAIN q) \in T
  BY <1>4, PlacesShrink
<1> QED BY <1>5, DrainIsFold DEF g

-----------------------------------------------------------------------------
(* Types. *)

USE DEF btVars, worldOf, jobOf, listOf, taskOf, watchOf, postOf, panelOf, countOf, WorkerUnchanged, JobUnchanged,
        NothingPublished, WorldStands, StepUnchanged, PanelUnchanged, HelperUnchangedToo, WorldUnchangedToo,
        EndJob, At, Goto, Classic, Seen, Audio, JobCancelled

\* What PublishSnapshot leaves behind.
LEMMA PublishFits ==
    ASSUME snap \in Shown, svc' \in Shown, queued \in BOOLEAN, kBluetoothMessage \in BOOLEAN, PublishSnapshot
    PROVE  snap' \in Shown /\ queued' \in BOOLEAN /\ kBluetoothMessage' \in BOOLEAN
<1>1. View(svc') \in Shown
  BY DEF View, Shown
<1> QED BY <1>1 DEF PublishSnapshot

LEMMA NothingYet == <<>> \in Seq(Events) /\ <<>> \in Seq(Tasks) /\ <<>> \in Seq(BtJobs)
  OBVIOUS

LEMMA JobFields == ASSUME NEW j \in BtJobs \cup {BtNoJob} PROVE j.on \in BOOLEAN /\ j = JobOf(j.kind, j.on)
<1>1. CASE j \in BtJobs
  <2>1. PICK k \in JobKinds, b \in BOOLEAN : j = JobOf(k, b)
    BY <1>1 DEF BtJobs
  <2> QED BY <2>1 DEF JobOf
<1>2. CASE j = BtNoJob
  BY <1>2 DEF BtNoJob, JobOf
<1> QED BY <1>1, <1>2

LEMMA JobsAreJobs == \A k \in JobKinds, b \in BOOLEAN : JobOf(k, b) \in BtJobs /\ JobOf(k, b).kind = k
  BY DEF BtJobs, JobOf

\* A thread is chained after the others ...
LEMMA TasksGrow ==
    ASSUME NEW t \in Seq(Tasks)
    PROVE  \A s \in {Toggle, Reenable, RestoreVoice} : Append(t, s) \in Seq(Tasks)
<1>1. Toggle \in Tasks /\ Reenable \in Tasks /\ RestoreVoice \in Tasks
  BY DEF Toggle, Reenable, RestoreVoice, TaskOf, Tasks
<1> QED BY <1>1

LEMMA TasksReplaced ==
    ASSUME NEW t \in Seq(Tasks), NEW i \in 1 .. Len(t), NEW s \in Tasks
    PROVE  [t EXCEPT ![i] = s] \in Seq(Tasks) /\ [t EXCEPT ![i] = s] # <<>>
<1> DEFINE r == [t EXCEPT ![i] = s]
<1>1. r \in [1 .. Len(t) -> Tasks] /\ Len(t) \in Nat
  OBVIOUS
<1> HIDE DEF r
<1>2. r \in Seq(Tasks) /\ Len(r) = Len(t)
  BY <1>1
<1>3. r # <<>>
  <2> SUFFICES ASSUME r = <<>> PROVE FALSE
    OBVIOUS
  <2>1. Len(r) = 0
    OBVIOUS
  <2> QED BY <1>2, <2>1
<1> QED BY <1>2, <1>3 DEF r

\* ... is told to stop ...
LEMMA TasksCancelled ==
    ASSUME NEW t \in Seq(Tasks), NEW i \in 1 .. Len(t)
    PROVE  /\ [t EXCEPT ![i].cancel = TRUE] \in Seq(Tasks)
           /\ [t EXCEPT ![i].cancel = TRUE] # <<>>
<1> DEFINE s == [t[i] EXCEPT !.cancel = TRUE]
<1>1. t[i] \in Tasks
  OBVIOUS
<1>2. s \in Tasks
  BY <1>1 DEF Tasks
<1>3. [t EXCEPT ![i].cancel = TRUE] = [t EXCEPT ![i] = s]
  OBVIOUS
<1> HIDE DEF s
<1> QED BY <1>2, <1>3, TasksReplaced

\* ... and goes from one service to the next.
LEMMA TasksStep ==
    ASSUME NEW t \in Seq(Tasks), t # <<>>
    PROVE  /\ [t EXCEPT ![1].calling = TRUE] \in Seq(Tasks)
           /\ Tail(t) \in Seq(Tasks)
           /\ Len(Head(t).steps) # 1 =>
                [t EXCEPT ![1] = [Head(t) EXCEPT !.steps = Tail(@), !.calling = FALSE, !.half = TRUE]] \in Seq(Tasks)
<1>1. t[1] \in Tasks /\ Head(t) = t[1] /\ 1 \in 1 .. Len(t) /\ Tail(t) \in Seq(Tasks)
  OBVIOUS
<1>2. [t EXCEPT ![1].calling = TRUE] \in Seq(Tasks)
  <2> DEFINE s == [t[1] EXCEPT !.calling = TRUE]
  <2>1. s \in Tasks
    BY <1>1 DEF Tasks
  <2>2. [t EXCEPT ![1].calling = TRUE] = [t EXCEPT ![1] = s]
    OBVIOUS
  <2> HIDE DEF s
  <2> QED BY <1>1, <2>1, <2>2, TasksReplaced
<1> DEFINE s == [Head(t) EXCEPT !.steps = Tail(@), !.calling = FALSE, !.half = TRUE]
<1>3. ASSUME Len(Head(t).steps) # 1 PROVE s \in Tasks
  <2>1. t[1].steps = <<"disable", "enable">>
    BY <1>1, <1>3 DEF Tasks
  <2>2. Tail(t[1].steps) = <<"enable">>
    BY <2>1
  <2> QED BY <1>1, <2>2 DEF Tasks
<1>4. ASSUME Len(Head(t).steps) # 1 PROVE [t EXCEPT ![1] = s] \in Seq(Tasks)
  <2> HIDE DEF s
  <2> QED BY <1>1, <1>3, <1>4, TasksReplaced
<1> QED BY <1>1, <1>2, <1>4

LEMMA CancelFits ==
    ASSUME tasks \in Seq(Tasks), CancelLastTask
    PROVE  tasks' \in Seq(Tasks) /\ leftDisabled' = leftDisabled /\ (tasks' = <<>> <=> tasks = <<>>)
<1>1. CASE tasks = <<>>
  BY <1>1 DEF CancelLastTask
<1>2. CASE tasks # <<>>
  <2>1. Len(tasks) \in 1 .. Len(tasks)
    BY <1>2
  <2>2. tasks' = [tasks EXCEPT ![Len(tasks)].cancel = TRUE] /\ leftDisabled' = leftDisabled
    BY <1>2 DEF CancelLastTask
  <2> QED BY <1>2, <2>1, <2>2, TasksCancelled
<1> QED BY <1>1, <1>2

LEMMA StartFits ==
    ASSUME tasks \in Seq(Tasks), leftDisabled \in BOOLEAN,
           NEW t \in {Toggle, Reenable, RestoreVoice}, StartTask(t)
    PROVE  tasks' \in Seq(Tasks) /\ leftDisabled' \in BOOLEAN
<1>1. tasks' = Append(tasks, t) /\ leftDisabled' = (leftDisabled /\ t.name # "toggle")
  BY DEF StartTask
<1> QED BY <1>1, TasksGrow

LEMMA UnsearchedFits == ASSUME NEW s \in Shown PROVE Unsearched(s) \in Shown /\ Unsearched(s).error = s.error
  BY DEF Unsearched, Shown

LEMMA OtherJobs ==
    \A k \in JobKinds \ LinkJobs, b \in BOOLEAN : JobOf(k, b) \in BtJobs /\ JobOf(k, b).kind = k
  BY DEF BtJobs, JobOf

\* What a handler that queues something else than a click for the link does to the queue.
SameClaims(r, q) ==
    /\ r \in Seq(BtJobs) /\ Ordered(r)
    /\ \A k \in LinkJobs : Has(r, {k}) <=> Has(q, {k})
    /\ Has(r, LinkJobs) <=> Has(q, LinkJobs)
LEMMA QueueOther ==
    ASSUME NEW q \in Seq(BtJobs), Ordered(q), NEW k \in JobKinds \ LinkJobs, NEW b \in BOOLEAN
    PROVE  LET r == Enqueue(q, JobOf(k, b))
           IN /\ SameClaims(r, q)
              /\ k # "post" /\ Has(r, {"post"}) => Has(q, {"post"})
              /\ k # "pair" /\ PairFollowed(q) => PairFollowed(r)
<1> DEFINE j == JobOf(k, b)
<1>1. j \in BtJobs /\ j.kind = k /\ j.kind \notin LinkJobs
  BY OtherJobs
<1> HIDE DEF j
<1>2. LET r == Enqueue(q, j)
      IN /\ r \in Seq(BtJobs) /\ Ordered(r)
         /\ \A l \in LinkJobs : Has(r, {l}) <=> Has(q, {l})
         /\ Has(r, LinkJobs) <=> Has(q, LinkJobs)
         /\ j.kind # "post" /\ Has(r, {"post"}) => Has(q, {"post"})
         /\ j.kind # "pair" /\ PairFollowed(q) => PairFollowed(r)
  BY <1>1, EnqueueOther
<1> QED BY <1>1, <1>2 DEF j, SameClaims

LEMMA QueueLink ==
    ASSUME NEW q \in Seq(BtJobs), Ordered(q), NEW k \in LinkJobs
    PROVE  LET r == Enqueue(q, JobOf(k, FALSE))
           IN /\ r \in Seq(BtJobs) /\ Ordered(r) /\ PairFollowed(r)
              /\ Has(r, LinkJobs)
              /\ \A l \in LinkJobs \ {k} : ~Has(r, {l})
              /\ ~Has(r, {"post"})
<1> DEFINE j == JobOf(k, FALSE)
<1>1. j \in BtJobs /\ j.kind = k /\ j.kind \in LinkJobs
  BY JobsAreJobs DEF LinkJobs, JobKinds
<1> HIDE DEF j
<1>2. LET r == Enqueue(q, j)
      IN /\ r \in Seq(BtJobs) /\ Ordered(r) /\ PairFollowed(r)
         /\ Has(r, LinkJobs)
         /\ \A l \in LinkJobs \ {j.kind} : ~Has(r, {l})
         /\ ~Has(r, {"post"})
  BY <1>1, EnqueueLink
<1> QED BY <1>1, <1>2 DEF j

LEMMA ShownUpdates ==
    ASSUME NEW s \in Shown, NEW b \in BOOLEAN, NEW c \in BOOLEAN, NEW d \in BOOLEAN
    PROVE  /\ [s EXCEPT !.connected = b] \in Shown
           /\ [s EXCEPT !.error = b] \in Shown
           /\ [s EXCEPT !.connected = b, !.error = c] \in Shown
           /\ [s EXCEPT !.searching = b, !.error = c] \in Shown
           /\ [s EXCEPT !.busy = b, !.connected = c, !.error = d] \in Shown
  BY DEF Shown

\* What the worker publishes keeps its type.
LEMMA SvcStep ==
    ASSUME WellTyped, BtNext
    PROVE  svc' \in Shown
<1> USE DEF WorldTyped, WorkerTyped, PanelTyped, WellTyped
<1>1. CASE Drain
  BY <1>1, DrainFits DEF Drain
<1>2. CASE Pop
  BY <1>2 DEF Pop
<1>3. CASE Retry
  BY <1>3 DEF Retry, Submit
<1>4. CASE WorkerEnds
  BY <1>4 DEF WorkerEnds, Shown
<1>5. CASE StartSearch
  <2> DEFINE s == [svc EXCEPT !.radio = @ \/ radio]
  <2>1. s \in Shown
    BY DEF Shown
  <2>2. \/ svc' = s
        \/ svc' = [Unsearched(s) EXCEPT !.searching = TRUE, !.error = FALSE]
        \/ svc' = [Unsearched(s) EXCEPT !.error = FALSE]
    BY <1>5 DEF StartSearch
  <2> HIDE DEF s
  <2>3. Unsearched(s) \in Shown
    BY <2>1, UnsearchedFits
  <2> QED BY <2>1, <2>2, <2>3, ShownUpdates
<1>6. CASE StopSearch
  BY <1>6 DEF StopSearch, Unsearched, Shown
<1>7. CASE RefreshRadio
  BY <1>7 DEF RefreshRadio, Shown
<1>8. CASE QueryClassic
  BY <1>8 DEF QueryClassic, Query, Fault
<1>9. CASE QueryLe
  BY <1>9 DEF QueryLe, Query, Fault
<1>10. CASE TakeList
  BY <1>10 DEF TakeList, Listed, Shown
<1>11. CASE EndRefresh
  BY <1>11 DEF EndRefresh, Shown
<1>12. CASE SwitchRadio
  <2> DEFINE s == IF job.on THEN svc ELSE Unsearched(svc)
  <2>1. s \in Shown
    BY UnsearchedFits
  <2>2. svc' = [s EXCEPT !.radio = radio'] /\ (radio' = job.on \/ radio' = radio)
    BY <1>12 DEF SwitchRadio
  <2>3. radio' \in BOOLEAN
    BY <2>2, JobFields
  <2> HIDE DEF s
  <2> QED BY <2>1, <2>2, <2>3 DEF Shown
<1>13. CASE EndSwitch
  BY <1>13 DEF EndSwitch, Shown
<1>14. CASE BeginLink
  BY <1>14 DEF BeginLink, Shown
<1>15. CASE Classify
  BY <1>15 DEF Classify
<1>16. CASE NudgeOnce
  BY <1>16 DEF NudgeOnce, Nudge
<1>17. CASE WaitNudge
  BY <1>17 DEF WaitNudge, Await, WaitLink, Results
<1>18. CASE NudgeAgain
  BY <1>18 DEF NudgeAgain, Nudge
<1>19. CASE WaitAgain
  BY <1>19 DEF WaitAgain, Await, WaitLink, Results
<1>20. CASE ConnectLe
  BY <1>20 DEF ConnectLe
<1>21. CASE Join
  BY <1>21 DEF Join, StartTask, TaskOf, Reenable
<1>22. CASE WaitReenable
  BY <1>22 DEF WaitReenable, WaitDuringTask, Await, WaitLink, Results, CancelLastTask
<1>23. CASE Page
  BY <1>23 DEF Page, StartTask, TaskOf, Toggle
<1>24. CASE WaitPage
  BY <1>24 DEF WaitPage, Await, WaitLink, Results
<1>25. CASE WaitToggle
  BY <1>25 DEF WaitToggle, WaitDuringTask, Await, WaitLink, Results, CancelLastTask
<1>26. CASE KsDisconnect
  BY <1>26 DEF KsDisconnect, CancelLastTask
<1>27. CASE WaitKs
  BY <1>27 DEF WaitKs, Await, WaitLink, Results
<1>28. CASE DropLink
  BY <1>28 DEF DropLink, Drop, Fault, CancelLastTask
<1>29. CASE WaitDown
  BY <1>29 DEF WaitDown, Await, WaitLink, Results
<1>30. CASE EndLink
  <2>1. [svc EXCEPT !.busy = FALSE] \in Shown
    BY DEF Shown
  <2> DEFINE s == [svc EXCEPT !.busy = FALSE]
  <2>2. \E b \in BOOLEAN : svc' \in {[s EXCEPT !.connected = b, !.error = FALSE], [s EXCEPT !.connected = b],
                                     [s EXCEPT !.error = TRUE]}
    <3>1. Seen \in BOOLEAN /\ (job.kind = "connect") \in BOOLEAN
      OBVIOUS
    <3> QED BY <1>30, <3>1 DEF EndLink
  <2> HIDE DEF s
  <2>3. s \in Shown
    BY <2>1 DEF s
  <2> QED BY <2>2, <2>3, ShownUpdates
<1>31. CASE Reap
  BY <1>31 DEF Reap
<1>32. CASE ReapWait
  BY <1>32 DEF ReapWait
<1>33. CASE ReapDrop
  BY <1>33 DEF ReapDrop, Drop, Fault, CancelLastTask
<1>34. CASE WaitReapDown
  BY <1>34 DEF WaitReapDown, Await, WaitLink, To
<1>35. CASE Guard
  BY <1>35 DEF Guard
<1>36. CASE Redrop
  BY <1>36 DEF Redrop, Drop, Fault, CancelLastTask
<1>37. CASE WaitRedrop
  BY <1>37 DEF WaitRedrop, Await, WaitLink, To
<1>38. CASE AfterGuard
  BY <1>38 DEF AfterGuard, Shown
<1>39. CASE PostConnect
  BY <1>39 DEF PostConnect, StartTask, TaskOf, RestoreVoice
<1>40. CASE BeginPair
  BY <1>40 DEF BeginPair, Shown
<1>41. CASE Prompt
  BY <1>41 DEF Prompt, Shown
<1>42. CASE ConnectPaired
  BY <1>42 DEF ConnectPaired
<1>43. CASE EndPair
  <2>1. PICK c \in BOOLEAN, e \in BOOLEAN : svc' = [svc EXCEPT !.busy = FALSE, !.connected = c, !.error = e]
    <3> DEFINE c == svc.connected \/ outcome = "reached"
    <3> DEFINE e == svc.error \/ outcome \in {"timeout", "cancelled"} \/ (outcome = "failed" /\ running)
    <3>1. c \in BOOLEAN /\ e \in BOOLEAN
      OBVIOUS
    <3>2. svc' = [svc EXCEPT !.busy = FALSE, !.connected = c, !.error = e]
      BY <1>43 DEF EndPair
    <3> HIDE DEF c, e
    <3> QED BY <3>1, <3>2
  <2> QED BY <2>1, ShownUpdates
<1>44. CASE Apply
  BY <1>44 DEF Apply
<1>45. CASE ReadSnapshot
  BY <1>45 DEF ReadSnapshot
<1>46. CASE ClickDevice
  BY <1>46 DEF ClickDevice, Click, Submit
<1>47. CASE BtTestLive
  BY <1>47 DEF BtTestLive, Click, Submit
<1>48. CASE ClickRadio
  BY <1>48 DEF ClickRadio, Click, Submit
<1>49. CASE ClickSearch
  BY <1>49 DEF ClickSearch, Click, Submit
<1>50. CASE ClickPair
  BY <1>50 DEF ClickPair, Click, Submit
<1>51. CASE StopBluetooth
  BY <1>51 DEF StopBluetooth
<1>52. CASE Poll
  BY <1>52 DEF Poll, Submit
<1>53. CASE TaskCalls
  BY <1>53 DEF TaskCalls, Switches
<1>54. CASE TaskReturns
  BY <1>54 DEF TaskReturns
<1>55. CASE TaskStops
  BY <1>55 DEF TaskStops
<1>56. CASE PageEnds
  BY <1>56 DEF PageEnds
<1>57. CASE ListAges
  BY <1>57 DEF ListAges
<1>58. CASE LinkMoves
  BY <1>58 DEF LinkMoves, Unclaimed, Moves
<1>59. CASE WatchCallback
  BY <1>59 DEF WatchCallback, Moves
<1> QED
  BY <1>1, <1>2, <1>3, <1>4, <1>5, <1>6, <1>7, <1>8, <1>9, <1>10, <1>11, <1>12, <1>13, <1>14, <1>15, <1>16,
     <1>17, <1>18, <1>19, <1>20, <1>21, <1>22, <1>23, <1>24, <1>25, <1>26, <1>27, <1>28, <1>29, <1>30, <1>31,
     <1>32, <1>33, <1>34, <1>35, <1>36, <1>37, <1>38, <1>39, <1>40, <1>41, <1>42, <1>43, <1>44, <1>45, <1>46,
     <1>47, <1>48, <1>49, <1>50, <1>51, <1>52, <1>53, <1>54, <1>55, <1>56, <1>57, <1>58, <1>59
  DEF BtNext, BtWorker, BtPanel, BtUser, BtDriver

\* The queue holds jobs, what no click asked for last.
LEMMA PendingStep ==
    ASSUME WellTyped, QueueFits, BtNext
    PROVE  pending' \in Seq(BtJobs) /\ Ordered(pending')
<1> USE DEF WellTyped, WorkerTyped
<1>0. pending \in Seq(BtJobs) /\ Ordered(pending)
  BY DEF QueueFits
<1>a. /\ {"refresh", "radio", "post", "start", "stop", "pair"} \subseteq JobKinds \ LinkJobs
      /\ {"connect", "disconnect"} = LinkJobs
  BY DEF JobKinds, LinkJobs
<1>1. CASE Drain
  BY <1>1, <1>0 DEF Drain, Forgiven, Unclaimed
<1>2. CASE Pop
  BY <1>2, <1>0, TailFits DEF Pop
<1>3. CASE Retry
  BY <1>3, <1>0, <1>a, QueueOther DEF Retry, Submit, SameClaims
<1>4. CASE WorkerEnds
  BY <1>4, <1>0 DEF WorkerEnds
<1>5. CASE StartSearch
  BY <1>5, <1>0 DEF StartSearch, Forgiven, Unclaimed, Unsearched, Fault
<1>6. CASE StopSearch
  BY <1>6, <1>0, <1>a, QueueOther DEF StopSearch, Submit, SameClaims
<1>7. CASE RefreshRadio
  BY <1>7, <1>0 DEF RefreshRadio, Fault
<1>8. CASE QueryClassic
  BY <1>8, <1>0 DEF QueryClassic, Query, Fault
<1>9. CASE QueryLe
  BY <1>9, <1>0 DEF QueryLe, Query, Fault
<1>10. CASE TakeList
  BY <1>10, <1>0 DEF TakeList, Listed, Fault
<1>11. CASE EndRefresh
  BY <1>11, <1>0 DEF EndRefresh
<1>12. CASE SwitchRadio
  BY <1>12, <1>0 DEF SwitchRadio, Fault, Unclaimed, Unsearched
<1>13. CASE EndSwitch
  BY <1>13, <1>0 DEF EndSwitch
<1>14. CASE BeginLink
  BY <1>14, <1>0 DEF BeginLink, Unclaimed
<1>15. CASE Classify
  BY <1>15, <1>0 DEF Classify
<1>16. CASE NudgeOnce
  BY <1>16, <1>0 DEF NudgeOnce, Nudge
<1>17. CASE WaitNudge
  BY <1>17, <1>0 DEF WaitNudge, Await, WaitLink, Results
<1>18. CASE NudgeAgain
  BY <1>18, <1>0 DEF NudgeAgain, Nudge
<1>19. CASE WaitAgain
  BY <1>19, <1>0 DEF WaitAgain, Await, WaitLink, Results
<1>20. CASE ConnectLe
  BY <1>20, <1>0 DEF ConnectLe
<1>21. CASE Join
  BY <1>21, <1>0 DEF Join, StartTask, TaskOf, Reenable
<1>22. CASE WaitReenable
  BY <1>22, <1>0 DEF WaitReenable, WaitDuringTask, Await, WaitLink, Results, CancelLastTask
<1>23. CASE Page
  BY <1>23, <1>0 DEF Page, StartTask, TaskOf, Toggle
<1>24. CASE WaitPage
  BY <1>24, <1>0 DEF WaitPage, Await, WaitLink, Results
<1>25. CASE WaitToggle
  BY <1>25, <1>0 DEF WaitToggle, WaitDuringTask, Await, WaitLink, Results, CancelLastTask
<1>26. CASE KsDisconnect
  BY <1>26, <1>0 DEF KsDisconnect, CancelLastTask
<1>27. CASE WaitKs
  BY <1>27, <1>0 DEF WaitKs, Await, WaitLink, Results
<1>28. CASE DropLink
  BY <1>28, <1>0 DEF DropLink, Drop, Fault, CancelLastTask
<1>29. CASE WaitDown
  BY <1>29, <1>0 DEF WaitDown, Await, WaitLink, Results
<1>30. CASE EndLink
  <2> DEFINE q == Enqueue(pending, JobOf("refresh", TRUE))
  <2>1. q \in Seq(BtJobs) /\ Ordered(q)
    BY <1>0, <1>a, QueueOther DEF SameClaims
  <2>2. pending' \in {pending, q, Enqueue(q, JobOf("post", FALSE))}
    BY <1>30 DEF EndLink
  <2> HIDE DEF q
  <2>3. Enqueue(q, JobOf("post", FALSE)) \in Seq(BtJobs) /\ Ordered(Enqueue(q, JobOf("post", FALSE)))
    BY <2>1, <1>a, QueueOther DEF SameClaims
  <2> QED BY <1>0, <2>1, <2>2, <2>3
<1>31. CASE Reap
  BY <1>31, <1>0 DEF Reap
<1>32. CASE ReapWait
  BY <1>32, <1>0 DEF ReapWait
<1>33. CASE ReapDrop
  BY <1>33, <1>0 DEF ReapDrop, Drop, Fault, CancelLastTask
<1>34. CASE WaitReapDown
  BY <1>34, <1>0 DEF WaitReapDown, Await, WaitLink, To
<1>35. CASE Guard
  BY <1>35, <1>0 DEF Guard
<1>36. CASE Redrop
  BY <1>36, <1>0 DEF Redrop, Drop, Fault, CancelLastTask
<1>37. CASE WaitRedrop
  BY <1>37, <1>0 DEF WaitRedrop, Await, WaitLink, To
<1>38. CASE AfterGuard
  BY <1>38, <1>0, <1>a, QueueOther DEF AfterGuard, SameClaims
<1>39. CASE PostConnect
  BY <1>39, <1>0 DEF PostConnect, StartTask, TaskOf, RestoreVoice
<1>40. CASE BeginPair
  BY <1>40, <1>0 DEF BeginPair
<1>41. CASE Prompt
  BY <1>41, <1>0 DEF Prompt
<1>42. CASE ConnectPaired
  BY <1>42, <1>0 DEF ConnectPaired
<1>43. CASE EndPair
  BY <1>43, <1>0, <1>a, QueueOther DEF EndPair, SameClaims
<1>44. CASE Apply
  BY <1>44, <1>0 DEF Apply
<1>45. CASE ReadSnapshot
  BY <1>45, <1>0 DEF ReadSnapshot
<1>46. CASE ClickDevice
  BY <1>46, <1>0, <1>a, QueueLink DEF ClickDevice, Submit
<1>47. CASE BtTestLive
  BY <1>47, <1>0, <1>a, QueueLink DEF BtTestLive, Submit
<1>48. CASE ClickRadio
  <2>1. (~flyout.radio) \in BOOLEAN
    BY DEF PanelTyped, Shown
  <2> QED BY <1>48, <2>1, <1>0, <1>a, QueueOther DEF ClickRadio, Submit, SameClaims
<1>49. CASE ClickSearch
  <2>1. PICK k \in {"stop", "start"} : pending' = Enqueue(pending, JobOf(k, FALSE))
    BY <1>49 DEF ClickSearch, Submit
  <2>2. k \in JobKinds \ LinkJobs
    BY <1>a
  <2> QED BY <2>1, <2>2, <1>0, QueueOther DEF SameClaims
<1>50. CASE ClickPair
  BY <1>50, <1>0, <1>a, QueueOther DEF ClickPair, Submit, SameClaims
<1>51. CASE StopBluetooth
  BY <1>51, <1>0 DEF StopBluetooth
<1>52. CASE Poll
  BY <1>52, <1>0, <1>a, QueueOther DEF Poll, Submit, SameClaims
<1>53. CASE TaskCalls
  BY <1>53, <1>0 DEF TaskCalls, Switches
<1>54. CASE TaskReturns
  BY <1>54, <1>0 DEF TaskReturns
<1>55. CASE TaskStops
  BY <1>55, <1>0 DEF TaskStops
<1>56. CASE PageEnds
  BY <1>56, <1>0 DEF PageEnds
<1>57. CASE ListAges
  BY <1>57, <1>0 DEF ListAges
<1>58. CASE LinkMoves
  BY <1>58, <1>0 DEF LinkMoves, Unclaimed, Moves
<1>59. CASE WatchCallback
  BY <1>59, <1>0 DEF WatchCallback, Moves
<1> QED
  BY <1>1, <1>2, <1>3, <1>4, <1>5, <1>6, <1>7, <1>8, <1>9, <1>10, <1>11, <1>12, <1>13, <1>14, <1>15, <1>16,
     <1>17, <1>18, <1>19, <1>20, <1>21, <1>22, <1>23, <1>24, <1>25, <1>26, <1>27, <1>28, <1>29, <1>30, <1>31,
     <1>32, <1>33, <1>34, <1>35, <1>36, <1>37, <1>38, <1>39, <1>40, <1>41, <1>42, <1>43, <1>44, <1>45, <1>46,
     <1>47, <1>48, <1>49, <1>50, <1>51, <1>52, <1>53, <1>54, <1>55, <1>56, <1>57, <1>58, <1>59
  DEF BtNext, BtWorker, BtPanel, BtUser, BtDriver

\* The device, the helper threads and the watcher keep their types ...
LEMMA WorldTypedStep ==
    ASSUME WellTyped, BtNext
    PROVE  WorldTyped'
<1> USE DEF WorldTyped, WorkerTyped, PanelTyped, WellTyped
<1>1. CASE Drain
  BY <1>1, NothingYet DEF Drain, Forgiven, Unclaimed
<1>2. CASE Pop
  BY <1>2 DEF Pop
<1>3. CASE Retry
  BY <1>3 DEF Retry, Submit
<1>4. CASE WorkerEnds
  BY <1>4, NothingYet DEF WorkerEnds
<1>5. CASE StartSearch
  BY <1>5, NothingYet DEF StartSearch, Forgiven, Unclaimed, Unsearched, Fault
<1>6. CASE StopSearch
  BY <1>6, NothingYet DEF StopSearch, Unsearched, Submit
<1>7. CASE RefreshRadio
  BY <1>7 DEF RefreshRadio, Fault
<1>8. CASE QueryClassic
  BY <1>8 DEF QueryClassic, Query, Fault
<1>9. CASE QueryLe
  BY <1>9 DEF QueryLe, Query, Fault
<1>10. CASE TakeList
  BY <1>10 DEF TakeList, Listed, Fault
<1>11. CASE EndRefresh
  BY <1>11 DEF EndRefresh
<1>12. CASE SwitchRadio
  <2>1. job.on \in BOOLEAN
    BY JobFields
  <2> QED BY <1>12, <2>1, NothingYet DEF SwitchRadio, Fault
<1>13. CASE EndSwitch
  BY <1>13 DEF EndSwitch
<1>14. CASE BeginLink
  BY <1>14 DEF BeginLink, Unclaimed
<1>15. CASE Classify
  BY <1>15 DEF Classify
<1>16. CASE NudgeOnce
  BY <1>16 DEF NudgeOnce, Nudge
<1>17. CASE WaitNudge
  BY <1>17 DEF WaitNudge, Await, WaitLink, Results
<1>18. CASE NudgeAgain
  BY <1>18 DEF NudgeAgain, Nudge
<1>19. CASE WaitAgain
  BY <1>19 DEF WaitAgain, Await, WaitLink, Results
<1>20. CASE ConnectLe
  BY <1>20 DEF ConnectLe
<1>21. CASE Join
  <2>1. tasks' \in Seq(Tasks) /\ leftDisabled' \in BOOLEAN
    BY <1>21, StartFits DEF Join
  <2> QED BY <1>21, <2>1 DEF Join
<1>22. CASE WaitReenable
  <2>1. tasks' \in Seq(Tasks) /\ leftDisabled' \in BOOLEAN
    BY <1>22, CancelFits DEF WaitReenable, WaitDuringTask
  <2> QED BY <1>22, <2>1 DEF WaitReenable, WaitDuringTask, Await
<1>23. CASE Page
  <2>1. tasks' \in Seq(Tasks) /\ leftDisabled' \in BOOLEAN
    BY <1>23, StartFits DEF Page
  <2> QED BY <1>23, <2>1 DEF Page
<1>24. CASE WaitPage
  BY <1>24 DEF WaitPage, Await, WaitLink, Results
<1>25. CASE WaitToggle
  <2>1. tasks' \in Seq(Tasks) /\ leftDisabled' \in BOOLEAN
    BY <1>25, CancelFits DEF WaitToggle, WaitDuringTask
  <2> QED BY <1>25, <2>1 DEF WaitToggle, WaitDuringTask, Await
<1>26. CASE KsDisconnect
  <2>1. tasks' \in Seq(Tasks) /\ leftDisabled' \in BOOLEAN
    BY <1>26, CancelFits DEF KsDisconnect
  <2> QED BY <1>26, <2>1 DEF KsDisconnect
<1>27. CASE WaitKs
  BY <1>27 DEF WaitKs, Await, WaitLink, Results
<1>28. CASE DropLink
  <2>1. tasks' \in Seq(Tasks) /\ leftDisabled' \in BOOLEAN
    BY <1>28, CancelFits DEF DropLink, Drop
  <2> QED BY <1>28, <2>1 DEF DropLink, Drop, Fault
<1>29. CASE WaitDown
  BY <1>29 DEF WaitDown, Await, WaitLink, Results
<1>30. CASE EndLink
  BY <1>30 DEF EndLink
<1>31. CASE Reap
  BY <1>31 DEF Reap
<1>32. CASE ReapWait
  BY <1>32 DEF ReapWait
<1>33. CASE ReapDrop
  <2>1. tasks' \in Seq(Tasks) /\ leftDisabled' \in BOOLEAN
    BY <1>33, CancelFits DEF ReapDrop, Drop
  <2> QED BY <1>33, <2>1 DEF ReapDrop, Drop, Fault
<1>34. CASE WaitReapDown
  BY <1>34 DEF WaitReapDown, Await, WaitLink, To
<1>35. CASE Guard
  BY <1>35 DEF Guard
<1>36. CASE Redrop
  <2>1. tasks' \in Seq(Tasks) /\ leftDisabled' \in BOOLEAN
    BY <1>36, CancelFits DEF Redrop, Drop
  <2> QED BY <1>36, <2>1 DEF Redrop, Drop, Fault
<1>37. CASE WaitRedrop
  BY <1>37 DEF WaitRedrop, Await, WaitLink, To
<1>38. CASE AfterGuard
  BY <1>38 DEF AfterGuard
<1>39. CASE PostConnect
  <2>1. tasks' \in Seq(Tasks) /\ leftDisabled' \in BOOLEAN
    BY <1>39, StartFits DEF PostConnect
  <2> QED BY <1>39, <2>1 DEF PostConnect
<1>40. CASE BeginPair
  BY <1>40 DEF BeginPair
<1>41. CASE Prompt
  BY <1>41 DEF Prompt
<1>42. CASE ConnectPaired
  BY <1>42 DEF ConnectPaired
<1>43. CASE EndPair
  BY <1>43 DEF EndPair
<1>44. CASE Apply
  BY <1>44 DEF Apply
<1>45. CASE ReadSnapshot
  BY <1>45 DEF ReadSnapshot
<1>46. CASE ClickDevice
  BY <1>46 DEF ClickDevice, Click, Submit
<1>47. CASE BtTestLive
  BY <1>47 DEF BtTestLive, Click, Submit
<1>48. CASE ClickRadio
  BY <1>48 DEF ClickRadio, Click, Submit
<1>49. CASE ClickSearch
  BY <1>49 DEF ClickSearch, Click, Submit
<1>50. CASE ClickPair
  BY <1>50 DEF ClickPair, Click, Submit
<1>51. CASE StopBluetooth
  BY <1>51 DEF StopBluetooth
<1>52. CASE Poll
  BY <1>52 DEF Poll, Submit
<1>53. CASE TaskCalls
  <2>1. tasks' \in Seq(Tasks)
    BY <1>53, TasksStep DEF TaskCalls
  <2> QED BY <1>53, <2>1 DEF TaskCalls, Switches
<1>54. CASE TaskReturns
  <2>1. tasks' \in Seq(Tasks)
    BY <1>54, TasksStep DEF TaskReturns
  <2> QED BY <1>54, <2>1 DEF TaskReturns
<1>55. CASE TaskStops
  BY <1>55 DEF TaskStops
<1>56. CASE PageEnds
  BY <1>56 DEF PageEnds
<1>57. CASE ListAges
  BY <1>57 DEF ListAges
<1>58. CASE LinkMoves
  BY <1>58 DEF LinkMoves, Unclaimed, Moves
<1>59. CASE WatchCallback
  <2>1. PICK gone \in {FALSE, ~bonded} : inbox' = Append(inbox, [gone |-> gone, bonded |-> bonded, up |-> link])
    BY <1>59 DEF WatchCallback
  <2>2. [gone |-> gone, bonded |-> bonded, up |-> link] \in Events
    BY DEF Events
  <2>3. inbox' \in Seq(Events)
    BY <2>1, <2>2
  <2> QED BY <1>59, <2>3 DEF WatchCallback
<1> QED
  BY <1>1, <1>2, <1>3, <1>4, <1>5, <1>6, <1>7, <1>8, <1>9, <1>10, <1>11, <1>12, <1>13, <1>14, <1>15, <1>16,
     <1>17, <1>18, <1>19, <1>20, <1>21, <1>22, <1>23, <1>24, <1>25, <1>26, <1>27, <1>28, <1>29, <1>30, <1>31,
     <1>32, <1>33, <1>34, <1>35, <1>36, <1>37, <1>38, <1>39, <1>40, <1>41, <1>42, <1>43, <1>44, <1>45, <1>46,
     <1>47, <1>48, <1>49, <1>50, <1>51, <1>52, <1>53, <1>54, <1>55, <1>56, <1>57, <1>58, <1>59
  DEF BtNext, BtWorker, BtPanel, BtUser, BtDriver

\* ... so do the worker ...
LEMMA WorkerTypedStep ==
    ASSUME WellTyped, QueueFits, BtNext
    PROVE  WorkerTyped'
<1> USE DEF WorldTyped, WorkerTyped, PanelTyped, WellTyped
<1>0. svc' \in Shown /\ pending' \in Seq(BtJobs)
  BY SvcStep, PendingStep
<1>1. CASE Drain
  BY <1>1, <1>0 DEF Drain
<1>2. CASE Pop
  BY <1>2, <1>0, TailFits DEF Pop
<1>3. CASE Retry
  BY <1>3, <1>0 DEF Retry, Submit
<1>4. CASE WorkerEnds
  BY <1>4, <1>0 DEF WorkerEnds
<1>5. CASE StartSearch
  BY <1>5, <1>0 DEF StartSearch, Fault
<1>6. CASE StopSearch
  BY <1>6, <1>0 DEF StopSearch, Submit
<1>7. CASE RefreshRadio
  BY <1>7, <1>0 DEF RefreshRadio, Fault
<1>8. CASE QueryClassic
  BY <1>8, <1>0 DEF QueryClassic, Query, Fault
<1>9. CASE QueryLe
  BY <1>9, <1>0 DEF QueryLe, Query, Fault
<1>10. CASE TakeList
  BY <1>10, <1>0 DEF TakeList, Listed, Fault
<1>11. CASE EndRefresh
  <2>1. retries' \in 0 .. MaxRetries
    BY <1>11, BoundsAreNumbers DEF EndRefresh
  <2> QED BY <1>11, <1>0, <2>1 DEF EndRefresh
<1>12. CASE SwitchRadio
  BY <1>12, <1>0 DEF SwitchRadio, Fault
<1>13. CASE EndSwitch
  BY <1>13, <1>0 DEF EndSwitch
<1>14. CASE BeginLink
  BY <1>14, <1>0 DEF BeginLink
<1>15. CASE Classify
  BY <1>15, <1>0 DEF Classify
<1>16. CASE NudgeOnce
  BY <1>16, <1>0 DEF NudgeOnce, Nudge
<1>17. CASE WaitNudge
  BY <1>17, <1>0 DEF WaitNudge, Await, WaitLink, Results
<1>18. CASE NudgeAgain
  BY <1>18, <1>0 DEF NudgeAgain, Nudge
<1>19. CASE WaitAgain
  BY <1>19, <1>0 DEF WaitAgain, Await, WaitLink, Results
<1>20. CASE ConnectLe
  BY <1>20, <1>0 DEF ConnectLe
<1>21. CASE Join
  BY <1>21, <1>0 DEF Join
<1>22. CASE WaitReenable
  BY <1>22, <1>0 DEF WaitReenable, WaitDuringTask, Await, WaitLink, Results, CancelLastTask
<1>23. CASE Page
  BY <1>23, <1>0 DEF Page
<1>24. CASE WaitPage
  BY <1>24, <1>0 DEF WaitPage, Await, WaitLink, Results
<1>25. CASE WaitToggle
  BY <1>25, <1>0 DEF WaitToggle, WaitDuringTask, Await, WaitLink, Results, CancelLastTask
<1>26. CASE KsDisconnect
  BY <1>26, <1>0 DEF KsDisconnect, CancelLastTask
<1>27. CASE WaitKs
  BY <1>27, <1>0 DEF WaitKs, Await, WaitLink, Results
<1>28. CASE DropLink
  BY <1>28, <1>0 DEF DropLink, Drop, Fault, CancelLastTask
<1>29. CASE WaitDown
  BY <1>29, <1>0 DEF WaitDown, Await, WaitLink, Results
<1>30. CASE EndLink
  BY <1>30, <1>0 DEF EndLink
<1>31. CASE Reap
  BY <1>31, <1>0 DEF Reap
<1>32. CASE ReapWait
  BY <1>32, <1>0 DEF ReapWait
<1>33. CASE ReapDrop
  BY <1>33, <1>0 DEF ReapDrop, Drop, Fault, CancelLastTask
<1>34. CASE WaitReapDown
  BY <1>34, <1>0 DEF WaitReapDown, Await, WaitLink, To
<1>35. CASE Guard
  BY <1>35, <1>0 DEF Guard
<1>36. CASE Redrop
  BY <1>36, <1>0 DEF Redrop, Drop, Fault, CancelLastTask
<1>37. CASE WaitRedrop
  BY <1>37, <1>0 DEF WaitRedrop, Await, WaitLink, To
<1>38. CASE AfterGuard
  BY <1>38, <1>0 DEF AfterGuard
<1>39. CASE PostConnect
  BY <1>39, <1>0 DEF PostConnect
<1>40. CASE BeginPair
  BY <1>40, <1>0 DEF BeginPair
<1>41. CASE Prompt
  BY <1>41, <1>0 DEF Prompt
<1>42. CASE ConnectPaired
  BY <1>42, <1>0 DEF ConnectPaired
<1>43. CASE EndPair
  BY <1>43, <1>0 DEF EndPair
<1>44. CASE Apply
  BY <1>44, <1>0 DEF Apply
<1>45. CASE ReadSnapshot
  BY <1>45, <1>0 DEF ReadSnapshot
<1>46. CASE ClickDevice
  BY <1>46, <1>0 DEF ClickDevice, Click, Submit
<1>47. CASE BtTestLive
  BY <1>47, <1>0 DEF BtTestLive, Click, Submit
<1>48. CASE ClickRadio
  BY <1>48, <1>0 DEF ClickRadio, Click, Submit
<1>49. CASE ClickSearch
  BY <1>49, <1>0 DEF ClickSearch, Click, Submit
<1>50. CASE ClickPair
  BY <1>50, <1>0 DEF ClickPair, Click, Submit
<1>51. CASE StopBluetooth
  BY <1>51, <1>0 DEF StopBluetooth
<1>52. CASE Poll
  BY <1>52, <1>0 DEF Poll, Submit
<1>53. CASE TaskCalls
  BY <1>53, <1>0 DEF TaskCalls
<1>54. CASE TaskReturns
  BY <1>54, <1>0 DEF TaskReturns
<1>55. CASE TaskStops
  BY <1>55, <1>0 DEF TaskStops
<1>56. CASE PageEnds
  BY <1>56, <1>0 DEF PageEnds
<1>57. CASE ListAges
  BY <1>57, <1>0 DEF ListAges
<1>58. CASE LinkMoves
  BY <1>58, <1>0 DEF LinkMoves
<1>59. CASE WatchCallback
  BY <1>59, <1>0 DEF WatchCallback
<1> QED
  BY <1>1, <1>2, <1>3, <1>4, <1>5, <1>6, <1>7, <1>8, <1>9, <1>10, <1>11, <1>12, <1>13, <1>14, <1>15, <1>16,
     <1>17, <1>18, <1>19, <1>20, <1>21, <1>22, <1>23, <1>24, <1>25, <1>26, <1>27, <1>28, <1>29, <1>30, <1>31,
     <1>32, <1>33, <1>34, <1>35, <1>36, <1>37, <1>38, <1>39, <1>40, <1>41, <1>42, <1>43, <1>44, <1>45, <1>46,
     <1>47, <1>48, <1>49, <1>50, <1>51, <1>52, <1>53, <1>54, <1>55, <1>56, <1>57, <1>58, <1>59
  DEF BtNext, BtWorker, BtPanel, BtUser, BtDriver

\* ... and the panel.
LEMMA PanelTypedStep ==
    ASSUME WellTyped, QueueFits, BtNext
    PROVE  PanelTyped'
<1> USE DEF PanelTyped, WellTyped
<1>0. snap \in Shown /\ svc' \in Shown /\ queued \in BOOLEAN /\ kBluetoothMessage \in BOOLEAN
  BY SvcStep
<1>1. CASE Drain
  BY <1>1, <1>0, PublishFits DEF Drain, Forgiven, Unclaimed
<1>2. CASE Pop
  BY <1>2 DEF Pop
<1>3. CASE Retry
  BY <1>3 DEF Retry
<1>4. CASE WorkerEnds
  BY <1>4 DEF WorkerEnds
<1>5. CASE StartSearch
  BY <1>5, <1>0, PublishFits DEF StartSearch, Forgiven, Unclaimed, Fault
<1>6. CASE StopSearch
  BY <1>6, <1>0, PublishFits DEF StopSearch
<1>7. CASE RefreshRadio
  BY <1>7 DEF RefreshRadio, Fault
<1>8. CASE QueryClassic
  BY <1>8 DEF QueryClassic, Query, Fault
<1>9. CASE QueryLe
  BY <1>9 DEF QueryLe, Query, Fault
<1>10. CASE TakeList
  BY <1>10 DEF TakeList, Fault
<1>11. CASE EndRefresh
  BY <1>11, <1>0, PublishFits DEF EndRefresh
<1>12. CASE SwitchRadio
  BY <1>12 DEF SwitchRadio, Fault, Unclaimed
<1>13. CASE EndSwitch
  BY <1>13, <1>0, PublishFits DEF EndSwitch
<1>14. CASE BeginLink
  BY <1>14, <1>0, PublishFits DEF BeginLink, Unclaimed
<1>15. CASE Classify
  BY <1>15 DEF Classify
<1>16. CASE NudgeOnce
  BY <1>16 DEF NudgeOnce, Nudge
<1>17. CASE WaitNudge
  BY <1>17 DEF WaitNudge, Await, WaitLink, Results
<1>18. CASE NudgeAgain
  BY <1>18 DEF NudgeAgain, Nudge
<1>19. CASE WaitAgain
  BY <1>19 DEF WaitAgain, Await, WaitLink, Results
<1>20. CASE ConnectLe
  BY <1>20 DEF ConnectLe
<1>21. CASE Join
  BY <1>21 DEF Join
<1>22. CASE WaitReenable
  BY <1>22 DEF WaitReenable, WaitDuringTask, Await, WaitLink, Results, CancelLastTask
<1>23. CASE Page
  BY <1>23 DEF Page
<1>24. CASE WaitPage
  BY <1>24 DEF WaitPage, Await, WaitLink, Results
<1>25. CASE WaitToggle
  BY <1>25 DEF WaitToggle, WaitDuringTask, Await, WaitLink, Results, CancelLastTask
<1>26. CASE KsDisconnect
  BY <1>26 DEF KsDisconnect, CancelLastTask
<1>27. CASE WaitKs
  BY <1>27 DEF WaitKs, Await, WaitLink, Results
<1>28. CASE DropLink
  BY <1>28 DEF DropLink, Drop, Fault, CancelLastTask
<1>29. CASE WaitDown
  BY <1>29 DEF WaitDown, Await, WaitLink, Results
<1>30. CASE EndLink
  BY <1>30, <1>0, PublishFits DEF EndLink
<1>31. CASE Reap
  BY <1>31 DEF Reap
<1>32. CASE ReapWait
  BY <1>32 DEF ReapWait
<1>33. CASE ReapDrop
  BY <1>33 DEF ReapDrop, Drop, Fault, CancelLastTask
<1>34. CASE WaitReapDown
  BY <1>34 DEF WaitReapDown, Await, WaitLink, To
<1>35. CASE Guard
  BY <1>35 DEF Guard
<1>36. CASE Redrop
  BY <1>36 DEF Redrop, Drop, Fault, CancelLastTask
<1>37. CASE WaitRedrop
  BY <1>37 DEF WaitRedrop, Await, WaitLink, To
<1>38. CASE AfterGuard
  BY <1>38, <1>0, PublishFits DEF AfterGuard
<1>39. CASE PostConnect
  BY <1>39 DEF PostConnect
<1>40. CASE BeginPair
  BY <1>40, <1>0, PublishFits DEF BeginPair
<1>41. CASE Prompt
  BY <1>41 DEF Prompt
<1>42. CASE ConnectPaired
  BY <1>42, <1>0, PublishFits DEF ConnectPaired
<1>43. CASE EndPair
  BY <1>43, <1>0, PublishFits DEF EndPair
<1>44. CASE Apply
  BY <1>44 DEF Apply
<1>45. CASE ReadSnapshot
  BY <1>45 DEF ReadSnapshot
<1>46. CASE ClickDevice
  BY <1>46 DEF ClickDevice, Click
<1>47. CASE BtTestLive
  BY <1>47 DEF BtTestLive, Click
<1>48. CASE ClickRadio
  <2>1. flyout' \in Shown
    BY <1>48 DEF ClickRadio, Click, Shown
  <2> QED BY <1>48, <2>1 DEF ClickRadio, Click
<1>49. CASE ClickSearch
  <2>1. flyout' \in Shown
    BY <1>49 DEF ClickSearch, Click, Shown
  <2> QED BY <1>49, <2>1 DEF ClickSearch, Click
<1>50. CASE ClickPair
  BY <1>50 DEF ClickPair, Click
<1>51. CASE StopBluetooth
  BY <1>51 DEF StopBluetooth
<1>52. CASE Poll
  BY <1>52 DEF Poll
<1>53. CASE TaskCalls
  BY <1>53 DEF TaskCalls, Switches
<1>54. CASE TaskReturns
  BY <1>54 DEF TaskReturns
<1>55. CASE TaskStops
  BY <1>55 DEF TaskStops
<1>56. CASE PageEnds
  BY <1>56 DEF PageEnds
<1>57. CASE ListAges
  BY <1>57 DEF ListAges
<1>58. CASE LinkMoves
  BY <1>58 DEF LinkMoves, Unclaimed, Moves
<1>59. CASE WatchCallback
  BY <1>59 DEF WatchCallback, Moves
<1> QED
  BY <1>1, <1>2, <1>3, <1>4, <1>5, <1>6, <1>7, <1>8, <1>9, <1>10, <1>11, <1>12, <1>13, <1>14, <1>15, <1>16,
     <1>17, <1>18, <1>19, <1>20, <1>21, <1>22, <1>23, <1>24, <1>25, <1>26, <1>27, <1>28, <1>29, <1>30, <1>31,
     <1>32, <1>33, <1>34, <1>35, <1>36, <1>37, <1>38, <1>39, <1>40, <1>41, <1>42, <1>43, <1>44, <1>45, <1>46,
     <1>47, <1>48, <1>49, <1>50, <1>51, <1>52, <1>53, <1>54, <1>55, <1>56, <1>57, <1>58, <1>59
  DEF BtNext, BtWorker, BtPanel, BtUser, BtDriver

-----------------------------------------------------------------------------
(* Where the worker is, and what only an audio device has. *)

\* The worker goes through the places of the job it is in.
LEMMA PlacesStep ==
    ASSUME WellTyped, PlaceFits, BtNext
    PROVE  PlaceFits'
<1> USE DEF PlaceFits, ListPlaces, UpPlaces, DownPlaces, PagePlaces
<1>0. BtNoJob.kind = "none"
  BY DEF BtNoJob, JobOf
<1>1. CASE Drain
  BY <1>1, <1>0 DEF Drain
<1>2. CASE Pop
  <2>1. Head(pending).kind \in JobKinds
    BY <1>2, TailFits, JobsAreJobs DEF Pop, WellTyped, WorkerTyped, BtJobs, JobOf
  <2> QED BY <1>2, <2>1 DEF Pop, JobKinds
<1>3. CASE Retry
  BY <1>3, <1>0 DEF Retry
<1>4. CASE WorkerEnds
  BY <1>4, <1>0 DEF WorkerEnds
<1>5. CASE StartSearch
  BY <1>5, <1>0 DEF StartSearch
<1>6. CASE StopSearch
  BY <1>6, <1>0 DEF StopSearch
<1>7. CASE RefreshRadio
  BY <1>7, <1>0 DEF RefreshRadio
<1>8. CASE QueryClassic
  BY <1>8, <1>0 DEF QueryClassic, Query
<1>9. CASE QueryLe
  BY <1>9, <1>0 DEF QueryLe, Query
<1>10. CASE TakeList
  BY <1>10, <1>0 DEF TakeList
<1>11. CASE EndRefresh
  BY <1>11, <1>0 DEF EndRefresh
<1>12. CASE SwitchRadio
  BY <1>12, <1>0 DEF SwitchRadio
<1>13. CASE EndSwitch
  BY <1>13, <1>0 DEF EndSwitch
<1>14. CASE BeginLink
  BY <1>14, <1>0 DEF BeginLink
<1>15. CASE Classify
  BY <1>15, <1>0 DEF Classify
<1>16. CASE NudgeOnce
  BY <1>16, <1>0 DEF NudgeOnce, Nudge
<1>17. CASE WaitNudge
  BY <1>17, <1>0 DEF WaitNudge, Await, WaitLink, Results
<1>18. CASE NudgeAgain
  BY <1>18, <1>0 DEF NudgeAgain, Nudge
<1>19. CASE WaitAgain
  BY <1>19, <1>0 DEF WaitAgain, Await, WaitLink, Results
<1>20. CASE ConnectLe
  BY <1>20, <1>0 DEF ConnectLe
<1>21. CASE Join
  BY <1>21, <1>0 DEF Join
<1>22. CASE WaitReenable
  BY <1>22, <1>0 DEF WaitReenable, WaitDuringTask, Await, WaitLink, Results
<1>23. CASE Page
  BY <1>23, <1>0 DEF Page
<1>24. CASE WaitPage
  BY <1>24, <1>0 DEF WaitPage, Await, WaitLink, Results
<1>25. CASE WaitToggle
  BY <1>25, <1>0 DEF WaitToggle, WaitDuringTask, Await, WaitLink, Results
<1>26. CASE KsDisconnect
  BY <1>26, <1>0 DEF KsDisconnect
<1>27. CASE WaitKs
  BY <1>27, <1>0 DEF WaitKs, Await, WaitLink, Results
<1>28. CASE DropLink
  BY <1>28, <1>0 DEF DropLink, Drop
<1>29. CASE WaitDown
  BY <1>29, <1>0 DEF WaitDown, Await, WaitLink, Results
<1>30. CASE EndLink
  BY <1>30, <1>0 DEF EndLink, LinkJobs
<1>31. CASE Reap
  BY <1>31, <1>0 DEF Reap
<1>32. CASE ReapWait
  BY <1>32, <1>0 DEF ReapWait
<1>33. CASE ReapDrop
  BY <1>33, <1>0 DEF ReapDrop, Drop
<1>34. CASE WaitReapDown
  BY <1>34, <1>0 DEF WaitReapDown, Await, WaitLink, To
<1>35. CASE Guard
  BY <1>35, <1>0 DEF Guard
<1>36. CASE Redrop
  BY <1>36, <1>0 DEF Redrop, Drop
<1>37. CASE WaitRedrop
  BY <1>37, <1>0 DEF WaitRedrop, Await, WaitLink, To
<1>38. CASE AfterGuard
  BY <1>38, <1>0 DEF AfterGuard
<1>39. CASE PostConnect
  BY <1>39, <1>0 DEF PostConnect
<1>40. CASE BeginPair
  BY <1>40, <1>0 DEF BeginPair
<1>41. CASE Prompt
  BY <1>41, <1>0 DEF Prompt
<1>42. CASE ConnectPaired
  BY <1>42, <1>0 DEF ConnectPaired
<1>43. CASE EndPair
  BY <1>43, <1>0 DEF EndPair
<1>44. CASE Apply
  BY <1>44, <1>0 DEF Apply
<1>45. CASE ReadSnapshot
  BY <1>45, <1>0 DEF ReadSnapshot
<1>46. CASE ClickDevice
  BY <1>46, <1>0 DEF ClickDevice, Click
<1>47. CASE BtTestLive
  BY <1>47, <1>0 DEF BtTestLive, Click
<1>48. CASE ClickRadio
  BY <1>48, <1>0 DEF ClickRadio, Click
<1>49. CASE ClickSearch
  BY <1>49, <1>0 DEF ClickSearch, Click
<1>50. CASE ClickPair
  BY <1>50, <1>0 DEF ClickPair, Click
<1>51. CASE StopBluetooth
  BY <1>51, <1>0 DEF StopBluetooth
<1>52. CASE Poll
  BY <1>52, <1>0 DEF Poll
<1>53. CASE TaskCalls
  BY <1>53, <1>0 DEF TaskCalls
<1>54. CASE TaskReturns
  BY <1>54, <1>0 DEF TaskReturns
<1>55. CASE TaskStops
  BY <1>55, <1>0 DEF TaskStops
<1>56. CASE PageEnds
  BY <1>56, <1>0 DEF PageEnds
<1>57. CASE ListAges
  BY <1>57, <1>0 DEF ListAges
<1>58. CASE LinkMoves
  BY <1>58, <1>0 DEF LinkMoves
<1>59. CASE WatchCallback
  BY <1>59, <1>0 DEF WatchCallback
<1> QED
  BY <1>1, <1>2, <1>3, <1>4, <1>5, <1>6, <1>7, <1>8, <1>9, <1>10, <1>11, <1>12, <1>13, <1>14, <1>15, <1>16,
     <1>17, <1>18, <1>19, <1>20, <1>21, <1>22, <1>23, <1>24, <1>25, <1>26, <1>27, <1>28, <1>29, <1>30, <1>31,
     <1>32, <1>33, <1>34, <1>35, <1>36, <1>37, <1>38, <1>39, <1>40, <1>41, <1>42, <1>43, <1>44, <1>45, <1>46,
     <1>47, <1>48, <1>49, <1>50, <1>51, <1>52, <1>53, <1>54, <1>55, <1>56, <1>57, <1>58, <1>59
  DEF BtNext, BtWorker, BtPanel, BtUser, BtDriver

\* Nothing is asked of the audio stack for a device without audio.
LEMMA HelpersStep ==
    ASSUME WellTyped, PlaceFits, HelpersFit, QueueFits, BtNext
    PROVE  HelpersFit'
<1> USE DEF HelpersFit, PagePlaces
<1>0. pending \in Seq(BtJobs) /\ Ordered(pending) /\ tasks \in Seq(Tasks) /\ BtNoJob.kind = "none"
  BY DEF WellTyped, WorkerTyped, WorldTyped, QueueFits, BtNoJob, JobOf
<1>a. /\ {"refresh", "radio", "post", "start", "stop", "pair"} \subseteq JobKinds \ LinkJobs
      /\ {"connect", "disconnect"} = LinkJobs
  BY DEF JobKinds, LinkJobs
<1>1. CASE Drain
  BY <1>1, <1>0 DEF Drain
<1>2. CASE Pop
  <2>1. /\ Head(pending).kind \in JobKinds
        /\ Has(pending, {"post"}) <=> Has(pending', {"post"}) \/ Head(pending).kind = "post"
    BY <1>2, <1>0, TailFits, JobsAreJobs DEF Pop, BtJobs, JobOf
  <2> QED BY <1>2, <2>1 DEF Pop, JobKinds
<1>3. CASE Retry
  BY <1>3, <1>0, <1>a, QueueOther DEF Retry, Submit
<1>4. CASE WorkerEnds
  BY <1>4, <1>0 DEF WorkerEnds
<1>5. CASE StartSearch
  BY <1>5, <1>0 DEF StartSearch
<1>6. CASE StopSearch
  BY <1>6, <1>0, <1>a, QueueOther DEF StopSearch, Submit
<1>7. CASE RefreshRadio
  BY <1>7, <1>0 DEF RefreshRadio
<1>8. CASE QueryClassic
  BY <1>8, <1>0 DEF QueryClassic, Query
<1>9. CASE QueryLe
  BY <1>9, <1>0 DEF QueryLe, Query
<1>10. CASE TakeList
  <2>1. place' \in {"refreshed", "switched", "listed"}
    BY <1>10 DEF TakeList, PlaceFits, ListPlaces, UpPlaces, DownPlaces
  <2> QED BY <1>10, <2>1 DEF TakeList
<1>11. CASE EndRefresh
  BY <1>11, <1>0 DEF EndRefresh
<1>12. CASE SwitchRadio
  BY <1>12, <1>0 DEF SwitchRadio
<1>13. CASE EndSwitch
  BY <1>13, <1>0 DEF EndSwitch
<1>14. CASE BeginLink
  BY <1>14, <1>0 DEF BeginLink
<1>15. CASE Classify
  BY <1>15, <1>0 DEF Classify
<1>16. CASE NudgeOnce
  BY <1>16, <1>0 DEF NudgeOnce, Nudge
<1>17. CASE WaitNudge
  BY <1>17, <1>0 DEF WaitNudge, Await, WaitLink, Results
<1>18. CASE NudgeAgain
  BY <1>18, <1>0 DEF NudgeAgain, Nudge
<1>19. CASE WaitAgain
  BY <1>19, <1>0 DEF WaitAgain, Await, WaitLink, Results
<1>20. CASE ConnectLe
  BY <1>20, <1>0 DEF ConnectLe
<1>21. CASE Join
  BY <1>21, <1>0 DEF Join, StartTask
<1>22. CASE WaitReenable
  BY <1>22, <1>0 DEF WaitReenable, WaitDuringTask, Await, WaitLink, Results, CancelLastTask
<1>23. CASE Page
  BY <1>23, <1>0 DEF Page, StartTask
<1>24. CASE WaitPage
  BY <1>24, <1>0 DEF WaitPage, Await, WaitLink, Results
<1>25. CASE WaitToggle
  BY <1>25, <1>0 DEF WaitToggle, WaitDuringTask, Await, WaitLink, Results, CancelLastTask
<1>26. CASE KsDisconnect
  BY <1>26, <1>0 DEF KsDisconnect, CancelLastTask
<1>27. CASE WaitKs
  BY <1>27, <1>0 DEF WaitKs, Await, WaitLink, Results
<1>28. CASE DropLink
  BY <1>28, <1>0 DEF DropLink, Drop, CancelLastTask
<1>29. CASE WaitDown
  BY <1>29, <1>0 DEF WaitDown, Await, WaitLink, Results
<1>30. CASE EndLink
  <2> DEFINE q == Enqueue(pending, JobOf("refresh", TRUE))
  <2>1. Has(q, {"post"}) => Has(pending, {"post"})
    BY <1>0, <1>a, QueueOther
  <2>2. ~Audio => pending' \in {pending, q}
    BY <1>30 DEF EndLink
  <2>3. place' \in {"idle", "reap"} /\ job' \in {job, BtNoJob} /\ tasks' = tasks /\ setting' = setting
    BY <1>30 DEF EndLink
  <2> HIDE DEF q
  <2>4. ~Audio => ~Has(pending', {"post"})
    BY <2>1, <2>2
  <2> QED BY <1>0, <2>3, <2>4
<1>31. CASE Reap
  BY <1>31, <1>0 DEF Reap
<1>32. CASE ReapWait
  BY <1>32, <1>0 DEF ReapWait
<1>33. CASE ReapDrop
  BY <1>33, <1>0 DEF ReapDrop, Drop, CancelLastTask
<1>34. CASE WaitReapDown
  BY <1>34, <1>0 DEF WaitReapDown, Await, WaitLink, To
<1>35. CASE Guard
  BY <1>35, <1>0 DEF Guard
<1>36. CASE Redrop
  BY <1>36, <1>0 DEF Redrop, Drop, CancelLastTask
<1>37. CASE WaitRedrop
  BY <1>37, <1>0 DEF WaitRedrop, Await, WaitLink, To
<1>38. CASE AfterGuard
  BY <1>38, <1>0, <1>a, QueueOther DEF AfterGuard
<1>39. CASE PostConnect
  <2>1. job.kind = "post"
    BY <1>39 DEF PostConnect, PlaceFits, ListPlaces, UpPlaces, DownPlaces
  <2> QED BY <1>39, <1>0, <2>1 DEF PostConnect
<1>40. CASE BeginPair
  BY <1>40, <1>0 DEF BeginPair
<1>41. CASE Prompt
  BY <1>41, <1>0 DEF Prompt
<1>42. CASE ConnectPaired
  BY <1>42, <1>0 DEF ConnectPaired
<1>43. CASE EndPair
  BY <1>43, <1>0, <1>a, QueueOther DEF EndPair
<1>44. CASE Apply
  BY <1>44, <1>0 DEF Apply
<1>45. CASE ReadSnapshot
  BY <1>45, <1>0 DEF ReadSnapshot
<1>46. CASE ClickDevice
  BY <1>46, <1>0, <1>a, QueueLink DEF ClickDevice, Submit, Click
<1>47. CASE BtTestLive
  BY <1>47, <1>0, <1>a, QueueLink DEF BtTestLive, Submit, Click
<1>48. CASE ClickRadio
  <2>1. (~flyout.radio) \in BOOLEAN
    BY DEF WellTyped, PanelTyped, Shown
  <2> QED BY <1>48, <2>1, <1>0, <1>a, QueueOther DEF ClickRadio, Click, Submit
<1>49. CASE ClickSearch
  <2>1. PICK k \in {"stop", "start"} : pending' = Enqueue(pending, JobOf(k, FALSE))
    BY <1>49 DEF ClickSearch, Submit
  <2>2. k \in JobKinds \ LinkJobs /\ k # "post"
    BY <1>a
  <2>3. Has(pending', {"post"}) => Has(pending, {"post"})
    BY <2>1, <2>2, <1>0, QueueOther
  <2> QED BY <1>49, <2>3 DEF ClickSearch, Click
<1>50. CASE ClickPair
  BY <1>50, <1>0, <1>a, QueueOther DEF ClickPair, Submit, Click
<1>51. CASE StopBluetooth
  BY <1>51, <1>0 DEF StopBluetooth
<1>52. CASE Poll
  BY <1>52, <1>0, <1>a, QueueOther DEF Poll, Submit
<1>53. CASE TaskCalls
  BY <1>53, <1>0 DEF TaskCalls, Switches
<1>54. CASE TaskReturns
  BY <1>54, <1>0 DEF TaskReturns
<1>55. CASE TaskStops
  BY <1>55, <1>0 DEF TaskStops
<1>56. CASE PageEnds
  BY <1>56, <1>0 DEF PageEnds
<1>57. CASE ListAges
  BY <1>57, <1>0 DEF ListAges
<1>58. CASE LinkMoves
  BY <1>58, <1>0 DEF LinkMoves
<1>59. CASE WatchCallback
  BY <1>59, <1>0 DEF WatchCallback
<1> QED
  BY <1>1, <1>2, <1>3, <1>4, <1>5, <1>6, <1>7, <1>8, <1>9, <1>10, <1>11, <1>12, <1>13, <1>14, <1>15, <1>16,
     <1>17, <1>18, <1>19, <1>20, <1>21, <1>22, <1>23, <1>24, <1>25, <1>26, <1>27, <1>28, <1>29, <1>30, <1>31,
     <1>32, <1>33, <1>34, <1>35, <1>36, <1>37, <1>38, <1>39, <1>40, <1>41, <1>42, <1>43, <1>44, <1>45, <1>46,
     <1>47, <1>48, <1>49, <1>50, <1>51, <1>52, <1>53, <1>54, <1>55, <1>56, <1>57, <1>58, <1>59
  DEF BtNext, BtWorker, BtPanel, BtUser, BtDriver

-----------------------------------------------------------------------------
(* The queue follows the newest click. *)

\* A step that neither clicks for the link nor takes a job.
LEMMA QueueKept ==
    ASSUME QueueFits, SameClaims(pending', pending),
           intent' # "none" => intent' = intent /\ (PairFollowed(pending) => PairFollowed(pending')),
           job'.kind \in {job.kind, "none"},
           running' /\ cancel' /\ job'.kind \in LinkJobs => running /\ cancel
    PROVE  QueueFits'
<1>1. Waits' <=> Waits
  BY DEF SameClaims, Waits
<1>2. /\ Has(pending', {"connect"}) <=> Has(pending, {"connect"})
      /\ Has(pending', {"disconnect"}) <=> Has(pending, {"disconnect"})
  BY DEF SameClaims, LinkJobs
<1>3. Ordered(pending')
  BY DEF SameClaims
<1>4. job'.kind \in LinkJobs => job.kind \in LinkJobs
  BY DEF LinkJobs
<1> QED BY <1>1, <1>2, <1>3, <1>4 DEF QueueFits

\* Every step keeps what waits and what is in flight in line with the newest click.
LEMMA QueueStep ==
    ASSUME WellTyped, PlaceFits, QueueFits, BtNext
    PROVE  QueueFits'
<1>0. pending \in Seq(BtJobs) /\ Ordered(pending) /\ BtNoJob.kind = "none"
  BY DEF WellTyped, WorkerTyped, QueueFits, BtNoJob, JobOf
<1>a. /\ {"refresh", "radio", "post", "start", "stop", "pair"} \subseteq JobKinds \ LinkJobs
      /\ {"connect", "disconnect"} = LinkJobs
  BY DEF JobKinds, LinkJobs
<1>b. SameClaims(pending, pending)
  BY <1>0 DEF SameClaims
<1>1. CASE Drain
  BY <1>1, <1>0, <1>b, QueueKept DEF Drain, Forgiven, Unclaimed
<1>2. CASE Pop
  <2> DEFINE h == Head(pending).kind
  <2> DEFINE t == Tail(pending)
  <2>1. /\ Ordered(t)
        /\ PairFollowed(pending) => PairFollowed(t)
        /\ PairFollowed(pending) /\ h = "pair" => Has(t, LinkJobs)
        /\ Has(pending, {"connect"}) <=> Has(t, {"connect"}) \/ h = "connect"
        /\ Has(pending, {"disconnect"}) <=> Has(t, {"disconnect"}) \/ h = "disconnect"
    BY <1>2, <1>0, TailFits DEF Pop
  <2>2. pending' = t /\ job'.kind = h /\ ~cancel' /\ intent' = intent
    BY <1>2 DEF Pop
  <2> HIDE DEF h, t
  <2> QED BY <2>1, <2>2 DEF QueueFits, Waits
<1>3. CASE Retry
  <2>1. /\ SameClaims(pending', pending)
        /\ PairFollowed(pending) => PairFollowed(pending')
    BY <1>3, <1>0, <1>a, <1>b, QueueOther DEF Retry, Submit
  <2> QED BY <1>3, <1>0, <2>1, QueueKept DEF Retry, Submit, Supersedes, LinkJobs, JobOf
<1>4. CASE WorkerEnds
  BY <1>4, <1>0, <1>b, QueueKept DEF WorkerEnds
<1>5. CASE StartSearch
  BY <1>5, <1>0, <1>b, QueueKept DEF StartSearch, Forgiven, Unclaimed
<1>6. CASE StopSearch
  <2>1. /\ SameClaims(pending', pending)
        /\ PairFollowed(pending) => PairFollowed(pending')
    BY <1>6, <1>0, <1>a, <1>b, QueueOther DEF StopSearch, Submit
  <2> QED BY <1>6, <1>0, <2>1, QueueKept DEF StopSearch, Submit, Supersedes, LinkJobs
<1>7. CASE RefreshRadio
  BY <1>7, <1>0, <1>b, QueueKept DEF RefreshRadio
<1>8. CASE QueryClassic
  BY <1>8, <1>0, <1>b, QueueKept DEF QueryClassic, Query
<1>9. CASE QueryLe
  BY <1>9, <1>0, <1>b, QueueKept DEF QueryLe, Query
<1>10. CASE TakeList
  BY <1>10, <1>0, <1>b, QueueKept DEF TakeList
<1>11. CASE EndRefresh
  BY <1>11, <1>0, <1>b, QueueKept DEF EndRefresh
<1>12. CASE SwitchRadio
  BY <1>12, <1>0, <1>b, QueueKept DEF SwitchRadio, Unclaimed
<1>13. CASE EndSwitch
  BY <1>13, <1>0, <1>b, QueueKept DEF EndSwitch
<1>14. CASE BeginLink
  BY <1>14, <1>0, <1>b, QueueKept DEF BeginLink, Unclaimed
<1>15. CASE Classify
  BY <1>15, <1>0, <1>b, QueueKept DEF Classify
<1>16. CASE NudgeOnce
  BY <1>16, <1>0, <1>b, QueueKept DEF NudgeOnce, Nudge
<1>17. CASE WaitNudge
  BY <1>17, <1>0, <1>b, QueueKept DEF WaitNudge, Await
<1>18. CASE NudgeAgain
  BY <1>18, <1>0, <1>b, QueueKept DEF NudgeAgain, Nudge
<1>19. CASE WaitAgain
  BY <1>19, <1>0, <1>b, QueueKept DEF WaitAgain, Await
<1>20. CASE ConnectLe
  BY <1>20, <1>0, <1>b, QueueKept DEF ConnectLe
<1>21. CASE Join
  BY <1>21, <1>0, <1>b, QueueKept DEF Join, StartTask
<1>22. CASE WaitReenable
  BY <1>22, <1>0, <1>b, QueueKept DEF WaitReenable, WaitDuringTask, Await, CancelLastTask
<1>23. CASE Page
  BY <1>23, <1>0, <1>b, QueueKept DEF Page, StartTask
<1>24. CASE WaitPage
  BY <1>24, <1>0, <1>b, QueueKept DEF WaitPage, Await
<1>25. CASE WaitToggle
  BY <1>25, <1>0, <1>b, QueueKept DEF WaitToggle, WaitDuringTask, Await, CancelLastTask
<1>26. CASE KsDisconnect
  BY <1>26, <1>0, <1>b, QueueKept DEF KsDisconnect, CancelLastTask
<1>27. CASE WaitKs
  BY <1>27, <1>0, <1>b, QueueKept DEF WaitKs, Await
<1>28. CASE DropLink
  BY <1>28, <1>0, <1>b, QueueKept DEF DropLink, Drop, CancelLastTask
<1>29. CASE WaitDown
  BY <1>29, <1>0, <1>b, QueueKept DEF WaitDown, Await
<1>30. CASE EndLink
  <2> DEFINE q == Enqueue(pending, JobOf("refresh", TRUE))
  <2>1. /\ SameClaims(q, pending)
        /\ PairFollowed(pending) => PairFollowed(q)
    BY <1>0, <1>a, QueueOther
  <2> DEFINE r == Enqueue(q, JobOf("post", FALSE))
  <2>2. pending' \in {pending, q, r} /\ UNCHANGED <<intent, running, cancel>> /\ job' \in {job, BtNoJob}
    BY <1>30 DEF EndLink
  <2> HIDE DEF q
  <2>3. /\ SameClaims(r, q)
        /\ PairFollowed(q) => PairFollowed(r)
    BY <2>1, <1>a, QueueOther DEF SameClaims
  <2> HIDE DEF r
  <2>4. /\ SameClaims(pending', pending)
        /\ PairFollowed(pending) => PairFollowed(pending')
    BY <2>1, <2>2, <2>3, <1>b DEF SameClaims
  <2> QED BY <1>0, <2>2, <2>4, QueueKept DEF LinkJobs
<1>31. CASE Reap
  BY <1>31, <1>0, <1>b, QueueKept DEF Reap
<1>32. CASE ReapWait
  BY <1>32, <1>0, <1>b, QueueKept DEF ReapWait
<1>33. CASE ReapDrop
  BY <1>33, <1>0, <1>b, QueueKept DEF ReapDrop, Drop, CancelLastTask
<1>34. CASE WaitReapDown
  BY <1>34, <1>0, <1>b, QueueKept DEF WaitReapDown, Await
<1>35. CASE Guard
  BY <1>35, <1>0, <1>b, QueueKept DEF Guard
<1>36. CASE Redrop
  BY <1>36, <1>0, <1>b, QueueKept DEF Redrop, Drop, CancelLastTask
<1>37. CASE WaitRedrop
  BY <1>37, <1>0, <1>b, QueueKept DEF WaitRedrop, Await
<1>38. CASE AfterGuard
  <2>1. /\ SameClaims(pending', pending)
        /\ PairFollowed(pending) => PairFollowed(pending')
    BY <1>38, <1>0, <1>a, <1>b, QueueOther DEF AfterGuard
  <2> QED BY <1>38, <1>0, <2>1, QueueKept DEF AfterGuard
<1>39. CASE PostConnect
  BY <1>39, <1>0, <1>b, QueueKept DEF PostConnect, StartTask
<1>40. CASE BeginPair
  BY <1>40, <1>0, <1>b, QueueKept DEF BeginPair
<1>41. CASE Prompt
  BY <1>41, <1>0, <1>b, QueueKept DEF Prompt
<1>42. CASE ConnectPaired
  BY <1>42, <1>0, <1>b, QueueKept DEF ConnectPaired
<1>43. CASE EndPair
  <2>1. /\ SameClaims(pending', pending)
        /\ PairFollowed(pending) => PairFollowed(pending')
    BY <1>43, <1>0, <1>a, <1>b, QueueOther DEF EndPair
  <2> QED BY <1>43, <1>0, <2>1, QueueKept DEF EndPair
<1>44. CASE Apply
  BY <1>44, <1>0, <1>b, QueueKept DEF Apply
<1>45. CASE ReadSnapshot
  BY <1>45, <1>0, <1>b, QueueKept DEF ReadSnapshot
<1>46. CASE ClickDevice
  <2>1. \/ Submit(JobOf("disconnect", FALSE)) /\ intent' = "down"
        \/ Submit(JobOf("connect", FALSE)) /\ intent' = "up"
    BY <1>46 DEF ClickDevice
  <2>2. /\ Ordered(pending') /\ PairFollowed(pending') /\ Has(pending', LinkJobs)
        /\ intent' = "up" => ~Has(pending', {"disconnect"})
        /\ intent' = "down" => ~Has(pending', {"connect"})
    BY <2>1, <1>0, <1>a, QueueLink DEF Submit
  <2> QED BY <2>2 DEF QueueFits, Waits
<1>47. CASE BtTestLive
  <2>1. \/ Submit(JobOf("disconnect", FALSE)) /\ intent' = "down"
        \/ Submit(JobOf("connect", FALSE)) /\ intent' = "up"
    BY <1>47 DEF BtTestLive
  <2>2. /\ Ordered(pending') /\ PairFollowed(pending') /\ Has(pending', LinkJobs)
        /\ intent' = "up" => ~Has(pending', {"disconnect"})
        /\ intent' = "down" => ~Has(pending', {"connect"})
    BY <2>1, <1>0, <1>a, QueueLink DEF Submit
  <2> QED BY <2>2 DEF QueueFits, Waits
<1>48. CASE ClickRadio
  <2>0. (~flyout.radio) \in BOOLEAN
    BY DEF WellTyped, PanelTyped, Shown
  <2>1. PICK b \in BOOLEAN : Submit(JobOf("radio", b))
    BY <1>48, <2>0 DEF ClickRadio
  <2>2. /\ SameClaims(pending', pending)
        /\ PairFollowed(pending) => PairFollowed(pending')
    BY <2>1, <1>0, <1>a, QueueOther DEF Submit
  <2>3. cancel' /\ job.kind \in LinkJobs => cancel
    BY <2>1 DEF Submit, Supersedes, LinkJobs, JobOf
  <2> QED BY <1>48, <1>0, <2>2, <2>3, QueueKept DEF ClickRadio, Click
<1>49. CASE ClickSearch
  <2>1. PICK k \in {"stop", "start"} : Submit(JobOf(k, FALSE))
    BY <1>49 DEF ClickSearch
  <2>2. /\ SameClaims(pending', pending)
        /\ PairFollowed(pending) => PairFollowed(pending')
    BY <2>1, <1>0, <1>a, QueueOther DEF Submit
  <2>3. cancel' /\ job.kind \in LinkJobs => cancel
    BY <2>1 DEF Submit, Supersedes, LinkJobs, JobOf
  <2> QED BY <1>49, <1>0, <2>2, <2>3, QueueKept DEF ClickSearch, Click
<1>50. CASE ClickPair
  <2>1. SameClaims(pending', pending)
    BY <1>50, <1>0, <1>a, QueueOther DEF ClickPair, Submit
  <2> QED BY <1>50, <1>0, <2>1, QueueKept DEF ClickPair, Click, Submit, Supersedes, LinkJobs, JobOf
<1>51. CASE StopBluetooth
  BY <1>51, <1>0, <1>b, QueueKept DEF StopBluetooth
<1>52. CASE Poll
  <2>1. /\ SameClaims(pending', pending)
        /\ PairFollowed(pending) => PairFollowed(pending')
    BY <1>52, <1>0, <1>a, <1>b, QueueOther DEF Poll, Submit
  <2> QED BY <1>52, <1>0, <2>1, QueueKept DEF Poll, Submit, Supersedes, LinkJobs, JobOf
<1>53. CASE TaskCalls
  BY <1>53, <1>0, <1>b, QueueKept DEF TaskCalls, Switches
<1>54. CASE TaskReturns
  BY <1>54, <1>0, <1>b, QueueKept DEF TaskReturns
<1>55. CASE TaskStops
  BY <1>55, <1>0, <1>b, QueueKept DEF TaskStops
<1>56. CASE PageEnds
  BY <1>56, <1>0, <1>b, QueueKept DEF PageEnds
<1>57. CASE ListAges
  BY <1>57, <1>0, <1>b, QueueKept DEF ListAges
<1>58. CASE LinkMoves
  BY <1>58, <1>0, <1>b, QueueKept DEF LinkMoves, Unclaimed
<1>59. CASE WatchCallback
  BY <1>59, <1>0, <1>b, QueueKept DEF WatchCallback
<1> QED
  BY <1>1, <1>2, <1>3, <1>4, <1>5, <1>6, <1>7, <1>8, <1>9, <1>10, <1>11, <1>12, <1>13, <1>14, <1>15, <1>16,
     <1>17, <1>18, <1>19, <1>20, <1>21, <1>22, <1>23, <1>24, <1>25, <1>26, <1>27, <1>28, <1>29, <1>30, <1>31,
     <1>32, <1>33, <1>34, <1>35, <1>36, <1>37, <1>38, <1>39, <1>40, <1>41, <1>42, <1>43, <1>44, <1>45, <1>46,
     <1>47, <1>48, <1>49, <1>50, <1>51, <1>52, <1>53, <1>54, <1>55, <1>56, <1>57, <1>58, <1>59
  DEF BtNext, BtWorker, BtPanel, BtUser, BtDriver

-----------------------------------------------------------------------------
(* The link follows the newest click. *)

LEMMA ClaimIsGivenUp == ~Waits => Unclaimed = "none"
  BY DEF Waits, Has, Unclaimed

\* A step that the claim does not see, or that gives it up.
LEMMA ClaimKept ==
    ASSUME ClaimFits, UNCHANGED <<setting, link, paging, tasks>>, svc'.error = svc.error,
           \/ UNCHANGED <<job, place, outcome>>
           \/ job.kind \notin LinkJobs /\ job'.kind \notin LinkJobs,
           intent' \in {intent, "none"}, running' => running, refused => refused', Waits' <=> Waits
    PROVE  ClaimFits'
  BY DEF ClaimFits, Owed, DownUnderWay, UpUnderWay, Still, LinkJobs

\* While a device is paired the link has no claim.
LEMMA ClaimPairing ==
    ASSUME QueueFits, job.kind = "pair", intent' \in {intent, "none"}, Waits' <=> Waits
    PROVE  ClaimFits'
  BY DEF ClaimFits, Owed, QueueFits

\* Every step keeps the link on its way to what the newest click asked, or says that it failed.
LEMMA ClaimStep ==
    ASSUME ~SlowDriver, WellTyped, PlaceFits, HelpersFit, QueueFits, ClaimFits, BtNext
    PROVE  ClaimFits'
<1>0. /\ pending \in Seq(BtJobs) /\ Ordered(pending) /\ BtNoJob.kind = "none"
      /\ link \in BOOLEAN /\ paging \in BOOLEAN /\ running \in BOOLEAN /\ refused \in BOOLEAN
      /\ svc \in Shown /\ svc' \in Shown /\ tasks \in Seq(Tasks)
  BY SvcStep DEF WellTyped, WorldTyped, WorkerTyped, PanelTyped, QueueFits, BtNoJob, JobOf
<1>a. /\ {"refresh", "radio", "post", "start", "stop", "pair"} \subseteq JobKinds \ LinkJobs
      /\ {"connect", "disconnect"} = LinkJobs
  BY DEF JobKinds, LinkJobs
<1>b. SameClaims(pending, pending)
  BY <1>0 DEF SameClaims
<1>c. /\ Owed /\ intent = "down" => job.kind \notin {"connect", "pair"}
      /\ Owed /\ intent = "up" => job.kind \notin {"disconnect", "pair"}
      /\ Owed /\ job.kind \in LinkJobs => ~JobCancelled
  BY DEF Owed, QueueFits
<1>d. UNCHANGED pending => (Waits' <=> Waits)
  BY DEF Waits
<1>e. SameClaims(pending', pending) => (Waits' <=> Waits)
  BY DEF Waits, SameClaims
<1>f. /\ place = "idle" => job = BtNoJob
      /\ place \in {"refresh", "refreshed", "query", "queryLe", "list"} => job.kind \in {"refresh", "radio", "pair"}
      /\ place \in {"radio", "switched"} => job.kind = "radio"
      /\ place \in {"post", "start", "stop"} => job.kind = place
      /\ place \in UpPlaces \ {"result"} => job.kind \in {"connect", "pair"}
      /\ place \in DownPlaces \ {"result"} => job.kind = "disconnect"
      /\ place \in {"pair", "prompt", "listed"} => job.kind = "pair"
      /\ place \in {"connect", "disconnect"} => job.kind = place
  BY <1>0 DEF PlaceFits, ListPlaces, UpPlaces, DownPlaces, PagePlaces
<1>1. CASE Drain
  <2>1. UNCHANGED <<setting, link, paging, tasks>> /\ UNCHANGED pending /\ running' = running
    BY <1>1 DEF Drain
  <2>2. job.kind \notin LinkJobs /\ job'.kind \notin LinkJobs /\ (refused => refused')
    BY <1>1, <1>0, <1>a, <1>f DEF Drain
  <2>3. svc'.error => svc.error
    BY <1>1, DrainFits DEF Drain, WellTyped, WorldTyped, WorkerTyped
  <2>4. intent' = IF svc.error /\ ~svc'.error THEN Unclaimed ELSE intent
    BY <1>1 DEF Drain, Forgiven
  <2>5. CASE svc'.error = svc.error
    BY <1>d, <2>1, <2>2, <2>4, <2>5, ClaimKept
  <2>6. CASE svc.error /\ ~svc'.error
    BY <1>d, <2>1, <2>4, <2>6, ClaimIsGivenUp DEF ClaimFits, Owed
  <2> QED BY <1>0, <2>3, <2>5, <2>6 DEF Shown
<1>2. CASE Pop
  <2> DEFINE h == Head(pending).kind
  <2>1. Waits <=> Waits' \/ h \in LinkJobs
    BY <1>2, <1>0, TailFits DEF Pop, Waits
  <2>2. /\ job'.kind = h /\ place' = h /\ intent' = intent /\ job.kind \notin LinkJobs
        /\ UNCHANGED <<setting, link, paging, tasks, running, refused>> /\ svc'.error = svc.error
    BY <1>2, <1>0, <1>a, <1>f DEF Pop
  <2> HIDE DEF h
  <2>3. CASE h \notin LinkJobs
    BY <2>1, <2>2, <2>3, ClaimKept
  <2>4. CASE h \in LinkJobs
    <3>1. QueueFits'
      BY QueueStep
    <3> QED BY <1>a, <2>2, <2>4, <3>1 DEF ClaimFits, Owed, QueueFits, DownUnderWay, UpUnderWay
  <2> QED BY <2>3, <2>4
<1>3. CASE Retry
  <2>1. SameClaims(pending', pending)
    BY <1>3, <1>0, <1>a, QueueOther DEF Retry, Submit
  <2> QED BY <1>3, <1>0, <1>e, <1>f, <2>1, ClaimKept DEF Retry
<1>4. CASE WorkerEnds
  <2>1. svc'.error = svc.error
    BY <1>4, <1>0 DEF WorkerEnds, Shown
  <2> QED BY <1>4, <1>0, <1>a, <1>d, <1>f, <2>1, ClaimKept, ClaimPairing DEF WorkerEnds
<1>5. CASE StartSearch
  <2>1. UNCHANGED <<setting, link, paging, tasks>> /\ UNCHANGED pending /\ running' = running
    BY <1>5 DEF StartSearch
  <2>2. job.kind \notin LinkJobs /\ job'.kind \notin LinkJobs /\ (refused => refused')
    BY <1>5, <1>0, <1>a, <1>f DEF StartSearch
  <2>3. svc'.error => svc.error
    <3> DEFINE s == [svc EXCEPT !.radio = @ \/ radio]
    <3>1. s \in Shown /\ s.error = svc.error
      BY <1>0 DEF WellTyped, WorldTyped, Shown
    <3>2. \/ svc' = s
          \/ svc' = [Unsearched(s) EXCEPT !.searching = TRUE, !.error = FALSE]
          \/ svc' = [Unsearched(s) EXCEPT !.error = FALSE]
      BY <1>5 DEF StartSearch
    <3> HIDE DEF s
    <3>3. Unsearched(s) \in Shown
      BY <3>1, UnsearchedFits
    <3> QED BY <3>1, <3>2, <3>3 DEF Shown
  <2>4. intent' = IF svc.error /\ ~svc'.error THEN Unclaimed ELSE intent
    BY <1>5 DEF StartSearch, Forgiven
  <2>5. CASE svc'.error = svc.error
    BY <1>d, <2>1, <2>2, <2>4, <2>5, ClaimKept
  <2>6. CASE svc.error /\ ~svc'.error
    BY <1>d, <2>1, <2>4, <2>6, ClaimIsGivenUp DEF ClaimFits, Owed
  <2> QED BY <1>0, <2>3, <2>5, <2>6 DEF Shown
<1>6. CASE StopSearch
  <2>1. svc'.error = svc.error
    BY <1>6, <1>0, UnsearchedFits DEF StopSearch
  <2>2. SameClaims(pending', pending)
    BY <1>6, <1>0, <1>a, QueueOther DEF StopSearch, Submit
  <2> QED BY <1>6, <1>0, <1>a, <1>e, <1>f, <2>1, <2>2, ClaimKept DEF StopSearch
<1>7. CASE RefreshRadio
  <2>1. svc'.error = svc.error
    BY <1>7, <1>0 DEF RefreshRadio, Shown
  <2> QED BY <1>7, <1>0, <1>a, <1>d, <1>f, <2>1, ClaimKept, ClaimPairing DEF RefreshRadio, Fault
<1>8. CASE QueryClassic
  <2>1. svc'.error = svc.error
    BY <1>8, <1>0 DEF QueryClassic, Listed, Query, Shown
  <2> QED BY <1>8, <1>0, <1>a, <1>d, <1>f, <2>1, ClaimKept, ClaimPairing DEF QueryClassic, Query, Fault
<1>9. CASE QueryLe
  <2>1. svc'.error = svc.error
    BY <1>9, <1>0 DEF QueryLe, Listed, Query, Shown
  <2> QED BY <1>9, <1>0, <1>a, <1>d, <1>f, <2>1, ClaimKept, ClaimPairing DEF QueryLe, Query, Fault
<1>10. CASE TakeList
  <2>1. svc'.error = svc.error
    BY <1>10, <1>0 DEF TakeList, Listed, Query, Shown
  <2> QED BY <1>10, <1>0, <1>a, <1>d, <1>f, <2>1, ClaimKept, ClaimPairing DEF TakeList, Fault
<1>11. CASE EndRefresh
  <2>1. svc'.error = svc.error
    BY <1>11, <1>0 DEF EndRefresh, Shown
  <2> QED BY <1>11, <1>0, <1>a, <1>d, <1>f, <2>1, ClaimKept, ClaimPairing DEF EndRefresh
<1>12. CASE SwitchRadio
  <2>1. svc'.error = svc.error
    BY <1>12, <1>0, UnsearchedFits DEF SwitchRadio, Shown
  <2>2. job'.kind = job.kind /\ job.kind \notin LinkJobs /\ UNCHANGED <<setting, tasks, running>> /\ (Waits' <=> Waits)
    BY <1>12, <1>d, <1>f, <1>a DEF SwitchRadio
  <2>3. \/ UNCHANGED <<link, paging, intent, refused>>
        \/ intent' = Unclaimed
        \/ refused'
    BY <1>12, <1>0 DEF SwitchRadio
  <2>4. CASE UNCHANGED <<link, paging, intent, refused>>
    BY <2>1, <2>2, <2>4, ClaimKept
  <2>5. CASE intent' = Unclaimed
    BY <2>2, <2>5, ClaimIsGivenUp DEF ClaimFits, Owed
  <2>6. CASE refused'
    BY <2>6 DEF ClaimFits, Owed
  <2> QED BY <2>3, <2>4, <2>5, <2>6
<1>13. CASE EndSwitch
  <2>1. svc'.error = svc.error
    BY <1>13, <1>0 DEF EndSwitch, Shown
  <2> QED BY <1>13, <1>0, <1>a, <1>d, <1>f, <2>1, ClaimKept, ClaimPairing DEF EndSwitch
<1>14. CASE BeginLink
  <2>1. /\ job.kind \in LinkJobs /\ place = job.kind /\ (Waits' <=> Waits)
        /\ UNCHANGED <<setting, link, paging, tasks, running, refused>>
    BY <1>14, <1>a, <1>d, <1>f DEF BeginLink
  <2>2. \/ intent' = Unclaimed
        \/ /\ intent' = intent /\ job' = job /\ svc' = [svc EXCEPT !.error = FALSE, !.busy = TRUE]
           /\ place' \in {"classify", "ks", "ioctl"}
    BY <1>14 DEF BeginLink
  <2>3. CASE intent' = Unclaimed
    BY <2>1, <2>3, ClaimIsGivenUp DEF ClaimFits, Owed
  <2>4. CASE /\ intent' = intent /\ job' = job /\ svc' = [svc EXCEPT !.error = FALSE, !.busy = TRUE]
             /\ place' \in {"classify", "ks", "ioctl"}
    <3>1. ~svc'.error
      BY <1>0, <2>4 DEF Shown
    <3> QED BY <1>a, <1>c, <2>1, <2>4, <3>1 DEF ClaimFits, Owed, DownUnderWay, UpUnderWay, Still
  <2> QED BY <2>2, <2>3, <2>4
<1>15. CASE Classify
  BY <1>15, <1>0, <1>a, <1>c, <1>d, <1>f, ClaimPairing
  DEF Classify, ClaimFits, Owed, DownUnderWay, UpUnderWay, Still, UpPlaces, DownPlaces, PagePlaces
<1>16. CASE NudgeOnce
  BY <1>16, <1>0, <1>a, <1>c, <1>d, <1>f, ClaimPairing
  DEF NudgeOnce, Nudge, ClaimFits, Owed, DownUnderWay, UpUnderWay, Still, UpPlaces, DownPlaces, PagePlaces
<1>17. CASE WaitNudge
  BY <1>17, <1>0, <1>a, <1>c, <1>d, <1>f, ClaimPairing
  DEF WaitNudge, Await, WaitLink, Results, ClaimFits, Owed, DownUnderWay, UpUnderWay, Still, UpPlaces,
      DownPlaces, PagePlaces
<1>18. CASE NudgeAgain
  BY <1>18, <1>0, <1>a, <1>c, <1>d, <1>f, ClaimPairing
  DEF NudgeAgain, Nudge, ClaimFits, Owed, DownUnderWay, UpUnderWay, Still, UpPlaces, DownPlaces, PagePlaces
<1>19. CASE WaitAgain
  BY <1>19, <1>0, <1>a, <1>c, <1>d, <1>f, ClaimPairing
  DEF WaitAgain, Await, WaitLink, Results, ClaimFits, Owed, DownUnderWay, UpUnderWay, Still, UpPlaces,
      DownPlaces, PagePlaces, HelpersFit
<1>20. CASE ConnectLe
  BY <1>20, <1>0, <1>a, <1>c, <1>d, <1>f, ClaimPairing
  DEF ConnectLe, ClaimFits, Owed, DownUnderWay, UpUnderWay, Still, UpPlaces, DownPlaces, PagePlaces, HelpersFit
<1>21. CASE Join
  BY <1>21, <1>0, <1>a, <1>c, <1>d, <1>f, ClaimPairing
  DEF Join, StartTask, ClaimFits, Owed, DownUnderWay, UpUnderWay, Still, UpPlaces, DownPlaces, PagePlaces
<1>22. CASE WaitReenable
  BY <1>22, <1>0, <1>a, <1>c, <1>d, <1>f, ClaimPairing
  DEF WaitReenable, WaitDuringTask, Await, WaitLink, Results, CancelLastTask, ClaimFits, Owed, DownUnderWay,
      UpUnderWay, Still, UpPlaces, DownPlaces, PagePlaces
<1>23. CASE Page
  BY <1>23, <1>0, <1>a, <1>c, <1>d, <1>f, ClaimPairing
  DEF Page, StartTask, ClaimFits, Owed, DownUnderWay, UpUnderWay, Still, UpPlaces, DownPlaces, PagePlaces
<1>24. CASE WaitPage
  BY <1>24, <1>0, <1>a, <1>c, <1>d, <1>f, ClaimPairing
  DEF WaitPage, Await, WaitLink, Results, ClaimFits, Owed, DownUnderWay, UpUnderWay, Still, UpPlaces,
      DownPlaces, PagePlaces
<1>25. CASE WaitToggle
  BY <1>25, <1>0, <1>a, <1>c, <1>d, <1>f, ClaimPairing
  DEF WaitToggle, WaitDuringTask, Await, WaitLink, Results, CancelLastTask, ClaimFits, Owed, DownUnderWay,
      UpUnderWay, Still, UpPlaces, DownPlaces, PagePlaces
<1>26. CASE KsDisconnect
  BY <1>26, <1>0, <1>a, <1>c, <1>d, <1>f, ClaimPairing
  DEF KsDisconnect, CancelLastTask, ClaimFits, Owed, DownUnderWay, UpUnderWay, Still, UpPlaces, DownPlaces,
      PagePlaces
<1>27. CASE WaitKs
  BY <1>27, <1>0, <1>a, <1>c, <1>d, <1>f, ClaimPairing
  DEF WaitKs, Await, WaitLink, Results, ClaimFits, Owed, DownUnderWay, UpUnderWay, Still, UpPlaces, DownPlaces,
      PagePlaces
<1>28. CASE DropLink
  BY <1>28, <1>0, <1>a, <1>c, <1>d, <1>f, ClaimPairing
  DEF DropLink, Drop, Fault, CancelLastTask, ClaimFits, Owed, DownUnderWay, UpUnderWay, Still, UpPlaces,
      DownPlaces, PagePlaces
<1>29. CASE WaitDown
  BY <1>29, <1>0, <1>a, <1>c, <1>d, <1>f, ClaimPairing
  DEF WaitDown, Await, WaitLink, Results, ClaimFits, Owed, DownUnderWay, UpUnderWay, Still, UpPlaces,
      DownPlaces, PagePlaces
<1>30. CASE EndLink
  <2>1. Waits' <=> Waits
    <3> DEFINE q == Enqueue(pending, JobOf("refresh", TRUE))
    <3> DEFINE r == Enqueue(q, JobOf("post", FALSE))
    <3>1. SameClaims(q, pending)
      BY <1>0, <1>a, QueueOther
    <3>2. pending' \in {pending, q, r}
      BY <1>30 DEF EndLink
    <3> HIDE DEF q
    <3>3. SameClaims(r, q)
      BY <3>1, <1>a, QueueOther DEF SameClaims
    <3> HIDE DEF r
    <3>4. SameClaims(pending', pending)
      BY <1>b, <3>1, <3>2, <3>3 DEF SameClaims
    <3> QED BY <1>e, <3>4
  <2>2. /\ outcome = "reached" => ~svc'.error
        /\ outcome = "timeout" => svc'.error
    BY <1>30, <1>0 DEF EndLink, Shown
  <2>3. /\ job.kind \in LinkJobs /\ place = "result" /\ UNCHANGED <<setting, link, paging, tasks, running, refused, intent>>
        /\ IF outcome = "reached" /\ job.kind = "disconnect" /\ running
           THEN place' = "reap" /\ job' = job
           ELSE job' = BtNoJob
    BY <1>30, <1>a DEF EndLink
  <2> QED BY <1>0, <1>a, <1>c, <2>1, <2>2, <2>3 DEF ClaimFits, Owed, DownUnderWay, UpUnderWay, Still
<1>31. CASE Reap
  BY <1>31, <1>0, <1>a, <1>c, <1>d, <1>f, ClaimPairing
  DEF Reap, ClaimFits, Owed, DownUnderWay, UpUnderWay, Still, UpPlaces, DownPlaces, PagePlaces
<1>32. CASE ReapWait
  BY <1>32, <1>0, <1>a, <1>c, <1>d, <1>f, ClaimPairing
  DEF ReapWait, ClaimFits, Owed, DownUnderWay, UpUnderWay, Still, UpPlaces, DownPlaces, PagePlaces
<1>33. CASE ReapDrop
  BY <1>33, <1>0, <1>a, <1>c, <1>d, <1>f, ClaimPairing
  DEF ReapDrop, Drop, Fault, CancelLastTask, ClaimFits, Owed, DownUnderWay, UpUnderWay, Still, UpPlaces,
      DownPlaces, PagePlaces
<1>34. CASE WaitReapDown
  BY <1>34, <1>0, <1>a, <1>c, <1>d, <1>f, ClaimPairing
  DEF WaitReapDown, Await, WaitLink, To, ClaimFits, Owed, DownUnderWay, UpUnderWay, Still, UpPlaces, DownPlaces,
      PagePlaces
<1>35. CASE Guard
  BY <1>35, <1>0, <1>a, <1>c, <1>d, <1>f, ClaimPairing
  DEF Guard, ClaimFits, Owed, DownUnderWay, UpUnderWay, Still, UpPlaces, DownPlaces, PagePlaces
<1>36. CASE Redrop
  BY <1>36, <1>0, <1>a, <1>c, <1>d, <1>f, ClaimPairing
  DEF Redrop, Drop, Fault, CancelLastTask, ClaimFits, Owed, DownUnderWay, UpUnderWay, Still, UpPlaces,
      DownPlaces, PagePlaces
<1>37. CASE WaitRedrop
  BY <1>37, <1>0, <1>a, <1>c, <1>d, <1>f, ClaimPairing
  DEF WaitRedrop, Await, WaitLink, To, ClaimFits, Owed, DownUnderWay, UpUnderWay, Still, UpPlaces, DownPlaces,
      PagePlaces
<1>38. CASE AfterGuard
  <2>1. job.kind = "disconnect" /\ job'.kind = "none"
    BY <1>38, <1>0, <1>f DEF AfterGuard, DownPlaces
  <2>2. svc'.error = svc.error
    BY <1>38, <1>0 DEF AfterGuard, Shown
  <2>3. Waits' <=> Waits
    BY <1>38, <1>0, <1>a, <1>b, <1>e, QueueOther DEF AfterGuard
  <2> QED BY <1>38, <1>c, <2>1, <2>2, <2>3 DEF AfterGuard, ClaimFits, Owed, DownUnderWay, UpUnderWay, Still
<1>39. CASE PostConnect
  <2>1. /\ job.kind \notin LinkJobs /\ job'.kind \notin LinkJobs /\ (Waits' <=> Waits)
        /\ UNCHANGED <<setting, link, paging, running, refused, intent>> /\ svc' = svc
        /\ tasks' = tasks \/ link
    BY <1>39, <1>0, <1>a, <1>d, <1>f DEF PostConnect
  <2> QED BY <2>1, <1>a DEF ClaimFits, Owed, DownUnderWay, UpUnderWay, Still
<1>40. CASE BeginPair
  BY <1>40, <1>d, <1>f, ClaimPairing DEF BeginPair
<1>41. CASE Prompt
  BY <1>41, <1>d, <1>f, ClaimPairing DEF Prompt
<1>42. CASE ConnectPaired
  BY <1>42, <1>d, <1>f, ClaimPairing DEF ConnectPaired
<1>43. CASE EndPair
  <2>1. SameClaims(pending', pending)
    BY <1>43, <1>0, <1>a, <1>b, QueueOther DEF EndPair
  <2> QED BY <1>43, <1>e, <2>1, ClaimPairing DEF EndPair
<1>44. CASE Apply
  BY <1>44, <1>d, ClaimKept DEF Apply
<1>45. CASE ReadSnapshot
  BY <1>45, <1>d, ClaimKept DEF ReadSnapshot
<1>46. CASE ClickDevice
  <2>1. \E k \in LinkJobs : pending' = Enqueue(pending, JobOf(k, FALSE))
    BY <1>46, <1>a DEF ClickDevice, Submit
  <2>2. Waits'
    BY <1>0, <2>1, QueueLink DEF Waits
  <2> QED BY <2>2 DEF ClaimFits, Owed
<1>47. CASE BtTestLive
  <2>1. \E k \in LinkJobs : pending' = Enqueue(pending, JobOf(k, FALSE))
    BY <1>47, <1>a DEF BtTestLive, Submit
  <2>2. Waits'
    BY <1>0, <2>1, QueueLink DEF Waits
  <2> QED BY <2>2 DEF ClaimFits, Owed
<1>48. CASE ClickRadio
  <2>0. (~flyout.radio) \in BOOLEAN
    BY DEF WellTyped, PanelTyped, Shown
  <2>1. SameClaims(pending', pending)
    BY <1>48, <1>0, <1>a, <2>0, QueueOther DEF ClickRadio, Submit
  <2> QED BY <1>48, <1>e, <2>1, ClaimKept DEF ClickRadio, Click
<1>49. CASE ClickSearch
  <2>1. SameClaims(pending', pending)
    BY <1>49, <1>0, <1>a, QueueOther DEF ClickSearch, Submit
  <2> QED BY <1>49, <1>0, <1>e, <1>f, <2>1, ClaimKept DEF ClickSearch, Click
<1>50. CASE ClickPair
  <2>1. SameClaims(pending', pending)
    BY <1>50, <1>0, <1>a, QueueOther DEF ClickPair, Submit
  <2> QED BY <1>50, <1>0, <1>e, <1>f, <2>1, ClaimKept DEF ClickPair, Click
<1>51. CASE StopBluetooth
  BY <1>51, <1>d, ClaimKept DEF StopBluetooth
<1>52. CASE Poll
  <2>1. SameClaims(pending', pending)
    BY <1>52, <1>0, <1>a, QueueOther DEF Poll, Submit
  <2> QED BY <1>52, <1>0, <1>e, <1>f, <2>1, ClaimKept DEF Poll
<1>53. CASE TaskCalls
  BY <1>53, <1>0, <1>a, <1>c, <1>d, <1>f, ClaimPairing
  DEF TaskCalls, Switches, ClaimFits, Owed, DownUnderWay, UpUnderWay, Still, UpPlaces, DownPlaces, PagePlaces
<1>54. CASE TaskReturns
  BY <1>54, <1>0, <1>a, <1>c, <1>d, <1>f, ClaimPairing
  DEF TaskReturns, ClaimFits, Owed, DownUnderWay, UpUnderWay, Still, UpPlaces, DownPlaces, PagePlaces
<1>55. CASE TaskStops
  BY <1>55, <1>0, <1>a, <1>c, <1>d, <1>f, ClaimPairing
  DEF TaskStops, ClaimFits, Owed, DownUnderWay, UpUnderWay, Still, UpPlaces, DownPlaces, PagePlaces
<1>56. CASE PageEnds
  BY <1>56, <1>0, <1>a, <1>c, <1>d, <1>f, ClaimPairing
  DEF PageEnds, ClaimFits, Owed, DownUnderWay, UpUnderWay, Still, UpPlaces, DownPlaces, PagePlaces
<1>57. CASE ListAges
  BY <1>57, <1>d, ClaimKept DEF ListAges
<1>58. CASE LinkMoves
  <2>1. /\ UNCHANGED <<setting, tasks, job, place, outcome, svc, running, refused>> /\ (Waits' <=> Waits)
        /\ link' = ~link /\ ~paging'
        /\ intent' = IF Guarded /\ ~link THEN intent ELSE Unclaimed
    BY <1>58, <1>d DEF LinkMoves
  <2>2. CASE Guarded /\ ~link
    BY <1>0, <1>c, <2>1, <2>2 DEF Guarded, ClaimFits, Owed, DownUnderWay, UpUnderWay, Still
  <2>3. CASE ~(Guarded /\ ~link)
    BY <2>1, <2>3, ClaimIsGivenUp DEF ClaimFits, Owed
  <2> QED BY <2>2, <2>3
<1>59. CASE WatchCallback
  BY <1>59, <1>d, ClaimKept DEF WatchCallback
<1> QED
  BY <1>1, <1>2, <1>3, <1>4, <1>5, <1>6, <1>7, <1>8, <1>9, <1>10, <1>11, <1>12, <1>13, <1>14, <1>15, <1>16,
     <1>17, <1>18, <1>19, <1>20, <1>21, <1>22, <1>23, <1>24, <1>25, <1>26, <1>27, <1>28, <1>29, <1>30, <1>31,
     <1>32, <1>33, <1>34, <1>35, <1>36, <1>37, <1>38, <1>39, <1>40, <1>41, <1>42, <1>43, <1>44, <1>45, <1>46,
     <1>47, <1>48, <1>49, <1>50, <1>51, <1>52, <1>53, <1>54, <1>55, <1>56, <1>57, <1>58, <1>59
  DEF BtNext, BtWorker, BtPanel, BtUser, BtDriver

-----------------------------------------------------------------------------
(* The theorem. *)

LEMMA OneJob == ASSUME NEW j \in BtJobs PROVE <<j>> \in Seq(BtJobs)
  OBVIOUS

\* The first refresh is all there is at first.
LEMMA InitFits == ASSUME BtInit PROVE IInv
<1> USE DEF BtInit
<1>1. \A i \in 1 .. Len(pending) : pending[i].kind = "refresh"
  BY DEF JobOf
<1>2. setting \in SceneType
  BY ScenesAreScenes
<1>3. WorldTyped
  <2>1. setting.bonded \in BOOLEAN
    BY <1>2 DEF SceneType
  <2> QED BY <1>2, <2>1, NothingYet DEF WorldTyped
<1>a. NoDevice \in Shown
  BY DEF NoDevice, Shown
<1>4. WorkerTyped
  <2>1. JobOf("refresh", FALSE) \in BtJobs
    BY JobsAreJobs DEF JobKinds
  <2>2. pending \in Seq(BtJobs)
    <3>1. pending = <<JobOf("refresh", FALSE)>>
      OBVIOUS
    <3> QED BY <2>1, <3>1, OneJob
  <2>3. retries \in 0 .. MaxRetries
    BY BoundsAreNumbers
  <2> QED BY <1>a, <2>2, <2>3 DEF WorkerTyped
<1>5. PanelTyped
  BY <1>a DEF PanelTyped
<1>6. PlaceFits
  BY DEF PlaceFits
<1>7. HelpersFit
  BY <1>1 DEF HelpersFit, Has, BtNoJob, JobOf, PagePlaces
<1>8. QueueFits
  <2>1. Ordered(pending)
    BY <1>1 DEF Ordered, UserJobs
  <2> QED BY <2>1 DEF QueueFits
<1>9. ClaimFits
  BY DEF ClaimFits
<1> QED BY <1>3, <1>4, <1>5, <1>6, <1>7, <1>8, <1>9 DEF IInv, WellTyped

\* The invariant is inductive where the driver keeps within the waits for it.
LEMMA StepFits == ASSUME ~SlowDriver, IInv, [BtNext]_btVars PROVE IInv'
<1>1. CASE BtNext
  <2>1. WellTyped' /\ PlaceFits' /\ HelpersFit' /\ QueueFits' /\ ClaimFits'
    BY <1>1, WorldTypedStep, WorkerTypedStep, PanelTypedStep, PlacesStep, HelpersStep, QueueStep, ClaimStep
    DEF IInv, WellTyped
  <2> QED BY <2>1 DEF IInv
<1>2. CASE UNCHANGED btVars
  <2>1. WellTyped'
    BY <1>2 DEF IInv, WellTyped, WorldTyped, WorkerTyped, PanelTyped
  <2>2. PlaceFits' /\ HelpersFit'
    BY <1>2 DEF IInv, PlaceFits, HelpersFit
  <2>3. QueueFits'
    BY <1>2 DEF IInv, QueueFits, Waits
  <2>4. ClaimFits'
    BY <1>2 DEF IInv, ClaimFits, Owed, Waits, DownUnderWay, UpUnderWay, Still
  <2> QED BY <2>1, <2>2, <2>3, <2>4 DEF IInv
<1> QED BY <1>1, <1>2

\* At rest nothing is under way, so what is owed is there.
LEMMA FitsImpliesConsistent == ASSUME IInv PROVE LinkIsConsistent
<1>1. BtTypeOK
  <2>1. \A i \in 1 .. Len(pending) : pending[i] \in BtJobs
    BY DEF IInv, WellTyped, WorkerTyped
  <2>2. ASSUME NEW i \in 1 .. Len(tasks) PROVE tasks[i].name \in {"toggle", "restore"}
    <3>1. tasks[i] \in Tasks
      BY DEF IInv, WellTyped, WorldTyped
    <3> QED BY <3>1 DEF Tasks
  <2> QED BY <2>1, <2>2 DEF BtTypeOK, IInv, WellTyped, WorldTyped, WorkerTyped, PanelTyped
<1>2. NewestIntentWins
  <2> SUFFICES ASSUME BtAtRest, Classic, intent # "none", ~refused
               PROVE  (Seen = (intent = "up")) # svc.error
    BY DEF NewestIntentWins
  <2>1. running /\ place = "idle" /\ pending = <<>> /\ Still
    BY DEF BtAtRest, Still
  <2>2. job.kind = "none"
    BY <2>1 DEF IInv, PlaceFits, ListPlaces, UpPlaces, DownPlaces, PagePlaces, BtNoJob, JobOf
  <2>3. ~Waits
    BY <2>1 DEF Waits, Has
  <2>4. /\ intent = "down" => (link /\ svc.error) \/ (~link /\ ~svc.error)
        /\ intent = "up" => (link /\ ~svc.error) \/ (~link /\ svc.error)
    BY <2>1, <2>2, <2>3 DEF IInv, ClaimFits, Owed, DownUnderWay, UpUnderWay
  <2>5. link \in BOOLEAN /\ svc.error \in BOOLEAN /\ intent \in {"none", "up", "down"}
    BY DEF IInv, WellTyped, WorldTyped, WorkerTyped, PanelTyped, Shown
  <2> QED BY <2>4, <2>5
<1> QED BY <1>1, <1>2 DEF LinkIsConsistent

\* "Newest intent per device wins": when the worker rests, a classic device is as the
\* newest click asked or its row says that this failed, never both and never neither.
THEOREM NewestClickWins ==
    ASSUME ~SlowDriver
    PROVE  BtSpec => []LinkIsConsistent
<1>1. BtInit => IInv
  BY InitFits
<1>2. IInv /\ [BtNext]_btVars => IInv'
  BY StepFits
<1>3. IInv => LinkIsConsistent
  BY FitsImpliesConsistent
<1> QED BY <1>1, <1>2, <1>3, PTL DEF BtSpec
====
