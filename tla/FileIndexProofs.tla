--------------------------- MODULE FileIndexProofs ---------------------------
(***************************************************************************)
(* The arrays of FileIndex agree after every sequence of builds, journal   *)
(* records and compactions, for any records, names, flags and bounds.      *)
(* Each operation has a lemma: it keeps Sound, whatever index it is given. *)
(* The two sums of the accounts and the recursion of RecomputeZones are    *)
(* reasoned about as functions that satisfy an equation: that one exists,  *)
(* and that two of them agree, is shown by induction on sets of numbers.   *)
(***************************************************************************)
EXTENDS FileIndex, FiniteSetTheorems, WellFoundedInduction, TLAPS

\* Every set of numbers that is not empty has a least one.
LEMMA LeastNatural ==
    ASSUME NEW T \in SUBSET Nat, T # {}
    PROVE  \E m \in T : \A n \in T : m <= n
<1> DEFINE R == OpToRel(<, Nat)
<1>1. IsWellFoundedOn(R, Nat)
  BY NatLessThanWellFounded
<1> HIDE DEF R
<1>2. PICK m \in T : \A n \in T : ~(<<n, m>> \in R)
  BY <1>1, WFMin
<1>3. ASSUME NEW n \in T PROVE m <= n
  <2>1. <<n, m>> \notin R
    BY <1>2
  <2>2. ~(n < m)
    BY <2>1 DEF R, OpToRel
  <2> QED BY <2>2
<1> QED BY <1>2, <1>3

\* A set that has 0, and the successor of each of its numbers, has them all.
LEMMA Induct ==
    ASSUME NEW T \in SUBSET Nat, 0 \in T, \A n \in T : n + 1 \in T
    PROVE  T = Nat
<1> SUFFICES ASSUME Nat \ T # {} PROVE FALSE
  OBVIOUS
<1>1. PICK m \in Nat \ T : \A n \in Nat \ T : m <= n
  BY LeastNatural
<1>2. m # 0 /\ m - 1 \in Nat /\ m - 1 \in T
  BY <1>1
<1> QED BY <1>2, <1>1

-----------------------------------------------------------------------------
(* Sums over finite sets. *)

Any(s) == CHOOSE x \in s : TRUE

\* g is the fold of the weights w over the subsets of D.
IsFold(g, w, D) ==
    g = [U \in SUBSET D |->
            IF U = {} THEN 0 ELSE w[Any(U)] + g[U \ {Any(U)}]]

LEMMA AnyIsIn == ASSUME NEW s, s # {} PROVE Any(s) \in s
  BY DEF Any

\* There is one, whatever the weights: by induction on the cardinality.
LEMMA FoldExists ==
    ASSUME NEW D, IsFiniteSet(D), NEW w
    PROVE  \E g : IsFold(g, w, D)
<1> DEFINE Level(n) == {U \in SUBSET D : Cardinality(U) <= n}
<1> DEFINE Body(g, U) == IF U = {} THEN 0 ELSE w[Any(U)] + g[U \ {Any(U)}]
<1> DEFINE T == {n \in Nat : \E g : /\ g = [U \in Level(n) |-> g[U]]
                                    /\ \A U \in Level(n) : g[U] = Body(g, U)}
<1>0. \A U \in SUBSET D : IsFiniteSet(U) /\ Cardinality(U) \in Nat
  BY FS_Subset, FS_CardinalityType
<1>a. \A U \in SUBSET D : U # {} => 
        /\ Any(U) \in U /\ U \ {Any(U)} \in SUBSET D
        /\ Cardinality(U \ {Any(U)}) = Cardinality(U) - 1
  BY <1>0, AnyIsIn, FS_RemoveElement
<1>1. 0 \in T
  <2> DEFINE g == [U \in Level(0) |-> 0]
  <2>0. g = [U \in Level(0) |-> g[U]]
    OBVIOUS
  <2>1. \A U \in Level(0) : U = {}
    BY <1>0, FS_EmptySet
  <2>2. \A U \in Level(0) : g[U] = Body(g, U)
    BY <2>1
  <2> HIDE DEF Body, g
  <2> QED BY <2>0, <2>2
<1>2. ASSUME NEW n \in T PROVE n + 1 \in T
  <2>1. PICK g : g = [U \in Level(n) |-> g[U]] /\ \A U \in Level(n) : g[U] = Body(g, U)
    BY <1>2
  <2> DEFINE h == [U \in Level(n + 1) |-> IF U \in Level(n) THEN g[U] ELSE Body(g, U)]
  <2>2. ASSUME NEW U \in Level(n + 1) PROVE h[U] = Body(h, U)
    <3>1. CASE U = {}
      <4>1. U \in Level(n)
        BY <1>0, <3>1, FS_EmptySet
      <4> QED BY <3>1, <4>1, <2>1
    <3>2. CASE U # {}
      <4> DEFINE V == U \ {Any(U)}
      <4>1. V \in Level(n) /\ V \in Level(n + 1)
        BY <1>a, <3>2, <1>0, <1>2
      <4>2. h[V] = g[V]
        BY <4>1
      <4>3. h[U] = Body(g, U)
        BY <2>1
      <4> HIDE DEF h
      <4> QED BY <3>2, <4>2, <4>3
    <3> QED BY <3>1, <3>2
  <2>3. h = [U \in Level(n + 1) |-> h[U]]
    OBVIOUS
  <2> HIDE DEF h, Body, Level
  <2> QED BY <2>2, <2>3
<1>3. T = Nat
  <2> HIDE DEF T
  <2>1. T \in SUBSET Nat
    BY DEF T
  <2> QED BY <1>1, <1>2, <2>1, Induct
<1> DEFINE N == Cardinality(D)
<1>4. N \in Nat /\ Level(N) = SUBSET D
  BY FS_Subset, FS_CardinalityType
<1>5. PICK g : g = [U \in Level(N) |-> g[U]] /\ \A U \in Level(N) : g[U] = Body(g, U)
  BY <1>3, <1>4
<1>6. g = [U \in SUBSET D |-> Body(g, U)]
  <2> HIDE DEF Body
  <2> QED BY <1>5, <1>4
<1> QED BY <1>6 DEF IsFold

\* The weights of the names, and the fold that MapThenSumSet chooses.
Weights(S) == [s \in DOMAIN S |-> Bytes(S[s].name)]
FoldOf(w, D) == CHOOSE g : IsFold(g, w, D)
SumOf(w, D) == FoldOf(w, D)[D]

\* A fold exists, so the chosen one is one.
LEMMA FoldEquation ==
    ASSUME NEW D, IsFiniteSet(D), NEW w
    PROVE  \A U \in SUBSET D : FoldOf(w, D)[U] =
              IF U = {} THEN 0 ELSE w[Any(U)] + FoldOf(w, D)[U \ {Any(U)}]
<1>1. IsFold(FoldOf(w, D), w, D)
  BY FoldExists DEF FoldOf
<1> QED BY <1>1 DEF IsFold

\* Two folds agree where their sets and their weights do.
LEMMA FoldsAgree ==
    ASSUME NEW C, IsFiniteSet(C), NEW D, IsFiniteSet(D), NEW v, NEW w,
           NEW E \in SUBSET (C \cap D), \A s \in E : v[s] = w[s]
    PROVE  FoldOf(v, C)[E] = FoldOf(w, D)[E]
<1> DEFINE Apart(U) == FoldOf(v, C)[U] # FoldOf(w, D)[U]
<1> DEFINE T == {n \in Nat : \E U \in SUBSET E : Apart(U) /\ Cardinality(U) = n}
<1> SUFFICES ASSUME T # {} PROVE FALSE
  <2>1. Cardinality(E) \in Nat
    BY FS_Subset, FS_CardinalityType
  <2> QED BY <2>1
<1>1. PICK n \in T : \A k \in T : n <= k
  <2> HIDE DEF T
  <2>1. T \in SUBSET Nat
    BY DEF T
  <2> QED BY <2>1, LeastNatural
<1>2. PICK U \in SUBSET E : Apart(U) /\ Cardinality(U) = n
  BY <1>1
<1> DEFINE V == U \ {Any(U)}
<1>3. U # {}
  <2>1. FoldOf(v, C)[{}] = 0 /\ FoldOf(w, D)[{}] = 0
    BY FoldEquation
  <2> QED BY <1>2, <2>1
<1>4. Any(U) \in U /\ V \in SUBSET E /\ U \in SUBSET C /\ U \in SUBSET D
  BY <1>3, AnyIsIn
<1>5. Cardinality(V) = n - 1 /\ n - 1 \in Nat
  <2>1. IsFiniteSet(U)
    BY FS_Subset
  <2>2. Cardinality(V) = n - 1 /\ IsFiniteSet(V)
    BY <1>2, <1>4, <2>1, FS_RemoveElement
  <2> QED BY <2>2, FS_CardinalityType
<1>6. ~Apart(V)
  BY <1>1, <1>4, <1>5
<1>7. FoldOf(v, C)[U] = v[Any(U)] + FoldOf(v, C)[V]
  BY <1>3, <1>4, FoldEquation
<1>8. FoldOf(w, D)[U] = w[Any(U)] + FoldOf(w, D)[V]
  BY <1>3, <1>4, FoldEquation
<1> QED BY <1>2, <1>4, <1>6, <1>7, <1>8

\* Sums of numbers are numbers, and of natural numbers natural.
LEMMA FoldIsInt ==
    ASSUME NEW D, IsFiniteSet(D), NEW w, \A s \in D : w[s] \in Int,
           NEW E \in SUBSET D
    PROVE  FoldOf(w, D)[E] \in Int
<1> DEFINE T == {n \in Nat : \E U \in SUBSET E : FoldOf(w, D)[U] \notin Int /\ Cardinality(U) = n}
<1> SUFFICES ASSUME T # {} PROVE FALSE
  <2>1. Cardinality(E) \in Nat
    BY FS_Subset, FS_CardinalityType
  <2> QED BY <2>1
<1>1. PICK n \in T : \A k \in T : n <= k
  <2> HIDE DEF T
  <2>1. T \in SUBSET Nat
    BY DEF T
  <2> QED BY <2>1, LeastNatural
<1>2. PICK U \in SUBSET E : FoldOf(w, D)[U] \notin Int /\ Cardinality(U) = n
  BY <1>1
<1> DEFINE V == U \ {Any(U)}
<1>3. U # {}
  <2>1. FoldOf(w, D)[{}] = 0
    BY FoldEquation
  <2> QED BY <1>2, <2>1
<1>4. Any(U) \in U /\ V \in SUBSET E /\ U \in SUBSET D
  BY <1>3, AnyIsIn
<1>5. Cardinality(V) = n - 1 /\ n - 1 \in Nat
  <2>1. IsFiniteSet(U)
    BY FS_Subset
  <2>2. Cardinality(V) = n - 1 /\ IsFiniteSet(V)
    BY <1>2, <1>4, <2>1, FS_RemoveElement
  <2> QED BY <2>2, FS_CardinalityType
<1>6. FoldOf(w, D)[V] \in Int
  BY <1>1, <1>4, <1>5
<1>7. FoldOf(w, D)[U] = w[Any(U)] + FoldOf(w, D)[V]
  BY <1>3, <1>4, FoldEquation
<1> QED BY <1>2, <1>4, <1>6, <1>7

\* Any element may be taken out first.
LEMMA SumRemove ==
    ASSUME NEW D, IsFiniteSet(D), NEW w, \A s \in D : w[s] \in Int
    PROVE  \A E \in SUBSET D : \A s \in E : FoldOf(w, D)[E] = w[s] + FoldOf(w, D)[E \ {s}]
<1> DEFINE g == FoldOf(w, D)
<1> DEFINE Odd(U) == \E s \in U : g[U] # w[s] + g[U \ {s}]
<1> DEFINE T == {n \in Nat : \E U \in SUBSET D : Odd(U) /\ Cardinality(U) = n}
<1>0. \A U \in SUBSET D : IsFiniteSet(U) /\ Cardinality(U) \in Nat /\ g[U] \in Int
  BY FS_Subset, FS_CardinalityType, FoldIsInt
<1>e. \A U \in SUBSET D : U # {} => g[U] = w[Any(U)] + g[U \ {Any(U)}]
  BY FoldEquation
<1> HIDE DEF g
<1> SUFFICES ASSUME T # {} PROVE FALSE
  BY <1>0 DEF g
<1>1. PICK n \in T : \A k \in T : n <= k
  <2> HIDE DEF T
  <2>1. T \in SUBSET Nat
    BY DEF T
  <2> QED BY <2>1, LeastNatural
<1>2. PICK U \in SUBSET D : Odd(U) /\ Cardinality(U) = n
  BY <1>1
<1>3. PICK s \in U : g[U] # w[s] + g[U \ {s}]
  BY <1>2
<1> DEFINE a == Any(U)
<1> DEFINE V == U \ {a}
<1> DEFINE W == U \ {s}
<1> DEFINE B == U \ {a, s}
<1>4. a \in U
  BY <1>3, AnyIsIn
<1> HIDE DEF a
<1>5. g[U] = w[a] + g[V]
  BY <1>e, <1>3 DEF a
<1>6. s # a
  BY <1>5, <1>3
<1>7. Cardinality(V) = n - 1 /\ Cardinality(W) = n - 1 /\ n - 1 \in Nat
  <2>1. Cardinality(V) = n - 1 /\ Cardinality(W) = n - 1
    BY <1>0, <1>2, <1>4, FS_RemoveElement
  <2>2. Cardinality(V) \in Nat
    BY <1>0
  <2> QED BY <2>1, <2>2
<1>8. ~Odd(V) /\ ~Odd(W)
  <2>1. V \in SUBSET D /\ W \in SUBSET D
    OBVIOUS
  <2> HIDE DEF Odd, V, W
  <2>2. \A X \in SUBSET D : Odd(X) /\ Cardinality(X) \in Nat => n <= Cardinality(X)
    BY <1>1
  <2> QED BY <1>1, <1>7, <2>1, <2>2
<1>9. g[V] = w[s] + g[B] /\ g[W] = w[a] + g[B]
  <2>1. V \ {s} = B /\ W \ {a} = B /\ s \in V /\ a \in W
    BY <1>4, <1>6
  <2> QED BY <1>8, <2>1
<1>10. w[s] \in Int /\ w[a] \in Int /\ g[B] \in Int
  BY <1>0, <1>4
<1> QED BY <1>3, <1>5, <1>9, <1>10

\* The sum of MapThenSumSet, as a first-order term.
LEMMA SumIsFold ==
    ASSUME NEW S, NEW D \in SUBSET DOMAIN S
    PROVE  MapThenSumSet(LAMBDA s : Bytes(S[s].name), D) = SumOf(Weights(S), D)
  BY DEF MapThenSumSet, MapThenFoldSet, SumOf, FoldOf, IsFold, Weights, Any

\* Sums of names that are the same over the same slots.
LEMMA SumSame ==
    ASSUME NEW S, NEW R, NEW D, IsFiniteSet(D), D \subseteq DOMAIN S, D \subseteq DOMAIN R,
           \A s \in D : S[s].name = R[s].name
    PROVE  SumOf(Weights(S), D) = SumOf(Weights(R), D)
<1>1. \A s \in D : Weights(S)[s] = Weights(R)[s]
  BY DEF Weights
<1> QED BY <1>1, FoldsAgree DEF SumOf

\* One slot more.
LEMMA SumAdd ==
    ASSUME NEW w, NEW D, IsFiniteSet(D), NEW s, s \notin D, \A t \in D \cup {s} : w[t] \in Int
    PROVE  SumOf(w, D \cup {s}) = w[s] + SumOf(w, D)
<1> DEFINE C == D \cup {s}
<1>1. IsFiniteSet(C) /\ C \in SUBSET C /\ D \in SUBSET (C \cap D) /\ C \ {s} = D /\ s \in C
  BY FS_AddElement
<1>2. FoldOf(w, C)[C] = w[s] + FoldOf(w, C)[C \ {s}]
  BY <1>1, SumRemove
<1>3. FoldOf(w, C)[D] = FoldOf(w, D)[D]
  BY <1>1, FoldsAgree
<1> QED BY <1>1, <1>2, <1>3 DEF SumOf

LEMMA SumIsNat ==
    ASSUME NEW w, NEW D, IsFiniteSet(D), \A t \in D : w[t] \in Int
    PROVE  SumOf(w, D) \in Int
  BY FoldIsInt DEF SumOf

LEMMA SumOfNone ==
    ASSUME NEW w PROVE SumOf(w, {}) = 0
  BY FS_EmptySet, FoldEquation DEF SumOf

-----------------------------------------------------------------------------
(* What every operation keeps. *)

Alive(E) == {e \in DOMAIN E : "deleted" \notin E[e].flags}
DeadOf(S) == {s \in DOMAIN S : S[s].entry = None}

\* SlotsAndEntriesAgree, of any two arrays.
Paired(E, S) ==
    /\ \A e \in 1..Len(E) :
          /\ E[e].slot \in {None} \cup 1..Len(S)
          /\ "deleted" \notin E[e].flags
                <=> E[e].slot # None /\ S[E[e].slot].entry = e
    /\ \A s \in 1..Len(S) : S[s].entry # None =>
          S[s].entry \in 1..Len(E) /\ E[S[s].entry].slot = s

\* RecordsFindLiveEntries, of any map and entries.
Mapped(B, E) ==
    /\ \A r \in Records : B[r] # None => B[r] \in Alive(E)
    /\ \A r, q \in Records : r # q => B[r] # B[q] \/ B[r] = None

\* RankedRegionDescends, of any slots.
Descends(S, end) ==
    /\ end <= Len(S)
    /\ \A s, t \in 1..end : s < t => S[s].base >= S[t].base

\* IndexIsConsistent and RankedRegionDescends, of any index.
Sound(x) ==
    /\ x \in Indexes
    /\ Paired(x.entries, x.slots)
    /\ x.live = Cardinality(Alive(x.entries))
    /\ x.deadBytes = SumOf(Weights(x.slots), DeadOf(x.slots))
    /\ Mapped(x.byRecord, x.entries)
    /\ Descends(x.slots, x.sortedEnd)

\* The bounds of a sequence, and a function that is one.
LEMMA SeqDomain ==
    ASSUME NEW T, NEW s \in Seq(T)
    PROVE  /\ DOMAIN s = 1..Len(s) /\ Len(s) \in Nat /\ IsFiniteSet(DOMAIN s)
           /\ \A i \in DOMAIN s : s[i] \in T
  BY FS_Interval

LEMMA SeqFrom ==
    ASSUME NEW T, NEW n \in Nat, NEW F, F = [i \in 1..n |-> F[i]], \A i \in 1..n : F[i] \in T
    PROVE  F \in Seq(T) /\ Len(F) = n /\ DOMAIN F = 1..n
  OBVIOUS

\* The dead slots and the entries alive are finitely many.
LEMMA DeadIsFinite ==
    ASSUME NEW S \in Seq(IndexSlots)
    PROVE  /\ IsFiniteSet(DeadOf(S)) /\ DeadOf(S) \subseteq DOMAIN S
           /\ \A s \in DOMAIN S : Weights(S)[s] = Bytes(S[s].name) /\ Weights(S)[s] \in Nat
<1>1. IsFiniteSet(DeadOf(S)) /\ DeadOf(S) \subseteq DOMAIN S
  BY SeqDomain, FS_Subset DEF DeadOf
<1>2. ASSUME NEW s \in DOMAIN S PROVE Bytes(S[s].name) \in Nat
  <2>1. S[s].name \in Names \cup {RootName}
    <3>1. S[s] \in IndexSlots
      BY SeqDomain
    <3> QED BY <3>1 DEF IndexSlots
  <2> QED BY <2>1, IndexAssumption DEF Bytes
<1> QED BY <1>1, <1>2 DEF Weights

LEMMA AliveIsFinite ==
    ASSUME NEW E \in Seq(IndexEntries)
    PROVE  IsFiniteSet(Alive(E)) /\ Cardinality(Alive(E)) \in Nat
<1>1. IsFiniteSet(Alive(E))
  BY SeqDomain, FS_Subset DEF Alive
<1> QED BY <1>1, FS_CardinalityType

\* The deletion marks and the slots of the entries are the same.
LEMMA PairedAlike ==
    ASSUME NEW E \in Seq(IndexEntries), NEW F \in Seq(IndexEntries), NEW S, NEW R,
           Len(F) = Len(E), Len(R) = Len(S), Paired(E, S),
           \A e \in 1..Len(E) : /\ F[e].slot = E[e].slot
                                /\ "deleted" \in F[e].flags <=> "deleted" \in E[e].flags,
           \A s \in 1..Len(S) : R[s].entry = S[s].entry
    PROVE  Paired(F, R) /\ Alive(F) = Alive(E)
<1>1. Paired(F, R)
  <2>1. ASSUME NEW e \in 1..Len(F)
        PROVE  /\ F[e].slot \in {None} \cup 1..Len(R)
               /\ "deleted" \notin F[e].flags <=> F[e].slot # None /\ R[F[e].slot].entry = e
    <3>1. /\ E[e].slot \in {None} \cup 1..Len(S)
          /\ "deleted" \notin E[e].flags <=> E[e].slot # None /\ S[E[e].slot].entry = e
      BY DEF Paired
    <3>2. F[e].slot = E[e].slot /\ ("deleted" \in F[e].flags <=> "deleted" \in E[e].flags)
      OBVIOUS
    <3> QED BY <3>1, <3>2
  <2>2. ASSUME NEW s \in 1..Len(R), R[s].entry # None
        PROVE  R[s].entry \in 1..Len(F) /\ F[R[s].entry].slot = s
    BY <2>2 DEF Paired
  <2> QED BY <2>1, <2>2 DEF Paired
<1>2. Alive(F) = Alive(E)
  BY SeqDomain DEF Alive
<1> QED BY <1>1, <1>2

\* Paired(F, R) after a new entry with a slot of its own.
LEMMA PairedAppend ==
    ASSUME NEW E \in Seq(IndexEntries), NEW S \in Seq(IndexSlots), Paired(E, S),
           NEW a \in IndexEntries, NEW c \in IndexSlots,
           a.slot = Len(S) + 1, "deleted" \notin a.flags, c.entry = Len(E) + 1
    PROVE  /\ Paired(Append(E, a), Append(S, c))
           /\ Alive(Append(E, a)) = Alive(E) \cup {Len(E) + 1} /\ Len(E) + 1 \notin Alive(E)
           /\ DeadOf(Append(S, c)) = DeadOf(S)
<1> DEFINE F == Append(E, a)
<1> DEFINE R == Append(S, c)
<1>0. /\ DOMAIN E = 1..Len(E) /\ DOMAIN S = 1..Len(S) /\ Len(E) \in Nat /\ Len(S) \in Nat
      /\ DOMAIN F = 1..(Len(E) + 1) /\ DOMAIN R = 1..(Len(S) + 1)
      /\ Len(F) = Len(E) + 1 /\ Len(R) = Len(S) + 1
      /\ F[Len(E) + 1] = a /\ R[Len(S) + 1] = c
  OBVIOUS
<1>1. (\A e \in 1..Len(E) : F[e] = E[e]) /\ (\A s \in 1..Len(S) : R[s] = S[s])
  OBVIOUS
<1> HIDE DEF F, R
<1>2. ASSUME NEW e \in 1..Len(F)
      PROVE  /\ F[e].slot \in {None} \cup 1..Len(R)
             /\ "deleted" \notin F[e].flags <=> F[e].slot # None /\ R[F[e].slot].entry = e
  <2>1. CASE e = Len(E) + 1
    BY <1>0, <2>1 DEF None
  <2>2. CASE e \in 1..Len(E)
    BY <1>0, <1>1, <2>2 DEF None, Paired
  <2> QED BY <1>0, <2>1, <2>2
<1>3. ASSUME NEW s \in 1..Len(R), R[s].entry # None
      PROVE  R[s].entry \in 1..Len(F) /\ F[R[s].entry].slot = s
  <2>1. CASE s = Len(S) + 1
    BY <1>0, <2>1
  <2>2. CASE s \in 1..Len(S)
    BY <1>0, <1>1, <1>3, <2>2 DEF None, Paired
  <2> QED BY <1>0, <2>1, <2>2
<1>4. Paired(F, R)
  BY <1>2, <1>3 DEF Paired
<1>5. Alive(F) = Alive(E) \cup {Len(E) + 1} /\ Len(E) + 1 \notin Alive(E)
  BY <1>0, <1>1 DEF Alive
<1>6. DeadOf(R) = DeadOf(S)
  BY <1>0, <1>1 DEF DeadOf, None
<1> QED BY <1>4, <1>5, <1>6 DEF F, R

\* A dead slot more: its bytes are added.
LEMMA DeadBytesOfKill ==
    ASSUME NEW S \in Seq(IndexSlots), NEW s \in DOMAIN S, S[s].entry # None
    PROVE  LET R == [S EXCEPT ![s].entry = None]
           IN /\ DeadOf(R) = DeadOf(S) \cup {s}
              /\ SumOf(Weights(R), DeadOf(R)) = SumOf(Weights(S), DeadOf(S)) + Bytes(S[s].name)
<1> DEFINE R == [S EXCEPT ![s].entry = None]
<1>1. DeadOf(R) = DeadOf(S) \cup {s} /\ s \notin DeadOf(S) /\ DOMAIN R = DOMAIN S
  BY DEF DeadOf, IndexSlots
<1>2. \A t \in DOMAIN S : R[t].name = S[t].name
  BY DEF IndexSlots
<1>3. IsFiniteSet(DeadOf(S)) /\ IsFiniteSet(DeadOf(R))
  <2>1. IsFiniteSet(DeadOf(S))
    BY DeadIsFinite
  <2> QED BY <1>1, <2>1, FS_AddElement
<1> HIDE DEF R
<1>4. SumOf(Weights(R), DeadOf(R)) = SumOf(Weights(S), DeadOf(R))
  BY <1>1, <1>2, <1>3, SumSame DEF DeadOf
<1>5. SumOf(Weights(S), DeadOf(R)) = Weights(S)[s] + SumOf(Weights(S), DeadOf(S))
  <2>1. \A t \in DeadOf(S) \cup {s} : Weights(S)[t] \in Int
    <3>1. \A t \in DOMAIN S : Weights(S)[t] \in Nat
      BY DeadIsFinite
    <3> QED BY <3>1 DEF DeadOf
  <2>2. SumOf(Weights(S), DeadOf(S) \cup {s}) = Weights(S)[s] + SumOf(Weights(S), DeadOf(S))
    BY <1>1, <1>3, <2>1, SumAdd
  <2> QED BY <1>1, <2>2
<1>6. Weights(S)[s] = Bytes(S[s].name) /\ Weights(S)[s] \in Int
      /\ SumOf(Weights(S), DeadOf(S)) \in Int
  BY <1>1, <1>3, DeadIsFinite, SumIsNat DEF DeadOf
<1>7. SumOf(Weights(R), DeadOf(R)) = SumOf(Weights(S), DeadOf(S)) + Bytes(S[s].name)
  BY <1>4, <1>5, <1>6
<1> QED BY <1>1, <1>7 DEF R

-----------------------------------------------------------------------------
\* What Sound reads of an index is the same.
LEMMA AlikeIsSound ==
    ASSUME NEW x, Sound(x), NEW y \in Indexes,
           y.entries = x.entries, y.slots = x.slots, y.live = x.live,
           y.deadBytes = x.deadBytes, y.byRecord = x.byRecord, y.sortedEnd = x.sortedEnd
    PROVE  Sound(y)
  BY DEF Sound

\* The generation wraps, and is never the one before.
LEMMA BumpIsSound ==
    ASSUME NEW x, Sound(x)
    PROVE  /\ Sound(Bump(x)) /\ Bump(x).generation # x.generation
           /\ Bump(x).entries = x.entries /\ Bump(x).slots = x.slots
           /\ Bump(x).sortedEnd = x.sortedEnd /\ Bump(x).root = x.root
           /\ Bump(x).pending = x.pending /\ Bump(x).firstPending = x.firstPending
<1> DEFINE g == (x.generation + 1) % Wrap
<1>1. x \in Indexes /\ x.generation \in 0..(Wrap - 1) /\ Wrap \in Nat \ {0, 1}
  BY IndexAssumption DEF Sound, Indexes
<1>2. g \in 0..(Wrap - 1) /\ g # x.generation
  BY <1>1
<1>3. Bump(x) = [x EXCEPT !.generation = g]
  BY DEF Bump
<1> HIDE DEF g
<1>4. /\ Bump(x).generation = g /\ Bump(x) \in Indexes
      /\ Bump(x).entries = x.entries /\ Bump(x).slots = x.slots /\ Bump(x).live = x.live
      /\ Bump(x).deadBytes = x.deadBytes /\ Bump(x).byRecord = x.byRecord
      /\ Bump(x).sortedEnd = x.sortedEnd /\ Bump(x).root = x.root
      /\ Bump(x).pending = x.pending /\ Bump(x).firstPending = x.firstPending
  BY <1>1, <1>2, <1>3 DEF Indexes
<1> QED BY <1>2, <1>4, AlikeIsSound

\* A record that is mapped to a live entry no other record is mapped to.
LEMMA MapRecordIsSound ==
    ASSUME NEW x, Sound(x), NEW r \in Records, NEW e \in Alive(x.entries),
           \A q \in Records : q # r => x.byRecord[q] # e
    PROVE  /\ Sound(MapRecord(x, r, e))
           /\ MapRecord(x, r, e).entries = x.entries /\ MapRecord(x, r, e).slots = x.slots
           /\ MapRecord(x, r, e).sortedEnd = x.sortedEnd
           /\ MapRecord(x, r, e).generation = x.generation
           /\ MapRecord(x, r, e).pending = x.pending
           /\ MapRecord(x, r, e).firstPending = x.firstPending /\ MapRecord(x, r, e).root = x.root
<1> DEFINE y == MapRecord(x, r, e)
<1> DEFINE B == [x.byRecord EXCEPT ![r] = e]
<1>1. x \in Indexes /\ x.byRecord \in [Records -> Nat] /\ Mapped(x.byRecord, x.entries)
  BY DEF Sound, Indexes
<1>2. e \in Nat
  <2>1. x.entries \in Seq(IndexEntries)
    BY <1>1 DEF Indexes
  <2> QED BY <2>1, SeqDomain DEF Alive
<1>3. B \in [Records -> Nat] /\ Mapped(B, x.entries)
  BY <1>1, <1>2 DEF Mapped
<1>4. y = [x EXCEPT !.byRecord = B]
  BY <1>1 DEF MapRecord, Indexes
<1> HIDE DEF B, y
<1>5. /\ y \in Indexes /\ y.byRecord = B
      /\ y.entries = x.entries /\ y.slots = x.slots /\ y.live = x.live
      /\ y.deadBytes = x.deadBytes /\ y.sortedEnd = x.sortedEnd /\ y.generation = x.generation
      /\ y.pending = x.pending /\ y.firstPending = x.firstPending /\ y.root = x.root
  BY <1>1, <1>3, <1>4 DEF Indexes
<1>6. Sound(y)
  BY <1>3, <1>5 DEF Sound
<1> QED BY <1>5, <1>6 DEF y

\* The fields that NewEntry changes.
LEMMA NewEntryFields ==
    ASSUME NEW x \in Indexes, NEW p \in Nat, NEW f \in SUBSET Flags,
           NEW n \in Names \cup {RootName}
    PROVE  /\ NewEntry(x, p, f, n) =
                 [x EXCEPT
                    !.slots = Append(x.slots, [entry |-> Len(x.entries) + 1, name |-> n, base |-> NoBase]),
                    !.entries = Append(x.entries, [parent |-> p, slot |-> Len(x.slots) + 1,
                                                   flags |-> f, zone |-> "Normal"]),
                    !.live = x.live + 1]
           /\ NewEntry(x, p, f, n) \in Indexes
<1> DEFINE c == [entry |-> Len(x.entries) + 1, name |-> n, base |-> NoBase]
<1> DEFINE a == [parent |-> p, slot |-> Len(x.slots) + 1, flags |-> f, zone |-> "Normal"]
<1> DEFINE z == [x EXCEPT !.slots = Append(x.slots, c)]
<1> DEFINE y == [x EXCEPT !.slots = Append(x.slots, c), !.entries = Append(x.entries, a),
                          !.live = x.live + 1]
<1>0. x.slots \in Seq(IndexSlots) /\ x.entries \in Seq(IndexEntries) /\ x.live \in Nat
  BY DEF Indexes
<1>1. c \in IndexSlots /\ a \in IndexEntries
  <2>1. NoBase \in Int /\ "Normal" \in Zones
    BY DEF NoBase, Zones, ZoneBonus
  <2>2. Len(x.entries) + 1 \in Nat /\ Len(x.slots) + 1 \in Nat
    BY <1>0
  <2> QED BY <2>1, <2>2 DEF IndexSlots, IndexEntries
<1>2. Append(x.slots, c) \in Seq(IndexSlots) /\ Append(x.entries, a) \in Seq(IndexEntries)
  BY <1>0, <1>1
<1>3. AppendSlot(x, Len(x.entries) + 1, n) = z
  BY DEF AppendSlot
<1>4. z.entries = x.entries /\ z.live = x.live
  BY DEF Indexes
<1>5. NewEntry(x, p, f, n) = [z EXCEPT !.entries = Append(@, a), !.live = @ + 1]
  BY <1>3 DEF NewEntry
<1> HIDE DEF a, c
<1>6. NewEntry(x, p, f, n) = y
  BY <1>4, <1>5 DEF Indexes
<1>7. y \in Indexes
  <2> DEFINE S == Append(x.slots, c)
  <2> DEFINE E == Append(x.entries, a)
  <2> DEFINE l == x.live + 1
  <2>1. S \in Seq(IndexSlots) /\ E \in Seq(IndexEntries) /\ l \in Nat
    BY <1>0, <1>2
  <2> HIDE DEF S, E, l
  <2>2. [x EXCEPT !.slots = S, !.entries = E, !.live = l] \in Indexes
    BY <2>1 DEF Indexes
  <2> QED BY <2>2 DEF S, E, l
<1> QED BY <1>6, <1>7 DEF a, c

\* A new slot goes behind the ranked region.
LEMMA DescendsAppend ==
    ASSUME NEW S \in Seq(IndexSlots), NEW c, NEW end \in Nat, Descends(S, end)
    PROVE  Descends(Append(S, c), end)
<1>1. Len(Append(S, c)) = Len(S) + 1 /\ Len(S) \in Nat
      /\ \A s \in 1..Len(S) : Append(S, c)[s] = S[s]
  OBVIOUS
<1> QED BY <1>1 DEF Descends

\* y is x with a new entry and a slot of its own.
HasNew(x, p, f, n, y) ==
    /\ y.byRecord = x.byRecord /\ y.sortedEnd = x.sortedEnd
    /\ y.generation = x.generation /\ y.pending = x.pending
    /\ y.firstPending = x.firstPending /\ y.root = x.root
    /\ y.entries = Append(x.entries, [parent |-> p, slot |-> Len(x.slots) + 1,
                                      flags |-> f, zone |-> "Normal"])
    /\ y.slots = Append(x.slots, [entry |-> Len(x.entries) + 1, name |-> n, base |-> NoBase])
    /\ Len(y.entries) = Len(x.entries) + 1
    /\ Alive(y.entries) = Alive(x.entries) \cup {Len(y.entries)}
    /\ Len(y.entries) \notin Alive(x.entries)

LEMMA NewEntryIsSound ==
    ASSUME NEW x, Sound(x), NEW p \in Nat, NEW f \in SUBSET Flags, "deleted" \notin f,
           NEW n \in Names \cup {RootName}
    PROVE  Sound(NewEntry(x, p, f, n)) /\ HasNew(x, p, f, n, NewEntry(x, p, f, n))
<1> DEFINE y == NewEntry(x, p, f, n)
<1> DEFINE c == [entry |-> Len(x.entries) + 1, name |-> n, base |-> NoBase]
<1> DEFINE a == [parent |-> p, slot |-> Len(x.slots) + 1, flags |-> f, zone |-> "Normal"]
<1>0. x \in Indexes /\ x.slots \in Seq(IndexSlots) /\ x.entries \in Seq(IndexEntries)
      /\ x.live \in Nat /\ x.sortedEnd \in Nat
  BY DEF Indexes, Sound
<1>1. y \in Indexes
  BY <1>0, NewEntryFields
<1>2. /\ y.slots = Append(x.slots, c) /\ y.entries = Append(x.entries, a) /\ y.live = x.live + 1
      /\ y.byRecord = x.byRecord /\ y.sortedEnd = x.sortedEnd /\ y.deadBytes = x.deadBytes
      /\ y.generation = x.generation /\ y.pending = x.pending
      /\ y.firstPending = x.firstPending /\ y.root = x.root
  <2> DEFINE S == Append(x.slots, c)
  <2> DEFINE E == Append(x.entries, a)
  <2> DEFINE l == x.live + 1
  <2>1. y = [x EXCEPT !.slots = S, !.entries = E, !.live = l]
    BY <1>0, NewEntryFields
  <2> HIDE DEF S, E, l, y, a, c
  <2>2. /\ y.slots = S /\ y.entries = E /\ y.live = l /\ y.byRecord = x.byRecord
        /\ y.sortedEnd = x.sortedEnd /\ y.deadBytes = x.deadBytes /\ y.generation = x.generation
        /\ y.pending = x.pending /\ y.firstPending = x.firstPending /\ y.root = x.root
    BY <1>0, <2>1 DEF Indexes
  <2> QED BY <2>2 DEF S, E, l
<1>3. c \in IndexSlots /\ a \in IndexEntries
  <2>1. NoBase \in Int /\ "Normal" \in Zones
    BY DEF NoBase, Zones, ZoneBonus
  <2>2. Len(x.entries) + 1 \in Nat /\ Len(x.slots) + 1 \in Nat
    BY <1>0
  <2> QED BY <2>1, <2>2 DEF IndexSlots, IndexEntries
<1>a. a.slot = Len(x.slots) + 1 /\ "deleted" \notin a.flags /\ c.entry = Len(x.entries) + 1
  OBVIOUS
<1> HIDE DEF a, c, y
<1>4. /\ Paired(y.entries, y.slots)
      /\ Alive(y.entries) = Alive(x.entries) \cup {Len(x.entries) + 1}
         /\ Len(x.entries) + 1 \notin Alive(x.entries)
      /\ DeadOf(y.slots) = DeadOf(x.slots)
  BY SMTT(30), <1>0, <1>2, <1>3, <1>a, PairedAppend DEF Sound
<1>5. y.live = Cardinality(Alive(y.entries))
  <2>1. IsFiniteSet(Alive(x.entries)) /\ Cardinality(Alive(x.entries)) \in Nat
    BY <1>0, AliveIsFinite
  <2>2. Cardinality(Alive(y.entries)) = Cardinality(Alive(x.entries)) + 1
    BY <2>1, <1>4, FS_AddElement
  <2> QED BY <1>2, <2>2 DEF Sound
<1>6. y.deadBytes = SumOf(Weights(y.slots), DeadOf(y.slots))
  <2>1. IsFiniteSet(DeadOf(x.slots)) /\ DeadOf(x.slots) \subseteq DOMAIN x.slots
    BY <1>0, DeadIsFinite
  <2>2. DOMAIN x.slots \subseteq DOMAIN y.slots
        /\ \A s \in DOMAIN x.slots : y.slots[s] = x.slots[s]
    BY <1>0, <1>2
  <2>3. SumOf(Weights(x.slots), DeadOf(x.slots)) = SumOf(Weights(y.slots), DeadOf(x.slots))
    <3>1. DeadOf(x.slots) \subseteq DOMAIN y.slots
          /\ \A s \in DeadOf(x.slots) : x.slots[s].name = y.slots[s].name
      BY <2>1, <2>2
    <3> QED BY <2>1, <3>1, SumSame
  <2> QED BY <1>2, <1>4, <2>3 DEF Sound
<1>7. Mapped(y.byRecord, y.entries)
  BY <1>2, <1>4 DEF Mapped, Sound
<1>8. Descends(y.slots, y.sortedEnd)
  BY <1>0, <1>2, DescendsAppend DEF Sound
<1>9. Len(y.entries) = Len(x.entries) + 1
  BY <1>0, <1>2
<1>10. Sound(y)
  BY <1>1, <1>4, <1>5, <1>6, <1>7, <1>8 DEF Sound
<1>11. /\ Alive(y.entries) = Alive(x.entries) \cup {Len(y.entries)}
       /\ Len(y.entries) \notin Alive(x.entries)
  BY <1>4, <1>9
<1> QED BY <1>2, <1>9, <1>10, <1>11 DEF a, c, y, HasNew

\* The entries change in what Sound does not read.
LEMMA EntriesAreSound ==
    ASSUME NEW x, Sound(x), NEW F \in Seq(IndexEntries), Len(F) = Len(x.entries),
           \A e \in 1..Len(F) : /\ F[e].slot = x.entries[e].slot
                                /\ "deleted" \in F[e].flags <=> "deleted" \in x.entries[e].flags
    PROVE  Sound([x EXCEPT !.entries = F])
<1> DEFINE y == [x EXCEPT !.entries = F]
<1>0. x \in Indexes /\ x.entries \in Seq(IndexEntries)
  BY DEF Sound, Indexes
<1>1. /\ y \in Indexes /\ y.entries = F /\ y.slots = x.slots /\ y.live = x.live
      /\ y.deadBytes = x.deadBytes /\ y.byRecord = x.byRecord /\ y.sortedEnd = x.sortedEnd
  BY <1>0 DEF Indexes
<1>2. Paired(F, x.slots) /\ Alive(F) = Alive(x.entries)
  BY <1>0, PairedAlike DEF Sound
<1>3. Mapped(x.byRecord, F)
  BY <1>2 DEF Mapped, Sound
<1> HIDE DEF y
<1>4. Sound(y)
  BY <1>1, <1>2, <1>3 DEF Sound
<1> QED BY <1>4 DEF y

\* The slots change in their scores alone.
LEMMA SlotsAreSound ==
    ASSUME NEW x, Sound(x), NEW R \in Seq(IndexSlots), Len(R) = Len(x.slots),
           \A s \in 1..Len(R) : R[s].entry = x.slots[s].entry /\ R[s].name = x.slots[s].name,
           Descends(R, x.sortedEnd)
    PROVE  Sound([x EXCEPT !.slots = R])
<1> DEFINE y == [x EXCEPT !.slots = R]
<1>0. x \in Indexes /\ x.entries \in Seq(IndexEntries) /\ x.slots \in Seq(IndexSlots)
  BY DEF Sound, Indexes
<1>1. /\ y \in Indexes /\ y.entries = x.entries /\ y.slots = R /\ y.live = x.live
      /\ y.deadBytes = x.deadBytes /\ y.byRecord = x.byRecord /\ y.sortedEnd = x.sortedEnd
  BY <1>0 DEF Indexes
<1>2. Paired(x.entries, R)
  BY <1>0, PairedAlike DEF Sound
<1>3. DOMAIN R = DOMAIN x.slots /\ DOMAIN R = 1..Len(R)
  BY <1>0, SeqDomain
<1>4. DeadOf(R) = DeadOf(x.slots)
  BY <1>3 DEF DeadOf
<1>5. SumOf(Weights(x.slots), DeadOf(x.slots)) = SumOf(Weights(R), DeadOf(x.slots))
  <2>1. IsFiniteSet(DeadOf(x.slots)) /\ DeadOf(x.slots) \subseteq DOMAIN x.slots
    BY <1>0, DeadIsFinite
  <2>2. \A s \in DeadOf(x.slots) : x.slots[s].name = R[s].name
    BY <2>1, <1>3
  <2> QED BY <2>1, <2>2, <1>3, SumSame
<1> HIDE DEF y
<1>6. Sound(y)
  BY <1>1, <1>2, <1>4, <1>5 DEF Sound
<1> QED BY <1>6 DEF y

-----------------------------------------------------------------------------
(* Depth and score. *)

\* The walk up the parents counts, however the parents lie.
LEMMA DepthIsNat ==
    ASSUME NEW x, NEW e
    PROVE  Depth(x, e) \in Nat
<1> DEFINE up == CHOOSE up : up = [k \in 0..DepthCap |->
                    IF k = 0 THEN e ELSE x.entries[up[k - 1]].parent]
<1> DEFINE tops == {k \in 0..DepthCap : x.entries[up[k]].parent = up[k]}
<1>1. Depth(x, e) = IF tops = {} THEN DepthCap ELSE Min(tops)
  BY DEF Depth
<1>2. tops \in SUBSET Nat
  OBVIOUS
<1> HIDE DEF tops
<1>3. ASSUME tops # {} PROVE Min(tops) \in Nat
  <2>1. \E m \in tops : \A n \in tops : m <= n
    BY <1>2, <1>3, LeastNatural
  <2>2. Min(tops) \in tops
    BY <2>1 DEF Min
  <2> QED BY <1>2, <2>2
<1> QED BY <1>1, <1>3, IndexAssumption

\* A score is a number, and the sentinel exactly for what is not listed.
LEMMA BaseScoreIs ==
    ASSUME NEW a \in IndexEntries, NEW n \in Names \cup {RootName}, NEW d \in Nat
    PROVE  /\ BaseScore(a, n, d) \in Int
           /\ BaseScore(a, n, d) = NoBase <=> a.zone = "Excluded" \/ "deleted" \in a.flags
<1>1. CASE a.zone = "Excluded" \/ "deleted" \in a.flags
  BY <1>1 DEF BaseScore, NoBase
<1>2. CASE ~(a.zone = "Excluded" \/ "deleted" \in a.flags)
  <2> DEFINE length == IF n.length < 120 THEN n.length ELSE 120
  <2> DEFINE deep == IF d > FreeDepth THEN d - FreeDepth ELSE 0
  <2>1. length \in Int /\ deep \in Int
    BY IndexAssumption
  <2>2. ZoneBonus[a.zone] \in Int
    BY <1>2 DEF ZoneBonus, Zones, IndexEntries
  <2>3. KindBonus(n, a.flags) \in Int
    BY DEF KindBonus
  <2> DEFINE score == ZoneBonus[a.zone] + KindBonus(n, a.flags) - 2 * length - 12 * deep
  <2>4. BaseScore(a, n, d) = Clamped(score)
    BY <1>2 DEF BaseScore
  <2>5. score \in Int
    <3> HIDE DEF length, deep
    <3> QED BY <2>1, <2>2, <2>3
  <2> HIDE DEF score
  <2> QED BY <1>2, <2>4, <2>5 DEF Clamped, NoBase
<1> QED BY <1>1, <1>2

-----------------------------------------------------------------------------
(* Remove. *)

\* An entry alive owns its slot, and no other entry does.
LEMMA OwnsItsSlot ==
    ASSUME NEW x, Sound(x), NEW e \in Alive(x.entries)
    PROVE  /\ x.entries[e].slot \in DOMAIN x.slots
           /\ x.slots[x.entries[e].slot].entry = e /\ e # None
           /\ Owns(x, e, x.entries[e].slot) /\ ~Deleted(x, e)
           /\ e \in 1..Len(x.entries) /\ e \in DOMAIN x.entries /\ e \in Entries(x)
           /\ \A s \in DOMAIN x.slots : x.slots[s].entry = e => s = x.entries[e].slot
<1>1. x.entries \in Seq(IndexEntries) /\ x.slots \in Seq(IndexSlots) /\ Paired(x.entries, x.slots)
  BY DEF Sound, Indexes
<1>2. DOMAIN x.entries = 1..Len(x.entries) /\ DOMAIN x.slots = 1..Len(x.slots)
      /\ Len(x.entries) \in Nat
  BY <1>1, SeqDomain
<1>3. e \in 1..Len(x.entries) /\ "deleted" \notin x.entries[e].flags
  BY <1>2 DEF Alive
<1>4. e # None
  BY <1>2, <1>3 DEF None
<1>5. x.entries[e].slot # None /\ x.slots[x.entries[e].slot].entry = e
      /\ x.entries[e].slot \in {None} \cup 1..Len(x.slots)
  BY <1>1, <1>3 DEF Paired
<1>6. \A s \in DOMAIN x.slots : x.slots[s].entry = e => s = x.entries[e].slot
  BY <1>1, <1>2, <1>4 DEF Paired
<1> QED BY <1>2, <1>3, <1>4, <1>5, <1>6 DEF Owns, Deleted, Entries

\* The entry is marked and its slot is dead: the arrays still agree.
LEMMA PairedKill ==
    ASSUME NEW E \in Seq(IndexEntries), NEW S \in Seq(IndexSlots), Paired(E, S),
           NEW e \in 1..Len(E), NEW s \in 1..Len(S), S[s].entry = e, E[e].slot = s
    PROVE  LET F == [E EXCEPT ![e].flags = @ \cup {"deleted"}]
               R == [S EXCEPT ![s].entry = None]
           IN Paired(F, R) /\ Alive(F) = Alive(E) \ {e}
<1> DEFINE F == [E EXCEPT ![e].flags = @ \cup {"deleted"}]
<1> DEFINE R == [S EXCEPT ![s].entry = None]
<1>0. /\ DOMAIN E = 1..Len(E) /\ DOMAIN S = 1..Len(S) /\ Len(E) \in Nat /\ Len(S) \in Nat
      /\ \A d \in 1..Len(E) : E[d] \in IndexEntries
      /\ \A t \in 1..Len(S) : S[t] \in IndexSlots
  BY SeqDomain
<1>1. /\ DOMAIN F = 1..Len(E) /\ DOMAIN R = 1..Len(S) /\ Len(F) = Len(E) /\ Len(R) = Len(S)
      /\ \A d \in 1..Len(E) : d # e => F[d] = E[d]
      /\ \A t \in 1..Len(S) : t # s => R[t] = S[t]
      /\ F[e].slot = s /\ "deleted" \in F[e].flags /\ R[s].entry = None
  BY <1>0 DEF IndexEntries, IndexSlots
<1> HIDE DEF F, R
<1>2. ASSUME NEW d \in 1..Len(F)
      PROVE  /\ F[d].slot \in {None} \cup 1..Len(R)
             /\ "deleted" \notin F[d].flags <=> F[d].slot # None /\ R[F[d].slot].entry = d
  <2>1. CASE d = e
    BY <1>0, <1>1, <2>1 DEF None
  <2>2. CASE d # e
    <3>1. /\ E[d].slot \in {None} \cup 1..Len(S)
          /\ "deleted" \notin E[d].flags <=> E[d].slot # None /\ S[E[d].slot].entry = d
      BY <1>1 DEF Paired
    <3>2. CASE E[d].slot = s
      <4>1. S[s].entry # d
        BY <2>2
      <4> QED BY <1>1, <2>2, <3>1, <3>2, <4>1 DEF None
    <3>3. CASE E[d].slot # s
      BY <1>1, <2>2, <3>1, <3>3
    <3> QED BY <3>2, <3>3
  <2> QED BY <2>1, <2>2
<1>3. ASSUME NEW t \in 1..Len(R), R[t].entry # None
      PROVE  R[t].entry \in 1..Len(F) /\ F[R[t].entry].slot = t
  <2>1. t # s /\ R[t] = S[t]
    BY <1>1, <1>3
  <2>2. S[t].entry \in 1..Len(E) /\ E[S[t].entry].slot = t
    BY <1>1, <1>3, <2>1 DEF Paired
  <2>3. S[t].entry # e
    BY <2>1, <2>2
  <2> QED BY <1>1, <2>1, <2>2, <2>3
<1>4. Paired(F, R)
  BY <1>2, <1>3 DEF Paired
<1>5. Alive(F) = Alive(E) \ {e}
  BY <1>0, <1>1 DEF Alive
<1> QED BY <1>4, <1>5 DEF F, R

\* The order of the scores is of the scores alone.
LEMMA DescendsKept ==
    ASSUME NEW S, NEW R, NEW end, Descends(S, end), Len(R) = Len(S),
           \A s \in 1..end : R[s].base = S[s].base
    PROVE  Descends(R, end)
  BY DEF Descends

\* A record that is removed: its entry is marked and its slot is dead.
LEMMA RemoveIsSound ==
    ASSUME NEW x, Sound(x), NEW r \in Records
    PROVE  /\ Sound(Remove(x, r))
           /\ Remove(x, r).slots # x.slots => Remove(x, r).generation # x.generation
           /\ Len(Remove(x, r).slots) = Len(x.slots)
           /\ \A s \in DOMAIN x.slots :
                 /\ Remove(x, r).slots[s].base = x.slots[s].base
                 /\ Remove(x, r).slots[s].entry \in {None, x.slots[s].entry}
           /\ \A d \in DOMAIN x.entries : Remove(x, r).entries[d].zone = x.entries[d].zone
<1> DEFINE e == Find(x, r)
<1> DEFINE s == x.entries[e].slot
<1>0. /\ x \in Indexes /\ x.entries \in Seq(IndexEntries) /\ x.slots \in Seq(IndexSlots)
      /\ x.byRecord \in [Records -> Nat] /\ Paired(x.entries, x.slots)
      /\ Mapped(x.byRecord, x.entries) /\ x.deadBytes \in Nat /\ x.live \in Nat
  BY DEF Sound, Indexes
<1>1. CASE e \in {None, x.root} \/ Deleted(x, e)
  BY <1>0, <1>1 DEF Remove
<1>2. CASE ~(e \in {None, x.root} \/ Deleted(x, e))
  <2>1. e \in Alive(x.entries)
    BY <1>0, <1>2 DEF Mapped, Find
  <2>2. /\ s \in DOMAIN x.slots /\ x.slots[s].entry = e /\ e # None /\ Owns(x, e, s)
        /\ e \in 1..Len(x.entries) /\ e \in DOMAIN x.entries
    BY <2>1, OwnsItsSlot
  <2> DEFINE F == [x.entries EXCEPT ![e].flags = @ \cup {"deleted"}]
  <2> DEFINE B == [x.byRecord EXCEPT ![r] = None]
  <2> DEFINE l == x.live - 1
  <2> DEFINE R == [x.slots EXCEPT ![s].entry = None]
  <2> DEFINE d == x.deadBytes + Bytes(x.slots[s].name)
  <2> DEFINE y == [x EXCEPT !.entries = F, !.byRecord = B, !.live = l]
  <2> DEFINE z == [x EXCEPT !.entries = F, !.byRecord = B, !.live = l, !.slots = R,
                            !.deadBytes = d]
  <2>3. Remove(x, r) = Bump(KillSlot(y, s))
    <3>1. y = [x EXCEPT !.entries[e].flags = @ \cup {"deleted"}, !.byRecord[r] = None,
                        !.live = @ - 1]
      BY <1>0 DEF Indexes
    <3> QED BY <1>2, <2>2, <3>1 DEF Remove
  <2> HIDE DEF e, s
  <2>4. KillSlot(y, s) = z
    <3> HIDE DEF F, B, l
    <3>1. y.slots = x.slots /\ y.deadBytes = x.deadBytes
      BY <1>0 DEF Indexes
    <3>2. KillSlot(y, s) = [y EXCEPT !.slots = R, !.deadBytes = d]
      BY <3>1, <1>0 DEF KillSlot, Indexes
    <3> HIDE DEF R, d
    <3> QED BY <1>0, <3>2 DEF Indexes
  <2>5. s \in 1..Len(x.slots) /\ x.entries[e].slot = s
    BY <1>0, <2>2, SeqDomain DEF s
  <2>6. Paired(F, R) /\ Alive(F) = Alive(x.entries) \ {e}
    BY <1>0, <2>2, <2>5, PairedKill
  <2>7. l \in Nat /\ l = Cardinality(Alive(F))
    <3>1. IsFiniteSet(Alive(x.entries)) /\ x.live = Cardinality(Alive(x.entries))
          /\ x.live \in Nat
      BY <1>0, AliveIsFinite DEF Sound
    <3>2. IsFiniteSet(Alive(F)) /\ Cardinality(Alive(F)) = l
      BY <2>1, <2>6, <3>1, FS_RemoveElement
    <3> QED BY <3>2, FS_CardinalityType
  <2>8. d = SumOf(Weights(R), DeadOf(R)) /\ d \in Nat
    <3>1. x.slots[s].entry # None
      BY <2>2
    <3>2. SumOf(Weights(R), DeadOf(R)) = SumOf(Weights(x.slots), DeadOf(x.slots)) + Bytes(x.slots[s].name)
      BY <1>0, <2>2, <3>1, DeadBytesOfKill
    <3>3. Bytes(x.slots[s].name) \in Nat
      BY <1>0, <2>2, DeadIsFinite
    <3> QED BY <1>0, <3>2, <3>3 DEF Sound
  <2>9. B \in [Records -> Nat] /\ Mapped(B, F)
    <3>1. \A q \in Records : q # r => (B[q] = x.byRecord[q] /\ B[q] # e) \/ B[q] = None
      BY <1>0, <2>2 DEF Mapped, Find, e
    <3>2. B[r] = None /\ B \in [Records -> Nat]
      BY <1>0 DEF None
    <3> QED BY <1>0, <2>6, <3>1, <3>2 DEF Mapped
  <2>10. F \in Seq(IndexEntries) /\ R \in Seq(IndexSlots) /\ Len(F) = Len(x.entries)
         /\ Len(R) = Len(x.slots)
    <3>1. x.entries[e] \in IndexEntries /\ x.slots[s] \in IndexSlots
      BY <1>0, <2>2, SeqDomain
    <3>2. [x.entries[e] EXCEPT !.flags = @ \cup {"deleted"}] \in IndexEntries
      BY <3>1 DEF IndexEntries, Flags
    <3>3. [x.slots[s] EXCEPT !.entry = None] \in IndexSlots
      BY <3>1 DEF IndexSlots, None
    <3>4. F = [x.entries EXCEPT ![e] = [x.entries[e] EXCEPT !.flags = @ \cup {"deleted"}]]
      OBVIOUS
    <3>5. R = [x.slots EXCEPT ![s] = [x.slots[s] EXCEPT !.entry = None]]
      OBVIOUS
    <3> QED BY <1>0, <2>2, <2>5, <3>2, <3>3, <3>4, <3>5
  <2>11. \A t \in DOMAIN x.slots : R[t].base = x.slots[t].base
         /\ R[t].entry \in {None, x.slots[t].entry}
    BY <1>0, <2>2, SeqDomain DEF IndexSlots
  <2>12. \A t \in DOMAIN x.entries : F[t].zone = x.entries[t].zone
    BY <1>0, <2>2, SeqDomain DEF IndexEntries
  <2>13. Descends(R, x.sortedEnd)
    <3>1. \A t \in 1..x.sortedEnd : t \in DOMAIN x.slots
      BY <1>0, SeqDomain DEF Sound, Descends, Indexes
    <3> HIDE DEF R
    <3> QED BY <2>10, <2>11, <3>1, DescendsKept DEF Sound
  <2> HIDE DEF F, B, l, R, d
  <2>14. /\ z \in Indexes /\ z.entries = F /\ z.slots = R /\ z.live = l /\ z.deadBytes = d
         /\ z.byRecord = B /\ z.sortedEnd = x.sortedEnd /\ z.generation = x.generation
    BY <1>0, <2>7, <2>8, <2>9, <2>10 DEF Indexes
  <2> HIDE DEF z
  <2>15. Sound(z)
    BY <2>6, <2>7, <2>8, <2>9, <2>13, <2>14 DEF Sound
  <2>16. /\ Sound(Remove(x, r)) /\ Remove(x, r).generation # x.generation
         /\ Remove(x, r).slots = R /\ Remove(x, r).entries = F
    BY <2>3, <2>4, <2>14, <2>15, BumpIsSound
  <2> QED BY <2>10, <2>11, <2>12, <2>16
<1> QED BY <1>1, <1>2

-----------------------------------------------------------------------------
(* Upsert. *)

\* The base of a live slot tells whether its entry is listed.
Right(x, s) ==
    (x.slots[s].base = NoBase) <=> (x.entries[x.slots[s].entry].zone = "Excluded")

\* A score is written where it keeps the order: behind the ranked region, or
\* the same one.
LEMMA SetBaseIsSound ==
    ASSUME NEW x, Sound(x), NEW e \in Alive(x.entries), NEW base \in Int,
           x.entries[e].slot > x.sortedEnd \/ x.slots[x.entries[e].slot].base = base
    PROVE  LET y == SetBase(x, e, base)
           IN /\ Sound(y) /\ y.entries = x.entries /\ y.generation = x.generation
              /\ y.sortedEnd = x.sortedEnd
              /\ DOMAIN y.slots = DOMAIN x.slots
              /\ y.slots[x.entries[e].slot].base = base
              /\ \A s \in DOMAIN x.slots :
                    /\ y.slots[s].entry = x.slots[s].entry
                    /\ s # x.entries[e].slot => y.slots[s] = x.slots[s]
<1> DEFINE s == x.entries[e].slot
<1> DEFINE R == [x.slots EXCEPT ![s].base = base]
<1> DEFINE y == [x EXCEPT !.slots = R]
<1>0. x \in Indexes /\ x.slots \in Seq(IndexSlots) /\ x.sortedEnd \in Nat
  BY DEF Sound, Indexes
<1>1. SetBase(x, e, base) = y
  BY <1>0 DEF SetBase, Indexes
<1>2. s \in DOMAIN x.slots
  BY OwnsItsSlot
<1>3. DOMAIN x.slots = 1..Len(x.slots) /\ \A t \in DOMAIN x.slots : x.slots[t] \in IndexSlots
  BY <1>0, SeqDomain
<1>4. [x.slots[s] EXCEPT !.base = base] \in IndexSlots
  BY <1>2, <1>3 DEF IndexSlots
<1>5. R = [x.slots EXCEPT ![s] = [x.slots[s] EXCEPT !.base = base]]
  OBVIOUS
<1>s. s > x.sortedEnd \/ x.slots[s].base = base
  OBVIOUS
<1> HIDE DEF s
<1>6. R \in Seq(IndexSlots) /\ Len(R) = Len(x.slots) /\ DOMAIN R = DOMAIN x.slots
  BY <1>0, <1>2, <1>3, <1>4, <1>5
<1>7. /\ R[s].base = base
      /\ \A t \in DOMAIN x.slots : /\ R[t].entry = x.slots[t].entry /\ R[t].name = x.slots[t].name
                                   /\ t # s => R[t] = x.slots[t]
  BY <1>2, <1>3 DEF IndexSlots
<1>8. Descends(R, x.sortedEnd)
  <2>1. Descends(x.slots, x.sortedEnd)
    BY DEF Sound
  <2>2. \A t \in 1..x.sortedEnd : t \in DOMAIN x.slots
    BY <1>0, <1>3, <2>1 DEF Descends
  <2>3. \A t \in 1..x.sortedEnd : R[t].base = x.slots[t].base
    BY <1>0, <1>3, <1>7, <1>s, <2>2
  <2> HIDE DEF R
  <2> QED BY <1>6, <2>1, <2>3, DescendsKept
<1> HIDE DEF R
<1>9. Sound(y)
  BY <1>3, <1>6, <1>7, <1>8, SlotsAreSound
<1>10. y.entries = x.entries /\ y.slots = R /\ y.generation = x.generation
       /\ y.sortedEnd = x.sortedEnd
  BY <1>0 DEF Indexes
<1> QED BY <1>1, <1>6, <1>7, <1>9, <1>10 DEF s

\* The entry e leaves the slot s of S for the new slot c: F and R are the
\* arrays afterwards, K the slots in between.
Replaces(E, S, e, s, c, F, K, R) ==
    /\ e \in 1..Len(E) /\ s \in 1..Len(S) /\ S[s].entry = e /\ E[e].slot = s
    /\ c \in IndexSlots /\ c.entry = e
    /\ F = [E EXCEPT ![e].slot = Len(S) + 1]
    /\ K = [S EXCEPT ![s].entry = None] /\ R = Append(K, c)

LEMMA PairedReplace ==
    ASSUME NEW E \in Seq(IndexEntries), NEW S \in Seq(IndexSlots), Paired(E, S),
           NEW e, NEW s, NEW c, NEW F, NEW K, NEW R, Replaces(E, S, e, s, c, F, K, R)
    PROVE  Paired(F, R) /\ Alive(F) = Alive(E) /\ DeadOf(R) = DeadOf(K)
<1> DEFINE m == Len(S) + 1
<1> USE DEF Replaces
<1>0. /\ DOMAIN E = 1..Len(E) /\ DOMAIN S = 1..Len(S) /\ Len(E) \in Nat /\ Len(S) \in Nat
      /\ \A d \in 1..Len(E) : E[d] \in IndexEntries
      /\ \A t \in 1..Len(S) : S[t] \in IndexSlots
  BY SeqDomain
<1>k. K \in Seq(IndexSlots) /\ Len(K) = Len(S) /\ DOMAIN K = 1..Len(S)
  <2>1. [S[s] EXCEPT !.entry = None] \in IndexSlots
    BY <1>0 DEF IndexSlots, None
  <2> QED BY <2>1, <1>0
<1>1. /\ DOMAIN F = 1..Len(E) /\ Len(F) = Len(E)
      /\ \A d \in 1..Len(E) : d # e => F[d] = E[d]
      /\ F[e].slot = m /\ F[e].flags = E[e].flags
  BY <1>0 DEF IndexEntries
<1>2. /\ DOMAIN R = 1..m /\ Len(R) = m /\ R[m] = c
      /\ \A t \in 1..Len(S) : R[t] = K[t]
  BY <1>k
<1>3. /\ \A t \in 1..Len(S) : t # s => K[t] = S[t]
      /\ K[s].entry = None
  BY <1>0 DEF IndexSlots
<1>4. ASSUME NEW d \in 1..Len(F)
      PROVE  /\ F[d].slot \in {None} \cup 1..Len(R)
             /\ "deleted" \notin F[d].flags <=> F[d].slot # None /\ R[F[d].slot].entry = d
  <2>0. /\ E[d].slot \in {None} \cup 1..Len(S)
        /\ "deleted" \notin E[d].flags <=> E[d].slot # None /\ S[E[d].slot].entry = d
    BY <1>1 DEF Paired
  <2>1. CASE d = e
    BY <1>0, <1>1, <1>2, <2>0, <2>1 DEF None
  <2>2. CASE d # e
    <3>2. CASE E[d].slot = s
      BY <1>0, <1>1, <1>2, <1>3, <2>2, <2>0, <3>2 DEF None
    <3>3. CASE E[d].slot # s
      BY <1>0, <1>1, <1>2, <1>3, <2>2, <2>0, <3>3
    <3> QED BY <3>2, <3>3
  <2> QED BY <2>1, <2>2
<1>5. ASSUME NEW t \in 1..Len(R), R[t].entry # None
      PROVE  R[t].entry \in 1..Len(F) /\ F[R[t].entry].slot = t
  <2>1. CASE t = m
    BY <1>1, <1>2, <2>1
  <2>2. CASE t # m
    <3>1. t \in 1..Len(S) /\ t # s /\ R[t] = S[t]
      BY <1>0, <1>2, <1>3, <1>5, <2>2
    <3>2. S[t].entry \in 1..Len(E) /\ E[S[t].entry].slot = t
      BY <1>5, <3>1 DEF Paired
    <3>3. S[t].entry # e
      BY <3>1, <3>2
    <3> QED BY <1>1, <3>1, <3>2, <3>3
  <2> QED BY <2>1, <2>2
<1>6. Paired(F, R)
  BY <1>4, <1>5 DEF Paired
<1>7. Alive(F) = Alive(E)
  BY <1>0, <1>1 DEF Alive
<1>8. DeadOf(R) = DeadOf(K)
  <2>1. e # None
    BY <1>0 DEF None
  <2> QED BY <1>0, <1>2, <1>k, <2>1 DEF DeadOf
<1> QED BY <1>6, <1>7, <1>8

\* An entry that leaves its slot for a new one.
Moved(x, e, n) ==
    LET k == KillSlot(x, x.entries[e].slot)
    IN [AppendSlot(k, e, n) EXCEPT !.entries[e].slot = Len(k.slots) + 1]

\* What became of the index x when e moved.
HasMoved(x, e, z) ==
    /\ z.generation = x.generation /\ z.sortedEnd = x.sortedEnd
    /\ z.entries[e].slot = Len(x.slots) + 1
    /\ Alive(z.entries) = Alive(x.entries)
    /\ DOMAIN z.entries = DOMAIN x.entries
    /\ \A d \in DOMAIN x.entries : z.entries[d].zone = x.entries[d].zone
    /\ DOMAIN z.slots = 1..(Len(x.slots) + 1)
    /\ z.slots[Len(x.slots) + 1].entry = e
    /\ \A s \in 1..Len(x.slots) :
          /\ z.slots[s].base = x.slots[s].base
          /\ z.slots[s].entry = IF s = x.entries[e].slot THEN None ELSE x.slots[s].entry

LEMMA MovedIsSound ==
    ASSUME NEW x, Sound(x), NEW e \in Alive(x.entries), NEW n \in Names \cup {RootName},
           NEW z, z = Moved(x, e, n)
    PROVE  Sound(z) /\ HasMoved(x, e, z)
<1> DEFINE s == x.entries[e].slot
<1> DEFINE m == Len(x.slots) + 1
<1> DEFINE c == [entry |-> e, name |-> n, base |-> NoBase]
<1> DEFINE K == [x.slots EXCEPT ![s].entry = None]
<1> DEFINE R == Append(K, c)
<1> DEFINE F == [x.entries EXCEPT ![e].slot = m]
<1> DEFINE d == x.deadBytes + Bytes(x.slots[s].name)
<1>0. /\ x \in Indexes /\ x.entries \in Seq(IndexEntries) /\ x.slots \in Seq(IndexSlots)
      /\ Paired(x.entries, x.slots) /\ x.sortedEnd \in Nat
      /\ Mapped(x.byRecord, x.entries) /\ x.deadBytes \in Nat /\ x.live \in Nat
      /\ Descends(x.slots, x.sortedEnd)
  BY DEF Sound, Indexes
<1>1. /\ s \in DOMAIN x.slots /\ x.slots[s].entry = e /\ e # None
      /\ e \in 1..Len(x.entries) /\ e \in DOMAIN x.entries
  BY OwnsItsSlot
<1>2. /\ DOMAIN x.slots = 1..Len(x.slots) /\ s \in 1..Len(x.slots) /\ Len(x.slots) \in Nat
      /\ \A t \in DOMAIN x.slots : x.slots[t] \in IndexSlots
      /\ DOMAIN x.entries = 1..Len(x.entries) /\ Len(x.entries) \in Nat
      /\ \A t \in DOMAIN x.entries : x.entries[t] \in IndexEntries
  BY <1>0, <1>1, SeqDomain
<1>s. x.entries[e].slot = s
  OBVIOUS
<1> HIDE DEF s
<1>3. c \in IndexSlots /\ c.entry = e
  BY <1>1, <1>2 DEF IndexSlots, NoBase
<1>4. K \in Seq(IndexSlots) /\ Len(K) = Len(x.slots) /\ DOMAIN K = DOMAIN x.slots
  <2>1. [x.slots[s] EXCEPT !.entry = None] \in IndexSlots
    BY <1>2 DEF IndexSlots, None
  <2> QED BY <2>1, <1>0, <1>2
<1>5. R \in Seq(IndexSlots) /\ Len(R) = m /\ DOMAIN R = 1..m /\ R[m] = c
      /\ \A t \in 1..Len(x.slots) : R[t] = K[t]
  BY <1>3, <1>4, <1>2
<1>6. F \in Seq(IndexEntries) /\ Len(F) = Len(x.entries) /\ DOMAIN F = DOMAIN x.entries
  <2>1. [x.entries[e] EXCEPT !.slot = m] \in IndexEntries
    BY SMTT(30), <1>1, <1>2 DEF IndexEntries
  <2> QED BY <2>1, <1>0, <1>1
<1>7. \A t \in DOMAIN x.entries : F[t].zone = x.entries[t].zone
  BY <1>1, <1>2 DEF IndexEntries
<1>8. F[e].slot = m
  BY <1>1, <1>2 DEF IndexEntries
<1>9. \A t \in DOMAIN x.slots : /\ K[t].base = x.slots[t].base /\ K[t].name = x.slots[t].name
                                /\ K[t].entry = IF t = s THEN None ELSE x.slots[t].entry
  BY <1>2 DEF IndexSlots
<1>10. /\ Paired(F, R) /\ Alive(F) = Alive(x.entries) /\ DeadOf(R) = DeadOf(K)
  <2> HIDE DEF c
  <2>1. s \in 1..Len(x.slots) /\ x.slots[s].entry = e /\ x.entries[e].slot = s
        /\ e \in 1..Len(x.entries)
    BY <1>1, <1>2, <1>s
  <2>2. Replaces(x.entries, x.slots, e, s, c, F, K, R)
    BY <1>3, <2>1 DEF Replaces
  <2> HIDE DEF F, R, K, m
  <2> QED BY <1>0, <2>2, PairedReplace
<1>11. d = SumOf(Weights(R), DeadOf(R)) /\ d \in Nat
  <2>1. x.slots[s].entry # None
    BY <1>1
  <2>2. SumOf(Weights(K), DeadOf(K)) = SumOf(Weights(x.slots), DeadOf(x.slots)) + Bytes(x.slots[s].name)
    BY <1>0, <1>1, <2>1, DeadBytesOfKill
  <2>3. Bytes(x.slots[s].name) \in Nat
    BY <1>0, <1>1, DeadIsFinite
  <2>4. SumOf(Weights(K), DeadOf(K)) = SumOf(Weights(R), DeadOf(K))
    <3>1. IsFiniteSet(DeadOf(K)) /\ DeadOf(K) \subseteq DOMAIN K
      BY <1>4, DeadIsFinite
    <3>2. \A t \in DeadOf(K) : t \in DOMAIN R /\ K[t].name = R[t].name
      BY <1>2, <1>4, <1>5, <3>1
    <3> HIDE DEF K, R
    <3> QED BY <3>1, <3>2, SumSame
  <2> QED BY <1>0, <1>10, <2>2, <2>3, <2>4 DEF Sound
<1>12. z = [x EXCEPT !.slots = R, !.deadBytes = d, !.entries = F]
  <2> DEFINE k == KillSlot(x, s)
  <2>1. k = [x EXCEPT !.slots = K, !.deadBytes = d]
    BY <1>0 DEF KillSlot, Indexes
  <2>2. k.slots = K /\ k.entries = x.entries
        /\ AppendSlot(k, e, n) = [k EXCEPT !.slots = Append(K, c)]
    <3> HIDE DEF K, d
    <3>1. k.slots = K /\ k.entries = x.entries
      BY <1>0, <2>1 DEF Indexes
    <3> QED BY <3>1 DEF AppendSlot
  <2>3. Len(k.slots) + 1 = m
    BY <1>4, <2>2
  <2>4. z = [[k EXCEPT !.slots = R] EXCEPT !.entries[e].slot = m]
    BY <1>s, <2>2, <2>3 DEF Moved
  <2> HIDE DEF K, d, R, m, k
  <2>5. [k EXCEPT !.slots = R].entries = x.entries
    BY <1>0, <2>1 DEF Indexes
  <2>6. [[k EXCEPT !.slots = R] EXCEPT !.entries[e].slot = m]
        = [[k EXCEPT !.slots = R] EXCEPT !.entries = F]
    BY <2>5
  <2> HIDE DEF F
  <2> QED BY <1>0, <2>1, <2>4, <2>6 DEF Indexes
<1>13. Descends(R, x.sortedEnd)
  <2>1. \A t \in 1..x.sortedEnd : t \in DOMAIN x.slots
    BY <1>0, <1>2 DEF Descends
  <2>2. Descends(K, x.sortedEnd)
    <3> HIDE DEF K
    <3> QED BY <1>0, <1>4, <1>9, <2>1, DescendsKept
  <2> QED BY <1>0, <1>4, <2>2, DescendsAppend
<1> HIDE DEF F, R, d, K, c, m
<1>14. /\ z \in Indexes /\ z.entries = F /\ z.slots = R /\ z.live = x.live /\ z.deadBytes = d
       /\ z.byRecord = x.byRecord /\ z.sortedEnd = x.sortedEnd /\ z.generation = x.generation
  BY <1>0, <1>5, <1>6, <1>11, <1>12 DEF Indexes
<1>15. Sound(z)
  <2>1. Mapped(x.byRecord, F) /\ x.live = Cardinality(Alive(F))
    BY <1>10 DEF Mapped, Sound
  <2> QED BY <1>10, <1>11, <1>13, <1>14, <2>1 DEF Sound
<1>16. /\ R[m].entry = e
       /\ \A t \in 1..Len(x.slots) :
             R[t].base = x.slots[t].base /\ R[t].entry = IF t = s THEN None ELSE x.slots[t].entry
  BY <1>2, <1>3, <1>5, <1>9
<1>17. m = Len(x.slots) + 1
  BY DEF m
<1> QED BY <1>5, <1>6, <1>7, <1>8, <1>10, <1>12, <1>14, <1>15, <1>16, <1>17, <1>s DEF HasMoved

LEMMA ZoneForNewIsZone ==
    ASSUME NEW zone \in Zones, NEW f, NEW n, NEW top
    PROVE  ZoneForNew(zone, f, n, top) \in Zones
  BY DEF ZoneForNew, Zones, ZoneBonus

\* The rest of Ranked, when the zone of e is known.
RankedFrom(y, e, n) ==
    LET base == BaseScore(y.entries[e], n, Depth(y, e))
        s == y.entries[e].slot
        z == IF ~NeedsSlot(y, e, n, base) THEN y
             ELSE LET k == IF Owns(y, e, s) THEN KillSlot(y, s) ELSE y
                  IN [AppendSlot(k, e, n) EXCEPT
                        !.entries[e].slot = Len(k.slots) + 1]
    IN Bump(SetBase(z, e, base))

\* Upsert of an entry: its slot has its name and the score of its zone, the
\* generation is a new one, and no other slot changed.
LEMMA RankedIsSound ==
    ASSUME NEW x, Sound(x), NEW e \in Alive(x.entries), NEW n \in Names \cup {RootName},
           x.entries[e].parent \in DOMAIN x.entries
    PROVE  LET w == Ranked(x, e, n)
           IN /\ Sound(w) /\ w.generation # x.generation
              /\ (\A s \in LiveSlots(x) : x.slots[s].entry # e => Right(x, s))
                    => \A s \in LiveSlots(w) : Right(w, s)
<1> DEFINE p == x.entries[e].parent
<1> DEFINE Z == ZoneForNew(x.entries[p].zone, x.entries[e].flags, n, p = x.root)
<1> DEFINE F == [x.entries EXCEPT ![e].zone = Z]
<1> DEFINE y == [x EXCEPT !.entries = F]
<1> DEFINE base == BaseScore(y.entries[e], n, Depth(y, e))
<1> DEFINE s == y.entries[e].slot
<1> DEFINE z == IF ~NeedsSlot(y, e, n, base) THEN y ELSE Moved(y, e, n)
<1> DEFINE v == SetBase(z, e, base)
<1>0. /\ x \in Indexes /\ x.entries \in Seq(IndexEntries) /\ x.slots \in Seq(IndexSlots)
      /\ x.sortedEnd \in Nat
  BY DEF Sound, Indexes
<1>1. /\ DOMAIN x.entries = 1..Len(x.entries) /\ DOMAIN x.slots = 1..Len(x.slots)
      /\ Len(x.slots) \in Nat /\ Len(x.entries) \in Nat
      /\ \A d \in DOMAIN x.entries : x.entries[d] \in IndexEntries
  BY <1>0, SeqDomain
<1>2. e \in DOMAIN x.entries /\ "deleted" \notin x.entries[e].flags /\ e # None
  BY <1>1 DEF Alive, None
<1>3. Z \in Zones
  <2>1. x.entries[p].zone \in Zones
    BY <1>1 DEF IndexEntries
  <2> QED BY <2>1, ZoneForNewIsZone
<1> HIDE DEF Z, p
<1>4. /\ F \in Seq(IndexEntries) /\ Len(F) = Len(x.entries) /\ DOMAIN F = DOMAIN x.entries
      /\ F[e].zone = Z /\ F[e] \in IndexEntries
      /\ \A d \in DOMAIN x.entries :
            /\ F[d].slot = x.entries[d].slot /\ F[d].flags = x.entries[d].flags
            /\ d # e => F[d].zone = x.entries[d].zone
  <2>1. [x.entries[e] EXCEPT !.zone = Z] \in IndexEntries
    BY <1>1, <1>2, <1>3 DEF IndexEntries
  <2>2. F = [x.entries EXCEPT ![e] = [x.entries[e] EXCEPT !.zone = Z]]
    OBVIOUS
  <2>3. F \in Seq(IndexEntries) /\ Len(F) = Len(x.entries) /\ DOMAIN F = DOMAIN x.entries
        /\ F[e] \in IndexEntries
    BY <1>0, <1>2, <2>1, <2>2
  <2>4. \A d \in DOMAIN x.entries :
            /\ F[d].slot = x.entries[d].slot /\ F[d].flags = x.entries[d].flags
            /\ d # e => F[d].zone = x.entries[d].zone
    BY <1>1, <1>2 DEF IndexEntries
  <2>5. F[e].zone = Z
    BY <1>1, <1>2 DEF IndexEntries
  <2> QED BY <2>3, <2>4, <2>5
<1>a. y = [x EXCEPT !.entries[e].zone = Z]
  BY <1>0 DEF Indexes
<1> HIDE DEF F
<1>5. Sound(y)
  BY <1>1, <1>4, EntriesAreSound
<1>6. y.entries = F /\ y.slots = x.slots /\ y.sortedEnd = x.sortedEnd
      /\ y.generation = x.generation
  BY <1>0 DEF Indexes
<1>7. e \in Alive(y.entries)
  BY <1>2, <1>4, <1>6 DEF Alive
<1> HIDE DEF y
<1>8. base \in Int /\ (base = NoBase <=> Z = "Excluded")
  <2>1. y.entries[e] \in IndexEntries /\ y.entries[e].zone = Z
        /\ "deleted" \notin y.entries[e].flags
    BY <1>2, <1>4, <1>6
  <2>2. Depth(y, e) \in Nat
    BY DepthIsNat
  <2> QED BY <2>1, <2>2, BaseScoreIs
<1> HIDE DEF base
<1>9. Owns(y, e, s)
  BY <1>5, <1>7, OwnsItsSlot
<1>10. Ranked(x, e, n) = Bump(v)
  <2>1. Ranked(x, e, n) = RankedFrom([x EXCEPT !.entries[e].zone = Z], e, n)
    BY DEF Ranked, RankedFrom, Z, p
  <2>2. Ranked(x, e, n) = RankedFrom(y, e, n)
    BY <1>a, <2>1
  <2> QED BY <1>9, <2>2 DEF RankedFrom, Moved, base
<1>11. /\ Sound(z) /\ e \in Alive(z.entries) /\ z.generation = x.generation
       /\ z.entries[e].slot > z.sortedEnd \/ z.slots[z.entries[e].slot].base = base
       /\ z.entries[e].slot \in DOMAIN z.slots /\ z.slots[z.entries[e].slot].entry = e
       /\ DOMAIN z.entries = DOMAIN x.entries
       /\ \A d \in DOMAIN x.entries : z.entries[d].zone = F[d].zone
       /\ \A t \in DOMAIN z.slots : t # z.entries[e].slot =>
             \/ z.slots[t].entry = None
             \/ /\ t \in DOMAIN x.slots /\ z.slots[t].base = x.slots[t].base
                /\ z.slots[t].entry = x.slots[t].entry
  <2>s. /\ s \in DOMAIN x.slots /\ x.slots[s].entry = e
    BY <1>5, <1>6, <1>7, OwnsItsSlot
  <2>1. CASE ~NeedsSlot(y, e, n, base)
    <3>1. z = y
      BY <2>1
    <3>2. s > x.sortedEnd \/ x.slots[s].base = base
      BY <2>1, <2>s, <1>0, <1>1, <1>6 DEF NeedsSlot
    <3> QED BY <3>1, <3>2, <2>s, <1>4, <1>5, <1>6, <1>7
  <2>2. CASE NeedsSlot(y, e, n, base)
    <3>1. z = Moved(y, e, n)
      BY <2>2
    <3> HIDE DEF z
    <3>m. Sound(z) /\ HasMoved(y, e, z)
      BY <1>5, <1>7, <3>1, MovedIsSound
    <3>2. /\ Sound(z) /\ z.generation = y.generation /\ z.sortedEnd = y.sortedEnd
          /\ z.entries[e].slot = Len(y.slots) + 1
          /\ Alive(z.entries) = Alive(y.entries)
          /\ DOMAIN z.entries = DOMAIN y.entries
          /\ \A d \in DOMAIN y.entries : z.entries[d].zone = y.entries[d].zone
          /\ DOMAIN z.slots = 1..(Len(y.slots) + 1)
          /\ z.slots[Len(y.slots) + 1].entry = e
          /\ \A t \in 1..Len(y.slots) :
                /\ z.slots[t].base = y.slots[t].base
                /\ z.slots[t].entry = IF t = y.entries[e].slot THEN None ELSE y.slots[t].entry
      BY <3>m DEF HasMoved
    <3>3. z.entries[e].slot > z.sortedEnd
      BY <3>2, <1>0, <1>1, <1>6 DEF Sound, Descends
    <3>4. ASSUME NEW t \in DOMAIN z.slots, t # z.entries[e].slot
          PROVE  \/ z.slots[t].entry = None
                 \/ /\ t \in DOMAIN x.slots /\ z.slots[t].base = x.slots[t].base
                    /\ z.slots[t].entry = x.slots[t].entry
      <4>1. t \in 1..Len(x.slots)
        BY <3>2, <3>4, <1>1, <1>6
      <4> QED BY <4>1, <3>2, <1>1, <1>6
    <3>5. z.entries[e].slot \in DOMAIN z.slots /\ z.slots[z.entries[e].slot].entry = e
      BY <3>2, <1>1, <1>6
    <3> QED BY <1>4, <1>6, <1>7, <3>2, <3>3, <3>4, <3>5
  <2> QED BY <2>1, <2>2
<1> HIDE DEF z
<1>12. /\ Sound(v) /\ v.entries = z.entries /\ v.generation = z.generation
       /\ DOMAIN v.slots = DOMAIN z.slots
       /\ v.slots[z.entries[e].slot].base = base
       /\ \A t \in DOMAIN z.slots :
             /\ v.slots[t].entry = z.slots[t].entry
             /\ t # z.entries[e].slot => v.slots[t] = z.slots[t]
  BY <1>8, <1>11, SetBaseIsSound
<1> HIDE DEF v
<1> DEFINE w == Bump(v)
<1>13. Sound(w) /\ w.generation # v.generation /\ w.entries = v.entries /\ w.slots = v.slots
  BY <1>12, BumpIsSound
<1> HIDE DEF w
<1>14. ASSUME \A t \in LiveSlots(x) : x.slots[t].entry # e => Right(x, t),
              NEW t \in LiveSlots(w)
       PROVE  Right(w, t)
  <2>1. t \in DOMAIN z.slots /\ w.slots[t].entry # None
    <3>1. v.slots \in Seq(IndexSlots)
      BY <1>12 DEF Sound, Indexes
    <3> QED BY <3>1, <1>12, <1>13, SeqDomain DEF LiveSlots, Slots
  <2>2. CASE t = z.entries[e].slot
    <3>1. w.slots[t].base = base /\ w.slots[t].entry = e /\ w.entries[e].zone = Z
      BY <2>2, <1>2, <1>4, <1>11, <1>12, <1>13
    <3> QED BY <3>1, <1>8 DEF Right
  <2>3. CASE t # z.entries[e].slot
    <3>1. /\ t \in DOMAIN x.slots /\ w.slots[t].base = x.slots[t].base
          /\ w.slots[t].entry = x.slots[t].entry /\ x.slots[t].entry # None
      BY <2>1, <2>3, <1>11, <1>12, <1>13
    <3>2. x.slots[t].entry # e
      <4>1. w.slots[t].entry # e
        <5>1. z.slots[t].entry # e
          BY <1>11, <2>1, <2>3, OwnsItsSlot
        <5> QED BY <5>1, <2>1, <1>12, <1>13
      <4> QED BY <3>1, <4>1
    <3>3. x.slots[t].entry \in DOMAIN x.entries
      BY <3>1, <1>1 DEF Sound, Paired
    <3>4. w.entries[x.slots[t].entry].zone = x.entries[x.slots[t].entry].zone
      BY <3>2, <3>3, <1>4, <1>11, <1>12, <1>13
    <3>5. Right(x, t)
      BY <1>1, <1>14, <3>1, <3>2 DEF LiveSlots, Slots
    <3> QED BY <3>1, <3>4, <3>5 DEF Right
  <2> QED BY <2>2, <2>3
<1> QED BY <1>10, <1>11, <1>12, <1>13, <1>14 DEF w

\* The flags an enumeration or the journal gives a record.
Given == SUBSET {"directory", "hidden", "system"}

\* A hidden name of the system is a flag too; none is a deletion.
LEMMA RecordFlagsAre ==
    ASSUME NEW r, NEW f \in Given
    PROVE  RecordFlags(r, f) \in SUBSET Flags /\ "deleted" \notin RecordFlags(r, f)
  BY DEF RecordFlags, Given, Flags

\* ExcludedIsUnlisted, of any ranked index.
Listed(x) == \A s \in LiveSlots(x) : Right(x, s)

\* A live slot and its entry point at each other.
LEMMA LiveSlotsAre ==
    ASSUME NEW x, Sound(x)
    PROVE  /\ LiveSlots(x) = {s \in DOMAIN x.slots : x.slots[s].entry # None}
           /\ \A s \in LiveSlots(x) : /\ x.slots[s].entry \in DOMAIN x.entries
                                      /\ x.slots[s].entry \in Alive(x.entries)
                                      /\ x.entries[x.slots[s].entry].slot = s
<1>1. x.slots \in Seq(IndexSlots) /\ x.entries \in Seq(IndexEntries) /\ Paired(x.entries, x.slots)
  BY DEF Sound, Indexes
<1>2. DOMAIN x.slots = 1..Len(x.slots) /\ DOMAIN x.entries = 1..Len(x.entries)
      /\ Len(x.slots) \in Nat
  BY <1>1, SeqDomain
<1>3. LiveSlots(x) = {s \in DOMAIN x.slots : x.slots[s].entry # None}
  BY <1>2 DEF LiveSlots, Slots
<1>4. ASSUME NEW s \in LiveSlots(x)
      PROVE  /\ x.slots[s].entry \in DOMAIN x.entries
             /\ x.slots[s].entry \in Alive(x.entries)
             /\ x.entries[x.slots[s].entry].slot = s
  <2>1. s \in 1..Len(x.slots) /\ x.slots[s].entry # None
    BY <1>2, <1>3
  <2>2. x.slots[s].entry \in 1..Len(x.entries) /\ x.entries[x.slots[s].entry].slot = s
    BY <1>1, <2>1 DEF Paired
  <2>3. s # None
    BY <2>1, <1>2 DEF None
  <2>4. "deleted" \notin x.entries[x.slots[s].entry].flags
    BY <1>1, <2>2, <2>3 DEF Paired
  <2> QED BY <1>2, <2>2, <2>4 DEF Alive
<1> QED BY <1>3, <1>4

\* The slots that are left are listed as they were.
LEMMA RemoveKeepsListed ==
    ASSUME NEW x, Sound(x), Listed(x), NEW r \in Records
    PROVE  Listed(Remove(x, r))
<1> DEFINE w == Remove(x, r)
<1>1. /\ DOMAIN x.entries = 1..Len(x.entries) /\ DOMAIN x.slots = 1..Len(x.slots)
      /\ Len(x.slots) \in Nat
  BY SeqDomain DEF Sound, Indexes
<1>2. /\ Sound(w)
      /\ Len(w.slots) = Len(x.slots)
      /\ \A s \in DOMAIN x.slots :
            w.slots[s].base = x.slots[s].base /\ w.slots[s].entry \in {None, x.slots[s].entry}
      /\ \A d \in DOMAIN x.entries : w.entries[d].zone = x.entries[d].zone
  BY RemoveIsSound
<1> HIDE DEF w
<1>3. ASSUME NEW s \in LiveSlots(w) PROVE Right(w, s)
  <2>1. s \in DOMAIN x.slots /\ w.slots[s].entry # None
    <3>1. w.slots \in Seq(IndexSlots)
      BY <1>2 DEF Sound, Indexes
    <3>2. DOMAIN w.slots = 1..Len(w.slots)
      BY <3>1, SeqDomain
    <3> QED BY <1>1, <1>2, <3>2, LiveSlotsAre
  <2>2. s \in LiveSlots(x) /\ w.slots[s].entry = x.slots[s].entry
    BY <1>2, <2>1, LiveSlotsAre
  <2>3. x.slots[s].entry \in DOMAIN x.entries
    BY <2>2, LiveSlotsAre
  <2> QED BY <1>2, <2>1, <2>2, <2>3 DEF Listed, Right
<1> QED BY <1>3 DEF Listed, w

\* Upsert: nothing, a removal, a new entry or a change of one.
LEMMA UpsertIsSound ==
    ASSUME NEW x, Sound(x), Listed(x), NEW r \in Records, NEW p \in Records,
           NEW f \in Given, NEW n \in Names
    PROVE  LET w == Upsert(x, r, p, f, n)
           IN /\ Sound(w) /\ Listed(w)
              /\ w.slots # x.slots => w.generation # x.generation
<1> DEFINE w == Upsert(x, r, p, f, n)
<1> DEFINE parent == Find(x, p)
<1> DEFINE e == Find(x, r)
<1> DEFINE g == RecordFlags(r, f)
<1>0. /\ x \in Indexes /\ x.entries \in Seq(IndexEntries) /\ x.slots \in Seq(IndexSlots)
      /\ x.byRecord \in [Records -> Nat] /\ x.live \in Nat /\ Mapped(x.byRecord, x.entries)
  BY DEF Sound, Indexes
<1>1. /\ DOMAIN x.entries = 1..Len(x.entries) /\ DOMAIN x.slots = 1..Len(x.slots)
      /\ Len(x.slots) \in Nat /\ Len(x.entries) \in Nat
      /\ \A d \in DOMAIN x.entries : x.entries[d] \in IndexEntries
  BY <1>0, SeqDomain
<1>2. g \in SUBSET Flags /\ "deleted" \notin g
  BY RecordFlagsAre
<1>3. parent # None => parent \in Alive(x.entries) /\ parent \in DOMAIN x.entries
      /\ parent \in Nat
  BY <1>0, <1>1 DEF Mapped, Find, Alive
<1>4. e # None => e \in Alive(x.entries) /\ e \in DOMAIN x.entries /\ ~Deleted(x, e)
  BY <1>0, <1>1 DEF Mapped, Find, Alive, Deleted
<1> HIDE DEF g
<1>5. CASE r = RootRecord \/ (parent = None /\ e = None)
  BY <1>5 DEF Upsert
<1>6. CASE r # RootRecord /\ parent = None /\ e # None
  <2>1. w = Remove(x, r)
    BY <1>6 DEF Upsert
  <2> QED BY <2>1, RemoveIsSound, RemoveKeepsListed
<1>7. CASE r # RootRecord /\ parent # None /\ e = None
  <2> DEFINE y == NewEntry(x, parent, g, n)
  <2> DEFINE m == Len(y.entries)
  <2> DEFINE z == MapRecord(y, r, m)
  <2>1. w = Ranked(z, m, n)
    BY <1>7 DEF Upsert, g
  <2> DEFINE a == [parent |-> parent, slot |-> Len(x.slots) + 1, flags |-> g, zone |-> "Normal"]
  <2> DEFINE c == [entry |-> Len(x.entries) + 1, name |-> n, base |-> NoBase]
  <2>2. /\ Sound(y) /\ y.byRecord = x.byRecord
        /\ y.generation = x.generation
        /\ y.entries = Append(x.entries, a) /\ y.slots = Append(x.slots, c)
        /\ m = Len(x.entries) + 1
        /\ Alive(y.entries) = Alive(x.entries) \cup {m}
        /\ m \notin Alive(x.entries)
    <3>1. Sound(y) /\ HasNew(x, parent, g, n, y)
      BY <1>2, <1>3, <1>7, NewEntryIsSound
    <3> QED BY <3>1 DEF HasNew
  <2> HIDE DEF w, y, m, parent, e
  <2>3. Sound(z) /\ z.entries = y.entries /\ z.slots = y.slots /\ z.generation = y.generation
    <3>1. \A q \in Records : y.byRecord[q] # m
      <4>1. m # None
        BY <1>1, <2>2 DEF None
      <4> QED BY <1>0, <2>2, <4>1 DEF Mapped
    <3>2. m \in Alive(y.entries)
      BY <2>2
    <3>3. Sound(y)
      BY <2>2
    <3> HIDE DEF z
    <3>4. z = MapRecord(y, r, m)
      BY DEF z
    <3> QED BY <3>1, <3>2, <3>3, <3>4, MapRecordIsSound
  <2> HIDE DEF z
  <2>4. /\ m \in Alive(z.entries) /\ DOMAIN z.entries = 1..m /\ z.entries[m] = a
        /\ DOMAIN z.slots = 1..(Len(x.slots) + 1) /\ z.slots[Len(x.slots) + 1] = c
        /\ \A d \in DOMAIN x.entries : z.entries[d] = x.entries[d]
        /\ \A s \in DOMAIN x.slots : z.slots[s] = x.slots[s]
    BY <1>0, <1>1, <2>2, <2>3
  <2>5. z.entries[m].parent \in DOMAIN z.entries
    BY <1>1, <1>3, <1>7, <2>2, <2>4
  <2>6. ASSUME NEW s \in LiveSlots(z), z.slots[s].entry # m
        PROVE  Right(z, s)
    <3>1. s \in DOMAIN x.slots /\ z.slots[s] = x.slots[s] /\ z.slots[s].entry # None
      <4>1. s \in DOMAIN z.slots /\ z.slots[s].entry # None
        BY <2>3, LiveSlotsAre
      <4>2. s # Len(x.slots) + 1
        BY <2>2, <2>4, <2>6
      <4> QED BY <1>1, <2>4, <4>1, <4>2
    <3>2. s \in LiveSlots(x) /\ x.slots[s].entry \in DOMAIN x.entries
      BY <3>1, LiveSlotsAre
    <3>3. Right(x, s)
      BY <3>2 DEF Listed
    <3> QED BY <2>4, <3>1, <3>2, <3>3 DEF Right
  <2>7. Sound(w) /\ w.generation # z.generation /\ \A s \in LiveSlots(w) : Right(w, s)
    BY <2>1, <2>3, <2>4, <2>5, <2>6, RankedIsSound
  <2> QED BY <2>2, <2>3, <2>7 DEF Listed, w
<1>8. CASE r # RootRecord /\ parent # None /\ e # None
  <2> DEFINE F == [x.entries EXCEPT ![e].parent = parent, ![e].flags = g]
  <2> DEFINE z == [x EXCEPT !.entries = F]
  <2>1. w = Ranked(z, e, n)
    <3>1. w = Ranked([x EXCEPT !.entries[e].parent = parent, !.entries[e].flags = g,
                               !.live = IF Deleted(x, e) THEN @ + 1 ELSE @], e, n)
      BY <1>8, Zenon DEF Upsert, g
    <3> HIDE DEF w, e, parent
    <3>2. [x EXCEPT !.entries[e].parent = parent, !.entries[e].flags = g,
                    !.live = IF Deleted(x, e) THEN @ + 1 ELSE @] = z
      BY <1>0, <1>4, <1>8 DEF Indexes
    <3> QED BY <3>1, <3>2
  <2> HIDE DEF w, e, parent
  <2>2. /\ F \in Seq(IndexEntries) /\ Len(F) = Len(x.entries) /\ DOMAIN F = DOMAIN x.entries
        /\ F[e].parent = parent /\ F[e].flags = g
        /\ \A d \in DOMAIN x.entries : /\ F[d].slot = x.entries[d].slot
                                       /\ F[d].zone = x.entries[d].zone
                                       /\ d # e => F[d] = x.entries[d]
    <3> DEFINE a == [x.entries[e] EXCEPT !.parent = parent, !.flags = g]
    <3>1. a \in IndexEntries
      BY <1>1, <1>2, <1>3, <1>4, <1>8 DEF IndexEntries
    <3>2. F = [x.entries EXCEPT ![e] = a]
      BY <1>1, <1>4, <1>8 DEF IndexEntries
    <3>3. /\ a.parent = parent /\ a.flags = g /\ a.slot = x.entries[e].slot
          /\ a.zone = x.entries[e].zone
      BY <1>1, <1>4, <1>8 DEF IndexEntries
    <3> HIDE DEF a, F
    <3>4. F \in Seq(IndexEntries) /\ Len(F) = Len(x.entries) /\ DOMAIN F = DOMAIN x.entries
      BY <1>0, <1>4, <1>8, <3>1, <3>2
    <3> QED BY <1>1, <1>4, <1>8, <3>2, <3>3, <3>4
  <2> HIDE DEF F
  <2>3. \A d \in 1..Len(F) : F[d].slot = x.entries[d].slot
                              /\ ("deleted" \in F[d].flags <=> "deleted" \in x.entries[d].flags)
    BY <1>1, <1>2, <1>4, <1>8, <2>2 DEF Deleted
  <2>4. Sound(z)
    BY <2>2, <2>3, EntriesAreSound
  <2>5. z.entries = F /\ z.slots = x.slots /\ z.generation = x.generation
    BY <1>0 DEF Indexes
  <2> HIDE DEF z
  <2>6. e \in Alive(z.entries) /\ z.entries[e].parent \in DOMAIN z.entries
    BY <1>2, <1>3, <1>4, <1>8, <2>2, <2>5 DEF Alive
  <2>7. ASSUME NEW s \in LiveSlots(z), z.slots[s].entry # e
        PROVE  Right(z, s)
    <3>1. s \in LiveSlots(x) /\ x.slots[s].entry \in DOMAIN x.entries /\ z.slots[s] = x.slots[s]
      <4>1. s \in LiveSlots(x)
        BY <2>4, <2>5, LiveSlotsAre
      <4> QED BY <4>1, <2>5, LiveSlotsAre
    <3>2. Right(x, s)
      BY <3>1 DEF Listed
    <3> QED BY <2>2, <2>5, <3>1, <3>2 DEF Right
  <2>8. Sound(w) /\ w.generation # z.generation /\ \A s \in LiveSlots(w) : Right(w, s)
    BY <2>1, <2>4, <2>6, <2>7, RankedIsSound
  <2> QED BY <2>5, <2>8 DEF Listed, w
<1> QED BY <1>5, <1>6, <1>7, <1>8

-----------------------------------------------------------------------------
(* Reorder. *)

\* The live slots that come before one, and so its place.
Prior(x, s) == {t \in LiveSlots(x) : Before(x, t, s)}
PlaceOf(x) == [s \in LiveSlots(x) |-> 1 + Cardinality(Prior(x, s))]

\* The places of the live slots are 1 to their number, one each, in the order.
LEMMA PlacesAre ==
    ASSUME NEW x, Sound(x)
    PROVE  LET n == Cardinality(LiveSlots(x))
           IN /\ n \in Nat
              /\ PlaceOf(x) \in [LiveSlots(x) -> 1..n]
              /\ \A k \in 1..n : \E s \in LiveSlots(x) : PlaceOf(x)[s] = k
              /\ \A s, t \in LiveSlots(x) :
                    /\ PlaceOf(x)[s] = PlaceOf(x)[t] => s = t
                    /\ PlaceOf(x)[s] < PlaceOf(x)[t] => Before(x, s, t)
<1> DEFINE L == LiveSlots(x)
<1> DEFINE n == Cardinality(L)
<1> DEFINE P == PlaceOf(x)
<1>0. x.slots \in Seq(IndexSlots) /\ DOMAIN x.slots = 1..Len(x.slots) /\ Len(x.slots) \in Nat
      /\ \A s \in DOMAIN x.slots : x.slots[s] \in IndexSlots
  <2>1. x.slots \in Seq(IndexSlots)
    BY DEF Sound, Indexes
  <2> QED BY <2>1, SeqDomain
<1>1. L \subseteq DOMAIN x.slots /\ IsFiniteSet(L) /\ n \in Nat
  <2>1. L \subseteq DOMAIN x.slots
    BY LiveSlotsAre
  <2> QED BY <2>1, <1>0, SeqDomain, FS_Subset, FS_CardinalityType
<1>2. \A s \in L : x.slots[s].base \in Int /\ s \in Int
  BY <1>0, <1>1 DEF IndexSlots
<1>3. \A s, t, u \in L : /\ ~Before(x, s, s)
                         /\ s # t => Before(x, s, t) \/ Before(x, t, s)
                         /\ Before(x, s, t) /\ Before(x, t, u) => Before(x, s, u)
  BY <1>2 DEF Before
<1> HIDE DEF L
<1>4. \A s \in L : /\ Prior(x, s) \subseteq L /\ s \notin Prior(x, s)
                   /\ IsFiniteSet(Prior(x, s)) /\ Cardinality(Prior(x, s)) \in Nat
  <2> SUFFICES ASSUME NEW s \in L
               PROVE  /\ Prior(x, s) \subseteq L /\ s \notin Prior(x, s)
                      /\ IsFiniteSet(Prior(x, s)) /\ Cardinality(Prior(x, s)) \in Nat
    OBVIOUS
  <2>1. Prior(x, s) \subseteq L /\ s \notin Prior(x, s)
    BY <1>3 DEF Prior, L
  <2> QED BY <1>1, <2>1, FS_Subset, FS_CardinalityType
<1>5. ASSUME NEW s \in L PROVE P[s] \in 1..n
  <2>1. Cardinality(Prior(x, s) \cup {s}) = Cardinality(Prior(x, s)) + 1
    BY <1>4, FS_AddElement
  <2>2. Prior(x, s) \cup {s} \in SUBSET L
    BY <1>4
  <2>3. Cardinality(Prior(x, s) \cup {s}) <= n
    BY <1>1, <2>2, FS_Subset
  <2>4. P[s] = 1 + Cardinality(Prior(x, s))
    BY DEF PlaceOf, L
  <2> QED BY <1>1, <1>4, <2>1, <2>3, <2>4
<1>6. ASSUME NEW s \in L, NEW t \in L, Before(x, s, t) PROVE P[s] < P[t]
  <2>1. Prior(x, s) \cup {s} \in SUBSET Prior(x, t)
    BY <1>3, <1>6, <1>4 DEF Prior, L
  <2>2. Cardinality(Prior(x, s) \cup {s}) <= Cardinality(Prior(x, t))
    BY <1>4, <2>1, FS_Subset
  <2>3. Cardinality(Prior(x, s) \cup {s}) = Cardinality(Prior(x, s)) + 1
    BY <1>4, FS_AddElement
  <2>4. P[s] = 1 + Cardinality(Prior(x, s)) /\ P[t] = 1 + Cardinality(Prior(x, t))
    BY DEF PlaceOf, L
  <2> QED BY <1>4, <2>2, <2>3, <2>4
<1>7. P \in [L -> 1..n]
  <2>1. DOMAIN P = L /\ P = [s \in L |-> P[s]]
    BY DEF PlaceOf, L
  <2> HIDE DEF P
  <2> QED BY <1>5, <2>1
<1> HIDE DEF P
<1>8. ASSUME NEW s \in L, NEW t \in L
      PROVE  /\ P[s] = P[t] => s = t
             /\ P[s] < P[t] => Before(x, s, t)
  <2>1. P[s] \in Int /\ P[t] \in Int
    BY <1>5
  <2>2. s # t => Before(x, s, t) \/ Before(x, t, s)
    BY <1>3
  <2>3. Before(x, s, t) => P[s] < P[t]
    BY <1>6
  <2>4. Before(x, t, s) => P[t] < P[s]
    BY <1>6
  <2> QED BY <2>1, <2>2, <2>3, <2>4
<1>9. ASSUME NEW k \in 1..n PROVE \E s \in L : P[s] = k
  <2>1. P \in Injection(L, 1..n)
    BY <1>7, <1>8 DEF Injection, IsInjective
  <2>2. IsFiniteSet(1..n) /\ Cardinality(1..n) = n
    BY <1>1, FS_Interval
  <2>3. P \in Surjection(L, 1..n)
    BY <2>1, <2>2, FS_Injection
  <2> QED BY <2>3 DEF Surjection
<1> HIDE DEF n
<1> QED BY <1>1, <1>7, <1>8, <1>9 DEF n, L, P

\* What Reorder makes of the arrays of x.
Ordered(x, F, R) ==
    /\ Len(R) = Cardinality(LiveSlots(x)) /\ DOMAIN R = 1..Len(R)
    /\ \A k \in DOMAIN R : \E s \in LiveSlots(x) : PlaceOf(x)[s] = k /\ R[k] = x.slots[s]
    /\ DOMAIN F = DOMAIN x.entries
    /\ \A e \in DOMAIN F :
          /\ F[e].zone = x.entries[e].zone /\ F[e].flags = x.entries[e].flags
          /\ F[e].slot = IF e \in Alive(x.entries) THEN PlaceOf(x)[x.entries[e].slot]
                         ELSE None

\* A permutation of the live slots: the arrays agree and the scores descend.
LEMMA OrderedIsPaired ==
    ASSUME NEW x, Sound(x), NEW F \in Seq(IndexEntries),
           NEW R \in Seq(IndexSlots), Ordered(x, F, R)
    PROVE  /\ Paired(F, R) /\ Alive(F) = Alive(x.entries) /\ DeadOf(R) = {}
           /\ Descends(R, Len(R))
<1> DEFINE P == PlaceOf(x)
<1> DEFINE L == LiveSlots(x)
<1>0. /\ x.entries \in Seq(IndexEntries) /\ x.slots \in Seq(IndexSlots)
      /\ DOMAIN x.entries = 1..Len(x.entries) /\ Len(x.entries) \in Nat
      /\ DOMAIN F = 1..Len(F) /\ Len(F) \in Nat /\ Len(R) \in Nat
      /\ \A s \in DOMAIN x.slots : x.slots[s] \in IndexSlots
  <2>1. x.entries \in Seq(IndexEntries) /\ x.slots \in Seq(IndexSlots)
    BY DEF Sound, Indexes
  <2> QED BY <2>1, SeqDomain
<1>1. /\ P \in [L -> 1..Len(R)]
      /\ \A s, t \in L : P[s] = P[t] => s = t
      /\ \A s, t \in L : P[s] < P[t] => Before(x, s, t)
  BY PlacesAre DEF Ordered
<1>2. \A e \in Alive(x.entries) : x.entries[e].slot \in L /\ x.slots[x.entries[e].slot].entry = e
                                     /\ e \in DOMAIN x.entries
  BY OwnsItsSlot, LiveSlotsAre
<1>3. \A s \in L : /\ x.slots[s].entry \in Alive(x.entries) /\ x.slots[s].entry # None
                   /\ x.entries[x.slots[s].entry].slot = s /\ s \in DOMAIN x.slots
                   /\ x.slots[s].entry \in DOMAIN x.entries
  BY LiveSlotsAre
<1> HIDE DEF P, L
<1>4. \A k \in 1..Len(R) : \E s \in L : P[s] = k /\ R[k] = x.slots[s]
  BY DEF Ordered, P, L
<1>5. \A e \in DOMAIN F : F[e].slot = IF e \in Alive(x.entries) THEN P[x.entries[e].slot] ELSE None
  BY DEF Ordered, P
<1>6. Alive(F) = Alive(x.entries)
  BY DEF Ordered, Alive
<1>7. ASSUME NEW e \in 1..Len(F)
      PROVE  /\ F[e].slot \in {None} \cup 1..Len(R)
             /\ "deleted" \notin F[e].flags <=> F[e].slot # None /\ R[F[e].slot].entry = e
  <2>1. CASE e \in Alive(x.entries)
    <3>1. F[e].slot \in 1..Len(R) /\ F[e].slot # None /\ "deleted" \notin F[e].flags
      BY <1>0, <1>1, <1>2, <1>5, <1>6, <2>1 DEF None, Alive
    <3>2. R[F[e].slot].entry = e
      <4>1. PICK s \in L : P[s] = F[e].slot /\ R[F[e].slot] = x.slots[s]
        BY <1>4, <3>1
      <4>2. s = x.entries[e].slot
        BY <1>0, <1>1, <1>2, <1>5, <2>1, <4>1
      <4> QED BY <1>2, <2>1, <4>1, <4>2
    <3> QED BY <3>1, <3>2
  <2>2. CASE e \notin Alive(x.entries)
    BY <1>0, <1>5, <1>6, <2>2 DEF Alive
  <2> QED BY <2>1, <2>2
<1>8. ASSUME NEW k \in 1..Len(R)
      PROVE  R[k].entry # None /\ R[k].entry \in 1..Len(F) /\ F[R[k].entry].slot = k
  <2>1. PICK s \in L : P[s] = k /\ R[k] = x.slots[s]
    BY <1>4
  <2> QED BY <1>0, <1>3, <1>5, <2>1 DEF Ordered
<1>9. Paired(F, R)
  BY <1>7, <1>8 DEF Paired
<1>10. DeadOf(R) = {}
  BY <1>8, SeqDomain DEF DeadOf
<1>11. ASSUME NEW j \in 1..Len(R), NEW k \in 1..Len(R), j < k
       PROVE  R[j].base >= R[k].base
  <2>1. PICK s \in L : P[s] = j /\ R[j] = x.slots[s]
    BY <1>4
  <2>2. PICK t \in L : P[t] = k /\ R[k] = x.slots[t]
    BY <1>4
  <2>3. Before(x, s, t)
    BY <1>1, <1>11, <2>1, <2>2
  <2>4. x.slots[s].base \in Int /\ x.slots[t].base \in Int
    BY <1>0, <1>3 DEF IndexSlots
  <2> QED BY <2>1, <2>2, <2>3, <2>4 DEF Before
<1> QED BY <1>0, <1>6, <1>9, <1>10, <1>11 DEF Descends

\* Reorder drops the dead slots and ranks all that is left.
LEMMA ReorderIsSound ==
    ASSUME NEW x, Sound(x)
    PROVE  /\ Sound(Reorder(x)) /\ Reorder(x).generation # x.generation
           /\ Listed(x) => Listed(Reorder(x))
<1> DEFINE L == LiveSlots(x)
<1> DEFINE n == Cardinality(L)
<1> DEFINE P == PlaceOf(x)
<1> DEFINE at(k) == CHOOSE s \in L : P[s] = k
<1> DEFINE R == [k \in 1..n |-> x.slots[at(k)]]
<1> DEFINE owner(e) == CHOOSE s \in L : x.slots[s].entry = e
<1> DEFINE slot(e) == IF \E s \in L : x.slots[s].entry = e THEN P[owner(e)] ELSE None
<1> DEFINE F == [e \in Entries(x) |-> [x.entries[e] EXCEPT !.slot = slot(e)]]
<1> DEFINE y == [x EXCEPT !.slots = R, !.entries = F, !.sortedEnd = n, !.deadBytes = 0]
<1>0. /\ x \in Indexes /\ x.entries \in Seq(IndexEntries) /\ x.slots \in Seq(IndexSlots)
      /\ DOMAIN x.entries = 1..Len(x.entries) /\ Len(x.entries) \in Nat
         /\ Entries(x) = DOMAIN x.entries
      /\ \A s \in DOMAIN x.slots : x.slots[s] \in IndexSlots
      /\ \A e \in DOMAIN x.entries : x.entries[e] \in IndexEntries
  <2>1. x \in Indexes /\ x.entries \in Seq(IndexEntries) /\ x.slots \in Seq(IndexSlots)
    BY DEF Sound, Indexes
  <2> QED BY <2>1, SeqDomain DEF Entries
<1>1. Reorder(x) = Bump(y)
  BY DEF Reorder, PlaceOf, Prior
<1>2. n \in Nat /\ P \in [L -> 1..n] /\ \A k \in 1..n : \E s \in L : P[s] = k
  BY PlacesAre
<1>3. \A e \in Alive(x.entries) : x.entries[e].slot \in L /\ x.slots[x.entries[e].slot].entry = e
                                  /\ e \in DOMAIN x.entries
  BY OwnsItsSlot, LiveSlotsAre
<1>4. \A s \in L : /\ x.slots[s].entry \in Alive(x.entries) /\ x.slots[s].entry # None
                   /\ x.entries[x.slots[s].entry].slot = s /\ s \in DOMAIN x.slots
                   /\ x.slots[s].entry \in DOMAIN x.entries
  BY LiveSlotsAre
<1> HIDE DEF P, L, n
<1>5. \A k \in 1..n : at(k) \in L /\ P[at(k)] = k
  BY <1>2
<1>6. \A e \in DOMAIN x.entries :
         slot(e) = IF e \in Alive(x.entries) THEN P[x.entries[e].slot] ELSE None
  <2> SUFFICES ASSUME NEW e \in DOMAIN x.entries
               PROVE  slot(e) = IF e \in Alive(x.entries) THEN P[x.entries[e].slot] ELSE None
    OBVIOUS
  <2>1. CASE e \in Alive(x.entries)
    <3>1. \E s \in L : x.slots[s].entry = e
      BY <1>3, <2>1
    <3>2. owner(e) \in L /\ x.slots[owner(e)].entry = e
      BY <3>1
    <3>3. owner(e) = x.entries[e].slot
      BY <1>4, <3>2
    <3> QED BY <2>1, <3>1, <3>3
  <2>2. CASE e \notin Alive(x.entries)
    BY <1>4, <2>2
  <2> QED BY <2>1, <2>2
<1> HIDE DEF at, slot
<1>7. \A e \in DOMAIN x.entries : slot(e) \in Nat
  BY <1>2, <1>3, <1>6 DEF None
<1>8. /\ F \in Seq(IndexEntries) /\ DOMAIN F = DOMAIN x.entries
      /\ \A e \in DOMAIN F : /\ F[e].zone = x.entries[e].zone /\ F[e].flags = x.entries[e].flags
                             /\ F[e].slot = slot(e)
  <2>1. ASSUME NEW e \in DOMAIN x.entries
        PROVE  /\ F[e] \in IndexEntries
               /\ F[e].zone = x.entries[e].zone /\ F[e].flags = x.entries[e].flags
               /\ F[e].slot = slot(e)
    <3>1. F[e] = [x.entries[e] EXCEPT !.slot = slot(e)]
      BY <1>0
    <3>2. x.entries[e] \in IndexEntries /\ slot(e) \in Nat
      BY <1>0, <1>7
    <3> HIDE DEF F
    <3> QED BY <3>1, <3>2 DEF IndexEntries
  <2>2. DOMAIN F = 1..Len(x.entries) /\ F = [e \in 1..Len(x.entries) |-> F[e]]
    BY <1>0
  <2> HIDE DEF F
  <2>3. \A e \in 1..Len(x.entries) : F[e] \in IndexEntries
    BY <1>0, <2>1
  <2>4. F \in Seq(IndexEntries)
    BY <1>0, <2>2, <2>3, SeqFrom
  <2> QED BY <1>0, <2>1, <2>2, <2>4
<1>9. /\ R \in Seq(IndexSlots) /\ Len(R) = n /\ DOMAIN R = 1..n
      /\ \A k \in 1..n : R[k] = x.slots[at(k)]
  <2>1. \A k \in 1..n : x.slots[at(k)] \in IndexSlots
    BY <1>0, <1>4, <1>5
  <2> QED BY <1>2, <2>1
<1> HIDE DEF F, R
<1>10. Ordered(x, F, R)
  <2>1. /\ Len(R) = Cardinality(LiveSlots(x)) /\ DOMAIN R = 1..Len(R)
        /\ \A k \in DOMAIN R : \E s \in LiveSlots(x) : PlaceOf(x)[s] = k /\ R[k] = x.slots[s]
    BY <1>5, <1>9 DEF n, L, P
  <2>2. /\ DOMAIN F = DOMAIN x.entries
        /\ \A e \in DOMAIN F :
             /\ F[e].zone = x.entries[e].zone /\ F[e].flags = x.entries[e].flags
             /\ F[e].slot = IF e \in Alive(x.entries) THEN PlaceOf(x)[x.entries[e].slot]
                            ELSE None
    BY <1>6, <1>8 DEF P
  <2> QED BY <2>1, <2>2 DEF Ordered
<1>11. /\ Paired(F, R) /\ Alive(F) = Alive(x.entries) /\ DeadOf(R) = {} /\ Descends(R, n)
  BY <1>8, <1>9, <1>10, OrderedIsPaired
<1>12. /\ y \in Indexes /\ y.entries = F /\ y.slots = R /\ y.live = x.live /\ y.deadBytes = 0
       /\ y.byRecord = x.byRecord /\ y.sortedEnd = n /\ y.generation = x.generation
  BY <1>0, <1>2, <1>8, <1>9 DEF Indexes
<1> HIDE DEF y
<1>13. Sound(y)
  <2>1. Mapped(x.byRecord, F) /\ x.live = Cardinality(Alive(F))
    BY <1>11 DEF Mapped, Sound
  <2>2. SumOf(Weights(R), DeadOf(R)) = 0
    BY <1>11, SumOfNone
  <2> QED BY <1>11, <1>12, <2>1, <2>2 DEF Sound
<1> DEFINE w == Bump(y)
<1>14. Sound(w) /\ w.generation # y.generation /\ w.entries = F /\ w.slots = R
  BY <1>12, <1>13, BumpIsSound
<1> HIDE DEF w
<1>15. ASSUME Listed(x), NEW k \in LiveSlots(w) PROVE Right(w, k)
  <2>1. k \in 1..n
    BY <1>9, <1>14, LiveSlotsAre
  <2>2. R[k] = x.slots[at(k)] /\ at(k) \in L /\ Right(x, at(k))
    BY <1>5, <1>9, <1>15, <2>1 DEF Listed, L
  <2>3. F[x.slots[at(k)].entry].zone = x.entries[x.slots[at(k)].entry].zone
    BY <1>4, <1>8, <2>2
  <2> QED BY <1>14, <2>2, <2>3 DEF Right
<1> QED BY <1>1, <1>12, <1>14, <1>15 DEF Listed, w

\* A compaction reorders when the dead bytes are enough, else does nothing.
LEMMA CompactIsSound ==
    ASSUME NEW x, Sound(x)
    PROVE  LET w == CompactIfWasteful(x)
           IN /\ Sound(w)
              /\ Listed(x) => Listed(w)
              /\ w.slots # x.slots => w.generation # x.generation
  BY ReorderIsSound DEF CompactIfWasteful

-----------------------------------------------------------------------------
(* Building. *)

\* While records are added: the entries before firstPending are linked, and
\* each later one waits for its parent. Nothing is ranked.
Building(x) ==
    /\ x.root \in DOMAIN x.entries /\ x.sortedEnd = 0
    /\ x.firstPending + Len(x.pending) = Len(x.entries) + 1
    /\ \A e \in DOMAIN x.entries :
          e < x.firstPending => x.entries[e].parent \in DOMAIN x.entries

\* Every entry has its parent in the index.
Linked(x) == \A e \in DOMAIN x.entries : x.entries[e].parent \in DOMAIN x.entries

\* The index before a volume has nothing in it.
LEMMA EmptyIsSound == Sound(Empty)
<1>1. Empty \in Indexes
  <2>1. [r \in Records |-> None] \in [Records -> Nat]
    BY DEF None
  <2>2. [r \in Records |-> "none"] \in [Records -> Zones \cup {"none"}]
    OBVIOUS
  <2>3. 0 \in 0..(Wrap - 1) /\ <<>> \in Seq(IndexEntries) /\ <<>> \in Seq(IndexSlots)
        /\ <<>> \in Seq(Records)
    BY IndexAssumption
  <2> QED BY <2>1, <2>2, <2>3 DEF Empty, Indexes, None
<1>2. /\ Empty.entries = <<>> /\ Empty.slots = <<>> /\ Empty.live = 0 /\ Empty.deadBytes = 0
      /\ Empty.sortedEnd = 0 /\ \A r \in Records : Empty.byRecord[r] = None
  BY DEF Empty
<1>3. Alive(<<>>) = {} /\ DeadOf(<<>>) = {} /\ Cardinality({}) = 0
  BY FS_EmptySet DEF Alive, DeadOf
<1>4. Paired(<<>>, <<>>) /\ Descends(<<>>, 0)
  BY DEF Paired, Descends
<1>5. Mapped(Empty.byRecord, Empty.entries)
  BY <1>2 DEF Mapped
<1> QED BY <1>1, <1>2, <1>3, <1>4, <1>5, SumOfNone DEF Sound

\* The root is the first entry, its own parent, and of no record but its own.
LEMMA AddVolumeIsSound ==
    ASSUME NEW x, Sound(x), x.byRecord = [r \in Records |-> None]
    PROVE  /\ Sound(AddVolume(x))
           /\ x.entries = <<>> /\ x.sortedEnd = 0 => Building(AddVolume(x))
<1> DEFINE e == Len(x.entries) + 1
<1> DEFINE z == NewEntry(x, e, {"directory"}, RootName)
<1> DEFINE y == MapRecord(z, RootRecord, e)
<1> DEFINE v == [y EXCEPT !.root = e, !.firstPending = e + 1, !.pending = <<>>]
<1>0. x.entries \in Seq(IndexEntries) /\ e \in Nat /\ e # None /\ RootRecord \in Records
  <2>1. x.entries \in Seq(IndexEntries)
    BY DEF Sound, Indexes
  <2>2. Len(x.entries) \in Nat
    BY <2>1
  <2> QED BY <2>1, <2>2, IndexAssumption DEF None
<1>1. /\ Sound(z) /\ z.byRecord = x.byRecord /\ Len(z.entries) = e /\ e \in Alive(z.entries)
      /\ z.sortedEnd = x.sortedEnd
      /\ x.entries = <<>> => z.entries[1].parent = 1 /\ e = 1
  <2>1. {"directory"} \in SUBSET Flags /\ "deleted" \notin {"directory"}
        /\ RootName \in Names \cup {RootName}
    BY DEF Flags
  <2> HIDE DEF z
  <2>2. /\ Sound(z) /\ z.byRecord = x.byRecord /\ Len(z.entries) = Len(x.entries) + 1
        /\ Alive(z.entries) = Alive(x.entries) \cup {Len(z.entries)}
        /\ z.sortedEnd = x.sortedEnd /\ z.entries[Len(x.entries) + 1].parent = e
    <3> HIDE DEF e
    <3>1. Sound(z) /\ HasNew(x, e, {"directory"}, RootName, z)
      BY <1>0, <2>1, NewEntryIsSound DEF z
    <3>2. x.entries \in Seq(IndexEntries)
      BY <1>0
    <3> DEFINE a == [parent |-> e, slot |-> Len(x.slots) + 1, flags |-> {"directory"}, zone |-> "Normal"]
    <3>3. z.entries = Append(x.entries, a) /\ a.parent = e
      BY <3>1 DEF HasNew
    <3> HIDE DEF a
    <3>4. z.entries[Len(x.entries) + 1].parent = e
      BY <3>2, <3>3
    <3> QED BY <3>1, <3>4 DEF HasNew
  <2> QED BY <2>2
<1> HIDE DEF z, e
<1>2. Sound(y) /\ y.entries = z.entries /\ y.sortedEnd = z.sortedEnd
  <2>1. \A q \in Records : z.byRecord[q] # e
    BY <1>0, <1>1
  <2> QED BY <1>0, <1>1, <2>1, MapRecordIsSound
<1> HIDE DEF y
<1>3. /\ v \in Indexes /\ v.entries = y.entries /\ v.slots = y.slots /\ v.live = y.live
      /\ v.deadBytes = y.deadBytes /\ v.byRecord = y.byRecord /\ v.sortedEnd = y.sortedEnd
      /\ v.root = e /\ v.firstPending = e + 1 /\ v.pending = <<>>
  <2>1. y \in Indexes /\ <<>> \in Seq(Records) /\ e + 1 \in Nat
    BY <1>0, <1>2 DEF Sound
  <2> DEFINE f == e + 1
  <2> HIDE DEF f
  <2>2. f \in Nat
    BY <2>1 DEF f
  <2>3. [y EXCEPT !.root = e, !.firstPending = f, !.pending = <<>>] \in Indexes
    BY <1>0, <2>1, <2>2 DEF Indexes
  <2>4. v \in Indexes
    BY <2>3 DEF f
  <2> QED BY <2>1, <2>4 DEF Indexes
<1>4. AddVolume(x) = Bump(v)
  BY DEF AddVolume, v, y, z, e
<1> HIDE DEF v
<1>5. Sound(v)
  BY <1>2, <1>3, AlikeIsSound
<1>6. Sound(AddVolume(x))
  BY <1>4, <1>5, BumpIsSound
<1>7. ASSUME x.entries = <<>>, x.sortedEnd = 0 PROVE Building(AddVolume(x))
  <2> DEFINE w == Bump(v)
  <2>1. /\ w.entries = z.entries /\ w.root = e /\ w.firstPending = e + 1 /\ w.pending = <<>>
        /\ w.sortedEnd = 0
    BY <1>1, <1>2, <1>3, <1>5, <1>7, BumpIsSound
  <2>2. z.entries \in Seq(IndexEntries)
    BY <1>1 DEF Sound, Indexes
  <2>3. DOMAIN z.entries = 1..1 /\ e = 1 /\ z.entries[1].parent = 1 /\ Len(z.entries) = 1
    BY <1>1, <1>7, <2>2, SeqDomain
  <2> HIDE DEF w
  <2>4. Building(w)
    BY <2>1, <2>3 DEF Building
  <2> QED BY <1>4, <2>4 DEF w
<1> QED BY <1>6, <1>7

\* A record that is reported once: its parent is a number until the volume is
\* finished.
LEMMA AddIsSound ==
    ASSUME NEW x, Sound(x), NEW r \in Records, NEW p \in Records, NEW f \in Given, NEW n \in Names
    PROVE  /\ Sound(Add(x, r, p, f, n))
           /\ Building(x) => Building(Add(x, r, p, f, n))
<1> DEFINE g == RecordFlags(r, f)
<1> DEFINE z == NewEntry(x, None, g, n)
<1> DEFINE e == Len(z.entries)
<1> DEFINE v == [z EXCEPT !.pending = Append(@, p)]
<1>1. CASE r = RootRecord
  BY <1>1 DEF Add
<1>2. CASE r # RootRecord
  <2>1. g \in SUBSET Flags /\ "deleted" \notin g /\ None \in Nat /\ n \in Names \cup {RootName}
    BY RecordFlagsAre DEF None
  <2> HIDE DEF g
  <2>2. /\ Sound(z) /\ z.byRecord = x.byRecord /\ e = Len(x.entries) + 1
        /\ e \in Alive(z.entries) /\ e \notin Alive(x.entries)
        /\ z.sortedEnd = x.sortedEnd /\ z.root = x.root /\ z.pending = x.pending
        /\ z.firstPending = x.firstPending
        /\ \A d \in DOMAIN x.entries : z.entries[d] = x.entries[d]
    <3> DEFINE o == None
    <3> HIDE DEF o
    <3>1. o \in Nat
      BY <2>1 DEF o
    <3>2. Sound(NewEntry(x, o, g, n)) /\ HasNew(x, o, g, n, NewEntry(x, o, g, n))
      BY <2>1, <3>1, NewEntryIsSound
    <3>3. x.entries \in Seq(IndexEntries)
      BY DEF Sound, Indexes
    <3> QED BY <3>2, <3>3 DEF HasNew, o
  <2> HIDE DEF z
  <2>3. /\ v \in Indexes /\ v.entries = z.entries /\ v.slots = z.slots /\ v.live = z.live
        /\ v.deadBytes = z.deadBytes /\ v.byRecord = z.byRecord /\ v.sortedEnd = z.sortedEnd
        /\ v.pending = Append(z.pending, p) /\ v.firstPending = z.firstPending /\ v.root = z.root
    <3>1. z \in Indexes /\ Append(z.pending, p) \in Seq(Records)
      BY <2>2 DEF Sound, Indexes
    <3> DEFINE q == Append(z.pending, p)
    <3>2. v = [z EXCEPT !.pending = q]
      OBVIOUS
    <3> HIDE DEF q
    <3>3. q \in Seq(Records)
      BY <3>1 DEF q
    <3> HIDE DEF v
    <3>4. /\ v \in Indexes /\ v.entries = z.entries /\ v.slots = z.slots /\ v.live = z.live
          /\ v.deadBytes = z.deadBytes /\ v.byRecord = z.byRecord /\ v.sortedEnd = z.sortedEnd
          /\ v.pending = q /\ v.firstPending = z.firstPending /\ v.root = z.root
      BY <3>1, <3>2, <3>3 DEF Indexes
    <3> QED BY <3>4 DEF q
  <2> HIDE DEF v, e
  <2>4. Sound(v)
    BY <2>2, <2>3, AlikeIsSound
  <2>5. \A q \in Records : v.byRecord[q] # e
    <3>1. e # None
      <4>1. x.entries \in Seq(IndexEntries)
        BY DEF Sound, Indexes
      <4>2. Len(x.entries) \in Nat
        BY <4>1
      <4> QED BY <2>2, <4>2 DEF None
    <3>2. Mapped(x.byRecord, x.entries)
      BY DEF Sound
    <3> QED BY <2>2, <2>3, <3>1, <3>2 DEF Mapped
  <2> DEFINE w == MapRecord(v, r, e)
  <2>6. /\ Sound(w) /\ w.entries = v.entries /\ w.sortedEnd = v.sortedEnd /\ w.root = v.root
        /\ w.pending = v.pending /\ w.firstPending = v.firstPending
    BY <2>2, <2>3, <2>4, <2>5, MapRecordIsSound
  <2>7. Add(x, r, p, f, n) = MapRecord(v, r, e)
    BY <1>2 DEF Add, v, z, e, g
  <2>8. ASSUME Building(x) PROVE Building(w)
    <3>1. /\ z.entries \in Seq(IndexEntries) /\ x.entries \in Seq(IndexEntries)
          /\ x.pending \in Seq(Records) /\ x.firstPending \in Nat
      BY <2>2 DEF Sound, Indexes
    <3>2. /\ DOMAIN x.entries = 1..Len(x.entries) /\ DOMAIN z.entries = 1..(Len(x.entries) + 1)
          /\ Len(x.entries) \in Nat /\ Len(z.entries) = Len(x.entries) + 1
          /\ Len(x.pending) \in Nat /\ Len(Append(x.pending, p)) = Len(x.pending) + 1
      BY <2>2, <3>1, SeqDomain DEF e
    <3>3. /\ w.entries = z.entries /\ w.sortedEnd = x.sortedEnd /\ w.root = x.root
          /\ w.pending = Append(x.pending, p) /\ w.firstPending = x.firstPending
      BY <2>2, <2>3, <2>6
    <3> HIDE DEF w
    <3>4. w.root \in DOMAIN w.entries /\ w.sortedEnd = 0
      BY <2>8, <3>2, <3>3 DEF Building
    <3>5. w.firstPending + Len(w.pending) = Len(w.entries) + 1
      BY <2>8, <3>1, <3>2, <3>3 DEF Building
    <3>6. ASSUME NEW d \in DOMAIN w.entries, d < w.firstPending
          PROVE  w.entries[d].parent \in DOMAIN w.entries
      <4>1. d \in DOMAIN x.entries
        BY <2>8, <3>1, <3>2, <3>3, <3>6 DEF Building
      <4>2. w.entries[d] = x.entries[d] /\ x.entries[d].parent \in DOMAIN x.entries
        BY <2>2, <2>8, <3>3, <3>6, <4>1 DEF Building
      <4> QED BY <3>2, <3>3, <4>2
    <3> QED BY <3>4, <3>5, <3>6 DEF Building
  <2> HIDE DEF w
  <2> QED BY <2>6, <2>7, <2>8 DEF w
<1> QED BY <1>1, <1>2

\* The parents are resolved, of those that are not found to the root.
LEMMA FinishVolumeIsSound ==
    ASSUME NEW x, Sound(x)
    PROVE  /\ Sound(FinishVolume(x))
           /\ Building(x) => Linked(FinishVolume(x)) /\ FinishVolume(x).sortedEnd = 0
<1> DEFINE F == [e \in Entries(x) |->
            IF e >= x.firstPending /\ e < x.firstPending + Len(x.pending)
            THEN Resolved(x, e) ELSE x.entries[e]]
<1> DEFINE f == Len(x.entries) + 1
<1> DEFINE y == [x EXCEPT !.entries = F]
<1> DEFINE v == [x EXCEPT !.entries = F, !.pending = <<>>, !.firstPending = f]
<1>0. /\ x \in Indexes /\ x.entries \in Seq(IndexEntries) /\ x.pending \in Seq(Records)
      /\ x.firstPending \in Nat /\ x.byRecord \in [Records -> Nat] /\ x.root \in Nat
  BY DEF Sound, Indexes
<1>1. /\ DOMAIN x.entries = 1..Len(x.entries) /\ Len(x.entries) \in Nat
      /\ \A e \in DOMAIN x.entries : x.entries[e] \in IndexEntries
      /\ Entries(x) = 1..Len(x.entries) /\ Len(x.pending) \in Nat
  BY <1>0, SeqDomain DEF Entries
<1>2. ASSUME NEW e \in 1..Len(x.entries)
      PROVE  /\ F[e] \in IndexEntries /\ F[e].slot = x.entries[e].slot
             /\ "deleted" \in F[e].flags <=> "deleted" \in x.entries[e].flags
             /\ Building(x) => F[e].parent \in 1..Len(x.entries)
  <2>1. x.entries[e] \in IndexEntries
    BY <1>1
  <2>2. CASE ~(e >= x.firstPending /\ e < x.firstPending + Len(x.pending))
    <3>1. F[e] = x.entries[e]
      BY <1>1, <2>2
    <3>2. Building(x) => e < x.firstPending
      BY <1>0, <1>1, <2>2 DEF Building
    <3> QED BY <1>1, <2>1, <3>1, <3>2 DEF Building
  <2>3. CASE e >= x.firstPending /\ e < x.firstPending + Len(x.pending)
    <3> DEFINE i == e - x.firstPending + 1
    <3> DEFINE p == Find(x, x.pending[i])
    <3>1. F[e] = Resolved(x, e)
      BY <1>1, <2>3
    <3>2. i \in 1..Len(x.pending)
      BY <1>0, <1>1, <2>3
    <3> HIDE DEF i, F
    <3>3. x.pending[i] \in Records
      BY <1>0, <3>2
    <3>4. p \in Nat /\ (p # None => p \in 1..Len(x.entries))
      BY <1>0, <1>1, <3>3 DEF Find, Sound, Mapped, Alive
    <3>r. Building(x) => x.root \in 1..Len(x.entries)
      BY <1>1 DEF Building
    <3> HIDE DEF p
    <3>5. Resolved(x, e) = IF p = None \/ p = e
             THEN [x.entries[e] EXCEPT !.parent = x.root, !.flags = @ \cup {"orphan"}]
             ELSE [x.entries[e] EXCEPT !.parent = p]
      BY DEF Resolved, p, i
    <3>6. CASE p = None \/ p = e
      <4>1. F[e] = [x.entries[e] EXCEPT !.parent = x.root, !.flags = @ \cup {"orphan"}]
        BY <3>1, <3>5, <3>6
      <4> DEFINE g == x.entries[e].flags \cup {"orphan"}
      <4>2. g \in SUBSET Flags /\ ("deleted" \in g <=> "deleted" \in x.entries[e].flags)
        BY <2>1 DEF IndexEntries, Flags
      <4>3. F[e] = [x.entries[e] EXCEPT !.parent = x.root, !.flags = g]
        BY <4>1
      <4> HIDE DEF g
      <4> QED BY <1>0, <2>1, <3>r, <4>2, <4>3 DEF IndexEntries
    <3>7. CASE ~(p = None \/ p = e)
      <4>1. F[e] = [x.entries[e] EXCEPT !.parent = p]
        BY <3>1, <3>5, <3>7
      <4> QED BY <2>1, <3>4, <3>7, <4>1 DEF IndexEntries
    <3> QED BY <3>6, <3>7
  <2> QED BY <2>2, <2>3
<1>3. FinishVolume(x) = Bump(v)
  BY DEF FinishVolume
<1>4. F = [i \in 1..Len(x.entries) |-> F[i]]
  BY <1>1
<1> HIDE DEF F
<1>5. F \in Seq(IndexEntries) /\ Len(F) = Len(x.entries)
  BY <1>1, <1>2, <1>4, SeqFrom
<1>6. Sound(y)
  BY <1>2, <1>5, EntriesAreSound
<1>7. /\ v \in Indexes /\ v.entries = y.entries /\ v.slots = y.slots /\ v.live = y.live
      /\ v.deadBytes = y.deadBytes /\ v.byRecord = y.byRecord /\ v.sortedEnd = y.sortedEnd
      /\ v.entries = F /\ v.sortedEnd = x.sortedEnd
  <2>1. f \in Nat /\ <<>> \in Seq(Records)
    BY <1>1
  <2> HIDE DEF f
  <2> QED BY <1>0, <1>5, <2>1 DEF Indexes
<1> HIDE DEF v, y
<1>8. Sound(v)
  BY <1>6, <1>7, AlikeIsSound
<1> DEFINE w == Bump(v)
<1>9. Sound(w) /\ w.entries = F /\ w.sortedEnd = x.sortedEnd
  BY <1>7, <1>8, BumpIsSound
<1> HIDE DEF w
<1>10. ASSUME Building(x) PROVE Linked(w) /\ w.sortedEnd = 0
  <2>1. DOMAIN F = 1..Len(x.entries)
    BY <1>4
  <2> QED BY <1>2, <1>9, <1>10, <2>1 DEF Linked, Building
<1> QED BY <1>3, <1>9, <1>10 DEF w

\* A hard link: an entry of no record.
LEMMA AddAliasIsSound ==
    ASSUME NEW x, Sound(x), NEW r \in Records, NEW p \in Records, NEW f \in SUBSET Flags,
           "deleted" \notin f, NEW n \in Names
    PROVE  LET w == AddAlias(x, r, p, f, n)
           IN Sound(w) /\ (Linked(x) => Linked(w)) /\ w.sortedEnd = x.sortedEnd
<1> DEFINE d == Find(x, p)
<1> DEFINE y == NewEntry(x, d, f, n)
<1>1. d \in Nat /\ (d # None => d \in DOMAIN x.entries)
  <2>1. x.byRecord \in [Records -> Nat] /\ Mapped(x.byRecord, x.entries)
    BY DEF Sound, Indexes
  <2> QED BY <2>1 DEF Mapped, Find, Alive
<1> HIDE DEF d
<1>2. Sound(y) /\ HasNew(x, d, f, n, y)
  BY <1>1, NewEntryIsSound
<1> HIDE DEF y
<1>3. Sound(Bump(y)) /\ Bump(y).entries = y.entries /\ Bump(y).sortedEnd = x.sortedEnd
  BY <1>2, BumpIsSound DEF HasNew
<1>4. ASSUME Linked(x), d # None PROVE Linked(Bump(y))
  <2>1. x.entries \in Seq(IndexEntries)
    BY DEF Sound, Indexes
  <2> DEFINE a == [parent |-> d, slot |-> Len(x.slots) + 1, flags |-> f, zone |-> "Normal"]
  <2>2. y.entries = Append(x.entries, a) /\ a.parent = d
    BY <1>2 DEF HasNew
  <2> HIDE DEF a
  <2>3. /\ DOMAIN y.entries = 1..(Len(x.entries) + 1) /\ y.entries[Len(x.entries) + 1] = a
        /\ DOMAIN x.entries = 1..Len(x.entries) /\ Len(x.entries) \in Nat
        /\ \A e \in DOMAIN x.entries : y.entries[e] = x.entries[e]
    BY <2>1, <2>2
  <2> QED BY <1>1, <1>3, <1>4, <2>2, <2>3 DEF Linked
<1>5. AddAlias(x, r, p, f, n) = x \/ (d # None /\ AddAlias(x, r, p, f, n) = Bump(y))
  BY DEF AddAlias, d, y
<1> QED BY <1>3, <1>4, <1>5

\* Marks are read by RecomputeZones alone.
LEMMA MarkerIsSound ==
    ASSUME NEW x, Sound(x), NEW r \in Records, NEW zone \in Zones
    PROVE  LET w == SetZoneMarker(x, r, zone)
           IN Sound(w) /\ w.entries = x.entries /\ w.sortedEnd = x.sortedEnd
<1> DEFINE M == [x.markers EXCEPT ![r] = zone]
<1>1. x \in Indexes /\ M \in [Records -> Zones \cup {"none"}]
  BY DEF Sound, Indexes
<1>2. SetZoneMarker(x, r, zone) = [x EXCEPT !.markers = M]
  BY <1>1 DEF SetZoneMarker, Indexes
<1> HIDE DEF M
<1> DEFINE v == [x EXCEPT !.markers = M]
<1>3. /\ v \in Indexes /\ v.entries = x.entries /\ v.slots = x.slots /\ v.live = x.live
      /\ v.deadBytes = x.deadBytes /\ v.byRecord = x.byRecord /\ v.sortedEnd = x.sortedEnd
  BY <1>1 DEF Indexes
<1> HIDE DEF v
<1>4. Sound(v)
  BY <1>3, AlikeIsSound
<1> QED BY <1>2, <1>3, <1>4 DEF v

-----------------------------------------------------------------------------
(* RecomputeZones. *)

\* The records with a marker that lead to an entry.
MarkersOf(x, e) == {r \in Records : Find(x, r) = e /\ x.markers[r] # "none"}

\* The zones within k steps of a marker or a root; g has the smaller k.
ZonesAt(x, g, k) ==
    [e \in Entries(x) |->
        LET p == x.entries[e].parent
        IN IF MarkersOf(x, e) # {} THEN x.markers[CHOOSE r \in MarkersOf(x, e) : TRUE]
           ELSE IF p = e THEN "Normal"
           ELSE IF k = 0 THEN "Excluded"
           ELSE ZoneForNew(g[k - 1][p], x.entries[e].flags,
                           x.slots[x.entries[e].slot].name,
                           x.entries[p].parent = p)]
\* A function by levels, each one from the level before.
IsZoning(x, g, n) == g = [k \in 0..n |-> ZonesAt(x, g, k)]
ZoningOf(x) == CHOOSE g : IsZoning(x, g, Len(x.entries))

\* The zones of Recomputed are the chosen function.
LEMMA RecomputedIsZoning ==
    ASSUME NEW x
    PROVE  Recomputed(x) = [e \in Entries(x) |->
              [x.entries[e] EXCEPT !.zone = ZoningOf(x)[Len(x.entries)][e]]]
  BY DEF Recomputed, ZoningOf, IsZoning, ZonesAt, MarkersOf

LEMMA ZonesAtAlike ==
    ASSUME NEW x, NEW g, NEW h, NEW k, k = 0 \/ g[k - 1] = h[k - 1]
    PROVE  ZonesAt(x, g, k) = ZonesAt(x, h, k)
<1>1. CASE k = 0
  BY <1>1 DEF ZonesAt
<1>2. CASE g[k - 1] = h[k - 1]
  BY <1>2 DEF ZonesAt
<1> QED BY <1>1, <1>2

\* There is one: by induction on the levels, of the functions up to each.
LEMMA ZoningExists ==
    ASSUME NEW x, NEW n \in Nat
    PROVE  \E g : IsZoning(x, g, n)
<1> DEFINE T == {m \in Nat : \E g : IsZoning(x, g, m)}
<1>1. 0 \in T
  <2> DEFINE Z == ZonesAt(x, <<>>, 0)
  <2> DEFINE g == [k \in 0..0 |-> Z]
  <2>1. \A k \in 0..0 : ZonesAt(x, g, k) = Z
    <3>1. ZonesAt(x, g, 0) = Z
      BY ZonesAtAlike
    <3> QED BY <3>1
  <2> HIDE DEF Z
  <2>2. g = [k \in 0..0 |-> ZonesAt(x, g, k)]
    BY <2>1
  <2> HIDE DEF g
  <2>3. IsZoning(x, g, 0)
    BY <2>2 DEF IsZoning
  <2> QED BY <2>3
<1>2. ASSUME NEW m \in T PROVE m + 1 \in T
  <2>1. PICK g : IsZoning(x, g, m)
    OBVIOUS
  <2> DEFINE h == [k \in 0..(m + 1) |-> IF k <= m THEN g[k] ELSE ZonesAt(x, g, k)]
  <2>2. \A k \in 0..(m + 1) : k = 0 \/ g[k - 1] = h[k - 1]
    OBVIOUS
  <2>3. \A k \in 0..(m + 1) : h[k] = ZonesAt(x, g, k)
    <3>1. \A k \in 0..m : g[k] = ZonesAt(x, g, k)
      BY <2>1 DEF IsZoning
    <3> QED BY <3>1
  <2>4. h = [k \in 0..(m + 1) |-> h[k]]
    OBVIOUS
  <2> HIDE DEF h
  <2>5. \A k \in 0..(m + 1) : h[k] = ZonesAt(x, h, k)
    BY <2>2, <2>3, ZonesAtAlike
  <2>6. IsZoning(x, h, m + 1)
    BY <2>4, <2>5 DEF IsZoning
  <2> QED BY <2>6
<1>3. T = Nat
  <2> HIDE DEF T
  <2>1. T \in SUBSET Nat
    BY DEF T
  <2> QED BY <1>1, <1>2, <2>1, Induct
<1> QED BY <1>3

\* So every zone is one of Zones, by induction on the levels.
LEMMA ZoningIsZones ==
    ASSUME NEW x, Sound(x), Linked(x)
    PROVE  ZoningOf(x)[Len(x.entries)] \in [Entries(x) -> Zones]
<1> DEFINE g == ZoningOf(x)
<1> DEFINE n == Len(x.entries)
<1> DEFINE T == {m \in Nat : m <= n => g[m] \in [Entries(x) -> Zones]}
<1>0. /\ x.entries \in Seq(IndexEntries) /\ n \in Nat /\ Entries(x) = DOMAIN x.entries
      /\ x.markers \in [Records -> Zones \cup {"none"}]
  <2>1. x.entries \in Seq(IndexEntries) /\ x.markers \in [Records -> Zones \cup {"none"}]
    BY DEF Sound, Indexes
  <2> QED BY <2>1, SeqDomain DEF Entries
<1>1. IsZoning(x, g, n)
  BY <1>0, ZoningExists DEF ZoningOf
<1> HIDE DEF g, n
<1>2. \A k \in 0..n : g[k] = ZonesAt(x, g, k)
  BY <1>1 DEF IsZoning
<1>3. ASSUME NEW k \in 0..n, k # 0 => g[k - 1] \in [Entries(x) -> Zones]
      PROVE  g[k] \in [Entries(x) -> Zones]
  <2>1. ASSUME NEW e \in Entries(x) PROVE ZonesAt(x, g, k)[e] \in Zones
    <3> DEFINE p == x.entries[e].parent
    <3> DEFINE marked == x.markers[CHOOSE r \in MarkersOf(x, e) : TRUE]
    <3> DEFINE z == ZoneForNew(g[k - 1][p], x.entries[e].flags,
                        x.slots[x.entries[e].slot].name, x.entries[p].parent = p)
    <3>1. MarkersOf(x, e) # {} => marked \in Zones
      <4>1. ASSUME NEW r \in MarkersOf(x, e) PROVE x.markers[r] \in Zones
        BY <1>0 DEF MarkersOf
      <4> QED BY <4>1
    <3>2. k # 0 => z \in Zones
      <4>1. p \in Entries(x)
        BY <1>0 DEF Linked
      <4>2. k # 0 => g[k - 1][p] \in Zones
        BY <1>3, <4>1
      <4> QED BY <4>2, ZoneForNewIsZone
    <3>3. "Normal" \in Zones /\ "Excluded" \in Zones
      BY DEF Zones, ZoneBonus
    <3>4. ZonesAt(x, g, k)[e] =
             IF MarkersOf(x, e) # {} THEN marked
             ELSE IF p = e THEN "Normal" ELSE IF k = 0 THEN "Excluded" ELSE z
      BY DEF ZonesAt
    <3> HIDE DEF z, marked, p
    <3> QED BY <3>1, <3>2, <3>3, <3>4
  <2>2. ZonesAt(x, g, k) = [e \in Entries(x) |-> ZonesAt(x, g, k)[e]]
    BY DEF ZonesAt
  <2> QED BY <1>2, <2>1, <2>2
<1>4. 0 \in T
  BY <1>0, <1>3 DEF n
<1>5. ASSUME NEW m \in T PROVE m + 1 \in T
  <2> SUFFICES ASSUME m + 1 <= n PROVE g[m + 1] \in [Entries(x) -> Zones]
    OBVIOUS
  <2>1. m + 1 \in 0..n /\ g[m] \in [Entries(x) -> Zones] /\ (m + 1) - 1 = m
    BY <1>0 DEF n
  <2> QED BY <1>3, <2>1
<1>6. T = Nat
  <2> HIDE DEF T
  <2>1. T \in SUBSET Nat
    BY DEF T
  <2> QED BY <1>4, <1>5, <2>1, Induct
<1>7. n \in T
  BY <1>0, <1>6 DEF n
<1> QED BY <1>0, <1>7 DEF n, g

\* RecomputeZones: every slot has the score of its zone, and then Reorder ranks
\* them.
LEMMA RecomputeZonesIsSound ==
    ASSUME NEW x, Sound(x), Linked(x), x.sortedEnd = 0
    PROVE  Sound(RecomputeZones(x)) /\ Listed(RecomputeZones(x))
<1> DEFINE Z == ZoningOf(x)[Len(x.entries)]
<1> DEFINE F == Recomputed(x)
<1> DEFINE y == [x EXCEPT !.entries = F]
<1> DEFINE R == Rescored(y)
<1> DEFINE z == [y EXCEPT !.slots = R]
<1>0. /\ x \in Indexes /\ x.entries \in Seq(IndexEntries) /\ x.slots \in Seq(IndexSlots)
      /\ DOMAIN x.entries = 1..Len(x.entries) /\ Len(x.entries) \in Nat
         /\ Entries(x) = 1..Len(x.entries)
      /\ \A e \in DOMAIN x.entries : x.entries[e] \in IndexEntries
      /\ DOMAIN x.slots = 1..Len(x.slots) /\ Len(x.slots) \in Nat
      /\ \A s \in DOMAIN x.slots : x.slots[s] \in IndexSlots
  <2>1. x \in Indexes /\ x.entries \in Seq(IndexEntries) /\ x.slots \in Seq(IndexSlots)
    BY DEF Sound, Indexes
  <2> QED BY <2>1, SeqDomain DEF Entries
<1>1. Z \in [Entries(x) -> Zones]
  BY ZoningIsZones
<1>2. F = [e \in Entries(x) |-> [x.entries[e] EXCEPT !.zone = Z[e]]]
  BY RecomputedIsZoning
<1> HIDE DEF F, Z
<1>3. ASSUME NEW e \in 1..Len(x.entries)
      PROVE  /\ F[e] \in IndexEntries /\ F[e].slot = x.entries[e].slot
             /\ F[e].flags = x.entries[e].flags
  <2>1. F[e] = [x.entries[e] EXCEPT !.zone = Z[e]] /\ Z[e] \in Zones
        /\ x.entries[e] \in IndexEntries
    BY <1>0, <1>1, <1>2
  <2> QED BY <2>1 DEF IndexEntries
<1>4. F = [e \in 1..Len(x.entries) |-> F[e]]
  BY <1>0, <1>2
<1>5. F \in Seq(IndexEntries) /\ Len(F) = Len(x.entries)
  <2>1. \A e \in 1..Len(x.entries) : F[e] \in IndexEntries
    BY <1>3
  <2> QED BY <1>0, <1>4, <2>1, SeqFrom
<1>6. Sound(y)
  BY <1>3, <1>5, EntriesAreSound
<1>7. y \in Indexes /\ y.entries = F /\ y.slots = x.slots /\ y.sortedEnd = 0
  BY <1>0, <1>5 DEF Indexes
<1> HIDE DEF y
<1>8. ASSUME NEW s \in 1..Len(x.slots)
      PROVE  /\ R[s] \in IndexSlots /\ R[s].entry = x.slots[s].entry
             /\ R[s].name = x.slots[s].name
             /\ R[s].entry # None => (R[s].base = NoBase <=> F[R[s].entry].zone = "Excluded")
  <2> DEFINE c == x.slots[s]
  <2> DEFINE b == BaseScore(F[c.entry], c.name, Depth(y, c.entry))
  <2>0. c \in IndexSlots
    BY <1>0
  <2>1. R[s] = IF c.entry = None THEN c ELSE [c EXCEPT !.base = b]
    BY <1>7, Zenon DEF Rescored, Slots
  <2>2. CASE c.entry = None
    BY <2>0, <2>1, <2>2
  <2>3. CASE c.entry # None
    <3>1. c.entry \in Alive(y.entries) /\ c.entry \in DOMAIN F
      <4>1. s \in LiveSlots(y)
        BY <1>0, <1>6, <1>7, <2>3, LiveSlotsAre
      <4> QED BY <1>6, <1>7, <4>1, LiveSlotsAre
    <3>2. F[c.entry] \in IndexEntries /\ "deleted" \notin F[c.entry].flags
      BY <1>0, <1>3, <1>4, <1>7, <3>1 DEF Alive
    <3>3. b \in Int /\ (b = NoBase <=> F[c.entry].zone = "Excluded")
      <4>1. c.name \in Names \cup {RootName}
        BY <2>0 DEF IndexSlots
      <4>2. Depth(y, c.entry) \in Nat
        BY DepthIsNat
      <4> QED BY <3>2, <4>1, <4>2, BaseScoreIs
    <3> HIDE DEF b, c
    <3> QED BY <2>0, <2>1, <2>3, <3>3 DEF IndexSlots, c
  <2> QED BY <2>2, <2>3
<1>9. R = [s \in 1..Len(x.slots) |-> R[s]]
  BY <1>7 DEF Rescored, Slots
<1> HIDE DEF R
<1>10. R \in Seq(IndexSlots) /\ Len(R) = Len(x.slots) /\ DOMAIN R = 1..Len(x.slots)
  BY <1>0, <1>8, <1>9, SeqFrom
<1>11. Sound(z)
  <2>1. Descends(R, 0)
    BY <1>0, <1>10 DEF Descends
  <2> QED BY <1>6, <1>7, <1>8, <1>10, <2>1, SlotsAreSound
<1>12. z.slots = R /\ z.entries = F
  BY <1>7 DEF Indexes
<1>13. RecomputeZones(x) = Reorder(z)
  BY <1>0, <1>7 DEF RecomputeZones, y, R, F
<1> HIDE DEF z
<1>14. Listed(z)
  <2> SUFFICES ASSUME NEW s \in LiveSlots(z) PROVE Right(z, s)
    BY DEF Listed
  <2>1. s \in 1..Len(x.slots) /\ R[s].entry # None
    BY <1>10, <1>11, <1>12, LiveSlotsAre
  <2> QED BY <1>8, <1>12, <2>1 DEF Right
<1> QED BY <1>11, <1>13, <1>14, ReorderIsSound

-----------------------------------------------------------------------------
(* The specification. *)

\* The inductive invariant: the arrays agree, and each phase has what the next
\* one needs of it.
IInv ==
    /\ Sound(ix) /\ plan \in Plans
    /\ phase \in {"adding", "linked", "ranked"}
    /\ phase = "adding" => Building(ix)
    /\ phase = "linked" => Linked(ix) /\ ix.sortedEnd = 0
    /\ phase = "ranked" => Listed(ix)

\* What a plan lets a step be given.
LEMMA PlansAre ==
    ASSUME plan \in Plans
    PROVE  /\ plan.records \subseteq Records
           /\ plan.buildFlags \subseteq Given /\ plan.updateFlags \subseteq Given
           /\ plan.buildNames \subseteq Names /\ plan.updateNames \subseteq Names
           /\ plan.markers \subseteq Zones
  BY PlanAssumption DEF Given

LEMMA InitIsSound == Init => IInv
<1>1. Empty.entries = <<>> /\ Empty.sortedEnd = 0 /\ Empty.byRecord = [r \in Records |-> None]
  BY DEF Empty
<1>2. Sound(AddVolume(Empty)) /\ Building(AddVolume(Empty))
  BY <1>1, EmptyIsSound, AddVolumeIsSound
<1> QED BY <1>2 DEF Init, IInv

\* One case for each operation, each by the lemma of that operation.
LEMMA NextIsSound == IInv /\ [Next]_vars => IInv'
<1> SUFFICES ASSUME IInv, [Next]_vars PROVE IInv'
  OBVIOUS
<1> USE DEF IInv
<1>1. CASE UNCHANGED vars
  BY <1>1 DEF vars, Sound, Building, Linked, Listed, Right, LiveSlots, Slots
<1>2. CASE Next
  <2>0. plan' = plan /\ plan \in Plans
    BY <1>2 DEF Next
  <2>1. ASSUME NEW r \in plan.records, NEW p \in plan.records, NEW f \in plan.buildFlags,
               NEW n \in plan.buildNames, AddRecord(r, p, f, n)
        PROVE  IInv'
    <3>1. r \in Records /\ p \in Records /\ f \in Given /\ n \in Names
      BY <2>0, PlansAre
    <3>2. phase = "adding" /\ phase' = "adding" /\ ix' = Add(ix, r, p, f, n)
      BY <2>1 DEF AddRecord
    <3> QED BY <2>0, <3>1, <3>2, AddIsSound
  <2>2. CASE Finish
    BY <2>0, <2>2, FinishVolumeIsSound DEF Finish
  <2>3. ASSUME NEW r \in plan.records, NEW p \in plan.records, NEW n \in plan.buildNames,
               Alias(r, p, n)
        PROVE  IInv'
    <3>1. r \in Records /\ p \in Records /\ n \in Names /\ {} \in SUBSET Flags
          /\ "deleted" \notin {}
      BY <2>0, PlansAre
    <3>2. phase = "linked" /\ phase' = "linked" /\ ix' = AddAlias(ix, r, p, {}, n)
      BY <2>3 DEF Alias
    <3>3. Sound(ix') /\ Linked(ix') /\ ix'.sortedEnd = 0
      BY <3>1, <3>2, AddAliasIsSound
    <3> QED BY <2>0, <3>2, <3>3
  <2>4. ASSUME NEW r \in plan.records, NEW zone \in plan.markers, Mark(r, zone)
        PROVE  IInv'
    <3>1. r \in Records /\ zone \in Zones
      BY <2>0, PlansAre
    <3>2. phase = "linked" /\ phase' = "linked" /\ ix' = SetZoneMarker(ix, r, zone)
      BY <2>4 DEF Mark
    <3>3. Sound(ix') /\ Linked(ix') /\ ix'.sortedEnd = 0
      BY <3>1, <3>2, MarkerIsSound DEF Linked
    <3> QED BY <2>0, <3>2, <3>3
  <2>5. CASE Rank
    BY <2>0, <2>5, RecomputeZonesIsSound DEF Rank
  <2>6. ASSUME NEW r \in plan.records, NEW p \in plan.records, NEW f \in plan.updateFlags,
               NEW n \in plan.updateNames, Change(r, p, f, n)
        PROVE  IInv'
    <3>1. r \in Records /\ p \in Records /\ f \in Given /\ n \in Names
      BY <2>0, PlansAre
    <3>2. phase = "ranked" /\ phase' = "ranked" /\ ix' = Upsert(ix, r, p, f, n)
      BY <2>6 DEF Change
    <3> QED BY <2>0, <3>1, <3>2, UpsertIsSound
  <2>7. ASSUME NEW r \in plan.records, Delete(r) PROVE IInv'
    <3>1. phase = "ranked" /\ phase' = "ranked" /\ ix' = Remove(ix, r) /\ r \in Records
      BY <2>0, <2>7, PlansAre DEF Delete
    <3> QED BY <2>0, <3>1, RemoveIsSound, RemoveKeepsListed
  <2>8. CASE Compact
    <3>1. phase = "ranked" /\ phase' = "ranked" /\ ix' = CompactIfWasteful(ix)
      BY <2>8 DEF Compact
    <3> QED BY <2>0, <3>1, CompactIsSound
  <2> QED BY <1>2, <2>1, <2>2, <2>3, <2>4, <2>5, <2>6, <2>7, <2>8 DEF Next, Build, Update
<1> QED BY <1>1, <1>2

LEMMA IInvHolds == Spec => []IInv
  BY InitIsSound, NextIsSound, PTL DEF Spec

\* The invariant has the properties in it: entries, accounts and map, of the
\* index.
LEMMA IInvImplies ==
    IInv => IndexIsConsistent /\ RankedRegionDescends /\ ExcludedIsUnlisted
<1> SUFFICES ASSUME IInv PROVE IndexIsConsistent /\ RankedRegionDescends /\ ExcludedIsUnlisted
  OBVIOUS
<1>0. /\ Sound(ix) /\ ix \in Indexes /\ ix.entries \in Seq(IndexEntries)
         /\ ix.slots \in Seq(IndexSlots)
      /\ DOMAIN ix.entries = 1..Len(ix.entries) /\ DOMAIN ix.slots = 1..Len(ix.slots)
      /\ Entries(ix) = DOMAIN ix.entries /\ Slots(ix) = DOMAIN ix.slots
  <2>1. Sound(ix) /\ ix \in Indexes /\ ix.entries \in Seq(IndexEntries)
        /\ ix.slots \in Seq(IndexSlots)
    BY DEF Sound, Indexes, IInv
  <2> QED BY <2>1, SeqDomain DEF Entries, Slots
<1>1. TypeOK
  BY <1>0 DEF TypeOK, IInv
<1>2. SlotsAndEntriesAgree
  <2>1. Paired(ix.entries, ix.slots)
    BY <1>0 DEF Sound
  <2>2. ASSUME NEW e \in Entries(ix)
        PROVE  /\ ix.entries[e].slot \in {None} \cup Slots(ix)
               /\ ~Deleted(ix, e) <=> Owns(ix, e, ix.entries[e].slot)
    BY <1>0, <2>1 DEF Paired, Deleted, Owns
  <2>3. ASSUME NEW s \in LiveSlots(ix)
        PROVE  ix.slots[s].entry \in Entries(ix) /\ ix.entries[ix.slots[s].entry].slot = s
    BY <1>0, LiveSlotsAre
  <2> QED BY <2>2, <2>3 DEF SlotsAndEntriesAgree
<1>3. AccountsBalance
  <2>1. Alive(ix.entries) = {e \in Entries(ix) : ~Deleted(ix, e)}
    BY <1>0 DEF Alive, Deleted
  <2>2. DeadOf(ix.slots) = Slots(ix) \ LiveSlots(ix)
    BY <1>0, LiveSlotsAre DEF DeadOf
  <2>3. DeadOf(ix.slots) \in SUBSET DOMAIN ix.slots
    BY DEF DeadOf
  <2>4. MapThenSumSet(LAMBDA s : Bytes(ix.slots[s].name), DeadOf(ix.slots))
        = SumOf(Weights(ix.slots), DeadOf(ix.slots))
    BY <2>3, SumIsFold
  <2>5. ix.live = Cardinality(Alive(ix.entries))
        /\ ix.deadBytes = SumOf(Weights(ix.slots), DeadOf(ix.slots))
    BY <1>0 DEF Sound
  <2> QED BY <2>1, <2>2, <2>4, <2>5 DEF AccountsBalance
<1>4. RecordsFindLiveEntries
  BY <1>0 DEF RecordsFindLiveEntries, Sound, Mapped, Find, Alive, Deleted
<1>5. RankedRegionDescends
  BY <1>0 DEF RankedRegionDescends, Sound, Descends
<1>6. ExcludedIsUnlisted
  BY DEF ExcludedIsUnlisted, IInv, Listed, Right
<1> QED BY <1>1, <1>2, <1>3, <1>4, <1>5, <1>6 DEF IndexIsConsistent

\* The arrays of the index agree with each other after every sequence of
\* builds,
\* journal records and compactions: entries and slots own each other, the
\* counts of
\* live entries and dead bytes are those of the arrays, and a record finds a
\* live
\* entry no other record finds.
THEOREM Consistent == Spec => []IndexIsConsistent
  BY IInvHolds, IInvImplies, PTL

\* The scores of the ranked region descend, whatever was renamed, rescored or
\* removed
\* since the last Reorder: what the early exit of Search relies on.
THEOREM Descending == Spec => []RankedRegionDescends
  BY IInvHolds, IInvImplies, PTL

\* In a ranked index a live slot has the sentinel score exactly when its entry
\* is in
\* the Excluded zone: no other score, however deep the folder or long the name,
\* is the
\* sentinel, and no step leaves an old score behind.
THEOREM Unlisted == Spec => []ExcludedIsUnlisted
  BY IInvHolds, IInvImplies, PTL

\* No operation of a ranked index changes the slots and keeps the generation.
THEOREM GenerationFollowsSlots == Spec => SlotsChangeGeneration
<1>1. IInv /\ [Next]_vars
      => [(phase = "ranked" /\ ix'.slots # ix.slots) => ix'.generation # ix.generation]_vars
  <2> SUFFICES ASSUME IInv, Next, phase = "ranked", ix'.slots # ix.slots
               PROVE  ix'.generation # ix.generation
    BY DEF vars
  <2> USE DEF IInv
  <2>1. ASSUME NEW r \in plan.records, NEW p \in plan.records, NEW f \in plan.updateFlags,
               NEW n \in plan.updateNames, Change(r, p, f, n)
        PROVE  ix'.generation # ix.generation
    <3>1. r \in Records /\ p \in Records /\ f \in Given /\ n \in Names
      BY PlansAre
    <3>2. ix' = Upsert(ix, r, p, f, n)
      BY <2>1 DEF Change
    <3> QED BY <3>1, <3>2, UpsertIsSound
  <2>2. ASSUME NEW r \in plan.records, Delete(r) PROVE ix'.generation # ix.generation
    <3>1. ix' = Remove(ix, r) /\ r \in Records
      BY <2>2, PlansAre DEF Delete
    <3> QED BY <3>1, RemoveIsSound
  <2>3. CASE Compact
    BY <2>3, CompactIsSound DEF Compact
  <2> QED BY <2>1, <2>2, <2>3 DEF Next, Build, Update, AddRecord, Finish, Alias, Mark, Rank
<1> QED BY <1>1, IInvHolds, PTL DEF Spec, SlotsChangeGeneration
=============================================================================
