------------------------- MODULE RankedScanProofs -------------------------
(***************************************************************************)
(* The answer of a search is the full ranking, and what is kept for the    *)
(* next query is exact (RankedScan), for any number of names, threads,     *)
(* chunks and searches.                                                    *)
(*                                                                         *)
(* What makes the pruning right is said without the state of any thread: a *)
(* hit is Beaten when as many hits as the top has places are better, and a *)
(* threshold is Bounding when as many hits reach it. The last hit of a     *)
(* full top is Bounding, whoever publishes or reads it and whenever, so    *)
(* what is passed over for it is Beaten.                                   *)
(***************************************************************************)
EXTENDS RankedScan, FiniteSetTheorems, SequenceTheorems, WellFoundedInduction, TLAPS

-----------------------------------------------------------------------------
(* Numbers and finite sets. *)

\* Every set of numbers that is not empty has a least one.
LEMMA LeastNatural ==
    ASSUME NEW T \in SUBSET Nat, T # {}
    PROVE  \E m \in T : \A n \in T : m <= n
<1> DEFINE R == OpToRel(<, Nat)
<1>1. IsWellFoundedOn(R, Nat)
  BY NatLessThanWellFounded
<1> HIDE DEF R
<1>2. PICK m \in T : \A n \in T : ~(<<n, m>> \in R)
  BY <1>1, WFMin
<1>3. ASSUME NEW n \in T PROVE m <= n
  <2>1. <<n, m>> \notin R
    BY <1>2
  <2>2. ~(n < m)
    BY <2>1 DEF R, OpToRel
  <2> QED BY <2>2
<1> QED BY <1>2, <1>3

\* A set that has 0, and the successor of each of its numbers, has them all.
LEMMA Induct ==
    ASSUME NEW T \in SUBSET Nat, 0 \in T, \A n \in T : n + 1 \in T
    PROVE  T = Nat
<1> SUFFICES ASSUME Nat \ T # {} PROVE FALSE
  OBVIOUS
<1>1. PICK m \in Nat \ T : \A n \in Nat \ T : m <= n
  BY LeastNatural
<1>2. m # 0 /\ m - 1 \in Nat /\ m - 1 \in T
  BY <1>1
<1> QED BY <1>2, <1>1

\* A set of places that has every place before one of its own is a prefix.
LEMMA PrefixOfPlaces ==
    ASSUME NEW m \in Nat, NEW D \in SUBSET (1..m),
           \A i, j \in 1..m : i < j /\ j \in D => i \in D
    PROVE  Cardinality(D) \in 0..m /\ D = 1..Cardinality(D)
<1> DEFINE T == (1..(m + 1)) \ D
<1>1. m + 1 \in T /\ T \in SUBSET Nat
  OBVIOUS
<1>2. PICK k \in T : \A n \in T : k <= n
  BY <1>1, LeastNatural
<1>3. D = 1..(k - 1) /\ k - 1 \in 0..m
  <2>0. k \in 1..(m + 1) /\ k \notin D /\ k - 1 \in 0..m
    OBVIOUS
  <2>1. \A i \in 1..(k - 1) : i \in D
    <3> SUFFICES ASSUME NEW i \in 1..(k - 1), i \notin D PROVE FALSE
      OBVIOUS
    <3>1. i \in T
      BY <2>0
    <3> QED BY <1>2, <2>0, <3>1
  <2>2. \A i \in D : i \in 1..m /\ i # k /\ ~(k < i)
    BY <2>0
  <2> HIDE DEF T
  <2>3. \A i \in D : i \in 1..(k - 1)
    BY <2>0, <2>2
  <2>4. D = 1..(k - 1)
    BY <2>1, <2>3
  <2> QED BY <2>0, <2>4
<1>4. Cardinality(1..(k - 1)) = k - 1
  BY <1>3, FS_Interval
<1> QED BY <1>3, <1>4

\* As many members as places, when no two places hold the same.
LEMMA PlacesCount ==
    ASSUME NEW m \in Nat, NEW f, \A i, j \in 1..m : i # j => f[i] # f[j]
    PROVE  /\ IsFiniteSet({f[i] : i \in 1..m})
           /\ Cardinality({f[i] : i \in 1..m}) = m
<1> DEFINE S == {f[i] : i \in 1..m}
<1> DEFINE g == [i \in 1..m |-> f[i]]
<1>1. g \in Bijection(1..m, S)
  BY DEF Bijection, Injection, Surjection, IsInjective
<1>2. ExistsBijection(1..m, S)
  BY <1>1 DEF ExistsBijection
<1>3. Cardinality(S) = m
  BY <1>2, FS_CountingElements
<1>4. IsFiniteSet(S)
  BY <1>2, FS_NatBijection
<1> QED BY <1>3, <1>4

LEMMA CountUpTo ==
    ASSUME NEW S, IsFiniteSet(S), NEW T \in SUBSET S
    PROVE  /\ IsFiniteSet(T) /\ Cardinality(T) \in Nat /\ Cardinality(S) \in Nat
           /\ Cardinality(T) <= Cardinality(S)
           /\ Cardinality(T) = Cardinality(S) => T = S
  BY FS_Subset, FS_CardinalityType

-----------------------------------------------------------------------------
(* Hits, what beats them, and the top. *)

Ranks(H) ==
    /\ IsFiniteSet(H)
    /\ \A h \in H : h.entry \in Int /\ h.score \in Int
    /\ \A g, h \in H : g.entry = h.entry => g = h

Ahead(H, h) == {g \in H : Better(g, h)}
Beaten(H, n, h) == Cardinality(Ahead(H, h)) >= n
Reaching(H, th) == {g \in H : g.score >= th}
Bounding(H, n, th) == th \in Int /\ (th = Least \/ Cardinality(Reaching(H, th)) >= n)

\* The first places of a ranking of some hits.
TopOf(H, n, top) ==
    /\ top \in Seq(H) /\ Len(top) <= n
    /\ \A i, j \in 1..Len(top) : i < j => Better(top[i], top[j])
Holds(top, h) == \E k \in 1..Len(top) : top[k] = h

\* No two hits tie: of the same score, the older entry is better.
LEMMA BetterOrders ==
    ASSUME NEW H, Ranks(H)
    PROVE  /\ \A g \in H : ~Better(g, g)
           /\ \A f, g, h \in H : Better(f, g) /\ Better(g, h) => Better(f, h)
           /\ \A g, h \in H : Better(g, h) => ~Better(h, g)
           /\ \A g, h \in H : g # h => Better(g, h) \/ Better(h, g)
<1>1. \A h \in H : h.entry \in Int /\ h.score \in Int
  BY DEF Ranks
<1>2. \A g, h \in H : g # h => g.entry # h.entry
  BY DEF Ranks
<1> QED BY <1>1, <1>2 DEF Better

LEMMA BelowIsBeaten ==
    ASSUME NEW H, Ranks(H), NEW n \in Nat, NEW th, Bounding(H, n, th), th # Least,
           NEW h \in H, h.score < th
    PROVE  Beaten(H, n, h)
<1>1. Reaching(H, th) \subseteq Ahead(H, h)
  <2> SUFFICES ASSUME NEW g \in H, g.score >= th PROVE Better(g, h)
    BY DEF Reaching, Ahead
  <2>1. g.score \in Int /\ h.score \in Int /\ th \in Int
    BY DEF Ranks, Bounding
  <2> QED BY <2>1 DEF Better
<1>2. Ahead(H, h) \in SUBSET H /\ IsFiniteSet(H)
  BY DEF Ahead, Ranks
<1>3. IsFiniteSet(Ahead(H, h))
  BY <1>2, CountUpTo
<1>4. /\ Cardinality(Reaching(H, th)) <= Cardinality(Ahead(H, h))
      /\ Cardinality(Reaching(H, th)) \in Nat /\ Cardinality(Ahead(H, h)) \in Nat
  BY <1>1, <1>3, CountUpTo
<1>5. Cardinality(Reaching(H, th)) >= n
  BY DEF Bounding
<1> QED BY <1>4, <1>5 DEF Beaten

\* A top holds as many hits as it has places.
LEMMA TopCounts ==
    ASSUME NEW H, Ranks(H), NEW n \in Nat, NEW top, TopOf(H, n, top), NEW m \in 0..Len(top)
    PROVE  /\ {top[k] : k \in 1..m} \in SUBSET H
           /\ Cardinality({top[k] : k \in 1..m}) = m
<1>1. \A i \in 1..Len(top) : top[i] \in H
  BY DEF TopOf
<1>2. \A i, j \in 1..m : i # j => top[i] # top[j]
  <2> SUFFICES ASSUME NEW i \in 1..m, NEW j \in 1..m, i < j PROVE top[i] # top[j]
    OBVIOUS
  <2>1. i \in 1..Len(top) /\ j \in 1..Len(top) /\ Len(top) \in Nat
    BY DEF TopOf
  <2>2. Better(top[i], top[j])
    BY <2>1 DEF TopOf
  <2> QED BY <1>1, <2>1, <2>2, BetterOrders
<1>3. Len(top) \in Nat /\ m \in Nat /\ 1..m \subseteq 1..Len(top)
  BY DEF TopOf
<1>4. {top[k] : k \in 1..m} \in SUBSET H
  BY <1>1, <1>3
<1>5. Cardinality({top[k] : k \in 1..m}) = m
  BY <1>2, <1>3, PlacesCount
<1> QED BY <1>4, <1>5

\* The last hit of a full top bounds what can still enter any top.
LEMMA ThresholdBounds ==
    ASSUME NEW H, Ranks(H), Limit \in Nat \ {0}, NEW top, TopOf(H, Limit, top)
    PROVE  Bounding(H, Limit, Threshold(top))
<1>1. Len(top) \in Nat /\ \A i \in 1..Len(top) : top[i] \in H
  BY DEF TopOf
<1>2. CASE Len(top) < Limit
  BY <1>2 DEF Threshold, Bounding, Least
<1>3. CASE Len(top) >= Limit
  <2>1. Len(top) = Limit
    BY <1>3, <1>1 DEF TopOf
  <2> DEFINE th == top[Limit].score
  <2>2. Threshold(top) = th /\ th \in Int
    BY <1>1, <2>1 DEF Threshold, Last, Ranks
  <2> DEFINE S == {top[k] : k \in 1..Limit}
  <2>3. S \in SUBSET H /\ Cardinality(S) = Limit
    <3>1. Limit \in Nat /\ Limit \in 0..Len(top)
      BY <2>1
    <3>2. {top[k] : k \in 1..Limit} \in SUBSET H /\ Cardinality({top[k] : k \in 1..Limit}) = Limit
      BY ONLY <3>1, Ranks(H), TopOf(H, Limit, top), TopCounts
    <3> QED BY <3>2
  <2>4. \A k \in 1..Limit : top[k].score >= th
    <3> TAKE k \in 1..Limit
    <3>1. k = Limit \/ Better(top[k], top[Limit])
      BY <2>1 DEF TopOf
    <3>2. top[k].score \in Int /\ th \in Int
      BY <1>1, <2>1 DEF Ranks
    <3> QED BY <3>1, <3>2 DEF Better
  <2>5. S \in SUBSET Reaching(H, th)
    BY <2>3, <2>4 DEF Reaching
  <2>6. Reaching(H, th) \in SUBSET H /\ IsFiniteSet(H)
    BY DEF Reaching, Ranks
  <2> HIDE DEF th, S
  <2>7. IsFiniteSet(Reaching(H, th))
    BY <2>6, CountUpTo
  <2>8. Cardinality(S) <= Cardinality(Reaching(H, th)) /\ Cardinality(Reaching(H, th)) \in Nat
    BY <2>5, <2>7, CountUpTo
  <2> QED BY <2>2, <2>3, <2>8 DEF Bounding
<1> QED BY <1>1, <1>2, <1>3

\* Of several hits, one is the best.
LEMMA BestExists ==
    ASSUME NEW H, Ranks(H), NEW M \in SUBSET H, M # {}
    PROVE  \E h \in M : \A g \in M : ~Better(g, h)
<1>1. IsFiniteSet(M)
  BY CountUpTo DEF Ranks
<1>2. \A h \in M : Ahead(M, h) \in SUBSET M
  BY DEF Ahead
<1>3. \A h \in M : Cardinality(Ahead(M, h)) \in Nat /\ IsFiniteSet(Ahead(M, h))
  BY <1>1, <1>2, CountUpTo
<1> DEFINE T == {Cardinality(Ahead(M, h)) : h \in M}
<1>4. T \in SUBSET Nat /\ T # {}
  BY <1>3
<1>5. PICK m \in T : \A n \in T : m <= n
  BY <1>4, LeastNatural
<1>6. PICK h \in M : m = Cardinality(Ahead(M, h))
  BY <1>5
<1>7. ASSUME NEW g \in M, Better(g, h) PROVE FALSE
  <2>1. Ahead(M, g) \in SUBSET Ahead(M, h)
    BY <1>7, BetterOrders DEF Ahead
  <2>2. g \in Ahead(M, h) /\ g \notin Ahead(M, g)
    BY <1>7, BetterOrders DEF Ahead
  <2>3. Cardinality(Ahead(M, g)) <= Cardinality(Ahead(M, h)) /\ Cardinality(Ahead(M, g)) # Cardinality(Ahead(M, h))
    BY <1>3, <2>1, <2>2, CountUpTo
  <2>4. Cardinality(Ahead(M, h)) <= Cardinality(Ahead(M, g))
    BY <1>5, <1>6
  <2> QED BY <1>3, <2>3, <2>4
<1> QED BY <1>7

\* A top is the full ranking when what it does not hold is beaten.
LEMMA TopIsRanking ==
    ASSUME NEW H, Ranks(H), NEW n \in Nat \ {0}, NEW top, TopOf(H, n, top),
           \A h \in H : Holds(top, h) \/ Beaten(H, n, h)
    PROVE  /\ Len(top) = Smaller(n, Cardinality(H))
           /\ \A k \in 1..Len(top) : top[k] \in H /\ Cardinality(Ahead(H, top[k])) = k - 1
<1>1. Len(top) \in Nat /\ \A i \in 1..Len(top) : top[i] \in H
  BY DEF TopOf
<1>2. IsFiniteSet(H) /\ Cardinality(H) \in Nat
  BY CountUpTo DEF Ranks
<1> DEFINE S(m) == {top[k] : k \in 1..m}
<1>3. \A m \in 0..Len(top) : S(m) \in SUBSET H /\ Cardinality(S(m)) = m /\ IsFiniteSet(S(m))
  <2> TAKE m \in 0..Len(top)
  <2>1. S(m) \in SUBSET H /\ Cardinality(S(m)) = m
    BY TopCounts
  <2> QED BY <1>2, <2>1, CountUpTo
\* The hits that are missing and have a place among the first.
<1> DEFINE M(m) == {h \in H : ~Holds(top, h) /\ (m <= Len(top) => Better(h, top[m]))}
<1>4. ASSUME NEW m \in 1..(Len(top) + 1), m <= n, M(m) # {} PROVE FALSE
  <2>1. PICK h \in M(m) : \A g \in M(m) : ~Better(g, h)
    BY <1>4, BestExists
  <2>2. h \in H /\ Beaten(H, n, h) /\ (m <= Len(top) => Better(h, top[m]))
    BY <2>1
  <2>3. Ahead(H, h) \in SUBSET S(m - 1)
    <3> SUFFICES ASSUME NEW g \in H, Better(g, h) PROVE \E k \in 1..(m - 1) : top[k] = g
      BY DEF Ahead
    <3>1. m <= Len(top) => Better(g, top[m])
      BY <1>1, <2>2, BetterOrders
    <3>2. Holds(top, g)
      BY <2>1, <3>1
    <3>3. PICK k \in 1..Len(top) : top[k] = g
      BY <3>2 DEF Holds
    <3>4. CASE k < m
      BY <3>3, <3>4
    <3>5. CASE k >= m
      <4>1. m \in 1..Len(top) /\ Better(top[k], top[m])
        BY <1>1, <3>1, <3>3, <3>5
      <4>2. k = m \/ Better(top[m], top[k])
        BY <3>3, <3>5, <4>1 DEF TopOf
      <4> QED BY <1>1, <3>3, <4>1, <4>2, BetterOrders
    <3> QED BY <1>1, <3>3, <3>4, <3>5
  <2>4. m - 1 \in 0..Len(top)
    BY <1>1
  <2>5. Cardinality(Ahead(H, h)) <= m - 1 /\ Cardinality(Ahead(H, h)) \in Nat
    <3>1. IsFiniteSet(S(m - 1)) /\ Cardinality(S(m - 1)) = m - 1
      BY <1>3, <2>4
    <3> HIDE DEF S
    <3>2. Cardinality(Ahead(H, h)) <= Cardinality(S(m - 1)) /\ Cardinality(Ahead(H, h)) \in Nat
      BY <2>3, <3>1, CountUpTo
    <3> QED BY <3>1, <3>2
  <2> QED BY <1>4, <2>2, <2>5, <1>1 DEF Beaten
<1>5. Len(top) <= n
  BY DEF TopOf
<1>6. Len(top) = Smaller(n, Cardinality(H))
  <2>1. Cardinality(S(Len(top))) = Len(top) /\ S(Len(top)) \in SUBSET H
    BY <1>1, <1>3
  <2>2. Len(top) <= Cardinality(H)
    BY <1>2, <2>1, CountUpTo
  <2>3. CASE Len(top) = n
    BY <2>2, <2>3, <1>1, <1>2 DEF Smaller
  <2>4. CASE Len(top) < n
    <3>1. M(Len(top) + 1) = {}
      BY <1>1, <1>4, <2>4
    <3>2. \A h \in H : Holds(top, h)
      BY <3>1, <1>1
    <3>3. S(Len(top)) = H
      BY <2>1, <3>2 DEF Holds
    <3>4. Cardinality(H) = Len(top)
      BY <2>1, <3>3
    <3> HIDE DEF S, M
    <3> QED BY <2>4, <3>4, <1>1 DEF Smaller
  <2> QED BY <1>1, <1>5, <2>3, <2>4
<1>7. ASSUME NEW k \in 1..Len(top) PROVE Cardinality(Ahead(H, top[k])) = k - 1
  <2>1. M(k) = {}
    BY <1>1, <1>4, <1>5
  <2>2. \A h \in H : Better(h, top[k]) => Holds(top, h)
    BY <2>1, <1>1
  <2>3. Ahead(H, top[k]) = S(k - 1)
    <3>1. ASSUME NEW h \in H, Better(h, top[k]) PROVE \E i \in 1..(k - 1) : top[i] = h
      <4>1. PICK i \in 1..Len(top) : top[i] = h
        BY <2>2, <3>1 DEF Holds
      <4>2. i # k /\ ~(k < i)
        BY <1>1, <3>1, <4>1, BetterOrders DEF TopOf
      <4> QED BY <1>1, <4>1, <4>2
    <3>2. ASSUME NEW i \in 1..(k - 1) PROVE top[i] \in H /\ Better(top[i], top[k])
      BY <1>1 DEF TopOf
    <3> QED BY <3>1, <3>2 DEF Ahead
  <2>4. k - 1 \in 0..Len(top)
    BY <1>1
  <2> QED BY <1>3, <2>3, <2>4
<1> QED BY <1>1, <1>6, <1>7

\* What InsertAt makes of a sequence.
LEMMA Inserted ==
    ASSUME NEW H, NEW top \in Seq(H), NEW h \in H, NEW c \in 0..Len(top),
           NEW all, all = InsertAt(top, 1 + c, h)
    PROVE  /\ all \in Seq(H) /\ Len(all) = Len(top) + 1
           /\ \A i \in 1..c : all[i] = top[i]
           /\ all[c + 1] = h
           /\ \A i \in (c + 2)..(Len(top) + 1) : all[i] = top[i - 1]
<1> DEFINE p == SubSeq(top, 1, c)
<1> DEFINE r == SubSeq(top, c + 1, Len(top))
<1>1. Len(top) \in Nat /\ c \in Nat /\ (1 + c) - 1 = c /\ 1 + c = c + 1
  OBVIOUS
<1>2. p \in Seq(H) /\ Len(p) = c /\ \A i \in 1..c : p[i] = top[i]
  BY <1>1
<1>3. r \in Seq(H) /\ Len(r) = Len(top) - c /\ \A i \in 1..(Len(top) - c) : r[i] = top[c + i]
  BY <1>1
<1> HIDE DEF p, r
<1> DEFINE q == p \o <<h>>
<1>4. q \in Seq(H) /\ Len(q) = c + 1 /\ q[c + 1] = h /\ \A i \in 1..c : q[i] = top[i]
  BY <1>1, <1>2
<1> HIDE DEF q
<1>5. all = q \o r
  BY <1>1 DEF InsertAt, q, p, r
<1>6. all \in Seq(H)
  BY <1>3, <1>4, <1>5, ConcatProperties
<1>7. Len(all) = Len(top) + 1
  <2>1. Len(q \o r) = Len(q) + Len(r)
    BY <1>3, <1>4, ConcatProperties
  <2>2. Len(all) = Len(q) + Len(r) /\ Len(q) = c + 1 /\ Len(r) = Len(top) - c
    BY <2>1, <1>3, <1>4, <1>5
  <2> QED BY ONLY <2>2, <1>1
<1>8. \A i \in 1..(c + 1) : all[i] = q[i]
  BY <1>1, <1>3, <1>4, <1>5
<1>9. \A i \in (c + 2)..(Len(top) + 1) : all[i] = r[i - (c + 1)]
  BY <1>1, <1>3, <1>4, <1>5
<1>10. \A i \in (c + 2)..(Len(top) + 1) : all[i] = top[i - 1]
  <2> TAKE i \in (c + 2)..(Len(top) + 1)
  <2>1. i - (c + 1) \in 1..(Len(top) - c) /\ c + (i - (c + 1)) = i - 1
    BY <1>1
  <2> QED BY <1>3, <1>9, <2>1
<1>11. \A i \in 1..c : i \in 1..(c + 1)
  BY <1>1
<1>12. c + 1 \in 1..(c + 1)
  BY <1>1
<1>13. (\A i \in 1..c : all[i] = top[i]) /\ all[c + 1] = h
  BY ONLY <1>4, <1>8, <1>11, <1>12
<1> QED BY ONLY <1>6, <1>7, <1>10, <1>13

\* A hit takes its place in the top; the one that has none left is beaten.
LEMMA OfferTops ==
    ASSUME NEW H, Ranks(H), Limit \in Nat \ {0}, NEW top, TopOf(H, Limit, top),
           NEW h \in H, ~Holds(top, h)
    PROVE  /\ TopOf(H, Limit, Offer(top, h))
           /\ \A g : Holds(Offer(top, h), g) => Holds(top, g) \/ g = h
           /\ \A g \in H : Holds(top, g) \/ g = h => Holds(Offer(top, h), g) \/ Beaten(H, Limit, g)
<1>1. top \in Seq(H) /\ Len(top) \in Nat /\ \A i \in 1..Len(top) : top[i] \in H /\ top[i] # h
  BY DEF TopOf, Holds
<1> DEFINE D == {j \in 1..Len(top) : Better(top[j], h)}
<1>2. \A i, j \in 1..Len(top) : i < j /\ j \in D => i \in D
  <2> SUFFICES ASSUME NEW i \in 1..Len(top), NEW j \in 1..Len(top), i < j, Better(top[j], h)
               PROVE  Better(top[i], h)
    OBVIOUS
  <2>1. Better(top[i], top[j])
    BY DEF TopOf
  <2> QED BY <1>1, <2>1, BetterOrders
<1> DEFINE c == Cardinality(D)
<1>3. c \in 0..Len(top) /\ D = 1..c
  BY <1>1, <1>2, PrefixOfPlaces
<1>4. \A i \in 1..c : Better(top[i], h)
  <2> HIDE DEF c
  <2> QED BY <1>3
<1>5. \A i \in (c + 1)..Len(top) : Better(h, top[i])
  <2> TAKE i \in (c + 1)..Len(top)
  <2>1. i \in 1..Len(top) /\ i \notin D
    <3> HIDE DEF c, D
    <3> QED BY <1>1, <1>3
  <2>2. ~Better(top[i], h)
    BY <2>1
  <2> QED BY <1>1, <2>1, <2>2, BetterOrders
<1> DEFINE all == InsertAt(top, 1 + c, h)
<1> DEFINE o == SubSeq(all, 1, Smaller(Limit, Len(all)))
<1>6. Offer(top, h) = o
  BY DEF Offer
<1> HIDE DEF c, D
<1>7. /\ all \in Seq(H) /\ Len(all) = Len(top) + 1
      /\ \A i \in 1..c : all[i] = top[i]
      /\ all[c + 1] = h
      /\ \A i \in (c + 2)..(Len(top) + 1) : all[i] = top[i - 1]
  <2>1. all = InsertAt(top, 1 + c, h)
    OBVIOUS
  <2> HIDE DEF all, o
  <2>2. top \in Seq(H) /\ h \in H /\ c \in 0..Len(top)
    BY <1>1, <1>3
  <2>4. \A x : x = InsertAt(top, 1 + c, h) => x \in Seq(H)
    BY <2>2, Inserted
  <2>5. \A x : x = InsertAt(top, 1 + c, h) => Len(x) = Len(top) + 1
    BY <2>2, Inserted
  <2>6. \A x : x = InsertAt(top, 1 + c, h) => x[c + 1] = h
    BY <2>2, Inserted
  <2>7. \A x : x = InsertAt(top, 1 + c, h) => \A i \in 1..c : x[i] = top[i]
    BY <2>2, Inserted
  <2>8. \A x : x = InsertAt(top, 1 + c, h) => \A i \in (c + 2)..(Len(top) + 1) : x[i] = top[i - 1]
    BY <2>2, Inserted
  <2> QED BY <2>1, <2>4, <2>5, <2>6, <2>7, <2>8
<1> HIDE DEF all
<1>8. \A i, j \in 1..Len(all) : i < j => Better(all[i], all[j])
  <2> SUFFICES ASSUME NEW i \in 1..Len(all), NEW j \in 1..Len(all), i < j PROVE Better(all[i], all[j])
    OBVIOUS
  <2>0. c \in Nat /\ c <= Len(top) /\ \A x, y \in 1..Len(top) : x < y => Better(top[x], top[y])
    BY <1>3 DEF TopOf
  <2>1. CASE j <= c
    <3>1. i \in 1..c /\ j \in 1..c /\ i \in 1..Len(top) /\ j \in 1..Len(top)
      BY <1>1, <1>7, <2>0, <2>1
    <3> QED BY <1>7, <2>0, <3>1
  <2>2. CASE j = c + 1
    <3>1. i \in 1..c
      BY <1>1, <1>7, <2>0, <2>2
    <3> QED BY <1>4, <1>7, <2>2, <3>1
  <2>3. CASE j > c + 1
    <3>1. j \in (c + 2)..(Len(top) + 1) /\ j - 1 \in 1..Len(top) /\ j - 1 \in (c + 1)..Len(top)
      BY <1>1, <1>7, <2>0, <2>3
    <3>2. all[j] = top[j - 1]
      BY <1>7, <3>1
    <3>3. CASE i <= c
      <4>1. i \in 1..c /\ i \in 1..Len(top) /\ i < j - 1
        BY <1>1, <1>7, <2>0, <2>3, <3>3
      <4> QED BY <1>7, <2>0, <3>1, <3>2, <4>1
    <3>4. CASE i = c + 1
      BY <1>5, <1>7, <3>1, <3>2, <3>4
    <3>5. CASE i > c + 1
      <4>1. i \in (c + 2)..(Len(top) + 1) /\ i - 1 \in 1..Len(top) /\ i - 1 < j - 1
        BY <1>1, <1>7, <2>0, <3>5
      <4> QED BY <1>7, <2>0, <3>1, <3>2, <4>1
    <3> QED BY <1>1, <1>7, <2>0, <3>3, <3>4, <3>5
  <2> QED BY <1>1, <1>7, <2>0, <2>1, <2>2, <2>3
<1>9. \A g : Holds(all, g) <=> Holds(top, g) \/ g = h
  <2>0. c \in Nat /\ c <= Len(top)
    BY <1>3
  <2>1. ASSUME NEW i \in 1..Len(all) PROVE Holds(top, all[i]) \/ all[i] = h
    <3>1. CASE i \in 1..c
      BY <1>1, <1>7, <2>0, <3>1 DEF Holds
    <3>2. CASE i = c + 1
      BY <1>7, <3>2
    <3>3. CASE i \in (c + 2)..(Len(top) + 1)
      <4>1. i - 1 \in 1..Len(top) /\ all[i] = top[i - 1]
        BY <1>1, <1>7, <2>0, <3>3
      <4> QED BY <4>1 DEF Holds
    <3> QED BY <1>1, <1>7, <2>0, <3>1, <3>2, <3>3
  <2>2. ASSUME NEW i \in 1..Len(top) PROVE Holds(all, top[i])
    <3>1. CASE i \in 1..c
      BY <1>1, <1>7, <2>0, <3>1 DEF Holds
    <3>2. CASE i \in (c + 1)..Len(top)
      <4>1. i + 1 \in (c + 2)..(Len(top) + 1) /\ (i + 1) - 1 = i /\ i + 1 \in 1..Len(all)
        BY <1>1, <1>7, <2>0, <3>2
      <4>2. all[i + 1] = top[i]
        BY <1>7, <4>1
      <4> QED BY <4>1, <4>2 DEF Holds
    <3> QED BY <1>1, <2>0, <3>1, <3>2
  <2>3. Holds(all, h)
    <3>1. c + 1 \in 1..Len(all)
      BY <1>1, <1>7, <2>0
    <3> QED BY <1>7, <3>1 DEF Holds
  <2> QED BY <2>1, <2>2, <2>3 DEF Holds
<1> DEFINE m == Smaller(Limit, Len(all))
<1>10. m \in Nat /\ m <= Limit /\ m <= Len(all) /\ (m < Len(all) => m = Limit /\ Len(all) = Limit + 1)
  <2>1. Len(all) \in Nat /\ Len(all) <= Limit + 1
    BY <1>1, <1>7 DEF TopOf
  <2> QED BY <2>1 DEF Smaller
<1>11. o \in Seq(H) /\ Len(o) = m /\ \A i \in 1..m : o[i] = all[i]
  <2> HIDE DEF m
  <2>1. o = SubSeq(all, 1, m)
    BY DEF m
  <2>2. \A i \in 1..Len(all) : all[i] \in H
    BY <1>7
  <2> HIDE DEF o
  <2> QED BY <1>7, <1>10, <2>1, <2>2
<1> HIDE DEF o, m
<1>12. TopOf(H, Limit, o)
  <2>1. \A i, j \in 1..Len(o) : i < j => Better(o[i], o[j])
    <3> SUFFICES ASSUME NEW i \in 1..Len(o), NEW j \in 1..Len(o), i < j PROVE Better(o[i], o[j])
      OBVIOUS
    <3>1. i \in 1..Len(all) /\ j \in 1..Len(all) /\ o[i] = all[i] /\ o[j] = all[j]
      BY <1>7, <1>10, <1>11
    <3> QED BY <1>8, <3>1
  <2> QED BY <1>10, <1>11, <2>1 DEF TopOf
<1>13. \A g : Holds(o, g) => Holds(all, g)
  <2> SUFFICES ASSUME NEW i \in 1..Len(o) PROVE Holds(all, o[i])
    BY DEF Holds
  <2>1. i \in 1..Len(all) /\ o[i] = all[i]
    BY <1>7, <1>10, <1>11
  <2> QED BY <2>1 DEF Holds
<1>14. ASSUME NEW g \in H, Holds(all, g) PROVE Holds(o, g) \/ Beaten(H, Limit, g)
  <2>1. PICK i \in 1..Len(all) : all[i] = g
    BY <1>14 DEF Holds
  <2>2. CASE i \in 1..m
    BY <1>11, <2>1, <2>2 DEF Holds
  <2>3. CASE i > m
    <3>1. i = Limit + 1 /\ m = Limit /\ Len(all) = Limit + 1
      BY <1>7, <1>10, <2>1, <2>3
    <3> DEFINE S == {all[k] : k \in 1..Limit}
    <3>2. TopOf(H, Limit + 1, all)
      BY <1>7, <1>8, <3>1 DEF TopOf
    <3>3. S \in SUBSET H /\ Cardinality(S) = Limit
      <4>1. Limit \in 0..Len(all) /\ Limit + 1 \in Nat
        BY <3>1
      <4>2. \A k \in 0..Len(all) : {all[x] : x \in 1..k} \in SUBSET H /\ Cardinality({all[x] : x \in 1..k}) = k
        BY <3>2, <4>1, TopCounts
      <4> QED BY <4>1, <4>2
    <3>4. \A k \in 1..Limit : Better(all[k], g)
      BY <1>8, <2>1, <3>1
    <3>5. S \in SUBSET Ahead(H, g)
      BY <3>3, <3>4 DEF Ahead
    <3> HIDE DEF S
    <3>6. IsFiniteSet(Ahead(H, g))
      <4>1. Ahead(H, g) \in SUBSET H /\ IsFiniteSet(H)
        BY DEF Ahead, Ranks
      <4> QED BY <4>1, CountUpTo
    <3>7. Cardinality(S) <= Cardinality(Ahead(H, g)) /\ Cardinality(Ahead(H, g)) \in Nat
      BY <3>5, <3>6, CountUpTo
    <3> QED BY <3>3, <3>7 DEF Beaten
  <2> QED BY <1>7, <1>10, <2>1, <2>2, <2>3
<1> QED BY <1>6, <1>9, <1>12, <1>13, <1>14

-----------------------------------------------------------------------------
(* The names, as functions of the slots and of the setup, so that they can  *)
(* be spoken of before and after a step.                                    *)

MatchIn(sl, q, i) == sl[i].live /\ sl[i].base # NoBase /\ sl[i].of[q].match
HitIn(sl, q, i) ==
    [entry |-> sl[i].entry, score |-> sl[i].base + sl[i].of[q].part + sl[i].of[q].bonus]
MatchingIn(sl, q) == {i \in DOMAIN sl : MatchIn(sl, q, i)}
HitsIn(sl, q) == {HitIn(sl, q, i) : i \in MatchingIn(sl, q)}
BeatenIn(sl, su, q, i) == Beaten(HitsIn(sl, q), su.limit, HitIn(sl, q, i))
BoundingIn(sl, su, q, th) == Bounding(HitsIn(sl, q), su.limit, th)

NamesFit(sl, su) ==
    /\ su \in Setups
    /\ DOMAIN sl = 0..(su.size - 1)
    /\ \A i \in DOMAIN sl :
          /\ sl[i].live \in BOOLEAN /\ sl[i].entry \in Int /\ sl[i].base \in NoBase..32767
          /\ \A q \in Queries : sl[i].of[q] \in Standings /\ (sl[i].of[q].match => sl[i].of[q].anchor)
          /\ \A p \in Extends : sl[i].of[p[1]].match => sl[i].of[p[2]].match
    /\ \A i, j \in DOMAIN sl : sl[i].entry = sl[j].entry => i = j
    /\ \A i, j \in 0..(su.ranked - 1) : i < j => sl[i].base >= sl[j].base

LEMMA SetupFits ==
    ASSUME NEW su \in Setups
    PROVE  /\ su.size \in Nat \ {0} /\ su.ranked \in 0..su.size
           /\ su.limit \in Nat \ {0} /\ su.probe \in Nat \ {0} /\ su.chunk \in Nat \ {0}
           /\ su.near \in Nat \ {0} /\ su.workers \in Nat \ {0}
           /\ su.fanOutMin \in Nat /\ su.recordCap \in Nat
           /\ su.ranked \in Nat /\ su.ranked <= su.size
  BY ScanAssumption DEF ScanAssumption

LEMMA SlotFits ==
    ASSUME NEW sl, NEW su, NamesFit(sl, su), NEW q \in Queries, NEW i \in DOMAIN sl
    PROVE  /\ i \in Nat /\ i < su.size
           /\ sl[i].base \in Int /\ sl[i].base >= NoBase /\ sl[i].entry \in Int
           /\ sl[i].of[q].part \in 0..Ceiling /\ sl[i].of[q].bonus \in 0..Bonus
           /\ sl[i].of[q].room \in 0..Bonus /\ sl[i].of[q].bonus <= sl[i].of[q].room
           /\ MatchIn(sl, q, i) => sl[i].of[q].anchor
           /\ HitIn(sl, q, i) \in [entry : Int, score : Int]
           /\ HitIn(sl, q, i).score \in Int
<1>1. sl[i].of[q] \in Standings /\ sl[i].base \in NoBase..32767 /\ sl[i].entry \in Int
      /\ (sl[i].of[q].match => sl[i].of[q].anchor) /\ i \in 0..(su.size - 1)
  BY DEF NamesFit
<1>2. su.size \in Nat /\ Ceiling \in Nat /\ Bonus \in Nat
  BY SetupFits, ScanAssumption DEF ScanAssumption, NamesFit
<1>3. /\ sl[i].of[q].part \in 0..Ceiling /\ sl[i].of[q].bonus \in 0..Bonus
      /\ sl[i].of[q].room \in 0..Bonus /\ sl[i].of[q].bonus <= sl[i].of[q].room
  BY <1>1 DEF Standings
<1>4. sl[i].of[q].part \in Int /\ sl[i].of[q].bonus \in Int
  BY <1>2, <1>3
<1>a. sl[i].base \in Int /\ sl[i].base >= NoBase
  <2>1. NoBase \in Int
    BY DEF NoBase
  <2>2. sl[i].base \in NoBase..32767
    BY <1>1
  <2> QED BY <2>1, <2>2
<1>5. HitIn(sl, q, i) \in [entry : Int, score : Int] /\ HitIn(sl, q, i).score \in Int
  BY <1>1, <1>4, <1>a DEF HitIn
<1>6. i \in Nat /\ i < su.size
  BY <1>1, <1>2
<1> QED BY <1>1, <1>3, <1>a, <1>5, <1>6 DEF MatchIn

\* No two names have the same hit, so the hits of a query can be ranked and counted.
LEMMA NamesRank ==
    ASSUME NEW sl, NEW su, NamesFit(sl, su), NEW q \in Queries
    PROVE  /\ Ranks(HitsIn(sl, q))
           /\ \A i, j \in DOMAIN sl : HitIn(sl, q, i) = HitIn(sl, q, j) => i = j
           /\ IsFiniteSet(DOMAIN sl) /\ IsFiniteSet(MatchingIn(sl, q))
           /\ Cardinality(HitsIn(sl, q)) = Cardinality(MatchingIn(sl, q))
<1>1. su.size \in Nat /\ DOMAIN sl = 0..(su.size - 1)
  BY SetupFits DEF NamesFit
<1>2. IsFiniteSet(DOMAIN sl)
  BY <1>1, FS_Interval
<1>3. MatchingIn(sl, q) \in SUBSET DOMAIN sl
  BY DEF MatchingIn
<1>4. IsFiniteSet(MatchingIn(sl, q))
  BY <1>2, <1>3, CountUpTo
<1>5. \A i, j \in DOMAIN sl : HitIn(sl, q, i) = HitIn(sl, q, j) => i = j
  <2> TAKE i, j \in DOMAIN sl
  <2>1. sl[i].entry = sl[j].entry => i = j
    BY DEF NamesFit
  <2> QED BY <2>1 DEF HitIn
<1> DEFINE f == [i \in MatchingIn(sl, q) |-> HitIn(sl, q, i)]
<1>6. f \in Bijection(MatchingIn(sl, q), HitsIn(sl, q))
  <2>1. f \in [MatchingIn(sl, q) -> HitsIn(sl, q)]
    BY DEF HitsIn
  <2>2. \A i, j \in MatchingIn(sl, q) : f[i] = f[j] => i = j
    BY <1>3, <1>5
  <2>3. \A h \in HitsIn(sl, q) : \E i \in MatchingIn(sl, q) : f[i] = h
    BY DEF HitsIn
  <2> HIDE DEF f
  <2> QED BY <2>1, <2>2, <2>3 DEF Bijection, Injection, Surjection, IsInjective
<1>7. ExistsBijection(MatchingIn(sl, q), HitsIn(sl, q))
  BY <1>6 DEF ExistsBijection
<1>8. IsFiniteSet(HitsIn(sl, q)) /\ Cardinality(HitsIn(sl, q)) = Cardinality(MatchingIn(sl, q))
  BY <1>4, <1>7, FS_Bijection
<1>9. \A h \in HitsIn(sl, q) : \E i \in DOMAIN sl : h = HitIn(sl, q, i)
  BY <1>3 DEF HitsIn
<1>10. \A h \in HitsIn(sl, q) : h.entry \in Int /\ h.score \in Int
  BY <1>9, SlotFits
<1>11. \A g, h \in HitsIn(sl, q) : g.entry = h.entry => g = h
  <2> TAKE g, h \in HitsIn(sl, q)
  <2>1. PICK i \in DOMAIN sl : g = HitIn(sl, q, i)
    BY <1>9
  <2>2. PICK j \in DOMAIN sl : h = HitIn(sl, q, j)
    BY <1>9
  <2>3. sl[i].entry = sl[j].entry => i = j
    BY DEF NamesFit
  <2> QED BY <2>1, <2>2, <2>3 DEF HitIn
<1> QED BY <1>2, <1>4, <1>5, <1>8, <1>10, <1>11 DEF Ranks

\* Why a name may be passed over: its best score is below a bounding threshold.
LEMMA PassedIsBeaten ==
    ASSUME NEW sl, NEW su, NamesFit(sl, su), NEW q \in Queries, NEW i \in DOMAIN sl, MatchIn(sl, q, i),
           NEW th, BoundingIn(sl, su, q, th),
           \/ Ceiling + sl[i].of[q].room + sl[i].base < th
           \/ sl[i].of[q].bonus = 0 /\ Ceiling + sl[i].base < th
           \/ Ceiling + Bonus + sl[i].base < th
    PROVE  BeatenIn(sl, su, q, i)
<1>1. HitIn(sl, q, i) \in HitsIn(sl, q)
  BY DEF HitsIn, MatchingIn
<1>2. HitIn(sl, q, i).score = sl[i].base + sl[i].of[q].part + sl[i].of[q].bonus
  BY DEF HitIn
<1>3. th \in Int /\ Ceiling \in Nat /\ Bonus \in Nat
  BY ScanAssumption DEF ScanAssumption, BoundingIn, Bounding
<1>4. HitIn(sl, q, i).score < th /\ th # Least
  <2>1. sl[i].base >= -32768 /\ Least = -1000000
    BY SlotFits DEF NoBase, Least
  <2> QED BY <1>2, <1>3, <2>1, SlotFits
<1>5. su.limit \in Nat
  BY SetupFits DEF NamesFit
<1> QED BY <1>1, <1>4, <1>5, NamesRank, BelowIsBeaten DEF BeatenIn, BoundingIn

-----------------------------------------------------------------------------
(* What a scan has done: its top and its list, against the slots it has     *)
(* examined.                                                                *)

Accounted(sl, su, q, top, i) == MatchIn(sl, q, i) => Holds(top, HitIn(sl, q, i)) \/ BeatenIn(sl, su, q, i)

\* The top is of the slots in D, and what it does not hold of them is beaten.
TopFits(sl, su, q, top, D) ==
    /\ TopOf(HitsIn(sl, q), su.limit, top)
    /\ \A h : Holds(top, h) => \E i \in D : MatchIn(sl, q, i) /\ h = HitIn(sl, q, i)
    /\ \A i \in D : Accounted(sl, su, q, top, i)

\* The list has matches of S, each once, and the counter counts them all.
MatchesOf(sl, q, S) == {i \in S : MatchIn(sl, q, i)}
ListFits(sl, q, m, S) ==
    /\ m \in Seq(DOMAIN sl)
    /\ \A k \in 1..Len(m) : m[k] \in MatchesOf(sl, q, S)
    /\ \A k, l \in 1..Len(m) : m[k] = m[l] => k = l

LEMMA TopStays ==
    ASSUME NEW sl, NEW su, NEW q, NEW top, NEW D, TopFits(sl, su, q, top, D),
           NEW E, \A i \in E : MatchIn(sl, q, i) => BeatenIn(sl, su, q, i)
    PROVE  TopFits(sl, su, q, top, D \cup E)
  BY DEF TopFits, Accounted

LEMMA TopGrows ==
    ASSUME NEW D, NamesFit(slots, setup), NEW q \in Queries, NEW top, TopFits(slots, setup, q, top, D),
           NEW i \in DOMAIN slots, D \subseteq DOMAIN slots, i \notin D, MatchIn(slots, q, i)
    PROVE  TopFits(slots, setup, q, Offer(top, HitOf(q, i)), D \cup {i})
<1> DEFINE H == HitsIn(slots, q)
<1> DEFINE h == HitIn(slots, q, i)
<1> DEFINE o == Offer(top, HitOf(q, i))
<1>1. HitOf(q, i) = h
  BY DEF HitOf, HitIn, Of
<1>2. h \in H
  BY DEF HitsIn, MatchingIn
<1>3. Ranks(H) /\ \A k, j \in DOMAIN slots : HitIn(slots, q, k) = HitIn(slots, q, j) => k = j
  BY NamesRank
<1>4. ~Holds(top, h)
  <2> SUFFICES ASSUME Holds(top, h) PROVE FALSE
    OBVIOUS
  <2>1. PICK j \in D : h = HitIn(slots, q, j)
    BY DEF TopFits
  <2> QED BY <1>3, <2>1
<1>5. Limit \in Nat \ {0} /\ Limit = setup.limit
  BY SetupFits DEF NamesFit, Limit
<1>6. TopOf(H, Limit, top)
  BY <1>5 DEF TopFits
<1> HIDE DEF H, h
<1>7. /\ TopOf(H, Limit, o)
      /\ \A g : Holds(o, g) => Holds(top, g) \/ g = h
      /\ \A g \in H : Holds(top, g) \/ g = h => Holds(o, g) \/ Beaten(H, Limit, g)
  BY <1>1, <1>2, <1>3, <1>4, <1>5, <1>6, OfferTops
<1> HIDE DEF o
<1>8. \A g : Holds(o, g) => \E k \in D \cup {i} : MatchIn(slots, q, k) /\ g = HitIn(slots, q, k)
  <2> SUFFICES ASSUME NEW g, Holds(o, g) PROVE \E k \in D \cup {i} : MatchIn(slots, q, k) /\ g = HitIn(slots, q, k)
    OBVIOUS
  <2>1. CASE g = h
    BY <2>1 DEF h
  <2>2. CASE Holds(top, g)
    BY <2>2 DEF TopFits
  <2> QED BY <1>7, <2>1, <2>2
<1>9. \A k \in D \cup {i} : Accounted(slots, setup, q, o, k)
  <2> SUFFICES ASSUME NEW k \in D \cup {i}, MatchIn(slots, q, k)
               PROVE  Holds(o, HitIn(slots, q, k)) \/ BeatenIn(slots, setup, q, k)
    BY DEF Accounted
  <2> DEFINE g == HitIn(slots, q, k)
  <2>1. g \in H
    BY DEF H, HitsIn, MatchingIn
  <2>2. Holds(top, g) \/ g = h \/ BeatenIn(slots, setup, q, k)
    BY DEF TopFits, Accounted, h
  <2>3. BeatenIn(slots, setup, q, k) <=> Beaten(H, Limit, g)
    BY <1>5 DEF BeatenIn, H
  <2> HIDE DEF g
  <2>4. Holds(o, g) \/ BeatenIn(slots, setup, q, k)
    BY <1>7, <2>1, <2>2, <2>3
  <2> QED BY <2>4 DEF g
<1> QED BY <1>5, <1>7, <1>8, <1>9 DEF TopFits, H, o

LEMMA ListStays ==
    ASSUME NEW sl, NEW q, NEW m, NEW S, ListFits(sl, q, m, S), NEW i, ~MatchIn(sl, q, i)
    PROVE  /\ ListFits(sl, q, m, S \cup {i})
           /\ MatchesOf(sl, q, S \cup {i}) = MatchesOf(sl, q, S)
  BY DEF ListFits, MatchesOf

LEMMA ListGrows ==
    ASSUME NEW sl, NEW q, NEW m, NEW S \in SUBSET DOMAIN sl, ListFits(sl, q, m, S),
           IsFiniteSet(DOMAIN sl), NEW i \in DOMAIN sl, i \notin S, MatchIn(sl, q, i)
    PROVE  /\ ListFits(sl, q, m, S \cup {i})
           /\ ListFits(sl, q, Append(m, i), S \cup {i})
           /\ Cardinality(MatchesOf(sl, q, S \cup {i})) = Cardinality(MatchesOf(sl, q, S)) + 1
<1>1. m \in Seq(DOMAIN sl) /\ Len(m) \in Nat
      /\ \A k \in 1..Len(m) : m[k] \in S /\ MatchIn(sl, q, m[k])
  BY DEF ListFits, MatchesOf
<1>2. ListFits(sl, q, m, S \cup {i})
  BY DEF ListFits, MatchesOf
<1> DEFINE a == Append(m, i)
<1>3. a \in Seq(DOMAIN sl) /\ Len(a) = Len(m) + 1 /\ a[Len(m) + 1] = i /\ \A k \in 1..Len(m) : a[k] = m[k]
  BY <1>1
<1> HIDE DEF a
<1>4. \A k \in 1..Len(a) : a[k] \in MatchesOf(sl, q, S \cup {i})
  <2> TAKE k \in 1..Len(a)
  <2>1. k \in 1..Len(m) \/ k = Len(m) + 1
    BY <1>1, <1>3
  <2> QED BY <1>1, <1>3, <2>1 DEF MatchesOf
<1>5. \A k, l \in 1..Len(a) : a[k] = a[l] => k = l
  <2> SUFFICES ASSUME NEW k \in 1..Len(a), NEW l \in 1..Len(a), a[k] = a[l] PROVE k = l
    OBVIOUS
  <2>1. (k \in 1..Len(m) \/ k = Len(m) + 1) /\ (l \in 1..Len(m) \/ l = Len(m) + 1)
    BY <1>1, <1>3
  <2>2. k \in 1..Len(m) /\ l \in 1..Len(m) => m[k] = m[l]
    BY <1>3
  <2> QED BY <1>1, <1>3, <2>1, <2>2 DEF ListFits
<1>6. ListFits(sl, q, a, S \cup {i})
  BY <1>3, <1>4, <1>5 DEF ListFits
<1>7. MatchesOf(sl, q, S \cup {i}) = MatchesOf(sl, q, S) \cup {i} /\ i \notin MatchesOf(sl, q, S)
  BY DEF MatchesOf
<1>8. IsFiniteSet(MatchesOf(sl, q, S))
  <2>1. MatchesOf(sl, q, S) \in SUBSET DOMAIN sl
    BY DEF MatchesOf
  <2> QED BY <2>1, CountUpTo
<1> QED BY <1>2, <1>6, <1>7, <1>8, FS_AddElement DEF a

-----------------------------------------------------------------------------
(* One scan. T: the slots given to it, S: those it has listed from.          *)

ScanSet(sl, su) ==
    [at : Nat, end : Nat, phase : {"done", "chunk", "scan", "bonus", "ended"}, sorted : BOOLEAN,
     stop : Nat, matches : Seq(DOMAIN sl), count : Nat, top : Seq([entry : Int, score : Int]),
     cut : BOOLEAN, cutAt : 0..su.ranked, resumable : BOOLEAN, dirty : BOOLEAN]

Pending(r) == IF r.phase \in {"scan", "bonus"} THEN r.at..(r.end - 1) ELSE {}

\* The list lacks nothing before the first cut, and after it only names with a
\* bonus are not beaten.
CutFits(sl, su, q, r, T, S) ==
    /\ \A i \in T \ Pending(r) : i < r.cutAt \/ i >= su.ranked => i \in S
    /\ ~r.cut => r.cutAt = su.ranked /\ r.phase # "bonus" /\ r.resumable
    /\ r.cut => \A i \in r.cutAt..(su.ranked - 1) :
                   MatchIn(sl, q, i) /\ sl[i].of[q].bonus = 0 => BeatenIn(sl, su, q, i)
    /\ r.phase = "bonus" =>
          /\ r.cutAt <= r.at /\ r.at <= r.end /\ r.end <= su.ranked /\ r.stop <= r.end
          /\ \A i \in r.stop..(r.end - 1) : MatchIn(sl, q, i) => BeatenIn(sl, su, q, i)
    /\ r.phase = "scan" => r.at < r.end /\ (r.sorted => r.end <= su.ranked)

Fits(sl, su, q, r, T, S) ==
    /\ r \in ScanSet(sl, su)
    /\ T \in SUBSET DOMAIN sl /\ Pending(r) \subseteq T /\ S \subseteq T \ Pending(r)
    /\ TopFits(sl, su, q, r.top, T \ Pending(r))
    /\ ListFits(sl, q, r.matches, S)
    /\ r.resumable => r.count = Cardinality(MatchesOf(sl, q, S))
    /\ CutFits(sl, su, q, r, T, S)

\* The list of the calling thread has nothing past its cut.
Neat(su, r, S) ==
    /\ \A i \in S : i < r.cutAt \/ i >= su.ranked
    /\ r.cut => r.cutAt <= r.end
    /\ r.phase = "scan" /\ r.sorted => ~r.cut /\ \A i \in S : i < r.at \/ i >= su.ranked
    /\ r.phase = "scan" /\ ~r.sorted => r.at >= su.ranked

\* A scan goes past a slot that its top and its list y account for.
LEMMA PastFits ==
    ASSUME NEW sl, NEW su, NamesFit(sl, su), NEW q \in Queries, NEW r, NEW T, NEW S, Fits(sl, su, q, r, T, S),
           r.phase \in {"scan", "bonus"}, r.at < r.end,
           NEW y \in ScanSet(sl, su),
           y.at = r.at, y.end = r.end, y.phase = r.phase, y.sorted = r.sorted, y.cut = r.cut,
           y.cutAt = r.cutAt, y.resumable = r.resumable,
           TopFits(sl, su, q, y.top, (T \ Pending(r)) \cup {r.at}),
           NEW U, U = IF r.phase = "scan" THEN S \cup {r.at} ELSE S,
           ListFits(sl, q, y.matches, U),
           y.resumable => y.count = Cardinality(MatchesOf(sl, q, U)),
           r.phase = "bonus" =>
               y.stop <= y.end /\ \A i \in y.stop..(y.end - 1) : MatchIn(sl, q, i) => BeatenIn(sl, su, q, i)
    PROVE  /\ Fits(sl, su, q, Past(y), T, U)
           /\ Neat(su, r, S) => Neat(su, Past(y), U)
<1> DEFINE z == Past(y)
<1> DEFINE over == y.at + 1 >= (IF y.phase = "scan" THEN y.end ELSE y.stop)
<1>1. /\ z \in ScanSet(sl, su)
      /\ z.at = r.at + 1 /\ z.end = r.end /\ z.sorted = r.sorted /\ z.stop = y.stop
      /\ z.matches = y.matches /\ z.count = y.count /\ z.top = y.top /\ z.cut = r.cut /\ z.cutAt = r.cutAt
      /\ z.resumable = r.resumable
      /\ z.phase = IF over THEN "done" ELSE r.phase
  <2> DEFINE ph == IF over THEN "done" ELSE y.phase
  <2>1. y.at + 1 \in Nat /\ ph \in {"done", "chunk", "scan", "bonus", "ended"}
    BY DEF ScanSet
  <2>2. z = [y EXCEPT !.at = y.at + 1, !.phase = ph]
    BY DEF Past
  <2> HIDE DEF over, z, ph
  <2>3. z \in ScanSet(sl, su)
    BY <2>1, <2>2 DEF ScanSet
  <2>4. /\ z.at = y.at + 1 /\ z.end = y.end /\ z.sorted = y.sorted /\ z.stop = y.stop
        /\ z.matches = y.matches /\ z.count = y.count /\ z.top = y.top /\ z.cut = y.cut /\ z.cutAt = y.cutAt
        /\ z.resumable = y.resumable
        /\ z.phase = ph
    BY <2>2 DEF ScanSet
  <2> QED BY <2>3, <2>4 DEF ph
<1> HIDE DEF z
<1>2. /\ r.at \in Nat /\ r.end \in Nat /\ y.stop \in Nat /\ r.cutAt \in Nat /\ su.ranked \in Nat
      /\ r.cut \in BOOLEAN /\ r.sorted \in BOOLEAN
  BY SetupFits DEF Fits, ScanSet, NamesFit
<1>3. Pending(r) = r.at..(r.end - 1) /\ Pending(r) \subseteq T /\ S \subseteq T \ Pending(r) /\ T \in SUBSET DOMAIN sl
  BY DEF Pending, Fits
<1>4. r.at \in Pending(r) /\ r.at \in T
  BY <1>2, <1>3
<1> DEFINE E == IF over /\ r.phase = "bonus" THEN (r.at + 1)..(r.end - 1) ELSE {}
<1>5. T \ Pending(z) = (T \ Pending(r)) \cup {r.at} \cup E
  <2>1. CASE ~over
    <3>1. Pending(z) = (r.at + 1)..(r.end - 1)
      BY <1>1, <2>1 DEF Pending
    <3>2. E = {}
      BY <2>1
    <3> HIDE DEF E, over
    <3> QED BY <1>2, <1>3, <1>4, <3>1, <3>2
  <2>2. CASE over /\ r.phase = "bonus"
    <3>1. Pending(z) = {}
      BY <1>1, <2>2 DEF Pending
    <3>2. E = (r.at + 1)..(r.end - 1)
      BY <2>2
    <3> HIDE DEF E, over
    <3> QED BY <1>2, <1>3, <1>4, <3>1, <3>2
  <2>3. CASE over /\ r.phase = "scan"
    <3>1. Pending(z) = {} /\ r.at + 1 >= r.end
      BY <1>1, <2>3 DEF Pending
    <3>2. E = {}
      BY <2>3
    <3> HIDE DEF E, over
    <3> QED BY <1>2, <1>3, <1>4, <3>1, <3>2
  <2> QED BY <2>1, <2>2, <2>3
<1>6. Pending(z) \subseteq Pending(r) \ {r.at}
  BY <1>1, <1>2, <1>3 DEF Pending
<1>7. TopFits(sl, su, q, z.top, T \ Pending(z))
  <2>1. \A i \in E : MatchIn(sl, q, i) => BeatenIn(sl, su, q, i)
    <3> SUFFICES ASSUME NEW i \in E, MatchIn(sl, q, i) PROVE BeatenIn(sl, su, q, i)
      OBVIOUS
    <3>1. r.phase = "bonus" /\ i \in y.stop..(y.end - 1)
      BY <1>2
    <3> QED BY <3>1
  <2> HIDE DEF E
  <2> QED BY <1>1, <1>5, <2>1, TopStays
<1>8. U \subseteq T \ Pending(z)
  BY <1>3, <1>4, <1>6
<1>9. CutFits(sl, su, q, z, T, U)
  <2>1. ASSUME NEW i \in T \ Pending(z), i < z.cutAt \/ i >= su.ranked PROVE i \in U
    <3>1. i \in DOMAIN sl /\ i \in Nat
      BY <1>3 DEF NamesFit
    <3>2. CASE i \in T \ Pending(r)
      BY <1>1, <2>1, <3>2 DEF Fits, CutFits
    <3>3. CASE i \in Pending(r)
      <4>1. CASE r.phase = "scan"
        <5>1. E = {}
          BY <4>1
        <5> QED BY <1>3, <1>5, <2>1, <3>3, <4>1, <5>1
      <4>2. CASE r.phase = "bonus"
        <5>1. r.cutAt <= r.at /\ r.end <= su.ranked
          BY <4>2 DEF Fits, CutFits
        <5>2. FALSE
          BY <1>1, <1>2, <1>3, <2>1, <3>1, <3>3, <5>1
        <5> QED BY <5>2
      <4> QED BY <4>1, <4>2
    <3> QED BY <2>1, <3>2, <3>3
  <2>2. ~z.cut => z.cutAt = su.ranked /\ z.phase # "bonus" /\ z.resumable
    BY <1>1 DEF Fits, CutFits
  <2>3. z.cut => \A i \in z.cutAt..(su.ranked - 1) :
                    MatchIn(sl, q, i) /\ sl[i].of[q].bonus = 0 => BeatenIn(sl, su, q, i)
    BY <1>1 DEF Fits, CutFits
  <2>4. z.phase = "bonus" => /\ z.cutAt <= z.at /\ z.at <= z.end /\ z.end <= su.ranked /\ z.stop <= z.end
                             /\ \A i \in z.stop..(z.end - 1) : MatchIn(sl, q, i) => BeatenIn(sl, su, q, i)
    <3>1. z.phase = "bonus" => r.phase = "bonus" /\ r.cutAt <= r.at /\ r.end <= su.ranked
      BY <1>1 DEF Fits, CutFits
    <3> QED BY <1>1, <1>2, <3>1
  <2>5. z.phase = "scan" => z.at < z.end /\ (z.sorted => z.end <= su.ranked)
    <3>1. z.phase = "scan" => r.phase = "scan" /\ ~over /\ (r.sorted => r.end <= su.ranked)
      BY <1>1 DEF Fits, CutFits
    <3> QED BY <1>1, <1>2, <3>1
  <2> QED BY <2>1, <2>2, <2>3, <2>4, <2>5 DEF CutFits
<1>10. Fits(sl, su, q, z, T, U)
  BY <1>1, <1>3, <1>6, <1>7, <1>8, <1>9 DEF Fits
<1>11. ASSUME Neat(su, r, S) PROVE Neat(su, z, U)
  <2>1. \A i \in S : i \in Nat
    BY <1>3 DEF NamesFit
  <2>2. CASE r.phase = "scan" /\ r.sorted
    <3>1. ~r.cut /\ r.cutAt = su.ranked /\ r.end <= su.ranked /\ \A i \in S : i < r.at \/ i >= su.ranked
      BY <1>11, <2>2 DEF Neat, Fits, CutFits
    <3>2. U = S \cup {r.at} /\ r.at < su.ranked
      BY <1>2, <2>2, <3>1
    <3> QED BY <1>1, <1>2, <2>1, <2>2, <3>1, <3>2 DEF Neat
  <2>3. CASE r.phase = "scan" /\ ~r.sorted
    <3>1. U = S \cup {r.at} /\ r.at >= su.ranked
      BY <1>11, <2>3 DEF Neat
    <3> QED BY <1>1, <1>2, <1>11, <2>1, <2>3, <3>1 DEF Neat
  <2>4. CASE r.phase = "bonus"
    <3>1. U = S /\ z.phase # "scan"
      BY <1>1, <2>4
    <3> QED BY <1>1, <1>11, <3>1 DEF Neat
  <2> QED BY <1>2, <2>2, <2>3, <2>4
<1> QED BY <1>10, <1>11 DEF z

\* stopFrom: what it leaves out is beaten.
LEMMA StopFits ==
    ASSUME NamesFit(slots, setup), NEW q \in Queries, NEW from \in Nat, NEW end \in Nat,
           from <= end, end <= Ranked, NEW th, BoundingIn(slots, setup, q, th)
    PROVE  /\ StopFrom(from, end, th) \in from..end
           /\ \A i \in StopFrom(from, end, th)..(end - 1) :
                 MatchIn(slots, q, i) => BeatenIn(slots, setup, q, i)
<1> DEFINE beyond == {i \in from..(end - 1) : Ceiling + Bonus + slots[i].base < th}
<1>1. Ranked = setup.ranked /\ Ranked \in Nat /\ 0..(Ranked - 1) \subseteq DOMAIN slots /\ th \in Int
      /\ Ceiling \in Nat /\ Bonus \in Nat
  BY SetupFits, ScanAssumption DEF Ranked, NamesFit, BoundingIn, Bounding, ScanAssumption
<1>2. CASE beyond = {}
  <2>1. StopFrom(from, end, th) = end
    BY <1>2 DEF StopFrom
  <2> QED BY <2>1
<1>3. CASE beyond # {}
  <2> DEFINE s == Min(beyond)
  <2>1. StopFrom(from, end, th) = s
    BY <1>3 DEF StopFrom
  <2>2. beyond \in SUBSET Nat
    OBVIOUS
  <2>3. \E m \in beyond : \A n \in beyond : m <= n
    <3> HIDE DEF beyond
    <3> QED BY <1>3, <2>2, LeastNatural
  <2>4. s \in beyond
    <3> HIDE DEF beyond
    <3> QED BY <2>3 DEF Min
  <2> HIDE DEF s
  <2>5. ASSUME NEW i \in s..(end - 1), MatchIn(slots, q, i) PROVE BeatenIn(slots, setup, q, i)
    <3>1. s \in from..(end - 1) /\ Ceiling + Bonus + slots[s].base < th
      BY <2>4
    <3>2. i \in DOMAIN slots /\ s \in DOMAIN slots /\ i \in 0..(setup.ranked - 1) /\ s \in 0..(setup.ranked - 1)
      BY <1>1, <3>1
    <3>3. i = s \/ s < i
      BY <3>1
    <3>4. slots[s].base >= slots[i].base
      <4>1. slots[s].base \in Int
        BY <3>2, SlotFits
      <4> QED BY <3>2, <3>3, <4>1 DEF NamesFit
    <3>5. Ceiling + Bonus + slots[i].base < th
      <4>1. slots[s].base \in Int /\ slots[i].base \in Int
        BY <3>2, SlotFits
      <4> QED BY <1>1, <3>1, <3>4, <4>1
    <3> QED BY <2>5, <3>2, <3>5, PassedIsBeaten
  <2> QED BY <2>1, <2>4, <2>5
<1> QED BY <1>2, <1>3

-----------------------------------------------------------------------------
(* The steps of one scan. *)

\* What a step leaves of a scan: its place and what it can still do.
SameScan(y, r) ==
    /\ y.at = r.at /\ y.end = r.end /\ y.phase = r.phase /\ y.sorted = r.sorted
    /\ y.cut = r.cut /\ y.cutAt = r.cutAt /\ y.resumable = r.resumable

LEMMA CountedFits ==
    ASSUME NEW r \in ScanSet(slots, setup), NEW i \in DOMAIN slots
    PROVE  /\ Counted(r, i) \in ScanSet(slots, setup) /\ SameScan(Counted(r, i), r)
           /\ Counted(r, i).matches \in {r.matches, Append(r.matches, i)}
           /\ Counted(r, i).count = r.count + 1
           /\ Counted(r, i).top = r.top /\ Counted(r, i).stop = r.stop
<1> DEFINE m == IF Len(r.matches) <= RecordCap THEN Append(r.matches, i) ELSE r.matches
<1>1. m \in Seq(DOMAIN slots) /\ r.count + 1 \in Nat /\ m \in {r.matches, Append(r.matches, i)}
  <2>1. r.matches \in Seq(DOMAIN slots) /\ r.count \in Nat
    BY DEF ScanSet
  <2>2. Append(r.matches, i) \in Seq(DOMAIN slots)
    BY <2>1, AppendProperties
  <2>3. m = r.matches \/ m = Append(r.matches, i)
    OBVIOUS
  <2> HIDE DEF m
  <2> QED BY <2>1, <2>2, <2>3
<1>2. Counted(r, i) = [r EXCEPT !.matches = m, !.count = r.count + 1]
  BY DEF Counted
<1> HIDE DEF m
<1> QED BY <1>1, <1>2 DEF ScanSet, SameScan

LEMMA ScoredFits ==
    ASSUME NEW r \in ScanSet(slots, setup), NEW q, NEW i,
           Offer(r.top, HitOf(q, i)) \in Seq([entry : Int, score : Int])
    PROVE  /\ Scored(r, q, i) \in ScanSet(slots, setup) /\ SameScan(Scored(r, q, i), r)
           /\ Scored(r, q, i).matches = r.matches /\ Scored(r, q, i).count = r.count
           /\ Scored(r, q, i).top = Offer(r.top, HitOf(q, i)) /\ Scored(r, q, i).stop = r.stop
<1>1. Scored(r, q, i) = [r EXCEPT !.top = Offer(r.top, HitOf(q, i)), !.dirty = TRUE]
  BY DEF Scored
<1> QED BY <1>1 DEF ScanSet, SameScan

LEMMA TopTypes ==
    ASSUME NEW sl, NEW su, NamesFit(sl, su), NEW q \in Queries, NEW top, NEW D, TopFits(sl, su, q, top, D)
    PROVE  top \in Seq([entry : Int, score : Int]) /\ Len(top) \in Nat /\ Len(top) <= su.limit
<1>1. HitsIn(sl, q) \subseteq [entry : Int, score : Int]
  <2> SUFFICES ASSUME NEW i \in MatchingIn(sl, q) PROVE HitIn(sl, q, i) \in [entry : Int, score : Int]
    BY DEF HitsIn
  <2>1. i \in DOMAIN sl
    BY DEF MatchingIn
  <2> QED BY <2>1, SlotFits
<1>2. top \in Seq(HitsIn(sl, q)) /\ Len(top) <= su.limit /\ Len(top) \in Nat
  BY DEF TopFits, TopOf
<1>3. top \in [1..Len(top) -> [entry : Int, score : Int]]
  <2>1. top \in [1..Len(top) -> HitsIn(sl, q)]
    BY <1>2, LenProperties
  <2> QED BY <1>1, <2>1
<1> DEFINE R == [entry : Int, score : Int]
<1>4. top \in UNION {[1..n -> R] : n \in Nat}
  BY <1>2, <1>3
<1> HIDE DEF R
<1>5. top \in Seq(R)
  BY <1>4, SeqDef, Zenon
<1> QED BY <1>2, <1>5 DEF R

\* The greater of two thresholds that bound the top bounds it.
LEMMA LargerBounds ==
    ASSUME NEW H, NEW n, NEW a, NEW b, Bounding(H, n, a), Bounding(H, n, b)
    PROVE  Bounding(H, n, Larger(a, b))
  BY DEF Bounding, Larger

\* The cut: no later name reaches the threshold without the whole-name bonus.
LEMMA CutIsFit ==
    ASSUME NamesFit(slots, setup), NEW q \in Queries, NEW r, NEW T, NEW S, Fits(slots, setup, q, r, T, S),
           r.phase = "scan", r.sorted, NEW th, BoundingIn(slots, setup, q, th), BelowCut(r.at, th)
    PROVE  /\ Fits(slots, setup, q, Cut(r, r.at, th), T, S)
           /\ Neat(setup, r, S) => Neat(setup, Cut(r, r.at, th), S)
           /\ Cut(r, r.at, th).phase = "bonus" /\ Cut(r, r.at, th).at = r.at
           /\ Cut(r, r.at, th).end = r.end
<1> DEFINE z == Cut(r, r.at, th)
<1> DEFINE c == Smaller(r.cutAt, r.at)
<1> DEFINE s == StopFrom(r.at, r.end, th)
<1>1. /\ r \in ScanSet(slots, setup) /\ r.at < r.end /\ r.end <= setup.ranked
      /\ r.at \in Nat /\ r.end \in Nat /\ r.cutAt \in 0..setup.ranked /\ setup.ranked \in Nat
  <2>1. r \in ScanSet(slots, setup) /\ r.at < r.end /\ r.end <= setup.ranked
    BY DEF Fits, CutFits
  <2> QED BY <2>1, SetupFits DEF NamesFit, ScanSet
<1>2. s \in r.at..r.end /\ \A i \in s..(r.end - 1) : MatchIn(slots, q, i) => BeatenIn(slots, setup, q, i)
  BY <1>1, StopFits DEF Ranked
<1>3. c \in 0..setup.ranked /\ c <= r.at /\ c <= r.cutAt /\ (c = r.at \/ c = r.cutAt)
  BY <1>1 DEF Smaller
<1>4. z = [r EXCEPT !.at = r.at, !.phase = "bonus", !.cut = TRUE, !.cutAt = c, !.stop = s]
  BY DEF Cut
<1>a. s \in Nat
  BY <1>1, <1>2
<1> HIDE DEF z, c, s
<1>5. /\ z \in ScanSet(slots, setup)
      /\ z.at = r.at /\ z.end = r.end /\ z.phase = "bonus" /\ z.sorted = r.sorted /\ z.stop = s
      /\ z.matches = r.matches /\ z.count = r.count /\ z.top = r.top /\ z.cut /\ z.cutAt = c
      /\ z.resumable = r.resumable
  <2>1. z \in ScanSet(slots, setup)
    BY <1>1, <1>3, <1>4, <1>a DEF ScanSet
  <2> QED BY <2>1, <1>1, <1>4 DEF ScanSet
<1>6. Pending(z) = Pending(r)
  BY <1>5 DEF Pending
<1>7. ASSUME NEW i \in c..(setup.ranked - 1), MatchIn(slots, q, i), slots[i].of[q].bonus = 0
      PROVE  BeatenIn(slots, setup, q, i)
  <2>1. CASE r.cut /\ i >= r.cutAt
    <3>1. i \in r.cutAt..(setup.ranked - 1)
      BY <1>1, <1>3, <2>1
    <3> QED BY <1>7, <2>1, <3>1 DEF Fits, CutFits
  <2>2. CASE ~(r.cut /\ i >= r.cutAt)
    <3>1. ~r.cut => r.cutAt = setup.ranked
      BY DEF Fits, CutFits
    <3>2. c = r.at
      BY <1>1, <1>3, <2>2, <3>1
    <3>3. i \in 0..(setup.ranked - 1) /\ r.at \in 0..(setup.ranked - 1) /\ (i = r.at \/ r.at < i)
      BY <1>1, <1>3, <3>2
    <3>4. 0..(setup.ranked - 1) \subseteq DOMAIN slots
      BY SetupFits DEF NamesFit
    <3>5. slots[r.at].base \in Int /\ slots[i].base \in Int
      BY <3>3, <3>4, SlotFits
    <3>6. slots[r.at].base >= slots[i].base
      BY <3>3, <3>5 DEF NamesFit
    <3>7. Ceiling + slots[i].base < th
      <4>1. Ceiling + slots[r.at].base < th /\ th \in Int /\ Ceiling \in Nat
        BY ScanAssumption DEF BelowCut, BoundingIn, Bounding, ScanAssumption
      <4> QED BY <3>5, <3>6, <4>1
    <3> QED BY <1>7, <3>3, <3>4, <3>7, PassedIsBeaten
  <2> QED BY <2>1, <2>2
<1>8. T \in SUBSET DOMAIN slots /\ \A i \in T : i \in Nat
  BY DEF Fits, NamesFit
<1>9. CutFits(slots, setup, q, z, T, S)
  <2>1. \A i \in T \ Pending(z) : i < z.cutAt \/ i >= setup.ranked => i \in S
    <3> SUFFICES ASSUME NEW i \in T \ Pending(r), i < c \/ i >= setup.ranked PROVE i \in S
      BY <1>5, <1>6
    <3>1. i < r.cutAt \/ i >= setup.ranked
      BY <1>1, <1>3, <1>8
    <3> QED BY <3>1 DEF Fits, CutFits
  <2> QED BY <1>1, <1>2, <1>3, <1>5, <1>7, <2>1 DEF CutFits
<1>10. Fits(slots, setup, q, z, T, S)
  BY <1>5, <1>6, <1>9 DEF Fits
<1>11. ASSUME Neat(setup, r, S) PROVE Neat(setup, z, S)
  <2>1. ~r.cut /\ r.cutAt = setup.ranked /\ \A i \in S : i < r.at \/ i >= setup.ranked
    BY <1>11 DEF Neat, Fits, CutFits
  <2>2. c = r.at
    BY <1>1, <1>3, <2>1
  <2> QED BY <1>1, <1>5, <2>1, <2>2 DEF Neat
<1> QED BY <1>5, <1>10, <1>11 DEF z

\* How much a scan can still do.
Left(r) == IF r.phase = "scan" THEN r.end - r.at + 2 ELSE IF r.phase = "bonus" THEN r.end - r.at + 1 ELSE 0

\* A step goes on with the scan.
Goes(z, r) ==
    /\ z.phase \in {"scan", "bonus", "done"} /\ z.end = r.end
    /\ Left(z) \in Nat /\ Left(z) < Left(r)

LEMMA PastGoes ==
    ASSUME NEW r \in ScanSet(slots, setup), r.phase \in {"scan", "bonus"}, r.at < r.end,
           NEW y \in ScanSet(slots, setup), SameScan(y, r)
    PROVE  Goes(Past(y), r)
<1> DEFINE ph == IF r.at + 1 >= (IF r.phase = "scan" THEN r.end ELSE y.stop) THEN "done" ELSE r.phase
<1>1. Past(y) = [y EXCEPT !.at = r.at + 1, !.phase = ph]
  BY DEF Past, SameScan
<1>2. ph \in {"scan", "bonus", "done"} /\ (ph # "done" => ph = r.phase) /\ r.at \in Nat /\ r.end \in Nat
  BY DEF ScanSet
<1> HIDE DEF ph
<1>3. Past(y).at = r.at + 1 /\ Past(y).phase = ph /\ Past(y).end = r.end
  BY <1>1 DEF ScanSet, SameScan
<1> QED BY <1>2, <1>3 DEF Goes, Left

\* A name of the scan is passed over, cut at, counted, or scored.
LEMMA ScanOneFits ==
    ASSUME NamesFit(slots, setup), NEW q \in Queries, NEW r, NEW T, NEW S, Fits(slots, setup, q, r, T, S),
           r.phase = "scan", NEW th, BoundingIn(slots, setup, q, th)
    PROVE  \E U : /\ Fits(slots, setup, q, ScanOne(r, q, th), T, U)
                  /\ Neat(setup, r, S) => Neat(setup, ScanOne(r, q, th), U)
                  /\ Goes(ScanOne(r, q, th), r)
<1> DEFINE i == r.at
<1> DEFINE D == T \ Pending(r)
<1> DEFINE U == S \cup {i}
<1> DEFINE z == ScanOne(r, q, th)
<1>1. /\ r \in ScanSet(slots, setup) /\ i \in Nat /\ r.end \in Nat /\ i < r.end
      /\ Pending(r) = i..(r.end - 1) /\ i \in Pending(r)
      /\ T \in SUBSET DOMAIN slots /\ i \in T /\ S \subseteq D
  <2>1. r \in ScanSet(slots, setup) /\ i < r.end /\ Pending(r) = i..(r.end - 1)
    BY DEF Fits, CutFits, Pending
  <2>2. i \in Nat /\ r.end \in Nat
    BY <2>1 DEF ScanSet
  <2> QED BY <2>1, <2>2 DEF Fits
<1>2. i \notin D /\ i \notin S /\ i \in DOMAIN slots /\ D \subseteq DOMAIN slots
  BY <1>1
<1>3. /\ TopFits(slots, setup, q, r.top, D) /\ ListFits(slots, q, r.matches, S)
      /\ r.resumable => r.count = Cardinality(MatchesOf(slots, q, S))
  BY DEF Fits
<1>4. MatchIn(slots, q, i) <=> Matches(q, i)
  BY DEF MatchIn, Matches, Listed, Of
<1>5. Of(q, i) = slots[i].of[q]
  BY DEF Of
\* What goes past the name.
<1>6. ASSUME NEW y \in ScanSet(slots, setup), SameScan(y, r), TopFits(slots, setup, q, y.top, D \cup {i}),
             ListFits(slots, q, y.matches, U),
             y.resumable => y.count = Cardinality(MatchesOf(slots, q, U)),
             z = Past(y)
      PROVE  /\ Fits(slots, setup, q, z, T, U)
             /\ Neat(setup, r, S) => Neat(setup, z, U)
             /\ Goes(z, r)
  <2>1. Goes(Past(y), r)
    BY <1>1, <1>6, PastGoes
  <2>2. /\ y.at = r.at /\ y.end = r.end /\ y.phase = r.phase /\ y.sorted = r.sorted
        /\ y.cut = r.cut /\ y.cutAt = r.cutAt /\ y.resumable = r.resumable
    BY <1>6 DEF SameScan
  <2>3. U = IF r.phase = "scan" THEN S \cup {r.at} ELSE S
    OBVIOUS
  <2>5. r.at < r.end /\ r.phase \in {"scan", "bonus"} /\ r.phase # "bonus"
    BY <1>1
  <2>6. TopFits(slots, setup, q, y.top, (T \ Pending(r)) \cup {r.at})
    BY <1>6
  <2> HIDE DEF U, z, D
  <2>4. /\ Fits(slots, setup, q, Past(y), T, U)
        /\ Neat(setup, r, S) => Neat(setup, Past(y), U)
    BY <1>6, <2>2, <2>3, <2>5, <2>6, PastFits
  <2> QED BY <1>6, <2>1, <2>4
<1>7. SameScan(r, r)
  BY DEF SameScan
<1>8. CASE ~MatchIn(slots, q, i) /\ z = Past(r)
  <2>1. TopFits(slots, setup, q, r.top, D \cup {i})
    BY <1>3, <1>8, TopStays
  <2>2. ListFits(slots, q, r.matches, U) /\ MatchesOf(slots, q, U) = MatchesOf(slots, q, S)
    BY <1>3, <1>8, ListStays
  <2> QED BY <1>1, <1>3, <1>6, <1>7, <1>8, <2>1, <2>2
<1>9. CASE r.sorted /\ BelowCut(i, th) /\ z = Cut(r, i, th)
  <2>1. /\ Fits(slots, setup, q, z, T, S) /\ (Neat(setup, r, S) => Neat(setup, z, S))
        /\ z.phase = "bonus" /\ z.at = i /\ z.end = r.end
    BY <1>9, CutIsFit
  <2>2. Goes(z, r)
    BY <1>1, <2>1 DEF Goes, Left
  <2> QED BY <2>1, <2>2
<1>10. CASE MatchIn(slots, q, i) /\ ((z = Past(Counted(r, i)) /\ CannotReach(q, i, th))
                                      \/ z = Past(Scored(Counted(r, i), q, i)))
  <2> DEFINE y == Counted(r, i)
  <2>1. /\ y \in ScanSet(slots, setup) /\ SameScan(y, r) /\ y.matches \in {r.matches, Append(r.matches, i)}
        /\ y.count = r.count + 1 /\ y.top = r.top
    BY <1>1, <1>2, CountedFits
  <2>2. IsFiniteSet(DOMAIN slots)
    BY NamesRank
  <2>3. /\ ListFits(slots, q, r.matches, U) /\ ListFits(slots, q, Append(r.matches, i), U)
        /\ Cardinality(MatchesOf(slots, q, U)) = Cardinality(MatchesOf(slots, q, S)) + 1
    <3>1. S \in SUBSET DOMAIN slots
      BY <1>1
    <3> QED BY <1>2, <1>3, <1>10, <2>2, <3>1, ListGrows
  <2> HIDE DEF y
  <2>4. ListFits(slots, q, y.matches, U) /\ (y.resumable => y.count = Cardinality(MatchesOf(slots, q, U)))
    BY <1>3, <2>1, <2>3 DEF SameScan
  <2>5. CASE z = Past(y) /\ CannotReach(q, i, th)
    <3>1. Ceiling + slots[i].of[q].room + slots[i].base < th
      BY <1>5, <2>5 DEF CannotReach
    <3>2. BeatenIn(slots, setup, q, i)
      BY <1>2, <1>10, <3>1, PassedIsBeaten
    <3>3. TopFits(slots, setup, q, r.top, D \cup {i})
      BY <1>3, <3>2, TopStays
    <3> QED BY <1>6, <2>1, <2>4, <2>5, <3>3
  <2>6. CASE z = Past(Scored(y, q, i))
    <3> DEFINE o == Offer(r.top, HitOf(q, i))
    <3> DEFINE x == Scored(y, q, i)
    <3>1. TopFits(slots, setup, q, o, D \cup {i})
      BY <1>2, <1>3, <1>10, TopGrows
    <3>2. o \in Seq([entry : Int, score : Int])
      BY <3>1, TopTypes
    <3>3. /\ x \in ScanSet(slots, setup) /\ SameScan(x, y) /\ x.matches = y.matches /\ x.count = y.count
          /\ x.top = o
      BY <2>1, <3>2, ScoredFits
    <3> HIDE DEF x, o, U, z
    <3>4. SameScan(x, r) /\ (x.resumable <=> y.resumable)
      BY <2>1, <3>3 DEF SameScan
    <3>5. ListFits(slots, q, x.matches, U) /\ (x.resumable => x.count = Cardinality(MatchesOf(slots, q, U)))
      BY <2>4, <3>3, <3>4
    <3>6. z = Past(x) /\ TopFits(slots, setup, q, x.top, D \cup {i})
      BY <2>6, <3>1, <3>3 DEF x
    <3>7. /\ Fits(slots, setup, q, z, T, U)
          /\ Neat(setup, r, S) => Neat(setup, z, U)
          /\ Goes(z, r)
      BY <1>6, <3>3, <3>4, <3>5, <3>6
    <3> QED BY <3>7 DEF z
  <2> QED BY <1>10, <2>5, <2>6 DEF y
<1>11. \/ ~MatchIn(slots, q, i) /\ z = Past(r)
       \/ r.sorted /\ BelowCut(i, th) /\ z = Cut(r, i, th)
       \/ MatchIn(slots, q, i) /\ ((z = Past(Counted(r, i)) /\ CannotReach(q, i, th))
                                    \/ z = Past(Scored(Counted(r, i), q, i)))
  <2>1. ~slots[i].live \/ ~Of(q, i).anchor => ~MatchIn(slots, q, i)
    BY <1>2, <1>5, SlotFits DEF MatchIn
  <2> QED BY <1>4, <2>1 DEF ScanOne
<1> QED BY <1>8, <1>9, <1>10, <1>11

\* Past the cut, a name without a bonus is beaten, and so is all beyond the stop.
LEMMA BonusOneFits ==
    ASSUME NamesFit(slots, setup), NEW q \in Queries, NEW r, NEW T, NEW S, Fits(slots, setup, q, r, T, S),
           r.phase = "bonus", NEW th, BoundingIn(slots, setup, q, th)
    PROVE  /\ Fits(slots, setup, q, BonusOne(r, q, th), T, S)
           /\ Neat(setup, r, S) => Neat(setup, BonusOne(r, q, th), S)
           /\ Goes(BonusOne(r, q, th), r)
<1> DEFINE i == r.at
<1> DEFINE D == T \ Pending(r)
<1> DEFINE z == BonusOne(r, q, th)
<1>1. /\ r \in ScanSet(slots, setup) /\ i \in Nat /\ r.end \in Nat /\ r.stop \in Nat /\ r.cutAt \in Nat
      /\ setup.ranked \in Nat
      /\ r.cutAt <= i /\ i <= r.end /\ r.end <= setup.ranked /\ r.stop <= r.end /\ r.cut
      /\ Pending(r) = i..(r.end - 1)
      /\ T \in SUBSET DOMAIN slots /\ Pending(r) \subseteq T /\ S \subseteq D
      /\ \A k \in r.stop..(r.end - 1) : MatchIn(slots, q, k) => BeatenIn(slots, setup, q, k)
      /\ \A k \in r.cutAt..(setup.ranked - 1) :
            MatchIn(slots, q, k) /\ slots[k].of[q].bonus = 0 => BeatenIn(slots, setup, q, k)
  <2>1. /\ r \in ScanSet(slots, setup) /\ Pending(r) = i..(r.end - 1)
        /\ r.cutAt <= i /\ i <= r.end /\ r.end <= setup.ranked /\ r.stop <= r.end
    BY DEF Fits, CutFits, Pending
  <2>2. r.cut
    BY DEF Fits, CutFits
  <2>3. i \in Nat /\ r.end \in Nat /\ r.stop \in Nat /\ r.cutAt \in Nat /\ setup.ranked \in Nat
    BY <2>1, SetupFits DEF ScanSet, NamesFit
  <2> QED BY <2>1, <2>2, <2>3 DEF Fits, CutFits
<1>2. /\ TopFits(slots, setup, q, r.top, D) /\ ListFits(slots, q, r.matches, S)
      /\ r.resumable => r.count = Cardinality(MatchesOf(slots, q, S))
  BY DEF Fits
<1>3. CASE i >= r.stop
  <2>1. z = [r EXCEPT !.phase = "done"]
    BY <1>3 DEF BonusOne
  <2> HIDE DEF z, D
  <2>2. /\ z \in ScanSet(slots, setup)
        /\ z.at = i /\ z.end = r.end /\ z.phase = "done" /\ z.sorted = r.sorted
        /\ z.matches = r.matches /\ z.count = r.count /\ z.top = r.top /\ z.cut = r.cut
        /\ z.cutAt = r.cutAt /\ z.resumable = r.resumable
    BY <1>1, <2>1 DEF ScanSet
  <2>3. Pending(z) = {}
    BY <2>2 DEF Pending
  <2>4. TopFits(slots, setup, q, r.top, D \cup Pending(r))
    <3>1. \A k \in Pending(r) : MatchIn(slots, q, k) => BeatenIn(slots, setup, q, k)
      BY <1>1, <1>3
    <3> QED BY <1>2, <3>1, TopStays
  <2>5. D \cup Pending(r) = T
    BY <1>1 DEF D
  <2>6. CutFits(slots, setup, q, z, T, S)
    <3>1. ASSUME NEW k \in T \ Pending(z), k < z.cutAt \/ k >= setup.ranked PROVE k \in S
      <4>1. k \in Nat
        BY <1>1 DEF NamesFit
      <4>2. k \notin Pending(r)
        BY <1>1, <2>2, <3>1, <4>1
      <4> QED BY <2>2, <3>1, <4>2 DEF Fits, CutFits
    <3> QED BY <1>1, <2>2, <3>1 DEF CutFits
  <2>7. Fits(slots, setup, q, z, T, S)
    <3>1. TopFits(slots, setup, q, z.top, T \ Pending(z)) /\ S \subseteq T \ Pending(z)
      BY <1>1, <2>2, <2>3, <2>4, <2>5
    <3> QED BY <1>1, <1>2, <2>2, <2>3, <2>6, <3>1 DEF Fits
  <2>8. Neat(setup, r, S) => Neat(setup, z, S)
    BY <2>2 DEF Neat
  <2>9. Goes(z, r)
    BY <1>1, <2>2 DEF Goes, Left
  <2> QED BY <2>7, <2>8, <2>9 DEF z
<1>4. CASE i < r.stop
  <2>1. i \in Pending(r) /\ i \in T /\ i \notin D /\ i \in DOMAIN slots /\ D \subseteq DOMAIN slots /\ i < r.end
    BY <1>1, <1>4
  <2>2. Of(q, i) = slots[i].of[q] /\ (MatchIn(slots, q, i) <=> Matches(q, i))
    BY DEF MatchIn, Matches, Listed, Of
  <2>3. ASSUME NEW y \in ScanSet(slots, setup), SameScan(y, r), TopFits(slots, setup, q, y.top, D \cup {i}),
               y.matches = r.matches, y.count = r.count, y.stop <= y.end,
               \A k \in y.stop..(y.end - 1) : MatchIn(slots, q, k) => BeatenIn(slots, setup, q, k),
               z = Past(y)
        PROVE  /\ Fits(slots, setup, q, z, T, S)
               /\ Neat(setup, r, S) => Neat(setup, z, S)
               /\ Goes(z, r)
    <3>1. Goes(Past(y), r)
      BY <1>1, <2>1, <2>3, PastGoes
    <3>2. /\ y.at = r.at /\ y.end = r.end /\ y.phase = r.phase /\ y.sorted = r.sorted
          /\ y.cut = r.cut /\ y.cutAt = r.cutAt /\ y.resumable = r.resumable
      BY <2>3 DEF SameScan
    <3>3. S = IF r.phase = "scan" THEN S \cup {r.at} ELSE S
      OBVIOUS
    <3> HIDE DEF z
    <3>4. ListFits(slots, q, y.matches, S) /\ (y.resumable => y.count = Cardinality(MatchesOf(slots, q, S)))
      BY <1>2, <2>3, <3>2
    <3>5. /\ Fits(slots, setup, q, Past(y), T, S)
          /\ Neat(setup, r, S) => Neat(setup, Past(y), S)
      BY <2>1, <2>3, <3>2, <3>3, <3>4, PastFits
    <3> QED BY <2>3, <3>1, <3>5
  <2>4. CASE z = Past(r) /\ (Of(q, i).bonus = 0 \/ ~Matches(q, i) \/ CannotReach(q, i, th))
    <3>1. MatchIn(slots, q, i) => BeatenIn(slots, setup, q, i)
      <4> SUFFICES ASSUME MatchIn(slots, q, i) PROVE BeatenIn(slots, setup, q, i)
        OBVIOUS
      <4>1. CASE Of(q, i).bonus = 0
        <5>1. i \in r.cutAt..(setup.ranked - 1)
          BY <1>1, <2>1
        <5> QED BY <1>1, <2>2, <4>1, <5>1
      <4>2. CASE CannotReach(q, i, th)
        <5>1. Ceiling + slots[i].of[q].room + slots[i].base < th
          BY <2>2, <4>2 DEF CannotReach
        <5> QED BY <2>1, <5>1, PassedIsBeaten
      <4> QED BY <2>2, <2>4, <4>1, <4>2
    <3>2. TopFits(slots, setup, q, r.top, D \cup {i})
      BY <1>2, <3>1, TopStays
    <3>3. SameScan(r, r)
      BY DEF SameScan
    <3> QED BY <1>1, <2>3, <2>4, <3>2, <3>3
  <2>5. CASE Matches(q, i) /\
             z = LET y == Scored(r, q, i)
                 IN Past([y EXCEPT !.stop = StopFrom(i + 1, r.end, Larger(th, Threshold(y.top)))])
    <3> DEFINE o == Offer(r.top, HitOf(q, i))
    <3> DEFINE x == Scored(r, q, i)
    <3> DEFINE s == StopFrom(i + 1, r.end, Larger(th, Threshold(x.top)))
    <3> DEFINE y == [x EXCEPT !.stop = s]
    <3>1. TopFits(slots, setup, q, o, D \cup {i})
      BY <1>2, <2>1, <2>2, <2>5, TopGrows
    <3>2. o \in Seq([entry : Int, score : Int])
      BY <3>1, TopTypes
    <3>3. /\ x \in ScanSet(slots, setup) /\ SameScan(x, r) /\ x.matches = r.matches /\ x.count = r.count
          /\ x.top = o
      BY <1>1, <3>2, ScoredFits
    <3>4. BoundingIn(slots, setup, q, Larger(th, Threshold(x.top)))
      <4>1. TopOf(HitsIn(slots, q), Limit, o) /\ Limit \in Nat \ {0} /\ Limit = setup.limit
        BY <3>1, SetupFits DEF TopFits, Limit, NamesFit
      <4>2. Bounding(HitsIn(slots, q), Limit, Threshold(o))
        BY <4>1, NamesRank, ThresholdBounds
      <4> QED BY <3>3, <4>1, <4>2, LargerBounds DEF BoundingIn
    <3>5. s \in (i + 1)..r.end /\ \A k \in s..(r.end - 1) : MatchIn(slots, q, k) => BeatenIn(slots, setup, q, k)
      <4>1. i + 1 \in Nat /\ r.end \in Nat /\ i + 1 <= r.end /\ r.end <= Ranked
        BY <1>1, <2>1 DEF Ranked
      <4> HIDE DEF x
      <4> QED BY <3>4, <4>1, StopFits
    <3>6. s \in Nat /\ s <= r.end
      BY <1>1, <3>5
    <3>7. z = Past(y)
      BY <2>5
    <3> HIDE DEF s, x, z, o, D
    <3>8. /\ y \in ScanSet(slots, setup) /\ SameScan(y, r) /\ y.matches = r.matches /\ y.count = r.count
          /\ y.top = o /\ y.stop = s /\ y.end = r.end
      BY <3>3, <3>6 DEF ScanSet, SameScan
    <3> HIDE DEF y
    <3>9. TopFits(slots, setup, q, y.top, D \cup {i}) /\ y.stop <= y.end
          /\ \A k \in y.stop..(y.end - 1) : MatchIn(slots, q, k) => BeatenIn(slots, setup, q, k)
      BY <3>1, <3>5, <3>6, <3>8
    <3>10. /\ Fits(slots, setup, q, z, T, S)
           /\ Neat(setup, r, S) => Neat(setup, z, S)
           /\ Goes(z, r)
      BY <2>3, <3>7, <3>8, <3>9
    <3> QED BY <3>10 DEF z
  <2>6. \/ z = Past(r) /\ (Of(q, i).bonus = 0 \/ ~Matches(q, i) \/ CannotReach(q, i, th))
        \/ Matches(q, i) /\
             z = LET y == Scored(r, q, i)
                 IN Past([y EXCEPT !.stop = StopFrom(i + 1, r.end, Larger(th, Threshold(y.top)))])
    <3>1. ~(r.at >= r.stop)
      BY <1>1, <1>4
    <3> QED BY <3>1 DEF BonusOne
  <2> QED BY <2>4, <2>5, <2>6
<1> QED BY <1>1, <1>3, <1>4

LEMMA OneFits ==
    ASSUME NamesFit(slots, setup), NEW q \in Queries, NEW r, NEW T, NEW S, Fits(slots, setup, q, r, T, S),
           r.phase \in {"scan", "bonus"}, NEW th, BoundingIn(slots, setup, q, th)
    PROVE  \E U : /\ Fits(slots, setup, q, One(r, q, th), T, U)
                  /\ Neat(setup, r, S) => Neat(setup, One(r, q, th), U)
                  /\ Goes(One(r, q, th), r)
<1>1. CASE r.phase = "scan"
  <2>1. One(r, q, th) = ScanOne(r, q, th)
    BY <1>1 DEF One
  <2> QED BY <1>1, <2>1, ScanOneFits
<1>2. CASE r.phase = "bonus"
  <2>1. One(r, q, th) = BonusOne(r, q, th)
    BY <1>2 DEF One
  <2> QED BY <1>2, <2>1, BonusOneFits
<1> QED BY <1>1, <1>2

-----------------------------------------------------------------------------
(* Scans that run to their end. *)

Iterated(g, n, f, v) == g = [k \in 0..n |-> IF k = 0 THEN v ELSE f[k][g[k - 1]]]
Follows(h, n, f, v, V) == h[0] = v /\ \A k \in 1..n : h[k - 1] \in V[k - 1] => h[k] = f[k][h[k - 1]]
Within(g, n, V) == \A k \in 0..n : g[k] \in V[k]
Leads(f, n, V) == \A k \in 1..n : \A x \in V[k - 1] : f[k][x] \in V[k]

\* A function given step by step exists, and its values are where the steps lead.
LEMMA Iterates ==
    ASSUME NEW n \in Nat, NEW V, NEW f, NEW v \in V[0],
           Leads(f, n, V)
    PROVE  /\ \E g : Iterated(g, n, f, v) /\ Within(g, n, V)
           /\ \A h : Follows(h, n, f, v, V) => Within(h, n, V)
<1>0. \A k \in 1..n : \A x \in V[k - 1] : f[k][x] \in V[k]
  BY DEF Leads
<1>1. ASSUME NEW h, h[0] = v, \A k \in 1..n : h[k - 1] \in V[k - 1] => h[k] = f[k][h[k - 1]]
      PROVE  \A k \in 0..n : h[k] \in V[k]
  <2> DEFINE T == {k \in Nat : k <= n => h[k] \in V[k]}
  <2>1. 0 \in T
    BY <1>1
  <2>2. ASSUME NEW k \in T PROVE k + 1 \in T
    <3> SUFFICES ASSUME k + 1 <= n PROVE h[k + 1] \in V[k + 1]
      OBVIOUS
    <3>1. k + 1 \in 1..n /\ (k + 1) - 1 = k /\ h[k] \in V[k]
      OBVIOUS
    <3>2. h[k + 1] = f[k + 1][h[k]]
      BY <1>1, <3>1
    <3> QED BY <1>0, <3>1, <3>2
  <2>3. T = Nat
    <3> HIDE DEF T
    <3>1. T \in SUBSET Nat
      BY DEF T
    <3> QED BY <2>1, <2>2, <3>1, Induct
  <2> QED BY <2>3
<1> DEFINE Is(g, m) == g = [k \in 0..m |-> IF k = 0 THEN v ELSE f[k][g[k - 1]]]
<1> DEFINE T == {m \in Nat : \E g : Is(g, m)}
<1>2. 0 \in T
  <2> DEFINE g == [k \in 0..0 |-> v]
  <2>1. Is(g, 0)
    OBVIOUS
  <2> QED BY <2>1
<1>3. ASSUME NEW m \in T PROVE m + 1 \in T
  <2>1. PICK g : Is(g, m)
    OBVIOUS
  <2> DEFINE h == [k \in 0..(m + 1) |-> IF k = m + 1 THEN f[m + 1][g[m]] ELSE g[k]]
  <2>2. \A k \in 0..(m + 1) : h[k] = IF k = 0 THEN v ELSE f[k][h[k - 1]]
    <3> TAKE k \in 0..(m + 1)
    <3>1. CASE k = m + 1
      <4>1. h[k - 1] = g[m] /\ h[k] = f[k][g[m]] /\ k # 0
        BY <3>1
      <4> QED BY <4>1
    <3>2. CASE k \in 0..m
      <4>1. h[k] = g[k] /\ (k # 0 => h[k - 1] = g[k - 1])
        BY <3>2
      <4> HIDE DEF h
      <4>2. g[k] = IF k = 0 THEN v ELSE f[k][g[k - 1]]
        BY <2>1, <3>2
      <4> QED BY <4>1, <4>2
    <3> QED BY <3>1, <3>2
  <2>3. Is(h, m + 1)
    <3>1. h = [k \in 0..(m + 1) |-> h[k]]
      OBVIOUS
    <3> HIDE DEF h
    <3> QED BY <2>2, <3>1
  <2> HIDE DEF h, Is
  <2> QED BY <2>3
<1>4. T = Nat
  <2> HIDE DEF T
  <2>1. T \in SUBSET Nat
    BY DEF T
  <2> QED BY <1>2, <1>3, <2>1, Induct
<1>5. PICK g : Is(g, n)
  BY <1>4
<1>6. g[0] = v /\ \A k \in 1..n : g[k] = f[k][g[k - 1]]
  BY <1>5
<1>7. \A k \in 0..n : g[k] \in V[k]
  BY <1>1, <1>6
<1> QED BY <1>1, <1>5, <1>7 DEF Iterated, Follows, Within

\* Where a scan of a thread of its own can be after k steps.
Runs(q, r, T, S, n) ==
    [k \in 0..n |->
        {y \in ScanSet(slots, setup) :
            /\ \E U : Fits(slots, setup, q, y, T, U) /\ (Neat(setup, r, S) => Neat(setup, y, U))
            /\ y.phase \in {"scan", "bonus", "done"} /\ y.end = r.end
            /\ Left(y) \in Nat /\ (y.phase # "done" => Left(y) + k <= n)}]

LEMMA AloneFits ==
    ASSUME NamesFit(slots, setup), NEW q \in Queries, NEW r, NEW T, NEW S, Fits(slots, setup, q, r, T, S),
           r.phase \in {"scan", "bonus", "done"}, BoundingIn(slots, setup, q, shared)
    PROVE  /\ \E U : /\ Fits(slots, setup, q, Alone(r, q), T, U)
                     /\ Neat(setup, r, S) => Neat(setup, Alone(r, q), U)
           /\ Alone(r, q).phase = "done" /\ Alone(r, q).end = r.end
<1> DEFINE n == 2 * Size + 2
<1> DEFINE V == Runs(q, r, T, S, n)
<1> DEFINE next(y) == IF y.phase = "done" THEN y ELSE One(y, q, Own(y))
<1> DEFINE f == [k \in 1..n |-> [y \in ScanSet(slots, setup) |-> next(y)]]
<1>1. n \in Nat /\ Size = setup.size /\ Size \in Nat
  BY SetupFits DEF Size, NamesFit
<1>2. r \in V[0]
  <2>1. /\ r \in ScanSet(slots, setup) /\ T \in SUBSET DOMAIN slots /\ Pending(r) \subseteq T
        /\ r.phase = "scan" => r.at < r.end
        /\ r.phase = "bonus" => r.at <= r.end /\ r.end <= setup.ranked
    BY DEF Fits, CutFits
  <2>2. r.at \in Nat /\ r.end \in Nat /\ setup.ranked \in Nat /\ setup.ranked <= setup.size
    BY <2>1, SetupFits DEF ScanSet, NamesFit
  <2>3. r.phase = "scan" => r.end <= Size
    <3> SUFFICES ASSUME r.phase = "scan" PROVE r.end <= Size
      OBVIOUS
    <3>1. r.end - 1 \in Pending(r)
      BY <2>1, <2>2 DEF Pending
    <3>2. r.end - 1 \in 0..(setup.size - 1)
      BY <2>1, <3>1 DEF NamesFit
    <3> QED BY <1>1, <2>2, <3>2
  <2>4. Left(r) \in Nat /\ (r.phase # "done" => Left(r) + 0 <= n)
    BY <1>1, <2>1, <2>2, <2>3 DEF Left
  <2> HIDE DEF n
  <2>5. 0 \in 0..n
    BY <1>1
  <2> QED BY <2>1, <2>4, <2>5 DEF Runs
<1>3. ASSUME NEW k \in 1..n, NEW y \in V[k - 1]
      PROVE  f[k][y] \in V[k] /\ f[k][y] = next(y)
  <2> HIDE DEF n
  <2>1. k - 1 \in 0..n /\ k \in 0..n /\ k \in Nat
    BY <1>1
  <2>2. /\ y \in ScanSet(slots, setup)
        /\ \E U : Fits(slots, setup, q, y, T, U) /\ (Neat(setup, r, S) => Neat(setup, y, U))
        /\ y.phase \in {"scan", "bonus", "done"} /\ y.end = r.end
        /\ Left(y) \in Nat /\ (y.phase # "done" => Left(y) + (k - 1) <= n)
    BY <2>1 DEF Runs
  <2>3. f[k][y] = next(y)
    BY <2>2
  <2>4. CASE y.phase = "done"
    <3>1. next(y) = y
      BY <2>4
    <3> QED BY <2>1, <2>2, <2>3, <2>4, <3>1 DEF Runs
  <2>5. CASE y.phase # "done"
    <3> DEFINE z == One(y, q, Own(y))
    <3>1. PICK U : Fits(slots, setup, q, y, T, U) /\ (Neat(setup, r, S) => Neat(setup, y, U))
      BY <2>2
    <3>2. BoundingIn(slots, setup, q, Own(y))
      <4>1. TopOf(HitsIn(slots, q), Limit, y.top) /\ Limit \in Nat \ {0} /\ Limit = setup.limit
        BY <3>1, SetupFits DEF Fits, TopFits, Limit, NamesFit
      <4>2. Bounding(HitsIn(slots, q), Limit, Threshold(y.top))
        BY <4>1, NamesRank, ThresholdBounds
      <4> QED BY <4>1, <4>2, LargerBounds DEF BoundingIn, Own
    <3>3. PICK W : Fits(slots, setup, q, z, T, W) /\ (Neat(setup, y, U) => Neat(setup, z, W)) /\ Goes(z, y)
      BY <2>2, <2>5, <3>1, <3>2, OneFits
    <3> HIDE DEF z
    <3>4. z \in ScanSet(slots, setup)
      BY <3>3 DEF Fits
    <3>5. z.phase \in {"scan", "bonus", "done"} /\ z.end = r.end /\ Left(z) \in Nat /\ Left(z) + k <= n
      BY <1>1, <2>1, <2>2, <2>5, <3>3 DEF Goes
    <3>6. Neat(setup, r, S) => Neat(setup, z, W)
      BY <3>1, <3>3
    <3>7. z \in V[k]
      BY <2>1, <3>3, <3>4, <3>5, <3>6 DEF Runs
    <3>8. next(y) = z
      BY <2>5 DEF z
    <3> QED BY <2>3, <3>7, <3>8
  <2> QED BY <2>4, <2>5
<1> DEFINE Is(g) == g = [k \in 0..n |-> IF k = 0 THEN r ELSE next(g[k - 1])]
<1>4. /\ \E g : Iterated(g, n, f, r) /\ Within(g, n, V)
      /\ \A h : Follows(h, n, f, r, V) => Within(h, n, V)
  <2>1. Leads(f, n, V)
    BY <1>3 DEF Leads
  <2> HIDE DEF n, V, f
  <2> QED BY <1>1, <1>2, <2>1, Iterates
<1>5. \E g : Is(g)
  <2>1. PICK g : Iterated(g, n, f, r) /\ Within(g, n, V)
    BY <1>4
  <2>2. ASSUME NEW k \in 0..n, k # 0 PROVE f[k][g[k - 1]] = next(g[k - 1])
    <3>1. k \in 1..n /\ k - 1 \in 0..n
      BY <1>1, <2>2
    <3> HIDE DEF n, V, f, next
    <3> QED BY <1>3, <2>1, <3>1 DEF Within
  <2> HIDE DEF n, V, f, next
  <2>3. g = [k \in 0..n |-> IF k = 0 THEN r ELSE next(g[k - 1])]
    BY <2>1, <2>2 DEF Iterated
  <2> QED BY <2>3
<1> DEFINE h == CHOOSE g : Is(g)
<1>6. Is(h)
  <2> HIDE DEF Is
  <2> QED BY <1>5
<1>7. Alone(r, q) = h[n]
  BY DEF Alone
<1>8. h[n] \in V[n]
  <2> HIDE DEF h
  <2>1. h[0] = r
    BY <1>1, <1>6
  <2>2. ASSUME NEW k \in 1..n, h[k - 1] \in V[k - 1] PROVE h[k] = f[k][h[k - 1]]
    <3>1. h[k] = next(h[k - 1])
      <4>1. k \in 0..n /\ k # 0
        BY <1>1
      <4> HIDE DEF n, next
      <4> QED BY <1>6, <4>1
    <3> HIDE DEF n, next, f, V
    <3> QED BY <1>3, <2>2, <3>1
  <2>3. n \in 0..n
    BY <1>1
  <2> HIDE DEF n, V, f
  <2>4. Follows(h, n, f, r, V)
    BY <2>1, <2>2 DEF Follows
  <2> QED BY <1>4, <2>3, <2>4 DEF Within
<1> HIDE DEF h, n
<1>9. n \in 0..n
  BY <1>1
<1>10. /\ \E U : Fits(slots, setup, q, h[n], T, U) /\ (Neat(setup, r, S) => Neat(setup, h[n], U))
       /\ h[n].phase \in {"scan", "bonus", "done"} /\ h[n].end = r.end
       /\ Left(h[n]) \in Nat /\ (h[n].phase # "done" => Left(h[n]) + n <= n)
  BY <1>8, <1>9 DEF Runs
<1>11. h[n].phase = "done"
  <2>1. PICK U : Fits(slots, setup, q, h[n], T, U)
    BY <1>10
  <2>2. /\ h[n] \in ScanSet(slots, setup)
        /\ h[n].phase = "scan" => h[n].at < h[n].end
        /\ h[n].phase = "bonus" => h[n].at <= h[n].end
    BY <2>1 DEF Fits, CutFits
  <2>3. h[n].at \in Nat /\ h[n].end \in Nat
    BY <2>2 DEF ScanSet
  <2> QED BY <1>1, <1>10, <2>2, <2>3 DEF Left
<1> QED BY <1>7, <1>10, <1>11

-----------------------------------------------------------------------------
(* The calls of a scan. *)

\* The list has only what the first cut covers.
Tidy(su, r, S) == \A i \in S : i < r.cutAt \/ i >= su.ranked

\* ... and nothing of the range [s0, s1) that it is to be given.
Ready(su, r, S, s0, s1, sorted) ==
    /\ Tidy(su, r, S)
    /\ sorted => ~r.cut /\ \A i \in S : i < s0 \/ i >= su.ranked
    /\ ~sorted => s0 >= su.ranked
    /\ r.cut => r.cutAt <= s1

\* A range that no call was given yet.
Given(sl, su, T, s0, s1, sorted) ==
    /\ s0 \in Nat /\ s1 \in Nat /\ sorted \in BOOLEAN
    /\ s0..(s1 - 1) \subseteq DOMAIN sl \ T
    /\ sorted => s1 <= su.ranked

\* A scan that is not in a range: before, between and after its calls.
Rests(r) == r.phase \in {"done", "chunk", "ended"}

LEMMA FreshFits ==
    ASSUME NamesFit(slots, setup), NEW q \in Queries,
           NEW z \in {FreshScan, [FreshScan EXCEPT !.phase = "chunk"]}
    PROVE  /\ Fits(slots, setup, q, z, {}, {})
           /\ Rests(z) /\ z.phase # "ended" /\ z.resumable /\ ~z.cut
           /\ z = FreshScan => z.phase = "done"
           /\ z = [FreshScan EXCEPT !.phase = "chunk"] => z.phase = "chunk"
           /\ z.top = <<>> /\ z.matches = <<>> /\ z.count = 0
<1>1. Ranked = setup.ranked /\ setup.ranked \in Nat /\ setup.limit \in Nat \ {0}
  BY SetupFits DEF Ranked, NamesFit
<1>2. /\ NoScan \in ScanSet(slots, setup)
      /\ NoScan.phase = "done" /\ NoScan.top = <<>> /\ NoScan.matches = <<>> /\ NoScan.count = 0 /\ ~NoScan.cut
      /\ NoScan.resumable
  <2>1. <<>> \in Seq(DOMAIN slots) /\ <<>> \in Seq([entry : Int, score : Int])
    OBVIOUS
  <2>2. 0 \in 0..setup.ranked
    BY <1>1
  <2> QED BY <2>1, <2>2 DEF NoScan, ScanSet
<1>3. /\ FreshScan \in ScanSet(slots, setup)
      /\ FreshScan.phase = "done" /\ FreshScan.top = <<>> /\ FreshScan.matches = <<>> /\ FreshScan.count = 0
      /\ ~FreshScan.cut /\ FreshScan.resumable /\ FreshScan.cutAt = setup.ranked
  <2>1. FreshScan = [NoScan EXCEPT !.cutAt = Ranked]
    BY DEF FreshScan
  <2>2. Ranked \in 0..setup.ranked
    BY <1>1
  <2> QED BY <1>1, <1>2, <2>1, <2>2 DEF ScanSet
<1>4. /\ z \in ScanSet(slots, setup)
      /\ z.phase \in {"done", "chunk"}
      /\ z = FreshScan => z.phase = "done"
      /\ z = [FreshScan EXCEPT !.phase = "chunk"] => z.phase = "chunk"
      /\ z.top = <<>> /\ z.matches = <<>> /\ z.count = 0 /\ ~z.cut /\ z.cutAt = setup.ranked
      /\ z.resumable
  <2> DEFINE c == [FreshScan EXCEPT !.phase = "chunk"]
  <2>0. c.phase = "chunk" /\ c # FreshScan
    BY <1>3 DEF ScanSet
  <2>1. CASE z = FreshScan
    BY <1>3, <2>0, <2>1
  <2>2. CASE z = c
    BY <1>3, <2>0, <2>2 DEF ScanSet
  <2> QED BY <2>1, <2>2
<1>5. z.phase \in {"done", "chunk"} /\ z.cutAt = setup.ranked
  BY <1>4
<1>6. Pending(z) = {}
  BY <1>5 DEF Pending
<1>7. TopFits(slots, setup, q, <<>>, {})
  <2>1. <<>> \in Seq(HitsIn(slots, q)) /\ Len(<<>>) = 0
    OBVIOUS
  <2> QED BY <1>1, <2>1 DEF TopFits, TopOf, Holds
<1>8. ListFits(slots, q, <<>>, {}) /\ MatchesOf(slots, q, {}) = {}
  BY DEF ListFits, MatchesOf
<1>9. CutFits(slots, setup, q, z, {}, {})
  BY <1>4, <1>5 DEF CutFits
<1>10. Fits(slots, setup, q, z, {}, {})
  BY <1>4, <1>5, <1>6, <1>7, <1>8, <1>9, FS_EmptySet DEF Fits
<1> QED BY <1>4, <1>10 DEF Rests

\* ScanSlots is called: the range is given to the scan.
LEMMA EnterFits ==
    ASSUME NamesFit(slots, setup), NEW q \in Queries, NEW r, NEW T, NEW S, Fits(slots, setup, q, r, T, S),
           Rests(r), NEW s0, NEW s1, NEW sorted, Given(slots, setup, T, s0, s1, sorted),
           NEW th, BoundingIn(slots, setup, q, th)
    PROVE  /\ Fits(slots, setup, q, Enter(r, s0, s1, sorted, th), T \cup (s0..(s1 - 1)), S)
           /\ Ready(setup, r, S, s0, s1, sorted) => Neat(setup, Enter(r, s0, s1, sorted, th), S)
           /\ Enter(r, s0, s1, sorted, th).phase \in {"scan", "bonus", "done"}
           /\ Enter(r, s0, s1, sorted, th).end = s1
<1> DEFINE P == s0..(s1 - 1)
<1> DEFINE z == Enter(r, s0, s1, sorted, th)
<1> DEFINE e == [r EXCEPT !.at = s0, !.end = s1, !.sorted = sorted, !.phase = "scan"]
<1> DEFINE d == [e EXCEPT !.phase = "done"]
<1>0. /\ s0 \in Nat /\ s1 \in Nat /\ sorted \in BOOLEAN /\ P \subseteq DOMAIN slots \ T
      /\ sorted => s1 <= setup.ranked
  BY DEF Given
<1>1. /\ r \in ScanSet(slots, setup) /\ Pending(r) = {} /\ T \in SUBSET DOMAIN slots /\ S \subseteq T
      /\ TopFits(slots, setup, q, r.top, T) /\ ListFits(slots, q, r.matches, S)
      /\ r.resumable => r.count = Cardinality(MatchesOf(slots, q, S))
  <2>1. Pending(r) = {}
    BY DEF Pending, Rests
  <2> QED BY <2>1 DEF Fits
<1>2. /\ e \in ScanSet(slots, setup) /\ d \in ScanSet(slots, setup)
      /\ e.at = s0 /\ e.end = s1 /\ e.phase = "scan" /\ e.sorted = sorted
      /\ e.matches = r.matches /\ e.count = r.count /\ e.top = r.top /\ e.cut = r.cut
      /\ e.cutAt = r.cutAt /\ e.resumable = r.resumable
      /\ d.at = s0 /\ d.end = s1 /\ d.phase = "done" /\ d.sorted = sorted
      /\ d.matches = r.matches /\ d.count = r.count /\ d.top = r.top /\ d.cut = r.cut
      /\ d.cutAt = r.cutAt /\ d.resumable = r.resumable
  <2>1. /\ e \in ScanSet(slots, setup)
        /\ e.at = s0 /\ e.end = s1 /\ e.phase = "scan" /\ e.sorted = sorted
        /\ e.matches = r.matches /\ e.count = r.count /\ e.top = r.top /\ e.cut = r.cut
        /\ e.cutAt = r.cutAt /\ e.resumable = r.resumable
    BY <1>0, <1>1 DEF ScanSet
  <2> HIDE DEF e
  <2>2. /\ d \in ScanSet(slots, setup)
        /\ d.at = s0 /\ d.end = s1 /\ d.phase = "done" /\ d.sorted = sorted
        /\ d.matches = r.matches /\ d.count = r.count /\ d.top = r.top /\ d.cut = r.cut
        /\ d.cutAt = r.cutAt /\ d.resumable = r.resumable
    BY <1>0, <2>1 DEF ScanSet
  <2> QED BY <2>1, <2>2
<1>3. /\ s0 >= s1 => z = d
      /\ s0 < s1 /\ sorted /\ BelowCut(s0, th) => z = Cut(e, s0, th)
      /\ s0 < s1 /\ ~(sorted /\ BelowCut(s0, th)) => z = e
  BY <1>0 DEF Enter
<1> HIDE DEF z, e, d
<1>4. CutFits(slots, setup, q, r, T, S)
  BY DEF Fits
<1>5. \A i \in T : i \in Nat
  BY <1>1 DEF NamesFit
<1>6. CASE s0 >= s1
  <2>1. z = d /\ P = {} /\ Pending(d) = {}
    BY <1>0, <1>2, <1>3, <1>6 DEF Pending
  <2>2. CutFits(slots, setup, q, d, T, S)
    BY <1>0, <1>1, <1>2, <1>4, <2>1 DEF CutFits
  <2>3. Fits(slots, setup, q, d, T, S)
    BY <1>1, <1>2, <2>1, <2>2 DEF Fits
  <2>4. T \cup P = T
    BY <2>1
  <2> QED BY <1>2, <2>1, <2>3, <2>4 DEF Neat, Tidy, Ready, z
<1>7. CASE s0 < s1
  <2>1. Pending(e) = P
    BY <1>0, <1>2 DEF Pending
  <2>2. (T \cup P) \ P = T /\ T \cup P \in SUBSET DOMAIN slots
    BY <1>0, <1>1
  <2>3. CutFits(slots, setup, q, e, T \cup P, S)
    <3>1. \A i \in (T \cup P) \ Pending(e) : i < e.cutAt \/ i >= setup.ranked => i \in S
      BY <1>1, <1>2, <1>4, <2>1, <2>2 DEF CutFits
    <3> QED BY <1>0, <1>2, <1>4, <1>7, <3>1 DEF CutFits
  <2>4. Fits(slots, setup, q, e, T \cup P, S)
    <3>1. /\ TopFits(slots, setup, q, e.top, (T \cup P) \ Pending(e)) /\ S \subseteq (T \cup P) \ Pending(e)
          /\ Pending(e) \subseteq T \cup P
      BY <1>1, <1>2, <2>1, <2>2
    <3> QED BY <1>1, <1>2, <2>2, <2>3, <3>1 DEF Fits
  <2>5. Ready(setup, r, S, s0, s1, sorted) => Neat(setup, e, S)
    BY <1>2 DEF Neat, Tidy, Ready
  <2>6. CASE z = e
    BY <1>2, <2>4, <2>5, <2>6 DEF z
  <2>7. CASE sorted /\ BelowCut(s0, th) /\ z = Cut(e, s0, th)
    <3>1. /\ Fits(slots, setup, q, Cut(e, e.at, th), T \cup P, S)
          /\ Neat(setup, e, S) => Neat(setup, Cut(e, e.at, th), S)
          /\ Cut(e, e.at, th).phase = "bonus" /\ Cut(e, e.at, th).end = e.end
      <4>1. e.phase = "scan" /\ e.sorted /\ BelowCut(e.at, th)
        BY <1>2, <2>7
      <4> DEFINE D == T \cup P
      <4>2. Fits(slots, setup, q, e, D, S)
        BY <2>4
      <4> HIDE DEF D, e, P
      <4>3. /\ Fits(slots, setup, q, Cut(e, e.at, th), D, S)
            /\ Neat(setup, e, S) => Neat(setup, Cut(e, e.at, th), S)
            /\ Cut(e, e.at, th).phase = "bonus" /\ Cut(e, e.at, th).end = e.end
        BY <4>1, <4>2, CutIsFit
      <4> QED BY <4>3 DEF D
    <3>2. z = Cut(e, e.at, th)
      BY <1>2, <2>7
    <3> QED BY <1>2, <2>5, <3>1, <3>2 DEF z
  <2> QED BY <1>3, <1>7, <2>6, <2>7
<1>8. s0 >= s1 \/ s0 < s1
  BY <1>0
<1> QED BY <1>6, <1>7, <1>8 DEF z

LEMMA OwnBounds ==
    ASSUME NamesFit(slots, setup), NEW q \in Queries, NEW r, NEW T, NEW S, Fits(slots, setup, q, r, T, S)
    PROVE  /\ BoundingIn(slots, setup, q, Threshold(r.top))
           /\ BoundingIn(slots, setup, q, shared) => BoundingIn(slots, setup, q, Own(r))
<1>1. TopOf(HitsIn(slots, q), Limit, r.top) /\ Limit \in Nat \ {0} /\ Limit = setup.limit
  BY SetupFits DEF Fits, TopFits, Limit, NamesFit
<1>2. Bounding(HitsIn(slots, q), Limit, Threshold(r.top))
  BY <1>1, NamesRank, ThresholdBounds
<1> QED BY <1>1, <1>2, LargerBounds DEF BoundingIn, Own

LEMMA ScanSlotsFits ==
    ASSUME NamesFit(slots, setup), NEW q \in Queries, NEW r, NEW T, NEW S, Fits(slots, setup, q, r, T, S),
           Rests(r), NEW s0, NEW s1, NEW sorted, Given(slots, setup, T, s0, s1, sorted),
           BoundingIn(slots, setup, q, shared),
           Ready(setup, r, S, s0, s1, sorted),
           NEW W, W = T \cup (s0..(s1 - 1))
    PROVE  \E U : /\ Fits(slots, setup, q, ScanSlots(r, q, s0, s1, sorted), W, U)
                  /\ Neat(setup, ScanSlots(r, q, s0, s1, sorted), U)
                  /\ ScanSlots(r, q, s0, s1, sorted).phase = "done"
                  /\ ScanSlots(r, q, s0, s1, sorted).end = s1
<1> DEFINE e == Enter(r, s0, s1, sorted, Own(r))
<1> DEFINE P == s0..(s1 - 1)
<1>1. BoundingIn(slots, setup, q, Own(r))
  BY OwnBounds
<1>2. /\ Fits(slots, setup, q, e, T \cup P, S) /\ Neat(setup, e, S)
      /\ e.phase \in {"scan", "bonus", "done"} /\ e.end = s1
  <2> DEFINE th == Own(r)
  <2>1. BoundingIn(slots, setup, q, th)
    BY <1>1
  <2> HIDE DEF th
  <2>2. /\ Fits(slots, setup, q, Enter(r, s0, s1, sorted, th), T \cup (s0..(s1 - 1)), S)
        /\ Ready(setup, r, S, s0, s1, sorted) => Neat(setup, Enter(r, s0, s1, sorted, th), S)
        /\ Enter(r, s0, s1, sorted, th).phase \in {"scan", "bonus", "done"}
        /\ Enter(r, s0, s1, sorted, th).end = s1
    BY <2>1, EnterFits
  <2> QED BY <2>2 DEF th
<1>3. ScanSlots(r, q, s0, s1, sorted) = Alone(e, q)
  BY DEF ScanSlots
<1>5. W = T \cup P
  OBVIOUS
<1> HIDE DEF e, P
<1>4. /\ \E U : /\ Fits(slots, setup, q, Alone(e, q), W, U)
                /\ Neat(setup, e, S) => Neat(setup, Alone(e, q), U)
      /\ Alone(e, q).phase = "done" /\ Alone(e, q).end = e.end
  BY <1>2, <1>5, AloneFits
<1> QED BY <1>2, <1>3, <1>4 DEF P

LEMMA BonusOnlyFits ==
    ASSUME NamesFit(slots, setup), NEW q \in Queries, NEW r, NEW T, NEW S, Fits(slots, setup, q, r, T, S),
           Rests(r), NEW s0 \in Nat, NEW s1 \in Nat, s0..(s1 - 1) \subseteq DOMAIN slots \ T,
           s0 <= s1, s1 <= setup.ranked, r.cut, r.cutAt <= s0,
           BoundingIn(slots, setup, q, shared), Tidy(setup, r, S)
    PROVE  \E U : /\ Fits(slots, setup, q, BonusOnly(r, q, s0, s1), T \cup (s0..(s1 - 1)), U)
                  /\ Neat(setup, BonusOnly(r, q, s0, s1), U)
                  /\ BonusOnly(r, q, s0, s1).phase = "done"
<1> DEFINE P == s0..(s1 - 1)
<1> DEFINE s == StopFrom(s0, s1, Own(r))
<1> DEFINE e == [r EXCEPT !.at = s0, !.end = s1, !.phase = "bonus", !.stop = s]
<1>1. /\ r \in ScanSet(slots, setup) /\ Pending(r) = {} /\ T \in SUBSET DOMAIN slots /\ S \subseteq T
      /\ TopFits(slots, setup, q, r.top, T) /\ ListFits(slots, q, r.matches, S)
      /\ r.resumable => r.count = Cardinality(MatchesOf(slots, q, S))
      /\ CutFits(slots, setup, q, r, T, S)
  <2>1. Pending(r) = {}
    BY DEF Pending, Rests
  <2> QED BY <2>1 DEF Fits
<1>2. BoundingIn(slots, setup, q, Own(r))
  BY OwnBounds
<1>3. s \in s0..s1 /\ \A i \in s..(s1 - 1) : MatchIn(slots, q, i) => BeatenIn(slots, setup, q, i)
  BY <1>2, StopFits DEF Ranked
<1>4. BonusOnly(r, q, s0, s1) = Alone(e, q)
  BY DEF BonusOnly
<1>5. s \in Nat /\ s <= s1
  BY <1>3
<1> HIDE DEF s
<1>6. /\ e \in ScanSet(slots, setup)
      /\ e.at = s0 /\ e.end = s1 /\ e.phase = "bonus" /\ e.stop = s
      /\ e.matches = r.matches /\ e.count = r.count /\ e.top = r.top /\ e.cut = r.cut
      /\ e.cutAt = r.cutAt /\ e.resumable = r.resumable
  BY <1>1, <1>5 DEF ScanSet
<1> HIDE DEF e
<1>7. Pending(e) = P
  BY <1>6 DEF Pending
<1>8. (T \cup P) \ P = T /\ T \cup P \in SUBSET DOMAIN slots
  BY <1>1
<1>9. CutFits(slots, setup, q, e, T \cup P, S)
  <2>1. \A i \in (T \cup P) \ Pending(e) : i < e.cutAt \/ i >= setup.ranked => i \in S
    BY <1>1, <1>6, <1>7, <1>8 DEF CutFits
  <2> QED BY <1>1, <1>3, <1>5, <1>6, <2>1 DEF CutFits
<1>10. Fits(slots, setup, q, e, T \cup P, S)
  <2>1. /\ TopFits(slots, setup, q, e.top, (T \cup P) \ Pending(e)) /\ S \subseteq (T \cup P) \ Pending(e)
        /\ Pending(e) \subseteq T \cup P
    BY <1>1, <1>6, <1>7, <1>8
  <2> QED BY <1>1, <1>6, <1>8, <1>9, <2>1 DEF Fits
<1>11. Neat(setup, e, S)
  <2>1. r.cutAt \in Nat
    BY <1>1, SetupFits DEF ScanSet, NamesFit
  <2> QED BY <1>6, <2>1 DEF Neat, Tidy
<1> HIDE DEF P
<1>12. /\ \E U : /\ Fits(slots, setup, q, Alone(e, q), T \cup P, U)
                 /\ Neat(setup, e, S) => Neat(setup, Alone(e, q), U)
       /\ Alone(e, q).phase = "done"
  BY <1>6, <1>10, AloneFits
<1> QED BY <1>4, <1>11, <1>12 DEF P

-----------------------------------------------------------------------------
(* The calling thread. *)

\* What is kept of a search: all matches before the resume point and behind
\* the ranked region, each once.
CoveredIn(sl, su, resume) == {i \in DOMAIN sl : i < resume \/ i >= su.ranked}
KeptIn(sl, su, st) ==
    /\ st.resume \in 0..su.ranked /\ st.slots \in Seq(DOMAIN sl)
    /\ st.valid =>
          /\ {st.slots[k] : k \in 1..Len(st.slots)} = MatchesOf(sl, st.query, CoveredIn(sl, su, st.resume))
          /\ \A k, l \in 1..Len(st.slots) : st.slots[k] = st.slots[l] => k = l

\* The query narrows what is kept.
Narrows(st, su, q) ==
    st.valid /\ <<q, st.query>> \in Extends /\ Len(st.slots) < su.recordCap /\ st.resume <= su.ranked

LEMMA IncrementalNarrows ==
    ASSUME NEW q
    PROVE  Incremental(q) <=> Narrows(state, setup, q)
  BY DEF Incremental, Narrows, RecordCap, Ranked

\* A scan that rests, with a list without gaps.
Whole(sl, su, q, r, T) ==
    /\ Fits(sl, su, q, r, T, T)
    /\ r.phase = "done" /\ ~r.cut

LEMMA FreshWhole ==
    ASSUME NamesFit(slots, setup), NEW q \in Queries
    PROVE  Whole(slots, setup, q, FreshScan, {})
  BY FreshFits DEF Whole

\* The slots accounted for when k of the kept matches have been checked again.
Rechecked(k) ==
    {i \in CoveredIn(slots, setup, state.resume) : ~MatchIn(slots, state.query, i)}
        \cup {state.slots[j] : j \in 1..k}

LEMMA NarrowedFits ==
    ASSUME NamesFit(slots, setup), NEW q \in Queries, KeptIn(slots, setup, state), Incremental(q)
    PROVE  Whole(slots, setup, q, Narrowed(q), CoveredIn(slots, setup, state.resume))
<1> DEFINE n == Len(state.slots)
<1> DEFINE keep(r, i) == [r EXCEPT !.matches = Append(@, i), !.count = @ + 1]
<1> DEFINE next(r, i) ==
       IF ~Matches(q, i) THEN r
       ELSE IF CannotReach(q, i, Threshold(r.top)) THEN keep(r, i)
       ELSE Scored(keep(r, i), q, i)
<1> DEFINE V == [k \in 0..n |-> {y \in ScanSet(slots, setup) : Whole(slots, setup, q, y, Rechecked(k))}]
<1> DEFINE f == [k \in 1..n |-> [y \in ScanSet(slots, setup) |-> next(y, state.slots[k])]]
<1>1. /\ n \in Nat /\ state.slots \in Seq(DOMAIN slots)
      /\ \A k \in 1..n : state.slots[k] \in DOMAIN slots
      /\ {state.slots[k] : k \in 1..n} = MatchesOf(slots, state.query, CoveredIn(slots, setup, state.resume))
      /\ \A k, l \in 1..n : state.slots[k] = state.slots[l] => k = l
      /\ <<q, state.query>> \in Extends
  BY DEF KeptIn, Incremental
<1>2. \A i \in DOMAIN slots : MatchIn(slots, q, i) => MatchIn(slots, state.query, i)
  BY <1>1 DEF NamesFit, MatchIn
<1>3. Rechecked(0) = {i \in CoveredIn(slots, setup, state.resume) : ~MatchIn(slots, state.query, i)}
  BY DEF Rechecked
<1>4. Rechecked(n) = CoveredIn(slots, setup, state.resume)
  BY <1>1 DEF Rechecked, MatchesOf
<1>5. ASSUME NEW k \in 1..n
      PROVE  /\ Rechecked(k) = Rechecked(k - 1) \cup {state.slots[k]}
             /\ state.slots[k] \notin Rechecked(k - 1)
             /\ Rechecked(k - 1) \in SUBSET DOMAIN slots
  <2>1. 1..k = (1..(k - 1)) \cup {k} /\ k \notin 1..(k - 1) /\ 1..(k - 1) \subseteq 1..n
    BY <1>1
  <2>2. state.slots[k] \in MatchesOf(slots, state.query, CoveredIn(slots, setup, state.resume))
    BY <1>1
  <2>3. MatchIn(slots, state.query, state.slots[k])
    BY <2>2 DEF MatchesOf
  <2>4. state.slots[k] \notin {state.slots[j] : j \in 1..(k - 1)}
    BY <1>1, <2>1
  <2>5. {state.slots[j] : j \in 1..k} = {state.slots[j] : j \in 1..(k - 1)} \cup {state.slots[k]}
    BY <2>1
  <2>6. {state.slots[j] : j \in 1..(k - 1)} \in SUBSET DOMAIN slots
    BY <1>1, <2>1
  <2> HIDE DEF n
  <2> QED BY <2>3, <2>4, <2>5, <2>6 DEF Rechecked, CoveredIn
<1>6. FreshScan \in V[0]
  <2>1. Fits(slots, setup, q, FreshScan, {}, {}) /\ FreshScan.phase = "done" /\ ~FreshScan.cut
        /\ FreshScan.top = <<>> /\ FreshScan.matches = <<>> /\ FreshScan.count = 0
    BY FreshFits
  <2> DEFINE D == Rechecked(0)
  <2>2. D \in SUBSET DOMAIN slots /\ \A i \in D : ~MatchIn(slots, q, i)
    BY <1>2, <1>3 DEF CoveredIn
  <2>3. 0 \in 0..n
    BY <1>1
  <2> HIDE DEF D, n
  <2>4. /\ FreshScan \in ScanSet(slots, setup) /\ TopFits(slots, setup, q, FreshScan.top, {})
        /\ CutFits(slots, setup, q, FreshScan, {}, {})
        /\ ListFits(slots, q, FreshScan.matches, {})
        /\ FreshScan.resumable => FreshScan.count = Cardinality(MatchesOf(slots, q, {}))
    BY <2>1 DEF Fits, Pending
  <2>5. MatchesOf(slots, q, D) = {} /\ MatchesOf(slots, q, {}) = {}
    BY <2>2 DEF MatchesOf
  <2>6. TopFits(slots, setup, q, FreshScan.top, {} \cup D)
    BY <2>2, <2>4, TopStays
  <2>7. CutFits(slots, setup, q, FreshScan, D, D)
    BY <2>1, <2>4 DEF CutFits
  <2>8. ListFits(slots, q, FreshScan.matches, D)
    BY <2>1, <2>4, <2>5 DEF ListFits
  <2>9. Pending(FreshScan) = {} /\ {} \cup D = D
    BY <2>1 DEF Pending
  <2>10. Fits(slots, setup, q, FreshScan, D, D)
    BY <2>2, <2>4, <2>5, <2>6, <2>7, <2>8, <2>9 DEF Fits
  <2> QED BY <2>1, <2>3, <2>4, <2>10 DEF Whole, D
<1>7. ASSUME NEW k \in 1..n, NEW y \in V[k - 1]
      PROVE  f[k][y] \in V[k] /\ f[k][y] = next(y, state.slots[k])
  <2> DEFINE i == state.slots[k]
  <2> DEFINE D == Rechecked(k - 1)
  <2> DEFINE z == next(y, i)
  <2>1. k - 1 \in 0..n /\ k \in 0..n
    BY <1>1
  <2>2. y \in ScanSet(slots, setup) /\ Whole(slots, setup, q, y, D)
    <3> HIDE DEF n
    <3> QED BY <2>1
  <2>3. i \in DOMAIN slots /\ D \in SUBSET DOMAIN slots /\ i \notin D /\ Rechecked(k) = D \cup {i}
    BY <1>1, <1>5
  <2> DEFINE E == D \cup {i}
  <2>4. /\ TopFits(slots, setup, q, y.top, D) /\ ListFits(slots, q, y.matches, D)
        /\ y.resumable /\ y.count = Cardinality(MatchesOf(slots, q, D))
        /\ y.phase = "done" /\ ~y.cut /\ y.cutAt = setup.ranked
        /\ y.matches \in Seq(DOMAIN slots) /\ y.count \in Nat
    <3>1. Fits(slots, setup, q, y, D, D) /\ y.phase = "done" /\ ~y.cut
      BY <2>2 DEF Whole
    <3>2. CutFits(slots, setup, q, y, D, D) /\ Pending(y) = {} /\ y \in ScanSet(slots, setup)
      BY <3>1 DEF Fits, Pending
    <3> QED BY <3>1, <3>2 DEF Fits, CutFits, ScanSet
  <2>5. f[k][y] = z
    BY <2>2
  <2>6. MatchIn(slots, q, i) <=> Matches(q, i)
    BY DEF MatchIn, Matches, Listed, Of
  \* What accounts for the match as well.
  <2>7. ASSUME NEW x \in ScanSet(slots, setup), SameScan(x, y), TopFits(slots, setup, q, x.top, E),
               ListFits(slots, q, x.matches, E), x.count = Cardinality(MatchesOf(slots, q, E)), z = x
        PROVE  z \in V[k]
    <3> HIDE DEF n, z, D
    <3>1. x.phase = "done" /\ ~x.cut /\ x.cutAt = setup.ranked /\ x.resumable
      BY <2>4, <2>7 DEF SameScan
    <3>2. Pending(x) = {} /\ CutFits(slots, setup, q, x, E, E)
      BY <3>1 DEF CutFits, Pending
    <3>3. E \in SUBSET DOMAIN slots
      BY <2>3
    <3> HIDE DEF E
    <3>4. Fits(slots, setup, q, x, E, E)
      BY <2>7, <3>1, <3>2, <3>3 DEF Fits
    <3>5. Whole(slots, setup, q, x, Rechecked(k))
      BY <2>3, <3>1, <3>4 DEF Whole, E
    <3> QED BY <2>1, <2>7, <3>5
  <2>8. CASE ~MatchIn(slots, q, i)
    <3>1. z = y
      BY <2>6, <2>8
    <3>2. TopFits(slots, setup, q, y.top, E)
      BY <2>4, <2>8, TopStays
    <3>3. ListFits(slots, q, y.matches, E) /\ MatchesOf(slots, q, E) = MatchesOf(slots, q, D)
      BY <2>4, <2>8, ListStays
    <3>4. SameScan(y, y)
      BY DEF SameScan
    <3> HIDE DEF n, z, D, E
    <3> QED BY <2>2, <2>4, <2>5, <2>7, <3>1, <3>2, <3>3, <3>4 DEF z
  <2>9. CASE MatchIn(slots, q, i)
    <3> DEFINE x == keep(y, i)
    <3>1. /\ x \in ScanSet(slots, setup) /\ SameScan(x, y) /\ x.matches = Append(y.matches, i)
          /\ x.count = y.count + 1 /\ x.top = y.top
      <4>1. Append(y.matches, i) \in Seq(DOMAIN slots) /\ y.count + 1 \in Nat
        BY <2>3, <2>4, AppendProperties
      <4>2. x = [y EXCEPT !.matches = Append(y.matches, i), !.count = y.count + 1]
        OBVIOUS
      <4> HIDE DEF x
      <4> QED BY <2>2, <4>1, <4>2 DEF ScanSet, SameScan
    <3>2. IsFiniteSet(DOMAIN slots)
      BY NamesRank
    <3>3. /\ ListFits(slots, q, Append(y.matches, i), E)
          /\ Cardinality(MatchesOf(slots, q, E)) = Cardinality(MatchesOf(slots, q, D)) + 1
      BY <2>3, <2>4, <2>9, <3>2, ListGrows
    <3>4. ListFits(slots, q, x.matches, E) /\ x.count = Cardinality(MatchesOf(slots, q, E))
      BY <2>4, <3>1, <3>3
    <3> HIDE DEF x
    <3>5. CASE z = x /\ CannotReach(q, i, Threshold(y.top))
      <4>1. Ceiling + slots[i].of[q].room + slots[i].base < Threshold(y.top)
        BY <3>5 DEF CannotReach, Of
      <4>2. BoundingIn(slots, setup, q, Threshold(y.top))
        BY <2>2, OwnBounds DEF Whole
      <4>3. BeatenIn(slots, setup, q, i)
        BY <2>3, <2>9, <4>1, <4>2, PassedIsBeaten
      <4>4. TopFits(slots, setup, q, y.top, E)
        BY <2>4, <4>3, TopStays
      <4> HIDE DEF n, z, D, E
      <4> QED BY <2>5, <2>7, <3>1, <3>4, <3>5, <4>4 DEF z
    <3>6. CASE z = Scored(x, q, i)
      <4> DEFINE o == Offer(y.top, HitOf(q, i))
      <4> DEFINE w == Scored(x, q, i)
      <4>1. TopFits(slots, setup, q, o, E)
        BY <2>3, <2>4, <2>9, TopGrows
      <4>2. o \in Seq([entry : Int, score : Int])
        BY <4>1, TopTypes
      <4>3. /\ w \in ScanSet(slots, setup) /\ SameScan(w, x) /\ w.matches = x.matches /\ w.count = x.count
            /\ w.top = o
        BY <3>1, <4>2, ScoredFits
      <4> HIDE DEF w, o, n, z, D, E
      <4>4. SameScan(w, y)
        BY <3>1, <4>3 DEF SameScan
      <4>5. z = w
        BY <3>6 DEF w
      <4> QED BY <2>5, <2>7, <3>4, <4>1, <4>3, <4>4, <4>5 DEF z
    <3>7. z = Scored(x, q, i) \/ (z = x /\ CannotReach(q, i, Threshold(y.top)))
      BY <2>6, <2>9 DEF x
    <3> QED BY <3>5, <3>6, <3>7
  <2> QED BY <2>8, <2>9
<1> DEFINE Is(g) == g = [k \in 0..n |-> IF k = 0 THEN FreshScan ELSE next(g[k - 1], state.slots[k])]
<1>8. /\ \E g : Iterated(g, n, f, FreshScan) /\ Within(g, n, V)
      /\ \A h : Follows(h, n, f, FreshScan, V) => Within(h, n, V)
  <2>1. Leads(f, n, V)
    BY <1>7 DEF Leads
  <2> HIDE DEF n, V, f
  <2> QED BY <1>1, <1>6, <2>1, Iterates
<1>9. \E g : Is(g)
  <2>1. PICK g : Iterated(g, n, f, FreshScan) /\ Within(g, n, V)
    BY <1>8
  <2>2. ASSUME NEW k \in 0..n, k # 0 PROVE f[k][g[k - 1]] = next(g[k - 1], state.slots[k])
    <3>1. k \in 1..n /\ k - 1 \in 0..n
      BY <1>1, <2>2
    <3> HIDE DEF n, V, f, next
    <3> QED BY <1>7, <2>1, <3>1 DEF Within
  <2> HIDE DEF n, V, f, next
  <2>3. g = [k \in 0..n |-> IF k = 0 THEN FreshScan ELSE next(g[k - 1], state.slots[k])]
    BY <2>1, <2>2 DEF Iterated
  <2> QED BY <2>3
<1> DEFINE h == CHOOSE g : Is(g)
<1>10. Is(h)
  <2> HIDE DEF Is
  <2> QED BY <1>9
<1>11. Narrowed(q) = h[n]
  BY DEF Narrowed
<1>12. h[n] \in V[n]
  <2> HIDE DEF h
  <2>1. h[0] = FreshScan
    <3>1. 0 \in 0..n
      BY <1>1
    <3> HIDE DEF n, next
    <3> QED BY <1>10, <3>1
  <2>2. ASSUME NEW k \in 1..n, h[k - 1] \in V[k - 1] PROVE h[k] = f[k][h[k - 1]]
    <3>1. h[k] = next(h[k - 1], state.slots[k])
      <4>1. k \in 0..n /\ k # 0
        BY <1>1
      <4> HIDE DEF n, next
      <4> QED BY <1>10, <4>1
    <3> HIDE DEF n, next, f, V
    <3> QED BY <1>7, <2>2, <3>1
  <2>3. n \in 0..n
    BY <1>1
  <2> HIDE DEF n, V, f
  <2>4. Follows(h, n, f, FreshScan, V)
    BY <2>1, <2>2 DEF Follows
  <2> QED BY <1>8, <2>3, <2>4 DEF Within
<1> HIDE DEF h, n
<1>13. n \in 0..n
  BY <1>1
<1> QED BY <1>4, <1>11, <1>12, <1>13

\* The names added since the last Reorder, when the query has them already.
Behind(sl, su, st, q) == IF Narrows(st, su, q) THEN su.ranked..(su.size - 1) ELSE {}

\* The scan of the calling thread has the ranked slots before e.
Up(sl, su, st, q, e) == (0..(e - 1)) \cup Behind(sl, su, st, q)
MainFits(sl, su, st, q, r, e) ==
    /\ r.phase = "done"
    /\ \E S : Fits(sl, su, q, r, Up(sl, su, st, q, e), S) /\ Tidy(su, r, S)

LEMMA UpTo ==
    ASSUME NamesFit(slots, setup), NEW q, NEW d \in Nat, NEW e \in Nat, d <= e, e <= setup.ranked
    PROVE  /\ d..(e - 1) \subseteq DOMAIN slots \ Up(slots, setup, state, q, d)
           /\ Up(slots, setup, state, q, d) \cup (d..(e - 1)) = Up(slots, setup, state, q, e)
           /\ \A i \in Up(slots, setup, state, q, d) : i < d \/ i >= setup.ranked
<1>1. setup.ranked \in Nat /\ setup.size \in Nat /\ setup.ranked <= setup.size /\ DOMAIN slots = 0..(setup.size - 1)
  BY SetupFits DEF NamesFit
<1>2. CASE Behind(slots, setup, state, q) = {}
  BY <1>1, <1>2 DEF Up
<1>3. CASE Behind(slots, setup, state, q) = setup.ranked..(setup.size - 1)
  <2>1. (0..(d - 1)) \cup (d..(e - 1)) = 0..(e - 1)
    OBVIOUS
  <2> QED BY <1>1, <1>3, <2>1 DEF Up
<1> QED BY <1>2, <1>3 DEF Behind

LEMMA ProbeBounds ==
    ASSUME NamesFit(slots, setup), NEW b \in 0..Ranked
    PROVE  ProbeEnd(b) \in b..Ranked
<1>1. Ranked \in Nat /\ Ranked = setup.ranked /\ setup.probe \in Nat \ {0}
  BY SetupFits DEF NamesFit, Ranked
<1> DEFINE d == (Ranked - b) \div setup.probe
<1>2. d \in Nat /\ d <= Ranked - b
  <2> DEFINE a == Ranked - b
  <2> DEFINE c == setup.probe
  <2>1. a \in Nat /\ c \in Nat /\ c >= 1
    BY <1>1
  <2> HIDE DEF a, c
  <2>2. a \div c \in Int /\ c * (a \div c) <= a /\ a < c * (a \div c) + c
    BY <2>1
  <2>3. a \div c >= 0
    BY <2>1, <2>2
  <2>4. c * (a \div c) >= a \div c
    BY <2>1, <2>2, <2>3
  <2> QED BY <2>1, <2>2, <2>3, <2>4 DEF a, c
<1>3. ProbeEnd(b) \in {Ranked, b + d}
  BY DEF ProbeEnd
<1> QED BY <1>1, <1>2, <1>3

\* Where a search begins, and what it has before the first name is read.
LEMMA StartFits ==
    ASSUME NamesFit(slots, setup), NEW q \in Queries, KeptIn(slots, setup, state)
    PROVE  /\ Begin(q) \in 0..setup.ranked
           /\ Whole(slots, setup, q, Start(q), Up(slots, setup, state, q, Begin(q)))
<1>1. setup.ranked \in Nat /\ setup.size \in Nat /\ setup.ranked <= setup.size /\ DOMAIN slots = 0..(setup.size - 1)
  BY SetupFits DEF NamesFit
<1>2. CASE Incremental(q)
  <2>1. Begin(q) = state.resume /\ state.resume \in 0..setup.ranked /\ Start(q) = Narrowed(q)
    BY <1>2 DEF Begin, Start, KeptIn
  <2>2. Behind(slots, setup, state, q) = setup.ranked..(setup.size - 1)
    BY <1>2, IncrementalNarrows DEF Behind
  <2>3. CoveredIn(slots, setup, state.resume) = Up(slots, setup, state, q, Begin(q))
    BY <1>1, <2>1, <2>2 DEF CoveredIn, Up
  <2> QED BY <1>2, <2>1, <2>3, NarrowedFits
<1>3. CASE ~Incremental(q)
  <2>1. Begin(q) = 0 /\ Start(q) = FreshScan /\ Behind(slots, setup, state, q) = {}
    BY <1>3, IncrementalNarrows DEF Begin, Start, Behind
  <2>2. Up(slots, setup, state, q, Begin(q)) = {}
    BY <2>1 DEF Up
  <2>3. Whole(slots, setup, q, FreshScan, {})
    BY FreshWhole
  <2>4. Begin(q) \in 0..setup.ranked
    BY <1>1, <2>1
  <2>5. Whole(slots, setup, q, Start(q), Up(slots, setup, state, q, Begin(q)))
    BY ONLY <2>1, <2>2, <2>3
  <2> QED BY <2>4, <2>5
<1> QED BY <1>2, <1>3

Probe(q) == IF Begin(q) < Ranked THEN ScanSlots(Start(q), q, Begin(q), ProbeEnd(Begin(q)), TRUE) ELSE Start(q)

LEMMA ProbeFits ==
    ASSUME NamesFit(slots, setup), NEW q \in Queries, KeptIn(slots, setup, state),
           BoundingIn(slots, setup, q, shared), NEW p, p = ProbeEnd(Begin(q))
    PROVE  /\ p \in 0..setup.ranked /\ (~(Begin(q) < Ranked) => p = Ranked)
           /\ Probe(q).cut => Probe(q).cutAt <= p
           /\ MainFits(slots, setup, state, q, Probe(q), p)
<1> DEFINE b == Begin(q)
<1> DEFINE T == Up(slots, setup, state, q, b)
<1>1. setup.ranked \in Nat /\ Ranked = setup.ranked
  BY SetupFits DEF NamesFit, Ranked
<1>2. b \in 0..setup.ranked /\ Fits(slots, setup, q, Start(q), T, T) /\ Start(q).phase = "done" /\ ~Start(q).cut
  BY StartFits DEF Whole
<1>3. p \in b..Ranked
  BY <1>1, <1>2, ProbeBounds
<1>4. /\ b..(p - 1) \subseteq DOMAIN slots \ T /\ T \cup (b..(p - 1)) = Up(slots, setup, state, q, p)
      /\ \A i \in T : i < b \/ i >= setup.ranked
  <2>1. b \in Nat /\ p \in Nat /\ b <= p /\ p <= setup.ranked
    BY <1>1, <1>2, <1>3
  <2> HIDE DEF b
  <2> QED BY <2>1, UpTo
<1>5. Start(q).cutAt = setup.ranked
  BY <1>2 DEF Fits, CutFits
<1>6. CASE b < Ranked
  <2> DEFINE z == ScanSlots(Start(q), q, b, p, TRUE)
  <2>1. Probe(q) = z
    BY <1>6 DEF Probe
  <2>2. Given(slots, setup, T, b, p, TRUE)
    BY <1>1, <1>2, <1>3, <1>4 DEF Given
  <2>3. Ready(setup, Start(q), T, b, p, TRUE)
    <3>1. Tidy(setup, Start(q), T)
      <4>1. \A i \in T : i \in DOMAIN slots
        BY <1>2 DEF Fits
      <4>2. \A i \in T : i \in Nat
        BY <4>1 DEF NamesFit
      <4> HIDE DEF T, b
      <4> QED BY <1>1, <1>5, <4>2 DEF Tidy
    <3> HIDE DEF T, b
    <3> QED BY <1>2, <1>4, <3>1 DEF Ready
  <2>4. Rests(Start(q))
    BY <1>2 DEF Rests
  <2> HIDE DEF T, b, z
  <2>5. PICK U : /\ Fits(slots, setup, q, z, T \cup (b..(p - 1)), U) /\ Neat(setup, z, U)
                 /\ z.phase = "done" /\ z.end = p
    <3> DEFINE sorted == TRUE
    <3> DEFINE x == ScanSlots(Start(q), q, b, p, sorted)
    <3>1. Given(slots, setup, T, b, p, sorted) /\ Ready(setup, Start(q), T, b, p, sorted)
      BY <2>2, <2>3
    <3> DEFINE W == T \cup (b..(p - 1))
    <3>4. W = T \cup (b..(p - 1))
      OBVIOUS
    <3> HIDE DEF sorted, W
    <3>2. \E U : /\ Fits(slots, setup, q, x, W, U) /\ Neat(setup, x, U)
                 /\ x.phase = "done" /\ x.end = p
      BY <1>2, <2>4, <3>1, <3>4, ScanSlotsFits
    <3>3. x = z
      BY DEF z, sorted
    <3> HIDE DEF x
    <3> QED BY <3>2, <3>3, <3>4
  <2>6. MainFits(slots, setup, state, q, z, p)
    BY <1>4, <2>5 DEF MainFits, Neat, Tidy
  <2>7. p \in 0..setup.ranked
    BY <1>1, <1>2, <1>3
  <2> QED BY <1>6, <2>1, <2>5, <2>6, <2>7 DEF Neat, b
<1>7. CASE ~(b < Ranked)
  <2>1. b = Ranked /\ p = Ranked /\ Probe(q) = Start(q)
    BY <1>1, <1>2, <1>3, <1>7 DEF Probe
  <2>2. Tidy(setup, Start(q), T)
    <3>1. \A i \in T : i \in DOMAIN slots
      BY <1>2 DEF Fits
    <3>2. \A i \in T : i \in Nat
      BY <3>1 DEF NamesFit
    <3> HIDE DEF T, b
    <3> QED BY <1>1, <1>5, <3>2 DEF Tidy
  <2>3. MainFits(slots, setup, state, q, Start(q), p)
    <3>1. T = Up(slots, setup, state, q, p)
      BY <2>1
    <3> HIDE DEF T, b
    <3> QED BY <1>2, <2>2, <3>1 DEF MainFits
  <2> QED BY <1>1, <1>2, <2>1, <2>3
<1> QED BY <1>6, <1>7

\* The probe is cut, or the rest is near, or it is left to the threads.
LEMMA RestFits ==
    ASSUME NamesFit(slots, setup), NEW q \in Queries, BoundingIn(slots, setup, q, shared),
           NEW p \in 0..setup.ranked, NEW r, MainFits(slots, setup, state, q, r, p)
    PROVE  /\ r.cut /\ r.cutAt <= p
                  => MainFits(slots, setup, state, q, FinishCut(r, q, p), setup.ranked)
           /\ ~r.cut => MainFits(slots, setup, state, q, ScanSlots(r, q, p, Ranked, TRUE), setup.ranked)
<1> DEFINE T == Up(slots, setup, state, q, p)
<1>1. setup.ranked \in Nat /\ Ranked = setup.ranked /\ p \in Nat /\ p <= setup.ranked
  BY SetupFits DEF NamesFit, Ranked
<1>2. PICK S : Fits(slots, setup, q, r, T, S) /\ Tidy(setup, r, S)
  BY DEF MainFits
<1>3. r.phase = "done" /\ Rests(r)
  BY DEF MainFits, Rests
<1>4. /\ p..(Ranked - 1) \subseteq DOMAIN slots \ T
      /\ T \cup (p..(Ranked - 1)) = Up(slots, setup, state, q, setup.ranked)
      /\ \A i \in T : i < p \/ i >= setup.ranked
  BY <1>1, UpTo
<1>5. S \subseteq T
  BY <1>2 DEF Fits
<1> HIDE DEF T
<1>6. ASSUME r.cut, r.cutAt <= p PROVE MainFits(slots, setup, state, q, FinishCut(r, q, p), setup.ranked)
  <2> DEFINE z == BonusOnly(r, q, p, Ranked)
  <2>1. \E U : /\ Fits(slots, setup, q, z, T \cup (p..(Ranked - 1)), U) /\ Neat(setup, z, U)
               /\ z.phase = "done"
    <3>1. Ranked \in Nat /\ p <= Ranked /\ Ranked <= setup.ranked
      BY <1>1
    <3> QED BY <1>1, <1>2, <1>3, <1>4, <1>6, <3>1, BonusOnlyFits
  <2>2. FinishCut(r, q, p) = z
    BY DEF FinishCut
  <2> HIDE DEF z
  <2> QED BY <1>4, <2>1, <2>2 DEF MainFits, Neat, Tidy
<1>7. ASSUME ~r.cut PROVE MainFits(slots, setup, state, q, ScanSlots(r, q, p, Ranked, TRUE), setup.ranked)
  <2> DEFINE z == ScanSlots(r, q, p, Ranked, TRUE)
  <2>1. Given(slots, setup, T, p, Ranked, TRUE)
    BY <1>1, <1>4 DEF Given
  <2>2. Ready(setup, r, S, p, Ranked, TRUE)
    BY <1>2, <1>4, <1>5, <1>7 DEF Ready
  <2>3. \E U : /\ Fits(slots, setup, q, z, T \cup (p..(Ranked - 1)), U) /\ Neat(setup, z, U)
               /\ z.phase = "done" /\ z.end = Ranked
    <3> DEFINE sorted == TRUE
    <3> DEFINE x == ScanSlots(r, q, p, Ranked, sorted)
    <3>1. Given(slots, setup, T, p, Ranked, sorted) /\ Ready(setup, r, S, p, Ranked, sorted)
      BY <2>1, <2>2
    <3>3. x = z
      OBVIOUS
    <3> DEFINE W == T \cup (p..(Ranked - 1))
    <3>4. W = T \cup (p..(Ranked - 1))
      OBVIOUS
    <3> HIDE DEF sorted, W
    <3>2. \E U : /\ Fits(slots, setup, q, x, W, U) /\ Neat(setup, x, U)
                 /\ x.phase = "done" /\ x.end = Ranked
      BY <1>2, <1>3, <3>1, <3>4, ScanSlotsFits
    <3> HIDE DEF x, z
    <3> QED BY <3>2, <3>3, <3>4
  <2> HIDE DEF z
  <2>4. MainFits(slots, setup, state, q, z, setup.ranked)
    BY <1>4, <2>3 DEF MainFits, Neat, Tidy
  <2> QED BY <2>4 DEF z
<1> QED BY <1>6, <1>7

-----------------------------------------------------------------------------
(* The answer, and what is kept of it. *)

ResultIn(sl, su, q, res, cnt) ==
    /\ Len(res) = Smaller(su.limit, Cardinality(HitsIn(sl, q)))
    /\ \A k \in 1..Len(res) :
          res[k] \in HitsIn(sl, q) /\ Cardinality(Ahead(HitsIn(sl, q), res[k])) = k - 1
    /\ cnt.exact => cnt.n = Cardinality(HitsIn(sl, q))

\* A list that is as long as its matches are many has them all.
LEMMA FullList ==
    ASSUME NEW sl, NEW q, NEW m, NEW S \in SUBSET DOMAIN sl, ListFits(sl, q, m, S), IsFiniteSet(DOMAIN sl)
    PROVE  /\ {m[k] : k \in 1..Len(m)} \in SUBSET MatchesOf(sl, q, S)
           /\ Cardinality({m[k] : k \in 1..Len(m)}) = Len(m)
           /\ Len(m) = Cardinality(MatchesOf(sl, q, S)) <=> {m[k] : k \in 1..Len(m)} = MatchesOf(sl, q, S)
           /\ Cardinality(MatchesOf(sl, q, S)) \in Nat
<1> DEFINE R == {m[k] : k \in 1..Len(m)}
<1>1. Len(m) \in Nat /\ \A k, l \in 1..Len(m) : k # l => m[k] # m[l]
  BY DEF ListFits
<1>2. R \in SUBSET MatchesOf(sl, q, S)
  BY DEF ListFits
<1>3. Cardinality(R) = Len(m)
  BY <1>1, PlacesCount
<1> HIDE DEF R
<1>4. MatchesOf(sl, q, S) \in SUBSET DOMAIN sl
  BY DEF MatchesOf
<1>5. IsFiniteSet(MatchesOf(sl, q, S))
  BY <1>4, CountUpTo
<1>6. Cardinality(R) = Cardinality(MatchesOf(sl, q, S)) => R = MatchesOf(sl, q, S)
  BY <1>2, <1>5, CountUpTo
<1>7. Cardinality(MatchesOf(sl, q, S)) \in Nat
  BY <1>5, CountUpTo
<1> QED BY <1>2, <1>3, <1>6, <1>7 DEF R

LEMMA AnswerFits ==
    ASSUME NamesFit(slots, setup), NEW q \in Queries, NEW r, NEW S,
           Fits(slots, setup, q, r, DOMAIN slots, S), r.phase = "done", Tidy(setup, r, S)
    PROVE  /\ ResultIn(slots, setup, q, r.top, [n |-> r.count, exact |-> ~r.cut])
           /\ KeptIn(slots, setup, [valid |-> r.resumable /\ Len(r.matches) = r.count, query |-> q,
                                    slots |-> r.matches, resume |-> Covered(r)])
           /\ Len(r.top) <= setup.limit
<1> DEFINE H == HitsIn(slots, q)
<1> DEFINE D == DOMAIN slots
<1>1. /\ r \in ScanSet(slots, setup) /\ Pending(r) = {} /\ S \subseteq D
      /\ TopFits(slots, setup, q, r.top, D) /\ ListFits(slots, q, r.matches, S)
      /\ r.resumable => r.count = Cardinality(MatchesOf(slots, q, S))
      /\ CutFits(slots, setup, q, r, D, S)
  <2>1. Pending(r) = {}
    BY DEF Pending
  <2> QED BY <2>1 DEF Fits
<1>2. /\ Ranks(H) /\ IsFiniteSet(D) /\ Cardinality(H) = Cardinality(MatchingIn(slots, q))
      /\ setup.limit \in Nat \ {0}
  <2>1. setup.limit \in Nat \ {0}
    BY SetupFits DEF NamesFit
  <2> QED BY <2>1, NamesRank
<1>3. MatchingIn(slots, q) = MatchesOf(slots, q, D)
  BY DEF MatchingIn, MatchesOf
<1>4. \A h \in H : Holds(r.top, h) \/ Beaten(H, setup.limit, h)
  <2> SUFFICES ASSUME NEW i \in MatchingIn(slots, q)
               PROVE  Holds(r.top, HitIn(slots, q, i)) \/ BeatenIn(slots, setup, q, i)
    BY DEF HitsIn, BeatenIn
  <2> QED BY <1>1, <1>3 DEF TopFits, Accounted, MatchesOf
<1>5. TopOf(H, setup.limit, r.top)
  BY <1>1 DEF TopFits
<1>6. /\ Len(r.top) = Smaller(setup.limit, Cardinality(H))
      /\ \A k \in 1..Len(r.top) : r.top[k] \in H /\ Cardinality(Ahead(H, r.top[k])) = k - 1
  <2> HIDE DEF H
  <2> QED BY <1>2, <1>4, <1>5, TopIsRanking
<1>7. \A i \in D : i \in Nat
  BY DEF NamesFit
<1>8. S = {i \in D : i < r.cutAt \/ i >= setup.ranked}
  BY <1>1 DEF CutFits, Tidy
<1>9. ~r.cut => S = D /\ r.resumable
  <2> SUFFICES ASSUME ~r.cut PROVE S = D /\ r.resumable
    OBVIOUS
  <2>1. r.cutAt = setup.ranked /\ r.resumable
    BY <1>1 DEF CutFits
  <2>2. setup.ranked \in Nat
    BY SetupFits DEF NamesFit
  <2> HIDE DEF D
  <2> QED BY <1>7, <1>8, <2>1, <2>2
<1>10. ~r.cut => r.count = Cardinality(H)
  BY <1>1, <1>2, <1>3, <1>9
<1>11. ResultIn(slots, setup, q, r.top, [n |-> r.count, exact |-> ~r.cut])
  <2> DEFINE c == [n |-> r.count, exact |-> ~r.cut]
  <2>1. c.exact => c.n = Cardinality(H)
    BY <1>10
  <2> HIDE DEF c
  <2> QED BY <1>6, <2>1 DEF ResultIn, c
<1>12. Covered(r) = r.cutAt /\ r.cutAt \in 0..setup.ranked
  <2>1. ~r.cut => r.cutAt = setup.ranked
    BY <1>1 DEF CutFits
  <2> QED BY <1>1, <2>1 DEF Covered, Ranked, ScanSet
<1>13. KeptIn(slots, setup, [valid |-> r.resumable /\ Len(r.matches) = r.count, query |-> q,
                             slots |-> r.matches, resume |-> Covered(r)])
  <2> DEFINE st == [valid |-> r.resumable /\ Len(r.matches) = r.count, query |-> q,
                    slots |-> r.matches, resume |-> Covered(r)]
  <2>1. /\ st.valid => r.resumable /\ Len(r.matches) = r.count
        /\ st.query = q /\ st.slots = r.matches /\ st.resume = r.cutAt
    BY <1>12
  <2>2. CoveredIn(slots, setup, r.cutAt) = S
    BY <1>8 DEF CoveredIn
  <2>3. r.resumable /\ Len(r.matches) = r.count
            => {r.matches[k] : k \in 1..Len(r.matches)} = MatchesOf(slots, q, S)
    <3>1. S \in SUBSET DOMAIN slots
      BY <1>1
    <3> QED BY <1>1, <1>2, <3>1, FullList
  <2>4. r.matches \in Seq(DOMAIN slots) /\ \A k, l \in 1..Len(r.matches) : r.matches[k] = r.matches[l] => k = l
    BY <1>1 DEF ListFits
  <2> HIDE DEF st
  <2> QED BY <1>12, <2>1, <2>2, <2>3, <2>4 DEF KeptIn, st
<1>14. Len(r.top) <= setup.limit
  BY <1>1 DEF TopFits, TopOf
<1> QED BY <1>11, <1>13, <1>14

\* A query that narrows nothing scans the names that were added since.
LEMMA TailFits ==
    ASSUME NamesFit(slots, setup), NEW q \in Queries, BoundingIn(slots, setup, q, shared),
           MainFits(slots, setup, state, q, main, setup.ranked)
    PROVE  /\ WithTail(q).phase = "done"
           /\ \E S : Fits(slots, setup, q, WithTail(q), DOMAIN slots, S) /\ Tidy(setup, WithTail(q), S)
<1> DEFINE T == Up(slots, setup, state, q, setup.ranked)
<1>1. /\ setup.ranked \in Nat /\ setup.size \in Nat /\ setup.ranked <= setup.size
      /\ DOMAIN slots = 0..(setup.size - 1) /\ Ranked = setup.ranked /\ Size = setup.size
  BY SetupFits DEF NamesFit, Ranked, Size
<1>2. PICK S : Fits(slots, setup, q, main, T, S) /\ Tidy(setup, main, S)
  BY DEF MainFits
<1>3. main.phase = "done" /\ Rests(main)
  BY DEF MainFits, Rests
<1>4. CASE Incremental(q)
  <2>1. WithTail(q) = main /\ T = DOMAIN slots
    BY <1>1, <1>4, IncrementalNarrows DEF WithTail, Up, Behind
  <2> HIDE DEF T
  <2> QED BY <1>2, <1>3, <2>1
<1>5. CASE ~Incremental(q)
  <2> DEFINE z == ScanSlots(main, q, Ranked, Size, FALSE)
  <2>1. WithTail(q) = z /\ T = 0..(setup.ranked - 1)
    BY <1>5, IncrementalNarrows DEF WithTail, Up, Behind
  <2>2. Given(slots, setup, T, Ranked, Size, FALSE) /\ DOMAIN slots = T \cup (Ranked..(Size - 1))
    BY <1>1, <2>1 DEF Given
  <2>3. Ready(setup, main, S, Ranked, Size, FALSE)
    <3>1. main.cutAt \in 0..setup.ranked
      BY <1>2 DEF Fits, ScanSet
    <3> QED BY <1>1, <1>2, <3>1 DEF Ready
  <2>4. \E U : /\ Fits(slots, setup, q, z, DOMAIN slots, U) /\ Neat(setup, z, U)
               /\ z.phase = "done" /\ z.end = Size
    <3> DEFINE sorted == FALSE
    <3> DEFINE x == ScanSlots(main, q, Ranked, Size, sorted)
    <3> DEFINE W == DOMAIN slots
    <3>1. Given(slots, setup, T, Ranked, Size, sorted) /\ Ready(setup, main, S, Ranked, Size, sorted)
      BY <2>2, <2>3
    <3>2. x = z
      OBVIOUS
    <3>3. W = T \cup (Ranked..(Size - 1))
      BY <2>2
    <3> HIDE DEF sorted, W, T
    <3>4. \E U : /\ Fits(slots, setup, q, x, W, U) /\ Neat(setup, x, U)
                 /\ x.phase = "done" /\ x.end = Size
      BY <1>2, <1>3, <3>1, <3>3, ScanSlotsFits
    <3> HIDE DEF x, z
    <3> QED BY <3>2, <3>4 DEF W
  <2> HIDE DEF z
  <2> QED BY <2>1, <2>4 DEF Neat, Tidy
<1> QED BY <1>4, <1>5

-----------------------------------------------------------------------------
(* Joining the threads. *)

\* The slots whose hit is among the first j of the top of a thread.
Held(q, top, E, j) == {i \in E : MatchIn(slots, q, i) /\ \E l \in 1..j : top[l] = HitIn(slots, q, i)}

\* The hits of another top are offered one after the other.
LEMMA OfferedFits ==
    ASSUME NamesFit(slots, setup), NEW q \in Queries,
           NEW D \in SUBSET DOMAIN slots, NEW top, TopFits(slots, setup, q, top, D),
           NEW E \in SUBSET DOMAIN slots, NEW other, TopFits(slots, setup, q, other, E), D \cap E = {}
    PROVE  TopFits(slots, setup, q, Offered(top, other), D \cup E)
<1> DEFINE n == Len(other)
<1> DEFINE R == Seq([entry : Int, score : Int])
<1> DEFINE V == [j \in 0..n |-> {t \in R : TopFits(slots, setup, q, t, D \cup Held(q, other, E, j))}]
<1> DEFINE f == [j \in 1..n |-> [t \in R |-> Offer(t, other[j])]]
<1>1. /\ n \in Nat
      /\ \A j \in 1..n : \E i \in E : MatchIn(slots, q, i) /\ other[j] = HitIn(slots, q, i)
      /\ \A i \in E : MatchIn(slots, q, i) => Holds(other, HitIn(slots, q, i)) \/ BeatenIn(slots, setup, q, i)
  <2>1. n \in Nat
    BY TopTypes
  <2>2. \A j \in 1..n : Holds(other, other[j])
    BY DEF Holds
  <2> QED BY <2>1, <2>2 DEF TopFits, Accounted
<1>2. \A i, k \in DOMAIN slots : HitIn(slots, q, i) = HitIn(slots, q, k) => i = k
  BY NamesRank
<1>3. \A k, l \in 1..n : k < l => other[k] # other[l]
  <2> TAKE k, l \in 1..n
  <2>1. SUFFICES ASSUME k < l PROVE other[k] # other[l]
    OBVIOUS
  <2>2. Better(other[k], other[l]) /\ other[l] \in HitsIn(slots, q)
    BY <2>1 DEF TopFits, TopOf
  <2>3. ~Better(other[l], other[l])
    BY <2>2, NamesRank, BetterOrders
  <2> QED BY <2>2, <2>3
<1>4. top \in V[0]
  <2>1. Held(q, other, E, 0) = {} /\ 0 \in 0..n
    BY <1>1 DEF Held
  <2>2. top \in R
    BY TopTypes
  <2>3. D \cup {} = D
    OBVIOUS
  <2> HIDE DEF n, R
  <2> QED BY <2>1, <2>2, <2>3
<1>5. ASSUME NEW j \in 1..n, NEW t \in V[j - 1]
      PROVE  f[j][t] \in V[j] /\ f[j][t] = Offer(t, other[j])
  <2>1. j - 1 \in 0..n /\ j \in 0..n
    BY <1>1
  <2> DEFINE C == D \cup Held(q, other, E, j - 1)
  <2>2. t \in R /\ TopFits(slots, setup, q, t, C)
    <3> HIDE DEF n, R
    <3> QED BY <2>1
  <2>3. PICK i \in E : MatchIn(slots, q, i) /\ other[j] = HitIn(slots, q, i)
    BY <1>1
  <2>4. i \notin C /\ C \subseteq DOMAIN slots /\ i \in DOMAIN slots
    <3>1. i \notin D
      BY <2>3
    <3>2. ASSUME i \in Held(q, other, E, j - 1) PROVE FALSE
      <4>1. PICK l \in 1..(j - 1) : other[l] = HitIn(slots, q, i)
        BY <3>2 DEF Held
      <4>2. l \in 1..n /\ l < j
        BY <1>1
      <4> HIDE DEF n
      <4> QED BY <1>3, <2>3, <4>1, <4>2
    <3> QED BY <2>3, <3>1, <3>2 DEF Held
  <2>5. Held(q, other, E, j) = Held(q, other, E, j - 1) \cup {i}
    <3>1. 1..j = (1..(j - 1)) \cup {j}
      BY <1>1
    <3>2. \A k \in E : other[j] = HitIn(slots, q, k) <=> k = i
      BY <1>2, <2>3
    <3> HIDE DEF n
    <3> QED BY <2>3, <3>1, <3>2 DEF Held
  <2>6. HitOf(q, i) = HitIn(slots, q, i)
    BY DEF HitOf, HitIn, Of
  <2>7. TopFits(slots, setup, q, Offer(t, HitOf(q, i)), C \cup {i})
    BY <2>2, <2>3, <2>4, TopGrows
  <2>8. C \cup {i} = D \cup Held(q, other, E, j)
    BY <2>5
  <2>9. f[j][t] = Offer(t, other[j])
    BY <2>2
  <2> HIDE DEF n, C
  <2>10. Offer(t, other[j]) \in R
    BY <2>3, <2>6, <2>7, TopTypes
  <2> HIDE DEF R
  <2> QED BY <2>1, <2>3, <2>6, <2>7, <2>8, <2>9, <2>10
<1> DEFINE Is(g) == g = [j \in 0..n |-> IF j = 0 THEN top ELSE Offer(g[j - 1], other[j])]
<1>6. /\ \E g : Iterated(g, n, f, top) /\ Within(g, n, V)
      /\ \A h : Follows(h, n, f, top, V) => Within(h, n, V)
  <2>1. Leads(f, n, V)
    BY <1>5 DEF Leads
  <2> HIDE DEF n, V, f
  <2> QED BY <1>1, <1>4, <2>1, Iterates
<1>7. \E g : Is(g)
  <2>1. PICK g : Iterated(g, n, f, top) /\ Within(g, n, V)
    BY <1>6
  <2>2. ASSUME NEW j \in 0..n, j # 0 PROVE f[j][g[j - 1]] = Offer(g[j - 1], other[j])
    <3>1. j \in 1..n /\ j - 1 \in 0..n
      BY <1>1, <2>2
    <3> HIDE DEF n, V, f
    <3> QED BY <1>5, <2>1, <3>1 DEF Within
  <2> HIDE DEF n, V, f
  <2>3. g = [j \in 0..n |-> IF j = 0 THEN top ELSE Offer(g[j - 1], other[j])]
    BY <2>1, <2>2 DEF Iterated
  <2> QED BY <2>3
<1> DEFINE h == CHOOSE g : Is(g)
<1>8. Is(h)
  <2> HIDE DEF Is
  <2> QED BY <1>7
<1>9. Offered(top, other) = h[n]
  BY DEF Offered
<1>10. h[n] \in V[n]
  <2> HIDE DEF h
  <2>1. h[0] = top
    <3>1. 0 \in 0..n
      BY <1>1
    <3> HIDE DEF n
    <3> QED BY <1>8, <3>1
  <2>2. ASSUME NEW j \in 1..n, h[j - 1] \in V[j - 1] PROVE h[j] = f[j][h[j - 1]]
    <3>1. h[j] = Offer(h[j - 1], other[j])
      <4>1. j \in 0..n /\ j # 0
        BY <1>1
      <4> HIDE DEF n
      <4> QED BY <1>8, <4>1
    <3> HIDE DEF n, f, V
    <3> QED BY <1>5, <2>2, <3>1
  <2>3. n \in 0..n
    BY <1>1
  <2> HIDE DEF n, V, f
  <2>4. Follows(h, n, f, top, V)
    BY <2>1, <2>2 DEF Follows
  <2> QED BY <1>6, <2>3, <2>4 DEF Within
<1> HIDE DEF h
<1>11. TopFits(slots, setup, q, h[n], D \cup Held(q, other, E, n))
  <2>1. n \in 0..n
    BY <1>1
  <2> HIDE DEF n, R
  <2> QED BY <1>10, <2>1
<1>12. \A i \in E \ Held(q, other, E, n) : MatchIn(slots, q, i) => BeatenIn(slots, setup, q, i)
  BY <1>1 DEF Held, Holds
<1>13. (D \cup Held(q, other, E, n)) \cup (E \ Held(q, other, E, n)) = D \cup E
  BY DEF Held
<1> HIDE DEF n
<1>14. TopFits(slots, setup, q, h[n], (D \cup Held(q, other, E, n)) \cup (E \ Held(q, other, E, n)))
  BY <1>11, <1>12, TopStays
<1> QED BY <1>9, <1>13, <1>14

\* One list after the other.
ListsApart(sl, q, m, S, o, E) ==
    /\ IsFiniteSet(DOMAIN sl) /\ S \in SUBSET DOMAIN sl /\ E \in SUBSET DOMAIN sl /\ S \cap E = {}
    /\ ListFits(sl, q, m, S) /\ ListFits(sl, q, o, E)

ListsTogether(sl, q, c, S, E) ==
    /\ ListFits(sl, q, c, S \cup E)
    /\ Cardinality(MatchesOf(sl, q, S \cup E))
         = Cardinality(MatchesOf(sl, q, S)) + Cardinality(MatchesOf(sl, q, E))

LEMMA ListsJoin ==
    ASSUME NEW sl, NEW q, NEW m, NEW S, NEW o, NEW E, ListsApart(sl, q, m, S, o, E), NEW c, c = m \o o
    PROVE  ListsTogether(sl, q, c, S, E)
<1>0. /\ IsFiniteSet(DOMAIN sl) /\ S \in SUBSET DOMAIN sl /\ E \in SUBSET DOMAIN sl /\ S \cap E = {}
      /\ ListFits(sl, q, m, S) /\ ListFits(sl, q, o, E)
  BY DEF ListsApart
<1>1. m \in Seq(DOMAIN sl) /\ o \in Seq(DOMAIN sl) /\ Len(m) \in Nat /\ Len(o) \in Nat
  BY <1>0 DEF ListFits
<1>2. /\ c \in Seq(DOMAIN sl) /\ Len(c) = Len(m) + Len(o)
      /\ \A k \in 1..Len(m) : c[k] = m[k]
      /\ \A k \in (Len(m) + 1)..(Len(m) + Len(o)) : c[k] = o[k - Len(m)]
  <2>1. c \in Seq(DOMAIN sl) /\ Len(c) = Len(m) + Len(o)
    BY <1>1, ConcatProperties
  <2>2. \A k \in 1..(Len(m) + Len(o)) : c[k] = IF k <= Len(m) THEN m[k] ELSE o[k - Len(m)]
    BY <1>1, ConcatProperties
  <2> QED BY <1>1, <2>1, <2>2
<1>3. \A k \in 1..Len(m) : m[k] \in MatchesOf(sl, q, S)
  BY <1>0 DEF ListFits
<1>4. \A k \in 1..Len(o) : o[k] \in MatchesOf(sl, q, E)
  BY <1>0 DEF ListFits
<1>5. ASSUME NEW k \in 1..Len(c)
      PROVE  \/ k \in 1..Len(m) /\ c[k] = m[k]
             \/ k \in (Len(m) + 1)..(Len(m) + Len(o)) /\ k - Len(m) \in 1..Len(o) /\ c[k] = o[k - Len(m)]
  BY <1>1, <1>2
<1>6. MatchesOf(sl, q, S \cup E) = MatchesOf(sl, q, S) \cup MatchesOf(sl, q, E)
      /\ MatchesOf(sl, q, S) \cap MatchesOf(sl, q, E) = {}
  BY <1>0 DEF MatchesOf
<1>7. \A k \in 1..Len(c) : c[k] \in MatchesOf(sl, q, S \cup E)
  BY <1>3, <1>4, <1>5, <1>6
<1>8. ASSUME NEW k \in 1..Len(c), NEW l \in 1..Len(c), c[k] = c[l] PROVE k = l
  <2>1. CASE k \in 1..Len(m) /\ l \in 1..Len(m)
    BY <1>0, <1>2, <1>8, <2>1 DEF ListFits
  <2>2. CASE k \notin 1..Len(m) /\ l \notin 1..Len(m)
    <3>1. k - Len(m) \in 1..Len(o) /\ l - Len(m) \in 1..Len(o) /\ o[k - Len(m)] = o[l - Len(m)]
      BY <1>5, <1>8, <2>2
    <3>2. k - Len(m) = l - Len(m)
      BY <1>0, <3>1 DEF ListFits
    <3> QED BY <1>1, <3>2
  <2>3. CASE k \in 1..Len(m) /\ l \notin 1..Len(m)
    BY <1>3, <1>4, <1>5, <1>6, <1>8, <2>3
  <2>4. CASE k \notin 1..Len(m) /\ l \in 1..Len(m)
    BY <1>3, <1>4, <1>5, <1>6, <1>8, <2>4
  <2> QED BY <2>1, <2>2, <2>3, <2>4
<1>9. ListFits(sl, q, c, S \cup E)
  BY <1>2, <1>7, <1>8 DEF ListFits
<1>10. MatchesOf(sl, q, S) \in SUBSET DOMAIN sl /\ MatchesOf(sl, q, E) \in SUBSET DOMAIN sl
  BY <1>0 DEF MatchesOf
<1>11. IsFiniteSet(MatchesOf(sl, q, S)) /\ IsFiniteSet(MatchesOf(sl, q, E))
  BY <1>0, <1>10, CountUpTo
<1>12. Cardinality(MatchesOf(sl, q, S) \cup MatchesOf(sl, q, E))
         = Cardinality(MatchesOf(sl, q, S)) + Cardinality(MatchesOf(sl, q, E))
  <2>1. Cardinality(MatchesOf(sl, q, S)) \in Nat /\ Cardinality(MatchesOf(sl, q, E)) \in Nat
    BY <1>11, FS_CardinalityType
  <2>2. Cardinality({}) = 0
    BY FS_EmptySet
  <2> DEFINE A == MatchesOf(sl, q, S)
  <2> DEFINE B == MatchesOf(sl, q, E)
  <2>3. IsFiniteSet(A) /\ IsFiniteSet(B) /\ A \cap B = {}
    BY <1>6, <1>11
  <2> HIDE DEF A, B
  <2>4. Cardinality(A \cup B) = Cardinality(A) + Cardinality(B) - Cardinality(A \cap B)
    BY <2>3, FS_Union
  <2>5. Cardinality(A \cup B) = Cardinality(A) + Cardinality(B) - 0
    BY <2>2, <2>3, <2>4
  <2> QED BY <2>1, <2>5 DEF A, B
<1> DEFINE U == MatchesOf(sl, q, S \cup E)
<1>13. U = MatchesOf(sl, q, S) \cup MatchesOf(sl, q, E)
  BY <1>6
<1> HIDE DEF U
<1>14. Cardinality(U) = Cardinality(MatchesOf(sl, q, S)) + Cardinality(MatchesOf(sl, q, E))
  BY ONLY <1>12, <1>13
<1> QED BY ONLY <1>9, <1>14 DEF ListsTogether, U

\* Of a list that holds nothing twice, what is kept holds nothing twice either.
KeptList(m, n, d) ==
    /\ {d[k] : k \in 1..Len(d)} = {i \in {m[j] : j \in 1..n} : i < FirstCut \/ i >= Ranked}
    /\ \A k, l \in 1..Len(d) : d[k] = d[l] => k = l

LEMMA KeptFits ==
    ASSUME NEW D, NEW m \in Seq(D), \A k, l \in 1..Len(m) : m[k] = m[l] => k = l
    PROVE  Kept(m) \in Seq(D) /\ KeptList(m, Len(m), Kept(m))
<1> DEFINE n == Len(m)
<1> DEFINE next(d, j) == IF m[j] < FirstCut \/ m[j] >= Ranked THEN Append(d, m[j]) ELSE d
<1> DEFINE V == [j \in 0..n |-> {d \in Seq(D) : KeptList(m, j, d)}]
<1> DEFINE f == [j \in 1..n |-> [d \in Seq(D) |-> next(d, j)]]
<1>1. n \in Nat /\ \A j \in 1..n : m[j] \in D
  OBVIOUS
<1>2. <<>> \in V[0]
  <2>1. 0 \in 0..n /\ <<>> \in Seq(D) /\ Len(<<>>) = 0 /\ 1..0 = {}
    BY <1>1
  <2>2. {<<>>[k] : k \in 1..Len(<<>>)} = {}
    OBVIOUS
  <2>3. KeptList(m, 0, <<>>)
    BY <2>1, <2>2 DEF KeptList
  <2> HIDE DEF n
  <2> QED BY <2>1, <2>3
<1>3. ASSUME NEW j \in 1..n, NEW d \in V[j - 1]
      PROVE  f[j][d] \in V[j] /\ f[j][d] = next(d, j)
  <2>1. j - 1 \in 0..n /\ j \in 0..n /\ 1..j = (1..(j - 1)) \cup {j} /\ 1..(j - 1) \subseteq 1..n /\ j \notin 1..(j - 1)
    BY <1>1
  <2>2. d \in Seq(D) /\ KeptList(m, j - 1, d)
    <3> HIDE DEF n
    <3> QED BY <2>1
  <2>3. f[j][d] = next(d, j)
    BY <2>2
  <2> DEFINE fits == m[j] < FirstCut \/ m[j] >= Ranked
  <2> DEFINE B == {m[l] : l \in 1..(j - 1)}
  <2>4. {m[l] : l \in 1..j} = B \cup {m[j]}
    BY <2>1
  <2>5. m[j] \notin B
    BY <1>1, <2>1
  <2> HIDE DEF n, B
  <2>6. {d[k] : k \in 1..Len(d)} = {i \in B : i < FirstCut \/ i >= Ranked}
    BY <2>2 DEF KeptList, B
  <2>7. CASE ~fits
    <3>1. next(d, j) = d
      BY <2>7
    <3>2. {i \in B \cup {m[j]} : i < FirstCut \/ i >= Ranked} = {i \in B : i < FirstCut \/ i >= Ranked}
      BY <2>7
    <3>3. KeptList(m, j, d)
      BY <2>2, <2>4, <2>6, <3>2 DEF KeptList
    <3> QED BY <2>1, <2>2, <2>3, <3>1, <3>3
  <2>8. CASE fits
    <3> DEFINE e == Append(d, m[j])
    <3>1. next(d, j) = e
      BY <2>8
    <3>2. Len(d) \in Nat /\ m[j] \in D
      BY <1>1, <2>2
    <3>3. e \in Seq(D) /\ Len(e) = Len(d) + 1 /\ e[Len(d) + 1] = m[j] /\ \A k \in 1..Len(d) : e[k] = d[k]
      BY <2>2, <3>2
    <3> HIDE DEF e
    <3>4. 1..Len(e) = (1..Len(d)) \cup {Len(d) + 1} /\ Len(d) + 1 \notin 1..Len(d)
      BY <3>2, <3>3
    <3>5. {e[k] : k \in 1..Len(e)} = {d[k] : k \in 1..Len(d)} \cup {m[j]}
      <4>1. \A k \in 1..Len(e) : e[k] \in {d[l] : l \in 1..Len(d)} \cup {m[j]}
        BY <3>3, <3>4
      <4>2. \A l \in 1..Len(d) : d[l] = e[l] /\ l \in 1..Len(e)
        BY <3>3, <3>4
      <4>3. m[j] = e[Len(d) + 1] /\ Len(d) + 1 \in 1..Len(e)
        BY <3>3, <3>4
      <4>4. {d[l] : l \in 1..Len(d)} \subseteq {e[k] : k \in 1..Len(e)}
        BY <4>2
      <4> DEFINE X == {e[k] : k \in 1..Len(e)}
      <4> DEFINE Y == {d[l] : l \in 1..Len(d)}
      <4>5. X \subseteq Y \cup {m[j]}
        BY <4>1
      <4>6. m[j] \in X
        BY <4>3
      <4>7. Y \subseteq X
        BY <4>4
      <4> HIDE DEF X, Y
      <4>8. X = Y \cup {m[j]}
        BY <4>5, <4>6, <4>7
      <4> QED BY <4>8 DEF X, Y
    <3>6. {i \in B \cup {m[j]} : i < FirstCut \/ i >= Ranked}
             = {i \in B : i < FirstCut \/ i >= Ranked} \cup {m[j]}
      BY <2>8
    <3>7. \A k \in 1..Len(d) : d[k] # m[j]
      <4>1. \A k \in 1..Len(d) : d[k] \in {i \in B : i < FirstCut \/ i >= Ranked}
        BY <2>6
      <4> QED BY <2>5, <4>1
    <3>8. \A k, l \in 1..Len(e) : e[k] = e[l] => k = l
      <4>1. \A k, l \in 1..Len(d) : d[k] = d[l] => k = l
        BY <2>2 DEF KeptList
      <4> QED BY <3>3, <3>4, <3>7, <4>1
    <3>9. KeptList(m, j, e)
      BY <2>4, <2>6, <3>5, <3>6, <3>8 DEF KeptList
    <3> QED BY <2>1, <2>3, <3>1, <3>3, <3>9
  <2> QED BY <2>7, <2>8
<1> DEFINE Is(g) == g = [j \in 0..n |-> IF j = 0 THEN <<>> ELSE next(g[j - 1], j)]
<1>6. /\ \E g : Iterated(g, n, f, <<>>) /\ Within(g, n, V)
      /\ \A h : Follows(h, n, f, <<>>, V) => Within(h, n, V)
  <2>1. Leads(f, n, V)
    BY <1>3 DEF Leads
  <2> HIDE DEF n, V, f
  <2> QED BY <1>1, <1>2, <2>1, Iterates
<1>7. \E g : Is(g)
  <2>1. PICK g : Iterated(g, n, f, <<>>) /\ Within(g, n, V)
    BY <1>6
  <2>2. ASSUME NEW j \in 0..n, j # 0 PROVE f[j][g[j - 1]] = next(g[j - 1], j)
    <3>1. j \in 1..n /\ j - 1 \in 0..n
      BY <1>1, <2>2
    <3> HIDE DEF n, V, f, next
    <3> QED BY <1>3, <2>1, <3>1 DEF Within
  <2> HIDE DEF n, V, f, next
  <2>3. g = [j \in 0..n |-> IF j = 0 THEN <<>> ELSE next(g[j - 1], j)]
    BY <2>1, <2>2 DEF Iterated
  <2> QED BY <2>3
<1> DEFINE Was(g) == g = [j \in 0..Len(m) |->
                            IF j = 0 THEN <<>>
                            ELSE IF m[j] < FirstCut \/ m[j] >= Ranked THEN Append(g[j - 1], m[j])
                            ELSE g[j - 1]]
<1> DEFINE h == CHOOSE g : Was(g)
<1>8. Was(h)
  <2>1. \E g : Was(g)
    BY <1>7
  <2> HIDE DEF Was
  <2> QED BY <2>1
<1>9. Kept(m) = h[n]
  BY DEF Kept
<1>10. h[n] \in V[n]
  <2> HIDE DEF h
  <2>1. h[0] = <<>>
    <3>1. 0 \in 0..Len(m)
      BY <1>1
    <3> QED BY <1>8, <3>1
  <2>2. ASSUME NEW j \in 1..n, h[j - 1] \in V[j - 1] PROVE h[j] = f[j][h[j - 1]]
    <3>1. h[j] = next(h[j - 1], j)
      <4>1. j \in 0..n /\ j # 0
        BY <1>1
      <4> QED BY <1>8, <4>1
    <3> HIDE DEF n, next, f, V
    <3> QED BY <1>3, <2>2, <3>1
  <2>3. n \in 0..n
    BY <1>1
  <2> HIDE DEF n, V, f
  <2>4. Follows(h, n, f, <<>>, V)
    BY <2>1, <2>2 DEF Follows
  <2> QED BY <1>6, <2>3, <2>4 DEF Within
<1> HIDE DEF h
<1>11. n \in 0..n
  BY <1>1
<1> HIDE DEF n
<1>12. h[n] \in Seq(D) /\ KeptList(m, n, h[n])
  BY <1>10, <1>11
<1> QED BY <1>9, <1>12 DEF n

\* The threads share the ranked slots from the first on to the end between them.
ThreadsFit(sl, su, q, pt, first, end, T, S) ==
    /\ \A w \in 1..su.workers : /\ Fits(sl, su, q, pt[w], T[w], S[w]) /\ pt[w].resumable
                                /\ T[w] \subseteq first..(end - 1)
    /\ \A v, w \in 1..su.workers : v # w => T[v] \cap T[w] = {}
    /\ \A i \in first..(end - 1) : \E w \in 1..su.workers : i \in T[w]

Gathered(T, F, k) == T \cup UNION {F[w] : w \in 1..k}

\* What a thread found is added to what another scan found, of other slots.
HasFound(q, r, D, S) ==
    /\ r \in ScanSet(slots, setup) /\ D \in SUBSET DOMAIN slots /\ S \subseteq D
    /\ TopFits(slots, setup, q, r.top, D) /\ ListFits(slots, q, r.matches, S)
    /\ r.count = Cardinality(MatchesOf(slots, q, S))
Gains(y, r) ==
    [y EXCEPT !.top = Offered(@, r.top), !.matches = @ \o r.matches, !.count = @ + r.count]

LEMMA GainsFit ==
    ASSUME NamesFit(slots, setup), NEW q \in Queries,
           NEW y, NEW C, NEW B, HasFound(q, y, C, B), NEW r, NEW E, NEW G, HasFound(q, r, E, G), C \cap E = {}
    PROVE  HasFound(q, Gains(y, r), C \cup E, B \cup G) /\ SameScan(Gains(y, r), y)
<1> DEFINE t == Offered(y.top, r.top)
<1> DEFINE a == y.matches
<1> DEFINE o == r.matches
<1> DEFINE m == a \o o
<1> DEFINE c == y.count + r.count
<1> DEFINE z == Gains(y, r)
<1>1. z = [y EXCEPT !.top = t, !.matches = m, !.count = c]
  BY DEF Gains
<1>2. TopFits(slots, setup, q, t, C \cup E)
  BY OfferedFits DEF HasFound
<1>3. ListsApart(slots, q, a, B, o, G)
  BY NamesRank DEF HasFound, ListsApart
<1>4. y \in ScanSet(slots, setup) /\ y.count \in Nat /\ r.count \in Nat
  BY DEF HasFound, ScanSet
<1>5. /\ ListFits(slots, q, m, B \cup G)
      /\ Cardinality(MatchesOf(slots, q, B \cup G))
           = Cardinality(MatchesOf(slots, q, B)) + Cardinality(MatchesOf(slots, q, G))
  <2>1. m = a \o o
    OBVIOUS
  <2> HIDE DEF a, o, m
  <2>2. ListsTogether(slots, q, m, B, G)
    BY <1>3, <2>1, ListsJoin
  <2> QED BY <2>2 DEF ListsTogether
<1>6. c = Cardinality(MatchesOf(slots, q, B \cup G))
  BY <1>5 DEF HasFound
<1>7. t \in Seq([entry : Int, score : Int]) /\ m \in Seq(DOMAIN slots) /\ c \in Nat
  <2>1. t \in Seq([entry : Int, score : Int])
    BY <1>2, TopTypes
  <2>2. m \in Seq(DOMAIN slots)
    BY <1>5 DEF ListFits
  <2> QED BY <1>4, <2>1, <2>2
<1> HIDE DEF t, a, o, m, c, z
<1>8. z \in ScanSet(slots, setup) /\ SameScan(z, y) /\ z.top = t /\ z.matches = m /\ z.count = c
  BY <1>1, <1>4, <1>7 DEF ScanSet, SameScan
<1>9. C \cup E \in SUBSET DOMAIN slots /\ B \cup G \subseteq C \cup E
  BY DEF HasFound
<1>10. HasFound(q, z, C \cup E, B \cup G)
  BY <1>2, <1>5, <1>6, <1>8, <1>9 DEF HasFound
<1> QED BY <1>8, <1>10 DEF z

\* What all the threads have found, added to what the calling thread has.
LEMMA JoinedFits ==
    ASSUME NamesFit(slots, setup), NEW q \in Queries,
           NEW T, NEW S, Fits(slots, setup, q, main, T, S), main.phase = "done", main.resumable,
           NEW first \in Nat, NEW end \in Nat, T \cap (first..(end - 1)) = {},
           NEW TW, NEW SW, ThreadsFit(slots, setup, q, part, first, end, TW, SW),
           \A w \in 1..setup.workers : Rests(part[w])
    PROVE  /\ Joined \in ScanSet(slots, setup) /\ SameScan(Joined, main)
           /\ TopFits(slots, setup, q, Joined.top, Gathered(T, TW, setup.workers))
           /\ ListFits(slots, q, Joined.matches, Gathered(S, SW, setup.workers))
           /\ Joined.count = Cardinality(MatchesOf(slots, q, Gathered(S, SW, setup.workers)))
<1> DEFINE n == setup.workers
<1> DEFINE next(y, w) == [y EXCEPT !.top = Offered(@, part[w].top), !.matches = @ \o part[w].matches,
                                   !.count = @ + part[w].count]
<1> DEFINE V == [k \in 0..n |->
                   {y \in ScanSet(slots, setup) :
                      /\ SameScan(y, main)
                      /\ TopFits(slots, setup, q, y.top, Gathered(T, TW, k))
                      /\ ListFits(slots, q, y.matches, Gathered(S, SW, k))
                      /\ y.count = Cardinality(MatchesOf(slots, q, Gathered(S, SW, k)))}]
<1> DEFINE f == [k \in 1..n |-> [y \in ScanSet(slots, setup) |-> next(y, k)]]
<1>1. n \in Nat /\ IsFiniteSet(DOMAIN slots)
  <2>1. n \in Nat
    BY SetupFits DEF NamesFit
  <2> QED BY <2>1, NamesRank
<1>2. /\ main \in ScanSet(slots, setup) /\ Pending(main) = {} /\ T \in SUBSET DOMAIN slots /\ S \subseteq T
      /\ TopFits(slots, setup, q, main.top, T) /\ ListFits(slots, q, main.matches, S)
      /\ main.count = Cardinality(MatchesOf(slots, q, S))
  <2>1. Pending(main) = {}
    BY DEF Pending
  <2> QED BY <2>1 DEF Fits
<1>3. ASSUME NEW w \in 1..n
      PROVE  /\ part[w] \in ScanSet(slots, setup) /\ TW[w] \in SUBSET DOMAIN slots /\ SW[w] \subseteq TW[w]
             /\ TopFits(slots, setup, q, part[w].top, TW[w]) /\ ListFits(slots, q, part[w].matches, SW[w])
             /\ part[w].count = Cardinality(MatchesOf(slots, q, SW[w]))
             /\ TW[w] \subseteq first..(end - 1)
  <2>1. Fits(slots, setup, q, part[w], TW[w], SW[w]) /\ part[w].resumable /\ TW[w] \subseteq first..(end - 1)
    BY DEF ThreadsFit
  <2>2. Pending(part[w]) = {}
    BY DEF Pending, Rests
  <2> HIDE DEF n
  <2> QED BY <2>1, <2>2 DEF Fits
<1>4. main \in V[0]
  <2>1. Gathered(T, TW, 0) = T /\ Gathered(S, SW, 0) = S /\ 0 \in 0..n /\ SameScan(main, main)
    BY <1>1 DEF Gathered, SameScan
  <2> HIDE DEF n
  <2> QED BY <1>2, <2>1
<1>5. ASSUME NEW k \in 1..n, NEW y \in V[k - 1]
      PROVE  f[k][y] \in V[k] /\ f[k][y] = next(y, k)
  <2> DEFINE C == Gathered(T, TW, k - 1)
  <2> DEFINE B == Gathered(S, SW, k - 1)
  <2>1. k - 1 \in 0..n /\ k \in 0..n /\ 1..k = (1..(k - 1)) \cup {k} /\ 1..(k - 1) \subseteq 1..n /\ k \notin 1..(k - 1)
    BY <1>1
  <2>2. /\ y \in ScanSet(slots, setup) /\ SameScan(y, main)
        /\ TopFits(slots, setup, q, y.top, C)
        /\ ListFits(slots, q, y.matches, B) /\ y.count = Cardinality(MatchesOf(slots, q, B))
    <3> HIDE DEF n
    <3> QED BY <2>1
  <2>3. C \in SUBSET DOMAIN slots /\ B \subseteq C
    <3>1. \A w \in 1..(k - 1) : TW[w] \in SUBSET DOMAIN slots /\ SW[w] \subseteq TW[w]
      BY <1>3, <2>1
    <3> QED BY <1>2, <3>1 DEF Gathered
  <2>4. C \cap TW[k] = {}
    <3>1. T \cap TW[k] = {}
      BY <1>3
    <3>2. \A w \in 1..(k - 1) : TW[w] \cap TW[k] = {}
      BY <2>1 DEF ThreadsFit
    <3> QED BY <3>1, <3>2 DEF Gathered
  <2>5. Gathered(T, TW, k) = C \cup TW[k] /\ Gathered(S, SW, k) = B \cup SW[k]
    BY <2>1 DEF Gathered
  <2>6. /\ part[k] \in ScanSet(slots, setup) /\ TW[k] \in SUBSET DOMAIN slots /\ SW[k] \subseteq TW[k]
        /\ TopFits(slots, setup, q, part[k].top, TW[k]) /\ ListFits(slots, q, part[k].matches, SW[k])
        /\ part[k].count = Cardinality(MatchesOf(slots, q, SW[k]))
    BY <1>3
  <2> DEFINE z == next(y, k)
  <2>7. f[k][y] = z
    BY <2>2
  <2>8. z = Gains(y, part[k])
    BY DEF Gains
  <2> HIDE DEF n, C, B, z, f, V
  <2>9. /\ z \in ScanSet(slots, setup) /\ SameScan(z, y)
        /\ TopFits(slots, setup, q, z.top, C \cup TW[k]) /\ ListFits(slots, q, z.matches, B \cup SW[k])
        /\ z.count = Cardinality(MatchesOf(slots, q, B \cup SW[k]))
    <3>1. HasFound(q, y, C, B)
      BY <2>2, <2>3 DEF HasFound
    <3>2. HasFound(q, part[k], TW[k], SW[k])
      BY <2>6 DEF HasFound
    <3>3. HasFound(q, Gains(y, part[k]), C \cup TW[k], B \cup SW[k]) /\ SameScan(Gains(y, part[k]), y)
      BY <2>4, <3>1, <3>2, GainsFit
    <3> QED BY <2>8, <3>3 DEF HasFound
  <2>10. SameScan(z, main)
    BY <2>2, <2>9 DEF SameScan
  <2>11. z \in V[k]
    BY <2>1, <2>5, <2>9, <2>10 DEF V
  <2> QED BY <2>7, <2>11 DEF z
<1> DEFINE Is(g) == g = [k \in 0..n |-> IF k = 0 THEN main ELSE next(g[k - 1], k)]
<1>6. /\ \E g : Iterated(g, n, f, main) /\ Within(g, n, V)
      /\ \A h : Follows(h, n, f, main, V) => Within(h, n, V)
  <2>1. Leads(f, n, V)
    BY <1>5 DEF Leads
  <2> HIDE DEF n, V, f
  <2> QED BY <1>1, <1>4, <2>1, Iterates
<1>7. \E g : Is(g)
  <2>1. PICK g : Iterated(g, n, f, main) /\ Within(g, n, V)
    BY <1>6
  <2>2. ASSUME NEW k \in 0..n, k # 0 PROVE f[k][g[k - 1]] = next(g[k - 1], k)
    <3>1. k \in 1..n /\ k - 1 \in 0..n
      BY <1>1, <2>2
    <3> HIDE DEF n, V, f, next
    <3> QED BY <1>5, <2>1, <3>1 DEF Within
  <2> HIDE DEF n, V, f, next
  <2>3. g = [k \in 0..n |-> IF k = 0 THEN main ELSE next(g[k - 1], k)]
    BY <2>1, <2>2 DEF Iterated
  <2> QED BY <2>3
<1> DEFINE h == CHOOSE g : Is(g)
<1>8. Is(h)
  <2> HIDE DEF Is
  <2> QED BY <1>7
<1>9. Joined = h[n]
  BY DEF Joined
<1>10. h[n] \in V[n]
  <2> HIDE DEF h
  <2>1. h[0] = main
    <3>1. 0 \in 0..n
      BY <1>1
    <3> HIDE DEF n, next
    <3> QED BY <1>8, <3>1
  <2>2. ASSUME NEW k \in 1..n, h[k - 1] \in V[k - 1] PROVE h[k] = f[k][h[k - 1]]
    <3>1. h[k] = next(h[k - 1], k)
      <4>1. k \in 0..n /\ k # 0
        BY <1>1
      <4> HIDE DEF n, next
      <4> QED BY <1>8, <4>1
    <3> HIDE DEF n, next, f, V
    <3> QED BY <1>5, <2>2, <3>1
  <2>3. n \in 0..n
    BY <1>1
  <2> HIDE DEF n, V, f
  <2>4. Follows(h, n, f, main, V)
    BY <2>1, <2>2 DEF Follows
  <2> QED BY <1>6, <2>3, <2>4 DEF Within
<1> HIDE DEF h
<1>11. n \in 0..n
  BY <1>1
<1> HIDE DEF n
<1> QED BY <1>9, <1>10, <1>11 DEF n

-----------------------------------------------------------------------------
(* What the threads leave to the calling thread. *)

\* The earliest cut is that of one thread.
LEMMA FirstCutFits ==
    ASSUME setup \in Setups, \A w \in Workers : part[w].cutAt \in 0..setup.ranked
    PROVE  /\ FirstCut \in 0..setup.ranked
           /\ \A w \in Workers : FirstCut <= part[w].cutAt
           /\ \E w \in Workers : FirstCut = part[w].cutAt
<1> DEFINE C == {part[w].cutAt : w \in Workers}
<1>1. 1 \in Workers
  BY SetupFits DEF Workers
<1>2. C # {} /\ C \in SUBSET Nat
  BY <1>1, SetupFits
<1> HIDE DEF C
<1>3. \E m \in C : \A n \in C : m <= n
  BY <1>2, LeastNatural
<1>4. Min(C) \in C /\ \A n \in C : Min(C) <= n
  BY <1>3 DEF Min
<1>5. FirstCut = Min(C)
  BY DEF FirstCut, C
<1>6. FirstCut \in C /\ \A n \in C : FirstCut <= n
  BY <1>4, <1>5
<1> QED BY <1>6 DEF C

\* All that the calling thread and the threads have found.
AllFound(q, p, TW, SW, S, U, G) ==
    /\ Fits(slots, setup, q, main, Up(slots, setup, state, q, p), S)
    /\ main.phase = "done" /\ ~main.cut
    /\ ThreadsFit(slots, setup, q, part, p, setup.ranked, TW, SW)
    /\ \A w \in Workers : Rests(part[w])
    /\ U = Gathered(Up(slots, setup, state, q, p), TW, setup.workers)
    /\ G = Gathered(S, SW, setup.workers)

\* The chunks divide the ranked region, so what is found is of all of it.
LEMMA FoundFits ==
    ASSUME NamesFit(slots, setup), NEW q \in Queries, NEW p \in 0..setup.ranked,
           NEW TW, NEW SW, NEW S, NEW U, NEW G, AllFound(q, p, TW, SW, S, U, G)
    PROVE  /\ U = Up(slots, setup, state, q, setup.ranked) /\ U \in SUBSET DOMAIN slots /\ G \subseteq U
           /\ HasFound(q, Joined, U, G) /\ SameScan(Joined, main)
           /\ \A w \in Workers : part[w].cutAt \in 0..setup.ranked
           /\ \A i \in U : (i < setup.ranked => \A w \in Workers : i < part[w].cutAt) \/ i >= setup.ranked => i \in G
           /\ \A w \in Workers : ~part[w].cut => part[w].cutAt = setup.ranked
           /\ \A w \in Workers : part[w].cut =>
                 \A i \in part[w].cutAt..(setup.ranked - 1) :
                    MatchIn(slots, q, i) /\ slots[i].of[q].bonus = 0 => BeatenIn(slots, setup, q, i)
<1> DEFINE T == Up(slots, setup, state, q, p)
<1>1. /\ Fits(slots, setup, q, main, T, S) /\ main.phase = "done" /\ ~main.cut
      /\ ThreadsFit(slots, setup, q, part, p, setup.ranked, TW, SW)
      /\ \A w \in Workers : Rests(part[w])
      /\ U = Gathered(T, TW, setup.workers) /\ G = Gathered(S, SW, setup.workers)
  BY DEF AllFound
<1>2. p \in Nat /\ setup.ranked \in Nat /\ p <= setup.ranked /\ setup.workers \in Nat
  BY SetupFits DEF NamesFit
<1>3. /\ p..(setup.ranked - 1) \subseteq DOMAIN slots \ T
      /\ T \cup (p..(setup.ranked - 1)) = Up(slots, setup, state, q, setup.ranked)
  BY <1>2, UpTo
<1> HIDE DEF T
<1>4. Pending(main) = {} /\ \A w \in Workers : Pending(part[w]) = {}
  BY <1>1 DEF Pending, Rests
<1>5. /\ T \in SUBSET DOMAIN slots /\ S \subseteq T /\ main.resumable
      /\ \A i \in T : i \in S
  <2>1. main.cutAt = setup.ranked /\ main.resumable
    BY <1>1 DEF Fits, CutFits
  <2>2. T \in SUBSET DOMAIN slots /\ S \subseteq T
    BY <1>1, <1>4 DEF Fits
  <2>3. \A i \in T : i < setup.ranked \/ i >= setup.ranked
    <3>1. \A i \in DOMAIN slots : i \in Nat
      BY SlotFits
    <3> QED BY <1>2, <2>2, <3>1
  <2>4. \A i \in T \ Pending(main) : i < main.cutAt \/ i >= setup.ranked => i \in S
    BY <1>1 DEF Fits, CutFits
  <2> QED BY <1>4, <2>1, <2>2, <2>3, <2>4
<1>6. ASSUME NEW w \in Workers
      PROVE  /\ part[w] \in ScanSet(slots, setup) /\ TW[w] \subseteq p..(setup.ranked - 1) /\ SW[w] \subseteq TW[w]
             /\ \A i \in TW[w] : i < part[w].cutAt \/ i >= setup.ranked => i \in SW[w]
             /\ ~part[w].cut => part[w].cutAt = setup.ranked
             /\ part[w].cut =>
                   \A i \in part[w].cutAt..(setup.ranked - 1) :
                      MatchIn(slots, q, i) /\ slots[i].of[q].bonus = 0 => BeatenIn(slots, setup, q, i)
  <2>1. Fits(slots, setup, q, part[w], TW[w], SW[w]) /\ TW[w] \subseteq p..(setup.ranked - 1)
    BY <1>1 DEF ThreadsFit, Workers
  <2>2. Pending(part[w]) = {}
    BY <1>4
  <2>3. CutFits(slots, setup, q, part[w], TW[w], SW[w])
    BY <2>1 DEF Fits
  <2>4. part[w] \in ScanSet(slots, setup) /\ SW[w] \subseteq TW[w]
    BY <2>1, <2>2 DEF Fits
  <2> QED BY <2>1, <2>2, <2>3, <2>4 DEF CutFits
<1>7. U = Up(slots, setup, state, q, setup.ranked)
  <2>1. \A i \in p..(setup.ranked - 1) : \E w \in Workers : i \in TW[w]
    BY <1>1 DEF ThreadsFit, Workers
  <2>2. \A w \in Workers : TW[w] \subseteq p..(setup.ranked - 1)
    BY <1>6
  <2>3. U = T \cup (p..(setup.ranked - 1))
    BY <1>1, <2>1, <2>2 DEF Gathered, Workers
  <2> QED BY <1>3, <2>3
<1>8. U \in SUBSET DOMAIN slots /\ G \subseteq U
  <2>1. G \subseteq U
    BY <1>1, <1>5, <1>6 DEF Gathered, Workers
  <2> QED BY <1>3, <1>5, <1>7, <2>1
<1>9. HasFound(q, Joined, U, G) /\ SameScan(Joined, main)
  <2>1. T \cap (p..(setup.ranked - 1)) = {}
    BY <1>3
  <2>2. \A w \in 1..setup.workers : Rests(part[w])
    BY <1>1 DEF Workers
  <2>3. /\ Joined \in ScanSet(slots, setup) /\ SameScan(Joined, main)
        /\ TopFits(slots, setup, q, Joined.top, Gathered(T, TW, setup.workers))
        /\ ListFits(slots, q, Joined.matches, Gathered(S, SW, setup.workers))
        /\ Joined.count = Cardinality(MatchesOf(slots, q, Gathered(S, SW, setup.workers)))
    BY <1>1, <1>2, <1>5, <2>1, <2>2, JoinedFits
  <2> QED BY <1>1, <1>8, <2>3 DEF HasFound
<1>10. \A w \in Workers : part[w].cutAt \in 0..setup.ranked
  BY <1>6 DEF ScanSet
<1>11. ASSUME NEW i \in U, (i < setup.ranked => \A w \in Workers : i < part[w].cutAt) \/ i >= setup.ranked
       PROVE  i \in G
  <2>1. CASE i \in T
    BY <1>1, <1>5, <2>1 DEF Gathered
  <2>2. CASE i \notin T
    <3>1. PICK w \in Workers : i \in TW[w]
      BY <1>1, <2>2 DEF Gathered, Workers
    <3>2. i \in Nat /\ i < setup.ranked
      BY <1>2, <1>6, <3>1
    <3>3. i \in SW[w]
      BY <1>2, <1>6, <1>11, <3>1, <3>2
    <3> QED BY <1>1, <3>3 DEF Gathered, Workers
  <2> QED BY <2>1, <2>2
<1> QED BY <1>6, <1>7, <1>8, <1>9, <1>10, <1>11

\* The earliest cut of the threads is a cut of the whole.
LEMMA JoinFits ==
    ASSUME NamesFit(slots, setup), NEW q \in Queries, NEW p \in 0..setup.ranked,
           NEW TW, NEW SW, NEW S, NEW U, NEW G, AllFound(q, p, TW, SW, S, U, G), Join
    PROVE  MainFits(slots, setup, state, q, main', setup.ranked)
<1> DEFINE J == Joined
<1>1. /\ U = Up(slots, setup, state, q, setup.ranked) /\ U \in SUBSET DOMAIN slots /\ G \subseteq U
      /\ HasFound(q, J, U, G) /\ SameScan(J, main)
  BY FoundFits
<1>2. \A w \in Workers : part[w].cutAt \in 0..setup.ranked
  BY FoundFits
<1>3. \A i \in U : (i < setup.ranked => \A w \in Workers : i < part[w].cutAt) \/ i >= setup.ranked => i \in G
  BY FoundFits
<1>4. /\ \A w \in Workers : ~part[w].cut => part[w].cutAt = setup.ranked
      /\ \A w \in Workers : part[w].cut =>
            \A i \in part[w].cutAt..(setup.ranked - 1) :
               MatchIn(slots, q, i) /\ slots[i].of[q].bonus = 0 => BeatenIn(slots, setup, q, i)
  BY FoundFits
<1>5. /\ setup \in Setups /\ setup.ranked \in Nat /\ setup.workers \in Nat /\ IsFiniteSet(DOMAIN slots)
      /\ \A i \in DOMAIN slots : i \in Nat
  <2>1. setup \in Setups
    BY DEF NamesFit
  <2> QED BY <2>1, SetupFits, NamesRank, SlotFits
<1>6. /\ J \in ScanSet(slots, setup) /\ J.phase = "done" /\ ~J.cut /\ J.cutAt = setup.ranked /\ J.resumable
      /\ TopFits(slots, setup, q, J.top, U) /\ ListFits(slots, q, J.matches, G)
      /\ J.count = Cardinality(MatchesOf(slots, q, G))
  <2>1. main.phase = "done" /\ ~main.cut /\ main.cutAt = setup.ranked /\ main.resumable
    BY DEF AllFound, Fits, CutFits
  <2> HIDE DEF J
  <2> QED BY <1>1, <2>1 DEF HasFound, SameScan
<1>7. CASE ~AnyCut
  <2>1. main' = J
    BY <1>7 DEF Join
  <2>2. G = U
    <3>1. \A w \in Workers : part[w].cutAt = setup.ranked
      BY <1>4, <1>7 DEF AnyCut
    <3>2. \A i \in U : i < setup.ranked \/ i >= setup.ranked
      BY <1>1, <1>5
    <3> QED BY <1>1, <1>3, <3>1, <3>2
  <2> HIDE DEF J
  <2>3. Pending(J) = {}
    BY <1>6 DEF Pending
  <2>4. CutFits(slots, setup, q, J, U, U)
    BY <1>6, <2>3 DEF CutFits
  <2>5. Fits(slots, setup, q, J, U, U)
    BY <1>1, <1>6, <2>2, <2>3, <2>4 DEF Fits
  <2>6. Tidy(setup, J, U)
    BY <1>1, <1>5, <1>6 DEF Tidy
  <2> QED BY <1>1, <1>6, <2>1, <2>5, <2>6 DEF MainFits
<1>8. CASE AnyCut
  <2> DEFINE d == Kept(J.matches)
  <2> DEFINE fits == Len(J.matches) = J.count
  <2> DEFINE y == [J EXCEPT !.cut = TRUE, !.cutAt = FirstCut, !.matches = d, !.count = Len(d), !.resumable = fits]
  <2> DEFINE P == {i \in G : i < FirstCut \/ i >= setup.ranked}
  <2>1. main' = y
    BY <1>8 DEF Join
  <2>2. /\ FirstCut \in 0..setup.ranked
        /\ \A w \in Workers : FirstCut <= part[w].cutAt
        /\ \E w \in Workers : FirstCut = part[w].cutAt
    BY <1>2, <1>5, FirstCutFits
  <2>3. d \in Seq(DOMAIN slots) /\ KeptList(J.matches, Len(J.matches), d)
    <3> DEFINE m == J.matches
    <3>1. m \in Seq(DOMAIN slots) /\ \A k, l \in 1..Len(m) : m[k] = m[l] => k = l
      BY <1>6 DEF ListFits
    <3> HIDE DEF m, J
    <3>2. Kept(m) \in Seq(DOMAIN slots) /\ KeptList(m, Len(m), Kept(m))
      BY <3>1, KeptFits
    <3> QED BY <3>2 DEF m
  <2> HIDE DEF J, d
  <2>4. /\ {d[k] : k \in 1..Len(d)} = {i \in {J.matches[j] : j \in 1..Len(J.matches)} : i < FirstCut \/ i >= setup.ranked}
        /\ \A k, l \in 1..Len(d) : d[k] = d[l] => k = l
    BY <2>3 DEF KeptList, Ranked
  <2>5. MatchesOf(slots, q, P) = {i \in MatchesOf(slots, q, G) : i < FirstCut \/ i >= setup.ranked}
    BY DEF MatchesOf
  <2>6. ListFits(slots, q, d, P)
    <3>1. \A i \in {J.matches[j] : j \in 1..Len(J.matches)} : i \in MatchesOf(slots, q, G)
      BY <1>6 DEF ListFits
    <3>2. \A k \in 1..Len(d) : d[k] \in MatchesOf(slots, q, P)
      BY <2>4, <2>5, <3>1
    <3> HIDE DEF P
    <3> QED BY <2>3, <2>4, <3>2 DEF ListFits
  <2>7. P \in SUBSET DOMAIN slots /\ G \in SUBSET DOMAIN slots /\ P \subseteq U
    BY <1>1
  <2>8. fits => Len(d) = Cardinality(MatchesOf(slots, q, P))
    <3> SUFFICES ASSUME fits PROVE Len(d) = Cardinality(MatchesOf(slots, q, P))
      OBVIOUS
    <3>1. {J.matches[j] : j \in 1..Len(J.matches)} = MatchesOf(slots, q, G)
      <4> DEFINE m == J.matches
      <4>1. ListFits(slots, q, m, G) /\ Len(m) = Cardinality(MatchesOf(slots, q, G))
        BY <1>6
      <4> HIDE DEF m
      <4>2. Len(m) = Cardinality(MatchesOf(slots, q, G)) <=> {m[j] : j \in 1..Len(m)} = MatchesOf(slots, q, G)
        BY <1>5, <2>7, <4>1, FullList
      <4> QED BY <4>1, <4>2 DEF m
    <3>2. {d[k] : k \in 1..Len(d)} = MatchesOf(slots, q, P)
      BY <2>4, <2>5, <3>1
    <3> HIDE DEF P
    <3> QED BY <1>5, <2>6, <2>7, <3>2, FullList
  <2>9. /\ y \in ScanSet(slots, setup) /\ y.phase = "done" /\ y.cut /\ y.cutAt = FirstCut /\ y.matches = d
        /\ y.count = Len(d) /\ y.resumable = fits /\ y.top = J.top
    <3>1. fits \in BOOLEAN /\ Len(d) \in Nat
      BY <2>3
    <3> HIDE DEF fits
    <3> QED BY <1>6, <2>2, <2>3, <3>1 DEF ScanSet
  <2> HIDE DEF P, y, fits
  <2>10. Pending(y) = {}
    BY <2>9 DEF Pending
  <2>11. CutFits(slots, setup, q, y, U, P)
    <3>1. ASSUME NEW i \in U, i < FirstCut \/ i >= setup.ranked PROVE i \in P
      <4>1. i \in Nat
        BY <1>1, <1>5
      <4>2. (i < setup.ranked => \A w \in Workers : i < part[w].cutAt) \/ i >= setup.ranked
        BY <1>2, <1>5, <2>2, <3>1, <4>1
      <4>3. i \in G
        BY <1>3, <4>2
      <4> QED BY <3>1, <4>3 DEF P
    <3>2. ASSUME NEW i \in FirstCut..(setup.ranked - 1), MatchIn(slots, q, i), slots[i].of[q].bonus = 0
          PROVE  BeatenIn(slots, setup, q, i)
      <4>1. PICK w \in Workers : FirstCut = part[w].cutAt
        BY <2>2
      <4>2. part[w].cut
        BY <1>4, <1>5, <3>2, <4>1
      <4> QED BY <1>4, <3>2, <4>1, <4>2
    <3> QED BY <2>9, <2>10, <3>1, <3>2 DEF CutFits
  <2>12. Fits(slots, setup, q, y, U, P)
    BY <1>1, <1>6, <2>6, <2>7, <2>8, <2>9, <2>10, <2>11 DEF Fits
  <2>13. Tidy(setup, y, P)
    BY <2>9 DEF Tidy, P
  <2> QED BY <1>1, <2>1, <2>9, <2>12, <2>13 DEF MainFits
<1> QED BY <1>7, <1>8

-----------------------------------------------------------------------------
(* The threads. *)

\* What a scan has found does not depend on whether it waits or has published.
Alike(z, r) ==
    /\ z.at = r.at /\ z.end = r.end /\ z.sorted = r.sorted /\ z.stop = r.stop
    /\ z.matches = r.matches /\ z.count = r.count /\ z.top = r.top
    /\ z.cut = r.cut /\ z.cutAt = r.cutAt /\ z.resumable = r.resumable
    /\ z.phase = r.phase \/ (Rests(z) /\ Rests(r))

LEMMA AlikeFits ==
    ASSUME NEW sl, NEW su, NEW q, NEW r, NEW T, NEW S, Fits(sl, su, q, r, T, S),
           NEW z \in ScanSet(sl, su), Alike(z, r)
    PROVE  Fits(sl, su, q, z, T, S)
<1>1. /\ z.at = r.at /\ z.end = r.end /\ z.sorted = r.sorted /\ z.stop = r.stop
      /\ z.matches = r.matches /\ z.count = r.count /\ z.top = r.top
      /\ z.cut = r.cut /\ z.cutAt = r.cutAt /\ z.resumable = r.resumable
      /\ z.phase = r.phase \/ (Rests(z) /\ Rests(r))
  BY DEF Alike
<1>2. Pending(z) = Pending(r)
  BY <1>1 DEF Pending, Rests
<1>3. CutFits(sl, su, q, z, T, S)
  <2>1. CutFits(sl, su, q, r, T, S)
    BY DEF Fits
  <2>2. z.phase = r.phase \/ z.phase \notin {"scan", "bonus"}
    BY <1>1 DEF Rests
  <2>3. \A i \in T \ Pending(z) : i < z.cutAt \/ i >= su.ranked => i \in S
    BY <1>1, <1>2, <2>1 DEF CutFits
  <2>4. ~z.cut => z.cutAt = su.ranked /\ z.phase # "bonus" /\ z.resumable
    BY <1>1, <2>1, <2>2 DEF CutFits
  <2>5. z.cut => \A i \in z.cutAt..(su.ranked - 1) :
                    MatchIn(sl, q, i) /\ sl[i].of[q].bonus = 0 => BeatenIn(sl, su, q, i)
    BY <1>1, <2>1 DEF CutFits
  <2>6. z.phase = "bonus" =>
          /\ z.cutAt <= z.at /\ z.at <= z.end /\ z.end <= su.ranked /\ z.stop <= z.end
          /\ \A i \in z.stop..(z.end - 1) : MatchIn(sl, q, i) => BeatenIn(sl, su, q, i)
    BY <1>1, <2>1, <2>2 DEF CutFits
  <2>7. z.phase = "scan" => z.at < z.end /\ (z.sorted => z.end <= su.ranked)
    BY <1>1, <2>1, <2>2 DEF CutFits
  <2> QED BY <2>3, <2>4, <2>5, <2>6, <2>7 DEF CutFits
<1> QED BY <1>1, <1>2, <1>3 DEF Fits

\* Only the calling thread can find that its list is truncated.
LEMMA ThreadKeeps ==
    ASSUME NEW r \in ScanSet(slots, setup)
    PROVE  /\ \A q, th : One(r, q, th).resumable = r.resumable
           /\ \A s0, s1, sorted, th : Enter(r, s0, s1, sorted, th).resumable = r.resumable
<1>1. ASSUME NEW z \in ScanSet(slots, setup), NEW i, NEW th PROVE Cut(z, i, th).resumable = z.resumable
  BY DEF Cut, ScanSet
<1>2. ASSUME NEW q, NEW th PROVE One(r, q, th).resumable = r.resumable
  <2>1. Cut(r, r.at, th).resumable = r.resumable
    BY <1>1
  <2>2. Past(r).resumable = r.resumable
    BY DEF Past, ScanSet
  <2>3. Past(Counted(r, r.at)).resumable = r.resumable
    BY DEF Past, Counted, ScanSet
  <2>4. Past(Scored(Counted(r, r.at), q, r.at)).resumable = r.resumable
    BY DEF Past, Counted, Scored, ScanSet
  <2>5. ScanOne(r, q, th).resumable = r.resumable
    BY <2>1, <2>2, <2>3, <2>4 DEF ScanOne
  <2>6. [r EXCEPT !.phase = "done"].resumable = r.resumable
    BY DEF ScanSet
  <2>7. \A s : Past([Scored(r, q, r.at) EXCEPT !.stop = s]).resumable = r.resumable
    BY DEF Past, Scored, ScanSet
  <2>8. BonusOne(r, q, th).resumable = r.resumable
    BY <2>2, <2>6, <2>7 DEF BonusOne
  <2> QED BY <2>5, <2>8 DEF One
<1>3. ASSUME NEW s0, NEW s1, NEW sorted, NEW th PROVE Enter(r, s0, s1, sorted, th).resumable = r.resumable
  <2> DEFINE e == [r EXCEPT !.at = s0, !.end = s1, !.sorted = sorted, !.phase = "scan"]
  <2>1. e.resumable = r.resumable /\ [e EXCEPT !.phase = "done"].resumable = r.resumable
    BY DEF ScanSet
  <2>2. Cut(e, s0, th).resumable = r.resumable
    BY DEF Cut, ScanSet
  <2> QED BY <2>1, <2>2 DEF Enter
<1> QED BY <1>2, <1>3

\* A step of one thread leaves the others their slots.
LEMMA ThreadSteps ==
    ASSUME NEW sl, NEW su, NEW q, NEW pt, DOMAIN pt = 1..su.workers,
           NEW first \in Nat, NEW end \in Nat, NEW T, NEW S, ThreadsFit(sl, su, q, pt, first, end, T, S),
           NEW w \in 1..su.workers, NEW e2 \in Nat, first <= end, end <= e2,
           NEW z, NEW R, R = T[w] \cup (end..(e2 - 1)), NEW U, Fits(sl, su, q, z, R, U), z.resumable,
           NEW pn, pn = [pt EXCEPT ![w] = z]
    PROVE  \E X, Y : ThreadsFit(sl, su, q, pn, first, e2, X, Y)
<1> DEFINE n == su.workers
<1> DEFINE X == [v \in 1..n |-> IF v = w THEN R ELSE T[v]]
<1> DEFINE Y == [v \in 1..n |-> IF v = w THEN U ELSE S[v]]
<1>1. pn[w] = z /\ \A v \in 1..n : v # w => pn[v] = pt[v]
  OBVIOUS
<1>2. X[w] = R /\ Y[w] = U /\ \A v \in 1..n : v # w => X[v] = T[v] /\ Y[v] = S[v]
  OBVIOUS
<1> HIDE DEF X, Y
<1>3. /\ \A v \in 1..n : Fits(sl, su, q, pt[v], T[v], S[v]) /\ pt[v].resumable /\ T[v] \subseteq first..(end - 1)
      /\ \A u, v \in 1..n : u # v => T[u] \cap T[v] = {}
      /\ \A i \in first..(end - 1) : \E v \in 1..n : i \in T[v]
  BY DEF ThreadsFit
<1>4. first..(e2 - 1) = (first..(end - 1)) \cup (end..(e2 - 1)) /\ (first..(end - 1)) \cap (end..(e2 - 1)) = {}
  OBVIOUS
<1> HIDE DEF n
<1>5. ASSUME NEW v \in 1..n
      PROVE  Fits(sl, su, q, pn[v], X[v], Y[v]) /\ pn[v].resumable /\ X[v] \subseteq first..(e2 - 1)
  <2>1. CASE v = w
    <3>1. R \subseteq first..(e2 - 1)
      BY <1>3, <1>4, <2>1
    <3> QED BY <1>1, <1>2, <2>1, <3>1
  <2>2. CASE v # w
    BY <1>1, <1>2, <1>3, <1>4, <2>2
  <2> QED BY <2>1, <2>2
<1>6. ASSUME NEW u \in 1..n, NEW v \in 1..n, u # v PROVE X[u] \cap X[v] = {}
  <2>1. \A x \in 1..n : x # w => R \cap T[x] = {}
    <3> TAKE x \in 1..n
    <3>1. SUFFICES ASSUME x # w PROVE R \cap T[x] = {}
      OBVIOUS
    <3>2. T[w] \cap T[x] = {} /\ T[x] \subseteq first..(end - 1)
      BY <1>3, <3>1 DEF n
    <3> QED BY <1>4, <3>2
  <2>2. CASE u = w
    BY <1>2, <1>6, <2>1, <2>2
  <2>3. CASE v = w
    BY <1>2, <1>6, <2>1, <2>3
  <2>4. CASE u # w /\ v # w
    BY <1>2, <1>3, <1>6, <2>4
  <2> QED BY <2>2, <2>3, <2>4
<1>7. ASSUME NEW i \in first..(e2 - 1) PROVE \E v \in 1..n : i \in X[v]
  <2>1. CASE i \in end..(e2 - 1)
    BY <1>2, <2>1 DEF n
  <2>2. CASE i \in first..(end - 1)
    <3>1. PICK v \in 1..n : i \in T[v]
      BY <1>3, <2>2
    <3>2. i \in X[v]
      BY <1>2, <3>1
    <3> QED BY <3>2
  <2> QED BY <1>4, <2>1, <2>2
<1>8. ThreadsFit(sl, su, q, pn, first, e2, X, Y)
  BY <1>5, <1>6, <1>7 DEF ThreadsFit, n
<1> QED BY <1>8

\* The chunks that are handed out.
ChunkStart(su, p, n) == p + n * su.chunk
Handed(su, p, n) == Smaller(su.ranked, ChunkStart(su, p, n))

\* Chunks are handed out one behind the other, up to the end of the region.
LEMMA ChunkFits ==
    ASSUME NEW su \in Setups, NEW p \in 0..su.ranked, NEW n \in Nat
    PROVE  /\ ChunkStart(su, p, n) \in Nat /\ Handed(su, p, n) \in p..su.ranked
           /\ Handed(su, p, n) <= Handed(su, p, n + 1) /\ Handed(su, p, n + 1) \in p..su.ranked
           /\ ChunkStart(su, p, n) >= su.ranked =>
                 /\ Handed(su, p, n) = su.ranked /\ Handed(su, p, n + 1) = su.ranked
                 /\ ChunkStart(su, p, n + 1) >= su.ranked
           /\ ChunkStart(su, p, n) < su.ranked =>
                 /\ Handed(su, p, n) = ChunkStart(su, p, n)
                 /\ Handed(su, p, n + 1) = Smaller(su.ranked, ChunkStart(su, p, n) + su.chunk)
           /\ Handed(su, p, 0) = p
<1> DEFINE c == su.chunk
<1> DEFINE a == n * c
<1>1. c \in Nat /\ su.ranked \in Nat
  BY SetupFits
<1>2. a \in Nat /\ (n + 1) * c = a + c /\ 0 * c = 0
  BY <1>1
<1> HIDE DEF a, c
<1>3. (n + 1) * su.chunk = a + c /\ n * su.chunk = a /\ 0 * su.chunk = 0 /\ su.chunk = c
  BY <1>2 DEF a, c
<1>4. p \in Nat /\ p <= su.ranked
  BY <1>1
<1>5. ChunkStart(su, p, n + 1) = p + (a + c) /\ ChunkStart(su, p, n) = p + a /\ ChunkStart(su, p, 0) = p
  BY <1>3, <1>4 DEF ChunkStart
<1> QED BY <1>1, <1>2, <1>3, <1>4, <1>5 DEF Handed, Smaller

-----------------------------------------------------------------------------
(* The inductive invariant. *)

TypedIn(sl, su, r) == r \in ScanSet(sl, su) /\ Len(r.top) <= su.limit

Types ==
    /\ pc \in {"idle", "fan", "tail"} /\ query \in Queries \cup {0}
    /\ shared \in Int /\ nextChunk \in Nat
    /\ TypedIn(slots, setup, main)
    /\ DOMAIN part = 1..setup.workers /\ \A w \in 1..setup.workers : TypedIn(slots, setup, part[w])
    /\ state \in [valid : BOOLEAN, query : Queries \cup {0}, slots : Seq(DOMAIN slots), resume : 0..setup.ranked]
    /\ Len(result) <= setup.limit

\* Between two searches: the answer.
IdleIn(sl, su, q, sh, res, cnt) ==
    /\ sh = Least
    /\ q # 0 => ResultIn(sl, su, q, res, cnt)

\* The threads have the ranked slots behind the probe, as far as they are handed out.
FanIn(sl, su, st, q, sh, mn, pt, p, n) ==
    /\ q \in Queries /\ BoundingIn(sl, su, q, sh)
    /\ p \in 0..su.ranked /\ ~mn.cut /\ MainFits(sl, su, st, q, mn, p)
    /\ \E T, S : ThreadsFit(sl, su, q, pt, p, Handed(su, p, n), T, S)
    /\ \A w \in 1..su.workers : pt[w].phase = "ended" => ChunkStart(su, p, n) >= su.ranked

\* The calling thread has the ranked region.
TailIn(sl, su, st, q, sh, mn) ==
    q \in Queries /\ BoundingIn(sl, su, q, sh) /\ MainFits(sl, su, st, q, mn, su.ranked)

IInv ==
    /\ Types
    /\ NamesFit(slots, setup) /\ KeptIn(slots, setup, state)
    /\ pc = "idle" => IdleIn(slots, setup, query, shared, result, counted)
    /\ pc = "fan" => FanIn(slots, setup, state, query, shared, main, part, probeEnd, nextChunk)
    /\ pc = "tail" => TailIn(slots, setup, state, query, shared, main)

\* The scan of the calling thread, between its calls.
LEMMA MainTypes ==
    ASSUME NamesFit(slots, setup), NEW q \in Queries, NEW r, NEW e, MainFits(slots, setup, state, q, r, e)
    PROVE  TypedIn(slots, setup, r) /\ BoundingIn(slots, setup, q, Threshold(r.top))
<1>1. PICK S : Fits(slots, setup, q, r, Up(slots, setup, state, q, e), S)
  BY DEF MainFits
<1>2. r \in ScanSet(slots, setup)
  BY <1>1 DEF Fits
<1>3. BoundingIn(slots, setup, q, Threshold(r.top))
  BY <1>1, OwnBounds
<1>4. Len(r.top) <= setup.limit
  BY <1>1, TopTypes DEF Fits
<1> QED BY <1>2, <1>3, <1>4 DEF TypedIn

\* An index that no search has read yet.
LEMMA InitFits == Init => IInv
<1> SUFFICES ASSUME Init PROVE IInv
  OBVIOUS
<1> USE DEF Size, Ranked
<1>1. /\ setup \in Setups /\ setup.size \in Nat \ {0} /\ setup.ranked \in 0..setup.size
      /\ setup.limit \in Nat \ {0} /\ setup.workers \in Nat \ {0}
      /\ setup.bases \subseteq NoBase..32767
      /\ \A sort \in setup.sorts, q \in Queries :
            sort[q] \in Standings /\ (sort[q].match => sort[q].anchor)
      /\ \A sort \in setup.sorts, p \in Extends : sort[p[1]].match => sort[p[2]].match
  BY ScanAssumption DEF Init, ScanAssumption
<1>2. PICK base \in [0..(Size - 1) -> setup.bases], of \in [0..(Size - 1) -> setup.sorts],
           d \in setup.dead, aged \in BOOLEAN :
        /\ \A i, j \in 0..(Ranked - 1) : i < j => base[i] >= base[j]
        /\ slots = [i \in 0..(Size - 1) |->
                [live |-> i \notin d, entry |-> IF aged THEN i ELSE Size - i,
                 base |-> base[i], of |-> of[i]]]
  BY DEF Init
<1>3. DOMAIN slots = 0..(setup.size - 1)
  BY <1>2
<1>4. ASSUME NEW i \in 0..(setup.size - 1)
      PROVE  /\ slots[i].live \in BOOLEAN /\ slots[i].entry \in Int /\ slots[i].base \in NoBase..32767
             /\ slots[i].base = base[i] /\ slots[i].of = of[i] /\ of[i] \in setup.sorts
             /\ slots[i].entry = IF aged THEN i ELSE setup.size - i
  <2>1. slots[i] = [live |-> i \notin d, entry |-> IF aged THEN i ELSE setup.size - i,
                    base |-> base[i], of |-> of[i]]
    BY <1>2
  <2>2. /\ slots[i].live = (i \notin d) /\ slots[i].base = base[i] /\ slots[i].of = of[i]
        /\ slots[i].entry = IF aged THEN i ELSE setup.size - i
    BY <2>1
  <2>3. base[i] \in setup.bases /\ of[i] \in setup.sorts
    BY <1>2
  <2>4. base[i] \in NoBase..32767
    BY <1>1, <2>3
  <2>5. slots[i].entry \in Int
    BY <1>1, <2>2
  <2> QED BY <2>2, <2>3, <2>4, <2>5
<1>5. NamesFit(slots, setup)
  <2>1. \A i \in DOMAIN slots :
          /\ slots[i].live \in BOOLEAN /\ slots[i].entry \in Int /\ slots[i].base \in NoBase..32767
          /\ \A q \in Queries : slots[i].of[q] \in Standings /\ (slots[i].of[q].match => slots[i].of[q].anchor)
          /\ \A p \in Extends : slots[i].of[p[1]].match => slots[i].of[p[2]].match
    BY <1>1, <1>3, <1>4
  <2>2. \A i, j \in DOMAIN slots : slots[i].entry = slots[j].entry => i = j
    BY <1>1, <1>3, <1>4
  <2>3. \A i, j \in 0..(setup.ranked - 1) : i < j => slots[i].base >= slots[j].base
    <3> TAKE i, j \in 0..(setup.ranked - 1)
    <3>1. i \in 0..(setup.size - 1) /\ j \in 0..(setup.size - 1)
      BY <1>1
    <3> QED BY <1>2, <1>4, <3>1
  <2> QED BY <1>1, <1>3, <2>1, <2>2, <2>3 DEF NamesFit
<1>6. TypedIn(slots, setup, NoScan)
  <2>1. <<>> \in Seq(DOMAIN slots) /\ <<>> \in Seq([entry : Int, score : Int]) /\ Len(<<>>) = 0
    OBVIOUS
  <2> QED BY <1>1, <2>1 DEF NoScan, TypedIn, ScanSet
<1>7. state \in [valid : BOOLEAN, query : Queries \cup {0}, slots : Seq(DOMAIN slots), resume : 0..setup.ranked]
  BY <1>1 DEF Init, NoState
<1>8. KeptIn(slots, setup, state)
  BY <1>1 DEF Init, NoState, KeptIn
<1>9. Types
  <2>1. DOMAIN part = 1..setup.workers /\ \A w \in 1..setup.workers : part[w] = NoScan
    BY DEF Init, Workers
  <2>2. main = NoScan /\ pc = "idle" /\ query = 0 /\ shared = Least /\ nextChunk = 0 /\ Len(result) = 0
    BY DEF Init
  <2> QED BY <1>1, <1>6, <1>7, <2>1, <2>2 DEF Types, Least
<1>10. pc = "idle" /\ IdleIn(slots, setup, query, shared, result, counted)
  BY DEF Init, IdleIn
<1> QED BY <1>5, <1>8, <1>9, <1>10 DEF IInv

\* A query: the probe, and what follows it on the calling thread.
LEMMA SearchFits ==
    ASSUME IInv, NEW q \in Queries, Search(q), setup' = setup
    PROVE  IInv'
<1> DEFINE b == Begin(q)
<1> DEFINE p == ProbeEnd(b)
<1> DEFINE r == Probe(q)
<1> DEFINE rest == b < Ranked /\ p < Ranked
<1>1. /\ pc = "idle" /\ query' = q /\ probeEnd' = p
      /\ main' = IF r.cut THEN FinishCut(r, q, p)
                 ELSE IF rest /\ Near(r, p) THEN ScanSlots(r, q, p, Ranked, TRUE) ELSE r
      /\ pc' = IF rest /\ ~r.cut /\ ~Near(r, p) THEN "fan" ELSE "tail"
      /\ shared' = Threshold(main'.top)
      /\ part' = [w \in Workers |-> [FreshScan EXCEPT !.phase = "chunk"]]
      /\ nextChunk' = 0 /\ slots' = slots /\ state' = state /\ result' = result
  BY DEF Search, Probe
<1>2. NamesFit(slots, setup) /\ KeptIn(slots, setup, state) /\ BoundingIn(slots, setup, q, shared) /\ Types
  BY <1>1 DEF IInv, IdleIn, BoundingIn, Bounding, Least
<1>3. /\ p \in 0..setup.ranked /\ (~(b < Ranked) => p = Ranked)
      /\ r.cut => r.cutAt <= p
      /\ MainFits(slots, setup, state, q, r, p)
  BY <1>2, ProbeFits
<1>4. setup.ranked \in Nat /\ setup.workers \in Nat
  BY <1>2, SetupFits DEF NamesFit
<1> HIDE DEF b, p, r
<1>5. /\ r.cut => MainFits(slots, setup, state, q, FinishCut(r, q, p), setup.ranked)
      /\ ~r.cut => MainFits(slots, setup, state, q, ScanSlots(r, q, p, Ranked, TRUE), setup.ranked)
  BY <1>2, <1>3, RestFits
<1> DEFINE z == [FreshScan EXCEPT !.phase = "chunk"]
<1>6. Fits(slots, setup, q, z, {}, {}) /\ z.resumable /\ z.phase # "ended" /\ z.top = <<>>
  <2>1. z \in {FreshScan, [FreshScan EXCEPT !.phase = "chunk"]}
    OBVIOUS
  <2> HIDE DEF z
  <2> QED BY <1>2, <2>1, FreshFits
<1>7. TypedIn(slots, setup, z)
  <2> HIDE DEF z
  <2>1. z \in ScanSet(slots, setup) /\ Len(z.top) = 0
    BY <1>6 DEF Fits
  <2>2. 0 <= setup.limit
    BY <1>2, SetupFits DEF NamesFit
  <2> QED BY <2>1, <2>2 DEF TypedIn
<1>8. DOMAIN part' = 1..setup.workers /\ \A w \in 1..setup.workers : part'[w] = z
  BY <1>1 DEF Workers
<1> HIDE DEF z
<1>9. CASE pc' = "fan"
  <2>1. main' = r /\ ~r.cut
    BY <1>1, <1>9
  <2>2. TypedIn(slots, setup, r) /\ BoundingIn(slots, setup, q, Threshold(r.top))
    BY <1>2, <1>3, MainTypes
  <2>3. \E T, S : ThreadsFit(slots, setup, q, part', p, Handed(setup, p, 0), T, S)
    <3> DEFINE T == [w \in 1..setup.workers |-> {}]
    <3>1. \A w \in 1..setup.workers : T[w] = {}
      OBVIOUS
    <3>2. Handed(setup, p, 0) = p /\ p..(p - 1) = {}
      <4>1. setup \in Setups /\ 0 \in Nat
        BY <1>2 DEF NamesFit
      <4>2. Handed(setup, p, 0) = p
        BY <1>3, <4>1, ChunkFits
      <4> QED BY <1>3, <1>4, <4>2
    <3> HIDE DEF T
    <3>3. ThreadsFit(slots, setup, q, part', p, Handed(setup, p, 0), T, T)
      BY <1>6, <1>8, <3>1, <3>2 DEF ThreadsFit
    <3> QED BY <3>3
  <2>4. \A w \in 1..setup.workers : part'[w].phase # "ended"
    BY <1>6, <1>8
  <2>5. FanIn(slots, setup, state, q, Threshold(r.top), r, part', p, 0)
    BY <1>3, <2>1, <2>2, <2>3, <2>4 DEF FanIn
  <2>6. Threshold(r.top) \in Int
    BY <2>2 DEF BoundingIn, Bounding
  <2>7. Types'
    BY <1>1, <1>2, <1>7, <1>8, <1>9, <2>1, <2>2, <2>6 DEF Types
  <2> QED BY <1>1, <1>2, <1>9, <2>1, <2>5, <2>7 DEF IInv
<1>10. CASE pc' = "tail"
  <2>1. MainFits(slots, setup, state, q, main', setup.ranked)
    <3>1. CASE r.cut
      BY <1>1, <1>5, <3>1
    <3>2. CASE ~r.cut /\ rest /\ Near(r, p)
      BY <1>1, <1>5, <3>2
    <3>3. CASE ~r.cut /\ ~rest
      <4>1. main' = r
        BY <1>1, <3>3
      <4>2. p = setup.ranked
        BY <1>3, <1>4, <3>3 DEF Ranked
      <4> QED BY <1>3, <4>1, <4>2
    <3> QED BY <1>1, <1>10, <3>1, <3>2, <3>3
  <2>2. TypedIn(slots, setup, main') /\ BoundingIn(slots, setup, q, Threshold(main'.top))
    BY <1>2, <2>1, MainTypes
  <2>3. TailIn(slots, setup, state, q, Threshold(main'.top), main')
    BY <2>1, <2>2 DEF TailIn
  <2>4. Threshold(main'.top) \in Int
    BY <2>2 DEF BoundingIn, Bounding
  <2>5. Types'
    BY <1>1, <1>2, <1>7, <1>8, <1>10, <2>2, <2>4 DEF Types
  <2> QED BY <1>1, <1>2, <1>10, <2>3, <2>5 DEF IInv
<1> QED BY <1>1, <1>9, <1>10

\* A chunk is handed out, or there is none left.
LEMMA TakeFits ==
    ASSUME IInv, NEW w \in Workers, Take(w), setup' = setup
    PROVE  IInv'
<1> DEFINE q == query
<1> DEFINE r == part[w]
<1> DEFINE first == ChunkStart(setup, probeEnd, nextChunk)
<1> DEFINE last == Smaller(Ranked, first + setup.chunk)
<1> DEFINE th == Bound(w)
<1> DEFINE e == Enter(r, first, last, TRUE, th)
<1> DEFINE z == IF first >= Ranked THEN [r EXCEPT !.phase = "ended"]
                ELSE IF e.phase = "done" THEN [e EXCEPT !.phase = "chunk"] ELSE e
<1>1. /\ pc = "fan" /\ r.phase = "chunk" /\ nextChunk' = nextChunk + 1 /\ part' = [part EXCEPT ![w] = z]
      /\ slots' = slots /\ state' = state /\ query' = query /\ pc' = pc /\ main' = main
      /\ probeEnd' = probeEnd /\ shared' = shared /\ result' = result
  BY DEF Take, ChunkStart
<1>2. /\ NamesFit(slots, setup) /\ KeptIn(slots, setup, state) /\ Types
      /\ FanIn(slots, setup, state, q, shared, main, part, probeEnd, nextChunk)
  BY <1>1 DEF IInv
<1>3. /\ q \in Queries /\ BoundingIn(slots, setup, q, shared)
      /\ probeEnd \in 0..setup.ranked /\ nextChunk \in Nat /\ w \in 1..setup.workers
      /\ setup \in Setups /\ setup.ranked \in Nat /\ setup.chunk \in Nat \ {0}
      /\ DOMAIN part = 1..setup.workers
  <2>1. setup \in Setups
    BY <1>2 DEF NamesFit
  <2> QED BY <1>2, <2>1, SetupFits DEF FanIn, Types, Workers
<1> DEFINE end == Handed(setup, probeEnd, nextChunk)
<1> DEFINE e2 == Handed(setup, probeEnd, nextChunk + 1)
<1>4. PICK T, S : ThreadsFit(slots, setup, q, part, probeEnd, end, T, S)
  BY <1>2 DEF FanIn
<1>5. /\ first \in Nat /\ end \in probeEnd..setup.ranked /\ end <= e2 /\ e2 \in probeEnd..setup.ranked
      /\ first >= setup.ranked => end = setup.ranked /\ e2 = setup.ranked
                                  /\ ChunkStart(setup, probeEnd, nextChunk + 1) >= setup.ranked
      /\ first < setup.ranked => end = first /\ e2 = last
  BY <1>3, ChunkFits DEF Ranked
<1> HIDE DEF end, e2, first, last, th, e, q, r
<1>6. Fits(slots, setup, q, r, T[w], S[w]) /\ r.resumable /\ T[w] \subseteq probeEnd..(end - 1)
      /\ r \in ScanSet(slots, setup)
  <2>1. Fits(slots, setup, q, r, T[w], S[w]) /\ r.resumable /\ T[w] \subseteq probeEnd..(end - 1)
    BY <1>3, <1>4 DEF ThreadsFit, r
  <2> QED BY <2>1 DEF Fits
<1> DEFINE R == T[w] \cup (end..(e2 - 1))
<1>7. /\ \E U : Fits(slots, setup, q, z, R, U)
      /\ z.resumable /\ (z.phase = "ended" => first >= setup.ranked)
  <2>1. CASE first >= setup.ranked
    <3>1. z = [r EXCEPT !.phase = "ended"]
      BY <2>1 DEF Ranked
    <3>2. end..(e2 - 1) = {}
      BY <1>3, <1>5, <2>1
    <3> HIDE DEF z
    <3>3. z \in ScanSet(slots, setup) /\ z.phase = "ended" /\ z.resumable = r.resumable
      BY <1>6, <3>1 DEF ScanSet
    <3>4. Fits(slots, setup, q, z, T[w], S[w])
      <4>1. Alike(z, r)
        BY <1>1, <1>6, <3>1, <3>3 DEF Alike, ScanSet, Rests
      <4> QED BY <1>6, <3>3, <4>1, AlikeFits
    <3>5. R = T[w]
      BY <3>2
    <3> QED BY <1>6, <2>1, <3>3, <3>4, <3>5
  <2>2. CASE first < setup.ranked
    <3>1. end = first /\ e2 = last /\ last <= setup.ranked /\ last \in Nat
      BY <1>3, <1>5, <2>2
    <3>2. Given(slots, setup, T[w], first, last, TRUE)
      <4>1. first..(last - 1) \subseteq DOMAIN slots
        BY <1>2, <1>3, <1>5, <3>1, SetupFits DEF NamesFit
      <4>2. (first..(last - 1)) \cap T[w] = {}
        BY <1>3, <1>5, <1>6, <3>1
      <4> QED BY <1>5, <3>1, <4>1, <4>2 DEF Given
    <3>3. BoundingIn(slots, setup, q, th)
      BY <1>2, <1>3, <1>6, OwnBounds, LargerBounds DEF th, Bound, BoundingIn, r
    <3>4. Rests(r)
      BY <1>1 DEF Rests
    <3> DEFINE sorted == TRUE
    <3>5. e = Enter(r, first, last, sorted, th)
      BY DEF e
    <3> HIDE DEF sorted
    <3>6. Given(slots, setup, T[w], first, last, sorted)
      BY <3>2 DEF sorted
    <3>7. /\ Fits(slots, setup, q, e, T[w] \cup (first..(last - 1)), S[w])
          /\ e.phase \in {"scan", "bonus", "done"}
      BY <1>2, <1>3, <1>6, <3>3, <3>4, <3>5, <3>6, EnterFits
    <3>8. Fits(slots, setup, q, e, R, S[w]) /\ e \in ScanSet(slots, setup) /\ e.resumable
      <4>1. R = T[w] \cup (first..(last - 1))
        BY <3>1
      <4>2. e.resumable
        BY <1>6, <3>5, ThreadKeeps
      <4> QED BY <3>7, <4>1, <4>2 DEF Fits
    <3> HIDE DEF R
    <3>9. CASE e.phase # "done"
      <4>1. z = e
        BY <1>3, <1>5, <2>2, <3>9 DEF Ranked
      <4> HIDE DEF z
      <4> QED BY <3>7, <3>8, <4>1
    <3>10. CASE e.phase = "done"
      <4>1. z = [e EXCEPT !.phase = "chunk"]
        BY <1>3, <1>5, <2>2, <3>10 DEF Ranked
      <4> HIDE DEF z
      <4>2. z \in ScanSet(slots, setup) /\ z.phase = "chunk" /\ z.resumable = e.resumable
        BY <3>8, <4>1 DEF ScanSet
      <4>3. Alike(z, e)
        BY <3>8, <3>10, <4>1, <4>2 DEF Alike, ScanSet, Rests
      <4>4. Fits(slots, setup, q, z, R, S[w])
        BY <3>8, <4>2, <4>3, AlikeFits
      <4> QED BY <3>8, <4>2, <4>4
    <3> QED BY <3>9, <3>10
  <2> HIDE DEF z, R
  <2> QED BY <1>3, <1>5, <2>1, <2>2
<1>8. PICK U : Fits(slots, setup, q, z, R, U)
  BY <1>7
<1> HIDE DEF z
<1>9. TypedIn(slots, setup, z)
  <2>1. z \in ScanSet(slots, setup)
    BY <1>8 DEF Fits
  <2>2. Len(z.top) <= setup.limit
    BY <1>2, <1>3, <1>8, TopTypes DEF Fits
  <2> QED BY <2>1, <2>2 DEF TypedIn
<1>10. \E X, Y : ThreadsFit(slots, setup, q, part', probeEnd, e2, X, Y)
  <2>1. R = T[w] \cup (end..(e2 - 1))
    OBVIOUS
  <2>2. probeEnd \in Nat /\ end \in Nat /\ e2 \in Nat /\ probeEnd <= end
    BY <1>3, <1>5
  <2> HIDE DEF R
  <2> QED BY <1>1, <1>3, <1>4, <1>5, <1>7, <1>8, <2>1, <2>2, ThreadSteps
<1>11. part'[w] = z /\ DOMAIN part' = 1..setup.workers /\ \A v \in 1..setup.workers : v # w => part'[v] = part[v]
  BY <1>1, <1>3
<1>12. \A v \in 1..setup.workers : part'[v].phase = "ended" => ChunkStart(setup, probeEnd, nextChunk + 1) >= setup.ranked
  <2> TAKE v \in 1..setup.workers
  <2>1. SUFFICES ASSUME part'[v].phase = "ended" PROVE first >= setup.ranked
    BY <1>5
  <2>2. CASE v = w
    BY <1>7, <1>11, <2>1, <2>2
  <2>3. CASE v # w
    BY <1>2, <1>11, <2>1, <2>3 DEF FanIn, first
  <2> QED BY <2>2, <2>3
<1>13. FanIn(slots, setup, state, q, shared, main, part', probeEnd, nextChunk + 1)
  BY <1>2, <1>10, <1>12 DEF FanIn, e2
<1>14. Types'
  <2>1. nextChunk + 1 \in Nat
    BY <1>3
  <2>2. \A v \in 1..setup.workers : TypedIn(slots, setup, part'[v])
    BY <1>2, <1>9, <1>11 DEF Types
  <2> QED BY <1>1, <1>2, <1>11, <2>1, <2>2 DEF Types
<1> QED BY <1>1, <1>2, <1>13, <1>14 DEF IInv, q

\* One name.
LEMMA ExamineFits ==
    ASSUME IInv, NEW w \in Workers, Examine(w), setup' = setup
    PROVE  IInv'
<1> DEFINE q == query
<1> DEFINE r == part[w]
<1> DEFINE th == Bound(w)
<1> DEFINE y == One(r, q, th)
<1> DEFINE z == IF y.phase = "done" THEN [y EXCEPT !.phase = "chunk"] ELSE y
<1>1. /\ pc = "fan" /\ r.phase \in {"scan", "bonus"} /\ part' = [part EXCEPT ![w] = z]
      /\ nextChunk' = nextChunk
      /\ slots' = slots /\ state' = state /\ query' = query /\ pc' = pc /\ main' = main
      /\ probeEnd' = probeEnd /\ shared' = shared /\ result' = result
  BY DEF Examine
<1>2. /\ NamesFit(slots, setup) /\ KeptIn(slots, setup, state) /\ Types
      /\ FanIn(slots, setup, state, q, shared, main, part, probeEnd, nextChunk)
  BY <1>1 DEF IInv
<1>3. /\ q \in Queries /\ BoundingIn(slots, setup, q, shared)
      /\ probeEnd \in 0..setup.ranked /\ nextChunk \in Nat /\ w \in 1..setup.workers
      /\ setup \in Setups /\ setup.ranked \in Nat
      /\ DOMAIN part = 1..setup.workers
  <2>1. setup \in Setups
    BY <1>2 DEF NamesFit
  <2> QED BY <1>2, <2>1, SetupFits DEF FanIn, Types, Workers
<1> DEFINE end == Handed(setup, probeEnd, nextChunk)
<1>4. PICK T, S : ThreadsFit(slots, setup, q, part, probeEnd, end, T, S)
  BY <1>2 DEF FanIn
<1>5. end \in probeEnd..setup.ranked
  BY <1>3, ChunkFits
<1> HIDE DEF end, th, y, q, r
<1>6. Fits(slots, setup, q, r, T[w], S[w]) /\ r.resumable /\ r \in ScanSet(slots, setup)
  <2>1. Fits(slots, setup, q, r, T[w], S[w]) /\ r.resumable
    BY <1>3, <1>4 DEF ThreadsFit, r
  <2> QED BY <2>1 DEF Fits
<1> DEFINE R == T[w]
<1>7. (\E U : Fits(slots, setup, q, z, R, U)) /\ z.resumable /\ z.phase # "ended"
  <2>1. BoundingIn(slots, setup, q, th)
    BY <1>2, <1>3, <1>6, OwnBounds, LargerBounds DEF th, Bound, BoundingIn, r
  <2>2. PICK U : Fits(slots, setup, q, One(r, q, th), R, U) /\ Goes(One(r, q, th), r)
    <3> HIDE DEF R, z
    <3>1. Fits(slots, setup, q, r, R, S[w])
      BY <1>6 DEF R
    <3>2. \E U : /\ Fits(slots, setup, q, One(r, q, th), R, U)
                 /\ Neat(setup, r, S[w]) => Neat(setup, One(r, q, th), U)
                 /\ Goes(One(r, q, th), r)
      BY <1>1, <1>2, <1>3, <2>1, <3>1, OneFits
    <3> QED BY <3>2
  <2>3. Fits(slots, setup, q, y, R, U) /\ y.phase \in {"scan", "bonus", "done"} /\ y.resumable
        /\ y \in ScanSet(slots, setup)
    BY <1>6, <2>2, ThreadKeeps DEF Goes, y, Fits
  <2> HIDE DEF R
  <2>4. CASE y.phase # "done"
    <3>1. z = y
      BY <2>4
    <3> QED BY <2>3, <3>1
  <2>5. CASE y.phase = "done"
    <3>1. z = [y EXCEPT !.phase = "chunk"]
      BY <2>5
    <3> HIDE DEF z
    <3>2. z \in ScanSet(slots, setup) /\ z.phase = "chunk" /\ z.resumable = y.resumable
      BY <2>3, <3>1 DEF ScanSet
    <3>3. Alike(z, y)
      BY <2>3, <2>5, <3>1, <3>2 DEF Alike, ScanSet, Rests
    <3>4. Fits(slots, setup, q, z, R, U)
      BY <2>3, <3>2, <3>3, AlikeFits
    <3> QED BY <2>3, <3>2, <3>4
  <2> QED BY <2>4, <2>5
<1>8. PICK U : Fits(slots, setup, q, z, R, U)
  BY <1>7
<1> HIDE DEF z
<1>9. TypedIn(slots, setup, z)
  <2>1. z \in ScanSet(slots, setup)
    BY <1>8 DEF Fits
  <2>2. Len(z.top) <= setup.limit
    BY <1>2, <1>3, <1>8, TopTypes DEF Fits
  <2> QED BY <2>1, <2>2 DEF TypedIn
<1>10. \E X, Y : ThreadsFit(slots, setup, q, part', probeEnd, end, X, Y)
  <2>1. probeEnd \in Nat /\ end \in Nat /\ probeEnd <= end /\ end <= end /\ end..(end - 1) = {}
    BY <1>3, <1>5
  <2>2. R = T[w] \cup (end..(end - 1))
    BY <2>1
  <2> HIDE DEF R
  <2> QED BY <1>1, <1>3, <1>4, <1>7, <1>8, <2>1, <2>2, ThreadSteps
<1>11. part'[w] = z /\ DOMAIN part' = 1..setup.workers /\ \A v \in 1..setup.workers : v # w => part'[v] = part[v]
  BY <1>1, <1>3
<1>12. \A v \in 1..setup.workers : part'[v].phase = "ended" => ChunkStart(setup, probeEnd, nextChunk) >= setup.ranked
  BY <1>2, <1>7, <1>11 DEF FanIn
<1>13. FanIn(slots, setup, state, q, shared, main, part', probeEnd, nextChunk)
  BY <1>2, <1>10, <1>12 DEF FanIn, end
<1>14. Types'
  <2>1. \A v \in 1..setup.workers : TypedIn(slots, setup, part'[v])
    BY <1>2, <1>9, <1>11 DEF Types
  <2> QED BY <1>1, <1>2, <1>11, <2>1 DEF Types
<1> QED BY <1>1, <1>2, <1>13, <1>14 DEF IInv, q

\* The threshold of the top of one thread bounds them all.
LEMMA PublishFits ==
    ASSUME IInv, NEW w \in Workers, Publish(w), setup' = setup
    PROVE  IInv'
<1> DEFINE q == query
<1> DEFINE r == part[w]
<1> DEFINE z == [r EXCEPT !.dirty = FALSE]
<1>1. /\ pc = "fan" /\ part' = [part EXCEPT ![w] = z] /\ shared' = Larger(shared, Threshold(r.top))
      /\ nextChunk' = nextChunk
      /\ slots' = slots /\ state' = state /\ query' = query /\ pc' = pc /\ main' = main
      /\ probeEnd' = probeEnd /\ result' = result
  BY DEF Publish, Raised
<1>2. /\ NamesFit(slots, setup) /\ KeptIn(slots, setup, state) /\ Types
      /\ FanIn(slots, setup, state, q, shared, main, part, probeEnd, nextChunk)
  BY <1>1 DEF IInv
<1>3. /\ q \in Queries /\ BoundingIn(slots, setup, q, shared)
      /\ probeEnd \in 0..setup.ranked /\ nextChunk \in Nat /\ w \in 1..setup.workers
      /\ setup \in Setups /\ setup.ranked \in Nat
      /\ DOMAIN part = 1..setup.workers
  <2>1. setup \in Setups
    BY <1>2 DEF NamesFit
  <2> QED BY <1>2, <2>1, SetupFits DEF FanIn, Types, Workers
<1> DEFINE end == Handed(setup, probeEnd, nextChunk)
<1>4. PICK T, S : ThreadsFit(slots, setup, q, part, probeEnd, end, T, S)
  BY <1>2 DEF FanIn
<1>5. end \in probeEnd..setup.ranked
  BY <1>3, ChunkFits
<1> HIDE DEF end, q, r
<1>6. Fits(slots, setup, q, r, T[w], S[w]) /\ r.resumable /\ r \in ScanSet(slots, setup)
  <2>1. Fits(slots, setup, q, r, T[w], S[w]) /\ r.resumable
    BY <1>3, <1>4 DEF ThreadsFit, r
  <2> QED BY <2>1 DEF Fits
<1>7. z = [r EXCEPT !.dirty = FALSE]
  OBVIOUS
<1> HIDE DEF z
<1>8. z \in ScanSet(slots, setup) /\ z.phase = r.phase /\ z.resumable
  BY <1>6, <1>7 DEF ScanSet
<1>9. Fits(slots, setup, q, z, T[w], S[w])
  <2>1. /\ z.at = r.at /\ z.end = r.end /\ z.sorted = r.sorted /\ z.stop = r.stop
        /\ z.matches = r.matches /\ z.count = r.count /\ z.top = r.top
        /\ z.cut = r.cut /\ z.cutAt = r.cutAt /\ z.resumable = r.resumable
    BY <1>6, <1>7 DEF ScanSet
  <2>2. Alike(z, r)
    BY <1>8, <2>1 DEF Alike
  <2> QED BY <1>6, <1>8, <2>2, AlikeFits
<1>10. TypedIn(slots, setup, z)
  <2>1. Len(z.top) <= setup.limit
    BY <1>2, <1>3, <1>9, TopTypes DEF Fits
  <2> QED BY <1>8, <2>1 DEF TypedIn
<1>11. BoundingIn(slots, setup, q, Larger(shared, Threshold(r.top)))
  <2>1. BoundingIn(slots, setup, q, Threshold(r.top))
    BY <1>2, <1>3, <1>6, OwnBounds
  <2> QED BY <1>3, <2>1, LargerBounds DEF BoundingIn
<1>12. \E X, Y : ThreadsFit(slots, setup, q, part', probeEnd, end, X, Y)
  <2> DEFINE R == T[w]
  <2>1. probeEnd \in Nat /\ end \in Nat /\ probeEnd <= end /\ end <= end /\ end..(end - 1) = {}
    BY <1>3, <1>5
  <2>2. R = T[w] \cup (end..(end - 1)) /\ Fits(slots, setup, q, z, R, S[w])
    BY <1>9, <2>1
  <2> HIDE DEF R
  <2> QED BY <1>1, <1>3, <1>4, <1>8, <2>1, <2>2, ThreadSteps
<1>13. part'[w] = z /\ DOMAIN part' = 1..setup.workers /\ \A v \in 1..setup.workers : v # w => part'[v] = part[v]
  BY <1>1, <1>3
<1>14. \A v \in 1..setup.workers : part'[v].phase = "ended" => ChunkStart(setup, probeEnd, nextChunk) >= setup.ranked
  BY <1>2, <1>3, <1>8, <1>13 DEF FanIn, r
<1>15. FanIn(slots, setup, state, q, Larger(shared, Threshold(r.top)), main, part', probeEnd, nextChunk)
  BY <1>2, <1>11, <1>12, <1>14 DEF FanIn, end
<1>16. Types'
  <2>1. \A v \in 1..setup.workers : TypedIn(slots, setup, part'[v])
    BY <1>2, <1>10, <1>13 DEF Types
  <2>2. shared' \in Int
    BY <1>1, <1>11 DEF BoundingIn, Bounding
  <2> QED BY <1>1, <1>2, <1>13, <2>1, <2>2 DEF Types
<1> QED BY <1>1, <1>2, <1>15, <1>16 DEF IInv, q

\* The threads are joined when all of them have ended.
LEMMA JoinStepFits ==
    ASSUME IInv, Join, setup' = setup
    PROVE  IInv'
<1> DEFINE q == query
<1>1. /\ pc = "fan" /\ pc' = "tail" /\ \A w \in Workers : part[w].phase = "ended"
      /\ slots' = slots /\ state' = state /\ query' = query /\ part' = part
      /\ nextChunk' = nextChunk /\ shared' = shared /\ result' = result
  BY DEF Join
<1>2. /\ NamesFit(slots, setup) /\ KeptIn(slots, setup, state) /\ Types
      /\ FanIn(slots, setup, state, q, shared, main, part, probeEnd, nextChunk)
  BY <1>1 DEF IInv
<1>3. /\ q \in Queries /\ BoundingIn(slots, setup, q, shared) /\ probeEnd \in 0..setup.ranked /\ nextChunk \in Nat
      /\ ~main.cut /\ main.phase = "done" /\ setup \in Setups /\ 1 \in 1..setup.workers
  <2>1. setup \in Setups
    BY <1>2 DEF NamesFit
  <2> QED BY <1>2, <2>1, SetupFits DEF FanIn, Types, MainFits
<1>4. Handed(setup, probeEnd, nextChunk) = setup.ranked
  <2>1. ChunkStart(setup, probeEnd, nextChunk) >= setup.ranked
    BY <1>1, <1>2, <1>3 DEF FanIn, Workers
  <2> QED BY <1>3, <2>1, ChunkFits
<1>5. PICK TW, SW : ThreadsFit(slots, setup, q, part, probeEnd, setup.ranked, TW, SW)
  BY <1>2, <1>4 DEF FanIn
<1>6. PICK S : Fits(slots, setup, q, main, Up(slots, setup, state, q, probeEnd), S)
  BY <1>2 DEF FanIn, MainFits
<1>7. \A w \in Workers : Rests(part[w])
  BY <1>1 DEF Rests
<1> DEFINE U == Gathered(Up(slots, setup, state, q, probeEnd), TW, setup.workers)
<1> DEFINE G == Gathered(S, SW, setup.workers)
<1>8. AllFound(q, probeEnd, TW, SW, S, U, G)
  BY <1>3, <1>5, <1>6, <1>7 DEF AllFound
<1> HIDE DEF q, U, G
<1>9. MainFits(slots, setup, state, q, main', setup.ranked)
  BY <1>2, <1>3, <1>8, JoinFits
<1>10. TypedIn(slots, setup, main')
  BY <1>2, <1>3, <1>9, MainTypes
<1>11. TailIn(slots, setup, state, q, shared, main')
  BY <1>3, <1>9 DEF TailIn
<1>12. Types'
  BY <1>1, <1>2, <1>10 DEF Types
<1> QED BY <1>1, <1>2, <1>11, <1>12 DEF IInv, q

\* The answer is given, and what is kept is kept.
LEMMA FinishFits ==
    ASSUME IInv, Finish, setup' = setup
    PROVE  IInv'
<1> DEFINE q == query
<1> DEFINE r == WithTail(q)
<1> DEFINE st == [valid |-> r.resumable /\ Len(r.matches) = r.count, query |-> q,
                  slots |-> r.matches, resume |-> Covered(r)]
<1> DEFINE cnt == [n |-> r.count, exact |-> ~r.cut]
<1>1. /\ pc = "tail" /\ pc' = "idle" /\ result' = r.top /\ counted' = cnt /\ state' = st
      /\ main' = NoScan /\ part' = [w \in Workers |-> NoScan] /\ nextChunk' = 0 /\ shared' = Least
      /\ slots' = slots /\ query' = query
  BY DEF Finish
<1>2. /\ NamesFit(slots, setup) /\ KeptIn(slots, setup, state) /\ Types
      /\ TailIn(slots, setup, state, q, shared, main)
  BY <1>1 DEF IInv
<1>3. q \in Queries /\ BoundingIn(slots, setup, q, shared) /\ MainFits(slots, setup, state, q, main, setup.ranked)
  BY <1>2 DEF TailIn
<1>4. r.phase = "done" /\ \E S : Fits(slots, setup, q, r, DOMAIN slots, S) /\ Tidy(setup, r, S)
  <2> HIDE DEF q
  <2> QED BY <1>2, <1>3, TailFits
<1> HIDE DEF r, q
<1>5. PICK S : Fits(slots, setup, q, r, DOMAIN slots, S) /\ Tidy(setup, r, S)
  BY <1>4
<1>6. ResultIn(slots, setup, q, r.top, cnt) /\ KeptIn(slots, setup, st) /\ Len(r.top) <= setup.limit
  BY <1>2, <1>3, <1>4, <1>5, AnswerFits
<1>7. st \in [valid : BOOLEAN, query : Queries \cup {0}, slots : Seq(DOMAIN slots), resume : 0..setup.ranked]
  <2>1. r \in ScanSet(slots, setup)
    BY <1>5 DEF Fits
  <2>2. st.slots \in Seq(DOMAIN slots) /\ st.resume \in 0..setup.ranked
    BY <1>6 DEF KeptIn
  <2> QED BY <1>3, <2>1, <2>2 DEF ScanSet
<1> HIDE DEF st, cnt
<1>8. TypedIn(slots, setup, NoScan)
  <2>1. <<>> \in Seq(DOMAIN slots) /\ <<>> \in Seq([entry : Int, score : Int]) /\ Len(<<>>) = 0
    OBVIOUS
  <2>2. 0 \in 0..setup.ranked /\ 0 <= setup.limit
    BY <1>2, SetupFits DEF NamesFit
  <2> QED BY <2>1, <2>2 DEF NoScan, TypedIn, ScanSet
<1>9. IdleIn(slots, setup, q, Least, r.top, cnt)
  BY <1>6 DEF IdleIn
<1>10. Types'
  <2>1. DOMAIN part' = 1..setup.workers /\ \A w \in 1..setup.workers : part'[w] = NoScan
    BY <1>1 DEF Workers
  <2>2. Least \in Int /\ 0 \in Nat
    BY DEF Least
  <2> QED BY <1>1, <1>2, <1>6, <1>7, <1>8, <2>1, <2>2 DEF Types
<1> QED BY <1>1, <1>2, <1>6, <1>9, <1>10 DEF IInv, q

\* A query without tokens leaves nothing to narrow.
LEMMA BlankFits ==
    ASSUME IInv, Blank, setup' = setup
    PROVE  IInv'
<1>1. /\ pc = "idle" /\ pc' = pc /\ state' = [state EXCEPT !.valid = FALSE] /\ result' = <<>> /\ query' = 0
      /\ slots' = slots /\ main' = main /\ part' = part /\ nextChunk' = nextChunk /\ shared' = shared
  BY DEF Blank
<1>2. NamesFit(slots, setup) /\ KeptIn(slots, setup, state) /\ Types /\ shared = Least
  BY <1>1 DEF IInv, IdleIn
<1>3. /\ state' \in [valid : BOOLEAN, query : Queries \cup {0}, slots : Seq(DOMAIN slots), resume : 0..setup.ranked]
      /\ ~state'.valid /\ state'.slots = state.slots /\ state'.resume = state.resume
  BY <1>1, <1>2 DEF Types
<1>4. KeptIn(slots, setup, state')
  BY <1>2, <1>3 DEF KeptIn
<1>5. Len(<<>>) <= setup.limit
  BY <1>2, SetupFits DEF NamesFit
<1>6. Types'
  BY <1>1, <1>2, <1>3, <1>5 DEF Types
<1>7. IdleIn(slots, setup, 0, shared, result', counted')
  BY <1>2 DEF IdleIn
<1> QED BY <1>1, <1>2, <1>4, <1>6, <1>7 DEF IInv

LEMMA NextFits == IInv /\ [Next]_vars => IInv'
<1> SUFFICES ASSUME IInv, [Next]_vars PROVE IInv'
  OBVIOUS
<1>1. ASSUME NEW q \in Queries, Search(q), setup' = setup PROVE IInv'
  BY <1>1, SearchFits
<1>2. ASSUME Blank, setup' = setup PROVE IInv'
  BY <1>2, BlankFits
<1>3. ASSUME NEW w \in Workers, Take(w), setup' = setup PROVE IInv'
  BY <1>3, TakeFits
<1>4. ASSUME NEW w \in Workers, Examine(w), setup' = setup PROVE IInv'
  BY <1>4, ExamineFits
<1>5. ASSUME NEW w \in Workers, Publish(w), setup' = setup PROVE IInv'
  BY <1>5, PublishFits
<1>6. ASSUME Join, setup' = setup PROVE IInv'
  BY <1>6, JoinStepFits
<1>7. ASSUME Finish, setup' = setup PROVE IInv'
  BY <1>7, FinishFits
<1>8. ASSUME UNCHANGED vars PROVE IInv'
  BY <1>8 DEF vars, IInv, Types
<1> QED BY <1>1, <1>2, <1>3, <1>4, <1>5, <1>6, <1>7, <1>8 DEF Next

LEMMA Invariance == Spec => []IInv
  BY InitFits, NextFits, PTL DEF Spec

-----------------------------------------------------------------------------
(* What it says. *)

\* Whatever is cut, passed over, probed, shared out or narrowed, the answer is
\* the one a full ranking gives, and an exact count counts every match once.
THEOREM SearchAnswers == Spec => []ResultIsTheRanking
<1>1. IInv => ResultIsTheRanking
  <2> SUFFICES ASSUME IInv, pc = "idle", query # 0
               PROVE  LET H == Hits(query)
                      IN /\ Len(result) = Smaller(Limit, Cardinality(H))
                         /\ \A k \in 1..Len(result) :
                               /\ result[k] \in H
                               /\ Cardinality({h \in H : Better(h, result[k])}) = k - 1
                         /\ counted.exact => counted.n = Cardinality(H)
    BY DEF ResultIsTheRanking
  <2>1. ResultIn(slots, setup, query, result, counted) /\ DOMAIN slots = 0..(setup.size - 1)
    BY DEF IInv, IdleIn, NamesFit
  <2> DEFINE H == Hits(query)
  <2>2. H = HitsIn(slots, query)
    <3>1. \A j : Matches(query, j) <=> MatchIn(slots, query, j)
      BY DEF Matches, Listed, MatchIn, Of
    <3>2. \A j : HitOf(query, j) = HitIn(slots, query, j)
      BY DEF HitOf, HitIn, Of
    <3> QED BY <2>1, <3>1, <3>2 DEF Hits, HitsIn, MatchingIn, Size
  <2> HIDE DEF H
  <2>3. /\ Len(result) = Smaller(Limit, Cardinality(H))
        /\ \A k \in 1..Len(result) :
              result[k] \in H /\ Cardinality({h \in H : Better(h, result[k])}) = k - 1
        /\ counted.exact => counted.n = Cardinality(H)
    BY <2>1, <2>2 DEF ResultIn, Ahead, Limit
  <2> QED BY <2>3 DEF H
<1> QED BY <1>1, Invariance, PTL

\* What is kept of a query is exact, so that the next one can narrow it and
\* resume the scan; and what the threads share has its types.
THEOREM KeptIsExact == Spec => []KeptForNarrowing
<1>1. IInv => KeptForNarrowing
  <2> SUFFICES ASSUME IInv PROVE KeptForNarrowing
    OBVIOUS
  <2>1. /\ Types /\ NamesFit(slots, setup) /\ KeptIn(slots, setup, state)
        /\ DOMAIN slots = 0..(setup.size - 1) /\ setup.ranked \in Nat
    BY SetupFits DEF IInv, NamesFit
  <2>2. ASSUME NEW r, TypedIn(slots, setup, r) PROVE ScanTypeOK(r)
    BY <2>1, <2>2 DEF TypedIn, ScanSet, ScanTypeOK, Size, Limit, Ranked
  <2>3. TypeOK
    BY <2>1, <2>2 DEF Types, TypeOK, Workers, Size, Ranked, Limit
  <2>4. StateIsExact
    <3> SUFFICES ASSUME state.valid
                 PROVE  /\ Range(state.slots) =
                              {i \in 0..(Size - 1) : Matches(state.query, i)
                                 /\ (i < state.resume \/ i >= Ranked)}
                        /\ IsInjective(state.slots)
      BY DEF StateIsExact
    <3> DEFINE m == state.slots
    <3>1. /\ {m[k] : k \in 1..Len(m)} = MatchesOf(slots, state.query, CoveredIn(slots, setup, state.resume))
          /\ \A k, l \in 1..Len(m) : m[k] = m[l] => k = l
          /\ m \in Seq(DOMAIN slots)
      BY <2>1 DEF KeptIn
    <3>2. DOMAIN m = 1..Len(m)
      BY <3>1
    <3>3. \A j : Matches(state.query, j) <=> MatchIn(slots, state.query, j)
      BY DEF Matches, Listed, MatchIn, Of
    <3> HIDE DEF m
    <3>4. Range(m) = {m[k] : k \in 1..Len(m)} /\ IsInjective(m)
      BY <3>1, <3>2 DEF Range, IsInjective
    <3>5. MatchesOf(slots, state.query, CoveredIn(slots, setup, state.resume))
            = {i \in 0..(Size - 1) : Matches(state.query, i) /\ (i < state.resume \/ i >= Ranked)}
      BY <2>1, <3>3 DEF MatchesOf, CoveredIn, Size, Ranked
    <3> QED BY <3>1, <3>4, <3>5 DEF m
  <2> QED BY <2>3, <2>4 DEF KeptForNarrowing
<1> QED BY <1>1, Invariance, PTL
=============================================================================
