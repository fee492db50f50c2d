----------------------------- MODULE RankedScan -----------------------------
(***************************************************************************)
(* FileIndex::Search (FileSearchIndex.cpp): the best Limit names for a     *)
(* query, without reading all of them. The ranked region is scanned in     *)
(* descending base order and the scan is cut as soon as no later name can  *)
(* enter the top; past the cut only names that may earn the whole-name     *)
(* bonus are looked at. A long region is probed, then shared out in chunks *)
(* to threads that publish the threshold of their own top. What matched is *)
(* kept, and a query that extends the last one narrows it and resumes the  *)
(* scan where it was cut.                                                  *)
(*                                                                         *)
(* A name is what a search sees of it: its base, and for each query whether*)
(* the anchor token occurs, whether all tokens do, the points of the       *)
(* tokens, the whole-name bonus, and the bonus its length leaves room for. *)
(* Slots are numbered from 0 as in the code. Between two changes of the    *)
(* index the arrays do not move: searches hold the index lock.             *)
(***************************************************************************)
EXTENDS Integers, Sequences, FiniteSets, FiniteSetsExt, SequencesExt

CONSTANTS
    Queries,      \* the queries, 1..n
    Extends,      \* pairs <<r, q>>: r is q with something typed after it
    Ceiling,      \* tokenCeiling: the most points the tokens can earn
    Bonus,        \* kWholeNameCeiling
    MaxSearches,  \* bound: searches one after the other
    Setups        \* indexes and the ways to search them, records of
                  \*   size       slots
                  \*   ranked     m_sortedEnd: slots of the ranked region
                  \*   sorts      how a name stands to each query: whether the
                  \*              anchor token occurs, whether all do, what they
                  \*              earn, the whole-name bonus, and the bonus that
                  \*              its length leaves room for
                  \*   bases      static scores
                  \*   dead       sets of dead slots
                  \*   limit      the size of the top
                  \*   workers    the threads of a search; one: no fan-out
                  \*   fanOutMin  names below which it stays on its thread
                  \*   probe      the probe takes one in so many names
                  \*   near       so does a rest that stays on its thread
                  \*   chunk      names per chunk
                  \*   recordCap  NarrowingCap

NoBase == -32768
Least == -1000000

\* No name earns more than ScoreCeiling leaves it, nor room for more than the whole name.
Standings ==
    {v \in [anchor : BOOLEAN, match : BOOLEAN, part : 0..Ceiling, bonus : 0..Bonus, room : 0..Bonus] :
        v.bonus <= v.room}

ASSUME ScanAssumption ==
    /\ Ceiling \in Nat /\ Bonus \in Nat /\ MaxSearches \in Nat
    /\ Extends \subseteq Queries \X Queries
    /\ \A s \in Setups :
          /\ s.size \in Nat \ {0} /\ s.ranked \in 0..s.size
          /\ s.bases \subseteq NoBase..32767 /\ s.dead \subseteq SUBSET (0..(s.size - 1))
          /\ {s.limit, s.probe, s.near, s.chunk} \subseteq Nat \ {0}
          /\ s.workers \in Nat \ {0} /\ s.fanOutMin \in Nat /\ s.recordCap \in Nat
          /\ \A sort \in s.sorts, q \in Queries :
                sort[q] \in Standings /\ (sort[q].match => sort[q].anchor)
          /\ \A sort \in s.sorts, p \in Extends : sort[p[1]].match => sort[p[2]].match

VARIABLES
    slots,      \* the names
    state,      \* SearchState
    query,      \* the query being answered or answered last, 0: none
    pc,         \* "idle", "fan", "tail"
    main,       \* the scan of the calling thread
    part,       \* the scans of the threads
    probeEnd,   \* where the chunks begin
    nextChunk,  \* the next chunk to hand out
    shared,     \* the best threshold published
    result,     \* hits, best first
    counted,    \* lastMatchCount, lastMatchCountExact
    searches,   \* searches done
    setup       \* one of Setups, never changed

vars == <<slots, state, query, pc, main, part, probeEnd, nextChunk, shared,
          result, counted, searches, setup>>

Size == setup.size
Ranked == setup.ranked
Limit == setup.limit
Workers == 1..setup.workers
RecordCap == setup.recordCap

Of(q, i) == slots[i].of[q]
Larger(a, b) == IF a > b THEN a ELSE b
Smaller(a, b) == IF a < b THEN a ELSE b

NoState == [valid |-> FALSE, query |-> 0, slots |-> <<>>, resume |-> 0]
NoScan == [at |-> 0, end |-> 0, phase |-> "done", sorted |-> FALSE,
           stop |-> 0, matches |-> <<>>, count |-> 0, top |-> <<>>,
           cut |-> FALSE, cutAt |-> 0, resumable |-> TRUE, dirty |-> FALSE]
\* The local variables of a search or of a thread: partFirstCut and cutAt
\* start at the end of the ranked region.
FreshScan == [NoScan EXCEPT !.cutAt = Ranked]

\* The ranked region descends; the entries are in the order of the names, or
\* in the opposite one.
Init ==
    /\ setup \in Setups
    /\ \E base \in [0..(Size - 1) -> setup.bases],
          of \in [0..(Size - 1) -> setup.sorts],
          d \in setup.dead, aged \in BOOLEAN :
          /\ \A i, j \in 0..(Ranked - 1) : i < j => base[i] >= base[j]
          /\ slots = [i \in 0..(Size - 1) |->
                [live |-> i \notin d, entry |-> IF aged THEN i ELSE Size - i,
                 base |-> base[i], of |-> of[i]]]
    /\ state = NoState /\ query = 0 /\ pc = "idle"
    /\ main = NoScan /\ part = [w \in Workers |-> NoScan]
    /\ probeEnd = 0 /\ nextChunk = 0 /\ shared = Least
    /\ result = <<>> /\ counted = [n |-> 0, exact |-> FALSE] /\ searches = 0

-----------------------------------------------------------------------------
(* Scores and the top. *)

Listed(i) == slots[i].live /\ slots[i].base # NoBase
Matches(q, i) == Listed(i) /\ Of(q, i).match
HitOf(q, i) == [entry |-> slots[i].entry,
                score |-> slots[i].base + Of(q, i).part + Of(q, i).bonus]

\* Higher score first, the older entry first among equals.
Better(a, b) == a.score > b.score \/ (a.score = b.score /\ a.entry < b.entry)

\* TopN: sorted here, a heap in the code.
Offer(top, hit) ==
    LET k == 1 + Cardinality({j \in 1..Len(top) : Better(top[j], hit)})
        all == InsertAt(top, k, hit)
    IN SubSeq(all, 1, Smaller(Limit, Len(all)))

Threshold(top) == IF Len(top) < Limit THEN Least ELSE Last(top).score

\* ScoreSlot does not score a match that cannot reach the threshold.
CannotReach(q, i, th) ==
    th # Least /\ Ceiling + Of(q, i).room + slots[i].base < th

\* A mutant: the cut drops names that tie with the threshold.
MutCutsTies(i, th) == th # Least /\ Ceiling + slots[i].base <= th

\* The early exit: neither this name nor a later one reaches the threshold
\* without the whole-name bonus.
BelowCut(i, th) == th # Least /\ Ceiling + slots[i].base < th

-----------------------------------------------------------------------------
(* One scan: a range of slots, in phase "scan", then "bonus" once it is cut.*)

\* stopFrom: where not even the bonus reaches the threshold.
StopFrom(from, end, th) ==
    LET beyond == {i \in from..(end - 1) :
                     Ceiling + Bonus + slots[i].base < th}
    IN IF beyond = {} THEN end ELSE Min(beyond)

Cut(r, i, th) ==
    [r EXCEPT !.at = i, !.phase = "bonus", !.cut = TRUE,
              !.cutAt = Smaller(@, i), !.stop = StopFrom(i, r.end, th)]

\* ScanSlots is called on [s0, s1).
Enter(r, s0, s1, sorted, th) ==
    LET e == [r EXCEPT !.at = s0, !.end = s1, !.sorted = sorted,
                       !.phase = "scan"]
    IN IF s0 >= s1 THEN [e EXCEPT !.phase = "done"]
       ELSE IF sorted /\ BelowCut(s0, th) THEN Cut(e, s0, th) ELSE e

\* A match is recorded up to the cap and counted beyond it.
Counted(r, i) ==
    [r EXCEPT !.matches = IF Len(@) <= RecordCap THEN Append(@, i) ELSE @,
              !.count = @ + 1]
Scored(r, q, i) == [r EXCEPT !.top = Offer(@, HitOf(q, i)), !.dirty = TRUE]
Past(r) ==
    [r EXCEPT !.at = @ + 1,
        !.phase = IF r.at + 1 >= (IF @ = "scan" THEN r.end ELSE r.stop)
                  THEN "done" ELSE @]

\* One name of the scan: dead names and names without the anchor token are
\* passed over, the cut is tested at the others.
ScanOne(r, q, th) ==
    LET i == r.at
    IN IF ~slots[i].live \/ ~Of(q, i).anchor THEN Past(r)
       ELSE IF r.sorted /\ BelowCut(i, th)
       THEN Cut(r, i, th)
       ELSE IF ~Matches(q, i) THEN Past(r)
       ELSE IF CannotReach(q, i, th) THEN Past(Counted(r, i))
       ELSE Past(Scored(Counted(r, i), q, i))

\* One name past the cut: only a name that is the query, or whose stem is.
BonusOne(r, q, th) ==
    LET i == r.at
    IN IF r.at >= r.stop THEN [r EXCEPT !.phase = "done"]
       ELSE IF \/ Of(q, i).bonus = 0 \/ ~Matches(q, i)
               \/ CannotReach(q, i, th)
       THEN Past(r)
       ELSE LET y == Scored(r, q, i)
            IN Past([y EXCEPT !.stop =
                 StopFrom(i + 1, r.end, Larger(th, Threshold(y.top)))])

One(r, q, th) ==
    IF r.phase = "scan" THEN ScanOne(r, q, th) ELSE BonusOne(r, q, th)

\* A scan without other threads: every name in turn, the threshold is its own.
Own(r) == Larger(Threshold(r.top), shared)
Alone(r, q) ==
    LET after[k \in 0..(2 * Size + 2)] ==
          IF k = 0 THEN r
          ELSE LET last == after[k - 1]
               IN IF last.phase = "done" THEN last ELSE One(last, q, Own(last))
    IN after[2 * Size + 2]

ScanSlots(r, q, s0, s1, sorted) == Alone(Enter(r, s0, s1, sorted, Own(r)), q)

\* ScanWholeNameCandidates is called on [s0, s1) after a cut.
BonusOnly(r, q, s0, s1) ==
    Alone([r EXCEPT !.at = s0, !.end = s1, !.phase = "bonus",
                    !.stop = StopFrom(s0, s1, Own(r))], q)

-----------------------------------------------------------------------------
(* The calling thread. *)

\* The query extends the last one, and what matched that one is short.
Incremental(q) ==
    /\ state.valid /\ <<q, state.query>> \in Extends
    /\ Len(state.slots) < RecordCap /\ state.resume <= Ranked

\* The recorded matches are checked again; all that remain are recorded.
Narrowed(q) ==
    LET keep(r, i) == [r EXCEPT !.matches = Append(@, i), !.count = @ + 1]
        after[k \in 0..Len(state.slots)] ==
          IF k = 0 THEN FreshScan
          ELSE LET r == after[k - 1]
                   i == state.slots[k]
               IN IF ~Matches(q, i) THEN r
                  ELSE IF CannotReach(q, i, Threshold(r.top)) THEN keep(r, i)
                  ELSE Scored(keep(r, i), q, i)
    IN after[Len(state.slots)]

Start(q) == IF Incremental(q) THEN Narrowed(q) ELSE FreshScan
Begin(q) == IF Incremental(q) THEN state.resume ELSE 0

ProbeEnd(b) ==
    IF Ranked - b < setup.fanOutMin \/ setup.workers = 1 THEN Ranked
    ELSE b + (Ranked - b) \div setup.probe

\* The top is full and the threshold bounds the scan nearby.
Near(r, p) ==
    LET th == Threshold(r.top)
        stop == {i \in p..(Ranked - 1) : Ceiling + slots[i].base < th}
    IN /\ th # Least
       /\ (IF stop = {} THEN Ranked ELSE Min(stop)) - p
             <= Ranked \div setup.near

\* The probe: cut, the rest gets the bonus-only phase; not cut, the rest is
\* scanned here when it is near and by the threads when it is not.
FinishCut(r, q, p) == BonusOnly(r, q, p, Ranked)

Search(q) ==
    /\ pc = "idle" /\ searches < MaxSearches
    /\ query' = q /\ searches' = searches + 1
    /\ LET b == Begin(q)
           p == ProbeEnd(b)
           probe == IF b < Ranked THEN ScanSlots(Start(q), q, b, p, TRUE)
                    ELSE Start(q)
           rest == b < Ranked /\ p < Ranked
       IN /\ probeEnd' = p
          /\ main' = IF probe.cut THEN FinishCut(probe, q, p)
                     ELSE IF rest /\ Near(probe, p)
                     THEN ScanSlots(probe, q, p, Ranked, TRUE)
                     ELSE probe
          /\ pc' = IF rest /\ ~probe.cut /\ ~Near(probe, p)
                   THEN "fan" ELSE "tail"
          /\ shared' = Threshold(main'.top)
    /\ part' = [w \in Workers |-> [FreshScan EXCEPT !.phase = "chunk"]]
    /\ nextChunk' = 0
    /\ UNCHANGED <<slots, state, result, counted>>

\* A query without tokens.
Blank ==
    /\ pc = "idle" /\ searches < MaxSearches
    /\ state' = [state EXCEPT !.valid = FALSE]
    /\ result' = <<>> /\ query' = 0 /\ searches' = searches + 1
    /\ UNCHANGED <<slots, pc, main, part, probeEnd, nextChunk, shared, counted>>

-----------------------------------------------------------------------------
(* The threads. *)

Bound(w) == Larger(Threshold(part[w].top), shared)

\* The next chunk in ranked order, or the end.
Take(w) ==
    /\ pc = "fan" /\ part[w].phase = "chunk"
    /\ nextChunk' = nextChunk + 1
    /\ LET first == probeEnd + nextChunk * setup.chunk
       IN part' = [part EXCEPT ![w] =
            IF first >= Ranked THEN [@ EXCEPT !.phase = "ended"]
            ELSE LET e == Enter(@, first, Smaller(Ranked, first + setup.chunk),
                                TRUE, Bound(w))
                 IN IF e.phase = "done" THEN [e EXCEPT !.phase = "chunk"]
                    ELSE e]
    /\ UNCHANGED <<slots, state, query, pc, main, probeEnd, shared, result,
                   counted, searches>>

\* One name, against the threshold published so far.
Examine(w) ==
    /\ pc = "fan" /\ part[w].phase \in {"scan", "bonus"} /\ ~part[w].dirty
    /\ LET r == One(part[w], query, Bound(w))
       IN part' = [part EXCEPT ![w] =
            IF r.phase = "done" THEN [r EXCEPT !.phase = "chunk"] ELSE r]
    /\ UNCHANGED <<slots, state, query, pc, main, probeEnd, nextChunk, shared,
                   result, counted, searches>>

\* Publish: the shared threshold only rises.
Raised(w) == Larger(shared, Threshold(part[w].top))

Publish(w) ==
    /\ pc = "fan" /\ part[w].dirty
    /\ shared' = Raised(w)
    /\ part' = [part EXCEPT ![w].dirty = FALSE]
    /\ UNCHANGED <<slots, state, query, pc, main, probeEnd, nextChunk, result,
                   counted, searches>>

-----------------------------------------------------------------------------
(* Joining, and the names added since the last Reorder. *)

Offered(top, hits) ==
    LET after[k \in 0..Len(hits)] ==
          IF k = 0 THEN top ELSE Offer(after[k - 1], hits[k])
    IN after[Len(hits)]

\* What the threads found goes to the calling thread, one thread after the other.
Joined ==
    LET with[w \in 0..setup.workers] ==
          IF w = 0 THEN main
          ELSE [with[w - 1] EXCEPT !.top = Offered(@, part[w].top),
                                   !.matches = @ \o part[w].matches,
                                   !.count = @ + part[w].count]
    IN with[setup.workers]

AnyCut == \E w \in Workers : part[w].cut
FirstCut == Min({part[w].cutAt : w \in Workers})

\* A mutant: matches past the earliest cut are kept.
MutAllMatches(m) == m

Kept(m) ==
    LET kept[n \in 0..Len(m)] ==
          IF n = 0 THEN <<>>
          ELSE IF m[n] < FirstCut \/ m[n] >= Ranked THEN Append(kept[n - 1], m[n])
          ELSE kept[n - 1]
    IN kept[Len(m)]

\* When some thread was cut, the ranked prefix that is covered ends at the
\* earliest cut; matches past it go. A list that a thread has truncated
\* cannot be narrowed later.
Join ==
    /\ pc = "fan" /\ pc' = "tail"
    /\ \A w \in Workers : part[w].phase = "ended" /\ ~part[w].dirty
    /\ main' = IF ~AnyCut THEN Joined
               ELSE [Joined EXCEPT !.cut = TRUE, !.cutAt = FirstCut,
                                   !.matches = Kept(@), !.count = Len(Kept(Joined.matches)),
                                   !.resumable = Len(Joined.matches) = Joined.count]
    /\ UNCHANGED <<slots, state, query, part, probeEnd, nextChunk, shared,
                   result, counted, searches>>

\* A fresh query scans the unsorted names; then the state is kept.
WithTail(q) ==
    IF Incremental(q) THEN main
    ELSE ScanSlots(main, q, Ranked, Size, FALSE)

Covered(r) == IF r.cut THEN r.cutAt ELSE Ranked

Finish ==
    /\ pc = "tail" /\ pc' = "idle"
    /\ LET r == WithTail(query)
       IN /\ result' = r.top
          /\ counted' = [n |-> r.count, exact |-> ~r.cut]
          /\ state' = [valid |-> r.resumable /\ Len(r.matches) = r.count,
                        query |-> query,
                       slots |-> r.matches, resume |-> Covered(r)]
    /\ main' = NoScan /\ part' = [w \in Workers |-> NoScan]
    /\ probeEnd' = 0 /\ nextChunk' = 0 /\ shared' = Least
    /\ UNCHANGED <<slots, query, searches>>

Next ==
    /\ \/ \E q \in Queries : Search(q)
       \/ Blank
       \/ \E w \in Workers : Take(w) \/ Examine(w) \/ Publish(w)
       \/ Join \/ Finish
    /\ UNCHANGED setup

Spec == Init /\ [][Next]_vars

-----------------------------------------------------------------------------
(* Properties. *)

Hits(q) == {HitOf(q, i) : i \in {j \in 0..(Size - 1) : Matches(q, j)}}

ScanTypeOK(r) ==
    /\ r.at \in Nat /\ r.end \in Nat /\ r.stop \in Nat /\ r.cutAt \in Nat
    /\ r.phase \in {"done", "chunk", "scan", "bonus", "ended"}
    /\ r.matches \in Seq(0..(Size - 1)) /\ Len(r.top) <= Limit
    /\ r.cutAt <= Ranked

TypeOK ==
    /\ pc \in {"idle", "fan", "tail"} /\ query \in Queries \cup {0}
    /\ ScanTypeOK(main) /\ \A w \in Workers : ScanTypeOK(part[w])
    /\ state.slots \in Seq(0..(Size - 1)) /\ state.resume \in 0..Ranked
    /\ shared \in Int /\ nextChunk \in Nat /\ Len(result) <= Limit

\* "Returns the best `limit` hits, best first": whatever was cut, pruned,
\* probed, shared out or narrowed, the answer is the one a full ranking of
\* every listed name gives, with ties in entry order. A count called exact
\* ("False when the scan stopped early") counts every match once, although a
\* list that is truncated, narrowed and resumed, or shared out, holds or
\* counts each part of it elsewhere.
ResultIsTheRanking ==
    (pc = "idle" /\ query # 0) =>
        LET H == Hits(query)
        IN /\ Len(result) = Smaller(Limit, Cardinality(H))
           /\ \A k \in 1..Len(result) :
                 /\ result[k] \in H
                 /\ Cardinality({h \in H : Better(h, result[k])}) = k - 1
           /\ counted.exact => counted.n = Cardinality(H)

\* "every match in ranked slots [0, resumeSlot) + the unsorted tail": what a
\* valid state keeps is exactly that, once each, so that narrowing it and
\* resuming the scan misses and repeats nothing.
StateIsExact ==
    state.valid =>
        /\ Range(state.slots) =
              {i \in 0..(Size - 1) : Matches(state.query, i)
                 /\ (i < state.resume \/ i >= Ranked)}
        /\ IsInjective(state.slots)

\* With the types: what the threads share and keep is fit for the next query.
KeptForNarrowing == TypeOK /\ StateIsExact
=============================================================================
