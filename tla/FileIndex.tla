------------------------------ MODULE FileIndex ------------------------------
(***************************************************************************)
(* filesearch::FileIndex over its whole life: a builder adds the records   *)
(* of a volume in any order, links them, adds hard link names and zone     *)
(* markers, ranks everything; then the change journal upserts and removes  *)
(* records and the name buffer is compacted.                               *)
(***************************************************************************)
EXTENDS FileIndexOps

CONSTANT
    Plans   \* what may happen to the index in one behaviour, records of
            \*   records                   the records that are used
            \*   buildFlags, buildNames    of enumerated records
            \*   markers                   zones of the folders marked
            \*   torn                      directories may move meanwhile
            \*   updateFlags, updateNames  of journal records
            \*   entries, slots            bounds of the two arrays

ASSUME PlanAssumption ==
    \A p \in Plans :
        /\ p.records \subseteq Records /\ RootRecord \in p.records
        /\ p.buildFlags \cup p.updateFlags \subseteq
              SUBSET {"directory", "hidden", "system"}
        /\ p.buildNames \cup p.updateNames \subseteq Names
        /\ p.markers \subseteq Zones /\ p.torn \in BOOLEAN
        /\ p.entries \in Nat /\ p.slots \in Nat

VARIABLES
    ix,     \* the index
    phase,  \* "adding", "linked", "ranked"
    plan    \* one of Plans, never changed

vars == <<ix, phase, plan>>

IndexEntries == [parent: Nat, slot: Nat, flags: SUBSET Flags, zone: Zones]
IndexSlots == [entry: Nat, name: Names \cup {RootName}, base: Int]
Indexes ==
    [entries: Seq(IndexEntries), slots: Seq(IndexSlots), sortedEnd: Nat,
     deadBytes: Nat, live: Nat, root: Nat, byRecord: [Records -> Nat],
     pending: Seq(Records), firstPending: Nat,
     markers: [Records -> Zones \cup {"none"}], generation: 0..(Wrap - 1)]

TypeOK == ix \in Indexes /\ phase \in {"adding", "linked", "ranked"}

Init == ix = AddVolume(Empty) /\ phase = "adding" /\ plan \in Plans

\* The parents form a tree unless the records were read at different times.
IsTree(x) == \A e \in Entries(x) : Depth(x, e) < DepthCap

\* A builder reports a record once.
AddRecord(r, p, flags, n) ==
    /\ phase = "adding" /\ Find(ix, r) = None /\ p # r
    /\ Len(ix.entries) < plan.entries
    /\ ix' = Add(ix, r, p, flags, n) /\ UNCHANGED phase
    /\ plan.torn \/ IsTree(FinishVolume(ix'))

Finish ==
    /\ phase = "adding" /\ phase' = "linked" /\ ix' = FinishVolume(ix)

\* A file of the system directories that is listed in the directory p.
Alias(r, p, n) ==
    /\ phase = "linked" /\ Len(ix.entries) < plan.entries
    /\ ix' = AddAlias(ix, r, p, {}, n) /\ UNCHANGED phase

\* A known folder, reached by its path from the root.
Mark(r, zone) ==
    /\ phase = "linked"
    /\ Find(ix, r) # None => Depth(ix, Find(ix, r)) < DepthCap
    /\ ix.markers[r] = "none"
    /\ ix' = SetZoneMarker(ix, r, zone) /\ UNCHANGED phase

Rank ==
    /\ phase = "linked" /\ phase' = "ranked" /\ ix' = RecomputeZones(ix)

Change(r, p, flags, n) ==
    /\ phase = "ranked" /\ p # r
    /\ Len(ix.entries) < plan.entries /\ Len(ix.slots) < plan.slots
    /\ ix' = Upsert(ix, r, p, flags, n) /\ UNCHANGED phase

Delete(r) ==
    /\ phase = "ranked" /\ ix' = Remove(ix, r) /\ UNCHANGED phase

Compact ==
    /\ phase = "ranked" /\ ix' = CompactIfWasteful(ix) /\ UNCHANGED phase

Build ==
    \/ \E r, p \in plan.records, f \in plan.buildFlags, n \in plan.buildNames :
          AddRecord(r, p, f, n)
    \/ Finish
    \/ \E r, p \in plan.records, n \in plan.buildNames : Alias(r, p, n)
    \/ \E r \in plan.records, zone \in plan.markers : Mark(r, zone)
    \/ Rank

Update ==
    \/ \E r, p \in plan.records, f \in plan.updateFlags, n \in plan.updateNames :
          Change(r, p, f, n)
    \/ \E r \in plan.records : Delete(r)
    \/ Compact

Next == (Build \/ Update) /\ UNCHANGED plan

Spec == Init /\ [][Next]_vars

-----------------------------------------------------------------------------
(* Properties. *)

\* Entries and slots point at each other: an entry that is not deleted owns
\* one slot, and a slot that is not dead belongs to the entry that owns it.
\* Reorder permutes the one side and must rewrite the other; Upsert moves an
\* entry to a new slot and must kill the old one.
SlotsAndEntriesAgree ==
    /\ \A e \in Entries(ix) :
          /\ ix.entries[e].slot \in {None} \cup Slots(ix)
          /\ ~Deleted(ix, e) <=> Owns(ix, e, ix.entries[e].slot)
    /\ \A s \in LiveSlots(ix) :
          /\ ix.slots[s].entry \in Entries(ix)
          /\ ix.entries[ix.slots[s].entry].slot = s

\* "slots [0, m_sortedEnd) are in descending base order": what the early exit
\* of Search relies on, whatever was renamed, rescored or removed since.
RankedRegionDescends ==
    /\ ix.sortedEnd <= Len(ix.slots)
    /\ \A s, t \in 1..ix.sortedEnd :
          s < t => ix.slots[s].base >= ix.slots[t].base

\* A ranked index never lists an excluded entry and never hides another: the
\* base of a live slot is the sentinel exactly when its zone is Excluded.
ExcludedIsUnlisted ==
    phase = "ranked" =>
        \A s \in LiveSlots(ix) :
            (ix.slots[s].base = NoBase)
                <=> (ix.entries[ix.slots[s].entry].zone = "Excluded")

\* The count of entries in the status, and the bytes a compaction frees, are
\* those of the arrays: each operation counts every name it makes or kills.
AccountsBalance ==
    /\ ix.live = Cardinality({e \in Entries(ix) : ~Deleted(ix, e)})
    /\ ix.deadBytes =
          MapThenSumSet(LAMBDA s : Bytes(ix.slots[s].name),
                        Slots(ix) \ LiveSlots(ix))

\* The record map leads to live entries, different ones for different
\* records, so a reused record number never revives or edits an old entry.
RecordsFindLiveEntries ==
    /\ \A r \in Records : Find(ix, r) # None =>
          Find(ix, r) \in Entries(ix) /\ ~Deleted(ix, Find(ix, r))
    /\ \A r, q \in Records :
          r # q => Find(ix, r) # Find(ix, q) \/ Find(ix, r) = None

\* The three together, with the types: the arrays of the index agree with each
\* other after every sequence of builds, journal records and compactions.
IndexIsConsistent ==
    TypeOK /\ SlotsAndEntriesAgree /\ AccountsBalance /\ RecordsFindLiveEntries

\* A step that changes what a search reads changes the generation too, by
\* whatever path it came: SearchState is keyed on it.
SlotsChangeGeneration ==
    [][(phase = "ranked" /\ ix'.slots # ix.slots)
          => ix'.generation # ix.generation]_vars

\* "Inherited by every descendant unless a descendant carries its own
\* marker": the zone of every live entry follows from its parent's.
ZonesAreInherited ==
    phase = "ranked" =>
        \A e \in Entries(ix) :
            (/\ e # ix.root /\ ~Deleted(ix, e)
             /\ \A r \in Records :
                   Find(ix, r) = e => ix.markers[r] = "none")
            => LET p == ix.entries[e].parent
               IN ix.entries[e].zone =
                    ZoneForNew(ix.entries[p].zone, ix.entries[e].flags,
                               ix.slots[ix.entries[e].slot].name, p = ix.root)
=============================================================================
