---------------------------- MODULE FileIndexOps ----------------------------
(***************************************************************************)
(* The operations of filesearch::FileIndex (FileSearchIndex.cpp), as       *)
(* functions from an index to the index it becomes. FileIndex drives them  *)
(* alone, VolumeSync through the build and the change journal.             *)
(*                                                                         *)
(* An index x has entries (one per record or hard link ever indexed) and   *)
(* slots (one per name in the name buffer; an entry owns at most one, a    *)
(* dead slot has no entry). The slots 1..x.sortedEnd are the ranked region,*)
(* the later ones are names added since the last Reorder. Numbers start at *)
(* 1 and None, the code's kNone, is 0. A name keeps what ranking and       *)
(* accounting see of it: its length, its extension and whether it is one   *)
(* of the reserved names of a volume's root. There is one volume.          *)
(***************************************************************************)
EXTENDS Integers, Sequences, FiniteSets, FiniteSetsExt

CONSTANTS
    Records,          \* MFT record numbers of the volume
    RootRecord,       \* the record of the root directory
    FirstUserRecord,  \* kFirstUserRecord: metadata files are below it
    Names,            \* the names, records [id, length, ext, reserved]
    RootName,         \* the name of the root entry ("C:")
    DepthCap,         \* the cap of Depth()
    FreeDepth,        \* levels that cost nothing in BaseScore
    WasteBytes,       \* dead bytes a compaction waits for
    Wrap              \* the generation counter wraps at it (2^64)

ASSUME IndexAssumption ==
    /\ Records \subseteq Nat /\ RootRecord \in Records
    /\ FirstUserRecord \in Nat
    /\ \A n \in Names \cup {RootName} : n.length \in Nat
    /\ DepthCap \in Nat /\ FreeDepth \in Nat /\ WasteBytes \in Nat
    /\ Wrap \in Nat \ {0, 1}

None == 0
NoBase == -32768

ZoneBonus ==
    [UserFolder |-> 260, UserHome |-> 150, Normal |-> 0, ProgramFiles |-> -60,
     AppData |-> -260, Windows |-> -380, Hidden |-> -420]
Zones == DOMAIN ZoneBonus \cup {"Excluded"}
Flags == {"directory", "hidden", "system", "deleted", "meta", "orphan"}

\* A name and its terminating zero.
Bytes(n) == n.length + 1

Entries(x) == 1 .. Len(x.entries)
Slots(x) == 1 .. Len(x.slots)
Deleted(x, e) == "deleted" \in x.entries[e].flags
Owns(x, e, s) == s # None /\ x.slots[s].entry = e
Find(x, r) == x.byRecord[r]
NameBytes(x) == MapThenSumSet(LAMBDA s : Bytes(x.slots[s].name), Slots(x))

-----------------------------------------------------------------------------
(* Entries and slots. *)

\* AppendSlot: the slot is ranked when the zone of the entry is known.
AppendSlot(x, e, n) ==
    [x EXCEPT !.slots = Append(@, [entry |-> e, name |-> n, base |-> NoBase])]

NewEntry(x, parent, flags, n) ==
    [AppendSlot(x, Len(x.entries) + 1, n) EXCEPT
        !.entries = Append(@, [parent |-> parent, slot |-> Len(x.slots) + 1,
                               flags |-> flags, zone |-> "Normal"]),
        !.live = @ + 1]

MapRecord(x, r, e) == [x EXCEPT !.byRecord[r] = e]

\* A mutant: the generation stays.
MutNoBump(x) == x

Bump(x) == [x EXCEPT !.generation = (@ + 1) % Wrap]

\* A mutant: the slot keeps its entry.
MutStaysOwned(x, s) ==
    [x EXCEPT !.deadBytes = @ + Bytes(x.slots[s].name)]

\* The slot loses its entry; its base stays, for the order of the region.
KillSlot(x, s) ==
    [x EXCEPT !.slots[s].entry = None,
              !.deadBytes = @ + Bytes(x.slots[s].name)]

-----------------------------------------------------------------------------
(* Building. *)

\* AddVolume, on an empty index: the root entry is its own parent.
Empty ==
    [entries |-> <<>>, slots |-> <<>>, sortedEnd |-> 0, deadBytes |-> 0,
     live |-> 0, root |-> None, byRecord |-> [r \in Records |-> None],
     pending |-> <<>>, firstPending |-> 1,
     markers |-> [r \in Records |-> "none"], generation |-> 0]

AddVolume(x) ==
    LET e == Len(x.entries) + 1
        y == MapRecord(NewEntry(x, e, {"directory"}, RootName), RootRecord, e)
    IN Bump([y EXCEPT !.root = e, !.firstPending = e + 1, !.pending = <<>>])

RecordFlags(r, flags) ==
    IF r < FirstUserRecord THEN flags \cup {"meta"} ELSE flags

\* Add: the parent is resolved by FinishVolume.
Add(x, r, p, flags, n) ==
    IF r = RootRecord THEN x
    ELSE LET y == NewEntry(x, None, RecordFlags(r, flags), n)
         IN MapRecord([y EXCEPT !.pending = Append(@, p)],
                      r, Len(y.entries))

\* FinishVolume: a record whose parent never appeared hangs below the root.
Resolved(x, e) ==
    LET p == Find(x, x.pending[e - x.firstPending + 1])
    IN IF p = None \/ p = e
       THEN [x.entries[e] EXCEPT !.parent = x.root, !.flags = @ \cup {"orphan"}]
       ELSE [x.entries[e] EXCEPT !.parent = p]

FinishVolume(x) ==
    Bump([x EXCEPT
        !.entries = [e \in Entries(x) |->
            IF e >= x.firstPending /\ e < x.firstPending + Len(x.pending)
            THEN Resolved(x, e) ELSE x.entries[e]],
        !.pending = <<>>,
        !.firstPending = Len(x.entries) + 1])

\* AddAlias: a second name of an indexed record in another directory.
AddAlias(x, r, p, flags, n) ==
    LET parent == Find(x, p)
        existing == Find(x, r)
    IN IF \/ parent = None
          \/ existing # None /\ x.entries[existing].parent = parent
       THEN x
       ELSE Bump(NewEntry(x, parent, flags, n))

-----------------------------------------------------------------------------
(* Zones and static scores. *)

SetZoneMarker(x, r, zone) == [x EXCEPT !.markers[r] = zone]

ZoneForNew(zone, flags, n, parentIsRoot) ==
    IF \/ flags \cap {"meta", "orphan"} # {}
       \/ parentIsRoot /\ n.reserved
       \/ zone = "Excluded"
    THEN "Excluded"
    ELSE IF flags \cap {"hidden", "system"} # {} THEN "Hidden" ELSE zone

\* Directory levels below the root, capped: a cycle of parents has no root.
Depth(x, e) ==
    LET up[k \in 0..DepthCap] ==
          IF k = 0 THEN e ELSE x.entries[up[k - 1]].parent
        tops == {k \in 0..DepthCap : x.entries[up[k]].parent = up[k]}
    IN IF tops = {} THEN DepthCap
       ELSE Min(tops)

KindBonus(n, flags) ==
    IF "directory" \in flags THEN 40
    ELSE IF n.ext = "lnk" THEN 120 ELSE IF n.ext = "exe" THEN 60 ELSE 0

\* std::clamp: no score is the sentinel.
Clamped(score) ==
    IF score < -32000 THEN -32000 ELSE IF score > 32000 THEN 32000 ELSE score

BaseScore(entry, n, depth) ==
    IF entry.zone = "Excluded" \/ "deleted" \in entry.flags THEN NoBase
    ELSE LET length == IF n.length < 120 THEN n.length ELSE 120
             deep == IF depth > FreeDepth THEN depth - FreeDepth ELSE 0
         IN Clamped(ZoneBonus[entry.zone] + KindBonus(n, entry.flags)
                      - 2 * length - 12 * deep)

\* Reorder: live slots by descending base, equal ones in their old order; the
\* dead ones are dropped.
LiveSlots(x) == {s \in Slots(x) : x.slots[s].entry # None}

\* A mutant: the worst score comes first.
MutAscending(x, s, t) ==
    \/ x.slots[s].base < x.slots[t].base
    \/ x.slots[s].base = x.slots[t].base /\ s < t

Before(x, s, t) ==
    \/ x.slots[s].base > x.slots[t].base
    \/ x.slots[s].base = x.slots[t].base /\ s < t

Reorder(x) ==
    LET live == LiveSlots(x)
        place == [s \in live |->
                    1 + Cardinality({t \in live : Before(x, t, s)})]
        at(k) == CHOOSE s \in live : place[s] = k
    IN Bump([x EXCEPT
        !.slots = [k \in 1..Cardinality(live) |-> x.slots[at(k)]],
        !.entries = [e \in Entries(x) |-> [x.entries[e] EXCEPT !.slot =
            IF \E s \in live : x.slots[s].entry = e
            THEN place[CHOOSE s \in live : x.slots[s].entry = e]
            ELSE None]],
        !.sortedEnd = Cardinality(live),
        !.deadBytes = 0])

\* RecomputeZones: from the markers and the root down; an entry that reaches
\* neither (a cycle of parents) is excluded. Then every score, then Reorder.
Recomputed(x) ==
    LET marker(e) == {r \in Records : Find(x, r) = e /\ x.markers[r] # "none"}
        zone[k \in 0..Len(x.entries)] == [e \in Entries(x) |->
          LET p == x.entries[e].parent
          IN IF marker(e) # {} THEN x.markers[CHOOSE r \in marker(e) : TRUE]
             ELSE IF p = e THEN "Normal"
             ELSE IF k = 0 THEN "Excluded"
             ELSE ZoneForNew(zone[k - 1][p], x.entries[e].flags,
                             x.slots[x.entries[e].slot].name,
                             x.entries[p].parent = p)]
    IN [e \in Entries(x) |->
          [x.entries[e] EXCEPT !.zone = zone[Len(x.entries)][e]]]

\* A mutant: the slots keep their scores when the zones change.
MutUnscored(x) == x.slots

Rescored(x) ==
    [s \in Slots(x) |->
        LET slot == x.slots[s]
        IN IF slot.entry = None THEN slot
           ELSE [slot EXCEPT !.base = BaseScore(x.entries[slot.entry],
                                slot.name, Depth(x, slot.entry))]]

RecomputeZones(x) ==
    LET y == [x EXCEPT !.entries = Recomputed(x)]
    IN Reorder([y EXCEPT !.slots = Rescored(y)])

-----------------------------------------------------------------------------
(* Updates from the change journal. *)

Remove(x, r) ==
    LET e == Find(x, r)
        s == x.entries[e].slot
        y == [x EXCEPT !.entries[e].flags = @ \cup {"deleted"},
                       !.byRecord[r] = None, !.live = @ - 1]
    IN IF e \in {None, x.root} \/ Deleted(x, e) THEN x
       ELSE Bump(IF Owns(x, e, s) THEN KillSlot(y, s) ELSE y)

\* A slot of its own is needed for a new name, for an entry whose slot is
\* dead, and for a new score inside the ranked region.
NeedsSlot(x, e, n, base) ==
    LET s == x.entries[e].slot
    IN \/ ~Owns(x, e, s)
       \/ x.slots[s].name # n
       \/ s <= x.sortedEnd /\ x.slots[s].base # base

SetBase(x, e, base) == [x EXCEPT !.slots[x.entries[e].slot].base = base]

\* The second half of Upsert: the entry has its parent and flags.
Ranked(x, e, n) ==
    LET p == x.entries[e].parent
        y == [x EXCEPT !.entries[e].zone =
                ZoneForNew(x.entries[p].zone, x.entries[e].flags, n,
                           p = x.root)]
        base == BaseScore(y.entries[e], n, Depth(y, e))
        s == y.entries[e].slot
        z == IF ~NeedsSlot(y, e, n, base) THEN y
             ELSE LET k == IF Owns(y, e, s) THEN KillSlot(y, s) ELSE y
                  IN [AppendSlot(k, e, n) EXCEPT
                        !.entries[e].slot = Len(k.slots) + 1]
    IN Bump(SetBase(z, e, base))

Upsert(x, r, p, flags, n) ==
    LET parent == Find(x, p)
        e == Find(x, r)
        f == RecordFlags(r, flags)
    IN IF r = RootRecord THEN x
       ELSE IF parent = None THEN IF e = None THEN x ELSE Remove(x, r)
       ELSE IF e = None
       THEN LET y == NewEntry(x, parent, f, n)
            IN Ranked(MapRecord(y, r, Len(y.entries)), Len(y.entries), n)
       ELSE Ranked([x EXCEPT !.entries[e].parent = parent,
                             !.entries[e].flags = f,
                             !.live = IF Deleted(x, e) THEN @ + 1 ELSE @],
                   e, n)

CompactIfWasteful(x) ==
    IF x.deadBytes < WasteBytes \/ x.deadBytes * 4 < NameBytes(x)
    THEN x ELSE Reorder(x)
=============================================================================
