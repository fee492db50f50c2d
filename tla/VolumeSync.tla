----------------------------- MODULE VolumeSync -----------------------------
(***************************************************************************)
(* The index of one NTFS volume and the volume itself: BuildIndex of       *)
(* FileSearch.cpp takes a position in the change journal, reads the volume *)
(* while it changes (record by record from the MFT, or folder by folder),  *)
(* and PollJournals replays the journal from that position on.             *)
(*                                                                         *)
(* The volume is external: a tree of records, and a journal that gets one  *)
(* record per change. What FSCTL_ENUM_USN_DATA and FSCTL_READ_USN_JOURNAL  *)
(* return is modelled from how FileSearch.cpp asks for it.                 *)
(***************************************************************************)
EXTENDS FileIndexOps

CONSTANTS
    Home,   \* the record of the folder that is crawled
    Plans   \* what may happen to the volume in one behaviour, records of
            \*   mft     TRUE: EnumerateMft; FALSE: BuildFromCrawl
            \*   disks   the volumes before the build
            \*   during  changes that may happen while it is read
            \*   after   changes that may happen once it has been read
            \*   most    bound: changes of the volume
            \*   shuts   folders may refuse to be opened

Changes == {"create", "delete", "moveFile", "moveFolder", "hide", "write"}

ASSUME VolumeAssumption ==
    /\ Home \in Records \ {RootRecord}
    /\ \A p \in Plans :
          /\ p.mft \in BOOLEAN /\ p.most \in Nat /\ p.shuts \in BOOLEAN
          /\ p.during \cup p.after \subseteq Changes

VARIABLES
    disk,      \* the volume: a node for each record
    journal,   \* the change journal
    ix,        \* the index being built or published
    stage,     \* "start", "read", "follow"
    start,     \* JournalStart.nextUsn
    cursor,    \* enumeration: the next record number
    stack,     \* crawl: folders to list, by path and file id
    seen,      \* crawl: file ids added
    next,      \* Journal.nextUsn
    torn,      \* history: what the readers passed over or do not follow
    plan       \* one of Plans, never changed

buildVars == <<ix, stage, start, cursor, stack, seen, next>>
syncVars == <<disk, journal, buildVars, torn, plan>>

Absent == [present |-> FALSE, parent |-> RootRecord, name |-> RootName,
           folder |-> FALSE, hidden |-> FALSE, usn |-> 0]
Nodes == [present: BOOLEAN, parent: Records, name: Names \cup {RootName},
          folder: BOOLEAN, hidden: BOOLEAN, usn: Nat]
JournalRecords == [id: Records, reason: {"name", "delete", "basic", "data"},
                   parent: Records, name: Names, folder: BOOLEAN, hidden: BOOLEAN]

SyncTypeOK ==
    /\ disk \in [Records -> Nodes] /\ journal \in Seq(JournalRecords)
    /\ stage \in {"start", "read", "follow"}
    /\ start \in Nat /\ cursor \in Nat /\ next \in Nat
    /\ stack \in Seq([path: Seq(Names), id: Records])
    /\ seen \cup torn \subseteq Records
    /\ ix.live \in 0..Len(ix.entries)
    /\ \A e \in Entries(ix) :
          ix.entries[e].parent \in Nat /\ ix.entries[e].zone \in Zones

SyncInit ==
    /\ plan \in Plans /\ disk \in plan.disks /\ journal = <<>>
    /\ ix = Empty /\ stage = "start" /\ start = 0 /\ cursor = 0
    /\ stack = <<>> /\ seen = {} /\ next = 0 /\ torn = {}

-----------------------------------------------------------------------------
(* The volume. Every change appends a journal record and stamps its USN.   *)

Children(p) ==
    {r \in Records \ {RootRecord} : disk[r].present /\ disk[r].parent = p}
Folder(p) == disk[p].present /\ disk[p].folder
Free(p, n) == \A r \in Children(p) : disk[r].name # n

Above(r) ==
    LET up[k \in 0..Cardinality(Records)] ==
          IF k = 0 THEN r ELSE disk[up[k - 1]].parent
    IN {up[k] : k \in 0..Cardinality(Records)}

May(kind) ==
    /\ kind \in (IF stage = "follow" THEN plan.after ELSE plan.during)
    /\ stage # "start" /\ Len(journal) < plan.most

Record(r, reason, node) ==
    /\ journal' = Append(journal,
          [id |-> r, reason |-> reason, parent |-> node.parent,
           name |-> node.name, folder |-> node.folder, hidden |-> node.hidden])
    /\ disk' = [disk EXCEPT ![r] =
          IF reason = "delete" THEN Absent
          ELSE [node EXCEPT !.usn = Len(journal) + 1]]
    /\ UNCHANGED buildVars

\* A folder that moves while the volume is read, or into or out of what is
\* indexed, takes along names that get no journal record of their own. In a
\* crawl, new folders in the root are indexed as well as those of Home.
Below(r) == {q \in Records : disk[q].present /\ r \in Above(q)}
Tears(r, p) ==
    /\ disk[r].folder
    /\ \/ stage = "read"
       \/ ~plan.mft /\ ~(Home \in Above(r) \cap Above(p))

CreateNode(r, p, n, folder, hidden) ==
    /\ May("create") /\ (hidden => folder /\ May("hide")) /\ ~disk[r].present /\ Folder(p) /\ Free(p, n)
    /\ Record(r, "name", [present |-> TRUE, parent |-> p, name |-> n,
                          folder |-> folder, hidden |-> hidden, usn |-> 0])
    /\ torn' = torn \ {r}

MoveNode(r, p, n) ==
    /\ May(IF disk[r].folder THEN "moveFolder" ELSE "moveFile")
    /\ disk[r].present /\ r \notin {RootRecord, Home}
    /\ Folder(p) /\ r \notin Above(p) /\ Free(p, n)
    /\ Record(r, "name", [disk[r] EXCEPT !.parent = p, !.name = n])
    /\ torn' = IF ~disk[r].folder THEN torn \ {r}
               ELSE IF Tears(r, p) \/ Above(r) \cap torn # {} THEN torn \cup Below(r)
               ELSE torn

\* A folder is hidden, or shown again.
HideNode(r) ==
    /\ May("hide") /\ Folder(r) /\ r # RootRecord
    /\ Record(r, "basic", [disk[r] EXCEPT !.hidden = ~@])
    /\ torn' = IF plan.mft /\ stage = "read" THEN torn \cup Below(r) ELSE torn

DeleteNode(r) ==
    /\ May("delete") /\ disk[r].present /\ r \notin {RootRecord, Home}
    /\ Children(r) = {}
    /\ Record(r, "delete", disk[r])
    /\ UNCHANGED torn

\* The data of a file is written: its USN moves, with a reason that is not in
\* kJournalReasons.
WriteFile(r) ==
    /\ May("write") /\ disk[r].present /\ ~disk[r].folder
    /\ Record(r, "data", disk[r])
    /\ torn' = IF plan.mft /\ stage = "read" THEN torn \cup {r} ELSE torn

-----------------------------------------------------------------------------
(* Reading the volume. *)

\* A node is hidden when its attributes have one of kSkip: hidden, system, or a
\* reparse point, of which the index keeps no more than of a hidden one.
FlagsOf(node) == {f \in {"directory", "hidden"} :
                    (f = "directory" /\ node.folder) \/ (f = "hidden" /\ node.hidden)}

\* FSCTL_QUERY_USN_JOURNAL, before anything is read.
NextUsn == Len(journal) + 1

StartMft ==
    /\ plan.mft /\ stage = "start" /\ stage' = "read"
    /\ start' = NextUsn /\ ix' = AddVolume(Empty)
    /\ UNCHANGED <<disk, journal, cursor, stack, seen, next, torn>>

\* FSCTL_ENUM_USN_DATA returns the records in the order of their numbers,
\* those whose last change is not above HighUsn, the position taken before.
BelowHighUsn(r) == disk[r].usn <= start

Enumerate ==
    /\ plan.mft /\ stage = "read" /\ \E r \in Records : r > cursor
    /\ LET r == Min({q \in Records : q > cursor})
           node == disk[r]
       IN /\ cursor' = r
          /\ ix' = IF node.present /\ BelowHighUsn(r)
                   THEN Add(ix, r, node.parent, FlagsOf(node), node.name)
                   ELSE ix
    /\ UNCHANGED <<disk, journal, stage, start, stack, seen, next, torn>>

StartCrawl ==
    /\ ~plan.mft /\ stage = "start" /\ stage' = "read"
    /\ start' = NextUsn
    /\ ix' = Add(AddVolume(Empty), Home, RootRecord, FlagsOf(disk[Home]),
                 disk[Home].name)
    /\ seen' = {Home}
    /\ stack' = <<[path |-> <<disk[Home].name>>, id |-> Home]>>
    /\ UNCHANGED <<disk, journal, cursor, next, torn>>

\* CreateFileW by path: the folder that has this path now, if any.
Opened(path) ==
    LET at[k \in 0..Len(path)] ==
          IF k = 0 THEN {RootRecord}
          ELSE {r \in Records : /\ disk[r].name = path[k]
                                /\ \E p \in at[k - 1] : r \in Children(p)}
    IN {r \in at[Len(path)] : Folder(r)}

\* The handle is not valid: access is denied.
Refused == IF plan.shuts THEN {{}} ELSE {}

\* What lies below a folder that is passed over.
Unread(f) == (Below(f) \ {f}) \ seen

\* One folder is listed, unless it can not be opened: what is in it is added
\* below the id it had when its own folder was listed, and its folders are
\* pushed, but for hidden ones, which are never listed.
List ==
    /\ ~plan.mft /\ stage = "read" /\ stack # <<>>
    /\ \E opened \in {Opened(stack[Len(stack)].path)} \cup Refused :
         LET top == stack[Len(stack)]
             rest == SubSeq(stack, 1, Len(stack) - 1)
             found == UNION {Children(d) : d \in opened} \ seen
             nth(S, k) == CHOOSE r \in S : Cardinality({q \in S : q < r}) = k - 1
             folders == {r \in found : disk[r].folder /\ ~disk[r].hidden}
             hidden == {r \in found : disk[r].folder /\ disk[r].hidden}
             added[k \in 0..Cardinality(found)] ==
               IF k = 0 THEN ix
               ELSE LET r == nth(found, k)
                    IN Add(added[k - 1], r, top.id, FlagsOf(disk[r]), disk[r].name)
         IN /\ ix' = added[Cardinality(found)]
            /\ seen' = seen \cup found
            /\ stack' = rest \o [k \in 1..Cardinality(folders) |->
                  LET r == nth(folders, k)
                  IN [path |-> Append(top.path, disk[r].name), id |-> r]]
            /\ torn' = torn \cup UNION {Unread(f) :
                  f \in hidden \cup (Opened(top.path) \ opened)}
    /\ UNCHANGED <<disk, journal, stage, start, cursor, next>>

\* A mutant: the journal is opened where it is when the volume has been read.
MutFromNow == NextUsn

\* FinishVolume, RecomputeZones, and the journal opened at its position.
FirstUsn == start

Publish ==
    /\ stage = "read" /\ stage' = "follow"
    /\ IF plan.mft THEN \A r \in Records : r <= cursor ELSE stack = <<>>
    /\ ix' = RecomputeZones(FinishVolume(ix)) /\ next' = FirstUsn
    /\ UNCHANGED <<disk, journal, start, cursor, stack, seen, torn>>

-----------------------------------------------------------------------------
(* Following the journal. *)

\* Each record of interest is applied in order under the index lock.
Applied(x, u) ==
    CASE u.reason = "delete" -> Remove(x, u.id)
      [] u.reason \in {"name", "basic"} -> Upsert(x, u.id, u.parent, FlagsOf(u), u.name)
      [] OTHER -> x

Poll ==
    /\ stage = "follow" /\ next < NextUsn
    /\ LET replayed[k \in (next - 1)..Len(journal)] ==
             IF k = next - 1 THEN ix ELSE Applied(replayed[k - 1], journal[k])
       IN ix' = CompactIfWasteful(replayed[Len(journal)])
    /\ next' = NextUsn
    /\ UNCHANGED <<disk, journal, stage, start, cursor, stack, seen, torn>>

-----------------------------------------------------------------------------

Volume ==
    \/ \E r \in Records, p \in Records, n \in Names, folder, hidden \in BOOLEAN :
          CreateNode(r, p, n, folder, hidden)
    \/ \E r \in Records, p \in Records, n \in Names : MoveNode(r, p, n)
    \/ \E r \in Records : HideNode(r) \/ DeleteNode(r) \/ WriteFile(r)

Reader == StartMft \/ Enumerate \/ StartCrawl \/ List \/ Publish \/ Poll

\* Nothing is left to change or to replay.
Quiet ==
    stage = "follow" /\ next = NextUsn /\ UNCHANGED <<disk, journal, buildVars, torn>>

SyncNext == (Volume \/ Reader \/ Quiet) /\ UNCHANGED plan

SyncSpec == SyncInit /\ [][SyncNext]_syncVars

-----------------------------------------------------------------------------
(* Properties. *)

\* Everything the journal says has been replayed.
CaughtUp == stage = "follow" /\ next = NextUsn

\* What the mode covers: the volume, or what lies below the crawled folder.
InScope(r) == r # RootRecord /\ disk[r].present
                /\ (plan.mft \/ Home \in Above(r))

\* The index has the record under the name, in the folder and with the
\* attributes it has on disk.
Follows(r) ==
    LET e == Find(ix, r)
        slot == ix.slots[ix.entries[e].slot]
        parent == Find(ix, disk[r].parent)
    IN /\ e # None /\ parent # None
       /\ slot.entry = e /\ slot.name = disk[r].name
       /\ ix.entries[e].parent = parent
       /\ ix.entries[e].flags \cap {"directory", "hidden"} = FlagsOf(disk[r])

\* Every file and folder in scope is found, where it is now: what changed
\* between two reads of the build was seen by one of them or is replayed.
\* Only what was torn may be missing until the next build, with what lies in
\* it: what lay in a folder that moved during the read or across the border of
\* what is indexed, a file written while the MFT was read, and what lay in a
\* folder the crawl found hidden or could not open.
NothingIsMissed ==
    CaughtUp =>
        \A r \in Records : InScope(r) /\ Above(r) \cap torn = {} =>
            Follows(r) /\ ix.slots[ix.entries[Find(ix, r)].slot].base # NoBase

\* Every name a search can return is that of a file or folder that exists,
\* with the path it has: nothing deleted, moved away or left behind by a
\* reused record number is still listed, but for what was torn.
NothingIsStale ==
    CaughtUp =>
        \A s \in LiveSlots(ix) :
            \/ ix.slots[s].entry = ix.root
            \/ \E r \in Records :
                  /\ disk[r].present /\ Find(ix, r) = ix.slots[s].entry
                  /\ Follows(r) \/ Above(r) \cap torn # {}

\* Both: the index is the volume, but for what was torn.
IndexFollowsVolume == SyncTypeOK /\ NothingIsMissed /\ NothingIsStale
=============================================================================
