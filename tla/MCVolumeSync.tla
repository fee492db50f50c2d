---------------------------- MODULE MCVolumeSync ----------------------------
(* Instances of VolumeSync for TLC: a home folder (2) below the root (1), a *)
(* folder (3) with a file (4) in it, inside the home folder or beside it,   *)
(* another folder (5) beside it or in the first, and a free record (6).     *)
EXTENDS VolumeSync

Short == [id |-> "short", length |-> 1, ext |-> "txt", reserved |-> FALSE]
Long == [id |-> "long", length |-> 3, ext |-> "exe", reserved |-> FALSE]
Root == [id |-> "root", length |-> 2, ext |-> "none", reserved |-> FALSE]
Other == [id |-> "other", length |-> 2, ext |-> "none", reserved |-> FALSE]
ThreeNames == {Short, Long, Other}

Node(parent, name, folder) ==
    [present |-> TRUE, parent |-> parent, name |-> name, folder |-> folder,
     hidden |-> FALSE, usn |-> 0]
Disk(above3, name3, hidden3, above4, above5) ==
    [r \in 1..6 |-> CASE r = 1 -> Node(1, Root, TRUE)
                      [] r = 2 -> Node(1, Short, TRUE)
                      [] r = 3 -> [Node(above3, name3, TRUE) EXCEPT !.hidden = hidden3]
                      [] r = 4 -> Node(above4, Short, FALSE)
                      [] r = 5 -> Node(above5, Other, TRUE)
                      [] r = 6 -> Absent]
Inside == Disk(2, Short, FALSE, 3, 1)
Beside == Disk(1, Long, FALSE, 3, 1)
\* The folder in the home folder is hidden and has the other folder in it, and
\* that the file.
Hidden == Disk(2, Short, TRUE, 5, 3)

Plan(mft, disks, shuts, during, after, most) ==
    [mft |-> mft, disks |-> disks, shuts |-> shuts, during |-> during, after |-> after,
     most |-> most]

\* Two changes of any kind in each volume, and three in the nested one.
Followed ==
    {Plan(TRUE, {Inside, Beside}, FALSE, Changes, Changes, 2),
     Plan(FALSE, {Inside, Beside, Hidden}, TRUE, Changes, Changes, 2),
     Plan(TRUE, {Inside}, FALSE, {"create", "delete"}, Changes \ {"hide", "write"}, 3),
     Plan(FALSE, {Inside}, FALSE, {"create", "moveFolder"}, Changes \ {"hide", "write"}, 3)}
=============================================================================
