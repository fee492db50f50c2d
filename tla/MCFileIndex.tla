----------------------------- MODULE MCFileIndex -----------------------------
(* Instances of FileIndex for TLC. *)
EXTENDS FileIndex

Short == [id |-> "short", length |-> 1, ext |-> "txt", reserved |-> FALSE]
Long == [id |-> "long", length |-> 3, ext |-> "exe", reserved |-> FALSE]
Bin == [id |-> "bin", length |-> 2, ext |-> "none", reserved |-> TRUE]
Root == [id |-> "root", length |-> 2, ext |-> "none", reserved |-> FALSE]

AllNames == {Short, Long, Bin}

\* A build of every shape, from records read at different times.
BuildPlan ==
    [records |-> {1, 2, 3, 4}, buildFlags |-> {{"directory"}, {"hidden"}},
     buildNames |-> {Short, Bin}, markers |-> {"UserFolder"}, torn |-> TRUE,
     updateFlags |-> {}, updateNames |-> {}, entries |-> 4, slots |-> 5]
\* A plain build, then every sequence of updates.
UpdatePlan ==
    [records |-> {1, 3, 4}, buildFlags |-> {{}}, buildNames |-> {Short},
     markers |-> {"UserFolder"}, torn |-> FALSE, updateFlags |-> {{}},
     updateNames |-> {Short, Long}, entries |-> 4, slots |-> 4]
\* Directories that move between zones.
ZonePlan ==
    [records |-> {1, 3, 4, 5}, buildFlags |-> {{"directory"}},
     buildNames |-> {Short, Bin}, markers |-> {}, torn |-> FALSE,
     updateFlags |-> {{"directory"}}, updateNames |-> {Short}, entries |-> 5,
     slots |-> 5]

BuildAndUpdate == {BuildPlan, UpdatePlan}
Zoned == {ZonePlan}
=============================================================================
