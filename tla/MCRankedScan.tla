---------------------------- MODULE MCRankedScan ----------------------------
(* Instances of RankedScan: a few names of each sort.        *)
EXTENDS RankedScan

None0 == [anchor |-> FALSE, match |-> FALSE, part |-> 0, bonus |-> 0, room |-> 0]
Anchor == [None0 EXCEPT !.anchor = TRUE]
Inside == [Anchor EXCEPT !.match = TRUE, !.part = 100]
AtStart == [Inside EXCEPT !.part = 600]
Dotted == [Inside EXCEPT !.room = 400]
Stem == [AtStart EXCEPT !.bonus = 400, !.room = 400]
Whole == [AtStart EXCEPT !.bonus = 600, !.room = 600]

\* How a name stands to query 1 and to query 2, which extends it.
AllSorts ==
    {<<Inside, None0>>, <<AtStart, Inside>>, <<Whole, None0>>, <<AtStart, Stem>>, <<Dotted, Anchor>>}
FewSorts ==
    {<<Inside, None0>>, <<AtStart, Inside>>, <<AtStart, Whole>>}

Typed == {<<2, 1>>, <<1, 1>>, <<2, 2>>}

\* One thread: three ranked names and one added since, excluded or dead.
AloneSetup ==
    [size |-> 4, ranked |-> 3, sorts |-> AllSorts, bases |-> {300, 0, NoBase},
     dead |-> {{}, {1}}, limit |-> 2, workers |-> 1, fanOutMin |-> 4,
     probe |-> 4, near |-> 4, chunk |-> 1, recordCap |-> 3]
\* A probe of two names, then the rest here or on the threads.
ProbeSetup ==
    [size |-> 5, ranked |-> 5, sorts |-> FewSorts, bases |-> {300, 0},
     dead |-> {{}}, limit |-> 1, workers |-> 2, fanOutMin |-> 2,
     probe |-> 2, near |-> 5, chunk |-> 2, recordCap |-> 5]
\* Two threads share three names and a threshold; one name was added since.
ThreadSetup ==
    [size |-> 4, ranked |-> 3, sorts |-> FewSorts, bases |-> {300, 0},
     dead |-> {{}}, limit |-> 2, workers |-> 2, fanOutMin |-> 2,
     probe |-> 5, near |-> 5, chunk |-> 1, recordCap |-> 2]
AllSetups == {AloneSetup, ProbeSetup, ThreadSetup}
=============================================================================
