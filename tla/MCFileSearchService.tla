------------------------ MODULE MCFileSearchService ------------------------
(***************************************************************************)
(* Small instances of FileSearchService. Each set of bounds spends the     *)
(* steps on one kind of disturbance: reopening, a new app catalogue, a     *)
(* failed build or a wrapped journal, a grant of full-disk access.         *)
(***************************************************************************)
EXTENDS FileSearchService

CONSTANT t1

OneText == {t1}
OneExtends == {<<t1, t1>>}

Bound(i, b, u, a, g) ==
    [ids |-> i, builds |-> b, updates |-> u, apps |-> a, grants |-> g]
SafetyBounds ==
    {Bound(3, 0, 0, 0, 0), Bound(2, 0, 0, 1, 0), Bound(1, 1, 0, 0, 0),
     Bound(1, 0, 0, 0, 1)}
LiveBounds == {Bound(1, 0, 0, 0, 0), Bound(0, 1, 1, 0, 1)}
CacheBounds == {Bound(2, 1, 1, 0, 0)}

\* What was asked of the service is done: the newest query of an open panel is
\* answered, and a grant of full-disk access reaches the published index.
RequestsAreServed == NewestIsAnswered /\ GrantTakesEffect
=============================================================================
