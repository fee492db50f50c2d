-------------------------- MODULE MCCatalogRefresh --------------------------
(***************************************************************************)
(* The row of tiles for TLC: its refresh by the catalog worker, and the    *)
(* gestures of the mouse on it.  A behaviour picks one of Parts and steps  *)
(* only that one, so the state spaces add up.                              *)
(***************************************************************************)
EXTENDS CatalogRefresh, DockGestures

CONSTANTS Parts, mail, notes, paint

VARIABLE part

rowVars == <<part, vars, gestureVars>>

TwoPins == <<mail, notes>>

RowInit ==
    /\ part \in Parts
    /\ Init /\ (part # "catalog" => open = {})
    /\ GesturesInit /\ (part # "gestures" => live = {} /\ battery)

RowNext ==
    \/ part = "catalog" /\ Next /\ UNCHANGED <<part, gestureVars>>
    \/ part = "gestures" /\ GesturesNext /\ UNCHANGED <<part, vars>>

\* Fairness of CatalogRefresh, where the catalog steps: its timers never rest.
Catalogs == part = "catalog"
RowFairness ==
    /\ WF_vars(Catalogs /\ OnWindowEvent) /\ WF_vars(Catalogs /\ OnApplyMessage)
    /\ WF_vars(Catalogs /\ OnRefreshTimer) /\ WF_vars(Catalogs /\ OnNoticed)
    /\ WF_vars(Catalogs /\ OnDeferredTimer) /\ WF_vars(Catalogs /\ DrainEnds)
    /\ WF_vars(Catalogs /\ Rerun) /\ WF_vars(Catalogs /\ WaitOver)
    /\ WF_vars(Catalogs /\ Reveal) /\ WF_vars(Catalogs /\ SlideEnds)
    /\ WF_vars(Catalogs /\ JobStep)

RowSpec == RowInit /\ [][RowNext]_rowVars /\ RowFairness

=============================================================================
