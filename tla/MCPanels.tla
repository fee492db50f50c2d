------------------------------ MODULE MCPanels ------------------------------
(***************************************************************************)
(* The two panels of the dock: the search panel with its AI mode, and      *)
(* Quick Settings on its Bluetooth page.  They share no state: a behaviour *)
(* steps one of them, so the state spaces add up.                          *)
(***************************************************************************)
EXTENDS SearchPanel, BluetoothLink

VARIABLE part

panelVars == <<part, vars, btVars>>

\* A few clicks on a device of each kind, with one disturbance or another.
\* The harness of the test hooks clicks faster than the panel allows.
BtScene(does, n, kind, paired, page) ==
    [does |-> does, clicks |-> n, kind |-> kind, bonded |-> paired, page |-> page]
Unhurried == BtScene({"link", "stop"}, 1, "audio", TRUE, FALSE)
MCBtScenes ==
    { Unhurried,
      BtScene({"link", "move", "stop"}, 2, "audio", TRUE, FALSE),
      BtScene({"link", "move"}, 1, "audio", TRUE, TRUE),
      BtScene({"hook"}, 3, "audio", TRUE, FALSE),
      BtScene({"hook", "fault"}, 2, "audio", TRUE, FALSE),
      BtScene({"link", "search", "fault"}, 2, "audio", TRUE, FALSE),
      BtScene({"link", "fault", "move"}, 1, "other", TRUE, TRUE),
      BtScene({"radio", "fault", "search"}, 2, "audio", TRUE, TRUE),
      BtScene({"search", "pair"}, 2, "audio", FALSE, TRUE),
      BtScene({"hook"}, 1, "le", TRUE, TRUE) }

PanelsInit ==
    /\ part \in {"search", "bluetooth"}
    /\ Init /\ (part = "bluetooth" => ~hasKey)
    /\ BtInit /\ (part = "search" => setting = Unhurried /\ ~link)

PanelsNext ==
    \/ part = "search" /\ Next /\ UNCHANGED <<part, btVars>>
    \/ part = "bluetooth" /\ BtNext /\ UNCHANGED <<part, vars>>

\* There always is a worker, so what BtFairness says is asked for where it
\* steps; a search panel nobody opened owes nothing.
Links == part = "bluetooth"
PanelsFairness ==
    /\ Fairness
    /\ WF_btVars(Links /\ BtWorker) /\ WF_btVars(Links /\ BtPanel) /\ WF_btVars(Links /\ BtDriver)
    /\ WF_btVars(Links /\ Poll) /\ SF_btVars(Links /\ ListAges)

PanelsSpec == PanelsInit /\ [][PanelsNext]_panelVars /\ PanelsFairness

\* The row, the radio switch and the pairing latch of the Bluetooth page come
\* to agree with the device, where there is a worker to tell them.
PanelCatchesUp == Links => PanelSettles

=============================================================================
