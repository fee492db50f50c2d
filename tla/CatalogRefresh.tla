--------------------------- MODULE CatalogRefresh ---------------------------
(***************************************************************************)
(* The row of applications on the dock and the background refresh that     *)
(* keeps it current (src/DockApp.cpp).                                     *)
(*                                                                         *)
(* The user interface thread owns the pins, the row and the layout.        *)
(* BeginBackgroundRefresh copies the pins and the row into a job of the    *)
(* catalog worker, one job at a time (m_refreshInFlight).  The job         *)
(* enumerates the windows, compares the row it would build with the row it *)
(* was given, and if they differ leaves a snapshot for the thread and      *)
(* posts it a message.  Every change of the pins advances the refresh      *)
(* generation, which a job compares before it leaves its snapshot and the  *)
(* thread before it applies one.                                           *)
(*                                                                         *)
(* While the dock is hidden, window events are noted by an epoch and a     *)
(* dirty flag; BeginShow waits, for a bounded time, until the row has      *)
(* caught up.                                                              *)
(*                                                                         *)
(* An application is open or not; a row is the sequence of pins and the    *)
(* set of applications it shows as open, and its tiles are the pins, the   *)
(* open applications that are not pinned, and the dots under the pins.     *)
(* The order among unpinned tiles, and icons, are abstracted.              *)
(***************************************************************************)
EXTENDS Naturals, Sequences

CONSTANTS Apps,        \* the applications
          FirstPins,   \* the pins at the start, a sequence of applications
          MaxChanges,  \* bound: windows opened or closed
          MaxEdits,    \* bound: pins edited, dragged, icons resized
          MaxEvents,   \* bound: changes and edits together
          MaxShows,    \* bound: reveals of the dock
          MaxPending   \* bound: unhandled messages when a click begins a refresh

ASSUME FirstPinsAssumption == FirstPins \in Seq(Apps)
ASSUME BoundsAssumption ==
    {MaxChanges, MaxEdits, MaxEvents, MaxShows, MaxPending} \subseteq Nat

VARIABLES
    open,        \* the applications with a window, as Windows has it
    event,       \* a window event is on its way to the interface thread
    visibility,  \* m_visibility
    pins,        \* m_config.Pins()
    row,         \* m_displayApps
    tiles,       \* m_iconRenderData, as the last RebuildLayout left it
    generation,  \* m_refreshGeneration
    inFlight,    \* m_refreshInFlight
    snapshot,    \* m_refreshSnapshot
    messages,    \* the kRefreshApplyMessage posts that have not been handled
    epoch,       \* m_hiddenCatalogEpoch
    dirty,       \* m_hiddenCatalogDirty
    noticed,     \* a kHiddenCatalogMessage has been posted
    timers,      \* the armed ones of kRefreshTimerId and kDeferredRefreshTimerId
    ui,          \* where the interface thread is in BeginShow, or "loop"
    reveal,      \* history: what BeginShow began with and met
    step,        \* where the catalog worker is in its job, or "idle"
    job,         \* what the job was given and what it has found
    changes, edits, shows  \* counters for the bounds

desktop == <<open, event, changes>>
uiVars == <<visibility, pins, row, tiles, timers, ui, reveal, noticed, edits, shows>>
shared == <<generation, inFlight, snapshot, messages, epoch, dirty>>
worker == <<step, job>>
vars == <<desktop, uiVars, shared, worker>>

None == [gen |-> 0, row |-> [pins |-> <<>>, open |-> {}], layout |-> FALSE,
         running |-> FALSE, epoch |-> 0, kept |-> FALSE]

NoJob == [gen |-> 0, pins |-> <<>>, row |-> None.row, retry |-> FALSE, open |-> {}, epoch |-> 0]

NoReveal == [dirty |-> FALSE, fit |-> FALSE, late |-> FALSE, moved |-> FALSE]

Members(s) == {s[i] : i \in DOMAIN s}

\* BuildDisplayAppsSnapshot: the pins in order, then what else is open.
RowOf(p, w) == [pins |-> p, open |-> w]

\* RebuildLayout: one tile for every entry of the row, a dot under an open pin.
TilesOf(r) == [pins |-> r.pins, unpinned |-> r.open \ Members(r.pins),
               dots |-> r.open \cap Members(r.pins)]

LayoutChanged(new, old) ==
    \/ new.pins # old.pins
    \/ new.open \ Members(new.pins) # old.open \ Members(old.pins)

RunningChanged(new, old) == ~LayoutChanged(new, old) /\ new.open # old.open

OffScreen == visibility \in {"Hidden", "Hiding"}

Init ==
    /\ open \in SUBSET Apps
    /\ event = FALSE
    /\ visibility = "Hidden"
    /\ pins = FirstPins
    /\ row = RowOf(pins, open)
    /\ tiles = TilesOf(row)
    /\ generation = 0
    /\ inFlight = FALSE
    /\ snapshot = None
    /\ messages = <<>>
    /\ epoch = 0
    /\ dirty = FALSE
    /\ noticed = FALSE
    /\ timers = {"refresh"}
    /\ ui = "loop"
    /\ reveal = NoReveal
    /\ step = "idle"
    /\ job = NoJob
    /\ changes = 0
    /\ edits = 0
    /\ shows = 0

-----------------------------------------------------------------------------
(* The desktop.                                                            *)

\* A window of a opens or closes, and Windows queues an event for the hooks.
WindowChanges(a) ==
    /\ changes < MaxChanges /\ changes + edits < MaxEvents
    /\ open' = IF a \in open THEN open \ {a} ELSE open \cup {a}
    /\ event' = TRUE
    /\ changes' = changes + 1
    /\ reveal' = [reveal EXCEPT !.moved = (ui # "loop")]
    /\ UNCHANGED <<visibility, pins, row, tiles, timers, ui, noticed, edits, shows, shared, worker>>

\* CatalogWinEventProc, ForegroundWinEventProc.
OnWindowEvent ==
    /\ ui # "rerun"
    /\ event
    /\ event' = FALSE
    /\ epoch' = IF OffScreen THEN epoch + 1 ELSE epoch
    /\ dirty' = (dirty \/ OffScreen)
    /\ noticed' = (noticed \/ visibility = "Hidden")
    /\ UNCHANGED <<open, changes, visibility, pins, row, tiles, timers, ui, reveal, edits, shows,
                   generation, inFlight, snapshot, messages, worker>>

-----------------------------------------------------------------------------
(* BeginBackgroundRefresh and ApplyBackgroundRefresh.                      *)

\* The job takes copies of the pins, the row and the generation.
TakeJob(retry) ==
    /\ inFlight' = TRUE
    /\ job' = [gen |-> generation, pins |-> pins, row |-> row, retry |-> retry,
               open |-> {}, epoch |-> 0]
    /\ step' = "posted"

\* Nothing while the dock slides away, and nothing while a job is in flight.
BeginRefresh(retry) ==
    IF visibility = "Hiding" \/ inFlight
    THEN UNCHANGED <<inFlight, worker>>
    ELSE TakeJob(retry)

\* The guards of ApplyBackgroundRefresh(g).
Applies(g) == g = generation /\ visibility # "Hiding" /\ snapshot.kept

\* The row is replaced; the layout is rebuilt, or only its dots are corrected.
ApplySnapshot ==
    /\ row' = snapshot.row
    /\ tiles' = IF snapshot.layout THEN TilesOf(snapshot.row)
                ELSE IF snapshot.running
                     THEN [tiles EXCEPT !.dots = TilesOf(snapshot.row).dots]
                     ELSE tiles
    /\ dirty' = (dirty /\ epoch # snapshot.epoch)
    /\ snapshot' = None

ApplyRefresh(g) ==
    IF Applies(g) THEN ApplySnapshot ELSE UNCHANGED <<row, tiles, dirty, snapshot>>

\* kRefreshApplyMessage, from the message loop or from a pump of BeginShow.
OnApplyMessage ==
    /\ ui \in {"loop", "drain", "wait", "pump"}
    /\ messages # <<>>
    /\ messages' = Tail(messages)
    /\ ApplyRefresh(Head(messages))
    /\ UNCHANGED <<desktop, visibility, pins, timers, ui, reveal, noticed, edits, shows,
                   generation, inFlight, epoch, worker>>

\* The refresh timer.  Timers are delivered when no posted message waits.  The
\* time limit that may hold a refresh back is a step not taken.
OnRefreshTimer ==
    /\ ui = "loop"
    /\ messages = <<>>
    /\ "refresh" \in timers
    /\ \E retry \in BOOLEAN : BeginRefresh(retry)
    /\ UNCHANGED <<desktop, uiVars, generation, snapshot, messages, epoch, dirty>>

\* ActivateLaunchTarget, and the end of the context menu: the thread has been
\* busy with another window, so messages may have been posted meanwhile.
RefreshAfterClick ==
    /\ ui = "loop"
    /\ ~OffScreen
    /\ Len(messages) <= MaxPending
    /\ \E retry \in BOOLEAN : BeginRefresh(retry)
    /\ UNCHANGED <<desktop, uiVars, generation, snapshot, messages, epoch, dirty>>

\* kHiddenCatalogMessage, and kCursorWatchSyncMessage of a foreground change.
OnNoticed ==
    /\ ui = "loop"
    /\ noticed
    /\ noticed' = FALSE
    /\ timers' = IF visibility = "Hidden" THEN timers \cup {"deferred"} ELSE timers
    /\ UNCHANGED <<desktop, visibility, pins, row, tiles, ui, reveal, edits, shows, shared, worker>>

OnDeferredTimer ==
    /\ ui = "loop"
    /\ messages = <<>>
    /\ "deferred" \in timers
    /\ timers' = timers \ {"deferred"}
    /\ IF visibility \in {"Visible", "Hidden"}
       THEN \E retry \in BOOLEAN : BeginRefresh(retry)
       ELSE UNCHANGED <<inFlight, worker>>
    /\ UNCHANGED <<desktop, visibility, pins, row, tiles, ui, reveal, noticed, edits, shows,
                   generation, snapshot, messages, epoch, dirty>>

-----------------------------------------------------------------------------
(* Edits of the pins.                                                      *)

Editable == ui = "loop" /\ ~OffScreen /\ edits < MaxEdits /\ changes + edits < MaxEvents

\* A mutant: an edit leaves the generation as it is.
MutSameGeneration == generation

\* What an edit does to jobs in flight.
NextGeneration == generation + 1

\* A pin or unpin of the context menu, with the optimistic splice of
\* ApplyPinUnpinLayoutChange.
EditPins(p) ==
    /\ Editable
    /\ p # pins
    /\ pins' = p
    /\ generation' = NextGeneration
    /\ row' = RowOf(p, row.open)
    /\ tiles' = TilesOf(row')
    /\ timers' = timers \cup {"deferred"}
    /\ edits' = edits + 1
    /\ UNCHANGED <<desktop, visibility, ui, reveal, noticed, shows,
                   inFlight, snapshot, messages, epoch, dirty, worker>>

Pin(a) == a \notin Members(pins) /\ EditPins(Append(pins, a))

Unpin(i) ==
    /\ i \in DOMAIN pins
    /\ EditPins(SubSeq(pins, 1, i - 1) \o SubSeq(pins, i + 1, Len(pins)))

\* Pin i moved to place k.
Moved(p, i, k) ==
    LET rest == SubSeq(p, 1, i - 1) \o SubSeq(p, i + 1, Len(p))
    IN  SubSeq(rest, 1, k - 1) \o <<p[i]>> \o SubSeq(rest, k, Len(rest))

\* CompleteDrag: the pin and its tile move, and the snapshot is dropped.
CompleteDrag(i, k) ==
    /\ Editable
    /\ i \in DOMAIN pins
    /\ k \in DOMAIN pins
    /\ i # k
    /\ pins' = Moved(pins, i, k)
    /\ row' = RowOf(pins', row.open)
    /\ tiles' = TilesOf(row')
    /\ generation' = NextGeneration
    /\ snapshot' = None
    /\ edits' = edits + 1
    /\ UNCHANGED <<desktop, visibility, timers, ui, reveal, noticed, shows,
                   inFlight, messages, epoch, dirty, worker>>

\* ReloadIconsIfExtentChanged: the icons have another size.
IconsResized ==
    /\ ui = "loop"
    /\ edits < MaxEdits /\ changes + edits < MaxEvents
    /\ generation' = NextGeneration
    /\ edits' = edits + 1
    /\ UNCHANGED <<desktop, visibility, pins, row, tiles, timers, ui, reveal, noticed, shows,
                   inFlight, snapshot, messages, epoch, dirty, worker>>

-----------------------------------------------------------------------------
(* BeginShow, BeginHide and the slide.                                     *)

\* A mutant: the catch-up lets the old job's snapshot stand.
MutNoCatchUpGeneration == generation

\* CatchUpHiddenCatalog first decides whether there is anything to wait for.
CatchUpGeneration == generation + 1

BeginShow ==
    /\ ui = "loop"
    /\ OffScreen
    /\ shows < MaxShows
    /\ shows' = shows + 1
    /\ visibility' = "Hidden"
    /\ reveal' = [dirty |-> dirty, fit |-> tiles = TilesOf(row), late |-> FALSE, moved |-> FALSE]
    /\ generation' = IF dirty THEN CatchUpGeneration ELSE generation
    /\ ui' = IF dirty THEN "drain" ELSE IF inFlight THEN "wait" ELSE "pump"
    /\ UNCHANGED <<desktop, pins, row, tiles, timers, noticed, edits,
                   inFlight, snapshot, messages, epoch, dirty, worker>>

\* A wait ends when no job is in flight, or at the deadline.
WaitEnds(from, to) ==
    /\ ui = from
    /\ ui' = to
    /\ \/ ~inFlight /\ reveal' = reveal
       \/ inFlight /\ reveal' = [reveal EXCEPT !.late = TRUE]
    /\ UNCHANGED <<desktop, visibility, pins, row, tiles, timers, noticed, edits, shows,
                   shared, worker>>

DrainEnds == WaitEnds("drain", "rerun")

\* RefreshRunningWindows(true), unless the old job is still in flight.
Rerun ==
    /\ ui = "rerun"
    /\ ui' = "wait"
    /\ \E retry \in BOOLEAN : BeginRefresh(retry)
    /\ UNCHANGED <<desktop, visibility, pins, row, tiles, timers, reveal, noticed, edits, shows,
                   generation, snapshot, messages, epoch, dirty>>

WaitOver == WaitEnds("wait", "pump")

\* The last pump has found no more messages; a snapshot that is current and
\* still unapplied is taken, and the slide begins.
Reveal ==
    /\ ui = "pump"
    /\ messages = <<>>
    /\ ui' = "loop"
    /\ visibility' = "Showing"
    /\ ApplyRefresh(snapshot.gen)
    /\ reveal' = NoReveal
    /\ UNCHANGED <<desktop, pins, timers, noticed, edits, shows,
                   generation, inFlight, messages, epoch, worker>>

BeginHide ==
    /\ ui = "loop"
    /\ ~OffScreen
    /\ visibility' = "Hiding"
    /\ generation' = generation + 1
    /\ timers' = {}
    /\ UNCHANGED <<desktop, pins, row, tiles, ui, reveal, noticed, edits, shows,
                   inFlight, snapshot, messages, epoch, dirty, worker>>

\* The end of the slide in AdvanceAnimation.
SlideEnds ==
    /\ ui = "loop"
    /\ \/ /\ visibility = "Showing"
          /\ visibility' = "Visible"
          /\ timers' = timers \cup {"refresh", "deferred"}
       \/ /\ visibility = "Hiding"
          /\ visibility' = "Hidden"
          /\ timers' = timers \cup {"refresh"}
    /\ UNCHANGED <<desktop, pins, row, tiles, ui, reveal, noticed, edits, shows, shared, worker>>

\* A change of the tray, the clock or the screen lays the row out again.
OtherLayout ==
    /\ ui = "loop"
    /\ tiles' = TilesOf(row)
    /\ UNCHANGED <<desktop, visibility, pins, row, timers, ui, reveal, noticed, edits, shows,
                   shared, worker>>

-----------------------------------------------------------------------------
(* The job, on the catalog worker.                                         *)

WorkerOnly == UNCHANGED <<desktop, uiVars, generation, inFlight, messages, epoch>>

\* WindowCatalog::Refresh enumerates the windows.
Enumerate ==
    /\ step = "posted"
    /\ step' = "enumerated"
    /\ job' = [job EXCEPT !.open = open]
    /\ UNCHANGED <<snapshot, dirty>>
    /\ WorkerOnly

\* The epoch is read after the windows, and the row is built.
ReadEpoch ==
    /\ step = "enumerated"
    /\ job' = [job EXCEPT !.epoch = epoch]
    /\ step' = IF RowOf(job.pins, job.open) = job.row /\ ~job.retry THEN "same" ELSE "differs"
    /\ UNCHANGED <<snapshot, dirty>>
    /\ WorkerOnly

\* Nothing has changed: the epoch is compared ...
CompareEpoch ==
    /\ step = "same"
    /\ step' = IF epoch = job.epoch THEN "clean" ELSE "end"
    /\ UNCHANGED <<job, snapshot, dirty>>
    /\ WorkerOnly

\* ... and the flag is cleared, two separate accesses.
ClearDirty ==
    /\ step = "clean"
    /\ step' = "end"
    /\ dirty' = FALSE
    /\ UNCHANGED <<job, snapshot>>
    /\ WorkerOnly

\* The generation checks between the icons and after them.
IsCurrent(g) == g = generation

CompareGeneration ==
    /\ step = "differs"
    /\ step' = IF IsCurrent(job.gen) THEN "store" ELSE "end"
    /\ UNCHANGED <<job, snapshot, dirty>>
    /\ WorkerOnly

Store ==
    /\ step = "store"
    /\ step' = "post"
    /\ LET new == RowOf(job.pins, job.open)
       IN  snapshot' = [gen |-> job.gen, row |-> new, layout |-> LayoutChanged(new, job.row),
                        running |-> RunningChanged(new, job.row), epoch |-> job.epoch,
                        kept |-> TRUE]
    /\ UNCHANGED <<job, dirty>>
    /\ WorkerOnly

Post ==
    /\ step = "post"
    /\ step' = "end"
    /\ messages' = Append(messages, job.gen)
    /\ UNCHANGED <<desktop, uiVars, generation, inFlight, snapshot, epoch, dirty, job>>

\* A mutant: the job returns without clearing m_refreshInFlight.
MutJobEndsInFlight ==
    /\ step = "end"
    /\ step' = "idle"
    /\ job' = NoJob
    /\ UNCHANGED <<desktop, uiVars, shared>>

\* RefreshScope's destructor.
JobEnds ==
    /\ step = "end"
    /\ step' = "idle"
    /\ inFlight' = FALSE
    /\ job' = NoJob
    /\ UNCHANGED <<desktop, uiVars, generation, snapshot, messages, epoch, dirty>>

JobStep == Enumerate \/ ReadEpoch \/ CompareEpoch \/ ClearDirty \/ CompareGeneration
           \/ Store \/ Post \/ JobEnds

-----------------------------------------------------------------------------
User ==
    \/ \E a \in Apps : Pin(a)
    \/ \E i \in DOMAIN pins : Unpin(i)
    \/ \E i, k \in DOMAIN pins : CompleteDrag(i, k)
    \/ IconsResized
    \/ RefreshAfterClick
    \/ BeginShow
    \/ BeginHide
    \/ OtherLayout

Interface ==
    OnWindowEvent \/ OnApplyMessage \/ OnRefreshTimer \/ OnNoticed \/ OnDeferredTimer
    \/ DrainEnds \/ Rerun \/ WaitOver \/ Reveal \/ SlideEnds

Next == (\E a \in Apps : WindowChanges(a)) \/ User \/ Interface \/ JobStep

Spec == Init /\ [][Next]_vars

\* The message loop runs, timers fire, the slide is drawn, the worker runs.
Fairness ==
    /\ WF_vars(OnWindowEvent) /\ WF_vars(OnApplyMessage) /\ WF_vars(OnRefreshTimer)
    /\ WF_vars(OnNoticed) /\ WF_vars(OnDeferredTimer)
    /\ WF_vars(DrainEnds) /\ WF_vars(Rerun) /\ WF_vars(WaitOver) /\ WF_vars(Reveal)
    /\ WF_vars(SlideEnds)
    /\ WF_vars(JobStep)

FairSpec == Spec /\ Fairness

-----------------------------------------------------------------------------
(* Properties.                                                             *)

Rows == [pins : Seq(Apps), open : SUBSET Apps]
Tiles == [pins : Seq(Apps), unpinned : SUBSET Apps, dots : SUBSET Apps]
Snapshots == [gen : Nat, row : Rows, layout : BOOLEAN, running : BOOLEAN, epoch : Nat,
              kept : BOOLEAN]
Jobs == [gen : Nat, pins : Seq(Apps), row : Rows, retry : BOOLEAN, open : SUBSET Apps,
         epoch : Nat]
JobPoints == {"idle", "posted", "enumerated", "same", "clean", "differs", "store", "post", "end"}

\* Type invariant; a job is in flight exactly while the worker is not idle.
TypeOK ==
    /\ open \in SUBSET Apps
    /\ event \in BOOLEAN
    /\ visibility \in {"Hidden", "Showing", "Visible", "Hiding"}
    /\ pins \in Seq(Apps)
    /\ row \in Rows
    /\ tiles \in Tiles
    /\ generation \in Nat
    /\ inFlight \in BOOLEAN
    /\ snapshot \in Snapshots
    /\ messages \in Seq(Nat)
    /\ epoch \in Nat
    /\ dirty \in BOOLEAN
    /\ noticed \in BOOLEAN
    /\ timers \in SUBSET {"refresh", "deferred"}
    /\ ui \in {"loop", "drain", "rerun", "wait", "pump"}
    /\ reveal \in [dirty : BOOLEAN, fit : BOOLEAN, late : BOOLEAN, moved : BOOLEAN]
    /\ step \in JobPoints
    /\ job \in Jobs
    /\ changes \in Nat /\ edits \in Nat /\ shows \in Nat
    /\ inFlight <=> step # "idle"

\* The row always shows the pins in force, in their order: no refresh that
\* began before an edit brings the old pins back (the generation checks of
\* BeginBackgroundRefresh and ApplyBackgroundRefresh).
RowShowsPins == row.pins = pins

\* A dirty dock that is revealed in time shows the windows as they are: the
\* refresh CatchUpHiddenCatalog begins is compared with the row on display
\* and applied before the first frame, tiles included ("so BeginShow already
\* has the correct width/icons") unless they were wrong to begin with.
DirtyRevealIsFresh ==
    [][(ui = "pump" /\ ui' = "loop" /\ reveal.dirty /\ ~reveal.late /\ ~reveal.moved)
       => /\ row' = RowOf(pins, open)
          /\ reveal.fit => tiles' = TilesOf(row')]_vars

\* When windows and pins have stopped changing, the row lists what is open.
RowCatchesUp == <>[](row = RowOf(pins, open))

=============================================================================
