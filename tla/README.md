# HoverDock in TLA+

HoverDock is a Windows dock written in C++ (`src/src`). It hides at the bottom of
the screen, mirrors the running windows, and has a Search panel that answers
from its own index of every file name on the fixed volumes and can ask an AI
service. One process does all of it on a handful of threads: the interface
thread owns the windows and their state; index, search, catalogue, hotkey and
request threads talk to it through locks, atomics, events and posted messages.

This directory models the parts where those threads meet, and the index whose
invariants every search relies on. TLC checks each part on small instances;
TLAPS proves the most important invariants for every value of the constants.

To check a module: `tlc -config <cfg> <module>`, with the pairs listed under
[Runs](#runs); to check the proofs: `tlapm <module>Proofs.tla`.

## The system

| Part | Source | State | Operations | Modules |
|---|---|---|---|---|
| Search service | `FileSearch.h/.cpp` | index, request slot, app list, status, the atomics `m_stop`, `m_rebuild`, `m_active`, the event `m_wake` | `Start`, `Stop`, `Query`, `Restart`, `SetActive`, `SetApps`, the loops of the two threads | `FileSearchService` |
| File index | `FileSearchIndex.h/.cpp` | entries, slots, ranked region, record map, zones, generation, dead bytes | volume building, aliases, markers, `Upsert`, `Remove`, `RecomputeZones`, `Reorder`, `CompactIfWasteful` | `FileIndexOps`, `FileIndex` |
| Ranked search | `FileSearchIndex.cpp` | `SearchState`, the top of each thread, the shared threshold | `Search`: probe, cut, whole-name phase, fan-out, merge, narrowing | `RankedScan` |
| Volume readers, journal | `FileSearch.cpp` | journal position, crawl stack | `EnumerateMft`, `BuildFromCrawl`, `PollJournals` | `VolumeSync` |
| MFT helper | `FileSearch.cpp`, `DockSearch.cpp` | the attempts of a build, scheduled task, helper process, pipe, the offer to the user | `BuildIndex` and its builders, `RunMftDumpHelper`, `RegisterMftTask`, `RequestMftAccess` | `MftAccess` |
| Search panel and AI mode | `DockSearch.cpp`, `GroqClient.*`, `AiAttachments.*` | mode, text, rows, request id, AI session, attachments, entries | key and mouse handlers, replies, AI updates, images | `SearchPanel` |
| Search hotkey | `SearchHotkey.*` | the thread, its queue, the chord | `Start`, `Stop`, `SetSuspended`, the loop | `SearchHotkey` |
| Worker | `StaWorker.h` | queue of jobs, stop flag, wake event | `Post`, `Stop`, the loop | `StaWorker`, `JobQueue` |
| Catalogue refresh | `DockApp.cpp` | row, tiles, pins, generation, snapshot, dirty flag, epoch | window events, the refresh job, pin edits, reveal, hide | `CatalogRefresh` |
| Gestures on the tiles | `DockApp.cpp` | pins, shelf of tiles, members of a press and a drag, context menu, capture | button handlers, deferred release, drag, drop, glide back, menu, pin, unpin, refresh, hide | `DockGestures` |
| Updater | `Updater.*`, `DockApp.cpp`, `main.cpp`, `DockConfig.*`, `installer/` | two copies of the program, the release feed, the record of an install in `Dock.ini`, the detached savers, the helper script, the mutex | check, choose, download, launch, record, exit, replace, relaunch, reconcile | `DockUpdate` |
| Performance mode | `PerfBoost.*`, `DockApp.cpp` | the processes, the judgment, what was closed | snapshot, judge, disable start-up entries, close, terminate, confirm, report | `BoostRun` |
| Reveal | `DockApp.cpp` | visibility, mouse hook, cursor timer, overlays, flyout hold | pointer, foreground and timer handlers, show, hide, drag, popup, search | `DockReveal` |
| Taskbar and wake repair | `DockApp.cpp` | what Explorer shows and reserves, the saved settings and rectangles, the layout snapshot | suppress, monitor, restore, sleep, lock, wake, display change, quit, crash | `TaskbarTakeover` |
| Bluetooth | `Bluetooth.*`, `DockApp.cpp` | job queue, cancellation, guard, helper threads, watcher inbox, snapshot, the page's rows | connect, disconnect, pair, radio, search, refresh, stop, publish, apply | `BluetoothLink` |
| Media controls of Quick Settings | `QuickSettingsPanel.cpp` | `MediaBridge` (snapshot, holds, requests), the worker's session, the panel's copy | events of players, requests, pick, read, publish, refresh, click | `MediaSession` |
| Groq client rounds | `GroqClient.cpp`, `GroqProtocol.cpp` | conversation, tool calls, retries, stream parser | | planned |
| Badges, sound and network pages of Quick Settings, temperatures, speed test, weather, typing insights | `NotificationBadges.*`, `QuickSettingsPanel.*`, `SystemTemps.*`, ... | a snapshot published by a worker | poll, publish | planned, later |
| Window catalogue, installed apps, tray mirror | | results of Windows interfaces | | inputs of the models |
| Renderer, layout and easing, markdown, format of the settings file | | | | not modelled |

How they meet:

* The panel calls `Query`, `SetActive`, `SetApps` and `Restart`; the service
  answers with posted messages (status, reply, metadata), which carry the
  request id the panel compares. The catalogue of applications comes from a
  detached thread and changes under both.
* The index thread builds a `FileIndex` privately, swaps it in under the index
  lock, and then edits it in place from the change journal; the search thread
  reads it under the same lock with a cache (`SearchState`) of its own.
* The dock window posts refresh jobs to a `StaWorker`; a job ends by storing a
  snapshot and posting its generation; edits of the pins and reveals meanwhile
  make it stale.
* An AI question runs on a detached thread that shares a session with the panel
  and posts one coalesced update at a time.
* The hotkey thread owns Ctrl+Space and takes its orders from messages.
* A check for updates and a boost run on detached threads behind one latch each,
  and end with a posted message. An update goes on in other processes: the
  helper script, the installer and the next dock, which reads in the settings
  file what the last one tried.
* A build of the index may ask an elevated helper, which a scheduled task starts and
  which outlives the build and the dock; registering the task restarts the build.
* The media worker is told by players, by clicks and, while Quick Settings is open,
  by the clock; the panel copies its snapshot and changes it at a click.
* The pointer reaches the dock by a hook, a timer and foreground events, each of
  which stops at times because another one is there.
* A press holds the number of its tile, a drag that of a pin, a menu both; the catalogue
  worker, an unpin and the tray change what these numbers mean while they are held.
* Explorer answers what the dock does to its taskbar on its own time, and dies.
* The Bluetooth worker, the audio driver, threads that toggle a service, and the
  watcher of WinRT all change one link; the panel sees the worker's snapshot.

What is hard, and what therefore decides what is modelled first: signals that
may be slept through; answers, catalogues and snapshots that arrive after what
they were computed for has changed; flags read and cleared in two accesses;
index structures that point at each other and are edited from six places; a
scan that is cut early on several threads and must nevertheless be exact; a
volume that changes while it is read; a text box lent to the entry of a secret;
threads that end while they are being started; a program that replaces its own
file and may die at any step of it; settings of Windows that are taken and must
be given back; a driver that does what was asked after the asker has given up.
`PROJECT.json` lists each one at its line under `hazards`.

## Modules

**FileSearchService** — the three actors of the search engine, one step per
locked section, atomic access, `SetEvent`, `PostMessage` or wait. The interface
thread is inside one handler at a time (`uiPc`), the threads walk their loops
(`ixPc`, `srPc`). An index is its build number, its generation counter and
whether the build saw the elevated task. A build may fail and a journal may
wrap; both are bounded. Posts to the message queue do not fail in the model.
A step of the user, a new catalogue and a grant are bounded by `Bounds`: one of
its records is chosen at the start, so one run covers several kinds of
disturbance without their product.

**FileIndexOps**, **FileIndex** — every function of `FileIndex` that changes it,
as an operator on the record of its arrays, and the state machine of their
legal calls: a build (volume, records, finish, aliases, markers, zones), then
updates and compactions. Slots are numbered from 1 and 0 is `kNone`. A name is
its length, its kind by extension and whether it is reserved; the score is
computed with the constants of the source, so ties and orders are real.
`Wrap` is the width of the generation counter.

**VolumeSync** — an NTFS volume (external: records, a tree, a journal) against
the two readers and the poll, using the operators of `FileIndexOps`. A step is
one MFT record, one folder listing, or one poll. A node of the volume is hidden when
its attributes have one of the crawl's `kSkip` (hidden, system, reparse point); the
crawl adds such a folder but never lists it (`FileSearch.cpp:878`), nor one that can
not be opened (`:860`). The history variable `torn` holds what the readers passed over
or do not follow (see [Known limits](#known-limits)).

**RankedScan** — `FileIndex::Search` on a fixed index: the scan of a range, the
cut and the whole-name phase past it, the probe, chunks taken by several
threads, the shared threshold read at any time, the merge, and the narrowing of
the previous matches. What a name earns for a query (token points, whole-name
bonus, room by its length) is a constant of the run; the rest is arithmetic of
the source.

**SearchPanel** (with **MCSearchPanel**) — the panel, its text and entries, its rows, the AI session
and the images; the threads that answer it are steps of their own and their
messages arrive in any order. Only `Snapshot` of a session takes two steps,
because the worker may publish between them. One live search request is enough:
older replies are dropped by id, which is what `FileSearchService` checks.

**SearchHotkey** — the interface thread, the hotkey thread with its message
queue that exists only after its first `PeekMessageW`, and the other
applications that may hold the chord. `Start` may give up wherever the thread is.

**JobQueue**, **StaWorker** — the promise of the worker (jobs in order, none
lost, `Stop` after the last one) and the worker with its mutex and event;
`StaWorker` refines `JobQueue`.

**CatalogRefresh** — window events, the job's enumeration, epoch, comparisons
and snapshot, the message, pin edits, drags, the reveal with its bounded waits
and the hide. The order of unpinned tiles and icons are abstracted; the
throttle of refreshes is a step that is not taken; timers act only when no
posted message waits, as in Windows.

**DockGestures** (composed with CatalogRefresh in **MCCatalogRefresh**) — the buttons
of the mouse over the shelf of tiles. The record `hand` holds the members of a press and a
drag, and each handler composes the functions the code calls on them (`ClearPress`,
`LetGo`, which sends `WM_CAPTURECHANGED` at once, `Remap`). What is posted is handled
before input and timers last, as in Windows. A shelf is computed as the code does, with
the new windows in any order. `Upset` bounds what comes between: a stall, a hide, a stolen
capture, a refresh, a menu, a hook the system did not wait for.

**DockUpdate** — two copies of `Dock.exe` (portable and installed), the feed, the
dock that holds the mutex, its check thread, the file `Dock.ini` with the savers
that write it, the helpers (the installer, or the batch file that moves the new
file over the old) and the clock. The gap between the start of a helper and the
record of it is a state of its own, because a crash in it decides whether the
next dock knows. A version is a number, and what a release's asset really is
(`asset`) may differ from what the feed says. A synchronous save is atomic; an
empty or cut file loads as `Defaults`; the clock is not set back; a failing
`ShellExecute`, an untrusted path and a release without an asset are left out.

**BoostRun** — the boost's thread from its snapshot to its report, against
processes that start, exit, reuse ids and change their windows. A process has an
identity besides its id. The judgment runs on a thread of its own; one that
outlives its budget stays (`late`) while the boost goes on. The turn of one target in
`CloseTargets` is three steps, and the processes go on between them: the check of the
live image (`CheckOne`), the look for the windows of its id (`LookOne`), and the second
`OpenProcess` and `TerminateProcess`, either of which may fail (`KillOne`); the turn of one
process in `EndAssociatedProcesses` is two (`EndOne`, `EndActs`). `turn` is the target
being handled and what was the newest process at its check; `blind` records that the snapshot
that confirms who exited failed (`Confirm`).

**DockReveal** — the fields of `DockApp` that decide whether the dock is up are one
record, `dock`, and every handler is a function of it. Messages that may wait
are variables beside it: the newest pointer message, a foreground event, the
re-reading of the cursor watch. A pixel is hot, over the pill, or away, on one of
two monitors. A slide is its last frame; a context menu is a popup.

**TaskbarTakeover** — the record `desk` holds Explorer's side (bars shown, flat or
tall, auto-hide, work areas, whether it lives) and the dock's (what it saved, the
monitor and its cadence, the repair of windows after a wake). `Tempers` are the
Explorers the code was written against: one that gives way, one that takes its
strip back for ever, one that keeps rectangles it does not show.

**BluetoothLink** — the worker's queue and loop step by step, the cancellation of a
job by a newer click, the guard after a disconnect, the helper threads that
toggle a service, the watcher, refresh with its retries, and the page: click,
optimistic row, notification, copy. `BtScenes` says for each behaviour what the
user and the world do, and how often.

**MftAccess** — one build of `IndexThread` attempt by attempt (in the dock, by
the helper, by a crawl), the pipe between the reader and the dump helper chunk by
chunk, the helper's life in the Task Scheduler, and the row that registers the
task. Helpers end on their own time, so one may write to the pipe of a later
build or a later dock. A volume's records are a few batches; an enumeration may
be denied, fail before it is announced or in the middle.

**MediaSession** — players (external: they start, close, pause, change the
track, skip events, are slow or refuse), the media worker loop with its wait, its
wake-ups and its poll, and the panel. A position is its start or elsewhere. The
history variable `meant` holds what the last click showed, as long as nothing
outside the dock makes it void.

**MCBackground**, **MCDock**, **MCPanels** put parts that share no state into one run:
a behaviour picks a part and steps only that one, so the state spaces add up and
fairness is asked for where the part steps.

In each module, operators named `Mut...` are small faults (a dropped guard, a
missing reset, a swapped order) that are not used by the specification; each
property was seen to fail when the operator that follows one is replaced by it.

## Runs

| Run | Module, cfg | What it shows |
|---|---|---|
| search_safe | MCFileSearchService, `FileSearchService_safe` | `RestingPanelIsFresh`: when every thread rests, an open panel shows the answer to its newest text from the published index and catalogue. `AppRowsMatchCatalogue`, `DetailsMatchRows`: an accepted reply fits the catalogue and the rows it meets. `SignalsAreHeard`: no stop, restart or activation is slept through for 30 seconds or five minutes |
| search_live | MCFileSearchService, `FileSearchService_live` | `StopReturns`; `RequestsAreServed`: the newest query is answered (`NewestIsAnswered`) and a grant reaches the published index (`GrantTakesEffect`), under fair threads |
| search_cache | MCFileSearchService, `FileSearchService_cache` | violation: matches of the index before a rebuild are narrowed in the new one |
| index | MCFileIndex, `FileIndex_life` | `IndexIsConsistent`: entries and slots agree, the counts balance, records find live entries; the ranked region descends, excluded names are unlisted, every change of the slots changes the generation |
| index_zones | MCFileIndex, `FileIndex_zones` | violation: what lies in a moved folder keeps the zone of its old place |
| sync | MCVolumeSync, `VolumeSync_followed` | `IndexFollowsVolume`: once the journal has been read to its end nothing is missed and nothing is stale, names, folders and attributes, but for what was `torn` |
| scan | MCRankedScan, `RankedScan_scan` | `ResultIsTheRanking`: the answer is that of a full ranking, and a count called exact is; `KeptForNarrowing`: what is kept for the next query is exactly the matches of the covered slots |
| catalog | MCCatalogRefresh, `CatalogRefresh_row` | catalogue: `RowShowsPins`, `DirtyRevealIsFresh`, `RowCatchesUp`. Gestures: `GesturesAreClean` (one press does one thing, to the tile that was pressed, and no ghost, capture or press is left behind), `TilesCarryTheirPins` (the pin number of every tile is that of its own pin, and no program has two tiles) |
| panel | MCPanels, `Panels` | search: `KeyStaysInEntry`, `StreamsAreOwned`, `WaitsForAnImage`, `RestingPanelAgrees`, `AnswerIsShown`. Bluetooth: `LinkIsConsistent` (with types, `NewestIntentWins`: a link that rests is what the newest click asked, whatever superseded jobs left in the driver), `PanelCatchesUp` |
| panel_reopened | MCSearchPanel, `SearchPanel_survives` | violation: a reopened answer is taken away by the catalogue |
| background | MCBackground, `Background` | worker: `KeepsPromise` (refines `JobQueue`). Hotkey: `ChordFollowsFocus`. Update: `LoopIsBounded` (helpers started for a version in a day: three, and three more for each click, crash and, unless its asset is stale, dock started), `UpdatesEndWell` (a check ends and opens its latch, the dock returns, a release arrives). MFT access: `IndexIsOfOneAttempt`. Media: `ClicksAreKept` (what a click showed stays until it is confirmed or times out, and is what the player ends up doing). `ThreadsDeliver`: every job runs, stops return, builds and helpers end, granted access is used, an open panel comes to show the players |
| dock | MCDock, `Dock_parts` | reveal: `OverlayFollowsDock`, `PointerIsHeeded`. Taskbar: `QuitGivesBack`. Boost: `TargetsAreRespected` (but for a process that takes over an id after its check), `ReportedAreGone` (but for a failed snapshot). `RestsAgain`: the flyout hold, the fast timer and the boost end, the fight for a shown bar ends (`BarsSettle`), pulled windows come back (`PulledWindowsReturn`). `DockTypeOK`: the types of the three parts |

### Bounds

* search_safe: three requests (typed, cleared, closed and opened again); two with
  one new catalogue; one failed or wrapped build; one grant. Two requests are the least with a stale reply, one
  rebuild the least with a stale index. search_live leaves one request or one
  rebuild with one journal update and one grant: its properties are about
  waiting, which one of each already meets.
* index: builds of up to four entries over four records with directories,
  hidden and reserved names, a metadata record and one marker, so cycles,
  orphans, and aliases occur; updates of three records with two names of
  different length and score and up to four slots, enough for a rename inside
  the ranked region, a reused record and a compaction. `DepthCap`, `FreeDepth`,
  `WasteBytes` and `Wrap` are small so that they are reached.
* sync: six records (home folder, folder with a file, another folder, a free
  record), in three volumes: the folder inside the home folder, beside it, or inside it,
  hidden, and with the other folder and the file nested in it. Two changes of any kind
  (creating, renaming, moving, hiding and showing, deleting, writing) during and after
  the read, three in the first volume without hiding and writing. `shuts`: folders may
  refuse to be opened, where two changes are crawled. A change during the read and one
  after it, on the same file and on its folder, all occur.
* scan: five sorts of names against three bases; a limit of two (one where the
  probe is checked), two threads, chunks of one or two. Cuts by ties, truncated
  lists and narrowing after a cut occur; two searches one after the other are
  what narrowing needs.
* catalog: two pins, two events (window changes, edits of the pins), one reveal, one
  message waiting when a click begins a refresh. Gestures: two pins and a third program, two
  presses, two upsets. Two presses are the least with a release of one met by the next, two
  upsets the least with a menu opened under a drag.
* background, worker: four jobs, with and without an event (the event may fail to
  be made). Hotkey: four changes of the focus or of the chord's holder.
* background, update: two releases, two days (one cooldown), two starts by the
  user, one click on the switch, one crash, three of all these together. That is enough for a crash
  in the gap, a late saver and a restart to meet; the bound of `LoopIsBounded` is
  reached without trouble (3) and with one trouble (6).
  `SlowExit = FALSE`: a dock exits before helpers tire of waiting.
* background, access: two volumes of two batches, a pipe of two chunks, two
  failures, two docks, and users whose helper can open all or nothing, next to an
  elevated dock that can open one volume or both. Two docks are the least with a
  helper of another dock; two failures with a helper of an attempt that gave up.
* background, media: two players of which one cannot toggle, two clicks, and either
  nothing else, one player that moves by itself, or one failure. Two clicks are
  the least with a second one before the first is carried out.
* dock, boost: two process ids, tables of a program with a helper and of a
  program with a protected one, two changes of the world, so an id is reused
  after its process was judged, and after it was checked; any snapshot may fail.
* panel, search: one text, at most two of: AI questions, images, changed
  catalogues. The limit of three images is not reached.
* panel, Bluetooth: ten scenes (audio, other and low-energy devices, paired or
  not, page open or not, a click for the link beside a search that fails) of up to
  three clicks, one outside change, one fault, the code's three retries. Three clicks are the least with a job superseded
  while one it superseded is still in the driver. `SlowDriver = FALSE`: the
  driver is done within the code's waits.
* dock, reveal: six scenes over five pixels on two monitors; the pointer does not return to
  the pixel it posted last (`SamePixel`, see known limits); one still sample for the
  timer to calm, of ten.
* dock, taskbar: two bars, three Explorers, four troubles (starts, deaths,
  displays, sleeps, locks), two calm passes of five and two repair passes of forty. Larger
  counts lengthen waits, and nothing else depends on them.

Deadlock is not checked where the dock really ends or everything bounded has
happened: background, scan, panel and dock.

### Fairness

Mostly weak fairness, of what Windows schedules: runnable threads run, the message
loop dispatches what is queued, a wait with a time limit ends, a job of the
worker ends, a timer that is set fires, a helper script reaches its end. Nothing
is assumed of the user, of other applications, of the volume, of detached threads that collect a catalogue, or
of a network that answers an AI question. `AnswerIsShown` assumes the posted
update and its handler only; `StopReturns` of the hotkey both threads and
that the thread has a queue. Strong fairness is used where a step is ready again
and again between others: an offered update that downloads and launches when it
is tried each day (`UpdateArrives` is about the dock, not about a network that
is down for ever), the release of a held button between ticks, and the ageing of
the paired list between refreshes. The media part assumes that the panel's timer
fires, the poll interval and the holds run out, and that a slow player acts at last. The waits of Bluetooth have deadlines.

## Proofs

TLAPS checks them for every value of the constants, under the named assumptions
of each module on its constants, which only give constants their types (and say,
for `BoostRun`, that the first processes have identities of their own, and for `MftAccess`
that the machine has a volume and each is listed once: `FixedNtfsVolumes` goes
through the drive letters; for `RankedScan`, what a name can earn).

* `FileSearchServiceProofs`: `TypeCorrect`. `SignalsHeard`, by the stronger
  facts `StopInv` and `RestartInv`: after its `SetEvent`, a stop (or a pending
  rebuild) keeps the event signalled until the index thread is at a point from
  which it can only reach the test of the flags; the property speaks of the
  waits alone and is not inductive. `AppRowsCorrect`, by `RowsInv`: a request
  id that may be on its way, in the slot, in the thread's hands or in the
  queue, is not above the newest id, and a reply with the newest id was
  computed from the installed catalogue, because every change of the catalogue
  of an open panel takes a new id. The step lemmas are cut by what a step does to
  ids: leave them, take a new one, or post.
  `RestingPanelFresh` and `DetailsMatch` (`RestingPanelIsFresh`, `DetailsMatchRows`) by
  `AnswerInv`. The newest request has one answer (`OneAnswer`): what the queue holds
  of it is its names and, after them or once they are displayed, its details. An
  answer of an older index or status exists only while a status message is posted or
  about to be (`DataInv`), which takes a new id; and the request of a panel with text
  waits, is worked on, is in the queue or is displayed (`ServedInv`), because a turn is
  dropped only for a newer request (`SlotIsNewer`).
* `ShelfProofs`, of the two parts that `MCCatalogRefresh` composes. Theorems of `Spec`:
  `TypeCorrect`, with at most one job in flight, and
  `PinsShown` (the row always shows the pins in force), by `PinsInv`: a job, a
  snapshot or a message of the present generation carries the present pins, and
  once the present generation is announced nothing older follows it, which is
  what a late message that finds another job's snapshot needs.
  Theorems of `GesturesSpec`: `GesturesInvHolds`, `CleanGestures`, `PinsAreCarried`. The
  invariant says that the row is the pins in their order and then the loose tiles,
  all distinct, that every index held by a press, a menu or a posted click is one
  of the row or is cleared with it, and that the deeds of a press are those of the
  tile pressed; neither property says enough of the row to be kept by a rebuild.
* `BackgroundProofs`: theorems of the composition, `BackgroundSpec`; each part
  steps or is left alone, so the invariant of a part is one of the whole.
  `ChordIsRight`, by `HotkeyInv`: the last message on its way to the thread is what
  it was last told, and before the thread reads any the chord it registered is its own.
  `UpdatesAreBounded` (`LoopIsBounded`), by an account of what may have lost the
  record. `Spare(v)` counts what has been lost already: clicks and crashes, less
  the saves that may still write an old record, and, for a version whose asset is what it
  says, the docks started, less those still to come and the one that may still try.
  `Claim` says that the installs of a version that is live (nothing newer was
  installed today) are three for each loss, those its record counts, and the one
  started and not yet recorded. It is kept for the running configuration and for the
  file when no save is cut short; a dock that ends turns what its savers had pending
  into losses. Only a live version is accounted for: the record holds one version,
  and `RecordInv` says why the one it forgets has none to count. `BuildsUpTo` bounds
  the copies by the newest release, less one for a stale asset: a copy that clears the
  record of a stale asset's version cannot exist, one that clears a good one's is
  what an install of it made, or a newer copy beside an older that is still tried.
  `IndexIsSound` (`IndexIsOfOneAttempt`), by `AccessInv`: a function gives each chunk in the
  pipe the place in the list of volumes that the stream has reached after it; it begins
  where the reader is and ends where the helper is, if that helper still holds the
  pipe. So a volume is announced once and in order, at most its batches follow, and what
  an old helper left unsaid cannot reach the pipe of a later attempt.
  `ClicksHold` (`ClicksAreKept`), by `MediaInv`: the commands the worker has taken and
  those that wait, done one after the other on the player as it is, end in what was
  meant, and say so from the last toggle on (`Takes`). So a snapshot that says otherwise
  was read before a toggle that is still to come, and then the hold is on.
  `BackgroundTypesHold` puts the types of the parts together.
  First in the module, of `StaWorker` alone: `TypeCorrect` and `Implements`: every step of
  the worker is a step of `JobQueue` or leaves its variables unchanged. The mapping takes the
  job being run and the queue for `waiting`; the invariant counts posted jobs as
  run, running and queued, and ties the two threads' positions together.
* `FileIndexProofs`: `Consistent` (`IndexIsConsistent`), `Descending`, `Unlisted` and
  `GenerationFollowsSlots`, by `IInv`. Its first part, `Sound`, is of any index: entries and
  slots own each other, the two counts are sums over the arrays, the record map is
  one-to-one into live entries, the ranked region descends. Each operation of the index keeps it,
  by a lemma of its own, so a journal record, a move to the tail, a compaction or a
  rebuild may come in any order. The rest says what a phase needs: while records are
  added those before `firstPending` are linked (`Building`), then every parent is an entry
  (`Linked`, which the walk of `RecomputeZones` relies on), then the score of a live slot
  tells whether it is listed (`Listed`). That a score is never the sentinel by chance takes
  the clamp in `BaseScore`: names and depths have no bound here. `Reorder` is the one hard step:
  places counted by `Before` are a permutation of the live slots, so no name is lost and two
  entries never share a slot. The sums of `MapThenSumSet` and the recursion of
  `RecomputeZones` are functions that satisfy an equation; that such a function exists, and that two agree where
  their arguments do, is shown by induction as a set of numbers that has 0 and
  successors.
* `SearchPanelProofs`: `TypeCorrect`, `KeyIsSafe`, `StreamsOwned`, `WaitIsFounded`
  from one invariant in parts (the box, the sessions, the images, and what joins
  them), with one lemma for each operator that handlers share.
  `PanelAgrees` (`RestingPanelAgrees`) adds `RequestInv`: the live request is for the
  text of the box, or the text an entry has put aside, and an answer has none; so
  every way back to the search asks again, clears the rows or shows a notice.
* `DockProofs`, of `MCDock` and the parts it composes. `StopGivesBack` (`QuitGivesBack`),
  by `TakeoverInv`: while no exit was a crash, nor one without Explorer, the setting
  is the user's when no dock runs and is what the running one has saved (`AutoIsOwed`); no
  rectangle is lost when Explorer does not flatten, and a dock that has met nothing but its own start
  holds all of them (`BarsAreOwed`), which needs that such a dock has no hold, no repair
  and no broadcast to answer. The handlers are long compositions of few calls: each call is shown once
  to leave the debts alone (`Stays`), but for saving the setting (`Suppressed`) and
  giving it back (`Restored`). Of the boost: `BoostTypesHold`, `ReportIsTrue`, `OnlyTargetsAreClosed`. An id
  says little, so the invariant speaks of identities: a process with the
  identity of a target still is its program, what has left never returns, and
  what is in `counted` is no process any more. Between the check of a target and what is done
  to it, its id has the program that was checked, nobody, or a process that started since
  (`Checked`), which is all `OnlyTargetsAreClosed` can promise; what was attempted and still runs
  was asked to close (`Asked`), which is what is left of the report when the snapshot
  fails. A step of the world is shown once to be
  "later" in that sense, and every step of the boost's thread only has to be
  right for the processes it finds. `DockTypesHold` (`DockTypeOK`) and `DockIsRight`
  carry this and the overlay over to `DockSpec`.
  First in the module, of `DockReveal` alone: `TypeCorrect` and `OverlayFollows`. Handlers are functions
  composed of a few, so the lemmas are about functions: each keeps `Good`, and
  those that touch no field of the claim keep it by being alike on them.
* `BluetoothLinkProofs`: `NewestClickWins` (`LinkIsConsistent`), by `IInv`, for any number
  of clicks, moves of the device, faults and retries. It assumes `~SlowDriver`: without it
  a connect that is given up may end after the disconnect that follows it, and the
  property is violated (known limits). The property speaks of a worker at
  rest and says nothing of how it gets there. `QueueFits` is of what waits: no job in the queue contradicts the
  newest click, what no click asked for comes last, a pairing that waits is followed by a click for the link, and a
  job that was told to stop has its successor in the queue. `ClaimFits` takes over when
  no click for the link waits (`Owed`) and goes from place to place: up to the guard of a
  disconnect the audio stack may still page and a helper may still enable a service; past it nothing is left
  that could connect, and what is left of a connect ends in a link or in an error on the row.
  `PlaceFits` and `HelpersFit` say which place belongs to which kind of job and of device.
  What `Dropping` leaves of a queue and the fold of `Drain` over the events of the
  watcher are shown by induction on numbers, as in `FileIndexProofs`.
* `RankedScanProofs`: `SearchAnswers` (`ResultIsTheRanking`) and `KeptIsExact`
  (`KeptForNarrowing`), by `IInv`, for any index, limit, probe, chunk, number of threads
  and of searches. `ScanAssumption` says what the code owes the scan: no name earns more
  than `ScoreCeiling` leaves it, a match has the anchor token, and a query that extends
  another matches no more than it. The
  properties speak of a search that is over; the invariant has to say what a
  scan that has seen a part of the names knows. `Beaten`: as many hits as the top has
  places are better than this one, so no ranking shows it. `Bounding`: as many hits
  reach this threshold; the last hit of any full top gives one, so it does not matter which
  thread published it or how old it is. `Fits` relates a scan to the slots given to it: its
  top holds or has beaten each of them, its list holds each match once, and past its cut
  what was not listed is beaten unless it has a bonus, which the second phase reads. The
  steps of a scan keep `Fits` (`OneFits`), and two scans of disjoint slots can be added
  (`GainsFit`): `ThreadsFit` says that the chunks divide the region, so the join is
  the scan of it all, and the earliest cut of a thread is a cut of the whole. A
  scan that runs to its end is a recursive function of the number of
  steps; what it leads to is shown once, by induction on numbers (`Iterates`).

Model-checked only: all liveness, which is out of the prover's reach, and `IndexFollowsVolume` of
`VolumeSync`, which compares the index with the names that paths of the volume lead to: both
sides are recursive walks, over a volume that changes between the steps of a read.

## Known limits

What the code does that a comment or a reader would not expect. The first three
are runs.

* search_cache: `SearchThread` keeps one `SearchState` for its lifetime
  (`FileSearch.cpp:1266`) and each rebuilt index starts its generation again, so
  the comparison at `FileSearchIndex.cpp:1306` can take the old index's matches
  for those of the new one.
* index_zones: `Upsert` recomputes the zone of the one entry it moves
  (`FileSearchIndex.cpp:650`), while `FileSearchIndex.h:34` says that zones are
  "Inherited by every descendant". A folder moved into the recycle bin leaves
  its contents listed; one restored from it leaves them unlisted, until the next
  build.
* panel_reopened: `OpenSearch` keeps an answer ("An answer (or one still
  streaming) survives closing the panel.", `DockSearch.cpp:737`) and asks for the
  catalogue, whose arrival calls `SearchTextChanged` for a non-empty text and
  leaves the AI mode (`DockSearch.cpp:1678`).
* `torn` in `VolumeSync`: a file written, or a folder renamed, hidden or shown, while the
  MFT is read is left out by `HighUsn` (`FileSearch.cpp:339`); data changes are not in
  `kJournalReasons` (line 35), and a folder comes back with the journal only after names in it
  that found no parent; a folder renamed between the listing of its parent
  and its own is skipped by the crawl although the position was taken "so
  nothing is missed" (line 795); a folder moved into or out of what is indexed is
  one journal record, so its contents are not added, or stay listed
  (`FileSearchIndex.cpp:636`, `:641`). The crawl does not list folders that are hidden, system
  or reparse points (`FileSearch.cpp:878`) nor folders that can not be opened (`:860`): what is in
  them is missing, and stays so when the folder is shown later, until the next build; a name
  created or renamed in them afterwards is followed by the journal. These are the exceptions of
  `NothingIsMissed` and `NothingIsStale`. Beyond the model, and missing as well, are what a
  listing that fails in the middle had yet to return, names of a volume that has no journal
  to follow, and all but one name of a file with hard links.
* A window event between the job's enumeration and its read of the epoch
  (`DockApp.cpp:13344`) is taken for seen: the dirty flag is cleared and the next
  reveal may show the old row. `DirtyRevealIsFresh` starts from the flag.
* The change flags of a job are computed against the row copied when it was
  posted (`DockApp.cpp:13434`). Posted while an earlier snapshot still waits for
  its message, it may skip the layout that the row needs; the tiles then stay
  those of the other row until something lays them out. `DirtyRevealIsFresh`
  says that a reveal of a dirty dock does not make right tiles wrong.
* Rows displayed when a new catalogue arrives hold indexes into the old one
  until their new reply arrives (`DockSearch.cpp:1675`); an Enter in between
  launches by the new list.
* When the last image that a question without text waits for fails or is
  removed, `AskAi` returns at once (`DockSearch.cpp:1757`) and the panel keeps
  saying that it prepares images.
* `SearchHotkey::Start` waits two seconds and does not look at how the wait
  ended (`SearchHotkey.cpp:31`). A thread without a queue by then misses the
  `WM_QUIT` and is joined forever; `StopReturns` is stated of a thread with a queue.

Of the parts beside the message loop and the desktop (some are stated in their
modules as definitions that no run checks, because they do not hold):

* Updates. `ParseApiReleaseBody` (`Updater.cpp:660`) leaves the URL of the plain
  executable empty when a release has a setup asset, so the portable copy is
  offered what `Updater.h:14` and `Updater.cpp:869` prepare for the installed one.
  A detached saver's older snapshot may overwrite the record of an install
  (`DockApp.cpp:7381`), and a newer copy that starts clears the record of what it has
  while the older copy is still offered it (`ReconcileLastUpdate`); `LoopIsBounded` allows for both. A stale asset is installed
  once a day for ever. When the dock exits more slowly than the helper waits
  (`SlowExit`), the move fails and the dock the helper starts leaves at the mutex; an
  installer that aborts on a locked file starts nothing. A `PostMessageW` that failed would leave
  `m_updateInFlight` set. `DockConfig.cpp:1220` writes a literal `\n`.
* MFT access. `WholeDisksOnly`: "All-or-nothing" (`FileSearch.cpp:620`) holds for a
  volume that is denied only. One that fails otherwise, before or in the middle, is
  left out or kept in part (`FileSearch.cpp:645`, `:756`), and the index is published as that of
  whole disks. `OfferedOnce`: a registration that takes more than two minutes is
  taken for refused (`FileSearch.cpp:1388`), so the step is offered again although the
  task exists, and a build by crawl offers it when the helper failed for another reason. A
  failed build leaves the older offer (`FileSearch.cpp:1117`). The task ignores a second
  start (`FileSearch.cpp:1514`), so a helper of an earlier build that still flushes or waits makes the next build
  crawl; `AccessIsUsed` therefore asks that none is in the way.
* Media. With two players playing, a click that pauses one makes the worker show the
  other, whose glyph the hold keeps paused for up to 2.5 seconds; a second click then
  pauses the other player. A player that is told by its state and is slow is told
  "pause" twice. A toggle meant for a state the panel has not seen change does the
  opposite. Clicks queued before `RequestAsync` fails are lost. A snapshot read while the player was
  closed, and published after a click on the player that came back, ends the hold
  (`QuickSettingsPanel.cpp:2520`): the button shows the old state until the next snapshot. `ClicksAreKept`
  excepts exactly these (`Truthful`, and where `meant` is dropped).
* Boost. `HelpersAreSpared`: `PerfBoost.h:22` says that windowless processes that
  share their executable with a windowed process "are never terminated", but the
  pass that enforces it looks at the windows of the candidates only
  (`PerfBoost.cpp:421`, `:876`). `LateAnswerIsHarmless`: the judgment's thread holds
  vectors of a function that has returned (`DockApp.cpp:6358`, `:6452`). Freed memory
  is counted twice; the start-up pass counts without confirming
  (`PerfBoost.cpp:871`), and acts on the name its snapshot had for an id.
  `TakeOversAreSeen`: "Targets are re-validated immediately before closing"
  (`PerfBoost.h:26`), but the handle of the check is closed (`PerfBoost.cpp:459`), the windows are
  looked for by id (`:466`) and the id is opened again (`:484`): a process that took it over in
  between is asked to close or terminated unchecked, and a target that opens a window after the look
  is terminated all the same. `CountIsConfirmed`: the count "reflects reality instead of intent"
  (`PerfBoost.cpp:499`), but a confirming snapshot that fails (`:503`) shows nothing, and all
  that was attempted is counted as closed. `TargetsAreRespected` and `ReportedAreGone` except
  these; TLC finds each of the other two violated.
* Reveal. A pointer that rests where it is when a popup closes, a drag ends or a
  window becomes full screen without an event is not read again until it moves. The monitor's
  tick reinstalls the hook and stops the timer without a sample. `MouseHook`
  posts a pixel once (`DockApp.cpp:3131`), so a pointer that returns to it is not seen
  (`SamePixel`). A hook Windows removed silently is not noticed.
* Gestures. `StallDropsPress`: "drop any in-progress press so a post-stall jitter cannot begin
  an accidental reorder drag" (`DockApp.cpp:14247`). The move that ends a stall calls
  `HandlePointer` first, which takes a sample (`DockApp.cpp:11220`), so the test at
  `DockApp.cpp:4148` never finds the stall and the drag begins; only the cursor timer, if it
  comes before the move, drops the press. `UnpinsWhatWasAsked`: a menu opened by the right
  button while the left one drags keeps the pin number of its tile (`m_contextApp`); the drop
  moves the pins and "Unpin" erases another one (`DockApp.cpp:12212`). A press on a slot of the
  tray is found again by its number alone, so a power slot that comes or goes moves it.
* Taskbar. `EverythingIsRestored`: `RestoreMultiMonitorTaskbars` and
  `RestoreDesktopWorkArea` have no callers, so `MMTaskbarEnabled` and the work area
  stay as the dock set them, against the repository's `README.md:39`. A crash restores nothing
  (`main.cpp` writes a dump), and the next dock saves the auto-hide of the first as
  the user's. A dock that quits while Explorer is dead loses the setting. A second
  suppression records flat rectangles, and `RestoreTaskbar` then ignores the bars
  (`DockApp.cpp:13614`); `QuitGivesBack` therefore asks for shown bars only where
  nothing else happened (`trouble = 1`, the start) or rectangles stay. A hidden
  secondary bar that keeps its rectangle holds the monitor at 100 ms
  (`DockApp.cpp:13835` against `:13983`). `DeliberateMovesStay`: the repair after a
  wake undoes a user's move within its ten seconds. A display change while the
  display is off drops the snapshot; the one taken at a remote disconnect is
  replayed at a later wake; a button held at the last pass loses the repair.
* Bluetooth. What the newest click asked is no longer claimed when the device goes or comes
  by itself (except while the guard of a disconnect lasts), when the radio is switched off, when the
  row is gone, when a pairing is asked for, and when the error is taken off the row: by a
  search, which clears it (`Bluetooth.cpp:2917`), or by an event of the watcher. A newer click that
  still waits keeps its claim. Guard and joins assume a driver quicker than they are; with
  `SlowDriver` `NewestIntentWins` is violated. `PairedIsListed`: one failing query
  of the two that list paired devices is not taken for suspect, and a refresh preempted between them drops
  the low-energy devices without a retry (`Bluetooth.cpp:1102` against `:1852`), after
  which the click that preempted it finds no device. `AudioIsRestored`: a
  toggle cancelled before it enables again leaves the service disabled, and "already
  up" does not enable it. A refused radio or second search keeps its
  optimistic look, because `Publish` sees no change (`DockApp.cpp:9416`). For low-energy devices a
  disconnect is reported and none happens. During a search a row only gains a
  connection. An error outlives a link that comes up later. A failed job queues no
  refresh. A radio click does not pass the queue. A guard is cut short by a
  click on another device. A stop that times out keeps the window it notifies.

## Not modelled

Failures of `PostMessageW` and of memory; shutdown of detached threads; window
creation failure; metadata replies, icons, scrolling and the caret of the panel;
the text functions of the index (folding, tokens, SIMD search); a second registration
of the MFT task while one runs; artwork and the running time of media;
`UINT` wrap of the catalogue generation. Of the gestures: a settings file edited by hand
that pins a program twice, a hook called late, messages pumped inside a launch, a list of tiles
under a popup. Of the dock: how far a slide is, full-screen
claims of windows, remote sessions, the broadcast of a work-area change. Of Bluetooth: several
devices, the Hands-Free policy, hints, a machine without a radio or WinRT, and the
panel that closes while a search runs. Drawing, layout arithmetic, INI and
registry access, and the wrappers of Windows interfaces have no concurrent
state worth a model. The components planned are listed next.

## Plan

1. `MftAccess` as a refinement: an abstract build that delivers what one attempt read,
   which replaces the one-step build of `FileSearchService`.
2. `GroqRounds`: rounds of a request, tool calls, retries with the backup model,
   cancellation at every wait, the incremental stream parser against a
   reference parser over split inputs. Refines the worker of `SearchPanel`.
3. Quick settings: the microphone, whose capture is opened and closed by different
   threads, the cache of the network page and the Wi-Fi radio.
4. Polling workers (badges, temperatures, weather, speed test): one module of
   publish, message and stop with the differences as constants.
5. `DockShutdown`: the order in which `WM_DESTROY` stops hotkey, search service,
   worker and detached threads, composing `SearchHotkey`, `StaWorker` and
   `FileSearchService`.
6. Proofs: the steps of `VolumeSync` that keep what has been read, and the refinements
   of 1 and 2.

Runs to come use the pattern of `Bounds`, `Plans`, `Setups` and scenes: one run for one
question, with the disturbances in a set of records.
