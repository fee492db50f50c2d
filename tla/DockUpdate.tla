----------------------------- MODULE DockUpdate -----------------------------
(***************************************************************************)
(* How HoverDock replaces itself.  Two copies of Dock.exe may exist, one   *)
(* in the install directory and a portable one; at most one runs, by a     *)
(* mutex.  The running dock checks the release feed on a detached thread,  *)
(* downloads an asset, starts a helper (a batch file), writes down what it *)
(* started and exits; the helper waits for that process and then runs the  *)
(* installer or moves the new file over the old one, and starts a dock.    *)
(* What tells the next dock that an install did not take effect is the     *)
(* record in the configuration file, which detached threads rewrite too.   *)
(*                                                                         *)
(* A version is a number; build 0 is a copy that does not exist.  The      *)
(* clock counts days, the cooldown of an install.                          *)
(***************************************************************************)
EXTENDS Integers, Sequences, SequencesExt

CONSTANTS MaxVersion,  \* bound: the releases
          MaxDay,      \* bound: days
          MaxStarts,   \* bound: docks the user starts
          MaxToggles,  \* bound: clicks on "check for updates"
          MaxCrashes,  \* bound: processes that die
          MaxMischief, \* bound: of all these together
          SlowExit     \* TRUE: a dock may take longer to exit than helpers wait

ASSUME UpdateAssumption ==
    /\ MaxVersion \in Nat \ {0}
    /\ {MaxDay, MaxStarts, MaxToggles, MaxCrashes, MaxMischief} \subseteq Nat
    /\ SlowExit \in BOOLEAN

Versions == 1 .. MaxVersion
Copies == {"portable", "installed"}

\* As many reclaims of a failed install as ReconcileLastUpdate grants.
kMaxUpdateRetries == 2

\* kReinstallCooldownSeconds, in days.
Cooldown == 1

VARIABLES
    disk,        \* the build of each copy
    asset,       \* the build the assets of a release really are
    feed,        \* the latest release
    day,
    launched,    \* processes started that have not begun, per copy
    proc,        \* the dock that has the mutex
    ui,          \* "idle", or "record" between the helper's start and its record
    conf,        \* m_config of the running dock
    file,        \* what Load makes of Dock.ini
    saveDue,     \* the timer of ScheduleConfigSave is set
    savers,      \* detached Save threads: their snapshots, and whether they truncated
    inFlight,    \* m_updateInFlight
    installing,  \* m_updateInstalling
    worker,      \* the check's thread
    box,         \* posted messages
    helpers,     \* batch files that run
    tries,       \* history: helpers started today, per version
    spent        \* bounds: what users and faults have done

diskVars == <<disk, asset, feed>>
dockVars == <<proc, ui, conf, saveDue, inFlight, installing, box>>
fileVars == <<file, savers>>
updateVars == <<diskVars, day, launched, dockVars, fileVars, worker, helpers, tries, spent>>

NoRecord == [version |-> 0, time |-> 0, attempts |-> 0]

\* The configuration as far as updates read it; Defaults is also what an empty
\* file loads as.
Defaults == [checks |-> TRUE, record |-> NoRecord]

NoProc == [st |-> "none", copy |-> "portable", ver |-> 0]
NoCheck == [at |-> "none", manual |-> FALSE, guard |-> NoRecord, day |-> 0,
            version |-> 0, setup |-> FALSE, retry |-> FALSE]
NothingSpent == [starts |-> 0, toggles |-> 0, crashes |-> 0]

UpdateInit ==
    /\ disk \in [Copies -> {0, 1}]
    /\ disk["portable"] + disk["installed"] > 0
    /\ asset \in [Versions -> Versions]
    /\ \A v \in Versions : asset[v] <= v
    /\ feed = 1
    /\ day = 1
    /\ launched = [c \in Copies |-> 0]
    /\ proc = NoProc /\ ui = "idle"
    /\ conf = Defaults /\ file = Defaults
    /\ saveDue = FALSE /\ savers = <<>>
    /\ inFlight = FALSE /\ installing = FALSE
    /\ worker = NoCheck
    /\ box = <<>>
    /\ helpers = <<>>
    /\ tries = [v \in Versions |-> 0]
    /\ spent = NothingSpent

Total == spent.starts + spent.toggles + spent.crashes

DockRuns == proc.st = "up"
Idle == DockRuns /\ ui = "idle"

\* Updater::IsNewerVersion.
IsNewer(latest, current) == latest > current

-----------------------------------------------------------------------------
(* A process begins: Run, until its window exists.                         *)

\* A mutant: a reclaim does not use up the budget.
MutReconciled(c, current) ==
    LET r == c.record
    IN  IF r.version = 0 THEN c
        ELSE IF ~IsNewer(r.version, current) THEN [c EXCEPT !.record = NoRecord]
        ELSE [c EXCEPT !.record = [version |-> r.version, time |-> 0, attempts |-> 0]]

\* A mutant: a reclaim leaves the cooldown on.
MutReclaims(c, current) ==
    LET r == c.record
    IN  IF r.version = 0 THEN c
        ELSE IF ~IsNewer(r.version, current) THEN [c EXCEPT !.record = NoRecord]
        ELSE IF r.attempts < kMaxUpdateRetries
             THEN [c EXCEPT !.record.attempts = r.attempts + 1]
        ELSE c

\* ReconcileLastUpdate: the record is cleared when the install took effect;
\* otherwise its time is, while the budget lasts.
Reconciled(c, current) ==
    LET r == c.record
    IN  IF r.version = 0 THEN c
        ELSE IF ~IsNewer(r.version, current) THEN [c EXCEPT !.record = NoRecord]
        ELSE IF r.attempts < kMaxUpdateRetries
             THEN [c EXCEPT !.record = [version |-> r.version, time |-> 0, attempts |-> r.attempts + 1]]
        ELSE c

\* HandOffToNewerInstalledCopy: another copy than this one is newer.
HandsOff(c) == c # "installed" /\ IsNewer(disk["installed"], disk[c])

\* A process takes the mutex, loads the file, and hands off or becomes the dock;
\* without the mutex it exits.  A hand-off lets the mutex go, starts the
\* installed copy and exits.
Begin(c) ==
    /\ launched[c] > 0
    /\ IF proc.st # "none"
       THEN /\ launched' = [launched EXCEPT ![c] = @ - 1]
            /\ UNCHANGED <<dockVars, file>>
       ELSE IF HandsOff(c)
       THEN /\ launched' = [launched EXCEPT ![c] = @ - 1, !["installed"] = @ + 1]
            /\ UNCHANGED <<dockVars, file>>
       ELSE /\ launched' = [launched EXCEPT ![c] = @ - 1]
            /\ proc' = [st |-> "up", copy |-> c, ver |-> disk[c]]
            /\ conf' = Reconciled(file, disk[c])
            /\ file' = conf'
            /\ ui' = "idle" /\ saveDue' = FALSE
            /\ inFlight' = FALSE /\ installing' = FALSE
            /\ box' = <<>>
    /\ UNCHANGED <<diskVars, day, savers, worker, helpers, tries, spent>>

UserStarts(c) ==
    /\ spent.starts < MaxStarts /\ Total < MaxMischief
    /\ disk[c] # 0
    /\ launched' = [launched EXCEPT ![c] = @ + 1]
    /\ spent' = [spent EXCEPT !.starts = @ + 1]
    /\ UNCHANGED <<diskVars, day, dockVars, fileVars, worker, helpers, tries>>

-----------------------------------------------------------------------------
(* The interface thread.                                                   *)

\* CheckForUpdatesAsync: the guard's record is copied for the thread.
StartCheck(manual) ==
    /\ inFlight' = TRUE
    /\ worker' = [NoCheck EXCEPT !.at = "fetch", !.manual = manual,
                                 !.guard = conf.record, !.day = day]

\* Processes begin and helpers see them gone within a second or so.
Settled == (\A c \in Copies : launched[c] = 0) /\ (\A i \in DOMAIN helpers : ~helpers[i].gone)

\* The update timer, 15 s after the start and then every six hours.
UpdateTimer ==
    /\ Idle
    /\ Settled
    /\ conf.checks /\ ~inFlight /\ ~installing
    /\ StartCheck(FALSE)
    /\ UNCHANGED <<diskVars, day, launched, proc, ui, conf, saveDue, installing, box,
                   fileVars, helpers, tries, spent>>

CheckNow ==
    /\ Idle
    /\ ~inFlight /\ ~installing
    /\ spent.toggles < MaxToggles /\ Total < MaxMischief
    /\ spent' = [spent EXCEPT !.toggles = @ + 1]
    /\ StartCheck(TRUE)
    /\ UNCHANGED <<diskVars, day, launched, proc, ui, conf, saveDue, installing, box,
                   fileVars, helpers, tries>>

\* SettingsHitKind::Updates: switched on, it checks at once.
ToggleChecks ==
    /\ Idle
    /\ spent.toggles < MaxToggles /\ Total < MaxMischief
    /\ spent' = [spent EXCEPT !.toggles = @ + 1]
    /\ conf' = [conf EXCEPT !.checks = ~@]
    /\ saveDue' = TRUE
    /\ IF conf'.checks /\ ~inFlight
       THEN StartCheck(FALSE)
       ELSE UNCHANGED <<inFlight, worker>>
    /\ UNCHANGED <<diskVars, day, launched, proc, ui, installing, box, fileVars, helpers, tries>>

\* kConfigSaveTimerId: a detached thread saves a copy of the configuration.
SaveTimer ==
    /\ Idle
    /\ saveDue
    /\ saveDue' = FALSE
    /\ savers' = Append(savers, [conf |-> conf, truncated |-> FALSE])
    /\ UNCHANGED <<diskVars, day, launched, proc, ui, conf, inFlight, installing, box,
                   file, worker, helpers, tries, spent>>

Posted(kind) == Idle /\ box # <<>> /\ Head(box).kind = kind

\* ApplyUpdateResult with a final reply.
ApplyFinished ==
    /\ Posted("finished")
    /\ box' = Tail(box)
    /\ inFlight' = FALSE
    /\ UNCHANGED <<diskVars, day, launched, proc, ui, conf, saveDue, installing,
                   fileVars, worker, helpers, tries, spent>>

Helper(kind, r) ==
    [kind |-> kind, at |-> "wait", gone |-> FALSE, build |-> asset[r.version], copy |-> proc.copy]

\* ApplyUpdateResult refuses a download: an install is under way, the reply is
\* stale, or no helper can be started (no signature, a path no batch file holds).
RefuseInstall ==
    /\ Posted("ready")
    /\ box' = Tail(box)
    /\ inFlight' = FALSE
    /\ UNCHANGED <<diskVars, day, launched, proc, ui, conf, saveDue, installing,
                   fileVars, worker, helpers, tries, spent>>

\* It starts the helper.
LaunchInstall ==
    /\ Posted("ready")
    /\ LET r == Head(box)
       IN  /\ ~installing /\ IsNewer(r.version, proc.ver)
           /\ helpers' = Append(helpers, Helper(IF r.setup THEN "setup" ELSE "move", r))
           /\ tries' = [tries EXCEPT ![r.version] = @ + 1]
    /\ installing' = TRUE
    /\ ui' = "record"
    /\ UNCHANGED <<diskVars, day, launched, proc, conf, saveDue, inFlight, box,
                   fileVars, worker, spent>>

\* The rest of it: what was started is written down and saved at once, WM_CLOSE
\* is posted.
RecordInstall ==
    /\ DockRuns /\ ui = "record"
    /\ LET v == Head(box).version
           kept == IF conf.record.version = v THEN conf.record.attempts ELSE 0
       IN  conf' = [conf EXCEPT !.record = [version |-> v, time |-> day, attempts |-> kept]]
    /\ file' = conf'
    /\ box' = Append(Tail(box), [kind |-> "close", version |-> 0, setup |-> FALSE])
    /\ ui' = "idle"
    /\ UNCHANGED <<diskVars, day, launched, proc, saveDue, inFlight, installing,
                   savers, worker, helpers, tries, spent>>

\* WM_CLOSE: the window and its messages go; the process ends in Exit.
Close ==
    /\ proc' = [proc EXCEPT !.st = "closing"]
    /\ box' = <<>>
    /\ saveDue' = FALSE

HandleClose ==
    /\ Posted("close")
    /\ Close
    /\ UNCHANGED <<diskVars, day, launched, ui, conf, inFlight, installing,
                   fileVars, worker, helpers, tries, spent>>

UI == UpdateTimer \/ CheckNow \/ ToggleChecks \/ SaveTimer \/ ApplyFinished \/ RefuseInstall
      \/ LaunchInstall \/ RecordInstall \/ HandleClose

-----------------------------------------------------------------------------
(* The process ends; its threads end with it.                              *)

\* The helper that waits for the process sees it gone.
SeenGone == [i \in DOMAIN helpers |-> [helpers[i] EXCEPT !.gone = TRUE]]

Dies ==
    /\ proc' = NoProc
    /\ ui' = "idle" /\ conf' = Defaults
    /\ saveDue' = FALSE /\ inFlight' = FALSE /\ installing' = FALSE
    /\ box' = <<>>
    /\ savers' = <<>>
    /\ worker' = NoCheck
    /\ helpers' = SeenGone
    /\ UNCHANGED <<diskVars, day, launched, file, tries>>

Exit == proc.st = "closing" /\ Dies /\ UNCHANGED spent

DockDies ==
    /\ DockRuns
    /\ spent.crashes < MaxCrashes /\ Total < MaxMischief
    /\ spent' = [spent EXCEPT !.crashes = @ + 1]
    /\ Dies

-----------------------------------------------------------------------------
(* Save on a detached thread: open and truncate, then write.               *)

SaverOpens ==
    \E i \in DOMAIN savers :
        /\ ~savers[i].truncated
        /\ savers' = [savers EXCEPT ![i].truncated = TRUE]
        /\ file' = Defaults
        /\ UNCHANGED <<diskVars, day, launched, dockVars, worker, helpers, tries, spent>>

SaverWrites ==
    \E i \in DOMAIN savers :
        /\ savers[i].truncated
        /\ savers' = RemoveAt(savers, i)
        /\ file' = savers[i].conf
        /\ UNCHANGED <<diskVars, day, launched, dockVars, worker, helpers, tries, spent>>

Saver == SaverOpens \/ SaverWrites

-----------------------------------------------------------------------------
(* The thread of CheckForUpdatesAsync.  Its window may be gone when it     *)
(* posts; it then ends unheard.                                            *)

Reply(kind) == [kind |-> kind, version |-> worker.version, setup |-> worker.setup]

Post(kind) ==
    /\ box' = IF DockRuns THEN Append(box, Reply(kind)) ELSE box
    /\ UNCHANGED inFlight

\* A mutant: a quiet end forgets the latch.
MutQuietEnd == UNCHANGED <<box, inFlight>>

\* A background check that has nothing to say lets the latch go itself.
QuietEnd == inFlight' = FALSE /\ UNCHANGED box

CheckOver == worker' = NoCheck

CheckUnchanged == UNCHANGED <<diskVars, day, launched, proc, ui, conf, saveDue, installing,
                              fileVars, helpers, tries, spent>>

FetchFails ==
    /\ worker.at = "fetch"
    /\ IF worker.manual THEN Post("finished") ELSE QuietEnd
    /\ CheckOver
    /\ CheckUnchanged

UpToDate ==
    /\ worker.at = "fetch"
    /\ ~IsNewer(feed, proc.ver)
    /\ Post("finished")
    /\ CheckOver
    /\ CheckUnchanged

\* The reinstall-loop guard.
Guarded(r, v, today) ==
    r.version = v /\ r.time > 0 /\ today >= r.time /\ today - r.time < Cooldown

Skipped ==
    /\ worker.at = "fetch"
    /\ IsNewer(feed, proc.ver)
    /\ Guarded(worker.guard, feed, worker.day)
    /\ IF worker.manual THEN Post("finished") ELSE QuietEnd
    /\ CheckOver
    /\ CheckUnchanged

\* FetchLatestRelease: the JSON API names the Setup asset only (ParseApiReleaseBody
\* stops at it), the fallback of conventional names has both.
AssetsOf(viaApi) == IF viaApi THEN {"setup"} ELSE {"setup", "exe"}

\* SelectAssetUrls; every release has a Setup.
SelectsSetup(assets, copy) == copy = "installed" \/ "exe" \notin assets

Offered ==
    /\ worker.at = "fetch"
    /\ IsNewer(feed, proc.ver)
    /\ ~Guarded(worker.guard, feed, worker.day)
    /\ \E viaApi \in BOOLEAN :
         LET setup == SelectsSetup(AssetsOf(viaApi), proc.copy)
         IN  worker' = [worker EXCEPT !.at = "download", !.version = feed, !.setup = setup,
                                      !.retry = setup /\ "exe" \in AssetsOf(viaApi)]
    /\ UNCHANGED <<inFlight, box>>
    /\ CheckUnchanged

\* DownloadFile; a missing Setup is retried once as the portable file.
Downloaded ==
    /\ worker.at = "download"
    /\ Post("ready")
    /\ CheckOver
    /\ CheckUnchanged

DownloadFails ==
    /\ worker.at = "download"
    /\ IF worker.retry
       THEN /\ worker' = [worker EXCEPT !.setup = FALSE, !.retry = FALSE]
            /\ UNCHANGED <<inFlight, box>>
       ELSE Post("finished") /\ CheckOver
    /\ CheckUnchanged

Check == FetchFails \/ UpToDate \/ Skipped \/ Offered \/ Downloaded \/ DownloadFails

-----------------------------------------------------------------------------
(* The helpers.                                                            *)

HelperUnchanged == UNCHANGED <<asset, feed, day, ui, conf, fileVars, inFlight, installing,
                               worker, tries, spent>>

\* A file whose process runs cannot be replaced.
Locked(copy) == proc.st # "none" /\ proc.copy = copy

Waited(h) == h.at = "wait" /\ (h.gone \/ SlowExit)

\* StagePortableUpdateAndRestart's batch file: move, then start a dock whatever
\* move returned.
Moves(i) ==
    LET h == helpers[i]
        moved == ~Locked(h.copy)
    IN  /\ h.kind = "move" /\ Waited(h)
        /\ disk' = IF moved THEN [disk EXCEPT ![h.copy] = h.build] ELSE disk
        /\ launched' = [launched EXCEPT ![h.copy] = @ + 1]
        /\ helpers' = RemoveAt(helpers, i)
        /\ UNCHANGED <<proc, box, saveDue>>
        /\ HelperUnchanged

\* LaunchInstallerAndExit's batch file runs the installer, which first closes
\* the window it finds, whose thread answers when it is idle.
ClosesDock(i) ==
    LET h == helpers[i]
    IN  /\ h.kind = "setup" /\ Waited(h)
        /\ IF DockRuns THEN ui = "idle" /\ Close ELSE UNCHANGED <<proc, box, saveDue>>
        /\ helpers' = [helpers EXCEPT ![i].at = "replace"]
        /\ UNCHANGED <<disk, launched>>
        /\ HelperUnchanged

\* A mutant: only an interactive install starts the dock.
MutRelaunched == launched

\* .onInstSuccess after a silent install.
Relaunched == [launched EXCEPT !["installed"] = @ + 1]

\* The installer replaces the file, or aborts when it is in use; only after the
\* first does it start a dock.
Replaces(i) ==
    LET h == helpers[i]
    IN  /\ h.at = "replace"
        /\ proc.st = "closing" => SlowExit
        /\ IF Locked("installed")
           THEN UNCHANGED <<disk, launched>>
           ELSE /\ disk' = [disk EXCEPT !["installed"] = h.build]
                /\ launched' = Relaunched
        /\ helpers' = RemoveAt(helpers, i)
        /\ UNCHANGED <<proc, box, saveDue>>
        /\ HelperUnchanged

HelperStep == \E i \in DOMAIN helpers : Moves(i) \/ ClosesDock(i) \/ Replaces(i)

-----------------------------------------------------------------------------
(* The world.                                                              *)

Release ==
    /\ feed < MaxVersion
    /\ feed' = feed + 1
    /\ UNCHANGED <<disk, asset, day, launched, dockVars, fileVars, worker, helpers, tries, spent>>

NextDay ==
    /\ day < MaxDay
    /\ day' = day + 1
    /\ tries' = [v \in Versions |-> 0]
    /\ UNCHANGED <<diskVars, launched, dockVars, fileVars, worker, helpers, spent>>

UpdateNext ==
    \/ \E c \in Copies : Begin(c) \/ UserStarts(c)
    \/ UI \/ Exit \/ DockDies \/ Saver \/ Check \/ HelperStep \/ Release \/ NextDay

UpdateSpec == UpdateInit /\ [][UpdateNext]_updateVars

\* Windows runs processes, threads and timers; the network and the helpers'
\* signatures work again and again; the user, the feed and the days are free.
UpdateFairness ==
    /\ WF_updateVars(\E c \in Copies : Begin(c))
    /\ WF_updateVars(ApplyFinished \/ RefuseInstall \/ LaunchInstall \/ RecordInstall \/ HandleClose)
    /\ WF_updateVars(Exit)
    /\ WF_updateVars(Saver)
    /\ WF_updateVars(Check)
    /\ WF_updateVars(HelperStep)
    /\ WF_updateVars(UpdateTimer)
    /\ SF_updateVars(Offered)
    /\ SF_updateVars(Downloaded)
    /\ SF_updateVars(LaunchInstall)

-----------------------------------------------------------------------------
(* Properties.                                                             *)

\* Type invariant.
Records == [version : {0} \cup Versions, time : Nat, attempts : 0 .. kMaxUpdateRetries]
Configs == [checks : BOOLEAN, record : Records]
Builds == {0} \cup Versions

UpdateTypeOK ==
    /\ disk \in [Copies -> Builds]
    /\ asset \in [Versions -> Versions]
    /\ feed \in Versions
    /\ day \in Nat
    /\ launched \in [Copies -> Nat]
    /\ proc \in [st : {"none", "up", "closing"}, copy : Copies, ver : Builds]
    /\ ui \in {"idle", "record"}
    /\ conf \in Configs /\ file \in Configs
    /\ saveDue \in BOOLEAN /\ inFlight \in BOOLEAN /\ installing \in BOOLEAN
    /\ savers \in Seq([conf : Configs, truncated : BOOLEAN])
    /\ worker \in [at : {"none", "fetch", "download"}, manual : BOOLEAN, guard : Records,
                    day : Nat, version : Builds, setup : BOOLEAN, retry : BOOLEAN]
    /\ box \in Seq([kind : {"finished", "ready", "close"}, version : Builds, setup : BOOLEAN])
    /\ helpers \in Seq([kind : {"setup", "move"}, at : {"wait", "replace"}, gone : BOOLEAN,
                         build : Versions, copy : Copies])
    /\ tries \in [Versions -> Nat]
    /\ spent \in [starts : Nat, toggles : Nat, crashes : Nat]

\* What lets a version's record go: a save that races the record, a crash, and
\* for an asset that is what it says each dock the user starts, which may be the
\* copy that has it while the other is still tried.
Stale(v) == asset[v] < v
Losses(v) == spent.toggles + spent.crashes + (IF Stale(v) THEN 0 ELSE spent.starts)

\* "The budget (not the cooldown) is what still protects against a
\* systematically stale asset looping forever": however stale the assets, one
\* version is not installed more than three times a day, unless a detached save
\* or a crash loses the record, and then three times more for each.
LoopIsBounded ==
    \A v \in Versions : tries[v] <= (1 + kMaxUpdateRetries) * (1 + Losses(v))

\* No end of a check forgets the latch that keeps a second one out.
CheckEnds == inFlight ~> ~inFlight

\* Once a helper runs, a dock runs again: "the new build is reopened after
\* install", and the old one when it cannot be installed.
DockReturns == helpers # <<>> ~> DockRuns

\* A dock that checks arrives at the last release if its assets are what they
\* say, whichever copy it is, whatever record earlier installs left, and
\* whatever fails on the way: unless it dies, or the user stops the checks.
UpdateArrives ==
    (DockRuns /\ conf.checks /\ feed = MaxVersion /\ asset[feed] = feed /\ spent.crashes = MaxCrashes) ~>
        (DockRuns /\ (proc.ver = MaxVersion \/ ~conf.checks))

=============================================================================
