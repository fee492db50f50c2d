---------------------------- MODULE MediaSession ----------------------------
(***************************************************************************)
(* The media controls of Quick Settings (QuickSettingsPanel.cpp): one      *)
(* detached worker follows the sessions of the players and publishes a     *)
(* snapshot, which the panel copies each second while it is open.  A click *)
(* changes the snapshot at once and holds it there, and is queued for the  *)
(* worker.  Events of the players wake the worker; while the panel is open *)
(* it also polls.                                                          *)
(*                                                                         *)
(* A position is its start or elsewhere, a track one of two.  Artwork, the *)
(* extrapolation of a position in time and its duration are left out.      *)
(***************************************************************************)
EXTENDS Integers, Sequences, TLC

CONSTANTS
    Players,    \* in the order of GetSessions
    NoPlayer,
    Toggling,   \* players that take TryTogglePlayPause, not only play and pause
    Scenes,     \* what happens
    MaxPresses  \* bound: clicks of the user

Apps == {Players[i] : i \in DOMAIN Players}
Statuses == {"closed", "paused", "playing"}
Bits == {"sessions", "playback", "props", "timeline"}
Commands == {"toggle", "next", "seek"}

\* players: where they start; moves: how often one moves by itself; faults: how
\* often an event, a call or a thread fails, a player is slow or the panel stalls.
Scene == [players : [Apps -> Statuses], moves : Nat, faults : Nat]

ASSUME MediaAssumption ==
    /\ Players \in Seq(Apps) /\ NoPlayer \notin Apps /\ Toggling \subseteq Apps
    /\ Scenes \subseteq Scene /\ MaxPresses \in Nat

VARIABLES
    story,       \* the scene, with what is left of its bounds
    players,        \* the players
    currentSession,     \* GetCurrentSession
    owed,        \* what a slow player has been told and not done
    media,       \* MediaBridge
    watch,       \* MediaWorker
    screen,      \* m_qsCache and whether the panel is open
    presses,
    meant        \* what the last click on play or pause showed

mediaVars == <<story, players, currentSession, owed, media, watch, screen, presses, meant>>

NoMedia == [have |-> FALSE, playing |-> FALSE, pos |-> 0, track |-> "", app |-> NoPlayer]
NoIntent == [app |-> NoPlayer, playing |-> FALSE, held |-> FALSE]

MediaInit ==
    /\ story \in Scenes
    /\ players = [a \in Apps |-> [st |-> story.players[a], pos |-> 1, track |-> "x"]]
    /\ currentSession \in {a \in Apps : players[a].st # "closed"} \cup {NoPlayer}
    /\ (\E a \in Apps : players[a].st # "closed") => currentSession # NoPlayer
    /\ \A a \in Apps : players[a].st = "playing" => players[currentSession].st = "playing"
    /\ owed = <<>>
    /\ media = [unavailable |-> FALSE, sleeping |-> FALSE, dirty |-> {}, requests |-> <<>>,
                demand |-> FALSE, news |-> TRUE, state |-> NoMedia,
                playHold |-> FALSE, placeHold |-> FALSE, wish |-> FALSE]
    /\ watch = [at |-> "unstarted", bits |-> Bits, batch |-> <<>>, session |-> NoPlayer,
                sticky |-> NoPlayer, read |-> NoMedia, hooked |-> {}, pollDue |-> TRUE]
    /\ screen = NoMedia @@ [open |-> FALSE]
    /\ presses = 0 /\ meant = NoIntent

-----------------------------------------------------------------------------
(* Waking the worker.                                                      *)

Parked == {"asleep", "timed wait"}
Woken(w) == IF w.at \in Parked THEN [w EXCEPT !.at = "check"] ELSE w
Roused(m, w) == IF w.at = "asleep" THEN [m EXCEPT !.sleeping = FALSE] ELSE m

\* WakeMedia from handlers the worker has installed.
Told(m, w, bits) ==
    IF bits = {} \/ w.at \in {"unstarted", "asking", "gone"} THEN m
    ELSE [Roused(m, w) EXCEPT !.dirty = @ \cup bits]
WakesWorker(bits) ==
    /\ media' = Told(media, watch, bits)
    /\ watch' = IF bits = {} THEN watch ELSE Woken(watch)

Spend(what) == story[what] > 0 /\ story' = [story EXCEPT ![what] = @ - 1]
Faulty(b) == IF b THEN Spend("faults") ELSE UNCHANGED story

-----------------------------------------------------------------------------
(* The players, and Windows' idea of the current one.                      *)

Open(as) == {a \in Apps : as[a].st # "closed"}

\* A player does what it is told, if it still runs.
Obeys(app, command) ==
    LET p == players[app] IN
    IF app = NoPlayer THEN players
    ELSE IF p.st = "closed" THEN players
    ELSE [players EXCEPT ![app] =
            CASE command = "toggle" -> [p EXCEPT !.st = IF @ = "playing" THEN "paused" ELSE "playing"]
              [] command = "play"   -> [p EXCEPT !.st = "playing"]
              [] command = "pause"  -> [p EXCEPT !.st = "paused"]
              [] command = "next"   -> [p EXCEPT !.pos = 0, !.track = IF @ = "x" THEN "y" ELSE "x"]
              [] command = "seek"   -> [p EXCEPT !.pos = 0] ]

\* The current session follows a player that starts or closes.
Follows(as) ==
    LET began == {a \in Apps : as[a].st = "playing" /\ players[a].st # "playing"}
    IN  currentSession' = IF began # {} THEN CHOOSE a \in began : TRUE
                   ELSE IF currentSession \in Open(as) THEN currentSession
                   ELSE IF Open(as) # {} THEN CHOOSE a \in Open(as) : TRUE
                   ELSE NoPlayer

\* What is reported of a change: sessions and the current one by the manager,
\* the rest by the players hooked.
Reported(as) ==
    (IF Open(as) # Open(players) THEN {"sessions", "playback"} ELSE {})
    \cup (IF \E a \in watch.hooked : as[a].st # players[a].st THEN {"playback"} ELSE {})
    \cup (IF \E a \in watch.hooked : as[a].track # players[a].track THEN {"props"} ELSE {})
    \cup (IF \E a \in watch.hooked : as[a].pos # players[a].pos THEN {"timeline"} ELSE {})

\* A hook goes with the session it was on.
Unhooked(as, w) == [w EXCEPT !.hooked = @ \cap Open(as)]

Changes(as, told) ==
    /\ players' = as /\ Follows(as)
    /\ media' = Told(media, watch, IF told THEN Reported(as) ELSE {})
    /\ watch' = Unhooked(as, IF told /\ Reported(as) # {} THEN Woken(watch) ELSE watch)

\* A player starts, is played or paused elsewhere, goes on to its next track or
\* closes, and may skip the event.
PlayerMoves ==
    /\ Spend("moves")
    /\ \E a \in Apps, told \in BOOLEAN :
          \/ \E st \in Statuses \ {players[a].st} :
                /\ (st = "closed" \/ players[a].st = "closed") => told
                /\ Changes([players EXCEPT ![a].st = st], told)
          \/ players[a].st # "closed" /\ Changes(Obeys(a, "next"), told)
    /\ meant' = NoIntent
    /\ UNCHANGED <<owed, screen, presses>>

SlowPlayer ==
    /\ owed # <<>>
    /\ Changes(Obeys(Head(owed).app, Head(owed).command), TRUE)
    /\ owed' = Tail(owed)
    /\ UNCHANGED <<story, screen, presses, meant>>

-----------------------------------------------------------------------------
(* MediaWorker.                                                            *)

WorkerAt(step) == watch.at = step
Proceeds(w, step) == watch' = [w EXCEPT !.at = step]
Alone == UNCHANGED <<players, currentSession, owed, screen, presses, meant>>

\* RequestAsync, which may fail; then the handlers of the manager.
AskManager ==
    /\ WorkerAt("asking")
    /\ \/ Proceeds(watch, "run") /\ UNCHANGED <<media, story>>
       \/ /\ Proceeds(watch, "gone") /\ Spend("faults")
          /\ media' = [media EXCEPT !.unavailable = TRUE, !.news = TRUE]
    /\ Alone

\* A poll that is due while the panel is open, and what requests bring with them.
Polled == IF media.demand /\ watch.pollDue THEN {"playback", "props", "timeline"} ELSE {}
Sent == IF media.requests # <<>> THEN {"playback", "timeline"} ELSE {}

\* Under the lock: what there is to do is taken, or the worker waits for it.
TakeWork ==
    /\ WorkerAt("check")
    /\ IF media.dirty # {} \/ media.requests # <<>> \/ (media.demand /\ watch.pollDue)
       THEN /\ Proceeds([watch EXCEPT !.bits = media.dirty \cup Polled \cup Sent,
                                  !.batch = media.requests], "run")
            /\ media' = [media EXCEPT !.dirty = {}, !.requests = <<>>]
       ELSE /\ Proceeds(watch, IF media.demand THEN "timed wait" ELSE "asleep")
            /\ media' = [media EXCEPT !.sleeping = ~media.demand]
    /\ UNCHANGED story /\ Alone

WaitEnds ==
    /\ WorkerAt("timed wait") /\ watch.pollDue
    /\ Proceeds(watch, "check")
    /\ UNCHANGED <<media, story>> /\ Alone

\* The command a request becomes: a player that cannot toggle is told by its state.
Command(app, request) ==
    IF request # "toggle" \/ app \in Toggling THEN request
    ELSE IF players[app].st = "playing" THEN "pause" ELSE "play"

\* One of RunMediaRequests.  The player obeys, is slow, refuses, or the call throws
\* and the media key is sent, as it is without a session.
RunRequest ==
    /\ WorkerAt("run") /\ watch.batch # <<>>
    /\ LET app == watch.session
           request == Head(watch.batch)
           rest == [watch EXCEPT !.batch = Tail(@)]
           key == IF request = "seek" THEN players ELSE Obeys(currentSession, request)
       IN \E how \in {"obeys", "slow", "refuses", "throws"} :
          /\ app = NoPlayer => how = "throws"
          /\ Faulty(how # "obeys" /\ app # NoPlayer)
          /\ LET as == CASE how = "obeys" -> Obeys(app, Command(app, request))
                         [] how = "throws" -> key
                         [] OTHER -> players
             IN /\ players' = as /\ Follows(as)
                /\ media' = Told(media, watch, Reported(as))
                /\ watch' = Unhooked(as, rest)
          /\ owed' = IF how = "slow" THEN Append(owed, [app |-> app, command |-> Command(app, request)])
                     ELSE owed
          /\ meant' = IF how = "obeys" THEN meant ELSE NoIntent
    /\ UNCHANGED <<screen, presses>>

\* PickMediaSession: playing beats paused, and the last app shown is sticky.
Pick(sticky) ==
    LET playing == {a \in Apps : players[a].st = "playing"}
        First(as) == IF as = {} THEN NoPlayer
                     ELSE Players[CHOOSE i \in DOMAIN Players :
                              Players[i] \in as /\ \A j \in 1 .. i - 1 : Players[j] \notin as]
        paused == {a \in Apps : players[a].st = "paused"}
    IN  IF currentSession \in playing /\ sticky \in {NoPlayer, currentSession} THEN currentSession
        ELSE IF sticky \in playing THEN sticky
        ELSE IF currentSession \in playing THEN currentSession
        ELSE IF playing # {} THEN First(playing)
        ELSE IF sticky \in Open(players) THEN sticky
        ELSE IF currentSession # NoPlayer THEN currentSession
        ELSE First(paused)

Transport(bits) == bits \cap {"playback", "timeline"} # {}

\* The hooks are renewed, the session is chosen again and its playback is read.
Choose ==
    /\ WorkerAt("run") /\ watch.batch = <<>>
    /\ LET hooked == IF "sessions" \in watch.bits THEN [watch EXCEPT !.hooked = Open(players)] ELSE watch
           again == watch.bits \cap {"sessions", "playback"} # {} \/ watch.session = NoPlayer
           picked == IF again THEN Pick(watch.sticky) ELSE watch.session
           chosen ==
              IF ~again THEN hooked
              ELSE IF picked = NoPlayer
              THEN [hooked EXCEPT !.session = NoPlayer, !.sticky = NoPlayer, !.read = NoMedia]
              ELSE IF watch.session = NoPlayer \/ picked # watch.sticky
              THEN [hooked EXCEPT !.session = picked, !.sticky = picked,
                                  !.read = [NoMedia EXCEPT !.app = picked],
                                  !.bits = @ \cup {"playback", "props", "timeline"}]
              ELSE [hooked EXCEPT !.session = picked]
           seen == IF chosen.session # NoPlayer /\ Transport(chosen.bits)
                   THEN [chosen EXCEPT !.read.have = players[picked].st # "closed",
                                       !.read.playing = players[picked].st = "playing"]
                   ELSE chosen
       IN Proceeds(seen, IF seen.session = NoPlayer THEN "publish" ELSE "rest")
    /\ UNCHANGED <<media, story>> /\ Alone

\* The metadata, which may not come in time or be empty in the middle of a change,
\* and the timeline.
ReadRest ==
    /\ WorkerAt("rest")
    /\ \E track \in {watch.read.track, players[watch.session].track} :
          /\ Faulty("props" \in watch.bits /\ track # players[watch.session].track)
          /\ "props" \notin watch.bits => track = watch.read.track
          /\ Proceeds([watch EXCEPT !.read.track = track,
                                !.read.pos = IF Transport(watch.bits) THEN players[watch.session].pos ELSE @],
                  "publish")
    /\ UNCHANGED media /\ Alone

\* A getter of a session that is torn down throws.
ReadThrows ==
    /\ WorkerAt("rest") /\ Spend("faults")
    /\ Proceeds(watch, "publish")
    /\ UNCHANGED media /\ Alone

\* Mutant: the first snapshot after a click ends its hold, whatever it says.
MutPublished(m, next) ==
    [m EXCEPT !.playHold = FALSE, !.placeHold = FALSE, !.state = next, !.news = @ \/ next # m.state]

\* PublishMediaRead: what a click showed is kept until the player confirms it or
\* the hold has run out.
KeepsPlay(m, next) == m.playHold /\ next.have /\ next.playing # m.wish
KeepsPlace(m, next) == m.placeHold /\ next.have /\ next.pos # m.state.pos
Published(m, next) ==
    LET play == IF KeepsPlay(m, next)
                THEN [next EXCEPT !.playing = m.state.playing, !.pos = m.state.pos] ELSE next
        placed == IF KeepsPlace(m, play) THEN [play EXCEPT !.pos = m.state.pos] ELSE play
    IN  [m EXCEPT !.playHold = KeepsPlay(m, next), !.placeHold = KeepsPlace(m, play),
                  !.state = placed, !.news = @ \/ placed # m.state]

PublishRead ==
    /\ WorkerAt("publish")
    /\ media' = Published(media, IF watch.session = NoPlayer THEN NoMedia ELSE watch.read)
    /\ Proceeds([watch EXCEPT !.bits = {}, !.batch = <<>>, !.pollDue = @ /\ ~Transport(watch.bits)], "check")
    /\ UNCHANGED story /\ Alone

Work == AskManager \/ TakeWork \/ WaitEnds \/ RunRequest \/ Choose \/ ReadRest \/ PublishRead

\* A click on play or pause that no player has been told of.
Underway == LET all == watch.batch \o media.requests IN \E i \in DOMAIN all : all[i] = "toggle"

\* kMediaPollMs since the last poll; kMediaHoldMs since a click.
PollComesDue ==
    /\ ~watch.pollDue
    /\ watch' = [watch EXCEPT !.pollDue = TRUE]
    /\ UNCHANGED <<media, story>> /\ Alone

HoldsRunOut ==
    /\ media.playHold \/ media.placeHold
    /\ media' = [media EXCEPT !.playHold = FALSE, !.placeHold = FALSE]
    /\ meant' = IF Underway THEN NoIntent ELSE [meant EXCEPT !.held = FALSE]
    /\ UNCHANGED <<story, players, currentSession, owed, watch, screen, presses>>

-----------------------------------------------------------------------------
(* The panel.                                                              *)

\* StartMediaWatch.
Started(w) == IF w.at = "unstarted" THEN [w EXCEPT !.at = "asking"] ELSE w

\* RefreshQuickSettingsMedia: the snapshot is copied if its generation is new.
Refreshed(m, w) == [Roused(m, w) EXCEPT !.demand = TRUE, !.news = FALSE]
Copied(m) == IF m.news THEN m.state @@ [open |-> TRUE] ELSE [screen EXCEPT !.open = TRUE]
Refresh ==
    /\ screen' = Copied(media)
    /\ media' = Refreshed(media, watch)
    /\ watch' = LET w == Started(watch) IN IF w.at = "asleep" THEN Woken(w) ELSE w
    /\ UNCHANGED <<story, players, currentSession, owed, presses, meant>>

OpenPanel == ~screen.open /\ Refresh
LiveTick == screen.open /\ Refresh

ClosePanel ==
    /\ screen.open /\ screen' = [screen EXCEPT !.open = FALSE]
    /\ Spend("moves")
    /\ UNCHANGED <<players, currentSession, owed, media, watch, presses, meant>>

\* kMediaDemandMs without a refresh: the panel is closed, or its thread stalls.
DemandLapses ==
    /\ media.demand /\ media' = [media EXCEPT !.demand = FALSE]
    /\ Faulty(screen.open)
    /\ UNCHANGED <<players, currentSession, owed, watch, screen, presses, meant>>

\* What ControlMediaSession and SeekQuickSettingsMedia do to the snapshot.
Shows(m, command) ==
    CASE ~m.state.have -> m
      [] m.state.have /\ command = "toggle" ->
            LET playing == ~m.state.playing
            IN  [m EXCEPT !.state.playing = playing, !.wish = playing, !.playHold = TRUE, !.news = TRUE]
      [] OTHER -> [m EXCEPT !.state.pos = 0, !.placeHold = TRUE, !.news = TRUE]

\* What is clicked on is as the player is, or will be by the clicks before, no other
\* player plays, and what the worker is about to publish is not of a time when the
\* player was closed, which ends a hold.
Truthful(s) ==
    /\ players[s.app].st # "closed" /\ watch.session = s.app /\ watch.read.have
    /\ \A a \in Apps \ {s.app} : players[a].st # "playing"
    /\ \/ meant.app = s.app
       \/ (players[s.app].st = "playing") = s.playing /\ ~Underway /\ owed = <<>>

\* A click on an enabled button, and the copy that follows it at once.
Press(command) ==
    /\ screen.open /\ presses < MaxPresses /\ presses' = presses + 1
    /\ screen.have \/ command = "toggle"
    /\ ~(media.unavailable \/ (command = "seek" /\ ~media.state.have))
    /\ LET m == [Shows(media, command) EXCEPT !.requests = Append(@, command)] IN
       /\ media' = Refreshed(m, watch)
       /\ screen' = Copied(m)
       /\ meant' = IF command = "toggle" /\ m.state.have /\ Truthful(media.state)
                   THEN [app |-> m.state.app, playing |-> m.state.playing, held |-> TRUE]
                   ELSE IF command = "toggle" THEN NoIntent ELSE meant
    /\ watch' = Woken(watch)
    /\ UNCHANGED <<story, players, currentSession, owed>>

\* Without a session manager a click sends the media key.
KeyPress(command) ==
    /\ screen.open /\ presses < MaxPresses /\ presses' = presses + 1
    /\ screen.have \/ command = "toggle"
    /\ media.unavailable /\ command # "seek"
    /\ players' = Obeys(currentSession, command) /\ Follows(players')
    /\ screen' = Copied(media) /\ media' = Refreshed(media, watch)
    /\ meant' = NoIntent
    /\ UNCHANGED <<story, owed, watch>>

MediaNext ==
    \/ PlayerMoves \/ SlowPlayer \/ Work \/ ReadThrows \/ PollComesDue \/ HoldsRunOut
    \/ OpenPanel \/ LiveTick \/ ClosePanel \/ DemandLapses
    \/ \E command \in Commands : Press(command) \/ KeyPress(command)

\* The worker and the players go on, time passes, and the panel's timer fires.
MediaFairness ==
    /\ WF_mediaVars(Work) /\ WF_mediaVars(SlowPlayer) /\ WF_mediaVars(PollComesDue)
    /\ WF_mediaVars(HoldsRunOut) /\ WF_mediaVars(LiveTick)

-----------------------------------------------------------------------------
(* Properties.                                                             *)

\* Type invariant.
Snapshot == [have : BOOLEAN, playing : BOOLEAN, pos : {0, 1}, track : {"", "x", "y"},
             app : Apps \cup {NoPlayer}]
MediaTypeOK ==
    /\ players \in [Apps -> [st : Statuses, pos : {0, 1}, track : {"x", "y"}]]
    /\ currentSession \in Apps \cup {NoPlayer}
    /\ media.state \in Snapshot /\ watch.read \in Snapshot
    /\ media.dirty \subseteq Bits /\ watch.bits \subseteq Bits
    /\ {watch.session, watch.sticky} \subseteq Apps \cup {NoPlayer}
    /\ watch.hooked \subseteq Apps /\ presses \in 0 .. MaxPresses
    /\ media.sleeping <=> watch.at = "asleep"

\* "The worker's snapshots cannot revert it until the app confirms or the hold
\* expires": what the last click on play or pause showed stays shown, also when
\* a snapshot read before it is published after it.
ClickStays == meant.held /\ media.state.app = meant.app => media.state.playing = meant.playing

\* And it is what the player ends up doing, however many clicks there were and
\* however the worker batched them, if every player does at once what it is told.
ClickLands ==
    (meant # NoIntent /\ media.requests = <<>> /\ watch.batch = <<>>) =>
        (players[meant.app].st = "playing") = meant.playing
ClicksAreKept == ClickStays /\ ClickLands

\* An open panel comes to show a player as it is, one that plays if any does,
\* whatever events the players skipped and whatever was slow or failed.
Agrees ==
    IF Open(players) = {} THEN ~screen.have
    ELSE /\ screen.have /\ screen.app \in Open(players)
         /\ LET p == players[screen.app] IN
            /\ screen.playing = (p.st = "playing")
            /\ screen.pos = p.pos /\ screen.track = p.track
         /\ (\E a \in Apps : players[a].st = "playing") => screen.playing
MediaCatchesUp == <>[](screen.open /\ ~media.unavailable) => <>[]Agrees

=============================================================================
