# Verification of FS-UAE Launcher

FS-UAE Launcher is a Python program (launcher window, configuration, file
scanner, game database, emulator drivers) with a netplay feature whose server
is written in Go. This directory holds TLA+ models of the parts of it that have
a protocol: the netplay server, the launcher's netplay, launching a game, the
library scan and the configuration; the TLC configurations that check them, and
TLAPS proofs about them. Paths are relative to the repository (`src/`).

## The system

### Components

| Component | Code | State it keeps | Operations | Modelled |
|---|---|---|---|---|
| Game engine | `fsnp-server/internal/game` | slots and players, frame, verified tag, stall, checksum rings, outgoing queues, stop reason | join, ack, checksums, input, text, pong, gone, tick, launch timeout, cancel, shutdown; per connection a reader and a writer | yes: `GameSync`, `GameEngine`, `GameRelay` |
| Lobby registry | `fsnp-server/internal/lobby/lobby.go` | games by id and by password hash, game contexts, reapers | create, reserve, start, end, remove, reap, route, shutdown | yes: `LobbyRegistry` |
| Lobby session | `lobby/session.go`, `lobby/api.go` | slots and tokens, config document and version, ready reports, revision, parked long-polls | join, leave, set config, report ready, start, end, snapshot | yes: `SessionEntry`, `LobbySession` |
| Launcher session | `launcher/netplay/session.py`, `lobby_client.py` | last snapshot, applied and pushed versions, pending push and restore, a worker queue, a watcher thread | handle a snapshot, push, report ready, restore, start, leave | yes: `LauncherSession`, `NetplaySession` |
| Netplay commands | `launcher/netplay/netplay.py`, `irc.py`, `channel.py` | current session and its generation, game channel, hosted server, answers on their way | announce, join, create, host, host alongside, start, leave, reset, stop the server, close the page | mostly: `NetplayCommands` |
| Connection tester | `launcher/netplay/connection_tester.py`, `server_details.py` | the addresses under test, results on their way, `__netplay_host` | test, publish, use at a launch; show the server | yes: `ConnectionTester`; the server's panel in `NetplayCommands` |
| Server process | `fsnp-server/cmd/fsnp-server`, `launcher/server/Server.py` | subprocess, readiness | start, ready line or timeout, stop, exit | as the launcher sees it: `NetplayCommands` |
| Launching and drivers | `fsgs/amiga/launchhandler.py`, `fsgs/drivers/gamedriver.py`, `fsgs/amiga/fsuae.py` | temporary directory, the emulator's configuration, the task thread | prepare ROMs, floppies, CDs, hard drives, run, cancel, clean up | the Amiga launch: `LaunchFiles`, `GameLaunch` |
| Saves | `fsgs/GameChangeHandler.py`, `fsgs/saves.py` | changed files of each game, per save directory | restore, note, save, delete | yes: `GameLaunch` |
| File scanner and databases | `launcher/scanner.py`, `filescanner.py`, `gamescanner.py`, `configurationscanner.py`, `startup_scan.py`, `fsgs/filedatabase.py` | index of files, library of configurations and variants, stamps, two open transactions | scan, purge, commit, stop, startup scan | mostly: `LibraryScan` |
| Configuration | `fsgs/Config.py`, `launcher/launcher_config.py`, the widgets under `launcher/ui` that set values when told of one | values, checksums, choices shown, pending implicit update | set, announce, load, save, pick a model or a Kickstart, insert, eject, multi-select, custom options | the keys with checksums and the model: `LauncherConfiguration`; in netplay, as far as a session sees it: `LauncherSession` |
| Connection dispatch, wire format, deadline ticker | `lobby/sniff.go`, `lobby/http.go`, `internal/fsnp`, `game/clock.go` | none, or the next deadline | route, encode, tick | no |
| Online game database, input devices, IRC library, widgets, build | `fsgs/ogd`, `fsgs/input`, `oyoyo`, `fsui`, `fsbc`, `fsbuild` | | | no |

### Interaction

* An emulator (fs-uae, external) opens a TCP connection. `dispatch` reads four
  bytes; an FSNP handshake is routed by its password hash to a running game.
* In a game one goroutine owns all state. Readers post what they read to one
  event channel; the game goroutine queues words per player and hands buffers
  to a bounded channel per writer; a full channel drops the player. Stopping
  closes the channels; the writers then close the sockets, which ends readers.
* The lobby's HTTP handlers share one mutex. A waiting session has a reaper
  goroutine, a running game a run goroutine; both remove the game. Long-polls
  park on a channel that is closed and replaced at each change.
* A launcher long-polls the lobby in a watcher thread, calls it from one worker
  thread in order, and does everything else on its UI thread. A join and the
  leaving of an unwanted slot have threads of their own; creating a game and
  starting a server block the UI thread. Announcements come over IRC.
* A launch runs on a task thread while the UI thread goes on: its dialog, the
  configuration's `__running`, the current netplay object and the save
  directory on disk are what the two share.
* The scanner thread writes two SQLite databases with a commit each, at other
  times; the startup scan uses another connection to the same files.
* `Config.set` announces to every listener before it returns, and listeners set
  values: the configuration, the model group, the Kickstart group and the media
  managers call one another on one stack. The scanner queues a call to it.

### What is hard

Concurrency between readers, ticker and writers; a flush that drops a player in
the middle of a broadcast, whose farewell text may drop the next; checksum ring
entries reused while a slow player has not passed them; a stall that must end;
removal of a game by three different goroutines; the idle timer racing a
request; sessions started while the lobby shuts down; delayed HTTP requests
with an old token or an old config version; a poll that must not miss a change.
On the launcher's side: answers and snapshots that cross, an edit during a push,
an edit between the start and the launch, a lost answer to a call that worked; a
join that is granted after the player has gone elsewhere; a server that must
outlive the session that started it; two launches at once, of one game; a
failure between two files being saved; a commit of one database without the
other; a startup scan that leaves the database locked; a value announced while
it is being changed.

What makes each part correct:

* game engine: every emulator gets the same inputs before the same frames; no
  false desync and no missed one; a stall bounds the drift and ends; a stopped
  game tells its players why and leaves no connection open;
* registry: a password leads to one game, and is free only when that game has
  stopped; idle sessions go, busy ones stay; shutdown leaves nothing behind;
* session: readiness is the present players' word on the present document, a
  started game is one they agreed on, no change is hidden from a watcher;
* launcher session: what runs is what the lobby started, what the host sets
  arrives and stays, and ready means ready;
* commands: no slot is held for nobody, the last game asked for is followed,
  a server runs for a reason, FS-UAE gets the address of its own game;
* launch: the emulator finds all its media, what is restored is what was last
  saved, nothing pristine is saved, the Start button comes back;
* scan: the index is what is on disk, the library follows the index, what is
  indexed stays indexed meanwhile;
* configuration: a checksum is its file's, and what follows the configuration
  agrees with it once the announcements have come to rest.

## Modules

| Module | Models | State and actions |
|---|---|---|
| `GameSync` | `game.go` without the relaying | the abstract game: slots taken, frame, `verified`, stall, rings, stop reason, and the history `sent` of all checksums. `Join`, `Drop`, `FileCheck`, `Ack`, `Tick` (with `checkGame` in it), `LaunchTimeout`, `Cancel`, `Shutdown` |
| `GameEngine` | the functions of `game.go` | the state of the game goroutine and its actions: `JoinAt`, `OnAck`, `OnInput`, `OnCheck`, `OnPong`, `OnText`, `OnGone`, `Tick`, `CheckGame`, `Stop`, `Shutdown`, `Return`; and the turns of the loops a handler is in, one player each: `Skip`, `Queue`, `Flush`, `Overrun` (drops the player, whose farewell is a loop inside the loop). `work` is the goroutine's stack of loops |
| `GameRelay` | `conn.go`, `Run`, the emulators | `GameEngine` between connection readers, writers, the event channel and emulators. A step per event, tick, turn of a loop, word read, buffer written; nothing of a handler is atomic but one turn |
| `LobbyRegistry` | `lobby.go` and the session handlers' part in it | the registry, games' contexts, reapers; a step per critical section of `l.mu` and per goroutine move outside it |
| `SessionEntry` | `session.go` under the mutex | operators on one entry: slot status, state, snapshot, and the guard and effect of each call |
| `LobbySession` | `session.go`, `api.go` | `SessionEntry` under requests of present and former players, and long-polls that wait outside the lock |
| `LauncherSession` | `session.py`, `config_apply.py` | operators on one `NetplaySession` object, one per method |
| `NetplaySession` | `session.py`, `lobby_client.py` over `session.go` | `LauncherSession` per launcher over a `SessionEntry`: user actions, timers, the worker's calls (granted, refused, lost on the way there or back), polls |
| `NetplayCommands` | `netplay.py`, `server_details.py`, `Server.py` | `me` (the `Netplay` object and its server panel), the server that is waited for (`starting`), the lobbies, slots held, joins and leaves on their way; an action per command, announcement, answer, timer and thread step |
| `ConnectionTester` | `connection_tester.py`, and what sets or reads its keys in `netplay.py`, `config_apply.py`, `launcher_config.py` and `launcherapp.py` | the lobby and the host in the configuration, the thread's test, results posted, who answers; `BeginTest`, `TestConnection` (one address each), `HostSet`, and an action per way the configuration is set or used |
| `LaunchFiles` | the `prepare_*` and `copy_*` methods of `launchhandler.py` | operators on a launch: configuration, temporary directory, whether a method has raised |
| `GameLaunch` | `launcherapp.py`, `ui/launch.py`, `gamedriver.py`, `GameChangeHandler.py`, `saves.py` | `LaunchFiles` in the steps of a launch's thread, with its dialog, the player's other actions and the saved files; any step may raise |
| `LibraryScan` | the scanners, `filedatabase.py`, `Database.py`, `startup_scan.py` | the two databases as committed and as seen in the open transaction, the thread's position, the disk; `Stop`, changes on disk, a restart and the startup scan at any moment |
| `LauncherConfiguration` | `Config.set`, `LauncherConfig` and its listeners | values, checksums, screen, and `todo`, the stack of calls: an action per handler as it is called from an announcement, and one per click |
| `GameSyncProofs`, `GameRelayProofs`, `LobbyProofs` (of `LobbyRegistry` and `LobbySession`), `NetplaySessionProofs`, `NetplayCommandsProofs` (of `NetplayCommands` and `ConnectionTester`), `LibraryScanProofs`, `LauncherConfigurationProofs`, `GameLaunchProofs` | | theorems |
| `MCGameRelay`, `MCNetplaySession`, `MCConnectionTester`, `MCGameLaunch`, `MCLibraryScan`, `MCLauncherConfiguration` | | constants for TLC |

`GameRelay` composes `GameEngine` with its surroundings and implements
`GameSync` (`Sync == INSTANCE GameSync WITH ...`: the refinement drops queues
and connections, and closes `done` when the loop is left). `NetplaySession` and
`LobbySession` share `SessionEntry`. `LobbyRegistry` and `LobbySession` look at
the same handlers, one for the registry, the other for one entry's content.
`NetplayCommands` takes a session that `NetplaySession` models in detail as one
that has started or not, and adds the games around it. What a game is launched
with is `ConnectionTester`'s, which takes the session as the lobby it follows. `GameLaunch` composes
`LaunchFiles` with the thread that runs it.

Abstractions that carry weight:

* a handler of the game goroutine is as many steps as its loops have turns, so
  that writers, readers and emulators move in the middle of a broadcast, and a
  drop interrupts it. `handled` remembers what the last handler to return left:
  that is the abstract game's state, which a handler changes in one step;
* `HandleJoin` waits for the reply to its join or for the end of the game, and
  select may pick the end when both are there: an accepted player then loses its
  connection (`JoinReplied`, `JoinAbandoned`);
* a checksum is its value, a word its kind and argument. Pings, lag and
  statistics that only reach the log are left out; the ping words are kept,
  because they fill queues;
* an emulator is external (FS-UAE's C client): it acknowledges the frames it
  received, with two checksums before each acknowledgement, and may diverge. In
  `GameLaunch` it changes files and ends;
* a document is the part the lobby's hash covers and the part it does not;
* in `NetplaySession` revision numbers are forgotten: `RevisionTellsAll` of
  `LobbySession` is the reason a watcher has news exactly when the entry has
  changed. What is posted to a UI thread is one snapshot and one answer; the
  module's head says why no more is needed;
* in `NetplayCommands` servers on other machines do not fail, but any call may
  be refused and any answer lost. The UI thread waits for a server it starts
  (`starting`): commands and what is posted then wait as well, all else goes on;
* a lobby, in `ConnectionTester`, is what has one list of addresses and one
  port: two lobbies may share an address. The list and the port are set together
  and announced at once;
* files are named by their sources in `LaunchFiles` and by paths in the other
  modules; a content is a version, an archive the set of its members. Everything
  a launch copies goes to one directory under its base name, and nothing looks
  for clashes: `CopyAll` lets the last file of a name replace the ones before
  it, and `MediaReady` says of such files that one of them is there.
  `NameAssumption` excludes names that the launch gives its own directories
  (`DH0` to `DH9`, `DH0/S`), and a hard-linked `Save Disk.adf`, into which
  `prepare_floppies` would write the save disk;
* a file's time stamp, in `LibraryScan`, is the number of the scan that saw it:
  no two scans add a file within one second;
* `LauncherConfiguration` follows the keys with a checksum beside them and
  `amiga_model`. What is set without anyone setting another value is left out;
* requests that validation refuses change nothing and are left out.

## Runs

| Run | Question | Bounds, and why they are enough |
|---|---|---|
| `game_sync` | Does the stall keep every ring entry in place until it is compared, for every checksum history? Is no frame counted during a stall, does it end, and does a divergence stop the game for everyone? | 2 players, drift 1, ring 2 (the smallest the assumption allows, so every entry is reused), 4 frames |
| `game_relay` | Do all emulators see the same inputs before the same frames; is a closed channel ever used when a flush drops players in the middle of a handler; is everyone who kept up told why the game ended; is every handler, with all it drops, a step of `GameSync`? | writer queue of 2 buffers, automatic flush at 4 words: both limits are met within one frame with its ping, the status words and one input; an emulator may leave at any point, and both may overflow in one handler: a drop, its farewell, a second drop in the middle of it. 2.2 million states. A stall needs two frames more, which with all this is beyond a run: that it is a stall of `GameSync`, and a desync one of its, is what `RelayRefinesSync` proves; with 3 frames, a diverging emulator and nobody leaving TLC finds no error either (1.4 million states) |
| `game_relay_joins` | Do players of one game run one emulator version, and does every connection end with the game? | 3 connections for 2 slots, one of another version; one may leave at any point, so that its slot is taken again, and one sends a text; nothing is ticked |
| `lobby_registry` | Can two games share a password, the reaper take a busy session or leave an idle one, or shutdown leave something behind or not return? | 2 games, 2 passwords, 2 touches per session: all removers meet on one game while the other takes its password |
| `lobby_session` | Does readiness survive late and foreign requests, and does a long-poll miss a change? | 2 slots, 3 tokens, 8 revisions: the guest's slot is freed and taken again, and the document replaced |
| `netplay_session` | Do launchers launch what the lobby started, is Start enabled only for what the lobby has, do pushes and the start arrive? | 2 launchers, one edit, re-check or leaving and one lost call at any moment, the start besides; the host's first push makes an edit a second version. One user action is what liveness can be checked with in the time; the invariants were also checked with two (3.3 million states) |
| `netplay_commands` | Is a slot ever held for nobody, an old game followed, a server left running (also one whose ready line comes as the wait for it ends) or stopped under a running game? Does every join end? | 3 games (one announced, two of the launcher's own), 2 servers, 4 commands and the closing of the page: a join, a second one while the first is answered, hosting alongside and a reset all meet. 200 000 states; with 5 commands (2.6 million) it holds as well |
| `connection_tester` | Is a game launched with what was verified for it, and is an address that answers found in the end? | 2 lobbies, of two addresses and of one that both have; 4 changes of the configuration and 2 results on their way: a test of one lobby is answered while another is under way or over, and the first lobby comes back. 135 000 states |
| `game_launch` | Does the emulator get its media, is what is restored the latest, is nothing pristine saved, does Start come back? | 2 launches of a floppy game, two disks of which have one name, or a game of the database with a CD, together or one after the other; 2 changes by playing, so that one is saved over the other |
| `library_scan` | Is the index right after a scan, does the library follow it, does a scan disturb what it works on? | a configuration and an archive with 2 members in directories scanned once or twice, 2 scans, 2 changes of files, with Stop, errors, a restart and the startup scan: what one scan leaves undone is there for the next. 620 000 states |
| `configuration` | Can a checksum become another file's, and do screen, Kickstart and implicit values agree with the configuration at rest? | 3 models (one not first in the list, one on CD with a sub-model, one whose plain sub-model is not first), one floppy drive, a list of 2, a CD drive and its list, 4 turns of the player or a scan: each turn's announcements run to their end, so what two turns leave is met by two more. 1.1 million states |
| `configuration_saved` | Is there nothing to save when the configuration counts as unchanged? | the same; a violation, below |

`netplay_commands` and `configuration` turn deadlock checking off: an idle
launcher rests once the bounded commands are used up. In `connection_tester`
servers may always change; in the others each module has a final step, enabled
only when nothing is left to do.

### Fairness

* `GameSync`: the ticker and the loop go on, and a connected emulator answers
  every frame word (in FS-UAE it has no other state); nobody has to join, leave
  or cancel. `GameRelay`: goroutines run, i.e. the loop takes events and ticks
  that are there, readers and writers move; its fairness is written without
  ENABLED, as the loop's guards. Emulators need not do anything.
* `LobbyRegistry`: goroutines run and the idle timer fires. `game.Run` is sure
  to return only when its context is done. No request and no shutdown is forced.
* `LobbySession`: a parked request whose channel was closed runs again. Its own
  timer is not assumed, so that an answer is due to the change alone.
* `NetplaySession`: the three threads of a launcher run, timers fire, polls are
  answered (a failed one after its retry). Users need do nothing. The liveness
  properties exclude executions in which a call was lost: the launcher does not
  repeat a failed push or report and says so to the user.
* `NetplayCommands`: the thread of a join makes its call and its result is
  handled, the thread of a leave makes its call, the wait for a server ends. No
  command, announcement or server is forced.
* `ConnectionTester`: the thread goes on, each connection it opens is answered or
  refused, and the UI thread gets to what was posted. That a server which
  accepts a connection also answers or closes it is an assumption: `recv` has no
  timeout (`connection_tester.py:95-96`).
* `GameLaunch`: the thread of a launch goes on, the player leaves the emulator
  some time, and the UI thread gets to what the thread posted to it.
* `LibraryScan` states none: every scan was found to end, with weak fairness of
  `ScannerThread`, but no run is about it.
* `LauncherConfiguration` states none and has no liveness property in a run. A
  call stack that never came to an end would show as a run without end; with
  weak fairness of `Step`, `[]<>Idle` was found to hold with 3 turns.

### Findings

* `SavedAsStored`: `load` marks a configuration unchanged with the comment that
  it "does not need to be saved", and the save button is on for `"1"` only.
  Closing the custom options page sets every key it does not know to the empty
  string, `__changed` with them; `Config.set` puts `"1"` back only if that was
  not the value before. So after an edit, writing an option on the page and
  closing it turns the save button off with both unsaved; a further edit turns
  it on again.
Disagreements which no run of their own shows:

* `scan_game_database` passes over a listed variant with the comment "have this
  entry already and no files have been deleted since the last time"
  (`gamescanner.py:172-173`). `get_last_event_stamps` takes the stamp of deletions
  from the column of insertions (`filedatabase.py:242`), so the library looks at
  listed variants again only when something was added, and a game whose archive
  is deleted stays listed. The last part of `LibraryFollows` says what the stamps
  still ensure: after an insertion what is listed is there. Without its
  `db.ins # lib.del` TLC finds the deleted archive; with the second column read
  it does not.
* `do_start_game` and `on_irc` reset the netplay configuration, "as the same game
  server cannot be used again" (`netplay.py:251-252`), but `set_host` sets what a
  test found whatever the configuration is by then. A test that ends after the
  reset leaves its host in `__netplay_host`, and a game started locally
  (`StartLocalGame`) is given it as `netplay_server` (`launcherapp.py:520`).
  Netplay games are not affected: `LaunchesVerified`.
* `/reset` sets `connection_tester` to `None` (`netplay.py:498`), and signals hold
  their listeners weakly. A tester whose thread runs goes on all the same; one
  that has not seen a game yet is gone, and `connect` makes no new one as long as
  the launcher is connected. The games after that are launched with the first
  address listed, which "is not verified yet". `VerifiedInTheEnd` excepts exactly
  this (`tester # "gone"`).
* `sendError` puts its word in front of what is pending, so a player can get
  `ERROR_GAME_STOPPED` before the text that says who left; the design document
  and the tests list the text first (`game.go:502`).
* The automatic flush compares with `==` and `queueTags` adds words without a
  test, so a queue can pass the limit (`game.go:491`).
* A tick during a stall returns before any flush, so a text waits for the
  slowest player, where the design document says it flows (`game.go:596`). Its
  state diagram ends a running game when the last player has gone, `onGone` when
  the first has (as the text of the same document says).
* `start_game` refuses to start before an edit is sent ("Starting now would
  start the version before the edit", `session.py:357-358`), but only queues the
  start. An edit the host makes after that, and before the running snapshot is
  handled, is launched by the host alone; a player's would be put back.
  `PlayersLaunchTheGame` says exactly when the host's document may differ.
* `GameChangeHandler.py` writes text to a file opened for bytes, so a deleted
  file cannot be noted, and the launch's saving stops there.
* Stop in a scan purges the rows of the directory whose files were not yet met;
  the next scan adds them again.
* Loading a configuration whose sub-model differs from the one shown re-enters
  `ModelGroup` in some cases (a CD model with a sub-model), which empties media
  that were just loaded, and marks the configuration unchanged after it.
* `MediaListGroup.on_activate_item` takes the number of the row for that of the
  key, so a list with gaps inserts another file or none.
* A Kickstart browsed or loaded while the choice shows Default loses its
  checksum; one typed as an option is not looked at until something else calls
  `update_kickstart`. `AtRest` has the two as its exceptions (`typed`, and
  a `"custom"` choice).
* A configuration file with a model the launcher does not know has its model
  replaced by the first one while it is loaded, and counts as saved after that.
  `AtRest` excepts it: it says the saved model is the file's if that is a known
  one.

## Proofs

Every theorem holds for all values of the constants, under the named
assumptions, and without fairness.

* `GameSyncProofs` (assumes `SizeAssumption` and `RingAssumption`: the drift is
  smaller than the ring, 25 and 100 in the code; nothing checks
  `Config.MaxDrift`). `TypeCorrect`, `DriftIsBounded`, `DesyncIsReal`,
  `DesyncIsCaught`. The properties speak of the rings only when they are
  compared, so they are not inductive. `IInv` adds that an emulator is at most
  one checksum of each kind ahead of its acknowledgement (`SentInv`), that the
  frame stays within the drift of what is verified (`DriftInv`), that every
  checksum still to be compared is in its ring entry (`RingInv`, from
  `DistinctEntries`: tags less than a ring apart have different entries) and
  that what was verified agreed (`AgreeInv`).
* `GameRelayProofs` (assumes `EngineAssumption` and `RelayAssumption`).
  `RelayTypeCorrect`, `InLockStep`, `NeverPanics`, `EveryoneIsTold`,
  `VersionsAreTheSame`, in the middle of every handler, for any number of
  connections and depth of queues. Its `IInv` has seven parts. `SeatInv`: a
  connection has one seat at most and a player's channel is open, which is why
  nothing closes one twice. `EventInv` and `OpenInv` say where a connection is
  on its way through `HandleJoin`, that its join carries its emulator's version,
  and that a socket is closed by its emulator, or by its writer after the last
  buffer. `VersionInv`: the game's version is that of its players. `WorkInv`:
  the last words are on the stack only after the loop of `Run`, with the reason
  of `stop`, and reach every player that is left. `StreamInv`: what a player
  received, has queued and has pending, followed by the word the loops on the
  stack still owe it (`Debt`), is what was relayed; one loop at most carries a
  game word (`OneGame`), so the order is kept through any cascade of drops.
  `TellInv`: a channel that was closed belongs to someone who left or was too
  slow, or the reason is in it or was read from it (`Told`). What sequences of
  words need (`GameWords` of a concatenation, `FlattenSeq` of an appended
  buffer) are lemmas by `NatSetInduction`: an induction theorem over an operator
  cannot be instantiated, but one over the set of numbers for which a fact holds
  can, and follows from the well-foundedness of the naturals.
* `GameRelayProofs` also has the refinement, `RelayRefinesSync`, which states
  `ImplementsSync`. Every step maps to one of `GameSync` or to none, given `IInv`
  and two more invariants. `GameSync` assumes what emulators send, and in which
  order; `StepInv` proves it of the emulators, readers and the event channel:
  what is in a socket and in the channel from one player (`Coming`, the words
  picked from `events` and `up`) are, by number, the checksums and
  acknowledgements that follow those handled (`InOrder`), and nobody
  acknowledges a frame not relayed, as it answers words it received, which are
  a prefix of what was relayed. So a checksum is filed under the frame its
  sender meant, and an acknowledgement is always for the next one. `HandlerInv`
  says what a handler in progress has done since `handled` was left: dropped
  players, with `stop` to match, and, if `checkGame` is at the bottom of its
  stack (`Ticks`), begun a frame that no stall held up. A handler is then one
  step of `GameSync` when it returns: `Drop` of all the players its cascade
  cost, `Tick` of those lost by its broadcasts, or `Shutdown`. `RelayIsInSync`
  combines this with what `GameSyncProofs` proves: where `MaxDrift < RingSize`,
  drift is bounded, a desync is real and a divergence is caught in time, with
  queues, writers and dropped players around the game.
* `LobbyProofs`, of `LobbyRegistry` (assumes `RegistryAssumption`).
  `RegistryTypeCorrect`, `GamesAreAddressed`, `PasswordsAreHeld`, `ShutdownIsComplete`,
  `TheBusyAreSpared`. Two running
  games with one password can only come from a game that runs unregistered
  while a new one takes its hash; `Unregistered` says that this needs a
  cancelled lobby, where `ShutdownOrder` says nothing is reserved any more, and
  `Apart` that a session started late does not have the password of such a
  game. `Watched` gives each registered game a goroutine that shutdown waits
  for, which is why the registry is empty when it returns. That the busy are
  spared is an action property: the reaper compares under the lock the count of
  calls it took when its wait began.
  Of `LobbySession` (assumes `EntryAssumption`). `SessionTypeCorrect`,
  `ReportsAreOwn`, `StartIsAgreed`, `RevisionIsComplete`. Tokens name one slot
  each (`SeatsKept`), a kept report is of the present document and its holder's
  last word (`ReportsKept`), and after the start nothing moves (`StartKept`);
  `ViewsKept` bounds a watcher's revision by the entry's.
* `NetplaySessionProofs` (assumes `EntryAssumption`, `NoMediaAssumption` and
  `NetplayAssumption`). `NetplayTypeCorrect`, `StartIsForTheScreen`,
  `ReadyIsTheDocument`, `EveryoneLaunchesTheGame`, `HostEditsAreKept`. `IInv`
  says what each thread's message is worth when it arrives: `PushOK`, that a
  host has one push at a time and the lobby has the document last pushed unless
  that push or its answer is on its way; `ReportOK`, that a report, queued or in
  its slot, is of a document the launcher has seen; `Followed`, that a player's
  document is the one last applied or is to be restored; `SnapTrue` and `After`,
  that a snapshot tells what the entry is or has been, in order; `SlotOK` and
  `Tokens`, whose slot is whose. `GoesOn` is what the lobby may do to the entry
  without breaking any of it for a launcher; `CallGoesOn` shows that every
  granted call, its answer lost or not, does only that to each of them.
* `NetplayCommandsProofs`, of `NetplayCommands` (assumes `CommandsAssumption`).
  `CommandsTypeCorrect`, `SlotsAreAccounted`, `LatestIsFollowed`,
  `ServersAreNeeded`, `PlayedServerIsKept`. A join
  carries the generation it was asked in: `JoinsAsked` says that one of the
  present generation is for the game last wanted, which makes the check in
  `joined_game` enough. `HostingOK` relates the hosted server, the games on it
  and the one left running; `StartingOK`, that nothing is followed, joined or hosted while a
  server is waited for, and no game is on it yet; `SeenInTime`, `SeenTrue` and `Opened` say what a posted snapshot is
  worth when it is handled.
  Of `ConnectionTester` (assumes `TesterAssumption`). `TesterTypeCorrect`,
  `LaunchUsesVerified`. What is verified now is the last result of a test begun
  since the configuration was set. `InOrder`: there is one test at a time, so
  results come in the order their tests began, and none of an older
  configuration is behind one of the present; `Current`, that such a test or
  result is of the lobby in the configuration; `Published`, that a verified
  address is the host, with nothing older left to be published. So it is one of the addresses of the game launched, and
  the launch takes it.
* `LibraryScanProofs` (assumes `ScanAssumption`). `ScanTypeCorrect`,
  `ScansAreAccurate`, `LibraryIsFollowing`, `IndexStaysStable`. `RowsSound`
  says what any row of the index is worth at any point of a scan, `InPlace`
  where the scan is, `Kept` that it has not lost a row that is right, `Followed`
  that what it has passed is right, which gives `Accurate` when it has passed
  everything. `Stamps` relates the library's stamps to the rows added since, so
  that a scan that was cut short is made good by the next (`Lists`).
* `LauncherConfigurationProofs` (assumes `ConfigurationAssumption`).
  `ConfigurationTypeCorrect`, `ChecksumsAreTrue`, `AllAgreeAtRest`.
  `ChecksumTrue` is not
  inductive: `update_kickstart` keeps the checksum of a Kickstart that is named,
  whatever file is in use. `KickstartSum` adds that a named Kickstart with a
  checksum is the one in use. `SetKeeps` proves this for any set of values that
  `Fits`, and each action is shown to set such values. `AtRest` speaks of the
  moments when no call is left; what holds while calls are left is `Follows`. It
  names the calls that are still to come whenever two things disagree:
  `ModelFollows` lists the seven stages in which the choices can be while they
  follow the model, with what may be left below the innermost call (`After`: no
  call that concerns the model, or just the choice of a sub-model that goes with
  the model set last); `RomFollows` and `InUse` say who is still to look at the
  Kickstart; `KickstartLoads` and `Aim`, that a load that goes on will end with
  the model and the Kickstart of its file, which is what makes it right to mark
  the configuration as saved at its end. One lemma per handler shows that it
  leads from stage to stage (`ModelStep`, `RomStep`, `StateStep`), one per turn
  that it begins at one (`TurnFollows`).
* `GameLaunchProofs` (assumes `PlayAssumption`: what a player writes is not what
  was there to begin with; for the media also `NameAssumption` and
  `ConfAssumption`: what a configuration is, and that no file of it is called as
  a launch calls what it makes itself; two files may have one name). `LaunchTypeCorrect`,
  `OnlyChangesAreSaved`, `LatestIsRestored`, `MediaAreReady`. A launch
  saves what differs from what it noted before the game; that this is not
  pristine also has to hold for a file linked to its source, which another
  launch may write to. `Noted` says that a file that is pristine while the
  emulator runs is as it was noted; `DiskGoesOn`, that whatever a step writes
  through links is not pristine; `ToSave`, that this still holds of each file
  when its turn to be saved comes. `LatestIsRestored` rests on `Latest`: of a
  directory, what the last launch that ended well left there is what is saved or
  deleted there, unless a launch that is not over is about to write it. `RestoresLatest` excepts
  the files that a launch is still saving, has failed to save or raced for: in
  `contested` each launch remembers those that others write to through links as
  well. Two launches show the race for one directory; that a third can write to
  a source while two are linked to it came up in the proof. `MediaAreReady`
  follows one launch through its steps: under every name in its directory is
  what the configuration brings under that name (`Shaped`, `Fits`), also after
  one file replaced another (`CopiesFiles`, `LastOf`); each `prepare_*` method
  leaves in the configuration what was asked for or the name of its copy
  (`Placed`), unless it raises; and nothing but the launch itself touches its
  directory before the emulator runs.

Listed theorems that name no run's property are `RelayIsInSync`, which combines
others, `DriftIsBounded`, which is the safety part of `StallsHoldAndEnd`, and, on
the way to others and not checked on small instances, the type invariants,
`AddressedByPassword` and `OwnReports`.

Only model-checked: liveness, which rests on fairness and ENABLED. Of the
refinement the safety part is proved (`SafeSpec` of the one implements
`SafeSpec` of the other), which is all that `ImplementsSync` says.

## Not modelled

* Connection dispatch (its accept loop reads the registry only) and the deadline
  ticker: small, and without a state another part sees.
* The bit layout of words, passwords and hashes: pure functions.
* The timeout in `shutdown` of a game, after which writers blocked on a dead
  socket are left to the operating system; signal handling of the server.
* The IRC connection, player lists and talk; commands that only set an option.
* Drivers of platforms other than the Amiga, and the options a launch passes on
  as they are; the expansion of options into the implicit configuration
  (`ui/config/expand.py`), a long function without state.
* Imports, the rescan of one game, the synchronisers of the online database,
  downloads and images: sequential code over HTTP, files and SQLite.
* Settings, hard drives and the extended ROM in the configuration: set like what
  is modelled. Input devices, widgets, vendored code, build scripts.

These are two thirds of the implementation's lines and more: tables, widgets
and glue, in which there is little to state that the code does not say.

## Plan

Done, in this order: the game (`GameSync`, `GameEngine`, `GameRelay`), the lobby
(`LobbyRegistry`, `SessionEntry`, `LobbySession`), the launcher's session over
it (`LauncherSession`, `NetplaySession`), launching (`LaunchFiles`,
`GameLaunch`), scanning (`LibraryScan`), the netplay commands
(`NetplayCommands`), the configuration (`LauncherConfiguration`), the connection
tester (`ConnectionTester`), and the theorems above. What would come next:

1. `NetplayCommands` over a `SessionEntry` per game, in place of its summary.
2. Word formats of `fsnp` as operators against a reference definition.
