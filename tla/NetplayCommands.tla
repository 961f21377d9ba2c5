-------------------------- MODULE NetplayCommands --------------------------
(***************************************************************************)
(* How one launcher gets into lobby games and out of them: the commands    *)
(* and announcements of netplay.py, and the lobby server /hostgame runs    *)
(* (Server.py, server_details.py).                                         *)
(*                                                                         *)
(* The UI thread runs commands, announcements, timers and what other       *)
(* threads post to it, one at a time; creating a game and waiting for a    *)
(* server to listen block it.  A join has a thread of its own, and so has  *)
(* the leaving of a slot nobody wants any more; the session has its        *)
(* watcher and its worker.                                                 *)
(*                                                                         *)
(* A session is what NetplaySession models in detail: here it has only     *)
(* started or not, which is also whether FS-UAE was launched.  What it is  *)
(* launched with is ConnectionTester's.  Servers on another machine do not *)
(* fail, but any call may be refused, and its answer get lost.             *)
(***************************************************************************)
EXTENDS Naturals, FiniteSets

CONSTANTS
    None,
    Announced,        \* games other operators create and announce
    Own,              \* ids of games this launcher creates
    Servers,          \* the processes /hostgame starts
    CommandLimit      \* bound of the model: commands and announcements

Games == Announced \cup Own

VARIABLES
    me,          \* Netplay and its server view
    starting,    \* the server command_hostgame waits for, or None
    lobby,       \* the state of each game in its lobby
    runs,        \* the server each created game is on, None for one elsewhere
    held,        \* slots the lobbies hold for this launcher: a game and a token
    joins,       \* joins on their way, with the generation they were asked in
    lost,        \* slots whose token or whose leaving got lost on the way
    seen,        \* the snapshot the watcher has posted, or None
    launched,    \* the games FS-UAE was launched for
    wanted       \* history: the game last joined or created

vars == <<me, starting, lobby, runs, held, joins, lost, seen, launched, wanted>>

Tokens == Nat
SlotIds == [game : Games, token : Tokens]
Sessions == [game : Games, token : Tokens, host : BOOLEAN, started : BOOLEAN]
Calls == [what : {"leave", "end"}, slot : SlotIds]

(* A server that starts, and the line it has printed. *)
Starts == [game : Own, server : Servers, line : {"none", "listening", "error"}, alive : BOOLEAN]

ASSUME CommandsAssumption ==
    /\ None \notin Games \cup Servers
    /\ None \notin Sessions \cup Starts
    /\ Announced \cap Own = {}
    /\ CommandLimit \in Nat

LauncherStates ==
    [page : BOOLEAN, channel : BOOLEAN, session : Sessions \cup {None}, hosted : BOOLEAN, leftRunning : BOOLEAN,
     joining : Games \cup {None}, generation : Nat, view : Servers \cup {None},
     alive : SUBSET Servers, calls : SUBSET Calls]

TypeOK ==
    /\ me \in LauncherStates
    /\ starting \in Starts \cup {None}
    /\ lobby \in [Games -> {"none", "open", "running", "ended"}]
    /\ runs \in [Games -> Servers \cup {None}]
    /\ held \subseteq SlotIds
    /\ joins \subseteq [slot : SlotIds, answer : {"none", "granted", "failed"}]
    /\ lost \subseteq SlotIds
    /\ seen \in [token : Tokens, state : {"none", "open", "running", "ended"}] \cup {None}
    /\ launched \subseteq Games
    /\ wanted \in Games \cup {None}

Init ==
    /\ me = [page |-> TRUE, channel |-> FALSE, session |-> None, hosted |-> FALSE, leftRunning |-> FALSE,
             joining |-> None, generation |-> 0, view |-> None, alive |-> {}, calls |-> {}]
    /\ starting = None
    /\ lobby = [g \in Games |-> IF g \in Announced THEN "open" ELSE "none"]
    /\ runs = [g \in Games |-> None]
    /\ held = {}
    /\ joins = {}
    /\ lost = {}
    /\ seen = None
    /\ launched = {}
    /\ wanted = None

SlotOf(s) == [game |-> s.game, token |-> s.token]

(* The game's lobby can still be reached. *)
Reachable(g) == runs[g] \in me.alive \cup {None}

-----------------------------------------------------------------------------
(* Leaving the current game *)

(* ServerDetails.stop_server, Server.stop *)
StopServer(m) == [m EXCEPT !.alive = @ \ {m.view}, !.view = None]

(* release_hosted_server *)
Release(m) == IF m.leftRunning THEN m ELSE StopServer(m)

(* leave: a session that has started is only let go *)
LeaveCalls(s) ==
    IF s.started THEN {} ELSE {[what |-> IF s.host THEN "end" ELSE "leave", slot |-> SlotOf(s)]}

(* mutant of EndSession: the game left running is not remembered *)
EndSessionForgets(m) ==
    LET s == m.session
        left == [m EXCEPT !.session = None, !.generation = @ + 1, !.joining = None]
    IN  IF s = None THEN left
        ELSE Release([left EXCEPT !.hosted = FALSE, !.calls = @ \cup LeaveCalls(s)])

(* end_session *)
EndSession(m) ==
    LET s == m.session
        left == [m EXCEPT !.session = None, !.generation = @ + 1, !.joining = None]
    IN  IF s = None THEN left
        ELSE Release([left EXCEPT !.leftRunning = @ \/ (m.hosted /\ s.started),
                                  !.hosted = FALSE,
                                  !.calls = @ \cup LeaveCalls(s)])

BeginSession(m, s) == [EndSession(m) EXCEPT !.session = s]

-----------------------------------------------------------------------------
(* Commands.  Each is counted by the generation it begins. *)

Free == starting = None
Command == me.page /\ Free /\ me.generation < CommandLimit

(* on_irc: into a game channel, from another one or from none; or out of it *)
EnterChannel ==
    /\ Command
    /\ me' = [EndSession(me) EXCEPT !.channel = TRUE]
    /\ UNCHANGED <<starting, lobby, runs, held, joins, lost, seen, launched, wanted>>

PartChannel ==
    /\ Command
    /\ me.channel
    /\ me' = [EndSession(me) EXCEPT !.channel = FALSE]
    /\ UNCHANGED <<starting, lobby, runs, held, joins, lost, seen, launched, wanted>>

(* command_reset, which also closes the server view *)
CommandReset ==
    /\ Command
    /\ me' = [StopServer(EndSession(me)) EXCEPT !.leftRunning = FALSE]
    /\ UNCHANGED <<starting, lobby, runs, held, joins, lost, seen, launched, wanted>>

(* disconnect, as the netplay page is destroyed, which closes the server view *)
Disconnect ==
    /\ me.page /\ Free
    /\ me' = [StopServer(EndSession(me)) EXCEPT !.page = FALSE]
    /\ UNCHANGED <<starting, lobby, runs, held, joins, lost, seen, launched, wanted>>

(* on_session_announce, from the channel's operator or from command_joingame *)
SessionAnnounce(g) ==
    /\ Command
    /\ me.channel
    /\ lobby[g] # "none"
    /\ me.session # None => me.session.game # g
    /\ me.joining # g
    /\ LET left == EndSession(me)
       IN  /\ me' = [left EXCEPT !.joining = g]
           /\ joins' = joins \cup {[slot |-> [game |-> g, token |-> left.generation], answer |-> "none"]}
    /\ wanted' = g
    /\ UNCHANGED <<starting, lobby, runs, held, lost, seen, launched>>

(* create_session's success *)
Created(m, g) ==
    BeginSession(m, [game |-> g, token |-> m.generation + 1, host |-> TRUE, started |-> FALSE])

(* create_session by launcher state m in the lobby on server s (None: elsewhere): *)
(* the command makes created or failed of it, and an answer that got lost fails.  *)
CreateSession(m, g, s, created, failed) ==
    LET slot == [game |-> g, token |-> m.generation + 1]
        opened == /\ lobby' = [lobby EXCEPT ![g] = "open"]
                  /\ runs' = [runs EXCEPT ![g] = s]
                  /\ held' = held \cup {slot}
    IN  /\ lobby[g] = "none"
        /\ \/ me' = created /\ opened /\ wanted' = g /\ UNCHANGED lost
           \/ me' = failed /\ opened /\ lost' = lost \cup {slot} /\ UNCHANGED wanted
           \/ me' = failed /\ UNCHANGED <<lobby, runs, held, lost, wanted>>
        /\ UNCHANGED <<joins, seen, launched>>

(* command_startgame *)
CommandStartGame(g) ==
    /\ Command
    /\ me.channel
    /\ LET left == EndSession(me)
       IN  CreateSession(left, g, None, Created(left, g), left)
    /\ UNCHANGED starting

(* running_hosted_server *)
Running(m) == m.view \in m.alive

(* the end of command_hostgame; present stops another server than s *)
Hosting(m, s) ==
    [(IF m.view = s THEN m ELSE StopServer(m)) EXCEPT !.hosted = TRUE, !.view = s]

(* command_hostgame while its lobby runs a game left running: in the same lobby, *)
(* or refused when the port or the addresses are others                          *)
CommandHostAlongside(g, same) ==
    /\ Command
    /\ me.channel
    /\ LET left == EndSession(me)
       IN  /\ Running(left)
           /\ IF same THEN CreateSession(left, g, left.view, Hosting(Created(left, g), left.view), left)
              ELSE /\ me' = left
                   /\ UNCHANGED <<lobby, runs, held, joins, lost, seen, launched, wanted>>
    /\ UNCHANGED starting

(* start_hosted_server, once the server reported that it listens *)
Listening(m, s) == [m EXCEPT !.alive = @ \cup {s}, !.leftRunning = FALSE]

(* command_hostgame stops the server it started if the game cannot be created. *)
NotHosted(m, s) == [m EXCEPT !.alive = @ \ {s}]

(* command_hostgame begins to start a server; s has not been started before *)
CommandHostGame(g, s) ==
    /\ Command
    /\ me.channel
    /\ lobby[g] = "none"
    /\ \A h \in Games : runs[h] # s
    /\ s \notin me.alive
    /\ LET left == EndSession(me)
       IN  /\ ~Running(left)
           /\ me' = left
    /\ starting' = [game |-> g, server |-> s, line |-> "none", alive |-> TRUE]
    /\ UNCHANGED <<lobby, runs, held, joins, lost, seen, launched, wanted>>

(* The server listens and says so, or says why not and exits. *)
ServerReports(listens) ==
    /\ starting # None /\ starting.alive /\ starting.line = "none"
    /\ starting' = IF listens THEN [starting EXCEPT !.line = "listening"]
                   ELSE [starting EXCEPT !.line = "error", !.alive = FALSE]
    /\ UNCHANGED <<me, lobby, runs, held, joins, lost, seen, launched, wanted>>

StartingExits ==
    /\ starting # None /\ starting.alive
    /\ starting' = [starting EXCEPT !.alive = FALSE]
    /\ UNCHANGED <<me, lobby, runs, held, joins, lost, seen, launched, wanted>>

(* The wait ends with the line that it listens: the game is created there. *)
HostGameStarted ==
    /\ starting # None /\ starting.line = "listening"
    /\ starting' = None
    /\ LET g == starting.game
           s == starting.server
           up == Listening(me, s)
       IN  IF starting.alive THEN CreateSession(up, g, s, Hosting(Created(up, g), s), NotHosted(up, s))
           ELSE me' = NotHosted(up, s) /\ UNCHANGED <<lobby, runs, held, joins, lost, seen, launched, wanted>>

(* mutant of HostGameFails: the server that did not report in time is left alone *)
HostGameAbandoned ==
    /\ starting # None
    /\ starting' = None
    /\ me' = IF starting.alive THEN [me EXCEPT !.alive = @ \cup {starting.server}] ELSE me
    /\ UNCHANGED <<lobby, runs, held, joins, lost, seen, launched, wanted>>

(* The wait ends in another way: by the time limit, also as the line comes, by *)
(* an error or an exit.  The server is stopped.                                *)
HostGameFails ==
    /\ starting # None
    /\ starting' = None
    /\ UNCHANGED <<me, lobby, runs, held, joins, lost, seen, launched, wanted>>

(* There is no server to start, or it cannot be launched. *)
CommandHostFails ==
    /\ Command
    /\ me.channel
    /\ LET left == EndSession(me)
       IN  /\ ~Running(left)
           /\ me' = left
    /\ UNCHANGED <<starting, lobby, runs, held, joins, lost, seen, launched, wanted>>

(* The Stop server button *)
PressStopServer ==
    /\ Free
    /\ me.view # None
    /\ me' = StopServer(me)
    /\ UNCHANGED <<starting, lobby, runs, held, joins, lost, seen, launched, wanted>>

(* The server exits by itself; _check_server sees it at its next look. *)
ServerExits(s) ==
    /\ s \in me.alive
    /\ me' = [me EXCEPT !.alive = @ \ {s}]
    /\ UNCHANGED <<starting, lobby, runs, held, joins, lost, seen, launched, wanted>>

CheckServer ==
    /\ Free
    /\ me.view # None
    /\ me.view \notin me.alive
    /\ me' = StopServer(me)
    /\ UNCHANGED <<starting, lobby, runs, held, joins, lost, seen, launched, wanted>>

-----------------------------------------------------------------------------
(* Joins and leaves, each by its own thread *)

Answer(j, answer) == joins' = (joins \ {j}) \cup {[j EXCEPT !.answer = answer]}

(* join: the lobby gives a slot, gives one but its answer is lost, or gives none. *)
JoinCall(j) ==
    /\ j \in joins
    /\ j.answer = "none"
    /\ \/ /\ lobby[j.slot.game] = "open"
          /\ Reachable(j.slot.game)
          /\ held' = held \cup {j.slot}
          /\ \/ Answer(j, "granted") /\ UNCHANGED lost
             \/ Answer(j, "failed") /\ lost' = lost \cup {j.slot}
       \/ Answer(j, "failed") /\ UNCHANGED <<held, lost>>
    /\ UNCHANGED <<me, starting, lobby, runs, seen, launched, wanted>>

Asked(j) == j.slot.token = me.generation

(* mutant of JoinedGame: the answer is followed whatever came between *)
JoinedGameAnyhow(j) ==
    /\ Free
    /\ j \in joins
    /\ j.answer # "none"
    /\ joins' = joins \ {j}
    /\ me' = IF j.answer = "granted"
             THEN BeginSession(me, [game |-> j.slot.game, token |-> j.slot.token, host |-> FALSE, started |-> FALSE])
             ELSE [me EXCEPT !.joining = None]
    /\ UNCHANGED <<starting, lobby, runs, held, lost, seen, launched, wanted>>

(* mutant of JoinedGame: a slot that came too late is dropped *)
JoinedGameDrops(j) ==
    /\ Free
    /\ j \in joins
    /\ j.answer # "none"
    /\ joins' = joins \ {j}
    /\ me' = IF ~Asked(j) THEN me
             ELSE IF j.answer = "failed" THEN [me EXCEPT !.joining = None]
             ELSE BeginSession(me, [game |-> j.slot.game, token |-> j.slot.token, host |-> FALSE, started |-> FALSE])
    /\ UNCHANGED <<starting, lobby, runs, held, lost, seen, launched, wanted>>

(* mutant of JoinedGame: after a failure the game still counts as being joined *)
JoinedGameStuck(j) ==
    /\ Free
    /\ j \in joins
    /\ j.answer = "granted"
    /\ Asked(j)
    /\ joins' = joins \ {j}
    /\ me' = BeginSession(me, [game |-> j.slot.game, token |-> j.slot.token, host |-> FALSE, started |-> FALSE])
    /\ UNCHANGED <<starting, lobby, runs, held, lost, seen, launched, wanted>>

(* joined_game, and leave_quietly for a slot that came too late *)
JoinedGame(j) ==
    /\ Free
    /\ j \in joins
    /\ j.answer # "none"
    /\ joins' = joins \ {j}
    /\ me' = CASE Asked(j) /\ j.answer = "granted" ->
                    BeginSession(me, [game |-> j.slot.game, token |-> j.slot.token,
                                      host |-> FALSE, started |-> FALSE])
               [] Asked(j) /\ j.answer = "failed" -> [me EXCEPT !.joining = None]
               [] ~Asked(j) /\ j.answer = "granted" ->
                    [me EXCEPT !.calls = @ \cup {[what |-> "leave", slot |-> j.slot]}]
               [] OTHER -> me
    /\ UNCHANGED <<starting, lobby, runs, held, lost, seen, launched, wanted>>

(* The calls by which a session or a late answer leaves: done, refused or lost. *)
LeaveCall(c) ==
    /\ c \in me.calls
    /\ me' = [me EXCEPT !.calls = @ \ {c}]
    /\ LET g == c.slot.game
       IN  \/ /\ c.what = "leave"
              /\ held' = IF lobby[g] = "open" THEN held \ {c.slot} ELSE held
              /\ UNCHANGED <<lobby, lost>>
           \/ /\ c.what = "end"
              /\ lobby' = [lobby EXCEPT ![g] = "ended"]
              /\ UNCHANGED <<held, lost>>
           \/ lost' = lost \cup {c.slot} /\ UNCHANGED <<lobby, held>>
    /\ UNCHANGED <<starting, runs, joins, seen, launched, wanted>>

-----------------------------------------------------------------------------
(* The lobby, as the sessions of its players drive it *)

LobbyStarts(g) ==
    /\ lobby[g] = "open"
    /\ Reachable(g)
    /\ lobby' = [lobby EXCEPT ![g] = "running"]
    /\ UNCHANGED <<me, starting, runs, held, joins, lost, seen, launched, wanted>>

LobbyEnds(g) ==
    /\ lobby[g] \in {"open", "running"}
    /\ lobby' = [lobby EXCEPT ![g] = "ended"]
    /\ UNCHANGED <<me, starting, runs, held, joins, lost, seen, launched, wanted>>

-----------------------------------------------------------------------------
(* The session: its watcher posts what it finds, the UI thread handles it *)

(* A snapshot that would change nothing here is left out. *)
News(s) == lobby[s.game] \in {"running", "ended"} /\ (lobby[s.game] = "running" => ~s.started)

Watch ==
    /\ me.session # None
    /\ seen = None
    /\ Reachable(me.session.game)
    /\ News(me.session)
    /\ seen' = [token |-> me.session.token, state |-> lobby[me.session.game]]
    /\ UNCHANGED <<me, starting, lobby, runs, held, joins, lost, launched, wanted>>

(* on_session_change for a session that has ended *)
SessionEnded(m) == Release([m EXCEPT !.session = None, !.hosted = FALSE])

(* _handle: what an ended session is told comes to nothing. *)
HandleSnapshot ==
    /\ Free
    /\ seen # None
    /\ seen' = None
    /\ LET s == me.session
       IN  CASE s # None /\ s.token = seen.token /\ seen.state = "ended" ->
                  me' = SessionEnded(me) /\ UNCHANGED launched
             [] s # None /\ s.token = seen.token /\ seen.state = "running" /\ ~s.started ->
                  /\ me' = [me EXCEPT !.session.started = TRUE]
                  /\ launched' = launched \cup {s.game}
             [] OTHER -> UNCHANGED <<me, launched>>
    /\ UNCHANGED <<starting, lobby, runs, held, joins, lost, wanted>>

-----------------------------------------------------------------------------
Next ==
    \/ EnterChannel
    \/ PartChannel
    \/ CommandReset
    \/ Disconnect
    \/ \E g \in Games : SessionAnnounce(g)
    \/ \E g \in Own : CommandStartGame(g)
    \/ \E g \in Own, same \in BOOLEAN : CommandHostAlongside(g, same)
    \/ \E g \in Own, s \in Servers : CommandHostGame(g, s)
    \/ \E listens \in BOOLEAN : ServerReports(listens)
    \/ StartingExits
    \/ HostGameStarted
    \/ HostGameFails
    \/ CommandHostFails
    \/ PressStopServer
    \/ \E s \in Servers : ServerExits(s)
    \/ CheckServer
    \/ \E j \in joins : JoinCall(j)
    \/ \E j \in joins : JoinedGame(j)
    \/ \E c \in me.calls : LeaveCall(c)
    \/ \E g \in Games : LobbyStarts(g)
    \/ \E g \in Games : LobbyEnds(g)
    \/ Watch
    \/ HandleSnapshot

(* A call ends by its answer or its timeout, as the wait for a server does, and *)
(* the UI thread gets to what is posted; nothing else needs to happen.          *)
Spec ==
    /\ Init
    /\ [][Next]_vars
    /\ WF_vars(\E j \in joins : JoinCall(j))
    /\ WF_vars(\E j \in joins : JoinedGame(j))
    /\ WF_vars(\E c \in me.calls : LeaveCall(c))
    /\ WF_vars(HostGameStarted \/ HostGameFails)

-----------------------------------------------------------------------------
(***************************************************************************)
(* A slot a lobby holds for this launcher in a game that has not started   *)
(* is one it follows, or the answer that grants it or the call that leaves *)
(* it is on its way, or got lost: whatever commands and announcements come *)
(* while a join is under way, none is kept for nobody (joined_game,        *)
(* leave_quietly, end_session).                                            *)
(***************************************************************************)
SlotsAccounted ==
    \A slot \in held :
        lobby[slot.game] = "open" /\ Reachable(slot.game) =>
            \/ me.session # None /\ SlotOf(me.session) = slot
            \/ \E j \in joins : j.slot = slot /\ j.answer = "granted"
            \/ \E c \in me.calls : c.slot = slot
            \/ slot \in lost

(***************************************************************************)
(* The session, and the join on its way, are for the game last asked for,  *)
(* however late an earlier join is answered (session_generation, joining). *)
(***************************************************************************)
FollowsLatest ==
    /\ me.session # None => me.session.game = wanted
    /\ me.joining # None =>
        /\ me.session = None
        /\ me.joining = wanted
        /\ \E j \in joins : Asked(j) /\ j.slot.game = wanted

(***************************************************************************)
(* A lobby server that runs is the one Stop server stops, and there is a   *)
(* reason for it: a hosted game is followed, or one that was started in it *)
(* was left running (release_hosted_server, start_hosted_server,           *)
(* create_session's failure, present).                                     *)
(***************************************************************************)
LeftIn(s) == me.leftRunning /\ \E g \in Own : runs[g] = s /\ g \in launched
ServersHaveReason ==
    \A s \in me.alive : s = me.view /\ ((me.session # None /\ me.hosted) \/ LeftIn(s))

(***************************************************************************)
(* The server of a game this launcher plays is not stopped by leaving it,  *)
(* joining, hosting or ending others: only by the button, by /reset, with  *)
(* the netplay page or by its own exit (hosted_game_left_running).         *)
(***************************************************************************)
Served(g) == g \in launched /\ runs[g] # None /\ lobby[g] = "running" /\ Reachable(g)
PlayKeepsServer ==
    [][\A g \in Own : Served(g) /\ runs[g] \notin me'.alive
        => PressStopServer \/ CommandReset \/ Disconnect \/ ServerExits(runs[g])]_vars

(***************************************************************************)
(* A join does not stay under way: it becomes a session or fails.          *)
(***************************************************************************)
JoinsEnd == me.joining # None ~> me.joining = None
=============================================================================
