-------------------------- MODULE ConnectionTester --------------------------
(***************************************************************************)
(* The server FS-UAE is given: the connection tester's thread, which tries *)
(* the addresses in the configuration and publishes the one that answers   *)
(* (connection_tester.py), and what else sets those keys or reads them:    *)
(* netplay.py as games are created, followed, left and launched, the       *)
(* session that applies its game's document, and the start of a local game *)
(* (launcherapp.py).  A start is taken to get as far as FS-UAE.            *)
(*                                                                         *)
(* A lobby is what has one list of addresses and one port, for all its     *)
(* games.  The configuration names a lobby (__netplay_addresses and _port, *)
(* always set together and announced at once) and the host verified last.  *)
(***************************************************************************)
EXTENDS Naturals, Sequences, FiniteSets, Functions

CONSTANTS
    Lobbies,
    Addresses,
    Listed,       \* [Lobbies -> the addresses players are told]
    Nowhere,      \* an empty configuration value
    ConfigLimit,  \* bound of the model: changes of the configuration
    ResultLimit   \* bound of the model: results on their way to the UI thread

ASSUME TesterAssumption ==
    /\ Nowhere \notin Lobbies \cup Addresses
    /\ \A l \in Lobbies : Listed[l] \in Seq(Addresses) /\ Listed[l] # <<>>
    /\ ConfigLimit \in Nat /\ ResultLimit \in Nat \ {0}

VARIABLES
    info,       \* the lobby in the configuration
    host,       \* __netplay_host
    channel,    \* in a game channel
    following,  \* the lobby of the current session, until its game is launched
    tester,     \* the ConnectionTester
    tests,      \* the tests that run
    results,    \* what set_host posted to the UI thread, in order
    up,         \* who answers: pairs of a lobby and an address
    epoch,      \* history: how often the configuration was changed
    verified,   \* history: what the last test found that was begun since
    given       \* history: the server FS-UAE was given last

testerVars == <<info, host, channel, following, tester, tests, results, up, epoch, verified, given>>

Places == {place \in Lobbies \X Addresses : place[2] \in Range(Listed[place[1]])}

(* A test remembers what it began with, at is the address it tries next. *)
Tests == [lobby : Lobbies, at : Nat \ {0}, epoch : Nat]
Results == [host : Addresses \cup {Nowhere}, epoch : Nat]

TesterTypeOK ==
    /\ info \in Lobbies \cup {Nowhere} /\ following \in Lobbies \cup {Nowhere}
    /\ host \in Addresses \cup {Nowhere}
    /\ channel \in BOOLEAN
    /\ tester \in {"made", "running", "gone"}
    /\ tests \subseteq Tests /\ \A t \in tests : t.at \in DOMAIN Listed[t.lobby]
    /\ results \in Seq(Results)
    /\ up \subseteq Places
    /\ epoch \in Nat
    /\ verified \in Addresses \cup {Nowhere} /\ given \in Addresses \cup {Nowhere}

(* connect, when the netplay page is first shown *)
TesterInit ==
    /\ info = Nowhere /\ host = Nowhere
    /\ channel = FALSE /\ following = Nowhere
    /\ tester = "made"
    /\ tests = {} /\ results = <<>>
    /\ up \in SUBSET Places
    /\ epoch = 0 /\ verified = Nowhere /\ given = Nowhere
-----------------------------------------------------------------------------
(* The UI thread *)

(* The configuration is set; on_config starts the thread at the first change. *)
SetConfig(l, h) ==
    /\ epoch < ConfigLimit
    /\ info' = l /\ host' = h
    /\ tester' = IF l # info /\ tester = "made" THEN "running" ELSE tester
    /\ epoch' = epoch + 1 /\ verified' = Nowhere
    /\ UNCHANGED <<tests, results, up>>

(* reset_netplay_config *)
ResetNetplayConfig == SetConfig(Nowhere, Nowhere)

(* on_irc: a game channel is joined or parted *)
EnterGameChannel ==
    /\ channel' = TRUE /\ following' = Nowhere
    /\ ResetNetplayConfig
    /\ UNCHANGED given

LeaveGameChannel ==
    /\ channel
    /\ channel' = FALSE /\ following' = Nowhere
    /\ ResetNetplayConfig
    /\ UNCHANGED given

(***************************************************************************)
(* command_reset drops its reference to the tester.  Signals keep none, so *)
(* a tester whose thread was not started is gone.                          *)
(***************************************************************************)
ResetGame ==
    /\ epoch < ConfigLimit
    /\ following' = Nowhere
    /\ info' = Nowhere /\ host' = Nowhere
    /\ tester' = IF tester = "running" THEN "running" ELSE "gone"
    /\ epoch' = epoch + 1 /\ verified' = Nowhere
    /\ UNCHANGED <<channel, tests, results, up, given>>

(* create_session *)
GameCreated(l) ==
    /\ channel
    /\ following' = l
    /\ SetConfig(l, Nowhere)
    /\ UNCHANGED <<channel, given>>

(* on_session_announce leaves a game, joined_game follows one: neither sets a key. *)
FollowGame(l) ==
    /\ channel
    /\ following' = l
    /\ UNCHANGED <<info, host, channel, tester, tests, results, up, epoch, verified, given>>

(* apply_document: the session's lobby, while the host stays what it was *)
DocumentApplied ==
    /\ following \notin {Nowhere, info}
    /\ SetConfig(following, host)
    /\ UNCHANGED <<channel, following, given>>

(* LauncherConfig.load, by the player: the session puts the document back later. *)
LoadConfiguration ==
    /\ SetConfig(Nowhere, Nowhere)
    /\ UNCHANGED <<channel, following, given>>

(* on_session_change: ended before it was launched *)
GameOver ==
    /\ following # Nowhere
    /\ following' = Nowhere
    /\ ResetNetplayConfig
    /\ UNCHANGED <<channel, given>>

(* launch_session_game *)
LaunchAddress(l) == IF host \in Range(Listed[l]) THEN host ELSE Listed[l][1]

(* launch_session_game and do_start_game, which resets the configuration at its end *)
LaunchGame ==
    /\ following # Nowhere
    /\ given' = LaunchAddress(following)
    /\ following' = Nowhere
    /\ ResetNetplayConfig
    /\ UNCHANGED channel

(* start_game outside of game channels; prepare_config gives FS-UAE the host that is set *)
StartLocalGame ==
    /\ ~channel
    /\ given' = host
    /\ UNCHANGED <<info, host, channel, following, tester, tests, results, up, epoch, verified>>

(* what set_host posted *)
HostSet ==
    /\ results # <<>>
    /\ host' = Head(results).host
    /\ results' = Tail(results)
    /\ verified' = IF Head(results).epoch = epoch THEN host' ELSE verified
    /\ UNCHANGED <<info, channel, following, tester, tests, up, epoch, given>>
-----------------------------------------------------------------------------
(* The tester's thread *)

NewTest == [lobby |-> info, at |-> 1, epoch |-> epoch]

(* mutant of BeginTest: a test is begun beside the one that runs *)
BeginTestAnew ==
    /\ tester = "running"
    /\ info # Nowhere
    /\ \A t \in tests : t.epoch # epoch
    /\ tests' = tests \cup {NewTest}
    /\ UNCHANGED <<info, host, channel, following, tester, results, up, epoch, verified, given>>

(* One thread tests, at once if the configuration has changed and every 30 seconds. *)
BeginTest ==
    /\ tester = "running"
    /\ info # Nowhere
    /\ tests = {}
    /\ tests' = {NewTest}
    /\ UNCHANGED <<info, host, channel, following, tester, results, up, epoch, verified, given>>

(* set_host, at the end of a test *)
SetHost(t, h) ==
    /\ Len(results) < ResultLimit
    /\ results' = Append(results, [host |-> h, epoch |-> t.epoch])
    /\ tests' = tests \ {t}

(* mutant of TestConnection: only the first address is tried *)
TestConnectionOnce(t) ==
    /\ t \in tests
    /\ SetHost(t, IF <<t.lobby, Listed[t.lobby][t.at]>> \in up THEN Listed[t.lobby][t.at] ELSE Nowhere)
    /\ UNCHANGED <<info, host, channel, following, tester, up, epoch, verified, given>>

(* test_connection: one address after the other, until one answers *)
TestConnection(t) ==
    LET address == Listed[t.lobby][t.at]
        answers == <<t.lobby, address>> \in up
        last == t.at = Len(Listed[t.lobby])
    IN  /\ t \in tests
        /\ IF answers \/ last THEN SetHost(t, IF answers THEN address ELSE Nowhere)
           ELSE tests' = (tests \ {t}) \cup {[t EXCEPT !.at = @ + 1]} /\ UNCHANGED results
        /\ UNCHANGED <<info, host, channel, following, tester, up, epoch, verified, given>>

(* Servers come and go, and networks. *)
ServersChange ==
    /\ up' \in SUBSET Places
    /\ UNCHANGED <<info, host, channel, following, tester, tests, results, epoch, verified, given>>
-----------------------------------------------------------------------------
TesterNext ==
    \/ EnterGameChannel
    \/ LeaveGameChannel
    \/ ResetGame
    \/ \E l \in Lobbies : GameCreated(l)
    \/ \E l \in Lobbies \cup {Nowhere} : FollowGame(l)
    \/ DocumentApplied
    \/ LoadConfiguration
    \/ GameOver
    \/ LaunchGame
    \/ StartLocalGame
    \/ HostSet
    \/ BeginTest
    \/ \E t \in tests : TestConnection(t)
    \/ ServersChange

(***************************************************************************)
(* The thread goes on, each of its connections is answered or refused, and *)
(* the UI thread gets to what was posted.                                  *)
(***************************************************************************)
TesterSpec ==
    /\ TesterInit /\ [][TesterNext]_testerVars
    /\ WF_testerVars(BeginTest)
    /\ WF_testerVars(\E t \in tests : TestConnection(t))
    /\ WF_testerVars(HostSet)
-----------------------------------------------------------------------------
(***************************************************************************)
(* A game is launched with the address the tester verified for it, if the  *)
(* last test begun since the configuration was set has verified one: the   *)
(* late answer of a test of another game's server does not take its place  *)
(* (thread_main, set_host, launch_session_game).                           *)
(***************************************************************************)
LaunchesVerified == [][LaunchGame /\ info = following /\ verified # Nowhere => given' = verified]_testerVars

(***************************************************************************)
(* While the configuration stays with a lobby of which an address keeps    *)
(* answering, one of its addresses is the host in the end, whatever was    *)
(* tried and reset before, unless a reset came before the tester's first   *)
(* game (_thread_main, test_connection, create_session, command_reset).    *)
(***************************************************************************)
HasHost(l) == host \in Range(Listed[l])
VerifiedInTheEnd ==
    \A place \in Places :
        <>[](tester # "gone" /\ info = place[1] /\ place \in up) => <>[]HasHost(place[1])
=============================================================================
