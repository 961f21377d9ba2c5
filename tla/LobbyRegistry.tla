---------------------------- MODULE LobbyRegistry ----------------------------
(***************************************************************************)
(* The lobby's registry of games: which password hashes are taken, which   *)
(* game a connection is routed to, and who removes a game and when.        *)
(*                                                                         *)
(* A game is created over HTTP, either running at once (Create) or waiting *)
(* in a session until its host starts it (createSession, startSession).    *)
(* Each waiting game has a reaper goroutine and each running one a run     *)
(* goroutine; both work outside l.mu and take it to remove the game.       *)
(* Every handler under l.mu is one step. What a session holds is left to   *)
(* LobbySession: here a start may be granted at any time.                  *)
(***************************************************************************)
EXTENDS Integers, FiniteSets

CONSTANTS
    Games,      \* entries, each created at most once (ids are never reused)
    Passwords,  \* password hashes; 0, which is refused, is left out
    Nil,        \* a nil entry; the hash of a game not yet created
    MaxGames,   \* Config.MaxGames
    TouchLimit  \* bound of the model: requests that touch one session

ASSUME RegistryAssumption ==
    /\ Nil \notin Games \cup Passwords
    /\ MaxGames \in Nat
    /\ TouchLimit \in Nat

VARIABLES
    hash,       \* entry.hash, Nil before the entry exists
    byID,       \* the entries in l.byID
    byHash,     \* l.byHash
    game,       \* entry.g is "nil", "running", "over" (Run returned) or
                \* "done" (the run goroutine has finished)
    stopped,    \* entries whose stopGame was called
    ended,      \* entries with entry.ended set
    touches,    \* entry.touches
    activity,   \* entries whose activity channel holds a nudge
    reaper,     \* the reaper goroutine: "none", "look", "wait", "due", "done"
    seen,       \* touches, as the reaper last saw it
    reaperDone, \* entries with reaperDone closed
    closed,     \* l.closed
    cancelled,  \* l.ctx is done
    waited,     \* shutdown has returned
    busy        \* history: entries touched since their reaper last looked

entryVars == <<hash, byID, byHash, game, stopped, ended, reaperDone>>
idleVars == <<touches, activity, reaper, seen, busy>>
lobbyVars == <<closed, cancelled, waited>>
registryVars == <<entryVars, idleVars, lobbyVars>>

RegistryTypeOK ==
    /\ hash \in [Games -> Passwords \cup {Nil}]
    /\ byID \subseteq Games
    /\ byHash \in [Passwords -> Games \cup {Nil}]
    /\ game \in [Games -> {"nil", "running", "over", "done"}]
    /\ stopped \subseteq Games
    /\ ended \subseteq Games
    /\ touches \in [Games -> 0..TouchLimit]
    /\ activity \subseteq Games
    /\ reaper \in [Games -> {"none", "look", "wait", "due", "done"}]
    /\ seen \in [Games -> 0..TouchLimit]
    /\ reaperDone \subseteq Games
    /\ closed \in BOOLEAN
    /\ cancelled \in BOOLEAN
    /\ waited \in BOOLEAN
    /\ busy \subseteq Games

RegistryInit ==
    /\ hash = [e \in Games |-> Nil]
    /\ byID = {}
    /\ byHash = [h \in Passwords |-> Nil]
    /\ game = [e \in Games |-> "nil"]
    /\ stopped = {}
    /\ ended = {}
    /\ touches = [e \in Games |-> 0]
    /\ activity = {}
    /\ reaper = [e \in Games |-> "none"]
    /\ seen = [e \in Games |-> 0]
    /\ reaperDone = {}
    /\ closed = FALSE
    /\ cancelled = FALSE
    /\ waited = FALSE
    /\ busy = {}

-----------------------------------------------------------------------------
(* Under l.mu *)

(* mutant of Reserve: l.closed is not looked at *)
ReserveWhenClosed(e, h) ==
    /\ hash[e] = Nil
    /\ Cardinality(byID) < MaxGames
    /\ byHash[h] = Nil
    /\ hash' = [hash EXCEPT ![e] = h]
    /\ byID' = byID \cup {e}
    /\ byHash' = [byHash EXCEPT ![h] = e]

(* reserveLocked. A generated password is one whose hash is free. *)
Reserve(e, h) ==
    /\ hash[e] = Nil
    /\ ~closed
    /\ Cardinality(byID) < MaxGames
    /\ byHash[h] = Nil
    /\ hash' = [hash EXCEPT ![e] = h]
    /\ byID' = byID \cup {e}
    /\ byHash' = [byHash EXCEPT ![h] = e]

(* startLocked, which also stops the reaper *)
StartLocked(e) ==
    /\ game' = [game EXCEPT ![e] = "running"]
    /\ reaperDone' = reaperDone \cup {e}

(* sessionLocked: every session call on a live game, whether or not it is  *)
(* then refused, restarts the idle wait.                                   *)
Touch(e) ==
    /\ e \in byID
    /\ touches[e] < TouchLimit
    /\ touches' = [touches EXCEPT ![e] = @ + 1]
    /\ activity' = activity \cup {e}
    /\ busy' = busy \cup {e}

(* removeLocked *)
RemoveLocked(e) ==
    IF e \in ended THEN UNCHANGED <<byID, byHash, ended, reaperDone>>
    ELSE /\ byID' = byID \ {e}
         /\ byHash' = [h \in Passwords |-> IF h = hash[e] /\ byHash[h] = e THEN Nil ELSE byHash[h]]
         /\ ended' = ended \cup {e}
         /\ reaperDone' = reaperDone \cup {e}

-----------------------------------------------------------------------------
(* HTTP handlers *)

(* /game/create *)
Create(e, h) ==
    /\ Reserve(e, h)
    /\ StartLocked(e)
    /\ UNCHANGED <<stopped, ended, idleVars, lobbyVars>>

(* POST /game *)
CreateSession(e, h) ==
    /\ Reserve(e, h)
    /\ reaper' = [reaper EXCEPT ![e] = "look"]
    /\ UNCHANGED <<game, stopped, ended, reaperDone, touches, activity, seen, busy, lobbyVars>>

(* Any other session call, a refused one included *)
CallSession(e) ==
    /\ Touch(e)
    /\ UNCHANGED <<entryVars, reaper, seen, lobbyVars>>

(* POST /game/{id}/start, granted; it does not look at l.closed *)
StartWaiting(e) ==
    /\ Touch(e)
    /\ game[e] = "nil"
    /\ StartLocked(e)
    /\ UNCHANGED <<hash, byID, byHash, stopped, ended, reaper, seen, lobbyVars>>

(* mutant of EndSession: a running game leaves the registry at once *)
EndSessionAtOnce(e) ==
    /\ Touch(e)
    /\ reaper[e] # "none"
    /\ RemoveLocked(e)
    /\ stopped' = IF game[e] = "nil" THEN stopped ELSE stopped \cup {e}
    /\ UNCHANGED <<hash, game, reaper, seen, lobbyVars>>

(* DELETE /game/{id}, by the host: a running game is only told to stop *)
EndSession(e) ==
    /\ Touch(e)
    /\ reaper[e] # "none"
    /\ \/ game[e] = "nil" /\ RemoveLocked(e) /\ UNCHANGED stopped
       \/ game[e] # "nil" /\ stopped' = stopped \cup {e} /\ UNCHANGED <<byID, byHash, ended, reaperDone>>
    /\ UNCHANGED <<hash, game, reaper, seen, lobbyVars>>

-----------------------------------------------------------------------------
(* mutant of GameContextDone: the context of a game is not a child of l.ctx *)
GameContextOwn(e) == e \in stopped

(* run: game.Run returns because its context is done, or for reasons of    *)
(* its own (launch timeout, a player left, desync).                        *)
GameContextDone(e) == e \in stopped \/ cancelled

GameReturns(e) ==
    /\ game[e] = "running"
    /\ game' = [game EXCEPT ![e] = "over"]
    /\ stopped' = stopped \cup {e}
    /\ UNCHANGED <<hash, byID, byHash, ended, reaperDone, idleVars, lobbyVars>>

RunRemoves(e) ==
    /\ game[e] = "over"
    /\ game' = [game EXCEPT ![e] = "done"]
    /\ RemoveLocked(e)
    /\ UNCHANGED <<hash, stopped, idleVars, lobbyVars>>

-----------------------------------------------------------------------------
(* reap: it looks at touches under the lock, waits outside it, and looks   *)
(* again under the lock when the idle timeout has passed.                  *)
ReaperMoves(e, from, to) ==
    /\ reaper[e] = from
    /\ reaper' = [reaper EXCEPT ![e] = to]

ReaperLooks(e) ==
    /\ ReaperMoves(e, "look", "wait")
    /\ seen' = [seen EXCEPT ![e] = touches[e]]
    /\ busy' = busy \ {e}
    /\ UNCHANGED <<entryVars, touches, activity, lobbyVars>>

ReaperNudged(e) ==
    /\ ReaperMoves(e, "wait", "look")
    /\ e \in activity
    /\ activity' = activity \ {e}
    /\ UNCHANGED <<entryVars, touches, seen, busy, lobbyVars>>

ReaperStops(e) ==
    /\ ReaperMoves(e, "wait", "done")
    /\ e \in reaperDone
    /\ UNCHANGED <<entryVars, touches, activity, seen, busy, lobbyVars>>

(* Also when the game has started and reaperDone is closed: select picks.  *)
ReaperCancelled(e) ==
    /\ ReaperMoves(e, "wait", "done")
    /\ cancelled
    /\ RemoveLocked(e)
    /\ UNCHANGED <<hash, game, stopped, touches, activity, seen, busy, lobbyVars>>

IdleTimerFires(e) ==
    /\ ReaperMoves(e, "wait", "due")
    /\ UNCHANGED <<entryVars, touches, activity, seen, busy, lobbyVars>>

(* mutants of ReaperSpares and ReaperReaps: the reaper returns when it     *)
(* finds a touch; it does not look for one.                                *)
ReaperGivesUp(e) ==
    /\ ReaperMoves(e, "due", "done")
    /\ touches[e] # seen[e]
    /\ UNCHANGED <<entryVars, touches, activity, seen, busy, lobbyVars>>

ReaperReapsUnchecked(e) ==
    /\ ReaperMoves(e, "due", "done")
    /\ IF game[e] = "nil" THEN RemoveLocked(e) ELSE UNCHANGED <<byID, byHash, ended, reaperDone>>
    /\ UNCHANGED <<hash, game, stopped, touches, activity, seen, busy, lobbyVars>>

ReaperSpares(e) ==
    /\ ReaperMoves(e, "due", "look")
    /\ touches[e] # seen[e]
    /\ UNCHANGED <<entryVars, touches, activity, seen, busy, lobbyVars>>

ReaperReaps(e) ==
    /\ ReaperMoves(e, "due", "done")
    /\ touches[e] = seen[e]
    /\ IF game[e] = "nil" THEN RemoveLocked(e) ELSE UNCHANGED <<byID, byHash, ended, reaperDone>>
    /\ UNCHANGED <<hash, game, stopped, touches, activity, seen, busy, lobbyVars>>

-----------------------------------------------------------------------------
(* shutdown, and its wait for every run and reap goroutine *)
Close ==
    /\ ~closed
    /\ closed' = TRUE
    /\ UNCHANGED <<entryVars, idleVars, cancelled, waited>>

CancelAll ==
    /\ closed
    /\ ~cancelled
    /\ cancelled' = TRUE
    /\ UNCHANGED <<entryVars, idleVars, closed, waited>>

Running(e) == game[e] \in {"running", "over"}
Reaping(e) == reaper[e] \in {"look", "wait", "due"}

WaitReturns ==
    /\ cancelled
    /\ \A e \in Games : ~Running(e) /\ ~Reaping(e)
    /\ waited' = TRUE
    /\ UNCHANGED <<entryVars, idleVars, closed, cancelled>>

-----------------------------------------------------------------------------
Handler(e) ==
    \/ \E h \in Passwords : Create(e, h) \/ CreateSession(e, h)
    \/ CallSession(e) \/ StartWaiting(e) \/ EndSession(e)

Runner(e) == GameReturns(e) \/ RunRemoves(e)

ReaperStep(e) ==
    \/ ReaperLooks(e) \/ ReaperNudged(e) \/ ReaperStops(e) \/ ReaperCancelled(e)
    \/ IdleTimerFires(e) \/ ReaperSpares(e) \/ ReaperReaps(e)

RegistryNext ==
    \/ \E e \in Games : Handler(e) \/ Runner(e) \/ ReaperStep(e)
    \/ Close \/ CancelAll \/ WaitReturns

(***************************************************************************)
(* Goroutines run and timers fire. A game is sure to return only when its  *)
(* context is done; nobody has to make a request or stop the lobby.        *)
(***************************************************************************)
Fairness ==
    /\ \A e \in Games :
        /\ WF_registryVars(GameContextDone(e) /\ GameReturns(e))
        /\ WF_registryVars(RunRemoves(e))
        /\ WF_registryVars(ReaperStep(e))
    /\ WF_registryVars(CancelAll)
    /\ WF_registryVars(WaitReturns)

RegistrySafeSpec == RegistryInit /\ [][RegistryNext]_registryVars
RegistrySpec == RegistrySafeSpec /\ Fairness

-----------------------------------------------------------------------------
(* Properties *)

(***************************************************************************)
(* Every game in the registry is the one its password leads to, so no two  *)
(* of them share a password, whoever removes a game and however often      *)
(* (reserveLocked, removeLocked, lookup).                                  *)
(***************************************************************************)
AddressedByPassword == \A e \in byID : byHash[hash[e]] = e

(***************************************************************************)
(* A password stays taken until the game it led to has really stopped: two *)
(* games that accept the same password are never up together, also when a  *)
(* host ends one and creates the next at once, or on shutdown (endLocked,  *)
(* run).                                                                   *)
(***************************************************************************)
PasswordHeld ==
    \A e, f \in Games :
        game[e] = "running" /\ game[f] = "running" /\ e # f => hash[e] # hash[f]

(***************************************************************************)
(* When shutdown has returned, no game runs, none is registered and no     *)
(* goroutine of the lobby is left, although a session may still be started *)
(* after l.closed is set (shutdown, startSession, reap).                   *)
(***************************************************************************)
NothingOutlivesShutdown ==
    waited => byID = {} /\ \A e \in Games : ~Running(e) /\ ~Reaping(e)

(***************************************************************************)
(* The idle timeout never removes a session that was called since the wait *)
(* that ran out began (reap and its re-check of touches).                  *)
(***************************************************************************)
SparesTheBusy ==
    [][\A e \in Games :
        reaper[e] = "due" /\ reaper'[e] = "done" /\ e \in byID \ byID' => e \notin busy]_registryVars

(***************************************************************************)
(* A session that is not started goes away once the calls to it cease: the *)
(* reaper never gives up on one (reap).                                    *)
(***************************************************************************)
IdleSessionEnds ==
    \A e \in Games : (e \in byID /\ game[e] = "nil") ~> (e \notin byID \/ game[e] # "nil")

(***************************************************************************)
(* Shutdown returns, whatever games run and sessions wait (shutdown).      *)
(***************************************************************************)
ShutdownReturns == closed ~> waited
=============================================================================
