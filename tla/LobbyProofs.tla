----------------------------- MODULE LobbyProofs -----------------------------
(***************************************************************************)
(* Proofs about the lobby. LobbyRegistry, for any number of games and      *)
(* passwords: whoever removes a game and whenever the lobby is shut down,  *)
(* a password belongs to one game, and to a running one until it has       *)
(* stopped. LobbySession, for any number of players, documents and         *)
(* watchers: a session's reports are its present players' own, a game that *)
(* runs was agreed on, and a revision names one visible state.             *)
(***************************************************************************)
EXTENDS LobbyRegistry, LobbySession, TLAPS

-----------------------------------------------------------------------------
(* The registry *)

(***************************************************************************)
(* The inductive invariant, by parts.  A registered game is addressed by   *)
(* its password, and has a goroutine that will remove it; a game that runs *)
(* unregistered was removed by its reaper on shutdown, and shares its      *)
(* password with no registered game.                                       *)
(***************************************************************************)
Known(e) == hash[e] # Nil

EntriesKept ==
    \A e \in Games :
        /\ ~Known(e) => e \notin byID /\ e \notin ended /\ game[e] = "nil" /\ reaper[e] = "none"
        /\ e \in byID => hash[e] \in Passwords
        /\ e \in byID => e \notin ended
        /\ Known(e) /\ e \notin byID => e \in ended
        /\ game[e] = "done" => e \in ended
        /\ e \in reaperDone => e \in ended \/ game[e] # "nil"

Watched == \A e \in byID : Running(e) \/ Reaping(e)

Unregistered == \A e \in Games : game[e] \in {"running", "over"} /\ e \notin byID => cancelled

Apart == \A e \in Games, f \in byID : e # f /\ game[e] = "running" => hash[e] # hash[f]

ShutdownOrder ==
    /\ cancelled => closed
    /\ waited => cancelled /\ \A e \in Games : ~Running(e) /\ ~Reaping(e)

RegistryIInv ==
    /\ RegistryTypeOK /\ EntriesKept /\ AddressedByPassword /\ Watched
    /\ Unregistered /\ Apart /\ PasswordHeld /\ ShutdownOrder

LEMMA RegistryInitIInv == RegistryInit => RegistryIInv
<1> SUFFICES ASSUME RegistryInit PROVE RegistryIInv
  OBVIOUS
<1>1. RegistryTypeOK
  <2>1. 0 \in 0..TouchLimit
    BY RegistryAssumption
  <2>2. \A e \in Games : hash[e] \in Passwords \cup {Nil} /\ game[e] = "nil"
                        /\ touches[e] \in 0..TouchLimit /\ seen[e] \in 0..TouchLimit
                        /\ reaper[e] = "none"
    BY <2>1 DEF RegistryInit
  <2> QED
    BY <2>1, <2>2 DEF RegistryInit, RegistryTypeOK
<1>2. EntriesKept /\ ShutdownOrder
  BY DEF RegistryInit, EntriesKept, ShutdownOrder, Known
<1>3. AddressedByPassword /\ Watched /\ Unregistered /\ Apart /\ PasswordHeld
  BY DEF RegistryInit, AddressedByPassword, Watched, Unregistered, Apart, PasswordHeld
<1> QED
  BY <1>1, <1>2, <1>3 DEF RegistryIInv

-----------------------------------------------------------------------------
(* removeLocked touches its own game only, and its password's entry.        *)
LEMMA RemoveOnly ==
    ASSUME RegistryIInv, NEW e \in Games, Known(e), RemoveLocked(e)
    PROVE  /\ byID' = byID \ {e}
           /\ ended' = ended \cup {e}
           /\ reaperDone' \subseteq reaperDone \cup {e}
           /\ byHash' \in [Passwords -> Games \cup {Nil}]
           /\ \A f \in byID : f # e => byHash'[hash[f]] = byHash[hash[f]]
<1> USE DEF RegistryIInv
<1>1. CASE e \in ended
  BY <1>1 DEF RemoveLocked, EntriesKept, RegistryTypeOK
<1>2. CASE e \notin ended
  <2>1. /\ byID' = byID \ {e} /\ ended' = ended \cup {e}
        /\ reaperDone' = reaperDone \cup {e}
        /\ byHash' = [h \in Passwords |-> IF h = hash[e] /\ byHash[h] = e THEN Nil ELSE byHash[h]]
    BY <1>2 DEF RemoveLocked
  <2>2. \A f \in byID : f # e => byHash'[hash[f]] = byHash[hash[f]]
    <3> SUFFICES ASSUME NEW f \in byID, f # e
                 PROVE  byHash'[hash[f]] = byHash[hash[f]]
      OBVIOUS
    <3>1. hash[f] \in Passwords /\ byHash[hash[f]] = f
      BY DEF RegistryTypeOK, EntriesKept, AddressedByPassword
    <3> QED
      BY <3>1, <2>1
  <2>3. byHash' \in [Passwords -> Games \cup {Nil}]
    BY <2>1 DEF RegistryTypeOK
  <2> QED
    BY <2>1, <2>2, <2>3
<1> QED
  BY <1>1, <1>2

(***************************************************************************)
(* A removal keeps the invariant when the game does not run, or when the   *)
(* lobby is being shut down; reaper and game may move on in the same step. *)
(***************************************************************************)
LEMMA RemovalKeeps ==
    ASSUME RegistryIInv, NEW e \in Games, Known(e), RemoveLocked(e),
           UNCHANGED <<hash, lobbyVars>>,
           RegistryTypeOK',
           \A f \in Games : f # e => game'[f] = game[f] /\ reaper'[f] = reaper[f],
           Running(e)' => Running(e) /\ game'[e] = game[e] /\ cancelled,
           Reaping(e)' => Reaping(e)
    PROVE  RegistryIInv'
<1> USE DEF RegistryIInv
<1>1. /\ byID' = byID \ {e}
      /\ ended' = ended \cup {e}
      /\ reaperDone' \subseteq reaperDone \cup {e}
      /\ \A f \in byID : f # e => byHash'[hash[f]] = byHash[hash[f]]
  BY RemoveOnly
<1>2. EntriesKept'
  BY <1>1 DEF EntriesKept, Known
<1>3. AddressedByPassword'
  BY <1>1 DEF AddressedByPassword
<1>4. Watched'
  BY <1>1 DEF Watched, Running, Reaping, RegistryTypeOK
<1>5. Unregistered'
  BY <1>1 DEF Unregistered, Running, lobbyVars
<1>6. Apart'
  BY <1>1 DEF Apart, Running, RegistryTypeOK
<1>7. PasswordHeld'
  BY DEF PasswordHeld, Running
<1>8. ShutdownOrder'
  BY DEF ShutdownOrder, Running, Reaping, lobbyVars
<1> QED
  BY <1>2, <1>3, <1>4, <1>5, <1>6, <1>7, <1>8

-----------------------------------------------------------------------------
(* The steps, one lemma for each group that disturbs the same conjuncts.    *)

(* reserveLocked takes a password nobody registered holds; no game that    *)
(* still runs holds it either, because the lobby is not being shut down.   *)
LEMMA ReserveKeeps ==
    ASSUME RegistryIInv, NEW e \in Games, NEW h \in Passwords, Create(e, h) \/ CreateSession(e, h)
    PROVE  RegistryIInv'
<1> USE DEF RegistryIInv
<1>1. /\ ~Known(e) /\ ~closed /\ byHash[h] = Nil
      /\ hash' = [hash EXCEPT ![e] = h]
      /\ byID' = byID \cup {e}
      /\ byHash' = [byHash EXCEPT ![h] = e]
      /\ UNCHANGED <<stopped, ended, touches, activity, seen, busy, lobbyVars>>
  BY DEF Create, CreateSession, Reserve, Known, idleVars
<1>2. \/ /\ game' = [game EXCEPT ![e] = "running"]
         /\ reaperDone' = reaperDone \cup {e}
         /\ reaper' = reaper
      \/ /\ reaper' = [reaper EXCEPT ![e] = "look"]
         /\ UNCHANGED <<game, reaperDone>>
  BY DEF Create, CreateSession, StartLocked, idleVars
<1>3. e \notin byID /\ e \notin ended /\ game[e] = "nil" /\ reaper[e] = "none"
  BY <1>1 DEF EntriesKept
<1>4. ~cancelled /\ ~waited
  BY <1>1 DEF ShutdownOrder
<1>5. RegistryTypeOK'
  BY <1>1, <1>2 DEF RegistryTypeOK, lobbyVars
<1>6. EntriesKept'
  <2>1. h # Nil
    BY RegistryAssumption
  <2>2. \A f \in Games : f # e => hash'[f] = hash[f] /\ game'[f] = game[f] /\ reaper'[f] = reaper[f]
    BY <1>1, <1>2 DEF RegistryTypeOK
  <2>3. hash'[e] = h /\ game'[e] \in {"nil", "running"} /\ (e \in reaperDone' => e \in ended \/ game'[e] # "nil")
    BY <1>1, <1>2, <1>3 DEF RegistryTypeOK, EntriesKept
  <2> QED
    BY <1>1, <1>2, <1>3, <2>1, <2>2, <2>3 DEF EntriesKept, Known
<1>7. \A f \in byID : f # e /\ hash'[f] = hash[f] /\ hash[f] # h /\ hash[f] \in Passwords
  BY <1>1, <1>3, RegistryAssumption DEF AddressedByPassword, EntriesKept, RegistryTypeOK
<1>8. hash'[e] = h
  BY <1>1 DEF RegistryTypeOK
<1>9. AddressedByPassword'
  BY <1>1, <1>7, <1>8 DEF AddressedByPassword, RegistryTypeOK
<1>10. Watched'
  BY <1>1, <1>2, <1>3 DEF Watched, Running, Reaping, RegistryTypeOK
<1>11. \A f \in Games : game[f] \in {"running", "over"} => f \in byID
  BY <1>4 DEF Unregistered
<1>12. Unregistered'
  BY <1>1, <1>2, <1>11 DEF Unregistered, RegistryTypeOK
<1>13. \A f \in Games : game'[f] = "running" => f \in byID \cup {e}
  BY <1>2, <1>11 DEF RegistryTypeOK
<1>14. Apart' /\ PasswordHeld'
  <2>1. \A f, f2 \in byID \cup {e} : f # f2 => hash'[f] # hash'[f2]
    <3>1. \A f, f2 \in byID : f # f2 => hash[f] # hash[f2]
      BY DEF AddressedByPassword
    <3> QED
      BY <3>1, <1>7, <1>8
  <2> QED
    BY <2>1, <1>1, <1>13 DEF Apart, PasswordHeld
<1>15. ShutdownOrder'
  BY <1>1, <1>4 DEF ShutdownOrder, lobbyVars
<1> QED
  BY <1>5, <1>6, <1>9, <1>10, <1>12, <1>14, <1>15

(* The start of a session: it is registered, so its password is its own.   *)
LEMMA StartWaitingKeeps ==
    ASSUME RegistryIInv, NEW e \in Games, StartWaiting(e)
    PROVE  RegistryIInv'
<1> USE DEF RegistryIInv
<1>1. /\ e \in byID /\ game[e] = "nil"
      /\ game' = [game EXCEPT ![e] = "running"]
      /\ reaperDone' = reaperDone \cup {e}
      /\ touches[e] < TouchLimit
      /\ touches' = [touches EXCEPT ![e] = @ + 1]
      /\ activity' = activity \cup {e} /\ busy' = busy \cup {e}
      /\ UNCHANGED <<hash, byID, byHash, stopped, ended, reaper, seen, lobbyVars>>
  BY DEF StartWaiting, StartLocked, Touch
<1>2. RegistryTypeOK'
  BY <1>1, RegistryAssumption DEF RegistryTypeOK, lobbyVars
<1>3. EntriesKept'
  BY <1>1 DEF EntriesKept, Known, RegistryTypeOK
<1>4. AddressedByPassword' /\ Watched' /\ Unregistered'
  BY <1>1 DEF AddressedByPassword, Watched, Unregistered, Running, Reaping, RegistryTypeOK, lobbyVars
<1>5. \A f \in byID : f # e => hash[e] # hash[f]
  BY <1>1 DEF AddressedByPassword
<1>6. Apart'
  BY <1>1, <1>5 DEF Apart, RegistryTypeOK
<1>7. PasswordHeld'
  BY <1>1 DEF PasswordHeld, Apart, RegistryTypeOK
<1>8. ShutdownOrder'
  <2>1. ~waited
    BY <1>1 DEF ShutdownOrder, Watched
  <2> QED
    BY <2>1, <1>1 DEF ShutdownOrder, lobbyVars
<1> QED
  BY <1>2, <1>3, <1>4, <1>6, <1>7, <1>8

(* Steps that change no registration: only types and goroutines move.      *)
LEMMA QuietKeeps ==
    ASSUME RegistryIInv, UNCHANGED <<hash, byID, byHash, ended, reaperDone>>, RegistryTypeOK',
           \A e \in Games : /\ game'[e] # game[e] => game[e] = "running" /\ game'[e] = "over"
                            /\ Reaping(e)' => Reaping(e)
                            /\ reaper[e] = "none" => reaper'[e] = "none"
                            /\ Reaping(e) /\ e \in byID => Reaping(e)' \/ Running(e)',
           cancelled => cancelled',
           ShutdownOrder'
    PROVE  RegistryIInv'
<1> USE DEF RegistryIInv
<1>1. \A e \in Games : /\ Running(e)' <=> Running(e)
                       /\ game'[e] \in {"running"} => game[e] = "running"
                       /\ game'[e] = "done" <=> game[e] = "done"
                       /\ game'[e] = "nil" <=> game[e] = "nil"
  BY DEF Running
<1>2. EntriesKept'
  BY <1>1 DEF EntriesKept, Known, Reaping, RegistryTypeOK
<1>3. AddressedByPassword' /\ Watched'
  BY <1>1 DEF AddressedByPassword, Watched, RegistryTypeOK
<1>4. Unregistered' /\ Apart' /\ PasswordHeld'
  BY <1>1 DEF Unregistered, Apart, PasswordHeld, Running
<1> QED
  BY <1>2, <1>3, <1>4
(* A nudge, a wait, or a look of the reaper that leaves the game in place.  *)
LEMMA ReaperQuiet ==
    ASSUME RegistryIInv, NEW e \in Games,
           ReaperLooks(e) \/ ReaperNudged(e) \/ ReaperStops(e) \/ IdleTimerFires(e) \/ ReaperSpares(e)
    PROVE  RegistryIInv'
<1> USE DEF RegistryIInv
<1>1. /\ UNCHANGED <<entryVars, lobbyVars, touches>>
      /\ activity' \subseteq activity /\ busy' \subseteq busy
      /\ seen' = seen \/ seen' = [seen EXCEPT ![e] = touches[e]]
      /\ Reaping(e)
      /\ \/ \E to \in {"look", "wait", "due"} : reaper' = [reaper EXCEPT ![e] = to]
         \/ e \in reaperDone /\ reaper' = [reaper EXCEPT ![e] = "done"]
  BY DEF ReaperLooks, ReaperNudged, ReaperStops, IdleTimerFires, ReaperSpares, ReaperMoves,
         Reaping
<1>2. UNCHANGED <<hash, byID, byHash, game, stopped, ended, reaperDone, closed, cancelled, waited, touches>>
  BY <1>1 DEF entryVars, lobbyVars
<1>3. RegistryTypeOK'
  BY <1>1, <1>2 DEF RegistryTypeOK
<1>4. \A f \in Games : /\ Reaping(f)' => Reaping(f)
                       /\ reaper[f] = "none" => reaper'[f] = "none"
                       /\ Reaping(f) /\ f \in byID => Reaping(f)' \/ Running(f)'
  <2>1. e \in byID /\ e \in reaperDone => Running(e)'
    BY <1>2 DEF EntriesKept, Running, RegistryTypeOK
  <2>2. \A f \in Games : f # e => reaper'[f] = reaper[f]
    BY <1>1 DEF RegistryTypeOK
  <2>3. reaper'[e] \in {"look", "wait", "due"} \/ (e \in reaperDone /\ reaper'[e] = "done")
    BY <1>1 DEF RegistryTypeOK
  <2> QED
    BY <1>1, <2>1, <2>2, <2>3 DEF Reaping
<1>5. ShutdownOrder'
  BY <1>2, <1>4 DEF ShutdownOrder, Running
<1>6. \A f \in Games : game'[f] = game[f]
  BY <1>2
<1> QED
  BY <1>2, <1>3, <1>4, <1>5, <1>6, QuietKeeps

(* The reaper removes its game: it is cancelled, or the game never started. *)
LEMMA ReaperRemoval ==
    ASSUME RegistryIInv, NEW e \in Games, ReaperCancelled(e) \/ ReaperReaps(e)
    PROVE  RegistryIInv'
<1> USE DEF RegistryIInv
<1>1. /\ UNCHANGED <<hash, game, stopped, touches, activity, seen, busy, lobbyVars>>
      /\ reaper' = [reaper EXCEPT ![e] = "done"] /\ Reaping(e)
      /\ \/ RemoveLocked(e) /\ (cancelled \/ game[e] = "nil")
         \/ game[e] # "nil" /\ UNCHANGED <<byID, byHash, ended, reaperDone>>
  BY DEF ReaperCancelled, ReaperReaps, ReaperMoves, Reaping
<1>2. \A f \in Games : reaper'[f] = IF f = e THEN "done" ELSE reaper[f]
  BY <1>1 DEF RegistryTypeOK
<1>3. \A f \in Games : Reaping(f)' => Reaping(f)
  BY <1>2 DEF Reaping
<1>4. Known(e)
  BY <1>1 DEF EntriesKept, Reaping
<1>5. CASE RemoveLocked(e) /\ (cancelled \/ game[e] = "nil")
  <2>1. byID' \subseteq byID /\ ended' \subseteq Games /\ reaperDone' \subseteq Games
        /\ byHash' \in [Passwords -> Games \cup {Nil}]
    BY <1>4, <1>5, RemoveOnly DEF RegistryTypeOK
  <2>2. RegistryTypeOK'
    BY <1>1, <2>1 DEF RegistryTypeOK, lobbyVars
  <2>3. Running(e)' => Running(e) /\ game'[e] = game[e] /\ cancelled
    BY <1>1, <1>5 DEF Running
  <2>4. \A f \in Games : f # e => game'[f] = game[f] /\ reaper'[f] = reaper[f]
    BY <1>1, <1>2
  <2> QED
    BY <1>1, <1>3, <1>4, <1>5, <2>2, <2>3, <2>4, RemovalKeeps
<1>6. CASE game[e] # "nil" /\ UNCHANGED <<byID, byHash, ended, reaperDone>>
  <2>1. RegistryTypeOK'
    BY <1>1, <1>6 DEF RegistryTypeOK, lobbyVars
  <2>2. e \in byID => Running(e)'
    BY <1>1, <1>6 DEF EntriesKept, Running, RegistryTypeOK
  <2>3. \A f \in Games : Reaping(f) /\ f \in byID => Reaping(f)' \/ Running(f)'
    BY <1>2, <2>2 DEF Reaping
  <2>4. \A f \in Games : reaper[f] = "none" => reaper'[f] = "none"
    BY <1>1, <1>2 DEF Reaping
  <2>5. ShutdownOrder'
    BY <1>1, <1>3 DEF ShutdownOrder, Running, lobbyVars
  <2> QED
    BY <1>1, <1>3, <1>6, <2>1, <2>3, <2>4, <2>5, QuietKeeps DEF lobbyVars
<1> QED
  BY <1>1, <1>5, <1>6

(* A session call that starts nothing: it touches a game, and may end it.   *)
LEMMA CallKeeps ==
    ASSUME RegistryIInv, NEW e \in Games, CallSession(e) \/ EndSession(e)
    PROVE  RegistryIInv'
<1> USE DEF RegistryIInv
<1>1. /\ e \in byID /\ touches[e] < TouchLimit
      /\ touches' = [touches EXCEPT ![e] = @ + 1]
      /\ activity' = activity \cup {e} /\ busy' = busy \cup {e}
      /\ UNCHANGED <<hash, game, reaper, seen, lobbyVars>>
      /\ \/ game[e] = "nil" /\ RemoveLocked(e) /\ UNCHANGED stopped
         \/ UNCHANGED <<byID, byHash, ended, reaperDone>> /\ stopped' \in {stopped, stopped \cup {e}}
  BY DEF CallSession, EndSession, Touch, entryVars
<1>2. touches' \in [Games -> 0..TouchLimit]
  BY <1>1, RegistryAssumption DEF RegistryTypeOK
<1>3. Known(e)
  BY <1>1 DEF EntriesKept
<1>4. \A f \in Games : game'[f] = game[f] /\ reaper'[f] = reaper[f]
  BY <1>1
<1>5. CASE game[e] = "nil" /\ RemoveLocked(e) /\ UNCHANGED stopped
  <2>1. byID' \subseteq byID /\ ended' \subseteq Games /\ reaperDone' \subseteq Games
        /\ byHash' \in [Passwords -> Games \cup {Nil}]
    BY <1>3, <1>5, RemoveOnly DEF RegistryTypeOK
  <2>2. RegistryTypeOK'
    BY <1>1, <1>2, <1>5, <2>1 DEF RegistryTypeOK, lobbyVars
  <2>3. ~Running(e)' /\ (Reaping(e)' => Reaping(e))
    BY <1>4, <1>5 DEF Running, Reaping
  <2> QED
    BY <1>1, <1>3, <1>4, <1>5, <2>2, <2>3, RemovalKeeps
<1>6. CASE UNCHANGED <<byID, byHash, ended, reaperDone>> /\ stopped' \in {stopped, stopped \cup {e}}
  <2>1. RegistryTypeOK'
    BY <1>1, <1>2, <1>6 DEF RegistryTypeOK, lobbyVars
  <2>2. ShutdownOrder'
    BY <1>1 DEF ShutdownOrder, Running, Reaping, lobbyVars
  <2>3. \A f \in Games : Reaping(f)' <=> Reaping(f)
    BY <1>4 DEF Reaping
  <2> QED
    BY <1>1, <1>4, <1>6, <2>1, <2>2, <2>3, QuietKeeps DEF lobbyVars
<1> QED
  BY <1>1, <1>5, <1>6

(* A game comes to its end, and its run goroutine removes it.               *)
LEMMA RunnerKeeps ==
    ASSUME RegistryIInv, NEW e \in Games, Runner(e)
    PROVE  RegistryIInv'
<1> USE DEF RegistryIInv
<1>1. CASE GameReturns(e)
  <2>1. /\ game[e] = "running"
        /\ game' = [game EXCEPT ![e] = "over"]
        /\ stopped' = stopped \cup {e}
        /\ UNCHANGED <<hash, byID, byHash, ended, reaperDone, touches, activity, reaper, seen, busy,
                       closed, cancelled, waited>>
    BY <1>1 DEF GameReturns, idleVars, lobbyVars
  <2>2. RegistryTypeOK'
    BY <2>1 DEF RegistryTypeOK
  <2>3. \A f \in Games : game'[f] # game[f] => game[f] = "running" /\ game'[f] = "over"
    BY <2>1 DEF RegistryTypeOK
  <2>4. \A f \in Games : /\ Reaping(f)' <=> Reaping(f)
                         /\ reaper'[f] = reaper[f]
                         /\ Running(f)' => Running(f)
    BY <2>1, <2>3 DEF Reaping, Running
  <2>5. ShutdownOrder'
    BY <2>1, <2>4 DEF ShutdownOrder
  <2> QED
    BY <2>1, <2>2, <2>3, <2>4, <2>5, QuietKeeps
<1>2. CASE RunRemoves(e)
  <2>1. /\ game[e] = "over"
        /\ game' = [game EXCEPT ![e] = "done"]
        /\ RemoveLocked(e)
        /\ UNCHANGED <<hash, stopped, touches, activity, reaper, seen, busy, lobbyVars>>
    BY <1>2 DEF RunRemoves, idleVars
  <2>2. Known(e)
    BY <2>1 DEF EntriesKept
  <2>3. byID' \subseteq byID /\ ended' \subseteq Games /\ reaperDone' \subseteq Games
        /\ byHash' \in [Passwords -> Games \cup {Nil}]
    BY <2>1, <2>2, RemoveOnly DEF RegistryTypeOK
  <2>4. RegistryTypeOK'
    BY <2>1, <2>3 DEF RegistryTypeOK, lobbyVars
  <2>5. /\ ~Running(e)' /\ (Reaping(e)' => Reaping(e))
        /\ \A f \in Games : f # e => game'[f] = game[f] /\ reaper'[f] = reaper[f]
    BY <2>1 DEF Running, Reaping, RegistryTypeOK
  <2> QED
    BY <2>1, <2>2, <2>4, <2>5, RemovalKeeps
<1> QED
  BY <1>1, <1>2 DEF Runner

(* shutdown refuses new games before it cancels the ones there are.         *)
LEMMA ShutdownKeeps ==
    ASSUME RegistryIInv, Close \/ CancelAll \/ WaitReturns
    PROVE  RegistryIInv'
<1> USE DEF RegistryIInv
<1>1. /\ UNCHANGED <<hash, byID, byHash, game, stopped, ended, reaperDone, touches, activity, reaper,
                     seen, busy>>
      /\ \/ closed' = TRUE /\ UNCHANGED <<cancelled, waited>>
         \/ closed /\ cancelled' = TRUE /\ UNCHANGED <<closed, waited>>
         \/ /\ cancelled /\ \A e \in Games : ~Running(e) /\ ~Reaping(e)
            /\ waited' = TRUE /\ UNCHANGED <<closed, cancelled>>
  BY DEF Close, CancelAll, WaitReturns, entryVars, idleVars
<1>2. RegistryTypeOK'
  BY <1>1 DEF RegistryTypeOK
<1>3. \A e \in Games : (Running(e)' <=> Running(e)) /\ (Reaping(e)' <=> Reaping(e))
  BY <1>1 DEF Running, Reaping
<1>4. ShutdownOrder'
  BY <1>1, <1>3 DEF ShutdownOrder
<1> QED
  BY <1>1, <1>2, <1>3, <1>4, QuietKeeps

LEMMA RegistryNextKeeps == RegistryIInv /\ [RegistryNext]_registryVars => RegistryIInv'
<1> SUFFICES ASSUME RegistryIInv, [RegistryNext]_registryVars PROVE RegistryIInv'
  OBVIOUS
<1>1. ASSUME NEW e \in Games, Handler(e) PROVE RegistryIInv'
  BY <1>1, ReserveKeeps, StartWaitingKeeps, CallKeeps DEF Handler
<1>2. ASSUME NEW e \in Games, ReaperStep(e) PROVE RegistryIInv'
  BY <1>2, ReaperQuiet, ReaperRemoval DEF ReaperStep
<1>3. CASE UNCHANGED registryVars
  <2>1. UNCHANGED <<hash, byID, byHash, game, stopped, ended, reaperDone, touches, activity, reaper,
                    seen, busy, closed, cancelled, waited>>
    BY <1>3 DEF registryVars, entryVars, idleVars, lobbyVars
  <2>2. RegistryTypeOK' /\ ShutdownOrder'
    BY <2>1 DEF RegistryIInv, RegistryTypeOK, ShutdownOrder, Running, Reaping
  <2> QED
    BY <2>1, <2>2, QuietKeeps DEF Running, Reaping
<1> QED
  BY <1>1, <1>2, <1>3, RunnerKeeps, ShutdownKeeps DEF RegistryNext

-----------------------------------------------------------------------------
(* The invariant holds of every behaviour (Fairness is not needed).         *)
THEOREM RegistryInvariance == RegistrySafeSpec => []RegistryIInv
<1> QED
  BY RegistryInitIInv, RegistryNextKeeps, PTL DEF RegistrySafeSpec

(* Type correctness of the registry.                                        *)
THEOREM RegistryTypeCorrect == RegistrySafeSpec => []RegistryTypeOK
<1>1. RegistryIInv => RegistryTypeOK
  BY DEF RegistryIInv
<1> QED
  BY <1>1, RegistryInvariance, PTL

(* Every registered game is the one its password leads to, for any number   *)
(* of games and whoever removes one (reserveLocked, removeLocked, lookup).  *)
THEOREM GamesAreAddressed == RegistrySafeSpec => []AddressedByPassword
<1>1. RegistryIInv => AddressedByPassword
  BY DEF RegistryIInv
<1> QED
  BY <1>1, RegistryInvariance, PTL

(* Two games that run never accept the same password: it stays taken until  *)
(* the game it led to has stopped, on shutdown too (endLocked, run).        *)
THEOREM PasswordsAreHeld == RegistrySafeSpec => []PasswordHeld
<1>1. RegistryIInv => PasswordHeld
  BY DEF RegistryIInv
<1> QED
  BY <1>1, RegistryInvariance, PTL

(* When shutdown has returned nothing runs, nothing waits and nothing is    *)
(* registered: every registered game has a goroutine that shutdown waits    *)
(* for (shutdown, run, reap).                                               *)
THEOREM ShutdownIsComplete == RegistrySafeSpec => []NothingOutlivesShutdown
<1>1. RegistryIInv => NothingOutlivesShutdown
  BY DEF RegistryIInv, NothingOutlivesShutdown, ShutdownOrder, Watched, RegistryTypeOK
<1> QED
  BY <1>1, RegistryInvariance, PTL

-----------------------------------------------------------------------------
(***************************************************************************)
(* While the reaper waits, or holds a timer that has fired, a game touched *)
(* since it looked has more touches than it saw: what the second look under *)
(* the lock compares.  Touches are only added, by calls alone.             *)
(***************************************************************************)
TouchesCounted ==
    \A e \in Games :
        /\ seen[e] <= touches[e]
        /\ reaper[e] \in {"wait", "due"} /\ e \in busy => seen[e] < touches[e]

LEMMA InitCounted == RegistryInit => TouchesCounted
  BY DEF RegistryInit, TouchesCounted

(* A call adds a touch to its game, and moves no reaper but the first call, *)
(* which starts one.                                                        *)
LEMMA TouchCounted ==
    ASSUME RegistryTypeOK, TouchesCounted, NEW e \in Games, Touch(e), UNCHANGED <<reaper, seen>>
    PROVE  TouchesCounted'
<1>1. /\ touches' = [touches EXCEPT ![e] = @ + 1]
      /\ busy' = busy \cup {e}
      /\ reaper' = reaper /\ seen' = seen
  BY DEF Touch
<1>2. \A f \in Games : /\ touches[f] \in Int /\ seen[f] \in Int
                       /\ touches'[f] = IF f = e THEN touches[f] + 1 ELSE touches[f]
  BY <1>1 DEF RegistryTypeOK
<1> QED
  BY <1>1, <1>2 DEF TouchesCounted

LEMMA ReaperCounted ==
    ASSUME RegistryTypeOK, TouchesCounted, NEW e \in Games, ReaperStep(e)
    PROVE  TouchesCounted'
<1>1. CASE ReaperLooks(e)
  <2>1. /\ seen' = [seen EXCEPT ![e] = touches[e]]
        /\ busy' = busy \ {e}
        /\ reaper' = [reaper EXCEPT ![e] = "wait"]
        /\ touches' = touches
    BY <1>1 DEF ReaperLooks, ReaperMoves
  <2>2. \A f \in Games : touches[f] \in Int /\ seen[f] \in Int
    BY DEF RegistryTypeOK
  <2> QED
    BY <2>1, <2>2 DEF TouchesCounted, RegistryTypeOK
<1>2. CASE ReaperNudged(e) \/ ReaperStops(e) \/ ReaperCancelled(e) \/ IdleTimerFires(e)
             \/ ReaperSpares(e) \/ ReaperReaps(e)
  <2>1. /\ UNCHANGED <<touches, seen, busy>>
        /\ \E to \in {"look", "wait", "due", "done"} :
             /\ reaper' = [reaper EXCEPT ![e] = to]
             /\ to \in {"wait", "due"} => reaper[e] \in {"wait", "due"}
    BY <1>2 DEF ReaperNudged, ReaperStops, ReaperCancelled, IdleTimerFires, ReaperSpares,
                ReaperReaps, ReaperMoves
  <2> QED
    BY <2>1 DEF TouchesCounted, RegistryTypeOK
<1> QED
  BY <1>1, <1>2 DEF ReaperStep

LEMMA NextCounted == RegistryTypeOK /\ TouchesCounted /\ [RegistryNext]_registryVars => TouchesCounted'
<1> SUFFICES ASSUME RegistryTypeOK, TouchesCounted, [RegistryNext]_registryVars PROVE TouchesCounted'
  OBVIOUS
<1>1. ASSUME UNCHANGED <<touches, seen, busy, reaper>> PROVE TouchesCounted'
  BY <1>1 DEF TouchesCounted
<1>2. ASSUME NEW e \in Games, NEW h \in Passwords, Create(e, h) \/ CreateSession(e, h)
      PROVE  TouchesCounted'
  <2>1. /\ UNCHANGED <<touches, seen, busy>>
        /\ reaper' = reaper \/ reaper' = [reaper EXCEPT ![e] = "look"]
    BY <1>2 DEF Create, CreateSession, idleVars
  <2> QED
    BY <2>1 DEF TouchesCounted, RegistryTypeOK
<1>3. ASSUME NEW e \in Games, CallSession(e) \/ StartWaiting(e) \/ EndSession(e)
      PROVE  TouchesCounted'
  BY <1>3, TouchCounted DEF CallSession, StartWaiting, EndSession
<1>4. ASSUME NEW e \in Games, Runner(e) PROVE TouchesCounted'
  BY <1>1, <1>4 DEF Runner, GameReturns, RunRemoves, idleVars
<1>5. CASE Close \/ CancelAll \/ WaitReturns \/ UNCHANGED registryVars
  BY <1>1, <1>5 DEF Close, CancelAll, WaitReturns, registryVars, idleVars
<1> QED
  BY <1>2, <1>3, <1>4, <1>5, ReaperCounted DEF RegistryNext, Handler

(* The idle timeout removes no session that was called since the wait that  *)
(* ran out began, whatever the calls and the timer interleave with (reap).  *)
THEOREM TheBusyAreSpared == RegistrySafeSpec => SparesTheBusy
<1>1. RegistrySafeSpec => [](RegistryTypeOK /\ TouchesCounted)
  <2>1. RegistryInit => RegistryTypeOK /\ TouchesCounted
    BY RegistryInitIInv, InitCounted DEF RegistryIInv
  <2> QED
    BY <2>1, NextCounted, RegistryTypeCorrect, PTL DEF RegistrySafeSpec
<1>2. RegistryTypeOK /\ TouchesCounted /\ [RegistryNext]_registryVars =>
        [\A e \in Games :
            reaper[e] = "due" /\ reaper'[e] = "done" /\ e \in byID \ byID' => e \notin busy]_registryVars
  <2> SUFFICES ASSUME RegistryTypeOK, TouchesCounted, RegistryNext,
                      NEW e \in Games, reaper[e] = "due", reaper'[e] = "done"
               PROVE  e \notin busy
    OBVIOUS
  <2>1. ASSUME NEW f \in Games, Handler(f) \/ Runner(f) PROVE FALSE
    BY <2>1 DEF Handler, Create, CreateSession, CallSession, StartWaiting, EndSession, Runner,
                GameReturns, RunRemoves, idleVars, RegistryTypeOK
  <2>2. ASSUME Close \/ CancelAll \/ WaitReturns PROVE FALSE
    BY <2>2 DEF Close, CancelAll, WaitReturns, idleVars
  <2>3. PICK f \in Games : ReaperStep(f)
    BY <2>1, <2>2 DEF RegistryNext
  <2>4. f = e
    BY <2>3 DEF ReaperStep, ReaperLooks, ReaperNudged, ReaperStops, ReaperCancelled,
                IdleTimerFires, ReaperSpares, ReaperReaps, ReaperMoves, RegistryTypeOK
  <2>5. touches[e] = seen[e]
    BY <2>3, <2>4 DEF ReaperStep, ReaperLooks, ReaperNudged, ReaperStops, ReaperCancelled,
                      IdleTimerFires, ReaperSpares, ReaperReaps, ReaperMoves, RegistryTypeOK
  <2> QED
    BY <2>5 DEF TouchesCounted, RegistryTypeOK
<1> QED
  BY <1>1, <1>2, PTL DEF RegistrySafeSpec, SparesTheBusy

-----------------------------------------------------------------------------
(* A session *)

(***************************************************************************)
(* The inductive invariant.  Tokens name one slot each, so two slots never *)
(* share one; a kept report is of the present document and is its holder's *)
(* last word; the start found every slot ready, and nothing moved since.   *)
(***************************************************************************)
SeatsKept ==
    /\ Len(said) = Len(seat)
    /\ \A s \in Slots : Claimed(entry, s) =>
        entry.slots[s].token \in Tokens /\ seat[entry.slots[s].token] = s

ReportsKept ==
    \A s \in Slots : entry.slots[s].ready # None =>
        /\ Claimed(entry, s)
        /\ entry.config # None
        /\ entry.slots[s].ready.version = entry.configVersion
        /\ said[entry.slots[s].token] = entry.slots[s].ready.result

StartKept == entry.running => AllReady(entry)

ViewsKept ==
    \A w \in Watchers : view[w] # None =>
        /\ view[w].revision <= entry.revision
        /\ view[w].revision = entry.revision => view[w] = Snapshot(entry)

IInv == TypeOK /\ SeatsKept /\ ReportsKept /\ StartKept /\ ViewsKept

-----------------------------------------------------------------------------
(* A slot is ready only if it is claimed and its report says so.           *)
LEMMA ReadySlot ==
    ASSUME NEW e \in Entries, NEW s \in Slots, SlotStatus(e, s) = "ready"
    PROVE  /\ Claimed(e, s)
           /\ Reported(e, s)
           /\ e.slots[s].ready.result.missing = FALSE
           /\ e.slots[s].ready.result.hash = e.config.hash
<1>1. Claimed(e, s) /\ Reported(e, s)
  BY DEF SlotStatus, Reported
<1>2. e.slots[s].ready \in Reports
  BY <1>1 DEF Reported, Entries, SlotRecords
<1>3. e.slots[s].ready.result \in Results
  BY <1>2 DEF Reports
<1>4. e.slots[s].ready.result.missing \in BOOLEAN
  BY <1>3 DEF Results
<1>5. e.slots[s].ready.result.missing = FALSE
  BY <1>1, <1>4 DEF SlotStatus
<1> QED
  BY <1>1, <1>5 DEF SlotStatus

LEMMA StatusType ==
    ASSUME NEW e \in Entries, NEW s \in Slots
    PROVE  SlotStatus(e, s) \in {"empty", "waiting", "ready", "missing", "mismatch"}
<1>1. CASE ~Claimed(e, s)
  BY <1>1 DEF SlotStatus, Reported
<1>2. CASE Claimed(e, s) /\ ~Reported(e, s)
  BY <1>2 DEF SlotStatus
<1>3. CASE Reported(e, s)
  <2>1. e.slots[s].ready \in Reports
    BY <1>3 DEF Reported, Entries, SlotRecords
  <2>2. e.slots[s].ready.result.missing \in BOOLEAN
    BY <2>1 DEF Reports, Results
  <2> QED
    BY <1>3, <2>2 DEF SlotStatus, Reported
<1> QED
  BY <1>1, <1>2, <1>3

LEMMA StateType ==
    ASSUME NEW e \in Entries
    PROVE  StateOf(e) \in {"created", "configuring", "ready", "running", "ended"}
<1>1. e.ended \in BOOLEAN /\ e.running \in BOOLEAN
  BY DEF Entries
<1> QED
  BY <1>1 DEF StateOf

LEMMA SnapshotType ==
    ASSUME NEW e \in Entries
    PROVE  /\ Snapshot(e) \in Snapshots
           /\ Snapshot(e).revision = e.revision
<1>1. \A s \in Slots :
        (IF Reported(e, s) THEN e.slots[s].ready.result ELSE None) \in Results \cup {None}
  <2> SUFFICES ASSUME NEW s \in Slots, Reported(e, s)
               PROVE  e.slots[s].ready.result \in Results
    OBVIOUS
  <2>1. e.slots[s].ready \in Reports
    BY DEF Reported, Entries, SlotRecords
  <2> QED
    BY <2>1 DEF Reports
<1>2. Snapshot(e).slots \in [Slots -> SlotViews]
  BY <1>1, StatusType DEF Snapshot, SlotViews
<1>3. e.revision \in Nat /\ e.configVersion \in Nat /\ e.config \in Docs \cup {None}
  BY DEF Entries
<1> QED
  BY <1>2, <1>3, StateType DEF Snapshot, Snapshots

(***************************************************************************)
(* What a change leaves: the next revision, which no watcher has seen, so  *)
(* the watchers' views stay right whatever changed (changedLocked).        *)
(***************************************************************************)
LEMMA ViewsOutdated ==
    ASSUME ViewsKept, TypeOK, entry'.revision = entry.revision + 1, UNCHANGED view
    PROVE  ViewsKept'
<1>1. \A w \in Watchers : view[w] # None => view[w].revision <= entry.revision
  BY DEF ViewsKept
<1>2. \A w \in Watchers : view[w] # None => view[w].revision \in Nat
  BY DEF TypeOK, Snapshots
<1>3. entry.revision \in Nat
  BY DEF TypeOK, Entries
<1> QED
  BY <1>1, <1>2, <1>3 DEF ViewsKept

-----------------------------------------------------------------------------
LEMMA InitIInv == Init => IInv
<1> SUFFICES ASSUME Init PROVE IInv
  OBVIOUS
<1>1. 0 \in Slots /\ seat = <<0>> /\ said = <<None>>
  BY EntryAssumption DEF Init, Slots
<1>2. entry \in Entries
  <2>1. \A s \in Slots : (IF s = 0 THEN Taken(1) ELSE Free) \in SlotRecords
    BY DEF Taken, Free, SlotRecords
  <2> QED
    BY <2>1 DEF Init, NewEntry, Entries
<1>3. TypeOK
  BY <1>1, <1>2 DEF Init, TypeOK
<1>4. SeatsKept
  BY <1>1 DEF Init, SeatsKept, NewEntry, Claimed, Taken, Free, Tokens
<1>5. ReportsKept
  BY DEF Init, ReportsKept, NewEntry, Taken, Free
<1>6. StartKept /\ ViewsKept
  BY DEF Init, StartKept, ViewsKept, NewEntry
<1> QED
  BY <1>3, <1>4, <1>5, <1>6 DEF IInv

(* changedLocked touches the revision and the channel only. *)
LEMMA ChangedEntry ==
    ASSUME NEW e \in Entries
    PROVE  /\ Changed(e) \in Entries
           /\ Changed(e).slots = e.slots
           /\ Changed(e).config = e.config
           /\ Changed(e).configVersion = e.configVersion
           /\ Changed(e).running = e.running
           /\ Changed(e).ended = e.ended
           /\ Changed(e).revision = e.revision + 1
<1>1. e.revision + 1 \in Nat /\ e.changed + 1 \in Nat
  BY DEF Entries
<1>2. \A m, n \in Nat : [e EXCEPT !.revision = m, !.changed = n] \in Entries
  BY DEF Entries
<1>3. Changed(e) \in Entries
  BY <1>1, <1>2 DEF Changed
<1> QED
  BY <1>3 DEF Entries, Changed

(* One slot rewritten, as joining, leaving and reporting do. *)
LEMMA SlotRewritten ==
    ASSUME NEW s \in Slots, NEW x \in SlotRecords, entry \in Entries,
           entry' = Changed([entry EXCEPT !.slots[s] = x])
    PROVE  /\ entry' \in Entries
           /\ entry'.slots[s] = x
           /\ \A t \in Slots : t # s => entry'.slots[t] = entry.slots[t]
           /\ entry'.config = entry.config
           /\ entry'.configVersion = entry.configVersion
           /\ entry'.running = entry.running
           /\ entry'.revision = entry.revision + 1
<1> DEFINE e == [entry EXCEPT !.slots[s] = x]
<1>1. e \in Entries
  BY DEF Entries
<1>2. /\ e.slots[s] = x
      /\ \A t \in Slots : t # s => e.slots[t] = entry.slots[t]
      /\ e.config = entry.config /\ e.configVersion = entry.configVersion
      /\ e.running = entry.running /\ e.revision = entry.revision
  BY DEF Entries
<1> HIDE DEF e
<1>3. entry' = Changed(e)
  BY DEF e
<1>4. /\ entry' \in Entries /\ entry'.slots = e.slots
      /\ entry'.config = e.config /\ entry'.configVersion = e.configVersion
      /\ entry'.running = e.running /\ entry'.revision = e.revision + 1
  BY <1>1, <1>3, ChangedEntry
<1> QED
  BY <1>2, <1>4

LEMMA JoinKeeps ==
    ASSUME IInv, NEW s \in Slots, Join(s)
    PROVE  IInv'
<1> DEFINE token == Len(seat) + 1
<1> USE DEF IInv
<1>1. /\ entry \in Entries /\ seat \in Seq(Slots) /\ said \in Seq(Results \cup {None})
      /\ Len(seat) \in Nat /\ Len(said) = Len(seat)
  BY DEF TypeOK, SeatsKept
<1>2. ~entry.running /\ entry' = Changed([entry EXCEPT !.slots[s] = Taken(token)])
  BY DEF Join, JoinSession, CanJoin
<1>3. Taken(token) \in SlotRecords
  BY <1>1 DEF Taken, SlotRecords
<1>4. /\ entry' \in Entries
      /\ entry'.slots[s] = Taken(token)
      /\ \A t \in Slots : t # s => entry'.slots[t] = entry.slots[t]
      /\ entry'.config = entry.config
      /\ entry'.configVersion = entry.configVersion
      /\ entry'.running = entry.running
      /\ entry'.revision = entry.revision + 1
  BY <1>1, <1>2, <1>3, SlotRewritten
<1>5. /\ seat' = Append(seat, s) /\ said' = Append(said, None)
      /\ seat' \in Seq(Slots) /\ said' \in Seq(Results \cup {None})
      /\ Len(seat') = token /\ Len(said') = token
  BY <1>1 DEF Join
<1>6. TypeOK'
  BY <1>4, <1>5 DEF TypeOK, Join
<1>7. \A i \in 1..Len(seat) : seat'[i] = seat[i] /\ said'[i] = said[i]
  BY <1>1, <1>5
<1>8. seat'[token] = s
  BY <1>1, <1>5
<1>9. SeatsKept'
  <2> SUFFICES ASSUME NEW t \in Slots, Claimed(entry', t)
               PROVE  /\ entry'.slots[t].token \in 1..Len(seat')
                      /\ seat'[entry'.slots[t].token] = t
    BY <1>5 DEF SeatsKept, Tokens
  <2>1. CASE t = s
    BY <2>1, <1>1, <1>4, <1>5, <1>8 DEF Taken
  <2>2. CASE t # s
    <3>1. entry.slots[t].token \in 1..Len(seat) /\ seat[entry.slots[t].token] = t
      BY <2>2, <1>4 DEF SeatsKept, Claimed, Tokens
    <3> QED
      BY <3>1, <2>2, <1>1, <1>4, <1>5, <1>7
  <2> QED
    BY <2>1, <2>2
<1>10. ReportsKept'
  <2> SUFFICES ASSUME NEW t \in Slots, entry'.slots[t].ready # None
               PROVE  /\ Claimed(entry', t)
                      /\ entry'.config # None
                      /\ entry'.slots[t].ready.version = entry'.configVersion
                      /\ said'[entry'.slots[t].token] = entry'.slots[t].ready.result
    BY DEF ReportsKept
  <2>1. t # s /\ entry'.slots[t] = entry.slots[t]
    BY <1>4 DEF Taken
  <2>2. entry.slots[t].token \in 1..Len(seat)
    BY <2>1 DEF ReportsKept, SeatsKept, Tokens
  <2> QED
    BY <2>1, <2>2, <1>4, <1>7 DEF ReportsKept, Claimed
<1>11. StartKept'
  BY <1>2, <1>4 DEF StartKept
<1>12. ViewsKept'
  BY <1>4, ViewsOutdated DEF Join
<1> QED
  BY <1>6, <1>9, <1>10, <1>11, <1>12

LEMMA LeaveKeeps ==
    ASSUME IInv, NEW s \in Slots, NEW token, Leave(s, token)
    PROVE  IInv'
<1> USE DEF IInv
<1>1. entry \in Entries
  BY DEF TypeOK
<1>2. /\ ~entry.running
      /\ entry' = Changed([entry EXCEPT !.slots[s] = Free])
      /\ UNCHANGED <<seat, said, waiting, view>>
  BY DEF Leave, LeaveSession, CanLeave
<1>3. Free \in SlotRecords
  BY DEF Free, SlotRecords
<1>4. /\ entry' \in Entries
      /\ entry'.slots[s] = Free
      /\ \A t \in Slots : t # s => entry'.slots[t] = entry.slots[t]
      /\ entry'.config = entry.config
      /\ entry'.configVersion = entry.configVersion
      /\ entry'.running = entry.running
      /\ entry'.revision = entry.revision + 1
  BY <1>1, <1>2, <1>3, SlotRewritten
<1>5. TypeOK'
  BY <1>2, <1>4 DEF TypeOK
<1>6. SeatsKept' /\ ReportsKept'
  BY <1>2, <1>4 DEF SeatsKept, ReportsKept, Claimed, Free, Tokens
<1>7. StartKept'
  BY <1>2, <1>4 DEF StartKept
<1>8. ViewsKept'
  BY <1>2, <1>4, ViewsOutdated
<1> QED
  BY <1>5, <1>6, <1>7, <1>8

LEMMA ConfigureKeeps ==
    ASSUME IInv, NEW doc \in Docs, Configure(doc)
    PROVE  IInv'
<1> USE DEF IInv
<1> DEFINE e == [entry EXCEPT !.config = doc, !.configVersion = @ + 1,
                   !.slots = [s \in Slots |-> [entry.slots[s] EXCEPT !.ready = None]]]
<1>1. /\ entry \in Entries /\ said \in Seq(Results \cup {None})
      /\ seat \in Seq(Slots) /\ Len(seat) \in Nat /\ Len(said) = Len(seat)
  BY DEF TypeOK, SeatsKept
<1>2. ~entry.running /\ UNCHANGED <<seat, waiting, view>> /\ entry' = Changed(e)
  BY DEF Configure, SetConfig, CanSetConfig
<1>3. \A s \in Slots : /\ e.slots[s].token = entry.slots[s].token
                       /\ e.slots[s].ready = None
  BY <1>1 DEF Entries, SlotRecords
<1>4. e \in Entries /\ e.running = entry.running /\ e.revision = entry.revision
  <2>1. entry.configVersion + 1 \in Nat
    BY <1>1 DEF Entries
  <2>2. \A s \in Slots : [entry.slots[s] EXCEPT !.ready = None] \in SlotRecords
    BY <1>1 DEF Entries, SlotRecords
  <2> QED
    BY <2>1, <2>2, <1>1 DEF Entries
<1> HIDE DEF e
<1>5. /\ entry' \in Entries /\ entry'.slots = e.slots
      /\ entry'.running = entry.running /\ entry'.revision = entry.revision + 1
  BY <1>2, <1>4, ChangedEntry
<1>6. said' \in Seq(Results \cup {None}) /\ Len(said') = Len(seat)
  BY <1>1 DEF Configure, Tokens
<1>7. TypeOK'
  BY <1>2, <1>5, <1>6 DEF TypeOK
<1>8. SeatsKept' /\ ReportsKept'
  BY <1>2, <1>3, <1>5, <1>6 DEF SeatsKept, ReportsKept, Claimed, Tokens
<1>9. StartKept' /\ ViewsKept'
  BY <1>2, <1>5, ViewsOutdated DEF StartKept
<1> QED
  BY <1>7, <1>8, <1>9
LEMMA ReportKeeps ==
    ASSUME IInv, NEW token \in Tokens, NEW version, NEW result \in Results,
           Report(token, version, result)
    PROVE  IInv'
<1> USE DEF IInv
<1> DEFINE s == seat[token]
           x == [token |-> token, ready |-> [version |-> entry.configVersion, result |-> result]]
<1>1. /\ entry \in Entries /\ said \in Seq(Results \cup {None})
      /\ seat \in Seq(Slots) /\ Len(seat) \in Nat /\ Len(said) = Len(seat)
      /\ token \in 1..Len(seat) /\ s \in Slots
  BY DEF TypeOK, SeatsKept, Tokens
<1>2. /\ ~entry.running /\ entry.config # None /\ version = entry.configVersion
      /\ Claimed(entry, s) /\ entry.slots[s].token = token
      /\ UNCHANGED <<seat, waiting, view>>
      /\ entry' = Changed([entry EXCEPT !.slots[s].ready =
                            [version |-> entry.configVersion, result |-> result]])
      /\ said' = [said EXCEPT ![token] = result]
  BY DEF Report, ReportReady, CanReport
<1> HIDE DEF s
<1>3. x \in SlotRecords
  BY <1>1 DEF SlotRecords, Reports, Entries
<1>4. [entry EXCEPT !.slots[s].ready = [version |-> entry.configVersion, result |-> result]]
        = [entry EXCEPT !.slots[s] = x]
  <2> DEFINE r == [version |-> entry.configVersion, result |-> result]
  <2>1. entry.slots[s] \in SlotRecords
    BY <1>1 DEF Entries
  <2>2. [entry.slots[s] EXCEPT !.ready = r] = x
    BY <2>1, <1>2 DEF SlotRecords
  <2> HIDE DEF r, x
  <2>3. [entry EXCEPT !.slots[s].ready = r] = [entry EXCEPT !.slots[s] = [entry.slots[s] EXCEPT !.ready = r]]
    OBVIOUS
  <2> QED
    BY <2>2, <2>3 DEF r
<1>5. /\ entry' \in Entries
      /\ entry'.slots[s] = x
      /\ \A t \in Slots : t # s => entry'.slots[t] = entry.slots[t]
      /\ entry'.config = entry.config
      /\ entry'.configVersion = entry.configVersion
      /\ entry'.running = entry.running
      /\ entry'.revision = entry.revision + 1
  BY <1>1, <1>2, <1>3, <1>4, SlotRewritten
<1>6. /\ said' \in Seq(Results \cup {None}) /\ Len(said') = Len(seat)
      /\ said'[token] = result
      /\ \A i \in 1..Len(seat) : i # token => said'[i] = said[i]
  BY <1>1, <1>2
<1>7. TypeOK'
  BY <1>2, <1>5, <1>6 DEF TypeOK
<1>8. \A t \in Slots : entry'.slots[t].token = entry.slots[t].token
  BY <1>2, <1>5
<1>9. SeatsKept'
  BY <1>2, <1>6, <1>8 DEF SeatsKept, Claimed, Tokens
<1>10. ReportsKept'
  <2> SUFFICES ASSUME NEW t \in Slots, entry'.slots[t].ready # None
               PROVE  /\ Claimed(entry', t)
                      /\ entry'.config # None
                      /\ entry'.slots[t].ready.version = entry'.configVersion
                      /\ said'[entry'.slots[t].token] = entry'.slots[t].ready.result
    BY DEF ReportsKept
  <2>1. CASE t = s
    BY <2>1, <1>2, <1>5, <1>6 DEF Claimed
  <2>2. CASE t # s
    <3>1. entry.slots[t].token \in 1..Len(seat) /\ seat[entry.slots[t].token] = t
      BY <2>2, <1>5 DEF ReportsKept, SeatsKept, Tokens
    <3>2. entry.slots[t].token # token
      BY <3>1, <2>2 DEF s
    <3> QED
      BY <3>1, <3>2, <2>2, <1>5, <1>6 DEF ReportsKept, Claimed
  <2> QED
    BY <2>1, <2>2
<1>11. StartKept' /\ ViewsKept'
  BY <1>2, <1>5, ViewsOutdated DEF StartKept
<1> QED
  BY <1>7, <1>9, <1>10, <1>11

LEMMA StartKeeps ==
    ASSUME IInv, Start
    PROVE  IInv'
<1> USE DEF IInv
<1> DEFINE e == [entry EXCEPT !.running = TRUE]
<1>1. entry \in Entries
  BY DEF TypeOK
<1>2. StateOf(entry) = "ready" /\ UNCHANGED <<seat, said, waiting, view>> /\ entry' = Changed(e)
  BY DEF Start, CanStart, StartSession
<1>3. AllReady(entry)
  <2>1. entry.ended \in BOOLEAN /\ entry.running \in BOOLEAN
    BY <1>1 DEF Entries
  <2> QED
    BY <2>1, <1>2 DEF StateOf
<1>4. /\ e \in Entries /\ e.slots = entry.slots /\ e.config = entry.config
      /\ e.configVersion = entry.configVersion /\ e.revision = entry.revision
  BY <1>1 DEF Entries
<1> HIDE DEF e
<1>5. /\ entry' \in Entries /\ entry'.slots = entry.slots /\ entry'.config = entry.config
      /\ entry'.configVersion = entry.configVersion /\ entry'.revision = entry.revision + 1
  BY <1>2, <1>4, ChangedEntry
<1>6. TypeOK'
  BY <1>2, <1>5 DEF TypeOK
<1>7. SeatsKept' /\ ReportsKept'
  BY <1>2, <1>5 DEF SeatsKept, ReportsKept, Claimed, Tokens
<1>8. StartKept'
  BY <1>3, <1>5 DEF StartKept, AllReady, SlotStatus, Reported, Claimed
<1>9. ViewsKept'
  BY <1>2, <1>5, ViewsOutdated
<1> QED
  BY <1>6, <1>7, <1>8, <1>9

LEMMA EndKeeps ==
    ASSUME IInv, End
    PROVE  IInv'
<1> USE DEF IInv
<1> DEFINE e == [entry EXCEPT !.ended = TRUE]
<1>1. entry \in Entries
  BY DEF TypeOK
<1>2. UNCHANGED <<seat, said, waiting, view>> /\ entry' = Changed(e)
  BY DEF End, Remove
<1>3. /\ e \in Entries /\ e.slots = entry.slots /\ e.config = entry.config
      /\ e.running = entry.running
      /\ e.configVersion = entry.configVersion /\ e.revision = entry.revision
  BY <1>1 DEF Entries
<1> HIDE DEF e
<1>4. /\ entry' \in Entries /\ entry'.slots = entry.slots /\ entry'.config = entry.config
      /\ entry'.running = entry.running
      /\ entry'.configVersion = entry.configVersion /\ entry'.revision = entry.revision + 1
  BY <1>2, <1>3, ChangedEntry
<1>5. TypeOK'
  BY <1>2, <1>4 DEF TypeOK
<1>6. SeatsKept' /\ ReportsKept'
  BY <1>2, <1>4 DEF SeatsKept, ReportsKept, Claimed, Tokens
<1>7. StartKept'
  BY <1>4 DEF StartKept, AllReady, SlotStatus, Reported, Claimed
<1>8. ViewsKept'
  BY <1>2, <1>4, ViewsOutdated
<1> QED
  BY <1>5, <1>6, <1>7, <1>8

(* A watcher's step takes a snapshot or none, and touches nothing else. *)
LEMMA WatcherKeeps ==
    ASSUME IInv, NEW w \in Watchers, Ask(w) \/ Woken(w) \/ TimesOut(w) \/ HangsUp(w)
    PROVE  IInv'
<1> USE DEF IInv
<1>1. /\ UNCHANGED <<entry, seat, said>>
      /\ view' = view \/ view' = [view EXCEPT ![w] = Snapshot(entry)]
      /\ \/ waiting' = [waiting EXCEPT ![w] = None]
         \/ waiting' = [waiting EXCEPT ![w] = entry.changed]
  BY DEF Ask, Woken, TimesOut, HangsUp, Look
<1>2. entry \in Entries /\ entry.changed \in Nat /\ entry.revision \in Nat
  BY DEF TypeOK, Entries
<1>3. Snapshot(entry) \in Snapshots /\ Snapshot(entry).revision = entry.revision
  BY <1>2, SnapshotType
<1>4. TypeOK'
  BY <1>1, <1>2, <1>3 DEF TypeOK
<1>5. SeatsKept' /\ ReportsKept' /\ StartKept'
  BY <1>1 DEF SeatsKept, ReportsKept, StartKept, Tokens
<1>6. ViewsKept'
  <2>1. view \in [Watchers -> Snapshots \cup {None}]
    BY DEF TypeOK
  <2> QED
    BY <2>1, <1>1, <1>2, <1>3 DEF ViewsKept
<1> QED
  BY <1>4, <1>5, <1>6

LEMMA NextKeeps == IInv /\ [Next]_vars => IInv'
<1> SUFFICES ASSUME IInv, [Next]_vars PROVE IInv'
  OBVIOUS
<1>1. ASSUME NEW s \in Slots, Join(s) PROVE IInv'
  BY <1>1, JoinKeeps
<1>2. ASSUME NEW s \in Slots, NEW token \in Tokens \cup {HostToken}, Leave(s, token) PROVE IInv'
  BY <1>2, LeaveKeeps
<1>3. ASSUME NEW doc \in Docs, Configure(doc) PROVE IInv'
  BY <1>3, ConfigureKeeps
<1>4. ASSUME NEW token \in Tokens, NEW version \in 0..entry.configVersion,
             NEW result \in Results, Report(token, version, result)
      PROVE IInv'
  BY <1>4, ReportKeeps
<1>5. CASE Start
  BY <1>5, StartKeeps
<1>6. CASE End
  BY <1>6, EndKeeps
<1>7. ASSUME NEW w \in Watchers, Ask(w) \/ Woken(w) \/ TimesOut(w) \/ HangsUp(w) PROVE IInv'
  BY <1>7, WatcherKeeps
<1>8. CASE Finished \/ UNCHANGED vars
  <2>1. UNCHANGED <<entry, seat, said, waiting, view>>
    BY <1>8 DEF Finished, vars
  <2> QED
    BY <2>1 DEF IInv, TypeOK, SeatsKept, ReportsKept, StartKept, ViewsKept, Tokens
<1> QED
  BY <1>1, <1>2, <1>3, <1>4, <1>5, <1>6, <1>7, <1>8 DEF Next

THEOREM Invariance == SafeSpec => []IInv
<1> QED
  BY InitIInv, NextKeeps, PTL DEF SafeSpec

-----------------------------------------------------------------------------
(* Every variable of a session and its watchers keeps its type. *)
THEOREM SessionTypeCorrect == SafeSpec => []TypeOK
<1>1. IInv => TypeOK
  BY DEF IInv
<1> QED
  BY <1>1, Invariance, PTL

(***************************************************************************)
(* The reports a session shows were made by the players it shows, of the   *)
(* document it shows, whatever late or foreign requests arrive.            *)
(***************************************************************************)
THEOREM ReportsAreOwn == SafeSpec => []OwnReports
<1>1. IInv => OwnReports
  BY DEF IInv, OwnReports, ReportsKept, Reported
<1> QED
  BY <1>1, Invariance, PTL

(***************************************************************************)
(* A game runs only while every slot's holder stands by the document it    *)
(* runs: the gate of startSession holds, and goes on holding.              *)
(***************************************************************************)
THEOREM StartIsAgreed == SafeSpec => []StartedAgreed
<1>1. IInv => StartedAgreed
  <2> SUFFICES ASSUME IInv, entry.running, NEW s \in Slots
               PROVE  /\ Claimed(entry, s)
                      /\ said[entry.slots[s].token]
                            = [hash |-> entry.config.hash, missing |-> FALSE]
    BY DEF StartedAgreed
  <2>1. entry \in Entries
    BY DEF IInv, TypeOK
  <2>2. SlotStatus(entry, s) = "ready"
    BY DEF IInv, StartKept, AllReady
  <2>3. /\ Claimed(entry, s) /\ Reported(entry, s)
        /\ entry.slots[s].ready.result.missing = FALSE
        /\ entry.slots[s].ready.result.hash = entry.config.hash
    BY <2>1, <2>2, ReadySlot
  <2>4. said[entry.slots[s].token] = entry.slots[s].ready.result
    BY <2>3 DEF IInv, ReportsKept, Reported
  <2>5. entry.slots[s].ready \in Reports
    BY <2>1, <2>3 DEF Reported, Entries, SlotRecords
  <2>6. entry.slots[s].ready.result \in Results
    BY <2>5 DEF Reports
  <2> QED
    BY <2>3, <2>4, <2>6 DEF Results
<1> QED
  BY <1>1, Invariance, PTL

(***************************************************************************)
(* Two equal revisions are one visible state: a watcher at the current     *)
(* revision has missed nothing.                                            *)
(***************************************************************************)
THEOREM RevisionIsComplete == SafeSpec => []RevisionTellsAll
<1>1. IInv => RevisionTellsAll
  BY DEF IInv, RevisionTellsAll, ViewsKept
<1> QED
  BY <1>1, Invariance, PTL
==============================================================================
