---------------------------- MODULE SessionEntry ----------------------------
(***************************************************************************)
(* One entry of the lobby's registry, seen from the session API: the       *)
(* functions of session.go that run under Lobby.mu, as operators from a    *)
(* state of the entry to the next one.  LobbySession runs them against     *)
(* clients and long-polls.                                                 *)
(*                                                                         *)
(* A document is its hash over the checksum keys and the rest of it, which *)
(* the hash does not cover.  Requests the validation refuses change        *)
(* nothing and are left out, and so are the tags players choose.           *)
(***************************************************************************)
EXTENDS Integers, FiniteSets

CONSTANTS
    Players,   \* entry.players
    Hashes,    \* the values game.ConfigHash can return
    Rests,     \* what a document says outside the checksum keys
    None       \* a nil pointer, and no token

ASSUME EntryAssumption ==
    /\ Players \in 1..6
    /\ None \notin Nat

Slots == 0..(Players - 1)
Docs == [hash : Hashes, rest : Rests]

(* Tokens are numbered in the order newToken drew them. *)
HostToken == 0

(* What a launcher reports of a version, and what the entry keeps of it. *)
Results == [hash : Hashes, missing : BOOLEAN]
Reports == [version : Nat, result : Results]

Free == [token |-> None, ready |-> None]
Taken(token) == [token |-> token, ready |-> None]
SlotRecords == [token : Nat \cup {None}, ready : Reports \cup {None}]

Entries ==
    [slots : [Slots -> SlotRecords], config : Docs \cup {None}, configVersion : Nat,
     running : BOOLEAN, ended : BOOLEAN, revision : Nat, changed : Nat]

(* newEntry, and createSession: the host holds slot 0 with the token first. *)
NewEntry(first) ==
    [slots |-> [s \in Slots |-> IF s = 0 THEN Taken(first) ELSE Free],
     config |-> None, configVersion |-> 0, running |-> FALSE, ended |-> FALSE,
     revision |-> 1, changed |-> 0]

-----------------------------------------------------------------------------
(* slotStatusLocked *)
Claimed(e, s) == e.slots[s].token # None
Reported(e, s) ==
    /\ Claimed(e, s)
    /\ e.config # None
    /\ e.slots[s].ready # None
    /\ e.slots[s].ready.version = e.configVersion

SlotStatus(e, s) ==
    CASE ~Claimed(e, s) -> "empty"
      [] Claimed(e, s) /\ ~Reported(e, s) -> "waiting"
      [] Reported(e, s) /\ e.slots[s].ready.result.missing -> "missing"
      [] Reported(e, s) /\ ~e.slots[s].ready.result.missing ->
            IF e.slots[s].ready.result.hash = e.config.hash THEN "ready" ELSE "mismatch"

AllReady(e) == \A s \in Slots : SlotStatus(e, s) = "ready"

(* stateLocked *)
StateOf(e) ==
    CASE e.ended -> "ended"
      [] ~e.ended /\ e.running -> "running"
      [] ~e.ended /\ ~e.running /\ e.config = None -> "created"
      [] ~e.ended /\ ~e.running /\ e.config # None ->
            IF AllReady(e) THEN "ready" ELSE "configuring"

(* snapshotLocked: what GET /game/{id} shows of the entry *)
Snapshot(e) ==
    [state |-> StateOf(e), revision |-> e.revision,
     configVersion |-> e.configVersion, config |-> e.config,
     slots |-> [s \in Slots |->
        [status |-> SlotStatus(e, s),
         result |-> IF Reported(e, s) THEN e.slots[s].ready.result ELSE None]]]

-----------------------------------------------------------------------------
(***************************************************************************)
(* changedLocked: the channel the long-polls wait on is closed and another *)
(* takes its place; changed numbers it.                                    *)
(***************************************************************************)
Changed(e) == [e EXCEPT !.revision = @ + 1, !.changed = @ + 1]

(* sessionLocked: an entry that ended is in the registry no more. *)
Found(e) == ~e.ended

(* joinSession: the lowest free slot *)
CanJoin(e, s) ==
    /\ Found(e)
    /\ ~e.running
    /\ ~Claimed(e, s)
    /\ \A t \in Slots : t < s => Claimed(e, t)

JoinSession(e, s, token) == Changed([e EXCEPT !.slots[s] = Taken(token)])

(* mutant of CanLeave: nothing keeps a slot once the game has started *)
CanLeaveRunning(e, s, token) ==
    /\ Found(e)
    /\ Claimed(e, s)
    /\ token \in {e.slots[s].token, HostToken}
    /\ s # 0

(* leaveSession: with the slot's own token or the host's *)
CanLeave(e, s, token) ==
    /\ Found(e)
    /\ Claimed(e, s)
    /\ token \in {e.slots[s].token, HostToken}
    /\ s # 0
    /\ ~e.running

LeaveSession(e, s) == Changed([e EXCEPT !.slots[s] = Free])

(* setConfig: the host replaces the document, and every report is dropped. *)
CanSetConfig(e, token) == Found(e) /\ token = HostToken /\ ~e.running

SetConfig(e, doc) ==
    Changed([e EXCEPT !.config = doc, !.configVersion = @ + 1,
                      !.slots = [s \in Slots |-> [e.slots[s] EXCEPT !.ready = None]]])

(* reportReady *)
CanReport(e, s, token, version) ==
    /\ Found(e)
    /\ Claimed(e, s)
    /\ token = e.slots[s].token
    /\ ~e.running
    /\ e.config # None
    /\ version = e.configVersion

(* mutant of ReportReady: no change is announced *)
ReportUnannounced(e, s, result) ==
    [e EXCEPT !.slots[s].ready = [version |-> e.configVersion, result |-> result]]

ReportReady(e, s, result) ==
    Changed([e EXCEPT !.slots[s].ready = [version |-> e.configVersion, result |-> result]])

(* startSession, and startLocked's part of it *)
CanStart(e, token) ==
    /\ Found(e)
    /\ token = HostToken
    /\ ~e.running
    /\ StateOf(e) = "ready"

StartSession(e) == Changed([e EXCEPT !.running = TRUE])

(* removeLocked, for whatever reason: the host's, the reaper's, the game's end *)
Remove(e) == Changed([e EXCEPT !.ended = TRUE])
=============================================================================
