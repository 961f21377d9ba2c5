---------------------------- MODULE LobbySession ----------------------------
(***************************************************************************)
(* The life of one session game behind the HTTP API: the host and players  *)
(* call it in any order, and watchers long-poll it.                        *)
(*                                                                         *)
(* A request may arrive long after it was sent: from a launcher whose slot *)
(* has been freed and taken by another, or about a document the host has   *)
(* replaced.  So every token ever issued, and every version there has      *)
(* been, can turn up in a request at any time.  A slot's requests name the *)
(* slot its token was issued for.                                          *)
(***************************************************************************)
EXTENDS SessionEntry, Sequences

CONSTANTS
    Watchers,        \* clients that poll GET /game/{id}?since=...
    TokenLimit,      \* bounds of the model: player tokens issued,
    RevisionLimit    \* and changes followed

VARIABLES
    entry,    \* the entry, while Lobby.mu is free
    seat,     \* the slot each player token was issued for, in order
    said,     \* history: what each token's holder last got the server to
              \* record of the current document; None after it changed
    waiting,  \* the channel each watcher's request is parked on, or None
    view      \* each watcher's latest snapshot, or None

vars == <<entry, seat, said, waiting, view>>

Tokens == 1..Len(seat)

SlotViews ==
    [status : {"empty", "waiting", "ready", "missing", "mismatch"}, result : Results \cup {None}]

Snapshots ==
    [state : {"created", "configuring", "ready", "running", "ended"}, revision : Nat,
     configVersion : Nat, config : Docs \cup {None}, slots : [Slots -> SlotViews]]

TypeOK ==
    /\ entry \in Entries
    /\ seat \in Seq(Slots)
    /\ said \in Seq(Results \cup {None})
    /\ waiting \in [Watchers -> Nat \cup {None}]
    /\ view \in [Watchers -> Snapshots \cup {None}]

(* createSession: the host's own player token is the first. *)
Init ==
    /\ entry = NewEntry(1)
    /\ seat = <<0>>
    /\ said = <<None>>
    /\ waiting = [w \in Watchers |-> None]
    /\ view = [w \in Watchers |-> None]

-----------------------------------------------------------------------------
(* What the calls of the session API do *)
Bounded == entry.revision < RevisionLimit

Join(s) ==
    /\ Bounded
    /\ Len(seat) < TokenLimit
    /\ CanJoin(entry, s)
    /\ entry' = JoinSession(entry, s, Len(seat) + 1)
    /\ seat' = Append(seat, s)
    /\ said' = Append(said, None)
    /\ UNCHANGED <<waiting, view>>

Leave(s, token) ==
    /\ Bounded
    /\ CanLeave(entry, s, token)
    /\ entry' = LeaveSession(entry, s)
    /\ UNCHANGED <<seat, said, waiting, view>>

Configure(doc) ==
    /\ Bounded
    /\ CanSetConfig(entry, HostToken)
    /\ entry' = SetConfig(entry, doc)
    /\ said' = [t \in Tokens |-> None]
    /\ UNCHANGED <<seat, waiting, view>>

Report(token, version, result) ==
    /\ Bounded
    /\ CanReport(entry, seat[token], token, version)
    /\ entry' = ReportReady(entry, seat[token], result)
    /\ said' = IF version = entry.configVersion THEN [said EXCEPT ![token] = result] ELSE said
    /\ UNCHANGED <<seat, waiting, view>>

Start ==
    /\ Bounded
    /\ CanStart(entry, HostToken)
    /\ entry' = StartSession(entry)
    /\ UNCHANGED <<seat, said, waiting, view>>

(* endSession of a game not started; the idle reaper; shutdown; run's end. *)
End ==
    /\ ~entry.ended
    /\ entry' = Remove(entry)
    /\ UNCHANGED <<seat, said, waiting, view>>

-----------------------------------------------------------------------------
(***************************************************************************)
(* waitSnapshot.  Between two looks at the entry it waits without the      *)
(* lock, on the channel it read under it; it keeps the entry, so it can    *)
(* answer after the entry has left the registry.                           *)
(***************************************************************************)
Since(w) == IF view[w] = None THEN 0 ELSE view[w].revision
News(w) == entry.revision > Since(w) \/ entry.ended

(* mutant of Look: the test forgets that a game can end *)
LookForChange(w) ==
    IF entry.revision > Since(w) /\ ~entry.ended
    THEN view' = [view EXCEPT ![w] = Snapshot(entry)] /\ waiting' = [waiting EXCEPT ![w] = None]
    ELSE view' = view /\ waiting' = [waiting EXCEPT ![w] = entry.changed]

(* The loop's test, under the lock: answer, or park on the current channel. *)
Look(w) ==
    IF News(w)
    THEN view' = [view EXCEPT ![w] = Snapshot(entry)] /\ waiting' = [waiting EXCEPT ![w] = None]
    ELSE view' = view /\ waiting' = [waiting EXCEPT ![w] = entry.changed]

Ask(w) ==
    /\ waiting[w] = None
    /\ Found(entry)
    /\ Look(w)
    /\ UNCHANGED <<entry, seat, said>>

Woken(w) ==
    /\ waiting[w] # None
    /\ waiting[w] # entry.changed
    /\ Look(w)
    /\ UNCHANGED <<entry, seat, said>>

(* The wait ran out: an answer all the same. *)
TimesOut(w) ==
    /\ waiting[w] # None
    /\ view' = [view EXCEPT ![w] = Snapshot(entry)]
    /\ waiting' = [waiting EXCEPT ![w] = None]
    /\ UNCHANGED <<entry, seat, said>>

(* The client hung up: the answer is lost. *)
HangsUp(w) ==
    /\ waiting[w] # None
    /\ waiting' = [waiting EXCEPT ![w] = None]
    /\ UNCHANGED <<entry, seat, said, view>>

Finished ==
    /\ entry.ended
    /\ \A w \in Watchers : waiting[w] = None
    /\ UNCHANGED vars

Next ==
    \/ \E s \in Slots : Join(s)
    \/ \E s \in Slots, token \in Tokens \cup {HostToken} : Leave(s, token)
    \/ \E doc \in Docs : Configure(doc)
    \/ \E token \in Tokens, version \in 0..entry.configVersion, result \in Results :
            Report(token, version, result)
    \/ Start
    \/ End
    \/ \E w \in Watchers : Ask(w) \/ Woken(w) \/ TimesOut(w) \/ HangsUp(w)
    \/ Finished

SafeSpec == Init /\ [][Next]_vars

(* A parked request whose channel is closed runs again; nothing else is due. *)
Spec == SafeSpec /\ \A w \in Watchers : WF_vars(Woken(w))

-----------------------------------------------------------------------------
(* Properties *)

(***************************************************************************)
(* The report a slot shows is what its present holder last said of the     *)
(* present document: never its predecessor's, never of another version     *)
(* (joinSession, reportReady, setConfig).                                  *)
(***************************************************************************)
OwnReports ==
    \A s \in Slots : Reported(entry, s) => said[entry.slots[s].token] = entry.slots[s].ready.result

(***************************************************************************)
(* A game that runs has every slot taken, and each holder's last word of   *)
(* the document as it is was: same hash, nothing missing.  So no request   *)
(* takes back, after the start, what the start relied on (startSession     *)
(* and the errStarted refusals).                                           *)
(***************************************************************************)
StartedAgreed ==
    entry.running => \A s \in Slots :
        /\ Claimed(entry, s)
        /\ said[entry.slots[s].token] = [hash |-> entry.config.hash, missing |-> FALSE]

(***************************************************************************)
(* A watcher that has seen the current revision has seen everything: no    *)
(* visible change goes without a new revision (changedLocked).             *)
(***************************************************************************)
RevisionTellsAll ==
    \A w \in Watchers :
        view[w] # None /\ view[w].revision = entry.revision => view[w] = Snapshot(entry)

(***************************************************************************)
(* A parked request answers once there is news, without waiting for its    *)
(* timer: no change falls between the look and the wait (waitSnapshot).    *)
(***************************************************************************)
WaitersWake == \A w \in Watchers : (waiting[w] # None /\ News(w)) ~> (waiting[w] = None)
=============================================================================
