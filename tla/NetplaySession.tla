--------------------------- MODULE NetplaySession ---------------------------
(***************************************************************************)
(* A lobby game as its launchers play it: the sessions of session.py over  *)
(* the entry of session.go.                                                *)
(*                                                                         *)
(* Each launcher has three threads.  The UI thread runs what the user does *)
(* and what timers fire, and what the other two post to it (dispatch).     *)
(* The worker makes the lobby calls in order; a call can be refused, get   *)
(* lost, or lose its answer.  The watcher polls and posts each revision; a *)
(* failed poll only delays the next.                                       *)
(*                                                                         *)
(* What is on its way to the UI thread, as an answer or as a post, is one  *)
(* snapshot and one answer to a push per launcher: a session has one push  *)
(* at a time, and what a later poll finds while an earlier snapshot waits  *)
(* it also finds just after that one is handled, as handling it changes    *)
(* the session only.                                                       *)
(***************************************************************************)
EXTENDS LauncherSession

CONSTANTS
    Launchers,
    Host,          \* the launcher that created the game
    FirstDocs,     \* configurations the launchers have at first
    Lacking,       \* launchers whose file database may lack media,
    Unfound,       \* and the media it may lack
    ActLimit,      \* bounds of the model: what users do besides joining,
    FailLimit      \* and calls and answers lost

(* What a launcher uses of a snapshot *)
Views ==
    [state : PreStart \cup {"running", "ended"}, version : Nat, config : Docs \cup {None}]

ASSUME NetplayAssumption ==
    /\ IsFiniteSet(Launchers) /\ Host \in Launchers
    /\ FirstDocs \subseteq Docs
    /\ Lacking \subseteq Launchers
    /\ Unfound \subseteq Hashes \ {NoMedia}
    /\ None \notin Launchers \cup Docs /\ None \notin Views
    /\ ActLimit \in Nat /\ FailLimit \in Nat

VARIABLES
    entry,     \* the lobby's entry
    session,   \* each launcher's NetplaySession
    news,      \* launchers whose watcher has not seen the entry as it is
    polled,    \* the snapshot on its way to each UI thread, or None
    pushed,    \* the answer to a push on its way there, or None
    acts, failures

vars == <<entry, session, news, polled, pushed, acts, failures>>

Shown(e) ==
    [state |-> StateOf(e), version |-> e.configVersion, config |-> e.config]
Answers == [error : BOOLEAN, version : Nat]
Calls ==
    [what : {"push"}, doc : Docs] \cup [what : {"report"}, version : Nat, result : Results]
    \cup [what : {"start", "leave", "end"}]

Sessions ==
    [local : Docs, lacks : SUBSET Hashes, slot : Slots \cup {None}, token : Nat \cup {None},
     snapshot : Views \cup {None}, ended : BOOLEAN, launched : Docs \cup {None}, applied : Nat,
     lastPushed : Docs \cup {None}, pushedVersion : Nat, pushing : BOOLEAN, pushAgain : BOOLEAN,
     pushScheduled : BOOLEAN, restoreScheduled : BOOLEAN, calls : Seq(Calls)]

TypeOK ==
    /\ entry \in Entries
    /\ session \in [Launchers -> Sessions]
    /\ news \subseteq Launchers
    /\ polled \in [Launchers -> Views \cup {None}]
    /\ pushed \in [Launchers -> Answers \cup {None}]
    /\ acts \in 0..ActLimit
    /\ failures \in 0..FailLimit

(* create_session and start: the host holds slot 0 and pushes at once. *)
Begun(c, slot, token) == PushIfChanged([c EXCEPT !.slot = slot, !.token = token])

Init ==
    /\ entry = NewEntry(1)
    /\ \E local \in [Launchers -> FirstDocs], without \in SUBSET Lacking :
          session = [l \in Launchers |->
              LET c == NewSession(local[l], IF l \in without THEN Unfound ELSE {})
              IN  IF l = Host THEN Begun(c, 0, 1) ELSE c]
    /\ news = Launchers
    /\ polled = [l \in Launchers |-> None]
    /\ pushed = [l \in Launchers |-> None]
    /\ acts = 0
    /\ failures = 0

-----------------------------------------------------------------------------
(***************************************************************************)
(* Another state of the entry.  Its revision is forgotten: each change has *)
(* a new one (RevisionTellsAll in LobbySession), so that a watcher has     *)
(* news if the entry has changed since its snapshot.                       *)
(***************************************************************************)
Settled(e) == [e EXCEPT !.revision = 1, !.changed = 0]

Becomes(e) ==
    /\ entry' = Settled(e)
    /\ news' = IF e = entry THEN news ELSE Launchers

-----------------------------------------------------------------------------
(* What users do *)

(* The join was answered and its session begun. *)
Joined(l) == session[l].slot # None
NextToken == 1 + Cardinality({l \in Launchers : Joined(l)})

Join(l, s) ==
    /\ ~Joined(l)
    /\ CanJoin(entry, s)
    /\ Becomes(JoinSession(entry, s, NextToken))
    /\ session' = [session EXCEPT ![l] = [@ EXCEPT !.slot = s, !.token = NextToken]]
    /\ UNCHANGED <<polled, pushed, acts, failures>>

User(l) ==
    /\ Joined(l)
    /\ ~session[l].ended
    /\ acts < ActLimit
    /\ acts' = acts + 1
    /\ UNCHANGED <<entry, news, polled, pushed, failures>>

Edit(l, part, value) ==
    /\ User(l)
    /\ session[l].launched = None
    /\ session[l].local[part] # value
    /\ session' = [session EXCEPT ![l] = ConfigChanged([@ EXCEPT !.local[part] = value], part)]

(* /recheck, after the files were added or not *)
PressRecheck(l, added) ==
    /\ User(l)
    /\ session' = [session EXCEPT ![l] = Recheck(IF added THEN [@ EXCEPT !.lacks = {}] ELSE @)]

(* Not counted in acts; bounded to one start in the queue. *)
PressStart ==
    /\ CanStartGame(session[Host])
    /\ \A n \in DOMAIN session[Host].calls : session[Host].calls[n].what # "start"
    /\ session' = [session EXCEPT ![Host] = StartGame(@)]
    /\ UNCHANGED <<entry, news, polled, pushed, acts, failures>>

PressLeave(l) ==
    /\ User(l)
    /\ session' = [session EXCEPT ![l] = LeaveGame(@)]

-----------------------------------------------------------------------------
(* The UI thread: timers, and what was posted *)
PushTimer(l) ==
    /\ session[l].pushScheduled
    /\ session' = [session EXCEPT ![l] = PushDue(@)]
    /\ UNCHANGED <<entry, news, polled, pushed, acts, failures>>

RestoreTimer(l) ==
    /\ session[l].restoreScheduled
    /\ session' = [session EXCEPT ![l] = RestoreDue(@)]
    /\ UNCHANGED <<entry, news, polled, pushed, acts, failures>>

(* _handle, of what the watcher posted before the session stopped it or not: *)
(* afterwards the one does nothing and the other is not posted.              *)
SeeSnapshot(l) ==
    /\ polled[l] # None
    /\ session' = [session EXCEPT ![l] = Handle(@, polled[l])]
    /\ polled' = [polled EXCEPT ![l] = None]
    /\ UNCHANGED <<entry, news, pushed, acts, failures>>

SeePushed(l) ==
    /\ pushed[l] # None
    /\ session' = [session EXCEPT ![l] = Pushed(@, pushed[l])]
    /\ pushed' = [pushed EXCEPT ![l] = None]
    /\ UNCHANGED <<entry, news, polled, acts, failures>>

-----------------------------------------------------------------------------
(* The worker *)
Granted(c, call) ==
    CASE call.what = "push" -> CanSetConfig(entry, HostToken)
      [] call.what = "report" -> CanReport(entry, c.slot, c.token, call.version)
      [] call.what = "start" -> CanStart(entry, HostToken)
      [] call.what = "leave" -> CanLeave(entry, c.slot, c.token)
      [] call.what = "end" -> Found(entry)

(* A running game is only told to stop: it leaves when it has, see GameOver. *)
Effect(c, call) ==
    CASE call.what = "push" -> SetConfig(entry, call.doc)
      [] call.what = "report" -> ReportReady(entry, c.slot, call.result)
      [] call.what = "start" -> StartSession(entry)
      [] call.what = "leave" -> LeaveSession(entry, c.slot)
      [] call.what = "end" -> IF entry.running THEN entry ELSE Remove(entry)

(* The worker takes a call; only a push has use for the answer. *)
Take(l, error) ==
    /\ session[l].calls # <<>>
    /\ session' = [session EXCEPT ![l].calls = Tail(@)]
    /\ pushed' = [pushed EXCEPT ![l] =
          IF Head(session[l].calls).what = "push"
          THEN [error |-> error, version |-> entry'.configVersion] ELSE @]
    /\ UNCHANGED <<polled, acts>>

CallWorks(l) ==
    /\ session[l].calls # <<>>
    /\ LET call == Head(session[l].calls)
       IN  /\ Granted(session[l], call)
           /\ Becomes(Effect(session[l], call))
    /\ Take(l, FALSE)
    /\ UNCHANGED failures

CallRefused(l) ==
    /\ session[l].calls # <<>>
    /\ ~Granted(session[l], Head(session[l].calls))
    /\ UNCHANGED <<entry, news>>
    /\ Take(l, TRUE)
    /\ UNCHANGED failures

(* The request is lost, or its answer is. *)
CallLost(l) ==
    /\ failures < FailLimit
    /\ failures' = failures + 1
    /\ session[l].calls # <<>>
    /\ LET call == Head(session[l].calls)
       IN  \/ Becomes(entry)
           \/ Granted(session[l], call) /\ Becomes(Effect(session[l], call))
    /\ Take(l, TRUE)

-----------------------------------------------------------------------------
(* The watcher *)
(* The poll is answered: there is news, or the game has ended. *)
Poll(l) ==
    /\ Joined(l)
    /\ ~session[l].ended
    /\ polled[l] = None
    /\ l \in news
    /\ polled' = [polled EXCEPT ![l] = Shown(entry)]
    /\ news' = news \ {l}
    /\ UNCHANGED <<entry, session, pushed, acts, failures>>

-----------------------------------------------------------------------------
(* The lobby removes the game: it was idle or is over, or the lobby stops. *)
GameOver ==
    /\ ~entry.ended
    /\ Becomes(Remove(entry))
    /\ UNCHANGED <<session, polled, pushed, acts, failures>>

(***************************************************************************)
(* Nothing is left to do but for users: the system waits for them, or, if  *)
(* the bounds let them do no more, the model ends.                         *)
(***************************************************************************)
Quiet(l) ==
    /\ session[l].calls = <<>> /\ pushed[l] = None /\ polled[l] = None
    /\ ~session[l].pushScheduled /\ ~session[l].restoreScheduled

Finished ==
    /\ entry.ended
    /\ \A l \in Launchers : Quiet(l)
    /\ UNCHANGED vars

UserStep(l) ==
    \/ \E s \in Slots : Join(l, s)
    \/ \E value \in Hashes : Edit(l, "hash", value)
    \/ \E value \in Rests : Edit(l, "rest", value)
    \/ \E added \in BOOLEAN : PressRecheck(l, added)
    \/ PressLeave(l)

Timer(l) == PushTimer(l) \/ RestoreTimer(l)
Worker(l) == CallWorks(l) \/ CallRefused(l) \/ CallLost(l)
Posted(l) == SeeSnapshot(l) \/ SeePushed(l)

Next ==
    \/ \E l \in Launchers : UserStep(l) \/ Timer(l) \/ Posted(l) \/ Worker(l) \/ Poll(l)
    \/ PressStart
    \/ GameOver
    \/ Finished

(***************************************************************************)
(* The threads run, timers fire and polls are answered, a failed one after *)
(* its retry.  Users need do nothing, and the game need never end.         *)
(***************************************************************************)
Fairness ==
    \A l \in Launchers :
        /\ WF_vars(PushTimer(l)) /\ WF_vars(RestoreTimer(l))
        /\ WF_vars(SeeSnapshot(l)) /\ WF_vars(SeePushed(l))
        /\ WF_vars(Worker(l)) /\ WF_vars(Poll(l))

SafeSpec == Init /\ [][Next]_vars
Spec == SafeSpec /\ Fairness

-----------------------------------------------------------------------------
(* Properties *)

Following(l) == Joined(l) /\ ~session[l].ended
Open == ~entry.running /\ ~entry.ended

(***************************************************************************)
(* FS-UAE is started with the document the lobby started the game with,    *)
(* whatever a player edited before, and however late the restore or the    *)
(* snapshots come (_handle, _player_changed).  The one exception is a host *)
(* with an edit the lobby has not got, which it can only have made after   *)
(* its start was queued: start_game refuses while an edit is unsent.       *)
(***************************************************************************)
PlayersLaunchTheGame ==
    \A l \in Launchers :
        session[l].launched \notin {None, entry.config} =>
            /\ l = Host
            /\ session[l].pushing \/ session[l].launched # session[l].lastPushed

(***************************************************************************)
(* While the Start button is enabled, the lobby has the document on the    *)
(* host's screen, through lost answers and snapshots from before the push  *)
(* (can_start, sending_config, pushed).                                    *)
(***************************************************************************)
StartIsForScreen == CanStartGame(session[Host]) /\ Open => entry.config = session[Host].local

(***************************************************************************)
(* A slot the lobby counts as ready is one whose launcher has the game's   *)
(* document, or knows that it has not: a restore is due, or the host is    *)
(* still sending (config_changed, report_ready).                           *)
(***************************************************************************)
ReadyIsTrue ==
    \A l \in Launchers :
        Following(l) /\ Open /\ SlotStatus(entry, session[l].slot) = "ready"
            /\ entry.slots[session[l].slot].token = session[l].token
        => \/ session[l].local = entry.config
           \/ session[l].restoreScheduled
           \/ l = Host /\ SendingConfig(session[l])

(***************************************************************************)
(* Nothing the lobby sends changes what the host has set, also when the    *)
(* echo of one push comes after the next edit (_handle's test of the local *)
(* document); media the host cannot find are the exception.                *)
(***************************************************************************)
HostEditsStand ==
    [][acts' = acts /\ session[Host].local' # session[Host].local
        => session[Host].local.hash \in session[Host].lacks]_vars

(***************************************************************************)
(* What the host has set reaches the lobby, however edits, pushes and      *)
(* their answers fall, unless a call was lost (_push_if_changed, pushed).  *)
(***************************************************************************)
Arrived ==
    session[Host].local = entry.config \/ session[Host].ended \/ ~Open \/ failures > 0
ConfigArrives == ~Arrived ~> Arrived

(***************************************************************************)
(* When the game starts, every launcher still in it starts FS-UAE (_handle,*)
(* SessionWatcher.run).                                                    *)
(***************************************************************************)
Launching(l) == Following(l) /\ entry.running /\ ~entry.ended /\ session[l].launched = None
EveryoneLaunches == \A l \in Launchers : Launching(l) ~> ~Launching(l)
=============================================================================
