--------------------------- MODULE LauncherSession ---------------------------
(***************************************************************************)
(* NetplaySession: one launcher in a lobby game.  What session.py does on  *)
(* the UI thread, as operators from the state of a session to the next     *)
(* one; the NetplaySession module runs them against the lobby, the worker  *)
(* and the watcher.                                                        *)
(*                                                                         *)
(* The launcher's configuration is a document: the values of its sync      *)
(* keys, hash standing for those the lobby's hash covers and rest for the  *)
(* others.  Messages to the user, and the "lobby lost" flag that only      *)
(* decides on two of them, are left out.                                   *)
(***************************************************************************)
EXTENDS SessionEntry, Sequences

CONSTANT NoMedia   \* the hash of a configuration whose media could not be found

ASSUME NoMediaAssumption == NoMedia \in Hashes

(***************************************************************************)
(* local is the launcher's configuration, lacks the media its file         *)
(* database has not got; slot and token are None until it has joined.      *)
(* launched is the configuration FS-UAE was started with, or None.  calls  *)
(* is the worker's queue.                                                  *)
(***************************************************************************)
NewSession(local, lacks) ==
    [local |-> local, lacks |-> lacks, slot |-> None, token |-> None,
     snapshot |-> None, ended |-> FALSE, launched |-> None, applied |-> 0,
     lastPushed |-> None, pushedVersion |-> 0, pushing |-> FALSE,
     pushAgain |-> FALSE, pushScheduled |-> FALSE, restoreScheduled |-> FALSE,
     calls |-> <<>>]

PreStart == {"created", "configuring", "ready"}

IsHost(c) == c.slot = 0
State(c) == IF c.snapshot = None THEN "created" ELSE c.snapshot.state
Waiting(c) == ~c.ended /\ State(c) \in PreStart

(* _call: the executor takes nothing after _finish has shut it down. *)
Call(c, call) == IF c.ended THEN c ELSE [c EXCEPT !.calls = Append(@, call)]

(* _finish: what is queued is still called. *)
Finish(c) == [c EXCEPT !.ended = TRUE]

-----------------------------------------------------------------------------
(* The host's pushes *)

(* mutant of SendingConfig: a push on its way counts as done *)
SendingUnlessPushed(c) ==
    \/ c.pushScheduled
    \/ c.local # c.lastPushed
    \/ c.snapshot # None /\ c.snapshot.version < c.pushedVersion

(* sending_config, of a host *)
SendingConfig(c) ==
    \/ c.pushScheduled
    \/ c.pushing
    \/ c.local # c.lastPushed
    \/ c.snapshot # None /\ c.snapshot.version < c.pushedVersion

CanStartGame(c) == ~c.ended /\ State(c) = "ready" /\ ~SendingConfig(c)

(* mutant of PushIfChanged: a change during a push is not remembered *)
PushOnce(c) ==
    IF ~Waiting(c) \/ c.local = c.lastPushed \/ c.pushing THEN c
    ELSE Call([c EXCEPT !.pushing = TRUE, !.lastPushed = c.local], [what |-> "push", doc |-> c.local])

(* _push_if_changed *)
PushIfChanged(c) ==
    IF ~Waiting(c) \/ c.local = c.lastPushed THEN c
    ELSE IF c.pushing THEN [c EXCEPT !.pushAgain = TRUE]
    ELSE Call([c EXCEPT !.pushing = TRUE, !.lastPushed = c.local], [what |-> "push", doc |-> c.local])

(* pushed: the answer to set_config, back on the UI thread *)
Pushed(c, answer) ==
    LET done == IF answer.error THEN [c EXCEPT !.pushing = FALSE, !.lastPushed = None]
                ELSE [c EXCEPT !.pushing = FALSE, !.pushedVersion = answer.version]
    IN  IF done.pushAgain THEN PushIfChanged([done EXCEPT !.pushAgain = FALSE]) ELSE done

-----------------------------------------------------------------------------
(* Applying the game's document *)

(* resolve_config clears what it cannot find, so the hash differs too. *)
Resolved(c, doc) == IF doc.hash \in c.lacks THEN [doc EXCEPT !.hash = NoMedia] ELSE doc

ApplyQuietly(c, s) == [c EXCEPT !.local = Resolved(c, s.config)]

(* _apply_and_report *)
ApplyAndReport(c, s) ==
    Call([ApplyQuietly(c, s) EXCEPT !.applied = s.version],
         [what |-> "report", version |-> s.version,
          result |-> [hash |-> Resolved(c, s.config).hash, missing |-> s.config.hash \in c.lacks]])

(* mutant of Follow: the host takes its own documents back, late ones too *)
FollowAlways(c, s) ==
    IF s.state \notin PreStart \/ s.config = None \/ s.version = c.applied THEN c
    ELSE ApplyAndReport(c, s)

(* _handle's response to another version of the document *)
Follow(c, s) ==
    IF s.state \notin PreStart \/ s.config = None \/ s.version = c.applied THEN c
    ELSE IF IsHost(c) /\ s.config # c.local THEN PushIfChanged(c)
    ELSE ApplyAndReport(c, s)

(* mutant of Started: the start is missed by who did not see "ready" before *)
StartedFromReady(c, s) == s.state = "running" /\ c.launched = None /\ State(c) = "ready"

Started(c, s) == s.state = "running" /\ c.launched = None

(* mutant of Launch: an edit that waits to be restored is launched *)
LaunchEdit(c, s) == [c EXCEPT !.launched = c.local, !.restoreScheduled = FALSE]

(* _handle's response to the start *)
Launch(c, s) ==
    LET local == IF c.restoreScheduled THEN Resolved(c, s.config) ELSE c.local
    IN  [c EXCEPT !.local = local, !.launched = local, !.restoreScheduled = FALSE]

(* _handle *)
Handle(c, s) ==
    IF c.ended THEN c
    ELSE IF s.state = "ended" THEN
        Finish([c EXCEPT !.snapshot = IF c.snapshot = None THEN s ELSE [c.snapshot EXCEPT !.state = "ended"]])
    ELSE LET seen == Follow([c EXCEPT !.snapshot = s], s)
         IN  IF Started(c, s) THEN Launch(seen, s) ELSE seen

(* recheck *)
Recheck(c) ==
    IF c.snapshot # None /\ State(c) \in PreStart THEN Handle([c EXCEPT !.applied = 0], c.snapshot) ELSE c

-----------------------------------------------------------------------------
(* Local changes *)

(* mutant of ConfigChanged: a player's edit is let stand *)
ConfigChangedByHost(c, part) ==
    IF ~c.ended /\ IsHost(c) THEN [c EXCEPT !.pushScheduled = TRUE] ELSE c

(* config_changed and _player_changed, the key being in one part of the document *)
ConfigChanged(c, part) ==
    IF c.ended THEN c
    ELSE IF IsHost(c) THEN [c EXCEPT !.pushScheduled = TRUE]
    ELSE IF State(c) \in PreStart /\ c.snapshot # None /\ c.snapshot.config # None
            /\ c.local[part] # c.snapshot.config[part]
         THEN [c EXCEPT !.restoreScheduled = TRUE]
    ELSE c

(* push and restore, which the timers call *)
PushDue(c) == PushIfChanged([c EXCEPT !.pushScheduled = FALSE])

RestoreDue(c) ==
    LET due == [c EXCEPT !.restoreScheduled = FALSE]
    IN  IF Waiting(c) THEN Recheck(due) ELSE due

-----------------------------------------------------------------------------
(* start_game and leave *)
StartGame(c) == IF IsHost(c) /\ ~SendingConfig(c) /\ State(c) = "ready" THEN Call(c, [what |-> "start"]) ELSE c

LeaveGame(c) ==
    IF c.ended THEN c
    ELSE IF State(c) \notin PreStart THEN Finish(c)
    ELSE Finish(Call(c, [what |-> IF IsHost(c) THEN "end" ELSE "leave"]))
=============================================================================
