------------------------------ MODULE GameSync ------------------------------
(***************************************************************************)
(* The state machine of one netplay game: what game.Game.Run decides, with *)
(* the relaying of words left out.                                         *)
(*                                                                         *)
(* Players take slots until the game is full, then the server counts       *)
(* frames on a ticker.  Every player acknowledges each frame and sends two *)
(* checksums just before each acknowledgement; the server keeps them in    *)
(* rings of RingSize entries, compares the ones every player has passed,   *)
(* and stops advancing when the slowest player is more than MaxDrift       *)
(* frames behind.  The interesting question is whether a ring entry can be *)
(* overwritten, or be too young, when it is compared.                      *)
(*                                                                         *)
(* Where the outgoing queues matter (GameRelay) this module says only that *)
(* any broadcast may drop some of the players it is sent to.               *)
(***************************************************************************)
EXTENDS Integers, Sequences

CONSTANTS
    Players,     \* Config.Players: how many slots the game waits for
    MaxDrift,    \* Config.MaxDrift
    RingSize,    \* ringSize
    Data,        \* the values a checksum word can carry
    FrameLimit   \* bound of the model: the ticker is not followed further

ASSUME SizeAssumption ==
    /\ Players \in 1..6
    /\ MaxDrift \in Nat \ {0}
    /\ RingSize \in Nat \ {0}
    /\ FrameLimit \in Nat
    /\ 0 \in Data

(***************************************************************************)
(* A ring entry must survive until its frame is verified.  The code's      *)
(* constants are 25 and 100; there is no check of Config.MaxDrift.         *)
(***************************************************************************)
ASSUME RingAssumption == MaxDrift < RingSize

Slots == 0..(Players - 1)
Kinds == {"mem", "rnd"}
Check == [data : Data, frame : Nat]

VARIABLES
    present,    \* slots i with g.players[i] # nil
    started,    \* g.started
    frame,      \* g.frame
    verified,   \* g.verified
    stalled,    \* g.stalled
    acked,      \* player.frame, by slot
    ring,       \* player.memCheck and player.rndCheck, by slot and kind
    stop,       \* the reason in g.stop, "none" while it is nil
    done,       \* g.done is closed: Run has returned
    sent        \* history: the checksums handled so far, by slot and kind

vars == <<present, started, frame, verified, stalled, acked, ring, stop, done, sent>>

Stops == {"none", "stopped", "timeout"} \cup Kinds

TypeOK ==
    /\ present \subseteq Slots
    /\ started \in BOOLEAN
    /\ frame \in Nat
    /\ verified \in Nat \cup {-1}
    /\ stalled \in BOOLEAN
    /\ acked \in [Slots -> Nat]
    /\ ring \in [Slots -> [Kinds -> [0..(RingSize - 1) -> Check]]]
    /\ stop \in Stops
    /\ done \in BOOLEAN
    /\ sent \in [Slots -> [Kinds -> Seq(Data)]]

EmptyRings == [k \in Kinds |-> [i \in 0..(RingSize - 1) |-> [data |-> 0, frame |-> 0]]]
NothingSent == [k \in Kinds |-> <<>>]

Init ==
    /\ present = {}
    /\ started = FALSE
    /\ frame = 0
    /\ verified = -1
    /\ stalled = FALSE
    /\ acked = [s \in Slots |-> 0]
    /\ ring = [s \in Slots |-> EmptyRings]
    /\ stop = "none"
    /\ done = FALSE
    /\ sent = [s \in Slots |-> NothingSent]

-----------------------------------------------------------------------------
(* The Run loop handles one event at a time while g.stop is nil. *)
Running == stop = "none"

(***************************************************************************)
(* join: a new player takes the lowest free slot with a fresh player       *)
(* record; the last one starts the game.  Rejoins are always refused.      *)
(***************************************************************************)
Join(s) ==
    /\ Running
    /\ ~started
    /\ s \notin present
    /\ \A t \in Slots \ present : s <= t
    /\ present' = present \cup {s}
    /\ started' = (present' = Slots)
    /\ acked' = [acked EXCEPT ![s] = 0]
    /\ ring' = [ring EXCEPT ![s] = EmptyRings]
    /\ sent' = [sent EXCEPT ![s] = NothingSent]
    /\ UNCHANGED <<frame, verified, stalled, stop, done>>

(***************************************************************************)
(* onGone, and the cascade it can start: the text it broadcasts may find   *)
(* other players' queues full.  Before the game starts the slot is freed;  *)
(* afterwards the game ends.                                               *)
(***************************************************************************)
Drop(gone) ==
    /\ Running
    /\ gone # {}
    /\ present' = present \ gone
    /\ stop' = IF started THEN "stopped" ELSE stop
    /\ UNCHANGED <<started, frame, verified, stalled, acked, ring, done, sent>>

(***************************************************************************)
(* The emulator, once it has seen the word of frame f = acked + 1, sends   *)
(* RND_CHECK, MEM_CHECK and the acknowledgement of f, in that order; the   *)
(* server files the checksums under the frame it last saw acknowledged.    *)
(***************************************************************************)
Owes(s, k) == Len(sent[s][k]) = acked[s]

FileCheck(s, k, d) ==
    /\ Running
    /\ s \in present
    /\ acked[s] < frame
    /\ Owes(s, k)
    /\ k = "mem" => ~Owes(s, "rnd")
    /\ ring' = [ring EXCEPT ![s][k][acked[s] % RingSize] = [data |-> d, frame |-> acked[s]]]
    /\ sent' = [sent EXCEPT ![s][k] = Append(@, d)]
    /\ UNCHANGED <<present, started, frame, verified, stalled, acked, stop, done>>

(* onAck *)
Ack(s) ==
    /\ Running
    /\ s \in present
    /\ \A k \in Kinds : ~Owes(s, k)
    /\ acked' = [acked EXCEPT ![s] = @ + 1]
    /\ UNCHANGED <<present, started, frame, verified, stalled, ring, stop, done, sent>>

-----------------------------------------------------------------------------
(* oldestFrame: the least of f and the frames acknowledged by live. *)
IsOldest(m, f, live) ==
    /\ m <= f
    /\ \A s \in live : m <= acked[s]
    /\ m = f \/ \E s \in live : m = acked[s]

(* checkSync, for one kind and for both *)
Agree(live, k, tag) ==
    \A s, t \in live : ring[s][k][tag % RingSize] = ring[t][k][tag % RingSize]

InSync(live, tag) == \A k \in Kinds : Agree(live, k, tag)

(***************************************************************************)
(* checkGame: verify every tag all of live have passed, in order, up to    *)
(* the first that disagrees; then decide whether to stall.  otherStop is   *)
(* what g.stop is if no checksum disagrees; a desync overwrites it.        *)
(***************************************************************************)
(* mutants of Passed: the frame the slowest player is still at; a skipped tag *)
PassedTooFar(oldest) == (verified + 1)..oldest
PassedSkipping(oldest) == (verified + 2)..(oldest - 1)

Passed(oldest) == (verified + 1)..(oldest - 1)

CheckPasses(live, f, oldest, otherStop) ==
    /\ \A tag \in Passed(oldest) : InSync(live, tag)
    /\ verified' = IF verified < oldest - 1 THEN oldest - 1 ELSE verified
    /\ stalled' = (f - oldest > MaxDrift)
    /\ stop' = otherStop

CheckFails(live, oldest) ==
    \E tag \in Passed(oldest) :
        /\ ~InSync(live, tag)
        /\ \A before \in (verified + 1)..(tag - 1) : InSync(live, before)
        /\ verified' = tag - 1
        /\ stalled' = FALSE
        /\ stop' = IF Agree(live, "mem", tag) THEN "rnd" ELSE "mem"

(***************************************************************************)
(* tick: wait out a stall; otherwise advance the frame, send its word to   *)
(* everyone, which may drop those in gone, and check the game.             *)
(***************************************************************************)
StallOver == \A s \in present : acked[s] >= frame

(* mutant of Tick: frames are counted while stalled *)
TickWhileStalled(gone) ==
    /\ Running
    /\ started
    /\ frame < FrameLimit
    /\ gone \subseteq present
    /\ frame' = frame + 1
    /\ present' = present \ gone
    /\ \E oldest \in 0..frame' :
        /\ IsOldest(oldest, frame', present')
        /\ \/ CheckPasses(present', frame', oldest, IF gone = {} THEN "none" ELSE "stopped")
           \/ CheckFails(present', oldest)
    /\ UNCHANGED <<started, acked, ring, done, sent>>

Tick(gone) ==
    /\ Running
    /\ started
    /\ frame < FrameLimit
    /\ stalled => StallOver
    /\ gone \subseteq present
    /\ frame' = frame + 1
    /\ present' = present \ gone
    /\ \E oldest \in 0..frame' :
        /\ IsOldest(oldest, frame', present')
        /\ \/ CheckPasses(present', frame', oldest, IF gone = {} THEN "none" ELSE "stopped")
           \/ CheckFails(present', oldest)
    /\ UNCHANGED <<started, acked, ring, done, sent>>

(* The launch timer, ignored once the game has started. *)
LaunchTimeout ==
    /\ Running
    /\ ~started
    /\ stop' = "timeout"
    /\ UNCHANGED <<present, started, frame, verified, stalled, acked, ring, done, sent>>

(* ctx.Done: the process or the lobby is shutting down, or the host ended the game. *)
Cancel ==
    /\ Running
    /\ stop' = "stopped"
    /\ UNCHANGED <<present, started, frame, verified, stalled, acked, ring, done, sent>>

(* mutant of Shutdown: the players' connections are left open *)
ShutdownKeepsPlayers ==
    /\ ~Running
    /\ ~done
    /\ done' = TRUE
    /\ UNCHANGED <<present, started, frame, verified, stalled, acked, ring, stop, sent>>

(* shutdown, and Run's return *)
Shutdown ==
    /\ ~Running
    /\ ~done
    /\ present' = {}
    /\ done' = TRUE
    /\ UNCHANGED <<started, frame, verified, stalled, acked, ring, stop, sent>>

Finished == done /\ UNCHANGED vars

PlayerStep(s) == (\E k \in Kinds, d \in Data : FileCheck(s, k, d)) \/ Ack(s)

Next ==
    \/ \E s \in Slots : Join(s) \/ PlayerStep(s)
    \/ \E gone \in SUBSET present : Drop(gone) \/ Tick(gone)
    \/ LaunchTimeout
    \/ Cancel
    \/ Shutdown
    \/ Finished

(***************************************************************************)
(* The ticker and Run's loop keep going, and a connected emulator answers  *)
(* every frame word: on a stall it waits, it never gives up.  Joining,     *)
(* leaving and cancelling are never forced.                                *)
(***************************************************************************)
Fairness ==
    /\ WF_vars(\E gone \in SUBSET present : Tick(gone))
    /\ WF_vars(Shutdown)
    /\ \A s \in Slots : WF_vars(PlayerStep(s))

SafeSpec == Init /\ [][Next]_vars

Spec == SafeSpec /\ Fairness

-----------------------------------------------------------------------------
(* Properties *)

(***************************************************************************)
(* The server never gets more than MaxDrift + 1 frames ahead of the        *)
(* slowest connected player (the stall in checkGame and tick).             *)
(***************************************************************************)
DriftBounded == Running => \A s \in present : frame - acked[s] <= MaxDrift + 1

(***************************************************************************)
(* A game is ended for a desync only if two players really sent different  *)
(* checksums of the named kind for the first unverified frame: no ring     *)
(* entry is compared after being overwritten or before being filled.       *)
(***************************************************************************)
Sent(s, k, tag) == sent[s][k][tag + 1]

NoFalseDesync ==
    stop \in Kinds =>
        \E s, t \in Slots :
            /\ verified + 1 < Len(sent[s][stop])
            /\ verified + 1 < Len(sent[t][stop])
            /\ Sent(s, stop, verified + 1) # Sent(t, stop, verified + 1)

(***************************************************************************)
(* While the game goes on, the connected players' checksums agree on every *)
(* frame but the last MaxDrift + 1: a divergence cannot stay unnoticed     *)
(* longer than the drift the server allows (checkGame verifies every tag). *)
(***************************************************************************)
DesyncCaughtWithinDrift ==
    Running => \A s, t \in present, k \in Kinds :
        \A tag \in 0..(frame - MaxDrift - 2) : Sent(s, k, tag) = Sent(t, k, tag)

(***************************************************************************)
(* A stall holds the server, which counts no frame before everyone has     *)
(* caught up, and it ends: that comes, or the game stops (tick).           *)
(***************************************************************************)
StallsHoldAndEnd == [](DriftBounded /\ (stalled => <>(StallOver \/ ~Running)))

(***************************************************************************)
(* Once every connected player has passed a frame they disagree on, and    *)
(* the ticker still has a frame to go, the game ends for all of them       *)
(* (checkGame, then Run's shutdown).                                       *)
(***************************************************************************)
Diverged ==
    /\ frame < FrameLimit
    /\ \E s, t \in present, k \in Kinds, tag \in 0..FrameLimit :
        /\ \A u \in present : tag < acked[u]
        /\ Sent(s, k, tag) # Sent(t, k, tag)

DivergenceEndsGame == Diverged ~> (done /\ present = {})
=============================================================================
