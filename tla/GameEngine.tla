----------------------------- MODULE GameEngine -----------------------------
(***************************************************************************)
(* The game goroutine: what the functions of game.go do to the state only  *)
(* it touches.  GameRelay runs them against readers, writers and           *)
(* emulators.                                                              *)
(*                                                                         *)
(* Writers drain the out channels while a handler runs, so a handler is    *)
(* not one step: a broadcast serves one player at a time.  A player whose  *)
(* queue is full is dropped there and then, and its farewell is a          *)
(* broadcast in the middle of the first, which may fill another queue, and *)
(* so on.  work is the goroutine's stack: the loops it is in, the          *)
(* innermost first.                                                        *)
(***************************************************************************)
EXTENDS Integers, Sequences, FiniteSets, SequencesExt

CONSTANTS
    Conns,        \* connections (one per emulator: it never reconnects)
    Nobody,       \* a nil player
    Players,      \* Config.Players
    MaxDrift,     \* Config.MaxDrift
    RingSize,     \* ringSize
    OutDepth,     \* outQueueDepth
    AutoFlush,    \* autoFlushCount
    PingEvery,    \* tick pings each time frame is a multiple of it (10)
    StatusEvery   \* tick sends status each time frame is a multiple of it (100)

ASSUME EngineAssumption ==
    /\ Nobody \notin Conns
    /\ Players \in 1..6
    /\ MaxDrift \in Nat \ {0}
    /\ RingSize \in Nat \ {0}
    /\ OutDepth \in Nat \ {0}
    /\ AutoFlush \in Nat \ {0}
    /\ PingEvery \in Nat \ {0}
    /\ StatusEvery \in Nat \ {0}

Slots == 0..(Players - 1)
Kinds == {"mem", "rnd"}
Stops == {"none", "stopped", "timeout"} \cup Kinds

(* What is sent to the emulators, and the loops that send it (see below). *)
Words ==
    ({"KEY", "PLAYERS", "TAG", "TEXT", "LAG", "LATENCY", "PING", "FRAME", "INPUT"} \X Nat)
        \cup ({"ERROR"} \X Stops)
Sends == [word : Words, how : {"auto", "flush", "ping", "last"}, todo : (SUBSET Slots) \ {{}}]
CheckEntry == [word |-> <<"CHECK", 0>>, how |-> "check", todo |-> {}]
Loops == Sends \cup {CheckEntry}

Check == [data : Nat, frame : Nat]

VARIABLES
    players,   \* the connection of the player in each slot, or Nobody
    started, frame, verified, stalled, version,
    stop,      \* the reason in g.stop, "none" while it is nil
    acked,     \* player.frame, by slot
    ring,      \* player.memCheck and player.rndCheck, by slot and kind
    pinged,    \* slots with a ping outstanding
    pending,   \* player.pending, by slot; pendingCount is its length
    out,       \* the out channels, by connection: buffers of words
    closed,    \* connections whose out channel is closed
    phase,     \* of Run: "loop", "draining" (shutdown) or "done"
    work,      \* the loops the current handler is in
    \* histories: an operation on a closed channel (the runtime would panic),
    \* the connections dropped for a full queue, the checksums handled by slot
    \* and kind, the frame and input words relayed, in order, and what the
    \* last handler to return left
    panicked, overrun, sent, relayed, handled

syncVars == <<verified, acked, ring, sent>>
joinVars == <<started, version>>
sendVars == <<players, pending, out, closed, pinged, panicked, overrun>>
engineVars == <<syncVars, joinVars, sendVars, frame, stalled, stop, phase, work, relayed, handled>>

EngineTypeOK ==
    /\ players \in [Slots -> Conns \cup {Nobody}]
    /\ started \in BOOLEAN
    /\ frame \in Nat
    /\ verified \in Nat \cup {-1}
    /\ stalled \in BOOLEAN
    /\ version \in Nat
    /\ stop \in Stops
    /\ acked \in [Slots -> Nat]
    /\ ring \in [Slots -> [Kinds -> [0..(RingSize - 1) -> Check]]]
    /\ pinged \subseteq Slots
    /\ pending \in [Slots -> Seq(Words)]
    /\ out \in [Conns -> Seq(Seq(Words))]
    /\ closed \subseteq Conns
    /\ phase \in {"loop", "draining", "done"}
    /\ work \in Seq(Loops)
    /\ panicked \in BOOLEAN
    /\ overrun \subseteq Conns
    /\ sent \in [Slots -> [Kinds -> Seq(Nat)]]
    /\ relayed \in Seq(Words)
    /\ handled \in [present : SUBSET Slots, frame : Nat, stalled : BOOLEAN, stop : Stops]

NewRings == [k \in Kinds |-> [i \in 0..(RingSize - 1) |-> [data |-> 0, frame |-> 0]]]
NothingSent == [k \in Kinds |-> <<>>]

Present == {s \in Slots : players[s] # Nobody}
Now == [present |-> Present, frame |-> frame, stalled |-> stalled, stop |-> stop]

(* New *)
EngineInit ==
    /\ players = [s \in Slots |-> Nobody]
    /\ started = FALSE
    /\ frame = 0
    /\ verified = -1
    /\ stalled = FALSE
    /\ version = 0
    /\ stop = "none"
    /\ acked = [s \in Slots |-> 0]
    /\ ring = [s \in Slots |-> NewRings]
    /\ pinged = {}
    /\ pending = [s \in Slots |-> <<>>]
    /\ out = [c \in Conns |-> <<>>]
    /\ closed = {}
    /\ phase = "loop"
    /\ work = <<>>
    /\ panicked = FALSE
    /\ overrun = {}
    /\ sent = [s \in Slots |-> NothingSent]
    /\ relayed = <<>>
    /\ handled = Now

-----------------------------------------------------------------------------
(* The stack. A loop over the live players sends word to those in todo,    *)
(* and flushes them as how says: "auto" once AutoFlush entries are         *)
(* pending, "flush" at once, "ping" likewise unless a ping is outstanding, *)
(* "last" (shutdown) ahead of what is pending, and closes the channel.     *)
(* The entry "check" is the call of checkGame that ends a tick.            *)
Loop(word, how, live) ==
    IF live = {} THEN <<>> ELSE <<[word |-> word, how |-> how, todo |-> live]>>

(* What is left to do once s has been served. *)
Rest(s) ==
    IF Head(work).todo = {s} THEN Tail(work)
    ELSE <<[Head(work) EXCEPT !.todo = @ \ {s}]>> \o Tail(work)

GoOn(stack) ==
    /\ work' = stack
    /\ handled' = IF stack = <<>> THEN Now' ELSE handled

Serving(s) ==
    /\ work # <<>>
    /\ s \in Head(work).todo
    /\ \A t \in Head(work).todo : s <= t

(* player.queueBytes, or sendError's word ahead of the others *)
Queued(s) ==
    IF Head(work).how = "last" THEN <<Head(work).word>> \o pending[s]
    ELSE Append(pending[s], Head(work).word)

Flushes(s) == Head(work).how = "auto" => Len(Queued(s)) = AutoFlush

Unserved(s) == players[s] = Nobody \/ (Head(work).how = "ping" /\ s \in pinged)

(* The player was dropped after the loop began, or needs no ping. *)
Skip(s) ==
    /\ Serving(s)
    /\ Unserved(s)
    /\ UNCHANGED <<syncVars, joinVars, sendVars, frame, stalled, stop, phase, relayed>>
    /\ GoOn(Rest(s))

Queue(s) ==
    /\ Serving(s)
    /\ ~Unserved(s)
    /\ ~Flushes(s)
    /\ pending' = [pending EXCEPT ![s] = Queued(s)]
    /\ UNCHANGED <<syncVars, joinVars, players, out, closed, pinged, panicked, overrun,
                   frame, stalled, stop, phase, relayed>>
    /\ GoOn(Rest(s))

Pinging(s) == IF Head(work).how = "ping" THEN pinged \cup {s} ELSE pinged

(* mutants of Closing and Slotless: shutdown leaves the channel open; a    *)
(* player that is gone keeps its slot                                      *)
ClosingNone(c) == closed
SlotlessNot(s) == players

Closing(c) == closed \cup {c}

Slotless(s) == [players EXCEPT ![s] = Nobody]

(* mutant of Flush: shutdown closes the channel without flushing *)
FlushUnlessLast(s) ==
    LET c == players[s]
        last == Head(work).how = "last"
    IN  /\ Serving(s)
        /\ ~Unserved(s)
        /\ Flushes(s)
        /\ Len(out[c]) < OutDepth
        /\ pending' = [pending EXCEPT ![s] = IF last THEN Queued(s) ELSE <<>>]
        /\ out' = IF last THEN out ELSE [out EXCEPT ![c] = Append(@, Queued(s))]
        /\ pinged' = Pinging(s)
        /\ panicked' = (panicked \/ c \in closed)
        /\ players' = IF last THEN Slotless(s) ELSE players
        /\ closed' = IF last THEN Closing(c) ELSE closed
        /\ UNCHANGED <<syncVars, joinVars, overrun, frame, stalled, stop, phase, relayed>>
        /\ GoOn(Rest(s))

(* flush, into a channel with room; the last word of all is followed by    *)
(* the close of the channel.                                               *)
Flush(s) ==
    LET c == players[s]
        last == Head(work).how = "last"
    IN  /\ Serving(s)
        /\ ~Unserved(s)
        /\ Flushes(s)
        /\ Len(out[c]) < OutDepth
        /\ pending' = [pending EXCEPT ![s] = <<>>]
        /\ out' = [out EXCEPT ![c] = Append(@, Queued(s))]
        /\ pinged' = Pinging(s)
        /\ panicked' = (panicked \/ c \in closed)
        /\ players' = IF last THEN Slotless(s) ELSE players
        /\ closed' = IF last THEN Closing(c) ELSE closed
        /\ UNCHANGED <<syncVars, joinVars, overrun, frame, stalled, stop, phase, relayed>>
        /\ GoOn(Rest(s))

(* mutant of OnGone: a started game ends when its last player has gone *)
OnGoneLast(s, stack) ==
    LET c == players[s]
    IN  /\ players' = Slotless(s)
        /\ closed' = Closing(c)
        /\ panicked' = (panicked \/ c \in closed)
        /\ stop' = IF started /\ stop = "none" /\ Present = {s} THEN "stopped" ELSE stop
        /\ UNCHANGED <<syncVars, joinVars, out, frame, stalled, phase, relayed>>
        /\ GoOn((IF started THEN Loop(<<"TEXT", s>>, "auto", Present \ {s}) ELSE <<>>) \o stack)

(* onGone: the slot is free; once the game has started it ends for         *)
(* everyone, told by a farewell. g.stop is set after the farewell, which   *)
(* does not read it.                                                       *)
OnGone(s, stack) ==
    LET c == players[s]
    IN  /\ players' = Slotless(s)
        /\ closed' = Closing(c)
        /\ panicked' = (panicked \/ c \in closed)
        /\ stop' = IF started /\ stop = "none" THEN "stopped" ELSE stop
        /\ UNCHANGED <<syncVars, joinVars, out, frame, stalled, phase, relayed>>
        /\ GoOn((IF started THEN Loop(<<"TEXT", s>>, "auto", Present \ {s}) ELSE <<>>) \o stack)

(* mutant of Overrun: a full queue costs the buffer, not the player *)
OverrunDiscards(s) ==
    /\ Serving(s)
    /\ ~Unserved(s)
    /\ Flushes(s)
    /\ Len(out[players[s]]) >= OutDepth
    /\ pending' = [pending EXCEPT ![s] = <<>>]
    /\ UNCHANGED <<syncVars, joinVars, players, out, closed, pinged, panicked, overrun,
                   frame, stalled, stop, phase, relayed>>
    /\ GoOn(Rest(s))

(* flush, with the channel full: the player is dropped *)
Overrun(s) ==
    /\ Serving(s)
    /\ ~Unserved(s)
    /\ Flushes(s)
    /\ Len(out[players[s]]) >= OutDepth
    /\ pending' = [pending EXCEPT ![s] = <<>>]
    /\ pinged' = Pinging(s)
    /\ overrun' = overrun \cup {players[s]}
    /\ OnGone(s, Rest(s))

-----------------------------------------------------------------------------
(* Joining. version stands for the 8 bytes of the emulator version, and    *)
(* whose tag a TAG word carries is left out.                               *)

Tags(n) == [i \in 1..n |-> <<"TAG", 0>>]

(* mutant of JoinRefused: versions are not compared *)
JoinRefusedIfStarted(v) == started \/ Present = Slots

JoinRefused(v) ==
    \/ started
    \/ Present = Slots
    \/ Present # {} /\ version # v

(* join, once it is not refused: a fresh player record in slot s, and its  *)
(* greeting flushed into a new channel.  When that fills the game, start   *)
(* queues the tags again, to everyone, not flushed.                        *)
JoinAt(s, c, v) ==
    LET full == Slots = Present \cup {s}
        kept == [pending EXCEPT ![s] = <<>>]
    IN  /\ players' = [players EXCEPT ![s] = c]
        /\ version' = IF Present = {} THEN v ELSE version
        /\ acked' = [acked EXCEPT ![s] = 0]
        /\ ring' = [ring EXCEPT ![s] = NewRings]
        /\ sent' = [sent EXCEPT ![s] = NothingSent]
        /\ pinged' = pinged \ {s}
        /\ out' = [out EXCEPT ![c] =
                    Append(@, <<<<"KEY", s>>, <<"PLAYERS", s>>>> \o Tags(Cardinality(Present) + 1))]
        /\ panicked' = (panicked \/ c \in closed)
        /\ started' = full
        /\ pending' = IF full THEN [t \in Slots |-> kept[t] \o Tags(Players)] ELSE kept
        /\ UNCHANGED <<frame, verified, stalled, closed, overrun, relayed, stop, phase>>
        /\ GoOn(<<>>)

(* The lowest free slot is taken. *)
Join(c, v) ==
    \E s \in Slots \ Present : (\A t \in Slots \ Present : s <= t) /\ JoinAt(s, c, v)

-----------------------------------------------------------------------------
(* Messages from the player in slot s *)

OnAck(s, f) ==
    /\ acked' = [acked EXCEPT ![s] = f]
    /\ UNCHANGED <<verified, ring, sent, joinVars, sendVars, frame, stalled, stop, phase, work, relayed, handled>>

OnInput(e) ==
    /\ relayed' = IF started THEN Append(relayed, <<"INPUT", e>>) ELSE relayed
    /\ UNCHANGED <<syncVars, joinVars, sendVars, frame, stalled, stop, phase>>
    /\ GoOn(IF started THEN Loop(<<"INPUT", e>>, "auto", Present) ELSE <<>>)

OnCheck(s, k, d) ==
    /\ ring' = [ring EXCEPT ![s][k][acked[s] % RingSize] = [data |-> d, frame |-> acked[s]]]
    /\ sent' = [sent EXCEPT ![s][k] = Append(@, d)]
    /\ UNCHANGED <<verified, acked, joinVars, sendVars, frame, stalled, stop, phase, work, relayed, handled>>

OnPong(s) ==
    /\ pinged' = pinged \ {s}
    /\ UNCHANGED <<syncVars, joinVars, players, pending, out, closed, panicked, overrun,
                   frame, stalled, stop, phase, work, relayed, handled>>

OnText(s) ==
    /\ UNCHANGED <<syncVars, joinVars, sendVars, frame, stalled, stop, phase, relayed>>
    /\ GoOn(Loop(<<"TEXT", s>>, "auto", Present))

Gone(s) == UNCHANGED <<pending, pinged, overrun>> /\ OnGone(s, <<>>)

-----------------------------------------------------------------------------
(* The tick *)

OldestFrame == Min({frame} \cup {acked[s] : s \in Present})

Agree(kind, tag) ==
    \A s, t \in Present : ring[s][kind][tag % RingSize] = ring[t][kind][tag % RingSize]

Bad(passed) == {tag \in passed : \E k \in Kinds : ~Agree(k, tag)}

Passed == (verified + 1)..(OldestFrame - 1)

(* checkGame, with checkSync *)
CheckGame ==
    LET bad == Bad(Passed)
    IN  /\ work # <<>>
        /\ Head(work).how = "check"
        /\ IF bad # {}
           THEN /\ verified' = Min(bad) - 1
                /\ stop' = IF Agree("mem", Min(bad)) THEN "rnd" ELSE "mem"
                /\ UNCHANGED stalled
           ELSE /\ verified' = Max({verified, OldestFrame - 1})
                /\ stalled' = (stalled \/ frame - OldestFrame > MaxDrift)
                /\ UNCHANGED stop
        /\ UNCHANGED <<acked, ring, sent, joinVars, sendVars, frame, phase, relayed>>
        /\ GoOn(Tail(work))

(* sendStatus: two words to everyone about each player; whose is left out *)
Status ==
    [i \in 1..(2 * Cardinality(Present)) |->
        [word |-> <<IF i % 2 = 1 THEN "LAG" ELSE "LATENCY", 0>>, how |-> "auto", todo |-> Present]]

StallOver == OldestFrame >= frame

(* tick; one that waits out a stall changes nothing *)
Tick ==
    LET word == <<"FRAME", frame + 1>>
    IN  /\ stalled => StallOver
        /\ frame' = frame + 1
        /\ stalled' = FALSE
        /\ relayed' = Append(relayed, word)
        /\ UNCHANGED <<syncVars, joinVars, sendVars, stop, phase>>
        /\ GoOn((IF frame % StatusEvery = 0 THEN Status ELSE <<>>)
                \o Loop(word, "flush", Present)
                \o (IF (frame + 1) % PingEvery = 0 THEN Loop(<<"PING", 0>>, "ping", Present) ELSE <<>>)
                \o <<CheckEntry>>)

-----------------------------------------------------------------------------
(* Run, between handlers *)
Looping == phase = "loop" /\ stop = "none" /\ work = <<>>

Stop(reason) ==
    /\ Looping
    /\ stop' = reason
    /\ UNCHANGED <<syncVars, joinVars, sendVars, frame, stalled, phase, relayed>>
    /\ GoOn(<<>>)

LaunchTimeout == ~started /\ Stop("timeout")

(* ctx.Done *)
Cancel == Stop("stopped")

(* shutdown, up to its wait for the writers; the error code is named by    *)
(* the reason.                                                             *)
Shutdown ==
    /\ phase = "loop"
    /\ stop # "none"
    /\ work = <<>>
    /\ phase' = "draining"
    /\ UNCHANGED <<syncVars, joinVars, sendVars, frame, stalled, stop, relayed>>
    /\ GoOn(Loop(<<"ERROR", stop>>, "last", Present))

(* The writers have finished, or shutdownWriteTimeout has passed. *)
Return ==
    /\ phase = "draining"
    /\ work = <<>>
    /\ phase' = "done"
    /\ UNCHANGED <<syncVars, joinVars, sendVars, frame, stalled, stop, work, relayed, handled>>

(* The handler goes on, by an iteration of its innermost loop. *)
Iterate ==
    \/ \E s \in Slots : Skip(s) \/ Queue(s) \/ Flush(s) \/ Overrun(s)
    \/ CheckGame
=============================================================================
