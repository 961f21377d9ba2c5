----------------------------- MODULE GameRelay -----------------------------
(***************************************************************************)
(* One running game with everything around the game goroutine: per         *)
(* connection a reader that posts what it reads to the shared event        *)
(* channel and a writer that drains the connection's out channel to the    *)
(* socket, and the emulator at the other end.                              *)
(*                                                                         *)
(* The emulator is external (fs-uae's netplay.c); it is modelled from what *)
(* the handlers here expect of it.                                         *)
(***************************************************************************)
EXTENDS GameEngine

CONSTANTS
    EventDepth,    \* eventQueueDepth
    VersionOf,     \* the emulator version each connection brings
    Divergences,   \* the kinds of checksum an emulator may diverge in, or "never"
    FrameLimit,    \* bounds of the model: frames ticked,
    InputLimit,    \* inputs sent by all emulators together,
    TextLimit,     \* texts sent by all emulators together,
    QuitLimit      \* emulators that leave on their own

ASSUME RelayAssumption ==
    /\ EventDepth \in Nat \ {0}
    /\ VersionOf \in [Conns -> Nat]
    /\ Divergences \subseteq Kinds \cup {"never"}
    /\ {FrameLimit, InputLimit, TextLimit, QuitLimit} \subseteq Nat

(* What readers post, what emulators send. *)
MessageKinds == {"ACK", "INPUT", "PONG", "TEXT"} \cup Kinds
Events == (MessageKinds \cup {"JOIN", "GONE"}) \X Conns \X Nat
UpWords == MessageKinds \X Nat

VARIABLES
    events,   \* g.events
    handler,  \* of each connection: "idle", "joining" (until the join event is
              \* handled), "accepted" (until it reads the reply), "reading" or "ended"
    open,     \* connections whose socket is open
    writing,  \* connections whose writer goroutine runs
    up,       \* words each emulator has sent that its reader has not read
    got,      \* words each emulator has received
    at,       \* the last frame each emulator acknowledged
    ponged,   \* how many pings each emulator answered
    diverges, \* the kind of checksum that is wrong in each emulator
    quit,     \* history: emulators that closed their socket or lost it (see
              \* also JoinAbandoned)
    inputs,   \* history: inputs sent, and
    texts     \* texts sent

clientVars == <<got, at, ponged, diverges, quit, inputs, texts>>
connVars == <<handler, writing, open>>
serverVars == <<engineVars, events, handler, writing>>
vars == <<engineVars, events, connVars, up, clientVars>>

Init ==
    /\ EngineInit
    /\ events = <<>>
    /\ handler = [c \in Conns |-> "idle"]
    /\ open = {}
    /\ writing = {}
    /\ up = [c \in Conns |-> <<>>]
    /\ got = [c \in Conns |-> <<>>]
    /\ at = [c \in Conns |-> 0]
    /\ ponged = [c \in Conns |-> 0]
    /\ diverges \in [Conns -> Divergences]
    /\ quit = {}
    /\ inputs = 0
    /\ texts = 0

-----------------------------------------------------------------------------
(* The event channel. post succeeds even after Run has returned, as long   *)
(* as there is room; then nothing reads it.                                *)
Room == Len(events) < EventDepth
Post(kind, c, data) == events' = Append(events, <<kind, c, data>>)

(* HandleJoin, up to the join event it posts *)
Connect(c) ==
    /\ handler[c] = "idle"
    /\ Room
    /\ handler' = [handler EXCEPT ![c] = "joining"]
    /\ open' = open \cup {c}
    /\ Post("JOIN", c, VersionOf[c])
    /\ UNCHANGED <<engineVars, writing, up, clientVars>>

(* The wait for the reply finds g.done closed. Select picks when the reply *)
(* is there as well: an accepted player then loses its connection.         *)
JoinAbandoned(c) ==
    /\ handler[c] \in {"joining", "accepted"}
    /\ phase = "done"
    /\ handler' = [handler EXCEPT ![c] = "ended"]
    /\ open' = open \ {c}
    /\ quit' = IF handler[c] = "accepted" THEN quit \cup {c} ELSE quit
    /\ UNCHANGED <<engineVars, events, writing, up, got, at, ponged, diverges, inputs, texts>>

JoinReplied(c) ==
    /\ handler[c] = "accepted"
    /\ handler' = [handler EXCEPT ![c] = "reading"]
    /\ UNCHANGED <<engineVars, events, writing, open, up, clientVars>>

(* readLoop: one message, or the failure of the socket, which may come     *)
(* before everything sent on it was read.                                  *)
ReadWord(c) ==
    /\ handler[c] = "reading"
    /\ up[c] # <<>>
    /\ Room
    /\ events' = Append(events, <<Head(up[c])[1], c, Head(up[c])[2]>>)
    /\ up' = [up EXCEPT ![c] = Tail(@)]
    /\ UNCHANGED <<engineVars, handler, open, writing, clientVars>>

ReadFails(c) ==
    /\ handler[c] = "reading"
    /\ c \notin open
    /\ handler' = [handler EXCEPT ![c] = "ended"]
    /\ up' = [up EXCEPT ![c] = <<>>]
    /\ \/ Room /\ Post("GONE", c, 0)
       \/ phase = "done" /\ UNCHANGED events
    /\ UNCHANGED <<engineVars, open, writing, clientVars>>

(* writeLoop: a buffer goes out whole, or into the drain once the socket   *)
(* has failed; the closed channel ends the writer and closes the socket.   *)
WriteBuffer(c) ==
    /\ c \in writing
    /\ out[c] # <<>>
    /\ out' = [out EXCEPT ![c] = Tail(@)]
    /\ got' = [got EXCEPT ![c] = IF c \in open THEN @ \o Head(out[c]) ELSE @]
    /\ UNCHANGED <<syncVars, joinVars, players, pending, closed, pinged, panicked, overrun,
                   frame, stalled, stop, phase, work, relayed, handled,
                   events, connVars, up, at, ponged, diverges, quit, inputs, texts>>

WriterEnds(c) ==
    /\ c \in writing
    /\ out[c] = <<>>
    /\ c \in closed
    /\ writing' = writing \ {c}
    /\ open' = open \ {c}
    /\ UNCHANGED <<engineVars, events, handler, up, clientVars>>

-----------------------------------------------------------------------------
(* Run takes an event, and handle calls the operation it is for, or drops  *)
(* it if its connection is no player's any more.                           *)
Take(kind, c, data) ==
    /\ Looping
    /\ events # <<>>
    /\ Head(events) = <<kind, c, data>>
    /\ events' = Tail(events)
    /\ UNCHANGED <<up, clientVars>>

RefuseJoin(c, v) ==
    /\ Take("JOIN", c, v)
    /\ JoinRefused(v)
    /\ handler' = [handler EXCEPT ![c] = "ended"]
    /\ open' = open \ {c}
    /\ UNCHANGED <<engineVars, writing>>

AcceptJoin(c, v) ==
    /\ Take("JOIN", c, v)
    /\ ~JoinRefused(v)
    /\ Join(c, v)
    /\ handler' = [handler EXCEPT ![c] = "accepted"]
    /\ writing' = writing \cup {c}
    /\ UNCHANGED open

HandleMessage(s, kind, data) ==
    /\ Take(kind, players[s], data)
    /\ \/ kind = "ACK"   /\ OnAck(s, data)
       \/ kind = "INPUT" /\ OnInput(data)
       \/ kind \in Kinds /\ OnCheck(s, kind, data)
       \/ kind = "PONG"  /\ OnPong(s)
       \/ kind = "TEXT"  /\ OnText(s)
       \/ kind = "GONE"  /\ Gone(s)
    /\ UNCHANGED connVars

IgnoreMessage(kind, c, data) ==
    /\ Take(kind, c, data)
    /\ kind # "JOIN"
    /\ \A s \in Slots : players[s] # c
    /\ UNCHANGED <<engineVars, connVars>>

HandleEvent ==
    /\ events # <<>>
    /\ LET kind == Head(events)[1]
           c    == Head(events)[2]
           data == Head(events)[3]
       IN  \/ RefuseJoin(c, data)
           \/ AcceptJoin(c, data)
           \/ \E s \in Present : HandleMessage(s, kind, data)
           \/ IgnoreMessage(kind, c, data)

TakeTick ==
    /\ Looping
    /\ started
    /\ frame < FrameLimit
    /\ Tick
    /\ UNCHANGED <<events, connVars, up, clientVars>>

RunStep ==
    /\ LaunchTimeout \/ Cancel \/ Shutdown \/ Return \/ Iterate
    /\ UNCHANGED <<events, connVars, up, clientVars>>

-----------------------------------------------------------------------------
(* The emulator, external. It sends once it has seen its welcome, and      *)
(* disconnects for good when it sees an error.                             *)
Word(c, kind, data) == \E i \in DOMAIN got[c] : got[c][i] = <<kind, data>>
ToldError(c) == \E i \in DOMAIN got[c] : got[c][i][1] = "ERROR"
Playing(c) == c \in open /\ got[c] # <<>> /\ ~ToldError(c)

(* One message at a time is on its way to the reader. *)
Send(c, words) == up[c] = <<>> /\ up' = [up EXCEPT ![c] = words]

Sum(c, kind, tag) == IF diverges[c] = kind THEN 1 ELSE 0

(* fs_emu_netplay_wait_for_frame: checksums, then the acknowledgement *)
SendFrameAck(c) ==
    /\ Playing(c)
    /\ Word(c, "FRAME", at[c] + 1)
    /\ Send(c, <<<<"rnd", Sum(c, "rnd", at[c])>>, <<"mem", Sum(c, "mem", at[c])>>, <<"ACK", at[c] + 1>>>>)
    /\ at' = [at EXCEPT ![c] = @ + 1]
    /\ UNCHANGED <<serverVars, open, got, ponged, diverges, quit, inputs, texts>>

SendInput(c) ==
    /\ Playing(c)
    /\ inputs < InputLimit
    /\ Send(c, <<<<"INPUT", inputs + 1>>>>)
    /\ inputs' = inputs + 1
    /\ UNCHANGED <<serverVars, open, got, at, ponged, diverges, quit, texts>>

SendText(c) ==
    /\ Playing(c)
    /\ texts < TextLimit
    /\ Send(c, <<<<"TEXT", 0>>>>)
    /\ texts' = texts + 1
    /\ UNCHANGED <<serverVars, open, got, at, ponged, diverges, quit, inputs>>

SendPong(c) ==
    /\ Playing(c)
    /\ ponged[c] < Len(SelectSeq(got[c], LAMBDA w : w[1] = "PING"))
    /\ Send(c, <<<<"PONG", 0>>>>)
    /\ ponged' = [ponged EXCEPT ![c] = @ + 1]
    /\ UNCHANGED <<serverVars, open, got, at, diverges, quit, inputs, texts>>

(* The emulator quits, reacts to an error, or the connection breaks. *)
Quit(c) ==
    /\ c \in open
    /\ Cardinality(quit) < QuitLimit
    /\ open' = open \ {c}
    /\ quit' = quit \cup {c}
    /\ UNCHANGED <<serverVars, up, got, at, ponged, diverges, inputs, texts>>

-----------------------------------------------------------------------------
ReaderStep(c) == JoinAbandoned(c) \/ JoinReplied(c) \/ ReadWord(c) \/ ReadFails(c)
WriterStep(c) == WriteBuffer(c) \/ WriterEnds(c)
ClientStep(c) == SendFrameAck(c) \/ SendInput(c) \/ SendText(c) \/ SendPong(c) \/ Quit(c)
Ended == phase = "done" /\ UNCHANGED vars

Next ==
    \/ HandleEvent \/ TakeTick \/ RunStep
    \/ \E c \in Conns : Connect(c) \/ ReaderStep(c) \/ WriterStep(c) \/ ClientStep(c)
    \/ Ended

(***************************************************************************)
(* Goroutines run, the ticker ticks, the loop's select passes over no      *)
(* ready event for ever, and sockets deliver. Nobody has to connect, play, *)
(* leave or cancel.                                                        *)
(***************************************************************************)
Goes(A) == A /\ UNCHANGED <<events, connVars, up, clientVars>>

Fairness ==
    /\ WF_vars(Goes(Iterate)) /\ WF_vars(Goes(Shutdown)) /\ WF_vars(Goes(Return))
    /\ SF_vars(HandleEvent) /\ WF_vars(TakeTick)
    /\ \A c \in Conns : WF_vars(ReaderStep(c)) /\ WF_vars(WriterStep(c))

SafeSpec == Init /\ [][Next]_vars

Spec == SafeSpec /\ Fairness

-----------------------------------------------------------------------------
(* Properties *)

TypeOK ==
    /\ EngineTypeOK
    /\ frame <= FrameLimit
    /\ events \in Seq(Events)
    /\ Len(events) <= EventDepth
    /\ handler \in [Conns -> {"idle", "joining", "accepted", "reading", "ended"}]
    /\ open \subseteq Conns
    /\ writing \subseteq Conns
    /\ up \in [Conns -> Seq(UpWords)]
    /\ got \in [Conns -> Seq(Words)]
    /\ at \in [Conns -> Nat]
    /\ ponged \in [Conns -> Nat]
    /\ diverges \in [Conns -> Divergences]
    /\ quit \subseteq Conns
    /\ inputs \in 0..InputLimit
    /\ texts \in 0..TextLimit

IsGame(word) == word[1] \in {"FRAME", "INPUT"}

(* The members of S in a sequence, in their order. *)
Picked(seq, S) ==
    LET upTo[n \in 0..Len(seq)] ==
            IF n = 0 THEN <<>>
            ELSE IF seq[n] \in S THEN Append(upTo[n - 1], seq[n])
            ELSE upTo[n - 1]
    IN  upTo[Len(seq)]

(* The frame and input words of a sequence of words. *)
GameWords(words) == Picked(words, {"FRAME", "INPUT"} \X Nat)

(***************************************************************************)
(* All emulators see the same inputs before the same frame words, however  *)
(* their writers are scheduled and whoever is dropped: what each received  *)
(* is a prefix of what the game relayed, and between two handlers, for a   *)
(* player still in the game, the rest is in its writer's queue or pending  *)
(* (flush drops a player rather than a buffer; broadcastBytes, writeLoop). *)
(***************************************************************************)
LockStep ==
    /\ \A c \in Conns : IsPrefix(GameWords(got[c]), relayed)
    /\ work = <<>> => \A s \in Present :
        LET c == players[s]
        IN  c \notin quit =>
                GameWords(got[c] \o FlattenSeq(out[c]) \o pending[s]) = relayed

(***************************************************************************)
(* The game goroutine never sends on an out channel it has closed, nor     *)
(* closes one twice, through any cascade of drops (flush, onGone,          *)
(* shutdown).                                                              *)
(***************************************************************************)
NoPanic == ~panicked

(***************************************************************************)
(* When the game is over and the writers have finished, every emulator     *)
(* that was welcomed, kept its connection and kept up has been told the    *)
(* reason the game ended for (shutdown, sendError).                        *)
(***************************************************************************)
EveryoneTold ==
    phase # "loop" /\ work = <<>> /\ writing = {} =>
        \A c \in Conns \ (quit \cup overrun) :
            got[c] # <<>> => Word(c, "ERROR", stop)

(***************************************************************************)
(* All players of a game run the same emulator version, whoever came and   *)
(* went before the start (join).                                           *)
(***************************************************************************)
SameVersion ==
    \A s, t \in Present : VersionOf[players[s]] = VersionOf[players[t]]

(***************************************************************************)
(* With the outgoing side left out, this is GameSync: a handler of the     *)
(* game goroutine is one step of it, taken when the handler returns, or    *)
(* leaves it alone, and emulators that answer only the frame words they    *)
(* received keep to its protocol.                                          *)
(***************************************************************************)
Sync == INSTANCE GameSync WITH
    Data     <- {0, 1},
    present  <- handled.present,
    frame    <- handled.frame,
    stalled  <- handled.stalled,
    stop     <- handled.stop,
    done     <- phase # "loop" /\ work = <<>>

ImplementsSync == Sync!SafeSpec

(***************************************************************************)
(* Once the game stops, every connection it has is closed, with its        *)
(* handler and its writer (shutdown, writeLoop, and the waits for g.done   *)
(* in HandleJoin).                                                         *)
(***************************************************************************)
Over(c) == c \notin open /\ c \notin writing /\ handler[c] \notin {"joining", "accepted", "reading"}

ConnectionsEnd == \A c \in Conns : (stop # "none" /\ ~Over(c)) ~> Over(c)

=============================================================================
