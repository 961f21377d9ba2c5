-------------------------- MODULE GameRelayProofs --------------------------
(***************************************************************************)
(* What TLC checks of GameRelay on two or three connections, proved for    *)
(* every number of players, connections, queue depth and length of game,   *)
(* and that it implements GameSync.                                        *)
(***************************************************************************)
EXTENDS GameRelay, SequenceTheorems, FiniteSetTheorems, WellFoundedInduction, TLAPS

LEMMA NatSetInduction ==
    ASSUME NEW S, S \subseteq Nat, 0 \in S, \A n \in S : n + 1 \in S
    PROVE  S = Nat
<1> SUFFICES ASSUME Nat \ S # {} PROVE FALSE
  OBVIOUS
<1> DEFINE T == Nat \ S
<1>1. IsWellFoundedOn(OpToRel(<, Nat), Nat)
  BY NatLessThanWellFounded
<1>2. PICK x \in T : \A y \in T : ~(<<y, x>> \in OpToRel(<, Nat))
  <2>1. T \subseteq Nat /\ T # {}
    OBVIOUS
  <2> HIDE DEF T
  <2> QED
    BY <1>1, <2>1, WFMin
<1>3. x # 0 /\ x \in Nat /\ x \notin S
  OBVIOUS
<1>4. x - 1 \in Nat /\ x - 1 < x /\ (x - 1) + 1 = x
  BY <1>3
<1>5. x - 1 \notin S
  BY <1>3, <1>4
<1>6. <<x - 1, x>> \in OpToRel(<, Nat)
  BY <1>3, <1>4 DEF OpToRel
<1> QED
  BY <1>2, <1>4, <1>5, <1>6

-----------------------------------------------------------------------------
(* The stack *)

(* The loops are those of sends and the one call of checkGame. *)
LEMMA HeadLoop ==
    ASSUME TypeOK, NEW s \in Slots, Serving(s)
    PROVE  /\ work \in Seq(Loops) /\ work # <<>> /\ Len(work) \in Nat \ {0}
           /\ Head(work) = work[1] /\ Head(work) \in Loops
           /\ Head(work).word \in Words /\ Head(work).how \in {"auto", "flush", "ping", "last"}
           /\ s \in Head(work).todo /\ Head(work).todo \subseteq Slots
<1>1. work \in Seq(Loops) /\ work # <<>> /\ s \in Head(work).todo
  BY DEF TypeOK, EngineTypeOK, Serving
<1>2. Len(work) \in Nat \ {0} /\ Head(work) = work[1] /\ Head(work) \in Loops
  BY <1>1
<1>3. Head(work).todo # {}
  BY <1>1
<1> QED
  BY <1>1, <1>2, <1>3 DEF Loops, Sends, CheckEntry

LEMMA RestLoops ==
    ASSUME TypeOK, NEW s \in Slots, Serving(s)
    PROVE  Rest(s) \in Seq(Loops)
<1>1. /\ work \in Seq(Loops) /\ work # <<>> /\ Head(work) \in Loops
      /\ Head(work).word \in Words /\ Head(work).how \in {"auto", "flush", "ping", "last"}
      /\ s \in Head(work).todo /\ Head(work).todo \subseteq Slots
  BY HeadLoop
<1>2. Tail(work) \in Seq(Loops)
  BY <1>1
<1>3. CASE Head(work).todo = {s}
  BY <1>2, <1>3 DEF Rest
<1>4. CASE Head(work).todo # {s}
  <2> DEFINE l == [Head(work) EXCEPT !.todo = @ \ {s}]
  <2>1. Head(work) \in Sends
    BY <1>1 DEF Loops, CheckEntry
  <2>2. Head(work).todo \ {s} \in (SUBSET Slots) \ {{}}
    BY <1>1, <1>4
  <2>3. l \in Sends
    BY <2>1, <2>2 DEF Sends
  <2>4. <<l>> \in Seq(Loops)
    BY <2>3 DEF Loops
  <2>5. Rest(s) = <<l>> \o Tail(work)
    BY <1>4 DEF Rest
  <2> QED
    BY <2>4, <2>5, <1>2
<1> QED
  BY <1>3, <1>4

LEMMA OneElement ==
    ASSUME NEW S, NEW x \in S
    PROVE  <<x>> \in Seq(S)
OBVIOUS

LEMMA LoopType ==
    ASSUME NEW w \in Words, NEW h \in {"auto", "flush", "ping", "last"}, NEW live \in SUBSET Slots
    PROVE  Loop(w, h, live) \in Seq(Loops)
<1>1. CASE live = {}
  BY <1>1 DEF Loop
<1>2. CASE live # {}
  <2>1. [word |-> w, how |-> h, todo |-> live] \in Sends
    BY <1>2 DEF Sends
  <2>2. Loop(w, h, live) = <<[word |-> w, how |-> h, todo |-> live]>>
    BY <1>2 DEF Loop
  <2> QED
    BY <2>1, <2>2, OneElement DEF Loops
<1> QED
  BY <1>1, <1>2

LEMMA WordsAre ==
    /\ \A n \in Nat : <<"TEXT", n>> \in Words /\ <<"KEY", n>> \in Words /\ <<"PLAYERS", n>> \in Words
    /\ \A n \in Nat : <<"FRAME", n>> \in Words /\ <<"INPUT", n>> \in Words
    /\ <<"TAG", 0>> \in Words /\ <<"PING", 0>> \in Words /\ <<"LAG", 0>> \in Words /\ <<"LATENCY", 0>> \in Words
    /\ \A r \in Stops : <<"ERROR", r>> \in Words
BY DEF Words

LEMMA SlotsAreNat == Slots \subseteq Nat /\ Slots # {} /\ IsFiniteSet(Slots)
<1>1. Players \in 1..6
  BY EngineAssumption
<1>2. 0 \in Int /\ Players - 1 \in Int /\ 0 \in Slots /\ Slots \subseteq Nat
  BY <1>1 DEF Slots
<1>3. IsFiniteSet(0..(Players - 1))
  BY <1>2, FS_Interval
<1> QED
  BY <1>2, <1>3 DEF Slots

-----------------------------------------------------------------------------
(* Types *)

LEMMA PresentSlots == Present \subseteq Slots
BY DEF Present

LEMMA QueuedType ==
    ASSUME TypeOK, NEW s \in Slots, Serving(s)
    PROVE  Queued(s) \in Seq(Words)
<1>1. Head(work).word \in Words
  BY HeadLoop
<1>2. pending[s] \in Seq(Words)
  BY DEF TypeOK, EngineTypeOK
<1>3. <<Head(work).word>> \in Seq(Words)
  BY <1>1
<1> QED
  BY <1>1, <1>2, <1>3 DEF Queued

LEMMA GoOnType ==
    ASSUME TypeOK, NEW stack \in Seq(Loops), GoOn(stack),
           frame' \in Nat, stalled' \in BOOLEAN, stop' \in Stops
    PROVE  /\ work' \in Seq(Loops)
           /\ handled' \in [present : SUBSET Slots, frame : Nat, stalled : BOOLEAN, stop : Stops]
<1>1. Present' \in SUBSET Slots
  BY DEF Present
<1>2. Now' = [present |-> Present', frame |-> frame', stalled |-> stalled', stop |-> stop']
  BY DEF Now
<1>3. Now' \in [present : SUBSET Slots, frame : Nat, stalled : BOOLEAN, stop : Stops]
  BY <1>1, <1>2
<1> QED
  BY <1>3 DEF GoOn, TypeOK, EngineTypeOK

(* The state of the emulators and connections a handler leaves alone. *)
LEMMA EngineStepType ==
    ASSUME TypeOK, EngineTypeOK', frame' <= FrameLimit, UNCHANGED <<events, connVars, up, clientVars>>
    PROVE  TypeOK'
BY DEF TypeOK, connVars, clientVars

LEMMA SlotFreed ==
    ASSUME TypeOK, NEW s \in Slots
    PROVE  Slotless(s) \in [Slots -> Conns \cup {Nobody}]
BY DEF TypeOK, EngineTypeOK, Slotless

LEMMA SkipType ==
    ASSUME TypeOK, NEW s \in Slots, Skip(s)
    PROVE  EngineTypeOK' /\ frame' = frame
<1>1. Rest(s) \in Seq(Loops)
  BY RestLoops DEF Skip
<1>2. UNCHANGED <<syncVars, joinVars, sendVars, frame, stalled, stop, phase, relayed>> /\ GoOn(Rest(s))
  BY DEF Skip
<1>3. frame' \in Nat /\ stalled' \in BOOLEAN /\ stop' \in Stops
  BY <1>2 DEF TypeOK, EngineTypeOK
<1>4. /\ work' \in Seq(Loops)
      /\ handled' \in [present : SUBSET Slots, frame : Nat, stalled : BOOLEAN, stop : Stops]
  BY <1>1, <1>2, <1>3, GoOnType
<1> QED
  BY <1>2, <1>4 DEF TypeOK, EngineTypeOK, syncVars, joinVars, sendVars

LEMMA QueueType ==
    ASSUME TypeOK, NEW s \in Slots, Queue(s)
    PROVE  EngineTypeOK' /\ frame' = frame
<1>1. Rest(s) \in Seq(Loops) /\ Queued(s) \in Seq(Words)
  BY RestLoops, QueuedType DEF Queue
<1>2. /\ UNCHANGED <<syncVars, joinVars, players, out, closed, pinged, panicked, overrun,
                     frame, stalled, stop, phase, relayed>>
      /\ GoOn(Rest(s))
      /\ pending' = [pending EXCEPT ![s] = Queued(s)]
  BY DEF Queue
<1>3. frame' \in Nat /\ stalled' \in BOOLEAN /\ stop' \in Stops
  BY <1>2 DEF TypeOK, EngineTypeOK
<1>4. /\ work' \in Seq(Loops)
      /\ handled' \in [present : SUBSET Slots, frame : Nat, stalled : BOOLEAN, stop : Stops]
  BY <1>1, <1>2, <1>3, GoOnType
<1>5. pending' \in [Slots -> Seq(Words)]
  BY <1>1, <1>2 DEF TypeOK, EngineTypeOK
<1> QED
  BY <1>2, <1>4, <1>5 DEF TypeOK, EngineTypeOK, syncVars, joinVars

LEMMA FlushType ==
    ASSUME TypeOK, NEW s \in Slots, Flush(s)
    PROVE  EngineTypeOK' /\ frame' = frame
<1> DEFINE c == players[s]
           last == Head(work).how = "last"
<1>1. Serving(s) /\ ~Unserved(s)
  BY DEF Flush
<1>2. Rest(s) \in Seq(Loops) /\ Queued(s) \in Seq(Words)
  BY <1>1, RestLoops, QueuedType
<1>3. c \in Conns
  BY <1>1 DEF Unserved, TypeOK, EngineTypeOK
<1>4. /\ UNCHANGED <<syncVars, joinVars, overrun, frame, stalled, stop, phase, relayed>>
      /\ GoOn(Rest(s))
      /\ pending' = [pending EXCEPT ![s] = <<>>]
      /\ out' = [out EXCEPT ![c] = Append(@, Queued(s))]
      /\ pinged' = Pinging(s)
      /\ panicked' = (panicked \/ c \in closed)
      /\ players' = IF last THEN Slotless(s) ELSE players
      /\ closed' = IF last THEN closed \cup {c} ELSE closed
  BY DEF Flush, Closing
<1> HIDE DEF c, last
<1>5. frame' \in Nat /\ stalled' \in BOOLEAN /\ stop' \in Stops
  BY <1>4 DEF TypeOK, EngineTypeOK
<1>6. /\ work' \in Seq(Loops)
      /\ handled' \in [present : SUBSET Slots, frame : Nat, stalled : BOOLEAN, stop : Stops]
  BY <1>2, <1>4, <1>5, GoOnType
<1>7. pending' \in [Slots -> Seq(Words)]
  BY <1>4, EmptySeq DEF TypeOK, EngineTypeOK
<1>8. out' \in [Conns -> Seq(Seq(Words))]
  <2>1. out[c] \in Seq(Seq(Words))
    BY <1>3 DEF TypeOK, EngineTypeOK
  <2>2. Append(out[c], Queued(s)) \in Seq(Seq(Words))
    BY <2>1, <1>2
  <2> QED
    BY <2>2, <1>4, <1>3 DEF TypeOK, EngineTypeOK
<1>9. players' \in [Slots -> Conns \cup {Nobody}]
  BY <1>4, SlotFreed DEF TypeOK, EngineTypeOK
<1>10. pinged' \subseteq Slots /\ closed' \subseteq Conns
  BY <1>4, <1>3 DEF TypeOK, EngineTypeOK, Pinging
<1>11. panicked' \in BOOLEAN
  BY <1>4 DEF TypeOK, EngineTypeOK
<1> QED
  BY <1>4, <1>6, <1>7, <1>8, <1>9, <1>10, <1>11 DEF TypeOK, EngineTypeOK, syncVars, joinVars

LEMMA FarewellType ==
    ASSUME TypeOK, NEW s \in Slots, NEW stack \in Seq(Loops)
    PROVE  (IF started THEN Loop(<<"TEXT", s>>, "auto", Present \ {s}) ELSE <<>>) \o stack \in Seq(Loops)
<1>1. <<"TEXT", s>> \in Words
  BY WordsAre, SlotsAreNat
<1>2. Present \ {s} \in SUBSET Slots
  BY PresentSlots
<1>3. Loop(<<"TEXT", s>>, "auto", Present \ {s}) \in Seq(Loops)
  BY <1>1, <1>2, LoopType
<1> QED
  BY <1>3, EmptySeq

LEMMA OnGoneType ==
    ASSUME TypeOK, NEW s \in Slots, players[s] # Nobody, NEW stack \in Seq(Loops), OnGone(s, stack),
           pending' \in [Slots -> Seq(Words)], pinged' \subseteq Slots, overrun' \subseteq Conns
    PROVE  EngineTypeOK' /\ frame' = frame
<1>1. players[s] \in Conns
  BY DEF TypeOK, EngineTypeOK
<1>2. /\ players' = Slotless(s)
      /\ closed' = closed \cup {players[s]}
      /\ panicked' = (panicked \/ players[s] \in closed)
      /\ stop' = IF started /\ stop = "none" THEN "stopped" ELSE stop
      /\ UNCHANGED <<syncVars, joinVars, out, frame, stalled, phase, relayed>>
  BY DEF OnGone, Closing
<1>3. frame' \in Nat /\ stalled' \in BOOLEAN /\ stop' \in Stops
  BY <1>2 DEF TypeOK, EngineTypeOK, Stops
<1>4. /\ work' \in Seq(Loops)
      /\ handled' \in [present : SUBSET Slots, frame : Nat, stalled : BOOLEAN, stop : Stops]
  BY <1>3, FarewellType, GoOnType DEF OnGone
<1>5. players' \in [Slots -> Conns \cup {Nobody}] /\ closed' \subseteq Conns /\ panicked' \in BOOLEAN
  BY <1>1, <1>2, SlotFreed DEF TypeOK, EngineTypeOK
<1> QED
  BY <1>2, <1>3, <1>4, <1>5 DEF TypeOK, EngineTypeOK, syncVars, joinVars

LEMMA OverrunType ==
    ASSUME TypeOK, NEW s \in Slots, Overrun(s)
    PROVE  EngineTypeOK' /\ frame' = frame
<1>1. /\ Serving(s) /\ ~Unserved(s) /\ OnGone(s, Rest(s))
      /\ pending' = [pending EXCEPT ![s] = <<>>]
      /\ pinged' = Pinging(s)
      /\ overrun' = overrun \cup {players[s]}
  BY DEF Overrun
<1>2. Rest(s) \in Seq(Loops)
  BY <1>1, RestLoops
<1>3. players[s] # Nobody /\ players[s] \in Conns
  BY <1>1 DEF Unserved, TypeOK, EngineTypeOK
<1>4. pending' \in [Slots -> Seq(Words)]
  BY <1>1, EmptySeq DEF TypeOK, EngineTypeOK
<1>5. pinged' \subseteq Slots /\ overrun' \subseteq Conns
  BY <1>1, <1>3 DEF TypeOK, EngineTypeOK, Pinging
<1> QED
  BY <1>1, <1>2, <1>3, <1>4, <1>5, OnGoneType

LEMMA GoneType ==
    ASSUME TypeOK, NEW s \in Present, Gone(s)
    PROVE  EngineTypeOK' /\ frame' = frame
<1>1. s \in Slots /\ players[s] # Nobody /\ OnGone(s, <<>>) /\ UNCHANGED <<pending, pinged, overrun>>
  BY DEF Gone, Present
<1>2. pending' \in [Slots -> Seq(Words)] /\ pinged' \subseteq Slots /\ overrun' \subseteq Conns
  BY <1>1 DEF TypeOK, EngineTypeOK
<1> QED
  BY <1>1, <1>2, OnGoneType, EmptySeq

LEMMA LeastNat ==
    ASSUME NEW S, S \subseteq Nat, S # {}
    PROVE  Min(S) \in S /\ \A y \in S : Min(S) <= y
<1>1. IsWellFoundedOn(OpToRel(<, Nat), Nat)
  BY NatLessThanWellFounded
<1>2. PICK x \in S : \A y \in S : ~(<<y, x>> \in OpToRel(<, Nat))
  BY <1>1, WFMin
<1>3. \A y \in S : x <= y
  <2> TAKE y \in S
  <2>1. x \in Nat /\ y \in Nat
    OBVIOUS
  <2>2. ~(<<y, x>> \in OpToRel(<, Nat))
    BY <1>2
  <2>3. ~(y < x)
    BY <2>1, <2>2 DEF OpToRel
  <2> QED
    BY <2>1, <2>3
<1> QED
  BY <1>2, <1>3 DEF Min

LEMMA MaxOfTwo ==
    ASSUME NEW a \in Int, NEW b \in Int
    PROVE  Max({a, b}) = IF a < b THEN b ELSE a
<1> DEFINE m == IF a < b THEN b ELSE a
<1>1. m \in {a, b} /\ \A y \in {a, b} : m >= y
  OBVIOUS
<1>2. \A x \in {a, b} : (\A y \in {a, b} : x >= y) => x = m
  OBVIOUS
<1> QED
  BY <1>1, <1>2 DEF Max

LEMMA OldestFrameIs ==
    ASSUME TypeOK
    PROVE  /\ OldestFrame \in Nat /\ OldestFrame <= frame
           /\ \A s \in Present : OldestFrame <= acked[s]
           /\ OldestFrame = frame \/ \E s \in Present : OldestFrame = acked[s]
<1> DEFINE S == {frame} \cup {acked[s] : s \in Present}
<1>1. S \subseteq Nat /\ S # {}
  BY PresentSlots DEF TypeOK, EngineTypeOK
<1>2. OldestFrame = Min(S)
  BY DEF OldestFrame
<1> HIDE DEF S
<1>3. OldestFrame \in S /\ \A y \in S : OldestFrame <= y
  BY <1>1, <1>2, LeastNat
<1> QED
  BY <1>1, <1>3 DEF S

LEMMA BadIs ==
    ASSUME TypeOK, Bad(Passed) # {}
    PROVE  /\ Min(Bad(Passed)) \in Nat /\ Min(Bad(Passed)) > verified
           /\ Min(Bad(Passed)) \in Bad(Passed)
           /\ \A tag \in Bad(Passed) : Min(Bad(Passed)) <= tag
<1>1. OldestFrame \in Nat /\ verified \in Nat \cup {-1}
  BY OldestFrameIs DEF TypeOK, EngineTypeOK
<1>2. \A tag \in Bad(Passed) : tag \in Nat /\ tag > verified
  BY <1>1 DEF Bad, Passed
<1> QED
  BY <1>2, LeastNat

LEMMA CheckGameType ==
    ASSUME TypeOK, CheckGame
    PROVE  EngineTypeOK' /\ frame' = frame
<1>1. /\ UNCHANGED <<acked, ring, sent, joinVars, sendVars, frame, phase, relayed>>
      /\ GoOn(Tail(work)) /\ work # <<>>
  BY DEF CheckGame
<1>2. verified' \in Nat \cup {-1} /\ stop' \in Stops /\ stalled' \in BOOLEAN
  <2>1. CASE Bad(Passed) # {}
    <3>1. /\ verified' = Min(Bad(Passed)) - 1
          /\ stop' = IF Agree("mem", Min(Bad(Passed))) THEN "rnd" ELSE "mem"
          /\ UNCHANGED stalled
      BY <2>1 DEF CheckGame
    <3>2. Min(Bad(Passed)) \in Nat
      BY <2>1, BadIs
    <3> QED
      BY <3>1, <3>2 DEF TypeOK, EngineTypeOK, Stops, Kinds
  <2>2. CASE Bad(Passed) = {}
    <3>1. /\ verified' = Max({verified, OldestFrame - 1})
          /\ stalled' = (stalled \/ frame - OldestFrame > MaxDrift)
          /\ UNCHANGED stop
      BY <2>2 DEF CheckGame
    <3>2. OldestFrame - 1 \in Int /\ OldestFrame - 1 >= -1 /\ verified \in Nat \cup {-1}
      <4>1. OldestFrame \in Nat
        BY OldestFrameIs
      <4>2. verified \in Nat \cup {-1}
        BY DEF TypeOK, EngineTypeOK
      <4> QED
        BY <4>1, <4>2
    <3>3. verified' \in Nat \cup {-1}
      BY <3>1, <3>2, MaxOfTwo
    <3> QED
      BY <3>1, <3>3 DEF TypeOK, EngineTypeOK
  <2> QED
    BY <2>1, <2>2
<1>3. Tail(work) \in Seq(Loops) /\ frame' \in Nat
  BY <1>1 DEF TypeOK, EngineTypeOK
<1>4. /\ work' \in Seq(Loops)
      /\ handled' \in [present : SUBSET Slots, frame : Nat, stalled : BOOLEAN, stop : Stops]
  BY <1>1, <1>2, <1>3, GoOnType
<1> QED
  BY <1>1, <1>2, <1>4 DEF TypeOK, EngineTypeOK, joinVars, sendVars

LEMMA PresentCardinality == Cardinality(Present) \in Nat
<1>1. IsFiniteSet(Present)
  BY SlotsAreNat, PresentSlots, FS_Subset
<1> QED
  BY <1>1, FS_CardinalityType

LEMMA StatusType ==
    ASSUME TypeOK
    PROVE  /\ Present # {} => Status \in Seq(Loops)
           /\ Len(Status) = 2 * Cardinality(Present)
           /\ Status \in Seq([word : {<<"LAG", 0>>, <<"LATENCY", 0>>}, how : {"auto"}, todo : {Present}])
<1> DEFINE n == 2 * Cardinality(Present)
           W == {<<"LAG", 0>>, <<"LATENCY", 0>>}
           P == [word : W, how : {"auto"}, todo : {Present}]
           e(i) == [word |-> <<IF i % 2 = 1 THEN "LAG" ELSE "LATENCY", 0>>, how |-> "auto", todo |-> Present]
<1>1. n \in Nat
  BY PresentCardinality
<1>2. Status = [i \in 1..n |-> e(i)]
  BY DEF Status
<1>3. \A i \in 1..n : e(i) \in P
  OBVIOUS
<1> HIDE DEF n, e
<1>4. Status \in [1..n -> P]
  BY <1>2, <1>3
<1> HIDE DEF P
<1>5. Status \in Seq(P) /\ Len(Status) = n
  BY <1>1, <1>4
<1>6. Present # {} => P \subseteq Loops
  <2>1. W \subseteq Words
    BY WordsAre
  <2> QED
    BY <2>1, PresentSlots DEF P, Loops, Sends
<1>7. Present # {} => Status \in [1..n -> Loops]
  BY <1>4, <1>6
<1>8. Present # {} => Status \in Seq(Loops)
  BY <1>1, <1>7
<1> QED
  BY <1>5, <1>8 DEF n, P

LEMMA StatusLoops ==
    ASSUME TypeOK
    PROVE  Status \in Seq(Loops)
<1>1. CASE Present = {}
  <2>1. Cardinality(Present) = 0
    BY <1>1, FS_EmptySet
  <2>2. Len(Status) = 0
    BY <2>1, StatusType
  <2>3. Status = <<>>
    BY <2>2, StatusType, EmptySeq
  <2> QED
    BY <2>3, EmptySeq
<1>2. CASE Present # {}
  BY <1>2, StatusType
<1> QED
  BY <1>1, <1>2

LEMMA TickLoopsType ==
    ASSUME TypeOK
    PROVE  (IF frame % StatusEvery = 0 THEN Status ELSE <<>>)
             \o Loop(<<"FRAME", frame + 1>>, "flush", Present)
             \o (IF (frame + 1) % PingEvery = 0 THEN Loop(<<"PING", 0>>, "ping", Present) ELSE <<>>)
             \o <<CheckEntry>> \in Seq(Loops)
<1>1. Present \in SUBSET Slots
  BY PresentSlots
<1>2. frame + 1 \in Nat
  BY DEF TypeOK, EngineTypeOK
<1>3. Loop(<<"FRAME", frame + 1>>, "flush", Present) \in Seq(Loops)
  BY <1>1, <1>2, WordsAre, LoopType
<1>4. Loop(<<"PING", 0>>, "ping", Present) \in Seq(Loops)
  BY <1>1, WordsAre, LoopType
<1>5. Status \in Seq(Loops)
  BY StatusLoops
<1>6. <<CheckEntry>> \in Seq(Loops)
  BY OneElement DEF Loops
<1> DEFINE a == IF frame % StatusEvery = 0 THEN Status ELSE <<>>
           b == Loop(<<"FRAME", frame + 1>>, "flush", Present)
           d == IF (frame + 1) % PingEvery = 0 THEN Loop(<<"PING", 0>>, "ping", Present) ELSE <<>>
           e == <<CheckEntry>>
<1>7. a \in Seq(Loops) /\ b \in Seq(Loops) /\ d \in Seq(Loops) /\ e \in Seq(Loops)
  BY <1>3, <1>4, <1>5, <1>6, EmptySeq
<1> HIDE DEF a, b, d, e
<1>8. a \o b \o d \o e \in Seq(Loops)
  BY <1>7
<1> QED
  BY <1>8 DEF a, b, d, e

LEMMA TickType ==
    ASSUME TypeOK, Tick
    PROVE  EngineTypeOK' /\ frame' = frame + 1
<1>1. /\ frame' = frame + 1 /\ stalled' = FALSE
      /\ relayed' = Append(relayed, <<"FRAME", frame + 1>>)
      /\ UNCHANGED <<syncVars, joinVars, sendVars, stop, phase>>
  BY DEF Tick
<1>2. frame' \in Nat /\ stalled' \in BOOLEAN /\ stop' \in Stops
  <2>1. frame \in Nat /\ stop \in Stops
    BY DEF TypeOK, EngineTypeOK
  <2>2. frame' \in Nat
    BY <1>1, <2>1
  <2>3. stalled' \in BOOLEAN
    BY <1>1
  <2>4. stop' \in Stops
    BY <1>1, <2>1
  <2> QED
    BY <2>2, <2>3, <2>4
<1>3. /\ work' \in Seq(Loops)
      /\ handled' \in [present : SUBSET Slots, frame : Nat, stalled : BOOLEAN, stop : Stops]
  BY <1>2, TickLoopsType, GoOnType DEF Tick
<1>4. relayed' \in Seq(Words)
  <2>1. frame + 1 \in Nat /\ relayed \in Seq(Words)
    BY DEF TypeOK, EngineTypeOK
  <2>2. <<"FRAME", frame + 1>> \in Words
    BY <2>1, WordsAre
  <2> QED
    BY <1>1, <2>1, <2>2
<1> QED
  BY <1>1, <1>2, <1>3, <1>4 DEF TypeOK, EngineTypeOK, syncVars, joinVars, sendVars

LEMMA TagsType == \A n \in Nat : Tags(n) \in Seq(Words) /\ Len(Tags(n)) = n
<1> TAKE n \in Nat
<1>1. Tags(n) \in [1..n -> Words]
  BY WordsAre DEF Tags
<1> QED
  BY <1>1

LEMMA NewPlayerType ==
    /\ NewRings \in [Kinds -> [0..(RingSize - 1) -> Check]]
    /\ NothingSent \in [Kinds -> Seq(Nat)]
<1>1. [data |-> 0, frame |-> 0] \in Check
  BY DEF Check
<1>2. <<>> \in Seq(Nat)
  BY EmptySeq
<1> QED
  BY <1>1, <1>2 DEF NewRings, NothingSent

LEMMA GreetingType ==
    ASSUME NEW s \in Slots
    PROVE  <<<<"KEY", s>>, <<"PLAYERS", s>>>> \o Tags(Cardinality(Present) + 1) \in Seq(Words)
<1>1. <<"KEY", s>> \in Words /\ <<"PLAYERS", s>> \in Words
  BY WordsAre, SlotsAreNat
<1>2. <<<<"KEY", s>>, <<"PLAYERS", s>>>> \in Seq(Words)
  BY <1>1
<1>3. Cardinality(Present) + 1 \in Nat
  BY PresentCardinality
<1>4. Tags(Cardinality(Present) + 1) \in Seq(Words)
  BY <1>3, TagsType
<1> QED
  BY <1>2, <1>4

LEMMA JoinType ==
    ASSUME TypeOK, NEW c \in Conns, NEW v \in Nat, Join(c, v)
    PROVE  EngineTypeOK' /\ frame' = frame
<1>1. PICK s \in Slots \ Present : JoinAt(s, c, v)
  BY DEF Join
<1> DEFINE full == Slots = Present \cup {s}
           kept == [pending EXCEPT ![s] = <<>>]
           greeting == <<<<"KEY", s>>, <<"PLAYERS", s>>>> \o Tags(Cardinality(Present) + 1)
<1>2. /\ players' = [players EXCEPT ![s] = c]
      /\ version' = IF Present = {} THEN v ELSE version
      /\ acked' = [acked EXCEPT ![s] = 0]
      /\ ring' = [ring EXCEPT ![s] = NewRings]
      /\ sent' = [sent EXCEPT ![s] = NothingSent]
      /\ pinged' = pinged \ {s}
      /\ out' = [out EXCEPT ![c] = Append(@, greeting)]
      /\ panicked' = (panicked \/ c \in closed)
      /\ started' = full
      /\ pending' = IF full THEN [t \in Slots |-> kept[t] \o Tags(Players)] ELSE kept
      /\ UNCHANGED <<frame, verified, stalled, closed, overrun, relayed, stop, phase>>
      /\ GoOn(<<>>)
  BY <1>1 DEF JoinAt
<1>3. greeting \in Seq(Words)
  BY GreetingType
<1>4. kept \in [Slots -> Seq(Words)]
  BY EmptySeq DEF TypeOK, EngineTypeOK
<1> HIDE DEF full, kept, greeting
<1>5. pending' \in [Slots -> Seq(Words)]
  <2>1. Tags(Players) \in Seq(Words)
    BY TagsType, EngineAssumption
  <2>2. \A t \in Slots : kept[t] \o Tags(Players) \in Seq(Words)
    BY <1>4, <2>1
  <2> QED
    BY <1>2, <1>4, <2>2
<1>6. out' \in [Conns -> Seq(Seq(Words))]
  <2>1. out[c] \in Seq(Seq(Words))
    BY DEF TypeOK, EngineTypeOK
  <2>2. Append(out[c], greeting) \in Seq(Seq(Words))
    BY <2>1, <1>3
  <2> QED
    BY <1>2, <2>2 DEF TypeOK, EngineTypeOK
<1>7. ring' \in [Slots -> [Kinds -> [0..(RingSize - 1) -> Check]]] /\ sent' \in [Slots -> [Kinds -> Seq(Nat)]]
  BY <1>2, NewPlayerType DEF TypeOK, EngineTypeOK
<1>8. frame' \in Nat /\ stalled' \in BOOLEAN /\ stop' \in Stops
  BY <1>2 DEF TypeOK, EngineTypeOK
<1>9. /\ work' \in Seq(Loops)
      /\ handled' \in [present : SUBSET Slots, frame : Nat, stalled : BOOLEAN, stop : Stops]
  BY <1>2, <1>8, GoOnType, EmptySeq
<1>10. /\ players' \in [Slots -> Conns \cup {Nobody}]
       /\ started' \in BOOLEAN
       /\ version' \in Nat
       /\ acked' \in [Slots -> Nat]
       /\ pinged' \subseteq Slots
       /\ panicked' \in BOOLEAN
  BY <1>2 DEF TypeOK, EngineTypeOK, full
<1> QED
  BY <1>2, <1>5, <1>6, <1>7, <1>8, <1>9, <1>10 DEF TypeOK, EngineTypeOK

LEMMA StopType ==
    ASSUME TypeOK, NEW r \in Stops, Stop(r)
    PROVE  EngineTypeOK' /\ frame' = frame
<1>1. /\ stop' = r
      /\ UNCHANGED <<syncVars, joinVars, sendVars, frame, stalled, phase, relayed>>
      /\ GoOn(<<>>)
  BY DEF Stop
<1>2. frame' \in Nat /\ stalled' \in BOOLEAN /\ stop' \in Stops
  BY <1>1 DEF TypeOK, EngineTypeOK
<1>3. /\ work' \in Seq(Loops)
      /\ handled' \in [present : SUBSET Slots, frame : Nat, stalled : BOOLEAN, stop : Stops]
  BY <1>1, <1>2, GoOnType, EmptySeq
<1> QED
  BY <1>1, <1>2, <1>3 DEF TypeOK, EngineTypeOK, syncVars, joinVars, sendVars

LEMMA ShutdownType ==
    ASSUME TypeOK, Shutdown
    PROVE  EngineTypeOK' /\ frame' = frame
<1>1. /\ phase' = "draining"
      /\ UNCHANGED <<syncVars, joinVars, sendVars, frame, stalled, stop, relayed>>
      /\ GoOn(Loop(<<"ERROR", stop>>, "last", Present))
  BY DEF Shutdown
<1>2. frame' \in Nat /\ stalled' \in BOOLEAN /\ stop' \in Stops /\ stop \in Stops
  BY <1>1 DEF TypeOK, EngineTypeOK
<1>3. Loop(<<"ERROR", stop>>, "last", Present) \in Seq(Loops)
  BY <1>2, WordsAre, PresentSlots, LoopType
<1>4. /\ work' \in Seq(Loops)
      /\ handled' \in [present : SUBSET Slots, frame : Nat, stalled : BOOLEAN, stop : Stops]
  BY <1>1, <1>2, <1>3, GoOnType
<1> QED
  BY <1>1, <1>2, <1>4 DEF TypeOK, EngineTypeOK, syncVars, joinVars, sendVars

LEMMA ReturnType ==
    ASSUME TypeOK, Return
    PROVE  EngineTypeOK' /\ frame' = frame
BY DEF Return, TypeOK, EngineTypeOK, syncVars, joinVars, sendVars

LEMMA RunStepType ==
    ASSUME TypeOK, RunStep
    PROVE  TypeOK'
<1>1. UNCHANGED <<events, connVars, up, clientVars>> /\ frame <= FrameLimit
  BY DEF RunStep, TypeOK
<1>2. EngineTypeOK' /\ frame' = frame
  <2>1. CASE LaunchTimeout \/ Cancel
    <3>1. "timeout" \in Stops /\ "stopped" \in Stops
      BY DEF Stops
    <3> QED
      BY <2>1, <3>1, StopType DEF LaunchTimeout, Cancel
  <2>2. CASE Shutdown
    BY <2>2, ShutdownType
  <2>3. CASE Return
    BY <2>3, ReturnType
  <2>4. CASE Iterate
    BY <2>4, SkipType, QueueType, FlushType, OverrunType, CheckGameType DEF Iterate
  <2> QED
    BY <2>1, <2>2, <2>3, <2>4 DEF RunStep
<1> QED
  BY <1>1, <1>2, EngineStepType

LEMMA TakeTickType ==
    ASSUME TypeOK, TakeTick
    PROVE  TypeOK'
<1>1. EngineTypeOK' /\ frame' = frame + 1
  BY TickType DEF TakeTick
<1>2. frame < FrameLimit /\ UNCHANGED <<events, connVars, up, clientVars>>
  BY DEF TakeTick
<1>3. frame \in Nat /\ FrameLimit \in Nat
  BY RelayAssumption DEF TypeOK, EngineTypeOK
<1>4. frame' <= FrameLimit
  BY <1>1, <1>2, <1>3
<1> QED
  BY <1>1, <1>2, <1>4, EngineStepType

(* The first event, and what is behind it. *)
LEMMA FirstEvent ==
    ASSUME TypeOK, events # <<>>
    PROVE  /\ Head(events)[1] \in MessageKinds \cup {"JOIN", "GONE"}
           /\ Head(events)[2] \in Conns
           /\ Head(events)[3] \in Nat
           /\ Head(events) = <<Head(events)[1], Head(events)[2], Head(events)[3]>>
           /\ Head(events) = events[1]
           /\ Tail(events) \in Seq(Events)
           /\ Len(Tail(events)) = Len(events) - 1
           /\ \A i \in DOMAIN Tail(events) : i + 1 \in DOMAIN events /\ Tail(events)[i] = events[i + 1]
<1>1. events \in Seq(Events) /\ events # <<>>
  BY DEF TypeOK
<1>2. Head(events) \in Events /\ Head(events) = events[1] /\ Tail(events) \in Seq(Events)
  BY <1>1
<1>3. Len(Tail(events)) = Len(events) - 1
  BY <1>1
<1>4. \A i \in DOMAIN Tail(events) : i + 1 \in DOMAIN events /\ Tail(events)[i] = events[i + 1]
  BY <1>1
<1> QED
  BY <1>2, <1>3, <1>4 DEF Events

LEMMA TakeType ==
    ASSUME TypeOK, NEW k, NEW c, NEW d, Take(k, c, d)
    PROVE  /\ k \in MessageKinds \cup {"JOIN", "GONE"} /\ c \in Conns /\ d \in Nat
           /\ events' \in Seq(Events) /\ Len(events') <= EventDepth
           /\ UNCHANGED <<up, clientVars>> /\ Looping
           /\ events # <<>> /\ events[1] = <<k, c, d>>
           /\ \A i \in DOMAIN events' : i + 1 \in DOMAIN events /\ events'[i] = events[i + 1]
<1>1. events # <<>> /\ Head(events) = <<k, c, d>> /\ events' = Tail(events) /\ UNCHANGED <<up, clientVars>> /\ Looping
  BY DEF Take
<1>2. Len(events) \in Nat /\ EventDepth \in Nat /\ Len(events) <= EventDepth
  BY RelayAssumption DEF TypeOK
<1>3. /\ Head(events)[1] = k /\ Head(events)[2] = c /\ Head(events)[3] = d
  BY <1>1
<1>4. Len(events') <= EventDepth
  BY <1>1, <1>2, FirstEvent
<1> QED
  BY <1>1, <1>3, <1>4, FirstEvent

LEMMA HandlerSet ==
    ASSUME TypeOK, NEW c \in Conns, NEW st \in {"idle", "joining", "accepted", "reading", "ended"}
    PROVE  [handler EXCEPT ![c] = st] \in [Conns -> {"idle", "joining", "accepted", "reading", "ended"}]
BY DEF TypeOK

LEMMA MessageType ==
    ASSUME TypeOK, NEW s \in Present, NEW k, NEW d, HandleMessage(s, k, d)
    PROVE  EngineTypeOK' /\ frame' = frame
<1>1. Take(k, players[s], d) /\ d \in Nat /\ s \in Slots
  BY TakeType DEF HandleMessage, Present
<1>2. CASE OnAck(s, d)
  BY <1>1, <1>2 DEF OnAck, TypeOK, EngineTypeOK, joinVars, sendVars
<1>3. CASE OnInput(d)
  <2>1. /\ relayed' = IF started THEN Append(relayed, <<"INPUT", d>>) ELSE relayed
        /\ UNCHANGED <<syncVars, joinVars, sendVars, frame, stalled, stop, phase>>
        /\ GoOn(IF started THEN Loop(<<"INPUT", d>>, "auto", Present) ELSE <<>>)
    BY <1>3 DEF OnInput
  <2>2. <<"INPUT", d>> \in Words
    BY <1>1, WordsAre
  <2>3. Loop(<<"INPUT", d>>, "auto", Present) \in Seq(Loops)
    BY <2>2, PresentSlots, LoopType
  <2>4. frame' \in Nat /\ stalled' \in BOOLEAN /\ stop' \in Stops
    BY <2>1 DEF TypeOK, EngineTypeOK
  <2>5. /\ work' \in Seq(Loops)
        /\ handled' \in [present : SUBSET Slots, frame : Nat, stalled : BOOLEAN, stop : Stops]
    BY <2>1, <2>3, <2>4, GoOnType, EmptySeq
  <2>6. relayed' \in Seq(Words)
    BY <2>1, <2>2 DEF TypeOK, EngineTypeOK
  <2> QED
    BY <2>1, <2>5, <2>6 DEF TypeOK, EngineTypeOK, syncVars, joinVars, sendVars
<1>4. CASE k \in Kinds /\ OnCheck(s, k, d)
  <2>1. /\ ring' = [ring EXCEPT ![s][k][acked[s] % RingSize] = [data |-> d, frame |-> acked[s]]]
        /\ sent' = [sent EXCEPT ![s][k] = Append(@, d)]
        /\ UNCHANGED <<verified, acked, joinVars, sendVars, frame, stalled, stop, phase, work, relayed, handled>>
    BY <1>4 DEF OnCheck
  <2>2. acked[s] \in Nat
    BY <1>1 DEF TypeOK, EngineTypeOK
  <2>3. [data |-> d, frame |-> acked[s]] \in Check
    BY <1>1, <2>2 DEF Check
  <2>4. ring' \in [Slots -> [Kinds -> [0..(RingSize - 1) -> Check]]]
    <3> DEFINE R == [0..(RingSize - 1) -> Check]
               i == acked[s] % RingSize
               e == [data |-> d, frame |-> acked[s]]
    <3>1. ring[s][k] \in R /\ ring[s] \in [Kinds -> R] /\ ring \in [Slots -> [Kinds -> R]]
      BY <1>1, <1>4 DEF TypeOK, EngineTypeOK
    <3>2. [ring[s][k] EXCEPT ![i] = e] \in R
      BY <3>1, <2>3
    <3>3. ring' = [ring EXCEPT ![s] = [ring[s] EXCEPT ![k] = [ring[s][k] EXCEPT ![i] = e]]]
      BY <2>1
    <3> HIDE DEF R, i, e
    <3> QED
      BY <3>1, <3>2, <3>3 DEF R
  <2>5. Append(sent[s][k], d) \in Seq(Nat)
    BY <1>1, <1>4 DEF TypeOK, EngineTypeOK
  <2>6. sent' \in [Slots -> [Kinds -> Seq(Nat)]]
    BY <2>1, <2>5 DEF TypeOK, EngineTypeOK
  <2> QED
    BY <2>1, <2>4, <2>6 DEF TypeOK, EngineTypeOK, joinVars, sendVars
<1>5. CASE OnPong(s)
  BY <1>5 DEF OnPong, TypeOK, EngineTypeOK, syncVars, joinVars
<1>6. CASE OnText(s)
  <2>1. /\ UNCHANGED <<syncVars, joinVars, sendVars, frame, stalled, stop, phase, relayed>>
        /\ GoOn(Loop(<<"TEXT", s>>, "auto", Present))
    BY <1>6 DEF OnText
  <2>2. Loop(<<"TEXT", s>>, "auto", Present) \in Seq(Loops)
    BY <1>1, WordsAre, SlotsAreNat, PresentSlots, LoopType
  <2>3. frame' \in Nat /\ stalled' \in BOOLEAN /\ stop' \in Stops
    BY <2>1 DEF TypeOK, EngineTypeOK
  <2>4. /\ work' \in Seq(Loops)
        /\ handled' \in [present : SUBSET Slots, frame : Nat, stalled : BOOLEAN, stop : Stops]
    BY <2>1, <2>2, <2>3, GoOnType
  <2> QED
    BY <2>1, <2>4 DEF TypeOK, EngineTypeOK, syncVars, joinVars, sendVars
<1>7. CASE Gone(s)
  BY <1>7, GoneType
<1> QED
  BY <1>2, <1>3, <1>4, <1>5, <1>6, <1>7 DEF HandleMessage

LEMMA HandleEventType ==
    ASSUME TypeOK, HandleEvent
    PROVE  TypeOK'
<1> DEFINE k == Head(events)[1]
           c == Head(events)[2]
           d == Head(events)[3]
<1>1. c \in Conns /\ d \in Nat
  BY FirstEvent DEF HandleEvent
<1>2. CASE RefuseJoin(c, d)
  <2>1. /\ Take("JOIN", c, d) /\ handler' = [handler EXCEPT ![c] = "ended"]
        /\ open' = open \ {c} /\ UNCHANGED <<engineVars, writing>>
    BY <1>2 DEF RefuseJoin
  <2>2. events' \in Seq(Events) /\ Len(events') <= EventDepth /\ UNCHANGED <<up, clientVars>>
    BY <2>1, TakeType
  <2>3. handler' \in [Conns -> {"idle", "joining", "accepted", "reading", "ended"}]
    BY <1>1, <2>1, HandlerSet
  <2>4. open' \subseteq Conns
    BY <2>1 DEF TypeOK
  <2> QED
    BY <2>1, <2>2, <2>3, <2>4 DEF TypeOK, EngineTypeOK, engineVars, syncVars, joinVars, sendVars, clientVars
<1>3. CASE AcceptJoin(c, d)
  <2>1. /\ Take("JOIN", c, d) /\ Join(c, d) /\ handler' = [handler EXCEPT ![c] = "accepted"]
        /\ writing' = writing \cup {c} /\ UNCHANGED open
    BY <1>3 DEF AcceptJoin
  <2>2. events' \in Seq(Events) /\ Len(events') <= EventDepth /\ UNCHANGED <<up, clientVars>>
    BY <2>1, TakeType
  <2>3. handler' \in [Conns -> {"idle", "joining", "accepted", "reading", "ended"}]
    BY <1>1, <2>1, HandlerSet
  <2>4. EngineTypeOK' /\ frame' = frame
    BY <1>1, <2>1, JoinType
  <2>5. writing' \subseteq Conns
    BY <1>1, <2>1 DEF TypeOK
  <2> QED
    BY <2>1, <2>2, <2>3, <2>4, <2>5 DEF TypeOK, clientVars
<1>4. CASE \E s \in Present : HandleMessage(s, k, d)
  <2>1. PICK s \in Present : HandleMessage(s, k, d)
    BY <1>4
  <2>2. EngineTypeOK' /\ frame' = frame
    BY <2>1, MessageType
  <2>3. Take(k, players[s], d) /\ UNCHANGED connVars
    BY <2>1 DEF HandleMessage
  <2>4. events' \in Seq(Events) /\ Len(events') <= EventDepth /\ UNCHANGED <<up, clientVars>>
    BY <2>3, TakeType
  <2> QED
    BY <2>2, <2>3, <2>4 DEF TypeOK, connVars, clientVars
<1>5. CASE IgnoreMessage(k, c, d)
  <2>1. Take(k, c, d) /\ UNCHANGED <<engineVars, connVars>>
    BY <1>5 DEF IgnoreMessage
  <2>2. events' \in Seq(Events) /\ Len(events') <= EventDepth /\ UNCHANGED <<up, clientVars>>
    BY <2>1, TakeType
  <2> QED
    BY <2>1, <2>2 DEF TypeOK, EngineTypeOK, engineVars, syncVars, joinVars, sendVars, connVars, clientVars
<1> QED
  BY <1>2, <1>3, <1>4, <1>5 DEF HandleEvent

LEMMA ConnectType ==
    ASSUME TypeOK, NEW c \in Conns, Connect(c)
    PROVE  TypeOK'
<1>1. /\ Len(events) < EventDepth
      /\ handler' = [handler EXCEPT ![c] = "joining"]
      /\ open' = open \cup {c}
      /\ events' = Append(events, <<"JOIN", c, VersionOf[c]>>)
      /\ UNCHANGED <<engineVars, writing, up, clientVars>>
  BY DEF Connect, Room, Post
<1>2. <<"JOIN", c, VersionOf[c]>> \in Events
  BY RelayAssumption DEF Events
<1>3. events' \in Seq(Events) /\ Len(events') <= EventDepth
  BY <1>1, <1>2, RelayAssumption DEF TypeOK
<1>4. handler' \in [Conns -> {"idle", "joining", "accepted", "reading", "ended"}]
  BY <1>1, HandlerSet
<1>5. open' \subseteq Conns
  BY <1>1 DEF TypeOK
<1> QED
  BY <1>1, <1>3, <1>4, <1>5 DEF TypeOK, EngineTypeOK, engineVars, syncVars, joinVars, sendVars, clientVars

LEMMA ReaderStepType ==
    ASSUME TypeOK, NEW c \in Conns, ReaderStep(c)
    PROVE  TypeOK'
<1>1. CASE JoinAbandoned(c)
  <2>1. /\ handler' = [handler EXCEPT ![c] = "ended"] /\ open' = open \ {c}
        /\ quit' \in {quit, quit \cup {c}}
        /\ UNCHANGED <<engineVars, events, writing, up, got, at, ponged, diverges, inputs, texts>>
    BY <1>1 DEF JoinAbandoned
  <2>2. handler' \in [Conns -> {"idle", "joining", "accepted", "reading", "ended"}]
    BY <2>1, HandlerSet
  <2> QED
    BY <2>1, <2>2 DEF TypeOK, EngineTypeOK, engineVars, syncVars, joinVars, sendVars
<1>4. CASE JoinReplied(c)
  <2>1. /\ handler' = [handler EXCEPT ![c] = "reading"]
        /\ UNCHANGED <<engineVars, events, writing, open, up, clientVars>>
    BY <1>4 DEF JoinReplied
  <2>2. handler' \in [Conns -> {"idle", "joining", "accepted", "reading", "ended"}]
    BY <2>1, HandlerSet
  <2> QED
    BY <2>1, <2>2 DEF TypeOK, EngineTypeOK, engineVars, syncVars, joinVars, sendVars, clientVars
<1>2. CASE ReadWord(c)
  <2>1. /\ up[c] # <<>> /\ Len(events) < EventDepth
        /\ events' = Append(events, <<Head(up[c])[1], c, Head(up[c])[2]>>)
        /\ up' = [up EXCEPT ![c] = Tail(@)]
        /\ UNCHANGED <<engineVars, handler, open, writing, clientVars>>
    BY <1>2 DEF ReadWord, Room
  <2>2. up[c] \in Seq(UpWords)
    BY DEF TypeOK
  <2>3. Head(up[c]) \in UpWords /\ Tail(up[c]) \in Seq(UpWords)
    BY <2>1, <2>2
  <2>4. <<Head(up[c])[1], c, Head(up[c])[2]>> \in Events
    BY <2>3 DEF UpWords, Events
  <2>5. events' \in Seq(Events) /\ Len(events') <= EventDepth
    BY <2>1, <2>4, RelayAssumption DEF TypeOK
  <2>6. up' \in [Conns -> Seq(UpWords)]
    BY <2>1, <2>3 DEF TypeOK
  <2> QED
    BY <2>1, <2>5, <2>6 DEF TypeOK, EngineTypeOK, engineVars, syncVars, joinVars, sendVars, clientVars
<1>3. CASE ReadFails(c)
  <2>1. /\ handler' = [handler EXCEPT ![c] = "ended"]
        /\ up' = [up EXCEPT ![c] = <<>>]
        /\ \/ Len(events) < EventDepth /\ events' = Append(events, <<"GONE", c, 0>>)
           \/ UNCHANGED events
        /\ UNCHANGED <<engineVars, open, writing, clientVars>>
    BY <1>3 DEF ReadFails, Room, Post
  <2>2. <<"GONE", c, 0>> \in Events
    BY DEF Events
  <2>3. events' \in Seq(Events) /\ Len(events') <= EventDepth
    <3>1. CASE UNCHANGED events
      BY <3>1 DEF TypeOK
    <3>2. CASE Len(events) < EventDepth /\ events' = Append(events, <<"GONE", c, 0>>)
      BY <3>2, <2>2, RelayAssumption DEF TypeOK
    <3> QED
      BY <2>1, <3>1, <3>2
  <2>4. handler' \in [Conns -> {"idle", "joining", "accepted", "reading", "ended"}]
    BY <2>1, HandlerSet
  <2>5. up' \in [Conns -> Seq(UpWords)]
    BY <2>1, EmptySeq DEF TypeOK
  <2> QED
    BY <2>1, <2>3, <2>4, <2>5 DEF TypeOK, EngineTypeOK, engineVars, syncVars, joinVars, sendVars, clientVars
<1> QED
  BY <1>1, <1>2, <1>3, <1>4 DEF ReaderStep

LEMMA WriterStepType ==
    ASSUME TypeOK, NEW c \in Conns, WriterStep(c)
    PROVE  TypeOK'
<1>1. CASE WriteBuffer(c)
  <2>1. /\ out[c] # <<>>
        /\ out' = [out EXCEPT ![c] = Tail(@)]
        /\ got' = [got EXCEPT ![c] = IF c \in open THEN @ \o Head(out[c]) ELSE @]
        /\ UNCHANGED <<syncVars, joinVars, players, pending, closed, pinged, panicked, overrun,
                       frame, stalled, stop, phase, work, relayed, handled,
                       events, connVars, up, at, ponged, diverges, quit, inputs, texts>>
    BY <1>1 DEF WriteBuffer
  <2>2. out[c] \in Seq(Seq(Words)) /\ got[c] \in Seq(Words)
    BY DEF TypeOK, EngineTypeOK
  <2>3. Head(out[c]) \in Seq(Words) /\ Tail(out[c]) \in Seq(Seq(Words))
    BY <2>1, <2>2
  <2>4. out' \in [Conns -> Seq(Seq(Words))]
    BY <2>1, <2>3 DEF TypeOK, EngineTypeOK
  <2>5. got[c] \o Head(out[c]) \in Seq(Words)
    BY <2>2, <2>3
  <2>6. got' \in [Conns -> Seq(Words)]
    BY <2>1, <2>2, <2>5 DEF TypeOK
  <2> QED
    BY <2>1, <2>4, <2>6 DEF TypeOK, EngineTypeOK, syncVars, joinVars, connVars
<1>2. CASE WriterEnds(c)
  BY <1>2 DEF WriterEnds, TypeOK, EngineTypeOK, engineVars, syncVars, joinVars, sendVars, clientVars
<1> QED
  BY <1>1, <1>2 DEF WriterStep

LEMMA SendType ==
    ASSUME TypeOK, NEW c \in Conns, NEW words \in Seq(UpWords), Send(c, words)
    PROVE  up' \in [Conns -> Seq(UpWords)]
BY DEF TypeOK, Send

LEMMA ClientStepType ==
    ASSUME TypeOK, NEW c \in Conns, ClientStep(c)
    PROVE  TypeOK'
<1>1. at[c] \in Nat /\ ponged[c] \in Nat /\ inputs \in Nat /\ texts \in Nat
  BY RelayAssumption DEF TypeOK
<1>2. CASE SendFrameAck(c)
  <2> DEFINE words == <<<<"rnd", Sum(c, "rnd", at[c])>>, <<"mem", Sum(c, "mem", at[c])>>, <<"ACK", at[c] + 1>>>>
  <2>1. /\ Send(c, words) /\ at' = [at EXCEPT ![c] = @ + 1]
        /\ UNCHANGED <<serverVars, open, got, ponged, diverges, quit, inputs, texts>>
    BY <1>2 DEF SendFrameAck
  <2>2. Sum(c, "rnd", at[c]) \in Nat /\ Sum(c, "mem", at[c]) \in Nat
    BY DEF Sum
  <2>3. words \in Seq(UpWords)
    <3>1. <<"rnd", Sum(c, "rnd", at[c])>> \in UpWords /\ <<"mem", Sum(c, "mem", at[c])>> \in UpWords
          /\ <<"ACK", at[c] + 1>> \in UpWords
      BY <1>1, <2>2 DEF UpWords, MessageKinds, Kinds
    <3> QED
      BY <3>1
  <2>4. up' \in [Conns -> Seq(UpWords)]
    BY <2>1, <2>3, SendType
  <2>5. at' \in [Conns -> Nat]
    BY <1>1, <2>1 DEF TypeOK
  <2> QED
    BY <2>1, <2>4, <2>5 DEF TypeOK, EngineTypeOK, serverVars, engineVars, syncVars, joinVars, sendVars
<1>3. CASE SendInput(c)
  <2>1. /\ inputs < InputLimit /\ Send(c, <<<<"INPUT", inputs + 1>>>>) /\ inputs' = inputs + 1
        /\ UNCHANGED <<serverVars, open, got, at, ponged, diverges, quit, texts>>
    BY <1>3 DEF SendInput
  <2>2. <<"INPUT", inputs + 1>> \in UpWords
    BY <1>1 DEF UpWords, MessageKinds
  <2>3. up' \in [Conns -> Seq(UpWords)]
    BY <2>1, <2>2, SendType, OneElement
  <2>4. inputs' \in 0..InputLimit
    BY <1>1, <2>1, RelayAssumption
  <2> QED
    BY <2>1, <2>3, <2>4 DEF TypeOK, EngineTypeOK, serverVars, engineVars, syncVars, joinVars, sendVars
<1>4. CASE SendText(c)
  <2>1. /\ texts < TextLimit /\ Send(c, <<<<"TEXT", 0>>>>) /\ texts' = texts + 1
        /\ UNCHANGED <<serverVars, open, got, at, ponged, diverges, quit, inputs>>
    BY <1>4 DEF SendText
  <2>2. <<"TEXT", 0>> \in UpWords
    BY DEF UpWords, MessageKinds
  <2>3. up' \in [Conns -> Seq(UpWords)]
    BY <2>1, <2>2, SendType, OneElement
  <2>4. texts' \in 0..TextLimit
    BY <1>1, <2>1, RelayAssumption
  <2> QED
    BY <2>1, <2>3, <2>4 DEF TypeOK, EngineTypeOK, serverVars, engineVars, syncVars, joinVars, sendVars
<1>5. CASE SendPong(c)
  <2>1. /\ Send(c, <<<<"PONG", 0>>>>) /\ ponged' = [ponged EXCEPT ![c] = @ + 1]
        /\ UNCHANGED <<serverVars, open, got, at, diverges, quit, inputs, texts>>
    BY <1>5 DEF SendPong
  <2>2. <<"PONG", 0>> \in UpWords
    BY DEF UpWords, MessageKinds
  <2>3. up' \in [Conns -> Seq(UpWords)]
    BY <2>1, <2>2, SendType, OneElement
  <2>4. ponged' \in [Conns -> Nat]
    BY <1>1, <2>1 DEF TypeOK
  <2> QED
    BY <2>1, <2>3, <2>4 DEF TypeOK, EngineTypeOK, serverVars, engineVars, syncVars, joinVars, sendVars
<1>6. CASE Quit(c)
  BY <1>6 DEF Quit, TypeOK, EngineTypeOK, serverVars, engineVars, syncVars, joinVars, sendVars
<1> QED
  BY <1>2, <1>3, <1>4, <1>5, <1>6 DEF ClientStep

LEMMA InitType == ASSUME Init PROVE TypeOK
<1>1. /\ NewRings \in [Kinds -> [0..(RingSize - 1) -> Check]] /\ NothingSent \in [Kinds -> Seq(Nat)]
      /\ \A S : <<>> \in Seq(S)
  BY NewPlayerType, EmptySeq
<1>2. handled \in [present : SUBSET Slots, frame : Nat, stalled : BOOLEAN, stop : Stops]
  BY DEF Init, EngineInit, Now, Present, Stops
<1>3. EngineTypeOK
  BY <1>1, <1>2 DEF Init, EngineInit, EngineTypeOK, Stops
<1> QED
  BY <1>1, <1>3, RelayAssumption DEF Init, EngineInit, TypeOK

LEMMA NextType == ASSUME TypeOK, [Next]_vars PROVE TypeOK'
<1>1. CASE UNCHANGED vars
  BY <1>1 DEF TypeOK, EngineTypeOK, vars, engineVars, syncVars, joinVars, sendVars, connVars, clientVars
<1> QED
  BY <1>1, HandleEventType, TakeTickType, RunStepType, ConnectType, ReaderStepType, WriterStepType, ClientStepType
     DEF Next, Ended

(***************************************************************************)
(* Every variable keeps its type, whatever a handler is in the middle of   *)
(* (game.go, conn.go).                                                     *)
(***************************************************************************)
THEOREM RelayTypeCorrect == SafeSpec => []TypeOK
<1>1. Init => TypeOK
  BY InitType
<1>2. TypeOK /\ [Next]_vars => TypeOK'
  BY NextType
<1> QED
  BY <1>1, <1>2, PTL DEF SafeSpec

-----------------------------------------------------------------------------
(* Sequences. What the recursive function of Picked computes is found      *)
(* by induction on the length.                                             *)

Picks(f, s, K) ==
    /\ f[0] = <<>>
    /\ \A n \in 1..Len(s) : f[n] = IF s[n] \in K THEN Append(f[n - 1], s[n]) ELSE f[n - 1]
    /\ Picked(s, K) = f[Len(s)]

LEMMA PickedUpTo ==
    ASSUME NEW W, NEW K, NEW s \in Seq(W)
    PROVE  \E f \in [0..Len(s) -> Seq(W)] : Picks(f, s, K)
<1> DEFINE N == Len(s)
           M == Seq(W)
           Is(f, m) == /\ f \in [0..m -> M]
                       /\ f[0] = <<>>
                       /\ \A n \in 1..m : f[n] = IF s[n] \in K THEN Append(f[n - 1], s[n]) ELSE f[n - 1]
           Has(m) == m <= N => \E f : Is(f, m)
           S == {m \in Nat : Has(m)}
           B(g) == [n \in 0..N |-> IF n = 0 THEN <<>>
                                   ELSE IF s[n] \in K THEN Append(g[n - 1], s[n])
                                   ELSE g[n - 1]]
           G == CHOOSE g : g = B(g)
<1>1. N \in Nat /\ <<>> \in M /\ \A n \in 1..N : s[n] \in W
  BY EmptySeq
<1>2. 0 \in S
  <2> DEFINE f == [n \in 0..0 |-> <<>>]
  <2>1. f \in [0..0 -> M] /\ f[0] = <<>>
    BY <1>1
  <2> HIDE DEF f
  <2>2. Is(f, 0)
    BY <2>1
  <2> QED
    BY <2>2
<1>3. ASSUME NEW m \in Nat, Has(m), m + 1 <= N PROVE \E g : Is(g, m + 1)
  <2> HIDE DEF N
  <2>1. m + 1 \in 1..N /\ m <= N
    BY <1>1, <1>3
  <2>2. PICK f : Is(f, m)
    BY <2>1, <1>3
  <2> DEFINE e == IF s[m + 1] \in K THEN Append(f[m], s[m + 1]) ELSE f[m]
             g == [n \in 0..(m + 1) |-> IF n <= m THEN f[n] ELSE e]
  <2>3. f[m] \in M /\ s[m + 1] \in W
    <3>1. f \in [0..m -> M] /\ m \in 0..m
      BY <2>2
    <3>2. f[m] \in M
      BY <3>1
    <3> QED
      BY <3>2, <2>1, <1>1
  <2>4. e \in M
    BY <2>3
  <2> HIDE DEF e
  <2>5. g \in [0..(m + 1) -> M]
    BY <2>1, <2>2, <2>4
  <2>6. g[0] = <<>>
    BY <2>1, <2>2
  <2>7. \A n \in 1..(m + 1) : g[n] = IF s[n] \in K THEN Append(g[n - 1], s[n]) ELSE g[n - 1]
    <3> TAKE n \in 1..(m + 1)
    <3>1. CASE n <= m
      <4>1. g[n] = f[n] /\ g[n - 1] = f[n - 1] /\ n \in 1..m
        BY <3>1, <2>1
      <4> HIDE DEF g
      <4> QED
        BY <2>2, <4>1
    <3>2. CASE ~(n <= m)
      <4>1. n = m + 1 /\ n - 1 = m
        BY <3>2, <2>1
      <4>2. g[n] = e /\ g[n - 1] = f[m]
        BY <4>1, <2>1
      <4> HIDE DEF g
      <4> QED
        BY <4>1, <4>2 DEF e
    <3> QED
      BY <3>1, <3>2
  <2> HIDE DEF g
  <2> QED
    BY <2>5, <2>6, <2>7
<1>4. Has(N)
  <2>1. \A m \in S : m + 1 \in S
    <3>1. \A m \in Nat : Has(m) => Has(m + 1)
      <4> SUFFICES ASSUME NEW m \in Nat, Has(m), m + 1 <= N PROVE \E g : Is(g, m + 1)
        OBVIOUS
      <4> QED
        BY <1>3
    <3> HIDE DEF Has
    <3> QED
      BY <3>1
  <2>2. S = Nat
    <3>1. S \subseteq Nat
      OBVIOUS
    <3> HIDE DEF S
    <3> QED
      BY <1>2, <2>1, <3>1, NatSetInduction
  <2> HIDE DEF Has
  <2> QED
    BY <2>2, <1>1
<1>5. PICK f : Is(f, N)
  BY <1>1, <1>4
<1>6. f = B(f)
  <2>1. \A n \in 0..N : f[n] = B(f)[n]
    <3> TAKE n \in 0..N
    <3>1. CASE n = 0
      BY <3>1, <1>5
    <3>2. CASE n # 0
      <4>1. n \in 1..N
        BY <3>2, <1>1
      <4> QED
        BY <4>1, <1>5, <3>2
    <3> QED
      BY <3>1, <3>2
  <2> QED
    BY <2>1, <1>5
<1>7. G = B(G)
  <2> HIDE DEF B, Is
  <2> QED
    BY <1>6
<1>8. \A n \in 0..N : G[n] = IF n = 0 THEN <<>> ELSE IF s[n] \in K THEN Append(G[n - 1], s[n]) ELSE G[n - 1]
  <2> TAKE n \in 0..N
  <2>1. B(G)[n] = IF n = 0 THEN <<>> ELSE IF s[n] \in K THEN Append(G[n - 1], s[n]) ELSE G[n - 1]
    <3> HIDE DEF G
    <3> QED
      OBVIOUS
  <2> HIDE DEF B, G, Is
  <2> QED
    BY <1>7, <2>1
<1>9. Picked(s, K) = G[N]
  BY DEF Picked, N
<1> HIDE DEF G, B, N
<1>10. G[N] = f[N]
  <2> DEFINE T == {n \in Nat : n <= N => G[n] = f[n]}
  <2>1. 0 \in T
    BY <1>1, <1>5, <1>8
  <2>2. ASSUME NEW n \in T PROVE n + 1 \in T
    <3> SUFFICES ASSUME n + 1 <= N PROVE G[n + 1] = f[n + 1]
      OBVIOUS
    <3>1. n \in Nat /\ n + 1 \in 1..N /\ n + 1 \in 0..N /\ n + 1 # 0 /\ (n + 1) - 1 = n /\ G[n] = f[n]
      BY <1>1
    <3>2. G[n + 1] = IF s[n + 1] \in K THEN Append(G[n], s[n + 1]) ELSE G[n]
      BY <3>1, <1>8
    <3>3. f[n + 1] = IF s[n + 1] \in K THEN Append(f[n], s[n + 1]) ELSE f[n]
      BY <3>1, <1>5
    <3> QED
      BY <3>1, <3>2, <3>3
  <2>3. T = Nat
    <3>1. T \subseteq Nat
      OBVIOUS
    <3> HIDE DEF T
    <3> QED
      BY <2>1, <2>2, <3>1, NatSetInduction
  <2> QED
    BY <2>3, <1>1
<1> QED
  BY <1>5, <1>9, <1>10 DEF N, Picks

LEMMA PickedEmpty == \A K : Picked(<<>>, K) = <<>>
<1> TAKE K
<1>1. <<>> \in Seq({}) /\ Len(<<>>) = 0
  BY EmptySeq
<1>2. PICK f \in [0..Len(<<>>) -> Seq({})] : Picks(f, <<>>, K)
  BY <1>1, PickedUpTo
<1> QED
  BY <1>1, <1>2 DEF Picks

LEMMA PickedType ==
    ASSUME NEW W, NEW K, NEW s \in Seq(W)
    PROVE  Picked(s, K) \in Seq(W)
<1>1. PICK f \in [0..Len(s) -> Seq(W)] : Picks(f, s, K)
  BY PickedUpTo
<1>2. Len(s) \in 0..Len(s) /\ Picked(s, K) = f[Len(s)]
  BY <1>1 DEF Picks
<1> QED
  BY <1>2

LEMMA PickedAppend ==
    ASSUME NEW W, NEW K, NEW s \in Seq(W), NEW w \in W
    PROVE  Picked(Append(s, w), K) = IF w \in K THEN Append(Picked(s, K), w) ELSE Picked(s, K)
<1> DEFINE N == Len(s)
           t == Append(s, w)
<1>1. N \in Nat /\ t \in Seq(W) /\ Len(t) = N + 1 /\ t[N + 1] = w /\ \A n \in 1..N : t[n] = s[n]
  OBVIOUS
<1>2. PICK f \in [0..N -> Seq(W)] : Picks(f, s, K)
  BY PickedUpTo
<1> HIDE DEF t
<1>3. PICK g \in [0..(N + 1) -> Seq(W)] : Picks(g, t, K)
  <2>1. \E g \in [0..Len(t) -> Seq(W)] : Picks(g, t, K)
    BY <1>1, PickedUpTo
  <2> QED
    BY <2>1, <1>1
<1>7. /\ f[0] = <<>> /\ g[0] = <<>> /\ Picked(s, K) = f[N] /\ Picked(t, K) = g[N + 1]
      /\ \A n \in 1..N : f[n] = IF s[n] \in K THEN Append(f[n - 1], s[n]) ELSE f[n - 1]
      /\ \A n \in 1..(N + 1) : g[n] = IF t[n] \in K THEN Append(g[n - 1], t[n]) ELSE g[n - 1]
  BY <1>1, <1>2, <1>3 DEF Picks
<1> HIDE DEF N
<1>4. g[N] = f[N]
  <2> DEFINE T == {n \in Nat : n <= N => g[n] = f[n]}
  <2>1. 0 \in T
    BY <1>7
  <2>2. ASSUME NEW n \in T PROVE n + 1 \in T
    <3> SUFFICES ASSUME n + 1 <= N PROVE g[n + 1] = f[n + 1]
      OBVIOUS
    <3>4. n \in Nat /\ (n <= N => g[n] = f[n])
      OBVIOUS
    <3>1. n \in Nat /\ n + 1 \in 1..N /\ n + 1 \in 1..(N + 1) /\ (n + 1) - 1 = n /\ g[n] = f[n]
      BY <1>1, <3>4
    <3>2. g[n + 1] = IF t[n + 1] \in K THEN Append(g[n], t[n + 1]) ELSE g[n]
      BY <3>1, <1>7
    <3>3. f[n + 1] = IF s[n + 1] \in K THEN Append(f[n], s[n + 1]) ELSE f[n]
      BY <3>1, <1>7
    <3> QED
      BY <3>1, <3>2, <3>3, <1>1
  <2>3. T = Nat
    <3>1. T \subseteq Nat
      OBVIOUS
    <3> HIDE DEF T
    <3> QED
      BY <2>1, <2>2, <3>1, NatSetInduction
  <2>4. N \in T
    <3> HIDE DEF T
    <3> QED
      BY <2>3, <1>1
  <2> QED
    BY <2>4
<1>5. N + 1 \in 1..(N + 1) /\ (N + 1) - 1 = N
  BY <1>1
<1>6. g[N + 1] = IF w \in K THEN Append(g[N], w) ELSE g[N]
  BY <1>1, <1>7, <1>5
<1> QED
  BY <1>4, <1>6, <1>7 DEF t

LEMMA OneMore ==
    ASSUME NEW S, NEW t \in Seq(S), NEW n \in Nat, n + 1 <= Len(t)
    PROVE  SubSeq(t, 1, n + 1) = Append(SubSeq(t, 1, n), t[n + 1]) /\ SubSeq(t, 1, n) \in Seq(S) /\ t[n + 1] \in S
<1>1. n + 1 \in 1..Len(t)
  OBVIOUS
<1>2. t[n + 1] \in S
  BY <1>1
<1>3. SubSeq(t, 1, n) \in Seq(S) /\ Len(SubSeq(t, 1, n)) = n
  OBVIOUS
<1>4. SubSeq(t, 1, n + 1) \in Seq(S) /\ Len(SubSeq(t, 1, n + 1)) = n + 1
  OBVIOUS
<1>5. Append(SubSeq(t, 1, n), t[n + 1]) \in Seq(S) /\ Len(Append(SubSeq(t, 1, n), t[n + 1])) = n + 1
  BY <1>2, <1>3
<1>6. \A i \in 1..(n + 1) : SubSeq(t, 1, n + 1)[i] = Append(SubSeq(t, 1, n), t[n + 1])[i]
  OBVIOUS
<1> QED
  BY <1>2, <1>3, <1>4, <1>5, <1>6, SeqEqual

LEMMA ConcatAppend ==
    ASSUME NEW S, NEW s \in Seq(S), NEW t \in Seq(S), NEW e \in S
    PROVE  s \o Append(t, e) = Append(s \o t, e)
<1>1. s \o Append(t, e) \in Seq(S) /\ Append(s \o t, e) \in Seq(S)
  OBVIOUS
<1>2. Len(s \o Append(t, e)) = Len(Append(s \o t, e))
  OBVIOUS
<1>3. \A i \in 1..Len(s \o Append(t, e)) : (s \o Append(t, e))[i] = Append(s \o t, e)[i]
  OBVIOUS
<1> QED
  BY <1>1, <1>2, <1>3, SeqEqual

LEMMA PickedConcatOne ==
    ASSUME NEW W, NEW K, NEW s \in Seq(W), NEW p \in Seq(W), NEW w \in W,
           Picked(s \o p, K) = Picked(s, K) \o Picked(p, K)
    PROVE  Picked(s \o Append(p, w), K) = Picked(s, K) \o Picked(Append(p, w), K)
<1>1. s \o Append(p, w) = Append(s \o p, w)
  BY ConcatAppend
<1>2. Picked(Append(p, w), K) = IF w \in K THEN Append(Picked(p, K), w) ELSE Picked(p, K)
  BY PickedAppend
<1>3. s \o p \in Seq(W)
  OBVIOUS
<1>4. Picked(Append(s \o p, w), K) = IF w \in K THEN Append(Picked(s \o p, K), w) ELSE Picked(s \o p, K)
  <2> DEFINE sp == s \o p
  <2>1. sp \in Seq(W)
    BY <1>3
  <2> HIDE DEF sp
  <2>2. Picked(Append(sp, w), K) = IF w \in K THEN Append(Picked(sp, K), w) ELSE Picked(sp, K)
    BY <2>1, PickedAppend
  <2> QED
    BY <2>2 DEF sp
<1>5. Picked(s, K) \o Append(Picked(p, K), w) = Append(Picked(s, K) \o Picked(p, K), w)
  <2>1. Picked(s, K) \in Seq(W) /\ Picked(p, K) \in Seq(W)
    BY PickedType
  <2> QED
    BY <2>1, ConcatAppend
<1> QED
  BY <1>1, <1>2, <1>4, <1>5

LEMMA PickedConcat ==
    ASSUME NEW W, NEW K, NEW s \in Seq(W), NEW t \in Seq(W)
    PROVE  Picked(s \o t, K) = Picked(s, K) \o Picked(t, K)
<1> DEFINE u(n) == SubSeq(t, 1, n)
           P(n) == n <= Len(t) => Picked(s \o u(n), K) = Picked(s, K) \o Picked(u(n), K)
           T == {n \in Nat : P(n)}
<1>1. P(0)
  <2>1. u(0) = <<>>
    OBVIOUS
  <2>2. s \o <<>> = s /\ Picked(s, K) \o <<>> = Picked(s, K)
    BY PickedType
  <2> QED
    BY <2>1, <2>2, PickedEmpty
<1>2. ASSUME NEW n \in Nat, P(n), n + 1 <= Len(t) PROVE Picked(s \o u(n + 1), K) = Picked(s, K) \o Picked(u(n + 1), K)
  <2> DEFINE p == SubSeq(t, 1, n)
             w == t[n + 1]
  <2>1. u(n + 1) = Append(p, w) /\ p \in Seq(W) /\ w \in W
    BY <1>2, OneMore
  <2>2. Picked(s \o p, K) = Picked(s, K) \o Picked(p, K)
    BY <1>2
  <2> HIDE DEF u, p, w
  <2>3. Picked(s \o Append(p, w), K) = Picked(s, K) \o Picked(Append(p, w), K)
    BY <2>1, <2>2, PickedConcatOne
  <2> QED
    BY <2>1, <2>3
<1>3. \A n \in Nat : P(n) => P(n + 1)
  BY <1>2
<1>4. P(Len(t))
  <2> HIDE DEF P
  <2>1. T \subseteq Nat /\ 0 \in T /\ \A n \in T : n + 1 \in T
    BY <1>1, <1>3
  <2>2. T = Nat
    <3> HIDE DEF T
    <3> QED
      BY <2>1, NatSetInduction
  <2> QED
    BY <2>2
<1>5. u(Len(t)) = t /\ Len(t) \in Nat
  OBVIOUS
<1>6. Picked(s \o u(Len(t)), K) = Picked(s, K) \o Picked(u(Len(t)), K)
  BY <1>4, <1>5
<1> HIDE DEF u
<1> QED
  BY <1>5, <1>6

LEMMA PickedNone ==
    ASSUME NEW W, NEW K, NEW s \in Seq(W), \A i \in 1..Len(s) : s[i] \notin K
    PROVE  Picked(s, K) = <<>>
<1>9. PICK f \in [0..Len(s) -> Seq(W)] : Picks(f, s, K)
  BY PickedUpTo
<1>1. /\ f[0] = <<>> /\ Picked(s, K) = f[Len(s)]
      /\ \A n \in 1..Len(s) : f[n] = IF s[n] \in K THEN Append(f[n - 1], s[n]) ELSE f[n - 1]
  BY <1>9 DEF Picks
<1> DEFINE P(n) == n <= Len(s) => f[n] = <<>>
           T == {n \in Nat : P(n)}
<1>2. Len(s) \in Nat
  OBVIOUS
<1>3. \A n \in T : n + 1 \in T
  <2> SUFFICES ASSUME NEW n \in Nat, P(n), n + 1 <= Len(s) PROVE f[n + 1] = <<>>
    BY DEF T
  <2>1. n <= Len(s) /\ n + 1 \in 1..Len(s) /\ (n + 1) - 1 = n
    BY <1>2
  <2>2. f[n] = <<>>
    BY <2>1
  <2>3. f[n + 1] = f[n]
    BY <1>1, <2>1
  <2> QED
    BY <2>2, <2>3
<1>4. 0 \in T
  BY <1>1
<1>5. T \subseteq Nat
  OBVIOUS
<1> HIDE DEF T
<1>6. T = Nat
  BY <1>3, <1>4, <1>5, NatSetInduction
<1>7. Len(s) \in T
  BY <1>2, <1>6
<1>8. P(Len(s))
  BY <1>7 DEF T
<1> QED
  BY <1>1, <1>2, <1>8

GameSet == {"FRAME", "INPUT"} \X Nat

LEMMA GameSetIs == \A w \in Words : w \in GameSet <=> IsGame(w)
BY DEF Words, GameSet, IsGame

LEMMA GameWordsEmpty == GameWords(<<>>) = <<>>
BY PickedEmpty DEF GameWords

LEMMA GameWordsType ==
    ASSUME NEW s \in Seq(Words)
    PROVE  GameWords(s) \in Seq(Words)
BY PickedType DEF GameWords

LEMMA GameWordsAppend ==
    ASSUME NEW s \in Seq(Words), NEW w \in Words
    PROVE  GameWords(Append(s, w)) = IF IsGame(w) THEN Append(GameWords(s), w) ELSE GameWords(s)
BY PickedAppend, GameSetIs DEF GameWords, GameSet

LEMMA GameWordsConcat ==
    ASSUME NEW s \in Seq(Words), NEW t \in Seq(Words)
    PROVE  GameWords(s \o t) = GameWords(s) \o GameWords(t)
BY PickedConcat DEF GameWords

(* What the recursive function of FlattenSeq computes, likewise. *)
LEMMA FlattenUpTo ==
    ASSUME NEW b \in Seq(Seq(Words)), b # <<>>
    PROVE  \E f \in [1..Len(b) -> Seq(Words)] :
              /\ f[1] = b[1]
              /\ \A n \in 2..Len(b) : f[n] = f[n - 1] \o b[n]
              /\ FlattenSeq(b) = f[Len(b)]
<1> DEFINE N == Len(b)
           M == Seq(Words)
           Is(f, m) == /\ f \in [1..m -> M]
                       /\ f[1] = b[1]
                       /\ \A n \in 2..m : f[n] = f[n - 1] \o b[n]
           Has(m) == m + 1 <= N => \E f : Is(f, m + 1)
           S == {m \in Nat : Has(m)}
           B(g) == [i \in 1..N |-> IF i = 1 THEN b[i] ELSE g[i - 1] \o b[i]]
           G == CHOOSE g : g = B(g)
<1>1. N \in Nat \ {0} /\ \A n \in 1..N : b[n] \in M
  BY EmptySeq
<1>2. 0 \in S
  <2> DEFINE f == [n \in 1..1 |-> b[1]]
  <2>1. f \in [1..1 -> M] /\ f[1] = b[1]
    BY <1>1
  <2> HIDE DEF f
  <2>2. Is(f, 0 + 1)
    BY <2>1
  <2> QED
    BY <2>2
<1>3. ASSUME NEW k \in Nat, Has(k), (k + 1) + 1 <= N PROVE \E g : Is(g, (k + 1) + 1)
  <2> HIDE DEF N
  <2> DEFINE m == k + 1
  <2>1. m \in Nat /\ m >= 1 /\ m + 1 \in 1..N /\ m <= N
    BY <1>1, <1>3
  <2>2. PICK f : Is(f, m)
    BY <2>1, <1>3
  <2> HIDE DEF m
  <2> DEFINE e == f[m] \o b[m + 1]
             g == [n \in 1..(m + 1) |-> IF n <= m THEN f[n] ELSE e]
  <2>3. f[m] \in M /\ b[m + 1] \in M
    <3>1. f \in [1..m -> M] /\ m \in 1..m
      BY <2>1, <2>2
    <3>2. f[m] \in M
      BY <3>1
    <3> QED
      BY <3>2, <2>1, <1>1
  <2>4. e \in M
    BY <2>3
  <2> HIDE DEF e
  <2>5. g \in [1..(m + 1) -> M]
    BY <2>1, <2>2, <2>4
  <2>6. g[1] = b[1]
    BY <2>1, <2>2
  <2>7. \A n \in 2..(m + 1) : g[n] = g[n - 1] \o b[n]
    <3> TAKE n \in 2..(m + 1)
    <3>1. CASE n <= m
      <4>1. g[n] = f[n] /\ g[n - 1] = f[n - 1] /\ n \in 2..m
        BY <3>1, <2>1
      <4> HIDE DEF g
      <4> QED
        BY <2>2, <4>1
    <3>2. CASE ~(n <= m)
      <4>1. n = m + 1 /\ n - 1 = m
        BY <3>2, <2>1
      <4>2. g[n] = e /\ g[n - 1] = f[m]
        BY <4>1, <2>1
      <4> HIDE DEF g
      <4> QED
        BY <4>1, <4>2 DEF e
    <3> QED
      BY <3>1, <3>2
  <2> HIDE DEF g
  <2>8. Is(g, m + 1)
    BY <2>5, <2>6, <2>7
  <2> QED
    BY <2>8 DEF m
<1>4. Has(N - 1)
  <2>1. \A m \in S : m + 1 \in S
    <3>1. \A m \in Nat : Has(m) => Has(m + 1)
      <4> SUFFICES ASSUME NEW m \in Nat, Has(m), (m + 1) + 1 <= N PROVE \E g : Is(g, (m + 1) + 1)
        OBVIOUS
      <4> QED
        BY <1>3
    <3> HIDE DEF Has
    <3> QED
      BY <3>1
  <2>2. S = Nat
    <3>1. S \subseteq Nat
      OBVIOUS
    <3> HIDE DEF S
    <3> QED
      BY <1>2, <2>1, <3>1, NatSetInduction
  <2>3. N - 1 \in Nat
    BY <1>1
  <2> HIDE DEF Has, N
  <2> QED
    BY <2>2, <2>3
<1>5. PICK f : Is(f, N)
  <2>1. (N - 1) + 1 = N /\ N <= N
    BY <1>1
  <2> HIDE DEF N, Is
  <2>2. \E f : Is(f, (N - 1) + 1)
    BY <1>4, <2>1
  <2> QED
    BY <2>1, <2>2
<1>6. f = B(f)
  <2>1. \A n \in 1..N : f[n] = B(f)[n]
    <3> TAKE n \in 1..N
    <3>1. CASE n = 1
      BY <3>1, <1>5
    <3>2. CASE n # 1
      <4>1. n \in 2..N
        BY <3>2, <1>1
      <4> QED
        BY <4>1, <1>5, <3>2
    <3> QED
      BY <3>1, <3>2
  <2> QED
    BY <2>1, <1>5
<1>7. G = B(G)
  <2> HIDE DEF B, Is
  <2> QED
    BY <1>6
<1>8. \A n \in 1..N : G[n] = IF n = 1 THEN b[n] ELSE G[n - 1] \o b[n]
  <2> TAKE n \in 1..N
  <2>1. B(G)[n] = IF n = 1 THEN b[n] ELSE G[n - 1] \o b[n]
    <3> HIDE DEF G
    <3> QED
      OBVIOUS
  <2> HIDE DEF B, G, Is
  <2> QED
    BY <1>7, <2>1
<1>9. FlattenSeq(b) = G[N]
  BY <1>1 DEF FlattenSeq, N
<1> HIDE DEF G, B, N
<1>10. G[N] = f[N]
  <2> DEFINE T == {n \in Nat : n + 1 <= N => G[n + 1] = f[n + 1]}
  <2>1. 0 \in T
    BY <1>1, <1>5, <1>8
  <2>2. ASSUME NEW n \in T PROVE n + 1 \in T
    <3> SUFFICES ASSUME (n + 1) + 1 <= N PROVE G[(n + 1) + 1] = f[(n + 1) + 1]
      OBVIOUS
    <3> DEFINE k == (n + 1) + 1
    <3>1. n \in Nat /\ k \in 2..N /\ k \in 1..N /\ k # 1 /\ k - 1 = n + 1 /\ G[n + 1] = f[n + 1]
      BY <1>1
    <3> HIDE DEF k
    <3>2. G[k] = G[n + 1] \o b[k]
      BY <3>1, <1>8
    <3>3. f[k] = f[n + 1] \o b[k]
      BY <3>1, <1>5
    <3>4. G[k] = f[k]
      BY <3>1, <3>2, <3>3
    <3> QED
      BY <3>4 DEF k
  <2>3. T = Nat
    <3>1. T \subseteq Nat
      OBVIOUS
    <3> HIDE DEF T
    <3> QED
      BY <2>1, <2>2, <3>1, NatSetInduction
  <2>4. N - 1 \in Nat /\ (N - 1) + 1 = N
    BY <1>1
  <2>5. N - 1 \in T
    <3> HIDE DEF T
    <3> QED
      BY <2>3, <2>4
  <2> QED
    BY <2>4, <2>5, <1>1
<1> QED
  BY <1>5, <1>9, <1>10 DEF N

LEMMA FlattenEmpty == FlattenSeq(<<>>) = <<>>
BY DEF FlattenSeq

LEMMA Associative ==
    ASSUME NEW x \in Seq(Words), NEW y \in Seq(Words), NEW z \in Seq(Words)
    PROVE  (x \o y) \o z = x \o (y \o z)
BY ConcatAssociative

LEMMA FlattenType ==
    ASSUME NEW b \in Seq(Seq(Words))
    PROVE  FlattenSeq(b) \in Seq(Words)
<1>1. CASE b = <<>>
  BY <1>1, FlattenEmpty, EmptySeq
<1>2. CASE b # <<>>
  <2>1. Len(b) \in 1..Len(b)
    BY <1>2
  <2> QED
    BY <1>2, <2>1, FlattenUpTo
<1> QED
  BY <1>1, <1>2

LEMMA FlattenOne ==
    ASSUME NEW x \in Seq(Words)
    PROVE  FlattenSeq(<<x>>) = x
<1>1. <<x>> \in Seq(Seq(Words)) /\ <<x>> # <<>> /\ Len(<<x>>) = 1 /\ <<x>>[1] = x
  BY OneElement
<1> QED
  BY <1>1, FlattenUpTo

LEMMA FlattenAppend ==
    ASSUME NEW b \in Seq(Seq(Words)), NEW x \in Seq(Words)
    PROVE  FlattenSeq(Append(b, x)) = FlattenSeq(b) \o x
<1>1. CASE b = <<>>
  <2>1. Append(b, x) = <<x>>
    BY <1>1
  <2>2. <<>> \o x = x
    OBVIOUS
  <2> QED
    BY <1>1, <2>1, <2>2, FlattenOne, FlattenEmpty
<1>2. CASE b # <<>>
  <2> DEFINE N == Len(b)
             t == Append(b, x)
  <2>1. /\ N \in Nat \ {0} /\ t \in Seq(Seq(Words)) /\ t # <<>> /\ Len(t) = N + 1
        /\ t[N + 1] = x /\ \A n \in 1..N : t[n] = b[n]
    <3>1. N \in Nat \ {0}
      BY <1>2
    <3>2. t \in Seq(Seq(Words)) /\ Len(t) = N + 1
      OBVIOUS
    <3>3. t[N + 1] = x /\ \A n \in 1..N : t[n] = b[n]
      OBVIOUS
    <3> HIDE DEF t
    <3>4. t # <<>>
      BY <3>1, <3>2
    <3> QED
      BY <3>1, <3>2, <3>3, <3>4
  <2>2. PICK f \in [1..N -> Seq(Words)] :
           /\ f[1] = b[1]
           /\ \A n \in 2..N : f[n] = f[n - 1] \o b[n]
           /\ FlattenSeq(b) = f[N]
    BY <1>2, FlattenUpTo
  <2> HIDE DEF t
  <2>3. PICK g \in [1..(N + 1) -> Seq(Words)] :
           /\ g[1] = t[1]
           /\ \A n \in 2..(N + 1) : g[n] = g[n - 1] \o t[n]
           /\ FlattenSeq(t) = g[N + 1]
    <3>1. \E g \in [1..Len(t) -> Seq(Words)] :
           /\ g[1] = t[1]
           /\ \A n \in 2..Len(t) : g[n] = g[n - 1] \o t[n]
           /\ FlattenSeq(t) = g[Len(t)]
      BY <2>1, FlattenUpTo
    <3> QED
      BY <3>1, <2>1
  <2> HIDE DEF N
  <2>4. g[N] = f[N]
    <3> DEFINE P(n) == n + 1 <= N => g[n + 1] = f[n + 1]
               T == {n \in Nat : P(n)}
    <3>1. P(0)
      BY <2>1, <2>2, <2>3
    <3>2. ASSUME NEW n \in Nat, P(n), (n + 1) + 1 <= N PROVE g[(n + 1) + 1] = f[(n + 1) + 1]
      <4> DEFINE k == (n + 1) + 1
      <4>1. k \in 2..N /\ k \in 2..(N + 1) /\ k \in 1..N /\ k - 1 = n + 1 /\ g[n + 1] = f[n + 1]
        BY <2>1, <3>2
      <4> HIDE DEF k
      <4>2. g[k] = g[n + 1] \o t[k] /\ f[k] = f[n + 1] \o b[k] /\ t[k] = b[k]
        BY <4>1, <2>1, <2>2, <2>3
      <4>3. g[k] = f[k]
        BY <4>1, <4>2
      <4> QED
        BY <4>3 DEF k
    <3>3. \A n \in Nat : P(n) => P(n + 1)
      BY <3>2
    <3>4. P(N - 1)
      <4>1. N - 1 \in Nat
        BY <2>1
      <4> HIDE DEF P
      <4>2. T \subseteq Nat /\ 0 \in T /\ \A n \in T : n + 1 \in T
        BY <3>1, <3>3
      <4>3. T = Nat
        <5> HIDE DEF T
        <5> QED
          BY <4>2, NatSetInduction
      <4> QED
        BY <4>1, <4>3
    <3>5. (N - 1) + 1 = N
      BY <2>1
    <3> QED
      BY <3>4, <3>5, <2>1
  <2>5. N + 1 \in 2..(N + 1) /\ (N + 1) - 1 = N
    BY <2>1
  <2>6. g[N + 1] = g[N] \o x
    BY <2>1, <2>3, <2>5
  <2> QED
    BY <2>2, <2>3, <2>4, <2>6 DEF t
<1> QED
  BY <1>1, <1>2

LEMMA FlattenHeadTail ==
    ASSUME NEW b \in Seq(Seq(Words)), b # <<>>
    PROVE  FlattenSeq(b) = Head(b) \o FlattenSeq(Tail(b))
<1> DEFINE S == Seq(Words)
           p(n) == SubSeq(b, 1, n + 1)
           q(n) == SubSeq(Tail(b), 1, n)
           P(n) == n + 1 <= Len(b) => FlattenSeq(p(n)) = Head(b) \o FlattenSeq(q(n))
           T == {n \in Nat : P(n)}
<1>1. /\ Len(b) \in Nat \ {0} /\ Tail(b) \in Seq(S) /\ Len(Tail(b)) = Len(b) - 1
      /\ Head(b) = b[1] /\ Head(b) \in S /\ \A i \in 1..(Len(b) - 1) : Tail(b)[i] = b[i + 1]
  OBVIOUS
<1>2. P(0)
  <2>1. p(0) = <<Head(b)>> /\ q(0) = <<>>
    <3>1. p(0) \in Seq(S) /\ Len(p(0)) = 1 /\ p(0)[1] = Head(b)
      BY <1>1
    <3>2. q(0) = <<>>
      BY <1>1
    <3>3. <<Head(b)>> \in Seq(S) /\ Len(<<Head(b)>>) = 1 /\ <<Head(b)>>[1] = Head(b)
      BY <1>1
    <3> HIDE DEF p, q
    <3> QED
      BY <3>1, <3>2, <3>3, SeqEqual
  <2>2. Head(b) \o <<>> = Head(b)
    BY <1>1
  <2> QED
    BY <1>1, <2>1, <2>2, FlattenOne, FlattenEmpty
<1>3. ASSUME NEW n \in Nat, P(n), (n + 1) + 1 <= Len(b) PROVE FlattenSeq(p(n + 1)) = Head(b) \o FlattenSeq(q(n + 1))
  <2> DEFINE x == b[(n + 1) + 1]
             pn == SubSeq(b, 1, n + 1)
             qn == SubSeq(Tail(b), 1, n)
  <2>1. p(n + 1) = Append(pn, x) /\ pn \in Seq(S) /\ x \in S
    BY <1>1, <1>3, OneMore
  <2>2. Tail(b)[n + 1] = x
    BY <1>1, <1>3
  <2>3. q(n + 1) = Append(qn, x) /\ qn \in Seq(S)
    <3>1. n + 1 <= Len(Tail(b))
      BY <1>1, <1>3
    <3>2. SubSeq(Tail(b), 1, n + 1) = Append(SubSeq(Tail(b), 1, n), Tail(b)[n + 1]) /\ SubSeq(Tail(b), 1, n) \in Seq(S)
      <4> HIDE DEF S
      <4> QED
        BY <1>1, <3>1, OneMore
    <3> QED
      BY <2>2, <3>2
  <2>4. FlattenSeq(pn) = Head(b) \o FlattenSeq(qn)
    <3>1. n + 1 <= Len(b)
      BY <1>1, <1>3
    <3>2. FlattenSeq(p(n)) = Head(b) \o FlattenSeq(q(n))
      BY <1>3, <3>1
    <3> QED
      BY <3>2
  <2> HIDE DEF p, q, pn, qn, x
  <2>5. FlattenSeq(Append(pn, x)) = FlattenSeq(pn) \o x /\ FlattenSeq(Append(qn, x)) = FlattenSeq(qn) \o x
    BY <2>1, <2>3, FlattenAppend
  <2>6. (Head(b) \o FlattenSeq(qn)) \o x = Head(b) \o (FlattenSeq(qn) \o x)
    <3>1. FlattenSeq(qn) \in S
      BY <2>3, FlattenType
    <3>2. Head(b) \in Seq(Words) /\ x \in Seq(Words) /\ FlattenSeq(qn) \in Seq(Words)
      BY <1>1, <2>1, <3>1
    <3> QED
      BY <3>2, Associative
  <2> QED
    BY <2>1, <2>3, <2>4, <2>5, <2>6
<1>4. \A n \in Nat : P(n) => P(n + 1)
  BY <1>3
<1>5. P(Len(b) - 1)
  <2>1. Len(b) - 1 \in Nat
    BY <1>1
  <2> HIDE DEF P
  <2>2. T \subseteq Nat /\ 0 \in T /\ \A n \in T : n + 1 \in T
    BY <1>2, <1>4
  <2>3. T = Nat
    <3> HIDE DEF T
    <3> QED
      BY <2>2, NatSetInduction
  <2> QED
    BY <2>1, <2>3
<1>6. (Len(b) - 1) + 1 = Len(b)
  BY <1>1
<1>7. p(Len(b) - 1) = b
  <2>1. p(Len(b) - 1) = SubSeq(b, 1, Len(b))
    BY <1>6
  <2> QED
    BY <2>1
<1>8. q(Len(b) - 1) = Tail(b)
  <2>1. SubSeq(Tail(b), 1, Len(Tail(b))) = Tail(b)
    BY <1>1
  <2> QED
    BY <1>1, <2>1
<1>9. FlattenSeq(p(Len(b) - 1)) = Head(b) \o FlattenSeq(q(Len(b) - 1))
  <2>1. (Len(b) - 1) + 1 <= Len(b)
    BY <1>1, <1>6
  <2> HIDE DEF p, q
  <2> QED
    BY <1>5, <2>1
<1> HIDE DEF p, q
<1> QED
  BY <1>7, <1>8, <1>9

-----------------------------------------------------------------------------
(* The inductive invariant, in the parts its proof deals with one by one.  *)

(***************************************************************************)
(* A connection that was given a slot has it still or has its channel      *)
(* closed; its handler is past joining.                                    *)
(***************************************************************************)
Joined(c) == c \in closed \/ \E s \in Slots : players[s] = c

SeatInv ==
    /\ \A s, t \in Present : players[s] = players[t] => s = t
    /\ \A s \in Present : players[s] \notin closed /\ players[s] \in writing
    /\ \A c \in Conns : Joined(c) => handler[c] \in {"accepted", "reading", "ended"}
    /\ \A c \in writing : Joined(c)

(***************************************************************************)
(* Connections and what readers have posted: a connection posts one join,  *)
(* of its own version, and waits for the reply to it; only a connection    *)
(* that is lost or closed is posted as gone.                               *)
(***************************************************************************)
JoinPosted(e) ==
    /\ e[1] = "JOIN"
    /\ phase = "loop"

EventInv ==
    /\ \A i \in DOMAIN events : JoinPosted(events[i]) =>
        /\ handler[events[i][2]] = "joining"
        /\ events[i][3] = VersionOf[events[i][2]]
    /\ \A i, j \in DOMAIN events :
        JoinPosted(events[i]) /\ JoinPosted(events[j]) /\ events[i][2] = events[j][2] => i = j
    /\ \A i \in DOMAIN events : events[i][1] = "GONE" => events[i][2] \in quit \cup closed

OpenInv ==
    /\ \A c \in Conns : handler[c] = "idle" => c \notin open \cup quit
    /\ \A c \in Conns : handler[c] = "joining" => c \in open \cup quit
    /\ \A c \in Conns : handler[c] \in {"accepted", "reading"} => c \in open \cup quit \cup closed
    /\ \A c \in Conns : c \in writing => c \in open \cup quit
    /\ \A c \in Conns : c \notin open \cap quit

(***************************************************************************)
(* The loops the goroutine is in: frame and input words are queued or      *)
(* flushed, never sent as pings or last words, and one at a time; the last *)
(* words name the reason g.stop has, and are on their way to every player  *)
(* that is left once the loop of Run has ended.                            *)
(***************************************************************************)
LoopInv(l) ==
    /\ l.how \in {"ping", "last", "check"} => ~IsGame(l.word)
    /\ l.how = "check" => phase = "loop"
    /\ l.how = "last" => phase = "draining" /\ l.word = <<"ERROR", stop>>

WorkInv ==
    /\ phase # "loop" => stop # "none"
    /\ phase = "done" => work = <<>>
    /\ \A l \in Range(work) : LoopInv(l)
    /\ phase # "loop" => \A s \in Present : \E l \in Range(work) : l.how = "last" /\ s \in l.todo

OneGame(stack) ==
    \A i, j \in DOMAIN stack : IsGame(stack[i].word) /\ IsGame(stack[j].word) => i = j

(***************************************************************************)
(* A connection closed for no fault of its own has its last word, or will  *)
(* have it: its writer ends only once it has nothing left to write.        *)
(***************************************************************************)
LastWord(w) == w = <<"ERROR", stop>>

Told(c) ==
    \/ \E i \in DOMAIN got[c] : LastWord(got[c][i])
    \/ \E j \in DOMAIN out[c] : \E i \in DOMAIN out[c][j] : LastWord(out[c][j][i])

TellInv ==
    /\ \A c \in closed : c \in quit \cup overrun \/ (phase # "loop" /\ Told(c))
    /\ \A c \in closed : c \in writing \/ out[c] = <<>>
    /\ \A c \in Conns : got[c] # <<>> \/ out[c] # <<>> => Joined(c)

(* The version of the game is the one of all its players. *)
VersionInv == \A s \in Present : VersionOf[players[s]] = version

(***************************************************************************)
(* The stream each player is sent. Debt is the word, if any, that was      *)
(* relayed already and that the loops have still to queue for it.          *)
(***************************************************************************)
Debt(stack, s) == {l.word : l \in {m \in Range(stack) : IsGame(m.word) /\ s \in m.todo}}
Line(c) == GameWords(got[c]) \o GameWords(FlattenSeq(out[c]))
SoFar(s) == Line(players[s]) \o GameWords(pending[s])

Kept(s) ==
    /\ \A w \in Debt(work, s) : relayed = Append(SoFar(s), w)
    /\ Debt(work, s) = {} => relayed = SoFar(s)

StreamInv ==
    /\ ~started => relayed = <<>>
    /\ OneGame(work)
    /\ \A c \in Conns : IsPrefix(GameWords(got[c]), relayed)
    /\ \A c \in Conns : c \in quit \/ IsPrefix(Line(c), relayed)
    /\ \A s \in Present : players[s] \in quit \/ Kept(s)

LEMMA RestAt ==
    ASSUME TypeOK, NEW s \in Slots, Serving(s)
    PROVE  \E d \in {0, 1} :
             /\ Len(Rest(s)) = Len(work) - d
             /\ d = 1 => work[1].todo = {s}
             /\ \A i \in 1..Len(Rest(s)) :
                  /\ i + d \in 1..Len(work)
                  /\ Rest(s)[i].word = work[i + d].word
                  /\ Rest(s)[i].how = work[i + d].how
                  /\ Rest(s)[i].todo = IF i + d = 1 THEN work[1].todo \ {s} ELSE work[i + d].todo
<1>1. /\ work \in Seq(Loops) /\ work # <<>> /\ Len(work) \in Nat \ {0}
      /\ Head(work) = work[1] /\ Head(work) \in Loops
  BY HeadLoop
<1>2. /\ Tail(work) \in Seq(Loops) /\ Len(Tail(work)) = Len(work) - 1
      /\ \A i \in 1..(Len(work) - 1) : Tail(work)[i] = work[i + 1]
  BY <1>1
<1>3. CASE Head(work).todo = {s}
  <2>1. Rest(s) = Tail(work)
    BY <1>3 DEF Rest
  <2> WITNESS 1 \in {0, 1}
  <2> QED
    BY <1>1, <1>2, <1>3, <2>1
<1>4. CASE Head(work).todo # {s}
  <2> DEFINE l == [Head(work) EXCEPT !.todo = @ \ {s}]
  <2>1. Rest(s) = <<l>> \o Tail(work)
    BY <1>4 DEF Rest
  <2>2. l.word = work[1].word /\ l.how = work[1].how /\ l.todo = work[1].todo \ {s}
    BY <1>1 DEF Loops, Sends, CheckEntry
  <2> HIDE DEF l
  <2>3. /\ Len(Rest(s)) = Len(work) /\ Rest(s)[1] = l
        /\ \A i \in 2..Len(work) : Rest(s)[i] = work[i]
    <3>1. Len(<<l>>) = 1 /\ <<l>>[1] = l
      OBVIOUS
    <3>2. Len(Rest(s)) = 1 + (Len(work) - 1)
      BY <2>1, <1>2, <3>1
    <3>3. Rest(s)[1] = l
      BY <2>1, <1>2, <3>1
    <3>4. ASSUME NEW i \in 2..Len(work) PROVE Rest(s)[i] = work[i]
      <4>1. i - 1 \in 1..(Len(work) - 1) /\ (i - 1) + 1 = i
        BY <1>1
      <4>2. (<<l>> \o Tail(work))[i] = Tail(work)[i - 1]
        BY <1>1, <1>2, <3>1
      <4> QED
        BY <1>2, <2>1, <4>1, <4>2
    <3> QED
      BY <1>1, <3>2, <3>3, <3>4
  <2> WITNESS 0 \in {0, 1}
  <2>4. ASSUME NEW i \in 1..Len(Rest(s))
        PROVE  /\ i + 0 \in 1..Len(work)
               /\ Rest(s)[i].word = work[i + 0].word
               /\ Rest(s)[i].how = work[i + 0].how
               /\ Rest(s)[i].todo = IF i + 0 = 1 THEN work[1].todo \ {s} ELSE work[i + 0].todo
    <3>1. i + 0 = i /\ i \in 1..Len(work)
      BY <1>1, <2>3
    <3>2. CASE i = 1
      BY <2>2, <2>3, <3>1, <3>2
    <3>3. CASE i # 1
      <4>1. i \in 2..Len(work)
        BY <3>1, <3>3, <1>1
      <4>2. Rest(s)[i] = work[i]
        BY <2>3, <4>1
      <4> QED
        BY <3>1, <3>3, <4>2
    <3> QED
      BY <3>2, <3>3
  <2>5. \A i \in 1..Len(Rest(s)) :
               /\ i + 0 \in 1..Len(work)
               /\ Rest(s)[i].word = work[i + 0].word
               /\ Rest(s)[i].how = work[i + 0].how
               /\ Rest(s)[i].todo = IF i + 0 = 1 THEN work[1].todo \ {s} ELSE work[i + 0].todo
    BY <2>4
  <2>6. Len(Rest(s)) = Len(work) - 0 /\ 0 # 1
    BY <1>1, <2>3
  <2> QED
    BY <2>5, <2>6
<1> QED
  BY <1>3, <1>4

LEMMA RangeAt ==
    ASSUME NEW st \in Seq(Loops)
    PROVE  /\ \A i \in 1..Len(st) : st[i] \in Range(st) /\ st[i] \in Loops
           /\ \A l \in Range(st) : l \in Loops /\ \E i \in 1..Len(st) : l = st[i]
           /\ DOMAIN st = 1..Len(st) /\ Len(st) \in Nat
BY DEF Range

LEMMA RestRange ==
    ASSUME TypeOK, NEW s \in Slots, Serving(s)
    PROVE  /\ \A l \in Range(Rest(s)) : \E m \in Range(work) :
                l.word = m.word /\ l.how = m.how /\ l.todo \subseteq m.todo
           /\ \A m \in Range(work) : \A t \in m.todo : t # s \/ m # Head(work) => \E l \in Range(Rest(s)) :
                l.word = m.word /\ l.how = m.how /\ t \in l.todo
<1>1. work \in Seq(Loops) /\ Rest(s) \in Seq(Loops) /\ Head(work) = work[1]
  BY HeadLoop, RestLoops
<1>2. PICK d \in {0, 1} :
             /\ Len(Rest(s)) = Len(work) - d
             /\ d = 1 => work[1].todo = {s}
             /\ \A i \in 1..Len(Rest(s)) :
                  /\ i + d \in 1..Len(work)
                  /\ Rest(s)[i].word = work[i + d].word
                  /\ Rest(s)[i].how = work[i + d].how
                  /\ Rest(s)[i].todo = IF i + d = 1 THEN work[1].todo \ {s} ELSE work[i + d].todo
  BY RestAt
<1>3. ASSUME NEW l \in Range(Rest(s))
      PROVE  \E m \in Range(work) : l.word = m.word /\ l.how = m.how /\ l.todo \subseteq m.todo
  <2>1. PICK i \in 1..Len(Rest(s)) : l = Rest(s)[i]
    BY <1>1, RangeAt
  <2>2. i + d \in 1..Len(work) /\ work[i + d] \in Range(work)
    BY <1>1, <1>2, RangeAt
  <2>3. l.word = work[i + d].word /\ l.how = work[i + d].how /\ l.todo \subseteq work[i + d].todo
    BY <1>2, <2>1
  <2> QED
    BY <2>2, <2>3
<1>4. ASSUME NEW m \in Range(work), NEW t \in m.todo, t # s \/ m # Head(work)
      PROVE  \E l \in Range(Rest(s)) : l.word = m.word /\ l.how = m.how /\ t \in l.todo
  <2>1. PICK k \in 1..Len(work) : m = work[k]
    BY <1>1, RangeAt
  <2>2. k - d \in 1..Len(Rest(s)) /\ (k - d) + d = k
    <3>1. d = 1 => k # 1
      BY <1>1, <1>2, <1>4, <2>1
    <3>2. Len(work) \in Nat
      BY <1>1
    <3> QED
      BY <1>2, <3>1, <3>2
  <2> DEFINE l == Rest(s)[k - d]
  <2>3. l.word = m.word /\ l.how = m.how /\ t \in l.todo
    <3>1. /\ l.word = work[(k - d) + d].word /\ l.how = work[(k - d) + d].how
          /\ l.todo = IF (k - d) + d = 1 THEN work[1].todo \ {s} ELSE work[(k - d) + d].todo
      BY <1>2, <2>2
    <3> HIDE DEF l
    <3> QED
      BY <1>1, <1>4, <2>1, <2>2, <3>1
  <2>4. l \in Range(Rest(s))
    BY <1>1, <2>2, RangeAt
  <2> HIDE DEF l
  <2> QED
    BY <2>3, <2>4
<1> QED
  BY <1>3, <1>4

LEMMA RestOneGame ==
    ASSUME TypeOK, NEW s \in Slots, Serving(s), OneGame(work)
    PROVE  /\ OneGame(Rest(s))
           /\ IsGame(Head(work).word) => Debt(work, s) = {Head(work).word} /\ Debt(Rest(s), s) = {}
           /\ ~IsGame(Head(work).word) => Debt(Rest(s), s) = Debt(work, s)
           /\ \A t \in Slots \ {s} : Debt(Rest(s), t) = Debt(work, t)
<1>1. /\ work \in Seq(Loops) /\ Rest(s) \in Seq(Loops) /\ Head(work) = work[1]
      /\ s \in Head(work).todo /\ Len(work) \in Nat \ {0}
  BY HeadLoop, RestLoops
<1>2. PICK d \in {0, 1} :
             /\ Len(Rest(s)) = Len(work) - d
             /\ d = 1 => work[1].todo = {s}
             /\ \A i \in 1..Len(Rest(s)) :
                  /\ i + d \in 1..Len(work)
                  /\ Rest(s)[i].word = work[i + d].word
                  /\ Rest(s)[i].how = work[i + d].how
                  /\ Rest(s)[i].todo = IF i + d = 1 THEN work[1].todo \ {s} ELSE work[i + d].todo
  BY RestAt
<1>3. DOMAIN work = 1..Len(work) /\ DOMAIN Rest(s) = 1..Len(Rest(s))
  BY <1>1
<1>4. \A i, j \in 1..Len(work) : IsGame(work[i].word) /\ IsGame(work[j].word) => i = j
  BY <1>3 DEF OneGame
<1>5. OneGame(Rest(s))
  <2> SUFFICES ASSUME NEW i \in 1..Len(Rest(s)), NEW j \in 1..Len(Rest(s)),
                      IsGame(Rest(s)[i].word), IsGame(Rest(s)[j].word)
               PROVE i = j
    BY <1>3 DEF OneGame
  <2>1. /\ i + d \in 1..Len(work) /\ IsGame(work[i + d].word)
        /\ j + d \in 1..Len(work) /\ IsGame(work[j + d].word)
    BY <1>2
  <2>2. i + d = j + d
    BY <1>4, <2>1
  <2> QED
    BY <2>2, <1>2
<1>6. ASSUME IsGame(Head(work).word)
      PROVE  Debt(work, s) = {Head(work).word} /\ Debt(Rest(s), s) = {}
  <2>1. \A l \in Range(work) : IsGame(l.word) => l = Head(work)
    <3> TAKE l \in Range(work)
    <3> HAVE IsGame(l.word)
    <3>1. PICK i \in 1..Len(work) : l = work[i]
      BY <1>1, RangeAt
    <3>2. 1 \in 1..Len(work)
      BY <1>1
    <3>3. i = 1
      BY <1>1, <1>4, <1>6, <3>1, <3>2
    <3> QED
      BY <1>1, <3>1, <3>3
  <2>2. Head(work) \in Range(work)
    <3>1. 1 \in 1..Len(work)
      BY <1>1
    <3> QED
      BY <1>1, <3>1, RangeAt
  <2>3. Debt(work, s) = {Head(work).word}
    BY <1>1, <1>6, <2>1, <2>2 DEF Debt
  <2>4. \A l \in Range(Rest(s)) : ~(IsGame(l.word) /\ s \in l.todo)
    <3> TAKE l \in Range(Rest(s))
    <3>1. PICK i \in 1..Len(Rest(s)) : l = Rest(s)[i]
      BY <1>1, RangeAt
    <3>2. CASE i + d = 1
      BY <1>2, <3>1, <3>2
    <3>3. CASE i + d # 1
      <4>1. i + d \in 1..Len(work) /\ 1 \in 1..Len(work) /\ l.word = work[i + d].word
        BY <1>1, <1>2, <3>1
      <4>2. ~IsGame(work[i + d].word)
        BY <1>1, <1>4, <1>6, <3>3, <4>1
      <4> QED
        BY <4>1, <4>2
    <3> QED
      BY <3>2, <3>3
  <2> QED
    BY <2>3, <2>4 DEF Debt
<1>7. /\ \A l \in Range(Rest(s)) : \E m \in Range(work) :
                l.word = m.word /\ l.how = m.how /\ l.todo \subseteq m.todo
      /\ \A m \in Range(work) : \A t \in m.todo : t # s \/ m # Head(work) => \E l \in Range(Rest(s)) :
                l.word = m.word /\ l.how = m.how /\ t \in l.todo
  BY RestRange
<1>8. \A t : Debt(Rest(s), t) \subseteq Debt(work, t)
  <2> SUFFICES ASSUME NEW t, NEW l \in Range(Rest(s)), IsGame(l.word), t \in l.todo
               PROVE  l.word \in Debt(work, t)
    BY DEF Debt
  <2>1. PICK m \in Range(work) : l.word = m.word /\ l.how = m.how /\ l.todo \subseteq m.todo
    BY <1>7
  <2> QED
    BY <2>1 DEF Debt
<1>9. ASSUME NEW t \in Slots \ {s} PROVE Debt(Rest(s), t) = Debt(work, t)
  <2> SUFFICES ASSUME NEW m \in Range(work), IsGame(m.word), t \in m.todo
               PROVE  m.word \in Debt(Rest(s), t)
    BY <1>8 DEF Debt
  <2>1. PICK l \in Range(Rest(s)) : l.word = m.word /\ l.how = m.how /\ t \in l.todo
    BY <1>7, <1>9
  <2> QED
    BY <2>1 DEF Debt
<1>10. ASSUME ~IsGame(Head(work).word) PROVE Debt(Rest(s), s) = Debt(work, s)
  <2> SUFFICES ASSUME NEW m \in Range(work), IsGame(m.word), s \in m.todo
               PROVE  m.word \in Debt(Rest(s), s)
    BY <1>8 DEF Debt
  <2>1. PICK l \in Range(Rest(s)) : l.word = m.word /\ l.how = m.how /\ s \in l.todo
    BY <1>7, <1>10
  <2> QED
    BY <2>1 DEF Debt
<1> QED
  BY <1>5, <1>6, <1>9, <1>10

Quiet(stack) == \A l \in Range(stack) : ~IsGame(l.word)

LEMMA ConcatRange ==
    ASSUME NEW a \in Seq(Loops), NEW b \in Seq(Loops)
    PROVE  /\ a \o b \in Seq(Loops)
           /\ Range(a \o b) = Range(a) \cup Range(b)
           /\ \A t : Debt(a \o b, t) = Debt(a, t) \cup Debt(b, t)
<1>1. a \o b \in Seq(Loops) /\ Range(a \o b) = Range(a) \cup Range(b)
  BY RangeConcatenation
<1> QED
  BY <1>1 DEF Debt

LEMMA QuietDebt ==
    ASSUME NEW a, Quiet(a)
    PROVE  \A t : Debt(a, t) = {}
BY DEF Quiet, Debt

LEMMA PushQuiet ==
    ASSUME NEW a \in Seq(Loops), NEW b \in Seq(Loops), Quiet(a)
    PROVE  /\ OneGame(b) => OneGame(a \o b) /\ OneGame(b \o a)
           /\ \A t : Debt(a \o b, t) = Debt(b, t) /\ Debt(b \o a, t) = Debt(b, t)
<1>1. /\ \A i \in 1..Len(a) : ~IsGame(a[i].word)
      /\ DOMAIN a = 1..Len(a) /\ DOMAIN b = 1..Len(b) /\ Len(a) \in Nat /\ Len(b) \in Nat
  BY RangeAt DEF Quiet
<1>2. \A c, d \in Seq(Loops) :
        /\ DOMAIN (c \o d) = 1..(Len(c) + Len(d))
        /\ \A i \in 1..(Len(c) + Len(d)) : (c \o d)[i] = IF i <= Len(c) THEN c[i] ELSE d[i - Len(c)]
  OBVIOUS
<1>3. ASSUME OneGame(b) PROVE OneGame(a \o b)
  <2> SUFFICES ASSUME NEW i \in 1..(Len(a) + Len(b)), NEW j \in 1..(Len(a) + Len(b)),
                      IsGame((a \o b)[i].word), IsGame((a \o b)[j].word)
               PROVE  i = j
    BY <1>2 DEF OneGame
  <2>1. ~(i <= Len(a)) /\ ~(j <= Len(a))
    <3>1. CASE i <= Len(a)
      <4>1. i \in 1..Len(a) /\ (a \o b)[i] = a[i]
        BY <3>1, <1>2
      <4> QED
        BY <4>1, <1>1
    <3>2. CASE j <= Len(a)
      <4>1. j \in 1..Len(a) /\ (a \o b)[j] = a[j]
        BY <3>2, <1>2
      <4> QED
        BY <4>1, <1>1
    <3> QED
      BY <3>1, <3>2
  <2>2. (a \o b)[i] = b[i - Len(a)] /\ (a \o b)[j] = b[j - Len(a)]
    BY <2>1, <1>2
  <2>3. i - Len(a) \in 1..Len(b) /\ j - Len(a) \in 1..Len(b)
    BY <2>1, <1>1
  <2>4. i - Len(a) = j - Len(a)
    BY <1>1, <1>3, <2>2, <2>3 DEF OneGame
  <2> QED
    BY <2>4, <1>1
<1>4. ASSUME OneGame(b) PROVE OneGame(b \o a)
  <2> SUFFICES ASSUME NEW i \in 1..(Len(b) + Len(a)), NEW j \in 1..(Len(b) + Len(a)),
                      IsGame((b \o a)[i].word), IsGame((b \o a)[j].word)
               PROVE  i = j
    BY <1>2 DEF OneGame
  <2>1. i <= Len(b) /\ j <= Len(b)
    <3>1. CASE ~(i <= Len(b))
      <4>1. i - Len(b) \in 1..Len(a) /\ (b \o a)[i] = a[i - Len(b)]
        BY <3>1, <1>1, <1>2
      <4> QED
        BY <4>1, <1>1
    <3>2. CASE ~(j <= Len(b))
      <4>1. j - Len(b) \in 1..Len(a) /\ (b \o a)[j] = a[j - Len(b)]
        BY <3>2, <1>1, <1>2
      <4> QED
        BY <4>1, <1>1
    <3> QED
      BY <3>1, <3>2
  <2>2. (b \o a)[i] = b[i] /\ (b \o a)[j] = b[j] /\ i \in 1..Len(b) /\ j \in 1..Len(b)
    BY <2>1, <1>1, <1>2
  <2> QED
    BY <1>1, <1>4, <2>2 DEF OneGame
<1>5. \A t : Debt(a, t) = {}
  BY QuietDebt
<1>6. \A t : Debt(a \o b, t) = Debt(a, t) \cup Debt(b, t)
  BY ConcatRange
<1>7. \A t : Debt(b \o a, t) = Debt(b, t) \cup Debt(a, t)
  BY ConcatRange
<1>8. \A t : Debt(a \o b, t) = Debt(b, t) /\ Debt(b \o a, t) = Debt(b, t)
  BY <1>5, <1>6, <1>7
<1> QED
  BY <1>3, <1>4, <1>8

LEMMA LoopRange ==
    ASSUME NEW w \in Words, NEW h \in {"auto", "flush", "ping", "last"}, NEW live \in SUBSET Slots
    PROVE  /\ Loop(w, h, live) \in Seq(Loops)
           /\ \A l \in Range(Loop(w, h, live)) : l = [word |-> w, how |-> h, todo |-> live]
           /\ \A s \in live : \E l \in Range(Loop(w, h, live)) : l = [word |-> w, how |-> h, todo |-> live]
           /\ OneGame(Loop(w, h, live))
           /\ \A s \in live : Debt(Loop(w, h, live), s) = IF IsGame(w) THEN {w} ELSE {}
           /\ ~IsGame(w) => Quiet(Loop(w, h, live))
<1> DEFINE e == [word |-> w, how |-> h, todo |-> live]
           st == Loop(w, h, live)
<1>1. st \in Seq(Loops)
  BY LoopType
<1>2. st = IF live = {} THEN <<>> ELSE <<e>>
  BY DEF Loop
<1>3. e.word = w /\ e.todo = live
  OBVIOUS
<1> HIDE DEF e, st
<1>4. Range(st) = IF live = {} THEN {} ELSE {e}
  <2>1. Range(<<>>) = {} /\ Range(<<e>>) = {e}
    BY DEF Range
  <2> QED
    BY <1>2, <2>1
<1>5. OneGame(st)
  <2>1. DOMAIN <<>> = {} /\ DOMAIN <<e>> = {1}
    OBVIOUS
  <2> QED
    BY <1>2, <2>1 DEF OneGame
<1>6. \A s \in live : Debt(st, s) = IF IsGame(w) THEN {w} ELSE {}
  BY <1>3, <1>4 DEF Debt
<1>7. ~IsGame(w) => Quiet(st)
  BY <1>3, <1>4 DEF Quiet
<1> QED
  BY <1>1, <1>4, <1>5, <1>6, <1>7 DEF e, st

LEMMA EmptyStack ==
    /\ Range(<<>>) = {} /\ OneGame(<<>>) /\ Quiet(<<>>) /\ <<>> \in Seq(Loops)
    /\ \A s : Debt(<<>>, s) = {}
<1>1. Range(<<>>) = {}
  BY DEF Range
<1>2. DOMAIN <<>> = {}
  OBVIOUS
<1>3. <<>> \in Seq(Loops)
  BY EmptySeq
<1> QED
  BY <1>1, <1>2, <1>3 DEF OneGame, Quiet, Debt

-----------------------------------------------------------------------------
(* Prefixes *)

LEMMA PrefixIs ==
    ASSUME NEW s \in Seq(Words), NEW t \in Seq(Words)
    PROVE  IsPrefix(s, t) <=> \E u \in Seq(Words) : t = s \o u
<1>1. ASSUME NEW u \in Seq(Words), t = s \o u PROVE IsPrefix(s, t)
  <2>1. Len(t) = Len(s) + Len(u) /\ Len(s) \in Nat /\ Len(u) \in Nat
    BY <1>1
  <2>2. SubSeq(s, 1, Len(s)) = s
    OBVIOUS
  <2>3. SubSeq(t, 1, Len(s)) = s
    <3>1. SubSeq(t, 1, Len(s)) \in Seq(Words) /\ Len(SubSeq(t, 1, Len(s))) = Len(s)
      BY <2>1
    <3>2. \A i \in 1..Len(s) : SubSeq(t, 1, Len(s))[i] = s[i]
      BY <1>1, <2>1
    <3> QED
      BY <3>1, <3>2, SeqEqual
  <2> QED
    BY <2>1, <2>2, <2>3 DEF IsPrefix
<1>2. ASSUME IsPrefix(s, t) PROVE \E u \in Seq(Words) : t = s \o u
  <2> DEFINE u == SubSeq(t, Len(s) + 1, Len(t))
  <2>1. Len(s) <= Len(t) /\ SubSeq(t, 1, Len(s)) = s
    BY <1>2 DEF IsPrefix
  <2>2. u \in Seq(Words) /\ Len(u) = Len(t) - Len(s) /\ \A i \in 1..(Len(t) - Len(s)) : u[i] = t[Len(s) + i]
    BY <2>1
  <2>3. \A i \in 1..Len(s) : s[i] = t[i]
    BY <2>1
  <2> HIDE DEF u
  <2>4. s \o u \in Seq(Words) /\ Len(s \o u) = Len(t)
    BY <2>1, <2>2
  <2>5. \A i \in 1..Len(t) : (s \o u)[i] = t[i]
    <3> TAKE i \in 1..Len(t)
    <3>1. CASE i <= Len(s)
      BY <3>1, <2>2, <2>3
    <3>2. CASE ~(i <= Len(s))
      <4>1. i - Len(s) \in 1..(Len(t) - Len(s)) /\ Len(s) + (i - Len(s)) = i
        BY <3>2, <2>1
      <4>2. (s \o u)[i] = u[i - Len(s)]
        BY <3>2, <2>1, <2>2
      <4>3. u[i - Len(s)] = t[Len(s) + (i - Len(s))]
        BY <2>2, <4>1
      <4> QED
        BY <4>1, <4>2, <4>3
    <3> QED
      BY <3>1, <3>2
  <2>6. t = s \o u
    BY <2>4, <2>5, SeqEqual
  <2> QED
    BY <2>2, <2>6
<1> QED
  BY <1>1, <1>2

LEMMA PrefixSelf ==
    ASSUME NEW s \in Seq(Words)
    PROVE  IsPrefix(s, s)
<1>1. s = s \o <<>> /\ <<>> \in Seq(Words)
  BY ConcatEmptySeq, EmptySeq
<1> QED
  BY <1>1, PrefixIs

LEMMA PrefixAppend ==
    ASSUME NEW s \in Seq(Words), NEW t \in Seq(Words), NEW w \in Words, IsPrefix(s, t)
    PROVE  IsPrefix(s, Append(t, w))
<1>1. PICK u \in Seq(Words) : t = s \o u
  BY PrefixIs
<1>2. Append(t, w) = s \o Append(u, w)
  <2>1. s \o Append(u, w) = Append(s \o u, w)
    BY ConcatAppend
  <2> QED
    BY <1>1, <2>1
<1>3. Append(u, w) \in Seq(Words) /\ Append(t, w) \in Seq(Words)
  OBVIOUS
<1> QED
  BY <1>2, <1>3, PrefixIs

LEMMA PrefixOfConcat ==
    ASSUME NEW s \in Seq(Words), NEW t \in Seq(Words), NEW r \in Seq(Words), IsPrefix(s \o t, r)
    PROVE  IsPrefix(s, r)
<1>1. s \o t \in Seq(Words)
  OBVIOUS
<1>2. PICK u \in Seq(Words) : r = (s \o t) \o u
  BY <1>1, PrefixIs
<1>3. r = s \o (t \o u) /\ t \o u \in Seq(Words)
  <2>1. (s \o t) \o u = s \o (t \o u)
    BY Associative
  <2> QED
    BY <1>2, <2>1
<1> QED
  BY <1>3, PrefixIs

LEMMA PrefixOfEmpty ==
    ASSUME NEW s \in Seq(Words), IsPrefix(s, <<>>)
    PROVE  s = <<>>
<1>1. Len(s) <= Len(<<>>) /\ Len(<<>>) = 0
  BY DEF IsPrefix
<1>2. Len(s) \in Nat
  OBVIOUS
<1>3. Len(s) = 0
  BY <1>1, <1>2
<1> QED
  BY <1>3

-----------------------------------------------------------------------------
(* What leaves the parts of the invariant alone *)

IInv == TypeOK /\ SeatInv /\ EventInv /\ OpenInv /\ WorkInv /\ TellInv /\ VersionInv /\ StreamInv

LEMMA SeatSame ==
    ASSUME SeatInv, UNCHANGED <<players, closed, writing, handler>>
    PROVE  SeatInv'
BY DEF SeatInv, Joined, Present

LEMMA EventSame ==
    ASSUME EventInv, UNCHANGED <<events, handler>>, phase' # "loop" \/ phase' = phase,
           quit \cup closed \subseteq quit' \cup closed'
    PROVE  EventInv'
BY DEF EventInv, JoinPosted

LEMMA OpenSame ==
    ASSUME OpenInv, UNCHANGED <<handler, open, quit, writing>>, closed \subseteq closed'
    PROVE  OpenInv'
BY DEF OpenInv

LEMMA WorkSame ==
    ASSUME WorkInv, UNCHANGED <<phase, stop, work, players>>
    PROVE  WorkInv'
BY DEF WorkInv, LoopInv, Present

LEMMA TellSame ==
    ASSUME TellInv, UNCHANGED <<closed, phase, stop, got, out, writing, players>>,
           quit \subseteq quit', overrun \subseteq overrun'
    PROVE  TellInv'
BY DEF TellInv, Told, LastWord, Joined

LEMMA VersionSame ==
    ASSUME VersionInv, UNCHANGED <<players, version>>
    PROVE  VersionInv'
BY DEF VersionInv, Present

LEMMA StreamSame ==
    ASSUME StreamInv, UNCHANGED <<started, work, relayed, got, out, pending, players>>,
           quit \subseteq quit'
    PROVE  StreamInv'
<1>1. /\ OneGame(work)' = OneGame(work)
      /\ \A s \in Present : SoFar(s)' = SoFar(s) /\ Debt(work, s)' = Debt(work, s)
      /\ \A c \in Conns : Line(c)' = Line(c)
      /\ Present' = Present
  BY DEF OneGame, SoFar, Line, Debt, Present
<1>2. \A s \in Present : Kept(s) => Kept(s)'
  BY <1>1 DEF Kept
<1> QED
  BY <1>1, <1>2 DEF StreamInv

LEMMA StutterKeeps ==
    ASSUME IInv, TypeOK', UNCHANGED vars
    PROVE  IInv'
<1>1. UNCHANGED <<players, closed, writing, handler, events, phase, quit, open, stop, work, got, out,
                  overrun, version, started, relayed, pending>>
  BY DEF vars, engineVars, syncVars, joinVars, sendVars, connVars, clientVars
<1> QED
  BY <1>1, SeatSame, EventSame, OpenSame, WorkSame, TellSame, VersionSame, StreamSame DEF IInv

-----------------------------------------------------------------------------
(* Readers *)

LEMMA EventAppend ==
    ASSUME TypeOK, EventInv, NEW kind, NEW c \in Conns, NEW data,
           events' = Append(events, <<kind, c, data>>), UNCHANGED phase,
           quit \cup closed \subseteq quit' \cup closed',
           \A d \in Conns : handler'[d] = handler[d] \/ handler[d] # "joining",
           kind = "JOIN" => handler[c] = "idle" /\ handler'[c] = "joining" /\ data = VersionOf[c],
           kind = "GONE" => c \in quit' \cup closed'
    PROVE  EventInv'
<1> DEFINE n == Len(events)
           e == <<kind, c, data>>
<1>1. e[1] = kind /\ e[2] = c /\ e[3] = data
  OBVIOUS
<1>2. /\ n \in Nat /\ DOMAIN events = 1..n /\ DOMAIN events' = 1..(n + 1)
      /\ events'[n + 1] = e /\ \A i \in 1..n : events'[i] = events[i]
  <2>1. events \in Seq(Events)
    BY DEF TypeOK
  <2> HIDE DEF e
  <2> QED
    BY <2>1 DEF e
<1>3. \A i \in 1..n : events[i][2] \in Conns
  <2>1. events \in Seq(Events)
    BY DEF TypeOK
  <2> QED
    BY <2>1 DEF Events
<1> HIDE DEF n, e
<1>4. \A x : JoinPosted(x)' <=> JoinPosted(x)
  BY DEF JoinPosted
<1>5. \A i \in 1..n : JoinPosted(events[i]) =>
         handler[events[i][2]] = "joining" /\ handler'[events[i][2]] = "joining" /\ events[i][3] = VersionOf[events[i][2]]
  BY <1>2, <1>3 DEF EventInv
<1>6. \A i \in DOMAIN events' : JoinPosted(events'[i]) =>
         handler'[events'[i][2]] = "joining" /\ events'[i][3] = VersionOf[events'[i][2]]
  <2> SUFFICES ASSUME NEW i \in 1..(n + 1), JoinPosted(events'[i])
               PROVE  handler'[events'[i][2]] = "joining" /\ events'[i][3] = VersionOf[events'[i][2]]
    BY <1>2
  <2>1. CASE i = n + 1
    BY <1>1, <1>2, <2>1 DEF JoinPosted
  <2>2. CASE i # n + 1
    <3>1. i \in 1..n
      BY <1>2, <2>2
    <3> QED
      BY <1>2, <1>5, <3>1
  <2> QED
    BY <2>1, <2>2
<1>7. \A i, j \in DOMAIN events' :
         JoinPosted(events'[i]) /\ JoinPosted(events'[j]) /\ events'[i][2] = events'[j][2] => i = j
  <2> SUFFICES ASSUME NEW i \in 1..(n + 1), NEW j \in 1..(n + 1),
                      JoinPosted(events'[i]), JoinPosted(events'[j]), events'[i][2] = events'[j][2], i # j
               PROVE  FALSE
    BY <1>2
  <2>1. \A k \in 1..n : JoinPosted(events[k]) /\ kind = "JOIN" => events[k][2] # c
    BY <1>5
  <2>2. CASE i \in 1..n /\ j \in 1..n
    BY <1>2, <2>2 DEF EventInv
  <2>3. CASE i = n + 1 /\ j \in 1..n
    BY <1>1, <1>2, <2>1, <2>3 DEF JoinPosted
  <2>4. CASE j = n + 1 /\ i \in 1..n
    BY <1>1, <1>2, <2>1, <2>4 DEF JoinPosted
  <2> QED
    BY <1>2, <2>2, <2>3, <2>4
<1>8. \A i \in DOMAIN events' : events'[i][1] = "GONE" => events'[i][2] \in quit' \cup closed'
  <2> SUFFICES ASSUME NEW i \in 1..(n + 1), events'[i][1] = "GONE" PROVE events'[i][2] \in quit' \cup closed'
    BY <1>2
  <2>1. CASE i = n + 1
    BY <1>1, <1>2, <2>1
  <2>2. CASE i # n + 1
    <3>1. i \in 1..n
      BY <1>2, <2>2
    <3> QED
      BY <1>2, <3>1 DEF EventInv
  <2> QED
    BY <2>1, <2>2
<1> QED
  BY <1>4, <1>6, <1>7, <1>8 DEF EventInv

LEMMA ConnectKeeps ==
    ASSUME IInv, TypeOK', NEW c \in Conns, Connect(c)
    PROVE  IInv'
<1>1. /\ handler[c] = "idle"
      /\ handler' = [handler EXCEPT ![c] = "joining"]
      /\ open' = open \cup {c}
      /\ events' = Append(events, <<"JOIN", c, VersionOf[c]>>)
      /\ UNCHANGED <<players, closed, writing, phase, quit, stop, work, got, out,
                     overrun, version, started, relayed, pending>>
  BY DEF Connect, Post, engineVars, syncVars, joinVars, sendVars, clientVars
<1>2. handler'[c] = "joining" /\ \A d \in Conns \ {c} : handler'[d] = handler[d]
  BY <1>1 DEF IInv, TypeOK
<1>3. SeatInv'
  <2>1. ~Joined(c)
    BY <1>1 DEF IInv, SeatInv
  <2>2. Present' = Present /\ \A d : Joined(d)' <=> Joined(d)
    BY <1>1 DEF Present, Joined
  <2>3. \A d \in Conns : Joined(d)' => handler'[d] \in {"accepted", "reading", "ended"}
    BY <1>2, <2>1, <2>2 DEF IInv, SeatInv
  <2> QED
    BY <1>1, <2>2, <2>3 DEF IInv, SeatInv
<1>4. EventInv'
  BY <1>1, <1>2, EventAppend DEF IInv
<1>5. OpenInv'
  BY <1>1, <1>2 DEF IInv, OpenInv
<1>6. WorkInv' /\ TellInv' /\ VersionInv' /\ StreamInv'
  BY <1>1, WorkSame, TellSame, VersionSame, StreamSame DEF IInv
<1> QED
  BY <1>3, <1>4, <1>5, <1>6 DEF IInv

LEMMA JoinAbandonedKeeps ==
    ASSUME IInv, TypeOK', NEW c \in Conns, JoinAbandoned(c)
    PROVE  IInv'
<1>1. /\ handler[c] \in {"joining", "accepted"} /\ phase = "done"
      /\ handler' = [handler EXCEPT ![c] = "ended"]
      /\ open' = open \ {c}
      /\ quit' = IF handler[c] = "accepted" THEN quit \cup {c} ELSE quit
      /\ UNCHANGED <<events, players, closed, writing, phase, stop, work, got, out,
                     overrun, version, started, relayed, pending>>
  BY DEF JoinAbandoned, engineVars, syncVars, joinVars, sendVars
<1>2. handler'[c] = "ended" /\ \A d \in Conns \ {c} : handler'[d] = handler[d]
  BY <1>1 DEF IInv, TypeOK
<1>3. SeatInv'
  <2>1. Present' = Present /\ \A d : Joined(d)' <=> Joined(d)
    BY <1>1 DEF Present, Joined
  <2> QED
    BY <1>1, <1>2, <2>1 DEF IInv, SeatInv
<1>4. EventInv'
  BY <1>1 DEF IInv, EventInv, JoinPosted
<1>5. c \notin writing \/ c \in quit'
  BY <1>1 DEF IInv, SeatInv
<1>6. OpenInv'
  BY <1>1, <1>2, <1>5 DEF IInv, OpenInv
<1>7. WorkInv' /\ TellInv' /\ VersionInv' /\ StreamInv'
  BY <1>1, WorkSame, TellSame, VersionSame, StreamSame DEF IInv
<1> QED
  BY <1>3, <1>4, <1>6, <1>7 DEF IInv

LEMMA JoinRepliedKeeps ==
    ASSUME IInv, TypeOK', NEW c \in Conns, JoinReplied(c)
    PROVE  IInv'
<1>1. /\ handler[c] = "accepted" /\ handler' = [handler EXCEPT ![c] = "reading"]
      /\ UNCHANGED <<events, players, closed, writing, open, quit, phase, stop, work, got, out,
                     overrun, version, started, relayed, pending>>
  BY DEF JoinReplied, engineVars, syncVars, joinVars, sendVars, clientVars
<1>2. handler'[c] = "reading" /\ \A d \in Conns \ {c} : handler'[d] = handler[d]
  BY <1>1 DEF IInv, TypeOK
<1>3. SeatInv'
  <2>1. Present' = Present /\ \A d : Joined(d)' <=> Joined(d)
    BY <1>1 DEF Present, Joined
  <2> QED
    BY <1>1, <1>2, <2>1 DEF IInv, SeatInv
<1>4. EventInv'
  <2>1. \A d \in Conns : handler[d] = "joining" => handler'[d] = "joining"
    BY <1>1, <1>2
  <2>2. \A i \in DOMAIN events : events[i][2] \in Conns
    BY DEF IInv, TypeOK, Events
  <2> QED
    BY <1>1, <2>1, <2>2 DEF IInv, EventInv, JoinPosted
<1>5. OpenInv'
  BY <1>1, <1>2 DEF IInv, OpenInv
<1>6. WorkInv' /\ TellInv' /\ VersionInv' /\ StreamInv'
  BY <1>1, WorkSame, TellSame, VersionSame, StreamSame DEF IInv
<1> QED
  BY <1>3, <1>4, <1>5, <1>6 DEF IInv

LEMMA ReadWordKeeps ==
    ASSUME IInv, TypeOK', NEW c \in Conns, ReadWord(c)
    PROVE  IInv'
<1>1. /\ up[c] # <<>>
      /\ events' = Append(events, <<Head(up[c])[1], c, Head(up[c])[2]>>)
      /\ UNCHANGED <<handler, open, players, closed, writing, phase, quit, stop, work, got, out,
                     overrun, version, started, relayed, pending>>
  BY DEF ReadWord, engineVars, syncVars, joinVars, sendVars, clientVars
<1>2. Head(up[c])[1] # "JOIN" /\ Head(up[c])[1] # "GONE"
  <2>1. up[c] \in Seq(UpWords)
    BY DEF IInv, TypeOK
  <2>2. Head(up[c]) \in UpWords
    BY <1>1, <2>1
  <2> QED
    BY <2>2 DEF UpWords, MessageKinds, Kinds
<1>3. EventInv'
  BY <1>1, <1>2, EventAppend DEF IInv
<1>4. SeatInv' /\ OpenInv' /\ WorkInv' /\ TellInv' /\ VersionInv' /\ StreamInv'
  BY <1>1, SeatSame, OpenSame, WorkSame, TellSame, VersionSame, StreamSame DEF IInv
<1> QED
  BY <1>3, <1>4 DEF IInv

LEMMA ReadFailsKeeps ==
    ASSUME IInv, TypeOK', NEW c \in Conns, ReadFails(c)
    PROVE  IInv'
<1>1. /\ handler[c] = "reading" /\ c \notin open
      /\ handler' = [handler EXCEPT ![c] = "ended"]
      /\ \/ events' = Append(events, <<"GONE", c, 0>>)
         \/ phase = "done" /\ UNCHANGED events
      /\ UNCHANGED <<open, players, closed, writing, phase, quit, stop, work, got, out,
                     overrun, version, started, relayed, pending>>
  BY DEF ReadFails, Post, engineVars, syncVars, joinVars, sendVars, clientVars
<1>2. handler'[c] = "ended" /\ \A d \in Conns \ {c} : handler'[d] = handler[d]
  BY <1>1 DEF IInv, TypeOK
<1>3. SeatInv'
  <2>1. Present' = Present /\ \A d : Joined(d)' <=> Joined(d)
    BY <1>1 DEF Present, Joined
  <2> QED
    BY <1>1, <1>2, <2>1 DEF IInv, SeatInv
<1>4. EventInv'
  <2>1. CASE events' = Append(events, <<"GONE", c, 0>>)
    <3>1. c \in quit \cup closed
      BY <1>1 DEF IInv, OpenInv
    <3>2. \A d \in Conns : handler'[d] = handler[d] \/ handler[d] # "joining"
      BY <1>1, <1>2
    <3> QED
      BY <1>1, <2>1, <3>1, <3>2, EventAppend DEF IInv
  <2>2. CASE phase = "done" /\ UNCHANGED events
    BY <1>1, <2>2 DEF IInv, EventInv, JoinPosted
  <2> QED
    BY <1>1, <2>1, <2>2
<1>5. OpenInv'
  BY <1>1, <1>2 DEF IInv, OpenInv
<1>6. WorkInv' /\ TellInv' /\ VersionInv' /\ StreamInv'
  BY <1>1, WorkSame, TellSame, VersionSame, StreamSame DEF IInv
<1> QED
  BY <1>3, <1>4, <1>5, <1>6 DEF IInv

-----------------------------------------------------------------------------
(* Writers *)

LEMMA LineType ==
    ASSUME TypeOK, NEW c \in Conns
    PROVE  /\ GameWords(got[c]) \in Seq(Words)
           /\ FlattenSeq(out[c]) \in Seq(Words)
           /\ GameWords(FlattenSeq(out[c])) \in Seq(Words)
           /\ Line(c) \in Seq(Words)
<1>1. got[c] \in Seq(Words) /\ out[c] \in Seq(Seq(Words))
  BY DEF TypeOK, EngineTypeOK
<1>2. FlattenSeq(out[c]) \in Seq(Words)
  BY <1>1, FlattenType
<1>3. GameWords(got[c]) \in Seq(Words) /\ GameWords(FlattenSeq(out[c])) \in Seq(Words)
  BY <1>1, <1>2, GameWordsType
<1> QED
  BY <1>2, <1>3 DEF Line

LEMMA WriteBufferKeeps ==
    ASSUME IInv, TypeOK', NEW c \in Conns, WriteBuffer(c)
    PROVE  IInv'
<1>1. /\ c \in writing /\ out[c] # <<>>
      /\ out' = [out EXCEPT ![c] = Tail(@)]
      /\ got' = [got EXCEPT ![c] = IF c \in open THEN @ \o Head(out[c]) ELSE @]
      /\ UNCHANGED <<handler, open, events, players, closed, writing, phase, quit, stop, work,
                     overrun, version, started, relayed, pending>>
  BY DEF WriteBuffer, connVars, syncVars, joinVars
<1> DEFINE h == Head(out[c])
           b == Tail(out[c])
<1>2. /\ got[c] \in Seq(Words) /\ out[c] \in Seq(Seq(Words)) /\ relayed \in Seq(Words)
      /\ out \in [Conns -> Seq(Seq(Words))] /\ got \in [Conns -> Seq(Words)]
  BY DEF IInv, TypeOK, EngineTypeOK
<1>3. h \in Seq(Words) /\ b \in Seq(Seq(Words))
  BY <1>1, <1>2
<1>4. /\ out'[c] = b
      /\ got'[c] = IF c \in open THEN got[c] \o h ELSE got[c]
      /\ \A d \in Conns \ {c} : out'[d] = out[d] /\ got'[d] = got[d]
  BY <1>1, <1>2
<1>5. SeatInv' /\ EventInv' /\ OpenInv' /\ WorkInv' /\ VersionInv'
  BY <1>1, SeatSame, EventSame, OpenSame, WorkSame, VersionSame DEF IInv
<1>6. c \in quit => c \notin open
  BY DEF IInv, OpenInv
<1>7. c \notin open => c \in quit
  BY <1>1 DEF IInv, OpenInv
<1>8. ASSUME c \in open, Told(c) PROVE Told(c)'
  <2>1. CASE \E i \in DOMAIN got[c] : LastWord(got[c][i])
    <3>1. PICK i \in DOMAIN got[c] : LastWord(got[c][i])
      BY <2>1
    <3>2. i \in DOMAIN got'[c] /\ got'[c][i] = got[c][i]
      BY <1>2, <1>3, <1>4, <1>8, <3>1
    <3> QED
      BY <1>1, <3>1, <3>2 DEF Told, LastWord
  <2>2. CASE \E j \in DOMAIN out[c] : \E i \in DOMAIN out[c][j] : LastWord(out[c][j][i])
    <3>1. PICK j \in DOMAIN out[c] : \E i \in DOMAIN out[c][j] : LastWord(out[c][j][i])
      BY <2>2
    <3>2. PICK i \in DOMAIN out[c][j] : LastWord(out[c][j][i])
      BY <3>1
    <3>3. j \in 1..Len(out[c])
      BY <1>2
    <3>4. CASE j = 1
      <4>1. out[c][j] = h
        BY <1>1, <1>2, <3>4
      <4>2. i \in 1..Len(h) /\ LastWord(h[i])
        BY <1>3, <3>2, <4>1
      <4>3. Len(got[c]) + i \in DOMAIN got'[c] /\ got'[c][Len(got[c]) + i] = h[i]
        <5> HIDE DEF h
        <5>1. got'[c] = got[c] \o h
          BY <1>4, <1>8
        <5> QED
          BY <1>2, <1>3, <4>2, <5>1
      <4> HIDE DEF h
      <4> QED
        BY <1>1, <4>2, <4>3 DEF Told, LastWord
    <3>5. CASE j # 1
      <4>1. j - 1 \in DOMAIN b /\ b[j - 1] = out[c][j]
        BY <1>1, <1>2, <3>3, <3>5
      <4>2. LastWord(b[j - 1][i]) /\ i \in DOMAIN b[j - 1]
        BY <3>2, <4>1
      <4>3. j - 1 \in DOMAIN out'[c] /\ i \in DOMAIN out'[c][j - 1]
        BY <1>4, <4>1, <4>2
      <4>4. LastWord(out'[c][j - 1][i])
        BY <1>4, <4>2
      <4>5. out'[c][j - 1][i] = <<"ERROR", stop'>>
        BY <1>1, <4>4 DEF LastWord
      <4> QED
        BY <4>3, <4>5 DEF Told, LastWord
    <3> QED
      BY <3>4, <3>5
  <2> QED
    BY <1>8, <2>1, <2>2 DEF Told
<1>9. TellInv'
  <2>1. \A d \in Conns \ {c} : Told(d)' <=> Told(d)
    BY <1>1, <1>4 DEF Told, LastWord
  <2>2. \A d : Joined(d)' <=> Joined(d)
    BY <1>1 DEF Joined
  <2>3. \A d \in closed' : d \in quit' \cup overrun' \/ (phase' # "loop" /\ Told(d)')
    <3> TAKE d \in closed'
    <3>1. d \in Conns /\ d \in closed
      BY <1>1 DEF IInv, TypeOK, EngineTypeOK
    <3>2. d \in quit \cup overrun \/ (phase # "loop" /\ Told(d))
      BY <3>1 DEF IInv, TellInv
    <3>3. CASE d # c
      BY <1>1, <2>1, <3>1, <3>2, <3>3
    <3>4. CASE d = c
      BY <1>1, <1>7, <1>8, <3>2, <3>4
    <3> QED
      BY <3>3, <3>4
  <2>4. \A d \in closed' : d \in writing' \/ out'[d] = <<>>
    <3> TAKE d \in closed'
    <3>1. d \in Conns /\ d \in closed
      BY <1>1 DEF IInv, TypeOK, EngineTypeOK
    <3> QED
      BY <1>1, <1>4, <3>1 DEF IInv, TellInv
  <2>5. \A d \in Conns : got'[d] # <<>> \/ out'[d] # <<>> => Joined(d)'
    <3> TAKE d \in Conns
    <3>1. CASE d # c
      BY <1>4, <2>2, <3>1 DEF IInv, TellInv
    <3>2. CASE d = c
      BY <1>1, <2>2, <3>2 DEF IInv, TellInv
    <3> QED
      BY <3>1, <3>2
  <2> QED
    BY <2>3, <2>4, <2>5 DEF TellInv
<1>10. c \notin quit => Line(c)' = Line(c)
  <2> HAVE c \notin quit
  <2>1. got'[c] = got[c] \o h /\ out'[c] = b
    BY <1>4, <1>7
  <2>2. FlattenSeq(out[c]) = h \o FlattenSeq(b)
    BY <1>1, <1>2, FlattenHeadTail
  <2> HIDE DEF h, b
  <2>3. FlattenSeq(b) \in Seq(Words)
    BY <1>3, FlattenType
  <2>4. GameWords(FlattenSeq(out[c])) = GameWords(h) \o GameWords(FlattenSeq(b))
    BY <1>3, <2>2, <2>3, GameWordsConcat
  <2>5. GameWords(got[c] \o h) = GameWords(got[c]) \o GameWords(h)
    BY <1>2, <1>3, GameWordsConcat
  <2>6. GameWords(got[c]) \in Seq(Words) /\ GameWords(h) \in Seq(Words) /\ GameWords(FlattenSeq(b)) \in Seq(Words)
    BY <1>2, <1>3, <2>3, GameWordsType
  <2>7. (GameWords(got[c]) \o GameWords(h)) \o GameWords(FlattenSeq(b))
          = GameWords(got[c]) \o (GameWords(h) \o GameWords(FlattenSeq(b)))
    BY <2>6, Associative
  <2> QED
    BY <2>1, <2>4, <2>5, <2>7 DEF Line
<1>11. \A d \in Conns \ {c} : Line(d)' = Line(d)
  BY <1>4 DEF Line
<1>12. StreamInv'
  <2>1. \A d \in Conns : d \in quit \/ Line(d)' = Line(d)
    BY <1>10, <1>11
  <2>2. \A d \in Conns : d \in quit' \/ IsPrefix(Line(d)', relayed')
    BY <1>1, <2>1 DEF IInv, StreamInv
  <2>3. \A d \in Conns : IsPrefix(GameWords(got'[d]), relayed')
    <3> TAKE d \in Conns
    <3>1. CASE d # c
      BY <1>1, <1>4, <3>1 DEF IInv, StreamInv
    <3>2. CASE d = c /\ c \in quit
      BY <1>1, <1>4, <1>6, <3>2 DEF IInv, StreamInv
    <3>3. CASE d = c /\ c \notin quit
      <4>1. IsPrefix(Line(c)', relayed')
        BY <1>1, <2>2, <3>3
      <4>2. GameWords(got'[c]) \in Seq(Words) /\ GameWords(FlattenSeq(out'[c])) \in Seq(Words)
        <5>1. got'[c] \in Seq(Words) /\ out'[c] \in Seq(Seq(Words))
          BY DEF TypeOK, EngineTypeOK
        <5> QED
          BY <5>1, FlattenType, GameWordsType
      <4>3. relayed' \in Seq(Words)
        BY <1>1, <1>2
      <4> QED
        BY <3>3, <4>1, <4>2, <4>3, PrefixOfConcat DEF Line
    <3> QED
      BY <3>1, <3>2, <3>3
  <2>4. \A s \in Present' : players'[s] \in quit' \/ Kept(s)'
    <3> TAKE s \in Present'
    <3>1. s \in Present /\ players[s] \in Conns
      BY <1>1 DEF Present, IInv, TypeOK, EngineTypeOK
    <3>2. players[s] \in quit \/ SoFar(s)' = SoFar(s)
      BY <1>1, <2>1, <3>1 DEF SoFar
    <3>3. Debt(work, s)' = Debt(work, s)
      BY <1>1 DEF Debt
    <3> QED
      BY <1>1, <3>1, <3>2, <3>3 DEF IInv, StreamInv, Kept
  <2> QED
    BY <1>1, <2>2, <2>3, <2>4 DEF IInv, StreamInv, OneGame
<1> QED
  BY <1>5, <1>9, <1>12 DEF IInv

LEMMA WriterEndsKeeps ==
    ASSUME IInv, TypeOK', NEW c \in Conns, WriterEnds(c)
    PROVE  IInv'
<1>1. /\ c \in writing /\ out[c] = <<>> /\ c \in closed
      /\ writing' = writing \ {c} /\ open' = open \ {c}
      /\ UNCHANGED <<handler, events, players, closed, phase, quit, stop, work, got, out,
                     overrun, version, started, relayed, pending>>
  BY DEF WriterEnds, engineVars, syncVars, joinVars, sendVars, clientVars
<1>2. Present' = Present /\ \A d : Joined(d)' <=> Joined(d)
  BY <1>1 DEF Present, Joined
<1>3. SeatInv'
  BY <1>1, <1>2 DEF IInv, SeatInv
<1>4. handler[c] # "joining"
  BY <1>1 DEF IInv, SeatInv
<1>5. OpenInv'
  BY <1>1, <1>4 DEF IInv, OpenInv
<1>6. TellInv'
  <2>1. \A d : Told(d)' <=> Told(d)
    BY <1>1 DEF Told, LastWord
  <2> QED
    BY <1>1, <1>2, <2>1 DEF IInv, TellInv
<1>7. EventInv' /\ WorkInv' /\ VersionInv' /\ StreamInv'
  BY <1>1, EventSame, WorkSame, VersionSame, StreamSame DEF IInv
<1> QED
  BY <1>3, <1>5, <1>6, <1>7 DEF IInv

-----------------------------------------------------------------------------
(* Emulators *)

LEMMA ClientStepKeeps ==
    ASSUME IInv, TypeOK', NEW c \in Conns, ClientStep(c)
    PROVE  IInv'
<1>1. CASE SendFrameAck(c) \/ SendInput(c) \/ SendText(c) \/ SendPong(c)
  <2>1. UNCHANGED <<players, closed, writing, handler, events, phase, quit, open, stop, work, got, out,
                    overrun, version, started, relayed, pending>>
    BY <1>1 DEF SendFrameAck, SendInput, SendText, SendPong, serverVars, engineVars, syncVars, joinVars, sendVars
  <2> QED
    BY <2>1, SeatSame, EventSame, OpenSame, WorkSame, TellSame, VersionSame, StreamSame DEF IInv
<1>2. CASE Quit(c)
  <2>1. /\ c \in open /\ open' = open \ {c} /\ quit' = quit \cup {c}
        /\ UNCHANGED <<players, closed, writing, handler, events, phase, stop, work, got, out,
                       overrun, version, started, relayed, pending>>
    BY <1>2 DEF Quit, serverVars, engineVars, syncVars, joinVars, sendVars
  <2>2. SeatInv' /\ EventInv' /\ WorkInv' /\ TellInv' /\ VersionInv' /\ StreamInv'
    BY <2>1, SeatSame, EventSame, WorkSame, TellSame, VersionSame, StreamSame DEF IInv
  <2>3. OpenInv'
    BY <2>1 DEF IInv, OpenInv
  <2> QED
    BY <2>2, <2>3 DEF IInv
<1> QED
  BY <1>1, <1>2 DEF ClientStep

-----------------------------------------------------------------------------
(* One iteration of the innermost loop *)

LEMMA HeadInRange ==
    ASSUME TypeOK, NEW s \in Slots, Serving(s)
    PROVE  Head(work) \in Range(work)
<1>1. work \in Seq(Loops) /\ Head(work) = work[1] /\ Len(work) \in Nat \ {0}
  BY HeadLoop
<1>2. 1 \in 1..Len(work)
  BY <1>1
<1> QED
  BY <1>1, <1>2, RangeAt

LEMMA WorkStep ==
    ASSUME TypeOK, WorkInv, NEW s \in Slots, Serving(s),
           NEW pre \in Seq(Loops), \A l \in Range(pre) : l.how = "auto",
           work' = pre \o Rest(s), phase' = phase, stop' = stop \/ phase = "loop",
           Present' \subseteq Present, s \in Present' => Head(work).how # "last"
    PROVE  WorkInv'
<1>1. Range(work') = Range(pre) \cup Range(Rest(s))
  BY RestLoops, ConcatRange
<1>2. phase # "done"
  BY HeadLoop DEF WorkInv
<1>3. /\ \A l \in Range(Rest(s)) : \E m \in Range(work) :
           l.word = m.word /\ l.how = m.how /\ l.todo \subseteq m.todo
      /\ \A m \in Range(work) : \A t \in m.todo : t # s \/ m # Head(work) => \E l \in Range(Rest(s)) :
           l.word = m.word /\ l.how = m.how /\ t \in l.todo
  BY RestRange
<1>4. \A l \in Range(work') : LoopInv(l)'
  <2> TAKE l \in Range(work')
  <2>1. CASE l \in Range(pre)
    BY <2>1 DEF LoopInv
  <2>2. CASE l \in Range(Rest(s))
    <3>1. PICK m \in Range(work) : l.word = m.word /\ l.how = m.how /\ l.todo \subseteq m.todo
      BY <1>3, <2>2
    <3>2. LoopInv(m)
      BY DEF WorkInv
    <3> QED
      BY <3>1, <3>2 DEF LoopInv
  <2> QED
    BY <1>1, <2>1, <2>2
<1>5. ASSUME phase # "loop", NEW t \in Present' PROVE \E l \in Range(work') : l.how = "last" /\ t \in l.todo
  <2>1. PICK m \in Range(work) : m.how = "last" /\ t \in m.todo
    BY <1>5 DEF WorkInv
  <2>2. t # s \/ m # Head(work)
    BY <1>5, <2>1
  <2>3. PICK l \in Range(Rest(s)) : l.word = m.word /\ l.how = m.how /\ t \in l.todo
    BY <1>3, <2>1, <2>2
  <2> QED
    BY <1>1, <2>1, <2>3
<1>6. phase' # "loop" => stop' # "none"
  BY DEF WorkInv
<1> QED
  BY <1>2, <1>4, <1>5, <1>6 DEF WorkInv

(* Serving a player pays what this loop owes it, whether its word is only  *)
(* queued or flushed.                                                      *)
Paid(s) == Line(players[s]) \o GameWords(Queued(s))

LEMMA QueuedGame ==
    ASSUME TypeOK, WorkInv, NEW s \in Slots, Serving(s)
    PROVE  /\ GameWords(Queued(s)) = IF IsGame(Head(work).word) THEN Append(GameWords(pending[s]), Head(work).word)
                                     ELSE GameWords(pending[s])
           /\ GameWords(pending[s]) \in Seq(Words)
<1>1. Head(work).word \in Words /\ pending[s] \in Seq(Words)
  BY HeadLoop DEF TypeOK, EngineTypeOK
<1>2. GameWords(pending[s]) \in Seq(Words)
  BY <1>1, GameWordsType
<1>3. CASE Head(work).how = "last"
  <2>1. ~IsGame(Head(work).word)
    BY <1>3, HeadInRange DEF WorkInv, LoopInv
  <2> DEFINE w == Head(work).word
  <2>2. <<w>> \in Seq(Words) /\ <<>> \in Seq(Words) /\ <<w>> = Append(<<>>, w)
    BY <1>1
  <2> HIDE DEF w
  <2>3. GameWords(Append(<<>>, w)) = GameWords(<<>>)
    BY <1>1, <2>1, <2>2, GameWordsAppend DEF w
  <2>4. GameWords(<<w>> \o pending[s]) = GameWords(<<w>>) \o GameWords(pending[s])
    BY <1>1, <2>2, GameWordsConcat
  <2>5. <<>> \o GameWords(pending[s]) = GameWords(pending[s])
    BY <1>2
  <2>6. Queued(s) = <<w>> \o pending[s]
    BY <1>3 DEF Queued, w
  <2> QED
    BY <1>2, <2>1, <2>2, <2>3, <2>4, <2>5, <2>6, GameWordsEmpty
<1>4. CASE Head(work).how # "last"
  <2>1. Queued(s) = Append(pending[s], Head(work).word)
    BY <1>4 DEF Queued
  <2> QED
    BY <1>1, <1>2, <2>1, GameWordsAppend
<1> QED
  BY <1>3, <1>4

LEMMA Served ==
    ASSUME IInv, NEW s \in Present, Serving(s), players[s] \notin quit
    PROVE  /\ \A w \in Debt(Rest(s), s) : relayed = Append(Paid(s), w)
           /\ Debt(Rest(s), s) = {} => relayed = Paid(s)
           /\ IsPrefix(Paid(s), relayed)
           /\ Paid(s) \in Seq(Words)
<1>1. s \in Slots /\ players[s] \in Conns /\ relayed \in Seq(Words) /\ TypeOK /\ WorkInv
  BY DEF Present, IInv, TypeOK, EngineTypeOK
<1>2. Kept(s) /\ OneGame(work)
  BY DEF IInv, StreamInv
<1>3. Head(work).word \in Words
  BY <1>1, HeadLoop
<1> DEFINE w == Head(work).word
           line == Line(players[s])
           p == GameWords(pending[s])
<1>4. line \in Seq(Words) /\ p \in Seq(Words)
  BY <1>1, LineType, QueuedGame
<1>5. GameWords(Queued(s)) = IF IsGame(w) THEN Append(p, w) ELSE p
  BY <1>1, QueuedGame
<1>6. SoFar(s) = line \o p /\ line \o p \in Seq(Words)
  BY <1>4 DEF SoFar
<1>7. CASE IsGame(w)
  <2>1. Debt(work, s) = {w} /\ Debt(Rest(s), s) = {}
    BY <1>1, <1>2, <1>7, RestOneGame
  <2>2. relayed = Append(SoFar(s), w)
    BY <1>2, <2>1 DEF Kept
  <2> HIDE DEF w, line, p
  <2>3. line \o Append(p, w) = Append(line \o p, w)
    BY <1>3, <1>4, ConcatAppend DEF w
  <2>4. Paid(s) = line \o Append(p, w)
    BY <1>5, <1>7 DEF Paid, line
  <2>5. Paid(s) = relayed
    BY <1>6, <2>2, <2>3, <2>4
  <2> QED
    BY <1>1, <2>1, <2>5, PrefixSelf
<1>8. CASE ~IsGame(w)
  <2>1. Debt(Rest(s), s) = Debt(work, s)
    BY <1>1, <1>2, <1>8, RestOneGame
  <2>2. Paid(s) = SoFar(s)
    BY <1>5, <1>6, <1>8 DEF Paid
  <2>3. IsPrefix(SoFar(s), relayed)
    <3>1. CASE Debt(work, s) = {}
      BY <1>1, <1>2, <3>1, PrefixSelf DEF Kept
    <3>2. CASE Debt(work, s) # {}
      <4>1. PICK v \in Debt(work, s) : relayed = Append(SoFar(s), v)
        BY <1>2, <3>2 DEF Kept
      <4>2. v \in Words
        <5>1. IsGame(v)
          BY DEF Debt
        <5>2. work \in Seq(Loops)
          BY <1>1 DEF TypeOK, EngineTypeOK
        <5>3. PICK l \in Range(work) : v = l.word /\ IsGame(l.word)
          BY DEF Debt
        <5>4. l \in Loops
          BY <5>2, RangeAt
        <5>5. CheckEntry.word = <<"CHECK", 0>> /\ ~IsGame(<<"CHECK", 0>>)
          BY DEF CheckEntry, IsGame
        <5> QED
          BY <5>3, <5>4, <5>5 DEF Loops, Sends
      <4>3. SoFar(s) \in Seq(Words)
        BY <1>6
      <4> QED
        BY <4>1, <4>2, <4>3, PrefixSelf, PrefixAppend
    <3> QED
      BY <3>1, <3>2
  <2> QED
    BY <1>2, <1>6, <2>1, <2>2, <2>3 DEF Kept
<1> QED
  BY <1>7, <1>8

LEMMA StreamStep ==
    ASSUME IInv, NEW s \in Slots, Serving(s),
           NEW pre \in Seq(Loops), Quiet(pre), work' = pre \o Rest(s),
           UNCHANGED <<started, relayed, quit, got>>,
           \A c \in Conns : \/ c \in quit
                            \/ Line(c)' = Line(c)
                            \/ s \in Present /\ c = players[s] /\ Line(c)' = Paid(s),
           \A t \in Present' : /\ t \in Present /\ players'[t] = players[t]
                               /\ \/ players[t] \in quit
                                  \/ t # s /\ SoFar(t)' = SoFar(t)
                                  \/ t = s /\ SoFar(s)' = Paid(s)
                                  \/ ~IsGame(Head(work).word) /\ SoFar(t)' = SoFar(t)
    PROVE  StreamInv'
<1>1. TypeOK /\ OneGame(work) /\ Rest(s) \in Seq(Loops)
  BY RestLoops DEF IInv, StreamInv
<1>2. /\ OneGame(Rest(s))
      /\ ~IsGame(Head(work).word) => Debt(Rest(s), s) = Debt(work, s)
      /\ \A t \in Slots \ {s} : Debt(Rest(s), t) = Debt(work, t)
  BY <1>1, RestOneGame
<1>3. OneGame(work') /\ \A t : Debt(work', t) = Debt(Rest(s), t)
  <2>1. OneGame(Rest(s)) => OneGame(pre \o Rest(s))
    BY <1>1, PushQuiet
  <2>2. \A t : Debt(pre \o Rest(s), t) = Debt(Rest(s), t)
    BY <1>1, PushQuiet
  <2> QED
    BY <1>2, <2>1, <2>2
<1>4. \A c \in Conns : c \in quit' \/ IsPrefix(Line(c)', relayed')
  <2> TAKE c \in Conns
  <2>1. CASE c \in quit \/ Line(c)' = Line(c)
    BY <2>1 DEF IInv, StreamInv
  <2>2. CASE c \notin quit /\ s \in Present /\ c = players[s] /\ Line(c)' = Paid(s)
    <3>1. IsPrefix(Paid(s), relayed)
      BY <2>2, Served
    <3> QED
      BY <2>2, <3>1
  <2> QED
    BY <2>1, <2>2
<1>5. ASSUME NEW t \in Present' PROVE players'[t] \in quit' \/ Kept(t)'
  <2>1. t \in Present /\ t \in Slots /\ players'[t] = players[t]
    BY DEF Present
  <2> SUFFICES ASSUME players[t] \notin quit PROVE Kept(t)'
    BY <2>1
  <2>2. CASE t = s /\ SoFar(s)' = Paid(s)
    <3>1. /\ \A w \in Debt(Rest(s), s) : relayed = Append(Paid(s), w)
          /\ Debt(Rest(s), s) = {} => relayed = Paid(s)
      BY <2>1, <2>2, Served
    <3> QED
      BY <1>3, <2>2, <3>1 DEF Kept
  <2>3. CASE (t # s \/ ~IsGame(Head(work).word)) /\ SoFar(t)' = SoFar(t)
    <3>1. Kept(t)
      BY <2>1 DEF IInv, StreamInv
    <3>2. Debt(work', t) = Debt(work, t)
      BY <1>2, <1>3, <2>1, <2>3
    <3> QED
      BY <2>3, <3>1, <3>2 DEF Kept
  <2> QED
    BY <2>1, <2>2, <2>3
<1>6. (~started)' => relayed' = <<>>
  BY DEF IInv, StreamInv
<1>7. \A c \in Conns : IsPrefix(GameWords(got'[c]), relayed')
  BY DEF IInv, StreamInv
<1> QED
  BY <1>3, <1>4, <1>5, <1>6, <1>7 DEF StreamInv

LEMMA EmptyPush ==
    ASSUME TypeOK, NEW s \in Slots, Serving(s), work' = Rest(s)
    PROVE  /\ <<>> \in Seq(Loops) /\ Quiet(<<>>) /\ (\A l \in Range(<<>>) : l.how = "auto")
           /\ work' = <<>> \o Rest(s)
<1>1. Rest(s) \in Seq(Loops)
  BY RestLoops
<1>2. <<>> \o Rest(s) = Rest(s)
  BY <1>1
<1> QED
  BY <1>2, EmptyStack

LEMMA SkipKeeps ==
    ASSUME IInv, TypeOK', NEW s \in Slots, Skip(s), UNCHANGED <<events, handler, open, writing, got, quit>>
    PROVE  IInv'
<1>1. /\ Serving(s) /\ Unserved(s) /\ work' = Rest(s) /\ TypeOK /\ WorkInv
      /\ UNCHANGED <<players, closed, phase, stop, out, overrun, version, started, relayed, pending>>
  BY DEF Skip, GoOn, syncVars, joinVars, sendVars, IInv
<1>2. SeatInv' /\ EventInv' /\ OpenInv' /\ TellInv' /\ VersionInv'
  BY <1>1, SeatSame, EventSame, OpenSame, TellSame, VersionSame DEF IInv
<1>3. /\ <<>> \in Seq(Loops) /\ Quiet(<<>>) /\ (\A l \in Range(<<>>) : l.how = "auto")
      /\ work' = <<>> \o Rest(s)
  BY <1>1, EmptyPush
<1>4. Present' = Present /\ \A t \in Present : SoFar(t)' = SoFar(t)
  BY <1>1 DEF Present, SoFar, Line
<1>5. s \in Present => Head(work).how = "ping"
  BY <1>1 DEF Unserved, Present
<1>6. s \in Present => ~IsGame(Head(work).word)
  BY <1>1, <1>5, HeadInRange DEF WorkInv, LoopInv
<1>7. WorkInv'
  BY <1>1, <1>3, <1>4, <1>5, WorkStep
<1>8. \A c \in Conns : Line(c)' = Line(c)
  BY <1>1 DEF Line
<1>9. StreamInv'
  <2>1. \A t \in Present' : /\ t \in Present /\ players'[t] = players[t]
                            /\ t # s \/ ~IsGame(Head(work).word)
                            /\ SoFar(t)' = SoFar(t)
    BY <1>1, <1>4, <1>6
  <2> QED
    BY <1>1, <1>3, <1>8, <2>1, StreamStep
<1> QED
  BY <1>2, <1>7, <1>9 DEF IInv

LEMMA QueueKeeps ==
    ASSUME IInv, TypeOK', NEW s \in Slots, Queue(s), UNCHANGED <<events, handler, open, writing, got, quit>>
    PROVE  IInv'
<1>1. /\ Serving(s) /\ ~Unserved(s) /\ ~Flushes(s) /\ work' = Rest(s) /\ TypeOK /\ WorkInv
      /\ pending' = [pending EXCEPT ![s] = Queued(s)]
      /\ UNCHANGED <<players, closed, phase, stop, out, overrun, version, started, relayed>>
  BY DEF Queue, GoOn, syncVars, joinVars, IInv
<1>2. SeatInv' /\ EventInv' /\ OpenInv' /\ TellInv' /\ VersionInv'
  BY <1>1, SeatSame, EventSame, OpenSame, TellSame, VersionSame DEF IInv
<1>3. /\ <<>> \in Seq(Loops) /\ Quiet(<<>>) /\ (\A l \in Range(<<>>) : l.how = "auto")
      /\ work' = <<>> \o Rest(s)
  BY <1>1, EmptyPush
<1>4. Present' = Present /\ s \in Present
  BY <1>1 DEF Present, Unserved
<1>5. Head(work).how = "auto"
  BY <1>1 DEF Flushes
<1>6. WorkInv'
  BY <1>1, <1>3, <1>4, <1>5, WorkStep
<1>7. \A c \in Conns : Line(c)' = Line(c)
  BY <1>1 DEF Line
<1>8. pending'[s] = Queued(s) /\ \A t \in Slots \ {s} : pending'[t] = pending[t]
  BY <1>1 DEF TypeOK, EngineTypeOK
<1>9. SoFar(s)' = Paid(s)
  <2>1. players[s] \in Conns
    BY <1>4 DEF Present, IInv, TypeOK, EngineTypeOK
  <2> QED
    BY <1>1, <1>7, <1>8, <2>1 DEF SoFar, Paid
<1>10. \A t \in Present \ {s} : SoFar(t)' = SoFar(t)
  <2> TAKE t \in Present \ {s}
  <2>1. players[t] \in Conns /\ t \in Slots \ {s}
    BY DEF Present, IInv, TypeOK, EngineTypeOK
  <2> QED
    BY <1>1, <1>7, <1>8, <2>1 DEF SoFar
<1>11. StreamInv'
  <2>1. \A t \in Present' : /\ t \in Present /\ players'[t] = players[t]
                            /\ ((t # s /\ SoFar(t)' = SoFar(t)) \/ (t = s /\ SoFar(s)' = Paid(s)))
    BY <1>1, <1>4, <1>9, <1>10
  <2> QED
    BY <1>1, <1>3, <1>7, <2>1, StreamStep
<1> QED
  BY <1>2, <1>6, <1>11 DEF IInv

LEMMA Unseat ==
    ASSUME TypeOK, SeatInv, NEW s \in Present, players' = Slotless(s), closed' = Closing(players[s]),
           UNCHANGED <<writing, handler>>
    PROVE  /\ SeatInv'
           /\ Present' = Present \ {s}
           /\ \A t \in Present' : players'[t] = players[t] /\ players[t] # players[s]
           /\ \A c \in Conns : Joined(c)' <=> Joined(c)
           /\ players[s] \in Conns /\ players[s] \in writing /\ players[s] \notin closed
<1>1. s \in Slots /\ players[s] # Nobody /\ players[s] \in Conns /\ players \in [Slots -> Conns \cup {Nobody}]
  BY DEF Present, TypeOK, EngineTypeOK
<1>2. players'[s] = Nobody /\ \A t \in Slots \ {s} : players'[t] = players[t]
  BY <1>1 DEF Slotless
<1>3. Nobody \notin Conns
  BY EngineAssumption
<1>4. Present' = Present \ {s}
  BY <1>1, <1>2 DEF Present
<1>5. \A t \in Present' : players'[t] = players[t] /\ players[t] # players[s]
  <2> TAKE t \in Present'
  <2>1. t \in Present /\ t # s /\ t \in Slots
    BY <1>4 DEF Present
  <2> QED
    BY <1>2, <2>1 DEF SeatInv
<1>6. \A c \in Conns : Joined(c)' <=> Joined(c)
  BY <1>1, <1>2, <1>3 DEF Joined, Closing
<1>7. players[s] \in writing /\ players[s] \notin closed
  BY DEF SeatInv
<1>8. SeatInv'
  <2>1. \A t, u \in Present' : players'[t] = players'[u] => t = u
    BY <1>4, <1>5 DEF SeatInv
  <2>2. \A t \in Present' : players'[t] \notin closed' /\ players'[t] \in writing'
    BY <1>4, <1>5 DEF SeatInv, Closing
  <2>3. \A c \in Conns : Joined(c)' => handler'[c] \in {"accepted", "reading", "ended"}
    BY <1>6 DEF SeatInv
  <2>4. \A c \in writing' : Joined(c)'
    BY <1>6 DEF SeatInv, TypeOK
  <2> QED
    BY <2>1, <2>2, <2>3, <2>4 DEF SeatInv
<1> QED
  BY <1>1, <1>4, <1>5, <1>6, <1>7, <1>8

LEMMA LineFlushed ==
    ASSUME TypeOK, NEW s \in Slots, Serving(s), NEW c \in Conns, c = players[s],
           out' = [out EXCEPT ![c] = Append(@, Queued(s))], UNCHANGED got
    PROVE  /\ Line(c)' = Paid(s)
           /\ \A d \in Conns \ {c} : Line(d)' = Line(d) /\ out'[d] = out[d]
           /\ out'[c] = Append(out[c], Queued(s))
           /\ Queued(s) \in Seq(Words) /\ out[c] \in Seq(Seq(Words))
<1> DEFINE q == Queued(s)
<1>1. q \in Seq(Words)
  BY QueuedType
<1>2. out[c] \in Seq(Seq(Words)) /\ got[c] \in Seq(Words)
  BY DEF TypeOK, EngineTypeOK
<1>3. out'[c] = Append(out[c], q) /\ \A d \in Conns \ {c} : out'[d] = out[d]
  BY DEF TypeOK, EngineTypeOK
<1> HIDE DEF q
<1>4. Line(c)' = GameWords(got[c]) \o GameWords(FlattenSeq(Append(out[c], q)))
  BY <1>3 DEF Line
<1>5. FlattenSeq(Append(out[c], q)) = FlattenSeq(out[c]) \o q /\ FlattenSeq(out[c]) \in Seq(Words)
  BY <1>1, <1>2, FlattenAppend, FlattenType
<1>6. GameWords(FlattenSeq(out[c]) \o q) = GameWords(FlattenSeq(out[c])) \o GameWords(q)
  BY <1>1, <1>5, GameWordsConcat
<1>7. GameWords(got[c]) \in Seq(Words) /\ GameWords(FlattenSeq(out[c])) \in Seq(Words) /\ GameWords(q) \in Seq(Words)
  BY <1>1, <1>2, <1>5, GameWordsType
<1>8. GameWords(got[c]) \o (GameWords(FlattenSeq(out[c])) \o GameWords(q))
        = (GameWords(got[c]) \o GameWords(FlattenSeq(out[c]))) \o GameWords(q)
  BY <1>7, Associative
<1>9. Line(c)' = Paid(s)
  BY <1>4, <1>5, <1>6, <1>8 DEF Line, Paid, q
<1>10. \A d \in Conns \ {c} : Line(d)' = Line(d)
  BY <1>3 DEF Line
<1> QED
  BY <1>1, <1>2, <1>3, <1>9, <1>10 DEF q

(* Where a connection is told is kept when something is appended to its    *)
(* channel.                                                                *)
LEMMA ToldGrows ==
    ASSUME TypeOK, NEW c \in Conns, NEW q \in Seq(Words), Told(c),
           out'[c] = out[c] \/ out'[c] = Append(out[c], q), UNCHANGED <<got, stop>>
    PROVE  Told(c)'
<1>1. out[c] \in Seq(Seq(Words))
  BY DEF TypeOK, EngineTypeOK
<1>2. \A j \in DOMAIN out[c] : j \in DOMAIN out'[c] /\ out'[c][j] = out[c][j]
  <2> DEFINE o == out[c]
  <2>1. o \in Seq(Seq(Words)) /\ (out'[c] = o \/ out'[c] = Append(o, q))
    BY <1>1
  <2> HIDE DEF o
  <2>2. DOMAIN o = 1..Len(o) /\ Len(o) \in Nat
    BY <2>1
  <2>3. \A j \in DOMAIN o : j \in DOMAIN Append(o, q) /\ Append(o, q)[j] = o[j]
    BY <2>1, <2>2
  <2>4. \A j \in DOMAIN o : j \in DOMAIN out'[c] /\ out'[c][j] = o[j]
    BY <2>1, <2>3
  <2> QED
    BY <2>4 DEF o
<1>3. CASE \E i \in DOMAIN got[c] : LastWord(got[c][i])
  BY <1>3 DEF Told, LastWord
<1>4. CASE \E j \in DOMAIN out[c] : \E i \in DOMAIN out[c][j] : LastWord(out[c][j][i])
  <2>1. PICK j \in DOMAIN out[c] : \E i \in DOMAIN out[c][j] : LastWord(out[c][j][i])
    BY <1>4
  <2>2. j \in DOMAIN out'[c] /\ \E i \in DOMAIN out'[c][j] : out'[c][j][i] = <<"ERROR", stop'>>
    BY <1>2, <2>1 DEF LastWord
  <2> QED
    BY <2>2 DEF Told, LastWord
<1> QED
  BY <1>3, <1>4 DEF Told

LEMMA FlushKeeps ==
    ASSUME IInv, TypeOK', NEW s \in Slots, Flush(s), UNCHANGED <<events, handler, open, writing, got, quit>>
    PROVE  IInv'
<1> DEFINE c == players[s]
           last == Head(work).how = "last"
<1>1. /\ Serving(s) /\ ~Unserved(s) /\ work' = Rest(s)
      /\ pending' = [pending EXCEPT ![s] = <<>>]
      /\ out' = [out EXCEPT ![c] = Append(@, Queued(s))]
      /\ players' = IF last THEN Slotless(s) ELSE players
      /\ closed' = IF last THEN Closing(c) ELSE closed
      /\ UNCHANGED <<phase, stop, overrun, version, started, relayed>>
  BY DEF Flush, GoOn, syncVars, joinVars
<1>2. TypeOK /\ WorkInv /\ SeatInv /\ s \in Present
  BY <1>1 DEF IInv, Unserved, Present
<1>3. /\ <<>> \in Seq(Loops) /\ Quiet(<<>>) /\ (\A l \in Range(<<>>) : l.how = "auto")
      /\ work' = <<>> \o Rest(s)
  BY <1>1, <1>2, EmptyPush
<1>4. c \in Conns /\ c \in writing /\ c \notin closed
  BY <1>2 DEF SeatInv, Present, TypeOK, EngineTypeOK
<1>5. pending'[s] = <<>> /\ \A t \in Slots \ {s} : pending'[t] = pending[t]
  BY <1>1, <1>2 DEF TypeOK, EngineTypeOK
<1>6. \A d \in Conns : d = players[s] => Line(d)' = Paid(s)
  BY <1>1, <1>2, LineFlushed
<1>7. /\ \A d \in Conns \ {c} : Line(d)' = Line(d) /\ out'[d] = out[d]
      /\ out'[c] = Append(out[c], Queued(s))
      /\ Queued(s) \in Seq(Words) /\ out[c] \in Seq(Seq(Words))
  <2> HIDE DEF c
  <2>1. c = players[s]
    BY DEF c
  <2> QED
    BY <1>1, <1>2, <1>4, <2>1, LineFlushed
<1>8. /\ SeatInv'
      /\ Present' = (IF last THEN Present \ {s} ELSE Present)
      /\ \A t \in Present' : players'[t] = players[t] /\ (t # s => players[t] # players[s])
      /\ \A d \in Conns : Joined(d)' <=> Joined(d)
  <2>1. CASE last
    <3>1. players' = Slotless(s) /\ closed' = Closing(players[s])
      BY <1>1, <2>1
    <3> QED
      BY <1>2, <2>1, <3>1, Unseat
  <2>2. CASE ~last
    BY <1>1, <1>2, <2>2, SeatSame DEF Present, Joined, SeatInv
  <2> QED
    BY <2>1, <2>2
<1>9. closed \subseteq closed'
  BY <1>1 DEF Closing
<1>10. EventInv' /\ OpenInv'
  BY <1>1, <1>9, EventSame, OpenSame DEF IInv
<1>11. WorkInv'
  BY <1>1, <1>2, <1>3, <1>8, WorkStep
<1>12. VersionInv'
  BY <1>1, <1>8 DEF IInv, VersionInv
<1>13. TellInv'
  <2>1. \A d \in closed : Told(d) => Told(d)'
    <3> TAKE d \in closed
    <3>1. d \in Conns /\ d # c
      BY <1>2, <1>4 DEF TypeOK, EngineTypeOK
    <3> QED
      BY <1>1, <1>2, <1>7, <3>1, ToldGrows
  <2>2. last => phase # "loop" /\ (\A d \in Conns : d = c => Told(d)')
    <3> HAVE last
    <3>1. phase = "draining" /\ Head(work).word = <<"ERROR", stop>>
      BY <1>1, <1>2, HeadInRange DEF WorkInv, LoopInv
    <3>2. Queued(s)[1] = <<"ERROR", stop>> /\ 1 \in DOMAIN Queued(s)
      <4>1. Queued(s) = <<Head(work).word>> \o pending[s] /\ pending[s] \in Seq(Words) /\ Head(work).word \in Words
        BY <1>1, <1>2, HeadLoop DEF Queued, TypeOK, EngineTypeOK
      <4> DEFINE w == Head(work).word
      <4> HIDE DEF w
      <4>2. (<<w>> \o pending[s])[1] = w /\ 1 \in DOMAIN (<<w>> \o pending[s])
        BY <4>1 DEF w
      <4> QED
        BY <3>1, <4>1, <4>2 DEF w
    <3>3. Len(out[c]) + 1 \in DOMAIN out'[c] /\ out'[c][Len(out[c]) + 1] = Queued(s)
      BY <1>7
    <3>4. \A d \in Conns : d = c => Told(d)'
      <4> TAKE d \in Conns
      <4> HAVE d = c
      <4>1. out'[d][Len(out[c]) + 1][1] = <<"ERROR", stop'>> /\ Len(out[c]) + 1 \in DOMAIN out'[d]
            /\ 1 \in DOMAIN out'[d][Len(out[c]) + 1]
        BY <1>1, <3>2, <3>3
      <4> QED
        BY <4>1 DEF Told, LastWord
    <3> QED
      BY <3>1, <3>4
  <2>3. \A d \in closed' : d \in quit' \cup overrun' \/ (phase' # "loop" /\ Told(d)')
    <3> TAKE d \in closed'
    <3>1. CASE d \in closed
      BY <1>1, <2>1, <3>1 DEF IInv, TellInv
    <3>2. CASE d \notin closed
      <4>1. last /\ d = c
        BY <1>1, <3>2 DEF Closing
      <4> QED
        BY <1>1, <1>4, <2>2, <4>1
    <3> QED
      BY <3>1, <3>2
  <2>4. \A d \in closed' : d \in writing' \/ out'[d] = <<>>
    <3> TAKE d \in closed'
    <3>1. d \in Conns
      BY DEF TypeOK, EngineTypeOK
    <3>2. CASE d = c
      BY <1>4, <3>2
    <3>3. CASE d # c
      <4>1. d \in closed
        BY <1>1, <3>3 DEF Closing
      <4> QED
        BY <1>7, <3>1, <3>3, <4>1 DEF IInv, TellInv
    <3> QED
      BY <3>2, <3>3
  <2>5. \A d \in Conns : got'[d] # <<>> \/ out'[d] # <<>> => Joined(d)'
    <3> TAKE d \in Conns
    <3>1. CASE d = c
      BY <1>2, <1>8, <3>1 DEF Joined
    <3>2. CASE d # c
      BY <1>7, <1>8, <3>2 DEF IInv, TellInv
    <3> QED
      BY <3>1, <3>2
  <2> QED
    BY <2>3, <2>4, <2>5 DEF TellInv
<1>14. StreamInv'
  <2>1. \A d \in Conns : Line(d)' = Line(d) \/ (s \in Present /\ d = players[s] /\ Line(d)' = Paid(s))
    BY <1>2, <1>6, <1>7
  <2>2. \A t \in Present' : t \in Present /\ players'[t] = players[t]
            /\ ((t # s /\ SoFar(t)' = SoFar(t)) \/ (t = s /\ SoFar(s)' = Paid(s)))
    <3> TAKE t \in Present'
    <3>1. t \in Present /\ players'[t] = players[t] /\ t \in Slots /\ players[t] \in Conns
      BY <1>8 DEF Present, TypeOK, EngineTypeOK
    <3>2. CASE t # s
      <4>1. Line(players[t])' = Line(players[t])
        <5>1. \A d \in Conns : d = players[t] => Line(d)' = Line(d)
          BY <1>7, <1>8, <3>2
        <5> QED
          BY <3>1, <5>1 DEF Line
      <4>2. SoFar(t)' = SoFar(t)
        BY <1>5, <3>1, <3>2, <4>1 DEF SoFar, Line
      <4> QED
        BY <3>1, <3>2, <4>2
    <3>3. CASE t = s
      <4>1. Line(players[s])' = Paid(s)
        BY <1>6, <3>1, <3>3 DEF Line
      <4>2. Paid(s) \in Seq(Words)
        <5>1. Line(c) \in Seq(Words) /\ GameWords(Queued(s)) \in Seq(Words)
          BY <1>2, <1>4, <1>7, LineType, GameWordsType
        <5> QED
          BY <5>1 DEF Paid
      <4>3. SoFar(s)' = Paid(s) \o <<>>
        BY <1>5, <4>1, GameWordsEmpty DEF SoFar
      <4> QED
        BY <3>1, <3>3, <4>2, <4>3
    <3> QED
      BY <3>1, <3>2, <3>3
  <2> QED
    BY <1>1, <1>3, <2>1, <2>2, StreamStep
<1> QED
  BY <1>8, <1>10, <1>11, <1>12, <1>13, <1>14 DEF IInv

(* The farewell of a player that is gone is no game word. *)
LEMMA Farewell ==
    ASSUME NEW s \in Slots, NEW live \in SUBSET Slots, NEW pre, NEW b,
           pre = IF b THEN Loop(<<"TEXT", s>>, "auto", live) ELSE <<>>
    PROVE  pre \in Seq(Loops) /\ Quiet(pre) /\ \A l \in Range(pre) : l.how = "auto"
<1>1. <<"TEXT", s>> \in Words /\ ~IsGame(<<"TEXT", s>>)
  BY EngineAssumption DEF Words, IsGame, Slots
<1>2. CASE b
  <2> DEFINE w == <<"TEXT", s>>
  <2>1. w \in Words /\ ~IsGame(w) /\ pre = Loop(w, "auto", live)
    BY <1>1, <1>2
  <2> HIDE DEF w
  <2>2. /\ Loop(w, "auto", live) \in Seq(Loops) /\ Quiet(Loop(w, "auto", live))
        /\ \A l \in Range(Loop(w, "auto", live)) : l = [word |-> w, how |-> "auto", todo |-> live]
    BY <2>1, LoopRange
  <2> QED
    BY <2>1, <2>2
<1>3. CASE ~b
  BY <1>3, EmptyStack
<1> QED
  BY <1>2, <1>3

LEMMA OverrunKeeps ==
    ASSUME IInv, TypeOK', NEW s \in Slots, Overrun(s), UNCHANGED <<events, handler, open, writing, got, quit>>
    PROVE  IInv'
<1> DEFINE c == players[s]
           pre == IF started THEN Loop(<<"TEXT", s>>, "auto", Present \ {s}) ELSE <<>>
<1>1. /\ Serving(s) /\ ~Unserved(s) /\ work' = pre \o Rest(s)
      /\ pending' = [pending EXCEPT ![s] = <<>>]
      /\ overrun' = overrun \cup {c}
      /\ players' = Slotless(s)
      /\ closed' = Closing(players[s])
      /\ stop' = IF started /\ stop = "none" THEN "stopped" ELSE stop
      /\ UNCHANGED <<phase, out, version, started, relayed>>
  BY DEF Overrun, OnGone, GoOn, syncVars, joinVars
<1>2. TypeOK /\ WorkInv /\ SeatInv /\ s \in Present
  BY <1>1 DEF IInv, Unserved, Present
<1>3. pre \in Seq(Loops) /\ Quiet(pre) /\ \A l \in Range(pre) : l.how = "auto"
  <2>1. Present \ {s} \in SUBSET Slots
    BY DEF Present
  <2> QED
    BY <2>1, Farewell
<1> HIDE DEF pre
<1>4. pending'[s] = <<>> /\ \A t \in Slots \ {s} : pending'[t] = pending[t]
  BY <1>1, <1>2 DEF TypeOK, EngineTypeOK
<1>5. /\ SeatInv'
      /\ Present' = Present \ {s}
      /\ \A t \in Present' : players'[t] = players[t] /\ players[t] # players[s]
      /\ \A d \in Conns : Joined(d)' <=> Joined(d)
      /\ c \in Conns /\ c \in writing /\ c \notin closed
  BY <1>1, <1>2, Unseat
<1>6. closed' = closed \cup {c}
  BY <1>1 DEF Closing
<1>7. EventInv' /\ OpenInv'
  BY <1>1, <1>6, EventSame, OpenSame DEF IInv
<1>8. stop' = stop \/ phase = "loop"
  BY <1>1, <1>2 DEF WorkInv
<1>9. WorkInv'
  BY <1>1, <1>2, <1>3, <1>5, <1>8, WorkStep
<1>10. VersionInv'
  BY <1>1, <1>5 DEF IInv, VersionInv
<1>11. TellInv'
  <2>1. \A d \in Conns : Told(d) /\ stop' = stop => Told(d)'
    BY <1>1 DEF Told, LastWord
  <2>2. \A d \in closed' : d \in quit' \cup overrun' \/ (phase' # "loop" /\ Told(d)')
    BY <1>1, <1>2, <1>6, <1>8, <2>1 DEF IInv, TellInv, TypeOK, EngineTypeOK
  <2>3. \A d \in closed' : d \in writing' \/ out'[d] = <<>>
    BY <1>1, <1>5, <1>6 DEF IInv, TellInv
  <2>4. \A d \in Conns : got'[d] # <<>> \/ out'[d] # <<>> => Joined(d)'
    BY <1>1, <1>5 DEF IInv, TellInv
  <2> QED
    BY <2>2, <2>3, <2>4 DEF TellInv
<1>12. StreamInv'
  <2>1. \A d \in Conns : Line(d)' = Line(d)
    BY <1>1 DEF Line
  <2>2. \A t \in Present' : t \in Present /\ players'[t] = players[t] /\ t # s /\ SoFar(t)' = SoFar(t)
    <3> TAKE t \in Present'
    <3>1. t \in Present /\ players'[t] = players[t] /\ t # s /\ t \in Slots
      BY <1>5 DEF Present
    <3>2. SoFar(t)' = SoFar(t)
      BY <1>1, <1>4, <3>1 DEF SoFar, Line
    <3> QED
      BY <3>1, <3>2
  <2> QED
    BY <1>1, <1>3, <2>1, <2>2, StreamStep
<1> QED
  BY <1>5, <1>7, <1>9, <1>10, <1>11, <1>12 DEF IInv

(* checkGame is the last loop of a tick: it takes no game word away. *)
LEMMA TailStack ==
    ASSUME NEW st \in Seq(Loops), st # <<>>, ~IsGame(Head(st).word), Head(st).todo = {}
    PROVE  /\ Tail(st) \in Seq(Loops)
           /\ Range(Tail(st)) \subseteq Range(st)
           /\ \A l \in Range(st) : l = Head(st) \/ l \in Range(Tail(st))
           /\ OneGame(st) => OneGame(Tail(st))
           /\ \A t : Debt(Tail(st), t) = Debt(st, t)
<1>1. /\ Tail(st) \in Seq(Loops) /\ Len(Tail(st)) = Len(st) - 1 /\ Len(st) \in Nat \ {0} /\ Head(st) = st[1]
      /\ \A i \in 1..(Len(st) - 1) : Tail(st)[i] = st[i + 1]
  OBVIOUS
<1> DEFINE u == Tail(st)
<1>2. u \in Seq(Loops) /\ Len(u) = Len(st) - 1 /\ \A i \in 1..Len(u) : u[i] = st[i + 1]
  BY <1>1
<1> HIDE DEF u
<1>3. DOMAIN u = 1..Len(u) /\ DOMAIN st = 1..Len(st)
  BY <1>2
<1>4. Range(u) \subseteq Range(st)
  <2> SUFFICES ASSUME NEW l \in Range(u) PROVE l \in Range(st)
    OBVIOUS
  <2>1. PICK i \in 1..Len(u) : l = u[i]
    BY <1>2, RangeAt
  <2>2. i + 1 \in 1..Len(st) /\ l = st[i + 1]
    BY <1>1, <1>2, <2>1
  <2> QED
    BY <2>2, RangeAt
<1>5. \A l \in Range(st) : l = Head(st) \/ l \in Range(u)
  <2> TAKE l \in Range(st)
  <2>1. PICK i \in 1..Len(st) : l = st[i]
    BY RangeAt
  <2>2. CASE i = 1
    BY <1>1, <2>1, <2>2
  <2>3. CASE i # 1
    <3>1. i - 1 \in 1..Len(u) /\ u[i - 1] = st[(i - 1) + 1] /\ (i - 1) + 1 = i
      BY <1>1, <1>2, <2>1, <2>3
    <3>2. u[i - 1] \in Range(u)
      BY <1>2, <3>1, RangeAt
    <3> QED
      BY <2>1, <3>1, <3>2
  <2> QED
    BY <2>2, <2>3
<1>6. OneGame(st) => OneGame(u)
  <2> SUFFICES ASSUME OneGame(st), NEW i \in DOMAIN u, NEW j \in DOMAIN u,
                      IsGame(u[i].word), IsGame(u[j].word)
               PROVE  i = j
    BY DEF OneGame
  <2>1. i + 1 \in DOMAIN st /\ j + 1 \in DOMAIN st /\ u[i] = st[i + 1] /\ u[j] = st[j + 1]
    BY <1>1, <1>2, <1>3
  <2>2. i + 1 = j + 1
    BY <2>1 DEF OneGame
  <2> QED
    BY <1>2, <1>3, <2>2
<1>7. \A t : Debt(u, t) = Debt(st, t)
  BY <1>4, <1>5 DEF Debt
<1> QED
  BY <1>1, <1>4, <1>5, <1>6, <1>7 DEF u

LEMMA CheckGameKeeps ==
    ASSUME IInv, TypeOK', CheckGame, UNCHANGED <<events, handler, open, writing, got, quit>>
    PROVE  IInv'
<1>1. /\ work # <<>> /\ Head(work).how = "check" /\ work' = Tail(work)
      /\ UNCHANGED <<players, closed, phase, out, overrun, version, started, relayed, pending>>
  BY DEF CheckGame, GoOn, joinVars, sendVars
<1>2. TypeOK /\ WorkInv /\ work \in Seq(Loops)
  BY DEF IInv, TypeOK, EngineTypeOK
<1>3. Head(work) \in Range(work) /\ Head(work) \in Loops
  <2>1. Head(work) = work[1] /\ 1 \in 1..Len(work)
    BY <1>1, <1>2
  <2> QED
    BY <1>2, <2>1, RangeAt
<1>4. ~IsGame(Head(work).word) /\ Head(work).todo = {} /\ phase = "loop"
  BY <1>1, <1>2, <1>3 DEF WorkInv, LoopInv, Loops, Sends, CheckEntry
<1>5. /\ Range(Tail(work)) \subseteq Range(work)
      /\ OneGame(work) => OneGame(Tail(work))
      /\ \A t : Debt(Tail(work), t) = Debt(work, t)
  BY <1>1, <1>2, <1>4, TailStack
<1>6. SeatInv' /\ EventInv' /\ OpenInv' /\ VersionInv'
  BY <1>1, SeatSame, EventSame, OpenSame, VersionSame DEF IInv
<1>7. WorkInv'
  <2>1. \A l \in Range(work') : LoopInv(l)'
    BY <1>1, <1>2, <1>4, <1>5 DEF WorkInv, LoopInv
  <2> QED
    BY <1>1, <1>4, <2>1 DEF WorkInv
<1>8. TellInv'
  BY <1>1, <1>4 DEF IInv, TellInv, Joined
<1>9. StreamInv'
  <2>1. Present' = Present /\ \A s \in Present : SoFar(s)' = SoFar(s)
    BY <1>1 DEF Present, SoFar, Line
  <2>2. \A d \in Conns : Line(d)' = Line(d)
    BY <1>1 DEF Line
  <2>3. OneGame(work')
    BY <1>1, <1>5 DEF IInv, StreamInv
  <2>4. OneGame(work)'
    BY <2>3 DEF OneGame
  <2>5. \A s \in Present : Debt(work, s)' = Debt(work, s)
    BY <1>1, <1>5 DEF Debt
  <2>6. \A s \in Present' : players'[s] \in quit' \/ Kept(s)'
    BY <1>1, <2>1, <2>5 DEF IInv, StreamInv, Kept
  <2> QED
    BY <1>1, <2>2, <2>4, <2>6 DEF IInv, StreamInv
<1> QED
  BY <1>6, <1>7, <1>8, <1>9 DEF IInv

-----------------------------------------------------------------------------
(* Handlers: an event is taken, and the loops it begins are entered.       *)

LEMMA EventTail ==
    ASSUME TypeOK, EventInv, events # <<>>, events' = Tail(events), UNCHANGED phase,
           quit \cup closed \subseteq quit' \cup closed',
           \/ UNCHANGED handler
           \/ /\ Head(events)[1] = "JOIN" /\ phase = "loop"
              /\ \A d \in Conns : d # Head(events)[2] => handler'[d] = handler[d]
    PROVE  EventInv'
<1> DEFINE n == Len(events)
           u == Tail(events)
<1>1. /\ n \in Nat \ {0} /\ events \in Seq(Events) /\ DOMAIN events = 1..n
      /\ \A i \in 1..n : events[i] \in Events
      /\ Head(events) = events[1]
  BY DEF TypeOK
<1>2. u \in Seq(Events) /\ Len(u) = n - 1 /\ \A i \in 1..(n - 1) : u[i] = events[i + 1]
  BY <1>1
<1>3. events' = u
  OBVIOUS
<1> HIDE DEF u, n
<1>4. DOMAIN u = 1..(n - 1) /\ \A i \in 1..(n - 1) : i + 1 \in 1..n /\ i + 1 # 1 /\ 1 \in 1..n
  BY <1>1, <1>2
<1>5. \A e : JoinPosted(e)' <=> JoinPosted(e)
  BY DEF JoinPosted
<1>6. \A i \in 1..(n - 1) : JoinPosted(u[i]) => handler'[u[i][2]] = handler[u[i][2]]
  <2> SUFFICES ASSUME NEW i \in 1..(n - 1), JoinPosted(u[i]) PROVE handler'[u[i][2]] = handler[u[i][2]]
    OBVIOUS
  <2>1. u[i] = events[i + 1] /\ i + 1 \in DOMAIN events /\ 1 \in DOMAIN events /\ i + 1 # 1
        /\ events[i + 1] \in Events
    BY <1>1, <1>2, <1>4
  <2>2. u[i][2] \in Conns
    BY <2>1 DEF Events
  <2>3. CASE UNCHANGED handler
    BY <2>3
  <2>4. CASE /\ Head(events)[1] = "JOIN" /\ phase = "loop"
             /\ \A d \in Conns : d # Head(events)[2] => handler'[d] = handler[d]
    <3>1. JoinPosted(events[1]) /\ JoinPosted(events[i + 1])
      BY <1>1, <2>1, <2>4 DEF JoinPosted
    <3>2. events[1][2] # events[i + 1][2]
      BY <2>1, <3>1 DEF EventInv
    <3> QED
      BY <1>1, <2>1, <2>2, <2>4, <3>2
  <2> QED
    BY <2>3, <2>4
<1>7. \A i \in DOMAIN u : JoinPosted(u[i]) =>
        handler'[u[i][2]] = "joining" /\ u[i][3] = VersionOf[u[i][2]]
  <2> SUFFICES ASSUME NEW i \in 1..(n - 1), JoinPosted(u[i])
               PROVE  handler'[u[i][2]] = "joining" /\ u[i][3] = VersionOf[u[i][2]]
    BY <1>4
  <2> DEFINE k == i + 1
  <2>1. u[i] = events[k] /\ k \in DOMAIN events
    BY <1>1, <1>2, <1>4
  <2> HIDE DEF k
  <2>2. handler[events[k][2]] = "joining" /\ events[k][3] = VersionOf[events[k][2]]
    BY <2>1 DEF EventInv
  <2> QED
    BY <1>6, <2>1, <2>2
<1>8. \A i, j \in DOMAIN u : JoinPosted(u[i]) /\ JoinPosted(u[j]) /\ u[i][2] = u[j][2] => i = j
  <2> SUFFICES ASSUME NEW i \in 1..(n - 1), NEW j \in 1..(n - 1),
                      JoinPosted(u[i]), JoinPosted(u[j]), u[i][2] = u[j][2]
               PROVE  i = j
    BY <1>4
  <2> DEFINE k == i + 1
             m == j + 1
  <2>1. u[i] = events[k] /\ k \in DOMAIN events /\ u[j] = events[m] /\ m \in DOMAIN events
    BY <1>1, <1>2, <1>4
  <2> HIDE DEF k, m
  <2>2. k = m
    BY <2>1 DEF EventInv
  <2> QED
    BY <1>1, <2>2 DEF k, m
<1>9. \A i \in DOMAIN u : u[i][1] = "GONE" => u[i][2] \in quit' \cup closed'
  <2> SUFFICES ASSUME NEW i \in 1..(n - 1), u[i][1] = "GONE" PROVE u[i][2] \in quit' \cup closed'
    BY <1>4
  <2> DEFINE k == i + 1
  <2>1. u[i] = events[k] /\ k \in DOMAIN events
    BY <1>1, <1>2, <1>4
  <2> HIDE DEF k
  <2> QED
    BY <2>1 DEF EventInv
<1> QED
  BY <1>3, <1>5, <1>7, <1>8, <1>9 DEF EventInv

LEMMA Taken ==
    ASSUME IInv, NEW kind, NEW c, NEW data, Take(kind, c, data)
    PROVE  /\ c \in Conns /\ data \in Nat
           /\ events # <<>> /\ events' = Tail(events)
           /\ Head(events)[1] = kind /\ Head(events)[2] = c
           /\ phase = "loop" /\ stop = "none" /\ work = <<>>
           /\ UNCHANGED <<got, quit>>
           /\ kind = "JOIN" => handler[c] = "joining" /\ data = VersionOf[c]
           /\ kind = "GONE" => c \in quit \cup closed
<1>1. /\ events # <<>> /\ events' = Tail(events) /\ Head(events) = <<kind, c, data>>
      /\ phase = "loop" /\ stop = "none" /\ work = <<>>
      /\ UNCHANGED <<got, quit>>
  BY DEF Take, Looping, clientVars
<1>2. Head(events) = events[1] /\ 1 \in DOMAIN events /\ Head(events) \in Events
  BY <1>1 DEF IInv, TypeOK
<1>3. events[1][1] = kind /\ events[1][2] = c /\ events[1][3] = data
  BY <1>1, <1>2
<1>4. c \in Conns /\ data \in Nat
  BY <1>2, <1>3 DEF Events
<1>5. kind = "JOIN" => handler[c] = "joining" /\ data = VersionOf[c]
  BY <1>1, <1>2, <1>3 DEF IInv, EventInv, JoinPosted
<1>6. kind = "GONE" => c \in quit \cup closed
  BY <1>2, <1>3 DEF IInv, EventInv
<1> QED
  BY <1>1, <1>2, <1>3, <1>4, <1>5, <1>6

(* While Run loops, a closed channel is one that was left or overrun.      *)
LEMMA TellLoop ==
    ASSUME TellInv, phase = "loop", UNCHANGED <<closed, got, out, writing, players>>,
           quit \subseteq quit', overrun \subseteq overrun'
    PROVE  TellInv'
BY DEF TellInv, Joined

LEMMA WorkNew ==
    ASSUME WorkInv, phase = "loop", phase' = "loop",
           \A l \in Range(work') : l.how # "last" /\ (l.how \in {"ping", "check"} => ~IsGame(l.word))
    PROVE  WorkInv'
<1>1. \A l \in Range(work') : LoopInv(l)'
  BY DEF LoopInv
<1> QED
  BY <1>1 DEF WorkInv

LEMMA StreamNew ==
    ASSUME IInv, work = <<>>, OneGame(work'), UNCHANGED <<started, out, got, quit>>,
           \A t \in Present' : t \in Present /\ players'[t] = players[t] /\ pending'[t] = pending[t],
           \/ relayed' = relayed /\ \A t \in Present' : Debt(work', t) = {}
           \/ \E w \in Words : /\ started /\ relayed' = Append(relayed, w)
                               /\ \A t \in Present' : Debt(work', t) = {w}
    PROVE  StreamInv'
<1>1. OneGame(work)'
  BY DEF OneGame
<1>2. \A t : Debt(work, t)' = Debt(work', t)
  BY DEF Debt
<1>3. \A d : Line(d)' = Line(d)
  BY DEF Line
<1>4. \A t \in Present' : SoFar(t)' = SoFar(t)
  BY <1>3 DEF SoFar, Line
<1>5. \A t : Debt(work, t) = {}
  BY EmptyStack
<1>6. StreamInv /\ TypeOK /\ relayed \in Seq(Words)
  BY DEF IInv, TypeOK, EngineTypeOK
<1>7. CASE relayed' = relayed /\ \A t \in Present' : Debt(work', t) = {}
  <2>1. \A t \in Present' : players'[t] \in quit' \/ Kept(t)'
    BY <1>2, <1>4, <1>5, <1>6, <1>7 DEF StreamInv, Kept
  <2> QED
    BY <1>1, <1>3, <1>6, <1>7, <2>1 DEF StreamInv
<1>8. ASSUME NEW w \in Words, started, relayed' = Append(relayed, w),
             \A t \in Present' : Debt(work', t) = {w}
      PROVE  StreamInv'
  <2>1. \A t \in Present' : players'[t] \in quit' \/ Kept(t)'
    BY <1>2, <1>4, <1>5, <1>6, <1>8 DEF StreamInv, Kept
  <2>2. \A c \in Conns : IsPrefix(GameWords(got[c]), Append(relayed, w))
    <3> TAKE c \in Conns
    <3>1. GameWords(got[c]) \in Seq(Words) /\ IsPrefix(GameWords(got[c]), relayed)
      BY <1>6, LineType DEF StreamInv
    <3> QED
      BY <1>6, <1>8, <3>1, PrefixAppend
  <2>3. \A c \in Conns : c \in quit \/ IsPrefix(Line(c), Append(relayed, w))
    <3> TAKE c \in Conns
    <3>1. Line(c) \in Seq(Words) /\ (c \in quit \/ IsPrefix(Line(c), relayed))
      BY <1>6, LineType DEF StreamInv
    <3> QED
      BY <1>6, <1>8, <3>1, PrefixAppend
  <2>4. started' = started
    OBVIOUS
  <2> QED
    BY <1>1, <1>3, <1>8, <2>1, <2>2, <2>3, <2>4 DEF StreamInv
<1> QED
  BY <1>7, <1>8

LEMMA RefuseJoinKeeps ==
    ASSUME IInv, TypeOK', NEW c, NEW v, RefuseJoin(c, v)
    PROVE  IInv'
<1>1. /\ handler' = [handler EXCEPT ![c] = "ended"] /\ open' = open \ {c}
      /\ UNCHANGED <<players, closed, writing, phase, stop, work, out,
                     overrun, version, started, relayed, pending>>
  BY DEF RefuseJoin, engineVars, syncVars, joinVars, sendVars
<1>2. /\ c \in Conns /\ events # <<>> /\ events' = Tail(events) /\ phase = "loop"
      /\ Head(events)[1] = "JOIN" /\ Head(events)[2] = c /\ handler[c] = "joining"
      /\ UNCHANGED <<got, quit>>
  BY Taken DEF RefuseJoin
<1>3. TypeOK /\ handler'[c] = "ended" /\ \A d \in Conns \ {c} : handler'[d] = handler[d]
  BY <1>1, <1>2 DEF IInv, TypeOK
<1>4. EventInv'
  BY <1>1, <1>2, <1>3, EventTail DEF IInv
<1>5. ~Joined(c)
  BY <1>2 DEF IInv, SeatInv
<1>6. SeatInv'
  <2>1. \A d \in Conns : Joined(d)' <=> Joined(d)
    BY <1>1 DEF Joined
  <2>2. Present' = Present
    BY <1>1 DEF Present
  <2>3. \A d \in Conns : Joined(d)' => handler'[d] \in {"accepted", "reading", "ended"}
    BY <1>3, <2>1 DEF IInv, SeatInv
  <2>4. \A d \in writing' : Joined(d)'
    BY <1>1, <2>1 DEF IInv, SeatInv, TypeOK
  <2> QED
    BY <1>1, <2>2, <2>3, <2>4 DEF IInv, SeatInv
<1>7. OpenInv'
  <2>1. c \notin writing
    BY <1>5 DEF IInv, SeatInv
  <2> QED
    BY <1>1, <1>2, <1>3, <2>1 DEF IInv, OpenInv
<1>8. WorkInv' /\ VersionInv' /\ TellInv' /\ StreamInv'
  BY <1>1, <1>2, WorkSame, VersionSame, TellSame, StreamSame DEF IInv
<1> QED
  BY <1>4, <1>6, <1>7, <1>8 DEF IInv

(* Messages that touch neither the players nor what they are sent *)
LEMMA QuietMessageKeeps ==
    ASSUME IInv, TypeOK', NEW kind, NEW c, NEW data, Take(kind, c, data),
           UNCHANGED <<players, closed, writing, handler, open, phase, stop, work, out,
                       overrun, version, started, relayed, pending>>
    PROVE  IInv'
<1>1. events # <<>> /\ events' = Tail(events) /\ UNCHANGED <<got, quit>>
  BY Taken
<1>2. EventInv'
  BY <1>1, EventTail DEF IInv
<1> QED
  BY <1>1, <1>2, SeatSame, OpenSame, WorkSame, VersionSame, TellSame, StreamSame DEF IInv

(* Messages that are sent on to everyone *)
LEMMA SentOnKeeps ==
    ASSUME IInv, TypeOK', NEW kind, NEW c, NEW data, Take(kind, c, data), NEW w \in Words,
           work' = Loop(w, "auto", Present),
           UNCHANGED <<players, closed, writing, handler, open, phase, stop, out,
                       overrun, version, started, pending>>,
           \/ ~IsGame(w) /\ UNCHANGED relayed
           \/ IsGame(w) /\ started /\ relayed' = Append(relayed, w)
    PROVE  IInv'
<1>1. events # <<>> /\ events' = Tail(events) /\ phase = "loop" /\ work = <<>> /\ UNCHANGED <<got, quit>>
  BY Taken
<1>2. EventInv'
  BY <1>1, EventTail DEF IInv
<1>3. /\ \A l \in Range(work') : l = [word |-> w, how |-> "auto", todo |-> Present]
      /\ OneGame(work')
      /\ \A s \in Present : Debt(work', s) = IF IsGame(w) THEN {w} ELSE {}
  BY PresentSlots, LoopRange
<1>4. WorkInv'
  BY <1>1, <1>3, WorkNew DEF IInv
<1>5. Present' = Present
  BY DEF Present
<1>6. StreamInv'
  BY <1>1, <1>3, <1>5, StreamNew
<1> QED
  BY <1>1, <1>2, <1>4, <1>6, SeatSame, OpenSame, VersionSame, TellLoop DEF IInv

LEMMA GoneKeeps ==
    ASSUME IInv, TypeOK', NEW s \in Present, NEW data, Take("GONE", players[s], data), Gone(s),
           UNCHANGED connVars
    PROVE  IInv'
<1> DEFINE c == players[s]
           pre == IF started THEN Loop(<<"TEXT", s>>, "auto", Present \ {s}) ELSE <<>>
<1>1. /\ work' = pre \o <<>>
      /\ players' = Slotless(s)
      /\ closed' = Closing(players[s])
      /\ UNCHANGED <<pending, overrun, phase, out, version, started, relayed, handler, writing, open>>
  BY DEF Gone, OnGone, GoOn, syncVars, joinVars, connVars
<1>2. /\ events # <<>> /\ events' = Tail(events) /\ phase = "loop" /\ work = <<>> /\ UNCHANGED <<got, quit>>
      /\ c \in Conns /\ c \in quit \cup closed
  BY Taken
<1>3. pre \in Seq(Loops) /\ Quiet(pre) /\ \A l \in Range(pre) : l.how = "auto"
  <2>1. Present \ {s} \in SUBSET Slots /\ s \in Slots
    BY DEF Present
  <2> QED
    BY <2>1, Farewell
<1> HIDE DEF pre
<1>4. TypeOK /\ SeatInv
  BY DEF IInv
<1>5. /\ SeatInv'
      /\ Present' = Present \ {s}
      /\ \A t \in Present' : players'[t] = players[t] /\ players[t] # players[s]
      /\ \A d \in Conns : Joined(d)' <=> Joined(d)
      /\ c \in Conns /\ c \in writing /\ c \notin closed
  BY <1>1, <1>4, Unseat
<1>6. closed' = closed \cup {c} /\ c \in quit
  BY <1>1, <1>2, <1>5 DEF Closing
<1>7. EventInv' /\ OpenInv'
  BY <1>1, <1>2, <1>4, <1>6, EventTail, OpenSame DEF IInv
<1>8. work' = pre
  BY <1>1, <1>3
<1>9. WorkInv'
  BY <1>1, <1>2, <1>3, <1>8, WorkNew DEF IInv
<1>10. VersionInv'
  BY <1>1, <1>5 DEF IInv, VersionInv
<1>11. TellInv'
  <2>1. \A d \in closed' : d \in quit' \cup overrun'
    BY <1>1, <1>2, <1>6 DEF IInv, TellInv
  <2>2. \A d \in closed' : d \in writing' \/ out'[d] = <<>>
    BY <1>1, <1>5, <1>6 DEF IInv, TellInv
  <2>3. \A d \in Conns : got'[d] # <<>> \/ out'[d] # <<>> => Joined(d)'
    BY <1>1, <1>2, <1>5 DEF IInv, TellInv
  <2> QED
    BY <2>1, <2>2, <2>3 DEF TellInv
<1>12. StreamInv'
  <2>1. OneGame(work')
    BY <1>3, <1>8, EmptyStack, PushQuiet, <1>1
  <2>2. \A t \in Present' : Debt(work', t) = {}
    BY <1>3, <1>8, QuietDebt
  <2> QED
    BY <1>1, <1>2, <1>5, <2>1, <2>2, StreamNew
<1> QED
  BY <1>5, <1>7, <1>9, <1>10, <1>11, <1>12 DEF IInv

LEMMA NoGameWords ==
    ASSUME NEW s \in Seq(Words), \A i \in 1..Len(s) : ~IsGame(s[i])
    PROVE  GameWords(s) = <<>>
<1>1. \A i \in 1..Len(s) : s[i] \notin GameSet
  BY GameSetIs
<1> QED
  BY <1>1, PickedNone DEF GameWords, GameSet

LEMMA TagsQuiet ==
    ASSUME NEW n \in Nat
    PROVE  Tags(n) \in Seq(Words) /\ GameWords(Tags(n)) = <<>>
<1>1. Tags(n) \in Seq(Words) /\ Len(Tags(n)) = n
  BY TagsType
<1>2. \A i \in 1..n : ~IsGame(Tags(n)[i])
  <2> TAKE i \in 1..n
  <2>1. Tags(n)[i] = <<"TAG", 0>>
    BY DEF Tags
  <2> QED
    BY <2>1 DEF IsGame
<1> QED
  BY <1>1, <1>2, NoGameWords

LEMMA GreetingQuiet ==
    ASSUME NEW s \in Slots, NEW greeting,
           greeting = <<<<"KEY", s>>, <<"PLAYERS", s>>>> \o Tags(Cardinality(Present) + 1)
    PROVE  greeting \in Seq(Words) /\ GameWords(greeting) = <<>>
<1> DEFINE n == Cardinality(Present) + 1
           a == <<"KEY", s>>
           b == <<"PLAYERS", s>>
<1>1. n \in Nat
  BY PresentCardinality
<1>2. a \in Words /\ b \in Words /\ ~IsGame(a) /\ ~IsGame(b)
  BY WordsAre, SlotsAreNat DEF IsGame
<1>3. greeting = <<a, b>> \o Tags(n)
  OBVIOUS
<1> HIDE DEF n, a, b
<1>4. <<a, b>> \in Seq(Words) /\ Len(<<a, b>>) = 2 /\ <<a, b>>[1] = a /\ <<a, b>>[2] = b
  BY <1>2
<1>5. \A i \in 1..2 : ~IsGame(<<a, b>>[i])
  <2> TAKE i \in 1..2
  <2>1. CASE i = 1
    BY <1>2, <1>4, <2>1
  <2>2. CASE i = 2
    BY <1>2, <1>4, <2>2
  <2> QED
    BY <2>1, <2>2
<1> DEFINE h == <<a, b>>
<1>6. h \in Seq(Words) /\ Len(h) = 2 /\ \A i \in 1..2 : ~IsGame(h[i])
  BY <1>4, <1>5
<1> HIDE DEF h
<1>7. GameWords(h) = <<>>
  BY <1>6, NoGameWords
<1> DEFINE t == Tags(n)
<1>8. t \in Seq(Words) /\ GameWords(t) = <<>>
  BY <1>1, TagsQuiet
<1> HIDE DEF t
<1>9. h \o t \in Seq(Words) /\ GameWords(h \o t) = <<>> \o <<>>
  BY <1>6, <1>7, <1>8, GameWordsConcat
<1>10. <<>> \o <<>> = <<>>
  OBVIOUS
<1>11. greeting = h \o t
  BY <1>3 DEF h, t
<1> QED
  BY <1>9, <1>10, <1>11

(* Nothing a join sends is a game word: a player that joins, before the    *)
(* start, has missed none.                                                 *)
LEMMA JoinStream ==
    ASSUME IInv, work = <<>>, ~started, NEW s \in Slots \ Present, NEW c \in Conns, ~Joined(c),
           NEW greeting \in Seq(Words), GameWords(greeting) = <<>>,
           players' = [players EXCEPT ![s] = c],
           out' = [out EXCEPT ![c] = Append(@, greeting)],
           \A t \in Slots : GameWords(pending'[t]) = IF t = s THEN <<>> ELSE GameWords(pending[t]),
           work' = <<>>, UNCHANGED <<got, quit, relayed>>
    PROVE  StreamInv'
<1>1. relayed = <<>> /\ relayed' = <<>>
  BY DEF IInv, StreamInv
<1>2. got[c] = <<>> /\ out[c] = <<>>
  BY DEF IInv, TellInv
<1>3. /\ out'[c] = Append(<<>>, greeting) /\ \A d \in Conns \ {c} : out'[d] = out[d]
      /\ players'[s] = c /\ \A t \in Slots \ {s} : players'[t] = players[t]
  BY <1>2 DEF IInv, TypeOK, EngineTypeOK
<1>4. c # Nobody
  BY EngineAssumption
<1>5. Present' = Present \cup {s}
  BY <1>3, <1>4 DEF Present
<1>6. \A d \in Conns : Line(d)' = IF d = c THEN <<>> ELSE Line(d)
  <2> TAKE d \in Conns
  <2>1. CASE d = c
    <3>1. FlattenSeq(Append(<<>>, greeting)) = greeting
      <4>1. Append(<<>>, greeting) = <<greeting>>
        OBVIOUS
      <4> QED
        BY <4>1, FlattenOne
    <3>2. Line(c)' = GameWords(<<>>) \o GameWords(FlattenSeq(Append(<<>>, greeting)))
      BY <1>2, <1>3 DEF Line
    <3>3. Line(c)' = <<>> \o <<>>
      BY <3>1, <3>2, GameWordsEmpty
    <3>4. <<>> \o <<>> = <<>>
      OBVIOUS
    <3> QED
      BY <2>1, <3>3, <3>4 DEF Line
  <2>2. CASE d # c
    BY <1>3, <2>2 DEF Line
  <2> QED
    BY <2>1, <2>2
<1>7. IsPrefix(<<>>, <<>>)
  BY PrefixSelf, EmptySeq
<1>8. \A d \in Conns : d \in quit' \/ IsPrefix(Line(d)', relayed')
  BY <1>1, <1>6, <1>7 DEF IInv, StreamInv
<1>9. \A t \in Present' : players'[t] \in quit' \/ (SoFar(t)' = <<>> /\ Debt(work, t)' = {})
  <2> TAKE t \in Present'
  <2>1. Debt(work, t)' = {}
    BY EmptyStack DEF Debt
  <2>2. CASE t = s
    <3>1. \A d \in Conns : d = c => Line(d)' = <<>>
      BY <1>6
    <3>2. SoFar(t)' = <<>> \o <<>>
      BY <1>3, <2>2, <3>1 DEF SoFar, Line
    <3>3. <<>> \o <<>> = <<>>
      OBVIOUS
    <3> QED
      BY <2>1, <3>2, <3>3
  <2>3. CASE t # s
    <3>1. t \in Present /\ t \in Slots /\ players'[t] = players[t] /\ players[t] \in Conns /\ players[t] # c
      BY <1>3, <1>5, <2>3 DEF Present, Joined, IInv, TypeOK, EngineTypeOK
    <3>2. \A d \in Conns : d = players[t] => Line(d)' = Line(d)
      BY <1>6, <3>1
    <3>3. SoFar(t)' = SoFar(t)
      BY <2>3, <3>1, <3>2 DEF SoFar, Line
    <3>4. Debt(work, t) = {}
      BY EmptyStack
    <3>5. players[t] \in quit \/ SoFar(t) = <<>>
      BY <1>1, <3>1, <3>4 DEF IInv, StreamInv, Kept
    <3> QED
      BY <2>1, <3>1, <3>3, <3>5
  <2> QED
    BY <2>2, <2>3
<1>10. \A t \in Present' : players'[t] \in quit' \/ Kept(t)'
  BY <1>1, <1>9 DEF Kept
<1>11. OneGame(work)'
  <2>1. OneGame(work')
    BY EmptyStack
  <2> QED
    BY <2>1 DEF OneGame
<1>12. \A d \in Conns : IsPrefix(GameWords(got'[d]), relayed')
  BY <1>1 DEF IInv, StreamInv
<1> QED
  BY <1>1, <1>8, <1>10, <1>11, <1>12 DEF StreamInv

LEMMA AcceptJoinKeeps ==
    ASSUME IInv, TypeOK', NEW c, NEW v, AcceptJoin(c, v)
    PROVE  IInv'
<1>1. PICK s \in Slots \ Present : JoinAt(s, c, v)
  BY DEF AcceptJoin, Join
<1> DEFINE full == Slots = Present \cup {s}
           kept == [pending EXCEPT ![s] = <<>>]
           greeting == <<<<"KEY", s>>, <<"PLAYERS", s>>>> \o Tags(Cardinality(Present) + 1)
<1>2. /\ players' = [players EXCEPT ![s] = c]
      /\ version' = IF Present = {} THEN v ELSE version
      /\ out' = [out EXCEPT ![c] = Append(@, greeting)]
      /\ pending' = IF full THEN [t \in Slots |-> kept[t] \o Tags(Players)] ELSE kept
      /\ work' = <<>>
      /\ UNCHANGED <<closed, overrun, relayed, stop, phase>>
  BY <1>1 DEF JoinAt, GoOn
<1>3. /\ ~started /\ (Present # {} => version = v)
      /\ handler' = [handler EXCEPT ![c] = "accepted"]
      /\ writing' = writing \cup {c}
      /\ open' = open
  BY DEF AcceptJoin, JoinRefused
<1>4. /\ c \in Conns /\ events # <<>> /\ events' = Tail(events) /\ phase = "loop" /\ work = <<>>
      /\ Head(events)[1] = "JOIN" /\ Head(events)[2] = c /\ handler[c] = "joining" /\ v = VersionOf[c]
      /\ UNCHANGED <<got, quit>>
  BY Taken DEF AcceptJoin
<1>5. TypeOK /\ handler'[c] = "accepted" /\ \A d \in Conns \ {c} : handler'[d] = handler[d]
  BY <1>3, <1>4 DEF IInv, TypeOK
<1>6. ~Joined(c)
  BY <1>4 DEF IInv, SeatInv
<1>7. greeting \in Seq(Words) /\ GameWords(greeting) = <<>>
  <2>1. s \in Slots
    OBVIOUS
  <2> QED
    BY <2>1, GreetingQuiet
<1>8. kept \in [Slots -> Seq(Words)] /\ kept[s] = <<>> /\ \A t \in Slots \ {s} : kept[t] = pending[t]
  BY <1>5, EmptySeq DEF TypeOK, EngineTypeOK
<1>9. \A t \in Slots : GameWords(pending'[t]) = IF t = s THEN <<>> ELSE GameWords(pending[t])
  <2> HIDE DEF kept, full
  <2> TAKE t \in Slots
  <2> DEFINE tags == Tags(Players)
             k == kept[t]
  <2>1. k \in Seq(Words) /\ GameWords(k) = IF t = s THEN <<>> ELSE GameWords(pending[t])
    BY <1>8, GameWordsEmpty
  <2>2. tags \in Seq(Words) /\ GameWords(tags) = <<>>
    <3>1. Players \in Nat
      BY EngineAssumption
    <3> QED
      BY <3>1, TagsQuiet
  <2>3. pending'[t] = k \o tags \/ pending'[t] = k
    BY <1>2
  <2> HIDE DEF tags, k
  <2>4. GameWords(k \o tags) = GameWords(k) \o <<>> /\ GameWords(k) \in Seq(Words)
    BY <2>1, <2>2, GameWordsConcat, GameWordsType
  <2>5. GameWords(k) \o <<>> = GameWords(k)
    BY <2>4
  <2> QED
    BY <2>1, <2>3, <2>4, <2>5
<1> HIDE DEF kept, full, greeting
<1>10. StreamInv'
  BY <1>2, <1>3, <1>4, <1>6, <1>7, <1>9, JoinStream
<1>11. EventInv'
  BY <1>2, <1>4, <1>5, EventTail DEF IInv
<1>12. /\ players'[s] = c /\ \A t \in Slots \ {s} : players'[t] = players[t]
       /\ c # Nobody /\ s \in Slots
  BY <1>2, <1>5, EngineAssumption, <1>4 DEF TypeOK, EngineTypeOK
<1>13. Present' = Present \cup {s}
  BY <1>12 DEF Present
<1>14. \A t \in Present : t # s /\ t \in Slots /\ players'[t] = players[t] /\ players[t] # c
  BY <1>6, <1>12 DEF Present, Joined
<1>15. SeatInv'
  <2>1. \A d \in Conns : Joined(d)' <=> (Joined(d) \/ d = c)
    <3>1. players[s] = Nobody /\ Nobody \notin Conns
      BY EngineAssumption DEF Present
    <3> QED
      BY <1>2, <1>12, <3>1 DEF Joined
  <2>2. \A t, u \in Present' : players'[t] = players'[u] => t = u
    BY <1>12, <1>13, <1>14 DEF IInv, SeatInv
  <2>3. \A t \in Present' : players'[t] \notin closed' /\ players'[t] \in writing'
    BY <1>2, <1>3, <1>6, <1>12, <1>13, <1>14 DEF IInv, SeatInv, Joined
  <2>4. \A d \in Conns : Joined(d)' => handler'[d] \in {"accepted", "reading", "ended"}
    BY <1>5, <2>1 DEF IInv, SeatInv
  <2>5. \A d \in writing' : Joined(d)'
    BY <1>3, <1>4, <1>5, <2>1 DEF IInv, SeatInv, TypeOK
  <2> QED
    BY <2>2, <2>3, <2>4, <2>5 DEF SeatInv
<1>16. OpenInv'
  BY <1>2, <1>3, <1>4, <1>5 DEF IInv, OpenInv
<1>17. WorkInv'
  <2>1. Range(work') = {}
    BY <1>2, EmptyStack
  <2> QED
    BY <1>2, <1>4, <2>1, WorkNew DEF IInv
<1>18. TellInv'
  <2>1. \A d \in closed' : d \in quit' \cup overrun'
    BY <1>2, <1>4 DEF IInv, TellInv
  <2>2. \A d \in Conns \ {c} : out'[d] = out[d]
    BY <1>2, <1>5 DEF TypeOK, EngineTypeOK
  <2>3. \A d \in closed' : d \in writing' \/ out'[d] = <<>>
    BY <1>2, <1>3, <1>4, <1>5, <2>2 DEF IInv, TellInv, TypeOK, EngineTypeOK
  <2>4. \A d \in Conns : Joined(d) \/ d = c => Joined(d)'
    <3>1. players[s] = Nobody /\ Nobody \notin Conns
      BY EngineAssumption DEF Present
    <3> QED
      BY <1>2, <1>12, <3>1 DEF Joined
  <2>5. \A d \in Conns : got'[d] # <<>> \/ out'[d] # <<>> => Joined(d)'
    BY <1>4, <2>2, <2>4 DEF IInv, TellInv
  <2> QED
    BY <2>1, <2>3, <2>5 DEF TellInv
<1>19. VersionInv'
  BY <1>2, <1>3, <1>4, <1>12, <1>13, <1>14 DEF IInv, VersionInv
<1> QED
  BY <1>10, <1>11, <1>15, <1>16, <1>17, <1>18, <1>19 DEF IInv

LEMMA HandleMessageKeeps ==
    ASSUME IInv, TypeOK', NEW s \in Present, NEW kind, NEW data, HandleMessage(s, kind, data)
    PROVE  IInv'
<1>1. Take(kind, players[s], data) /\ UNCHANGED connVars
  BY DEF HandleMessage
<1>2. UNCHANGED <<handler, writing, open>>
  BY <1>1 DEF connVars
<1>3. data \in Nat /\ work = <<>> /\ s \in Slots
  BY <1>1, Taken DEF Present
<1>4. CASE OnAck(s, data) \/ OnCheck(s, kind, data) \/ OnPong(s)
  <2>1. UNCHANGED <<players, closed, phase, stop, work, out, overrun, version, started, relayed, pending>>
    BY <1>4 DEF OnAck, OnCheck, OnPong, sendVars, joinVars
  <2> QED
    BY <1>1, <1>2, <2>1, QuietMessageKeeps
<1>5. CASE OnInput(data)
  <2>1. /\ UNCHANGED <<players, closed, phase, stop, out, overrun, version, started, pending>>
        /\ relayed' = IF started THEN Append(relayed, <<"INPUT", data>>) ELSE relayed
        /\ work' = IF started THEN Loop(<<"INPUT", data>>, "auto", Present) ELSE <<>>
    BY <1>5 DEF OnInput, GoOn, sendVars, joinVars
  <2>2. CASE started
    <3>1. <<"INPUT", data>> \in Words /\ IsGame(<<"INPUT", data>>)
      BY <1>3, WordsAre DEF IsGame
    <3> QED
      BY <1>1, <1>2, <2>1, <2>2, <3>1, SentOnKeeps
  <2>3. CASE ~started
    BY <1>1, <1>2, <1>3, <2>1, <2>3, QuietMessageKeeps
  <2> QED
    BY <2>2, <2>3 DEF IInv, TypeOK, EngineTypeOK
<1>6. CASE OnText(s)
  <2>1. /\ UNCHANGED <<players, closed, phase, stop, out, overrun, version, started, pending, relayed>>
        /\ work' = Loop(<<"TEXT", s>>, "auto", Present)
    BY <1>6 DEF OnText, GoOn, sendVars, joinVars
  <2>2. <<"TEXT", s>> \in Words /\ ~IsGame(<<"TEXT", s>>)
    BY <1>3, WordsAre, SlotsAreNat DEF IsGame
  <2> QED
    BY <1>1, <1>2, <2>1, <2>2, SentOnKeeps
<1>7. CASE kind = "GONE" /\ Gone(s)
  BY <1>1, <1>7, GoneKeeps
<1> QED
  BY <1>4, <1>5, <1>6, <1>7 DEF HandleMessage

LEMMA HandleEventKeeps ==
    ASSUME IInv, TypeOK', HandleEvent
    PROVE  IInv'
<1> DEFINE kind == Head(events)[1]
           c == Head(events)[2]
           data == Head(events)[3]
<1>1. \/ RefuseJoin(c, data)
      \/ AcceptJoin(c, data)
      \/ \E s \in Present : HandleMessage(s, kind, data)
      \/ IgnoreMessage(kind, c, data)
  BY DEF HandleEvent
<1> HIDE DEF kind, c, data
<1>2. CASE IgnoreMessage(kind, c, data)
  <2>1. /\ Take(kind, c, data)
        /\ UNCHANGED <<players, closed, writing, handler, open, phase, stop, work, out,
                       overrun, version, started, relayed, pending>>
    BY <1>2 DEF IgnoreMessage, engineVars, syncVars, joinVars, sendVars, connVars
  <2> QED
    BY <2>1, QuietMessageKeeps
<1> QED
  BY <1>1, <1>2, RefuseJoinKeeps, AcceptJoinKeeps, HandleMessageKeeps

LEMMA StatusQuiet ==
    ASSUME TypeOK
    PROVE  \A l \in Range(Status) : ~IsGame(l.word) /\ l.how = "auto"
<1> DEFINE P == [word : {<<"LAG", 0>>, <<"LATENCY", 0>>}, how : {"auto"}, todo : {Present}]
<1>1. Status \in Seq(P)
  BY StatusType
<1>2. \A l \in P : ~IsGame(l.word) /\ l.how = "auto"
  BY DEF IsGame
<1> HIDE DEF P
<1>3. \A l \in Range(Status) : l \in P
  BY <1>1 DEF Range
<1> QED
  BY <1>2, <1>3

LEMMA TakeTickKeeps ==
    ASSUME IInv, TypeOK', TakeTick
    PROVE  IInv'
<1> DEFINE word == <<"FRAME", frame + 1>>
           a == IF frame % StatusEvery = 0 THEN Status ELSE <<>>
           b == Loop(word, "flush", Present)
           p == IF (frame + 1) % PingEvery = 0 THEN Loop(<<"PING", 0>>, "ping", Present) ELSE <<>>
           k == <<CheckEntry>>
<1>1. /\ work' = a \o b \o p \o k
      /\ relayed' = Append(relayed, word)
      /\ started /\ work = <<>> /\ phase = "loop"
      /\ UNCHANGED <<players, closed, phase, stop, out, overrun, version, started, pending,
                     events, handler, writing, open, got, quit>>
  BY DEF TakeTick, Tick, Looping, GoOn, joinVars, sendVars, connVars, clientVars
<1>2. TypeOK /\ word \in Words /\ IsGame(word)
  <2>1. TypeOK
    BY DEF IInv
  <2>2. frame \in Nat
    BY <2>1 DEF TypeOK, EngineTypeOK
  <2>3. frame + 1 \in Nat
    BY <2>2
  <2> QED
    BY <2>1, <2>3, WordsAre DEF IsGame
<1>3. <<"PING", 0>> \in Words /\ ~IsGame(<<"PING", 0>>)
  BY WordsAre DEF IsGame
<1>4. a \in Seq(Loops) /\ \A l \in Range(a) : ~IsGame(l.word) /\ l.how = "auto"
  BY <1>2, StatusLoops, StatusQuiet, EmptyStack
<1> HIDE DEF word
<1>5. /\ b \in Seq(Loops) /\ OneGame(b)
      /\ \A l \in Range(b) : l.how = "flush"
      /\ \A s \in Present : Debt(b, s) = {word}
  BY <1>2, PresentSlots, LoopRange
<1>6. p \in Seq(Loops) /\ \A l \in Range(p) : ~IsGame(l.word) /\ l.how = "ping"
  <2> DEFINE w == <<"PING", 0>>
  <2>1. w \in Words /\ ~IsGame(w)
    BY <1>3
  <2> HIDE DEF w
  <2>2. /\ Loop(w, "ping", Present) \in Seq(Loops)
        /\ \A l \in Range(Loop(w, "ping", Present)) : ~IsGame(l.word) /\ l.how = "ping"
    BY <2>1, PresentSlots, LoopRange
  <2> QED
    BY <2>2, EmptyStack DEF w
<1>7. k \in Seq(Loops) /\ \A l \in Range(k) : ~IsGame(l.word) /\ l.how = "check"
  <2>1. CheckEntry \in Loops /\ ~IsGame(CheckEntry.word) /\ CheckEntry.how = "check"
    BY DEF Loops, CheckEntry, IsGame
  <2>2. k \in Seq(Loops) /\ DOMAIN k = 1..1 /\ k[1] = CheckEntry
    BY <2>1, OneElement
  <2> HIDE DEF k
  <2>3. \A l \in Range(k) : l = CheckEntry
    BY <2>2 DEF Range
  <2> QED
    BY <2>1, <2>2, <2>3
<1> HIDE DEF a, b, p, k
<1>8. Quiet(a) /\ Quiet(p) /\ Quiet(k)
  BY <1>4, <1>6, <1>7 DEF Quiet
<1> DEFINE ab == a \o b
           abp == ab \o p
<1>9. /\ ab \in Seq(Loops) /\ OneGame(ab) /\ Range(ab) = Range(a) \cup Range(b)
      /\ \A s : Debt(ab, s) = Debt(b, s)
  BY <1>4, <1>5, <1>8, ConcatRange, PushQuiet
<1> HIDE DEF ab
<1>10. /\ abp \in Seq(Loops) /\ OneGame(abp) /\ Range(abp) = Range(ab) \cup Range(p)
       /\ \A s : Debt(abp, s) = Debt(ab, s)
  BY <1>6, <1>8, <1>9, ConcatRange, PushQuiet
<1> HIDE DEF abp
<1>11. /\ OneGame(abp \o k) /\ Range(abp \o k) = Range(abp) \cup Range(k)
       /\ \A s : Debt(abp \o k, s) = Debt(abp, s)
  BY <1>7, <1>8, <1>10, ConcatRange, PushQuiet
<1>12. work' = abp \o k
  BY <1>1 DEF ab, abp
<1>13. Present' = Present
  BY <1>1 DEF Present
<1>14. StreamInv'
  <2>1. \A t \in Present' : Debt(work', t) = {word}
    BY <1>5, <1>9, <1>10, <1>11, <1>12, <1>13
  <2> QED
    BY <1>1, <1>2, <1>11, <1>12, <1>13, <2>1, StreamNew
<1>15. WorkInv'
  <2>1. \A l \in Range(work') : l.how # "last" /\ (l.how \in {"ping", "check"} => ~IsGame(l.word))
    BY <1>4, <1>5, <1>6, <1>7, <1>9, <1>10, <1>11, <1>12
  <2> QED
    BY <1>1, <2>1, WorkNew DEF IInv
<1>16. SeatInv' /\ EventInv' /\ OpenInv' /\ VersionInv' /\ TellInv'
  BY <1>1, SeatSame, EventSame, OpenSame, VersionSame, TellSame DEF IInv
<1> QED
  BY <1>14, <1>15, <1>16 DEF IInv

LEMMA StopKeeps ==
    ASSUME IInv, TypeOK', NEW r, Stop(r), UNCHANGED <<events, connVars, up, clientVars>>
    PROVE  IInv'
<1>1. /\ work = <<>> /\ work' = <<>> /\ phase = "loop"
      /\ UNCHANGED <<players, closed, phase, out, overrun, version, started, pending, relayed,
                     events, handler, writing, open, got, quit>>
  BY DEF Stop, Looping, GoOn, syncVars, joinVars, sendVars, connVars, clientVars
<1>2. SeatInv' /\ EventInv' /\ OpenInv' /\ VersionInv' /\ TellInv' /\ StreamInv'
  BY <1>1, SeatSame, EventSame, OpenSame, VersionSame, TellLoop, StreamSame DEF IInv
<1>3. WorkInv'
  <2>1. Range(work') = {}
    BY <1>1, EmptyStack
  <2> QED
    BY <1>1, <2>1, WorkNew DEF IInv
<1> QED
  BY <1>2, <1>3 DEF IInv

LEMMA ShutdownKeeps ==
    ASSUME IInv, TypeOK', Shutdown, UNCHANGED <<events, connVars, up, clientVars>>
    PROVE  IInv'
<1> DEFINE word == <<"ERROR", stop>>
<1>1. /\ work = <<>> /\ work' = Loop(word, "last", Present) /\ phase = "loop" /\ phase' = "draining" /\ stop # "none"
      /\ UNCHANGED <<players, closed, stop, out, overrun, version, started, pending, relayed,
                     events, handler, writing, open, got, quit>>
  BY DEF Shutdown, GoOn, syncVars, joinVars, sendVars, connVars, clientVars
<1>2. word \in Words /\ ~IsGame(word)
  BY WordsAre DEF IsGame, IInv, TypeOK, EngineTypeOK
<1> HIDE DEF word
<1>3. /\ \A l \in Range(work') : l = [word |-> word, how |-> "last", todo |-> Present]
      /\ \A s \in Present : \E l \in Range(work') : l = [word |-> word, how |-> "last", todo |-> Present]
      /\ OneGame(work')
      /\ \A s \in Present : Debt(work', s) = {}
  BY <1>1, <1>2, PresentSlots, LoopRange
<1>4. Present' = Present
  BY <1>1 DEF Present
<1>5. SeatInv' /\ EventInv' /\ OpenInv' /\ VersionInv' /\ TellInv'
  BY <1>1, SeatSame, EventSame, OpenSame, VersionSame, TellLoop DEF IInv
<1>6. WorkInv'
  <2>1. \A l \in Range(work') : LoopInv(l)'
    BY <1>1, <1>2, <1>3 DEF LoopInv, word
  <2>2. \A s \in Present' : \E l \in Range(work') : l.how = "last" /\ s \in l.todo
    BY <1>3, <1>4
  <2> QED
    BY <1>1, <2>1, <2>2 DEF WorkInv
<1>7. StreamInv'
  BY <1>1, <1>3, <1>4, StreamNew
<1> QED
  BY <1>5, <1>6, <1>7 DEF IInv

LEMMA ReturnKeeps ==
    ASSUME IInv, TypeOK', Return, UNCHANGED <<events, connVars, up, clientVars>>
    PROVE  IInv'
<1>1. /\ work = <<>> /\ phase = "draining" /\ phase' = "done"
      /\ UNCHANGED <<work, players, closed, stop, out, overrun, version, started, pending, relayed,
                     events, handler, writing, open, got, quit>>
  BY DEF Return, syncVars, joinVars, sendVars, connVars, clientVars
<1>2. SeatInv' /\ EventInv' /\ OpenInv' /\ VersionInv' /\ StreamInv'
  BY <1>1, SeatSame, EventSame, OpenSame, VersionSame, StreamSame DEF IInv
<1>3. WorkInv'
  <2>1. Range(work) = {} /\ Present' = Present
    BY <1>1, EmptyStack DEF Present
  <2> QED
    BY <1>1, <2>1 DEF IInv, WorkInv
<1>4. TellInv'
  BY <1>1 DEF IInv, TellInv, Told, LastWord, Joined
<1> QED
  BY <1>2, <1>3, <1>4 DEF IInv

LEMMA InitIInv == ASSUME Init PROVE IInv
<1>1. TypeOK
  BY InitType
<1>2. /\ players = [s \in Slots |-> Nobody] /\ ~started /\ relayed = <<>> /\ work = <<>> /\ phase = "loop"
      /\ out = [c \in Conns |-> <<>>] /\ got = [c \in Conns |-> <<>>] /\ closed = {} /\ overrun = {}
      /\ events = <<>> /\ handler = [c \in Conns |-> "idle"] /\ open = {} /\ writing = {} /\ quit = {}
      /\ stop = "none"
  BY DEF Init, EngineInit
<1>3. Present = {} /\ \A c \in Conns : ~Joined(c)
  BY <1>2, EngineAssumption DEF Present, Joined
<1>4. SeatInv /\ OpenInv /\ TellInv /\ VersionInv
  BY <1>2, <1>3 DEF SeatInv, OpenInv, TellInv, VersionInv
<1>5. EventInv
  BY <1>2 DEF EventInv
<1>6. WorkInv
  BY <1>2, EmptyStack DEF WorkInv
<1>7. StreamInv
  <2>1. \A c \in Conns : GameWords(got[c]) = <<>> /\ Line(c) = <<>> \o <<>>
    BY <1>2, GameWordsEmpty, FlattenEmpty DEF Line
  <2>2. <<>> \o <<>> = <<>>
    OBVIOUS
  <2>3. IsPrefix(<<>>, <<>>)
    BY PrefixSelf, EmptySeq
  <2> QED
    BY <1>2, <1>3, <2>1, <2>2, <2>3, EmptyStack DEF StreamInv
<1> QED
  BY <1>1, <1>4, <1>5, <1>6, <1>7 DEF IInv

LEMMA NextKeeps == ASSUME IInv, [Next]_vars PROVE IInv'
<1>1. TypeOK'
  BY NextType DEF IInv
<1>2. CASE RunStep
  <2>1. UNCHANGED <<events, connVars, up, clientVars>>
    BY <1>2 DEF RunStep
  <2>2. UNCHANGED <<events, handler, open, writing, got, quit>>
    BY <2>1 DEF connVars, clientVars
  <2>3. CASE Iterate
    BY <1>1, <2>2, <2>3, SkipKeeps, QueueKeeps, FlushKeeps, OverrunKeeps, CheckGameKeeps DEF Iterate
  <2>4. CASE LaunchTimeout \/ Cancel
    BY <1>1, <2>1, <2>4, StopKeeps DEF LaunchTimeout, Cancel
  <2> QED
    BY <1>1, <1>2, <2>1, <2>3, <2>4, ShutdownKeeps, ReturnKeeps DEF RunStep
<1>3. ASSUME NEW c \in Conns, Connect(c) \/ ReaderStep(c) \/ WriterStep(c) \/ ClientStep(c)
      PROVE  IInv'
  BY <1>1, <1>3, ConnectKeeps, JoinAbandonedKeeps, JoinRepliedKeeps, ReadWordKeeps, ReadFailsKeeps, WriteBufferKeeps,
     WriterEndsKeeps, ClientStepKeeps DEF ReaderStep, WriterStep
<1> QED
  BY <1>1, <1>2, <1>3, HandleEventKeeps, TakeTickKeeps, StutterKeeps DEF Next, Ended

-----------------------------------------------------------------------------
(* The theorems *)

LEMMA Invariance == SafeSpec => []IInv
<1>1. Init => IInv
  BY InitIInv
<1>2. IInv /\ [Next]_vars => IInv'
  BY NextKeeps
<1> QED
  BY <1>1, <1>2, PTL DEF SafeSpec

(* A buffer goes to a player, whose channel is open, and a slot is taken by  *)
(* a connection that never had one.                                        *)
LEMMA NextSafe == ASSUME IInv, NoPanic, [Next]_vars PROVE NoPanic'
<1>1. \A s \in Present : players[s] \notin closed
  BY DEF IInv, SeatInv
<1>2. CASE HandleEvent
  <2> DEFINE kind == Head(events)[1]
             c == Head(events)[2]
             data == Head(events)[3]
  <2>1. \/ RefuseJoin(c, data)
        \/ AcceptJoin(c, data)
        \/ \E s \in Present : HandleMessage(s, kind, data)
        \/ IgnoreMessage(kind, c, data)
    BY <1>2 DEF HandleEvent
  <2> HIDE DEF kind, c, data
  <2>2. CASE RefuseJoin(c, data) \/ IgnoreMessage(kind, c, data)
    BY <2>2 DEF RefuseJoin, IgnoreMessage, NoPanic, engineVars, sendVars
  <2>3. CASE AcceptJoin(c, data)
    <3>1. c \in Conns /\ handler[c] = "joining"
      BY <2>3, Taken DEF AcceptJoin
    <3>2. c \notin closed
      BY <3>1 DEF IInv, SeatInv, Joined
    <3>3. panicked' = (panicked \/ c \in closed)
      BY <2>3 DEF AcceptJoin, Join, JoinAt
    <3> QED
      BY <3>2, <3>3 DEF NoPanic
  <2>4. ASSUME NEW s \in Present, HandleMessage(s, kind, data) PROVE NoPanic'
    <3>1. CASE Gone(s)
      BY <1>1, <3>1 DEF Gone, OnGone, NoPanic
    <3>2. CASE OnAck(s, data) \/ OnInput(data) \/ OnCheck(s, kind, data) \/ OnPong(s) \/ OnText(s)
      BY <3>2 DEF OnAck, OnInput, OnCheck, OnPong, OnText, NoPanic, sendVars
    <3> QED
      BY <2>4, <3>1, <3>2 DEF HandleMessage
  <2> QED
    BY <2>1, <2>2, <2>3, <2>4
<1>3. CASE RunStep
  <2>1. CASE LaunchTimeout \/ Cancel \/ Shutdown \/ Return
    BY <2>1 DEF LaunchTimeout, Cancel, Stop, Shutdown, Return, NoPanic, sendVars
  <2>2. CASE CheckGame
    BY <2>2 DEF CheckGame, NoPanic, sendVars
  <2>3. ASSUME NEW s \in Slots, Skip(s) \/ Queue(s) \/ Flush(s) \/ Overrun(s) PROVE NoPanic'
    <3>1. CASE Skip(s) \/ Queue(s)
      BY <3>1 DEF Skip, Queue, NoPanic, sendVars
    <3>2. CASE Flush(s) \/ Overrun(s)
      <4>1. s \in Present
        BY <3>2 DEF Flush, Overrun, Unserved, Present
      <4> QED
        BY <1>1, <3>2, <4>1 DEF Flush, Overrun, OnGone, NoPanic
    <3> QED
      BY <2>3, <3>1, <3>2
  <2> QED
    BY <1>3, <2>1, <2>2, <2>3 DEF RunStep, Iterate
<1>4. CASE TakeTick
  BY <1>4 DEF TakeTick, Tick, NoPanic, sendVars
<1>5. ASSUME NEW c \in Conns, Connect(c) \/ ReaderStep(c) \/ WriterStep(c) \/ ClientStep(c) PROVE NoPanic'
  <2>1. CASE Connect(c) \/ ReaderStep(c) \/ WriterStep(c)
    BY <2>1 DEF Connect, ReaderStep, JoinAbandoned, JoinReplied, ReadWord, ReadFails, WriterStep, WriteBuffer, WriterEnds,
       NoPanic, engineVars, sendVars
  <2>2. CASE ClientStep(c)
    BY <2>2 DEF ClientStep, SendFrameAck, SendInput, SendText, SendPong, Quit, NoPanic, serverVars,
       engineVars, sendVars
  <2> QED
    BY <1>5, <2>1, <2>2
<1>6. CASE UNCHANGED vars
  BY <1>6 DEF NoPanic, vars, engineVars, sendVars
<1> QED
  BY <1>2, <1>3, <1>4, <1>5, <1>6 DEF Next, Ended

(***************************************************************************)
(* The game goroutine never sends on an out channel it has closed, nor     *)
(* closes one twice, through any cascade of drops (flush, onGone,          *)
(* shutdown).                                                              *)
(***************************************************************************)
THEOREM NeverPanics == SafeSpec => []NoPanic
<1>1. Init => NoPanic
  BY DEF Init, EngineInit, NoPanic
<1>2. IInv /\ NoPanic /\ [Next]_vars => NoPanic'
  BY NextSafe
<1> QED
  BY <1>1, <1>2, Invariance, PTL DEF SafeSpec

(***************************************************************************)
(* All players of a game run the same emulator version (join).             *)
(***************************************************************************)
THEOREM VersionsAreTheSame == SafeSpec => []SameVersion
<1>1. IInv => SameVersion
  BY DEF IInv, VersionInv, SameVersion
<1> QED
  BY <1>1, Invariance, PTL

(***************************************************************************)
(* When the game is over and the writers have finished, every emulator     *)
(* that was welcomed, kept its connection and kept up has been told the    *)
(* reason (shutdown, sendError).                                           *)
(***************************************************************************)
THEOREM EveryoneIsTold == SafeSpec => []EveryoneTold
<1>1. IInv => EveryoneTold
  <2> SUFFICES ASSUME IInv, phase # "loop", work = <<>>, writing = {},
                      NEW c \in Conns \ (quit \cup overrun), got[c] # <<>>
               PROVE  Word(c, "ERROR", stop)
    BY DEF EveryoneTold
  <2>1. Joined(c) /\ c \notin writing
    BY DEF IInv, TellInv
  <2>2. c \in closed
    <3>1. \A s \in Slots : players[s] = c => s \in Present
      BY EngineAssumption DEF Present
    <3> QED
      BY <2>1, <3>1 DEF Joined, IInv, SeatInv
  <2>3. Told(c) /\ out[c] = <<>>
    BY <2>1, <2>2 DEF IInv, TellInv
  <2>4. \E i \in DOMAIN got[c] : LastWord(got[c][i])
    BY <2>3 DEF Told
  <2> QED
    BY <2>4 DEF Word, LastWord
<1> QED
  BY <1>1, Invariance, PTL

(***************************************************************************)
(* All emulators see the same inputs before the same frame words, however  *)
(* their writers are scheduled and whoever is dropped in the middle of a   *)
(* broadcast (flush, broadcastBytes, writeLoop).                           *)
(***************************************************************************)
THEOREM InLockStep == SafeSpec => []LockStep
<1>1. IInv => LockStep
  <2> SUFFICES ASSUME IInv, work = <<>>, NEW s \in Present, players[s] \notin quit
               PROVE  GameWords(got[players[s]] \o FlattenSeq(out[players[s]]) \o pending[s]) = relayed
    BY DEF LockStep, IInv, StreamInv
  <2> DEFINE c == players[s]
             g == got[c]
             o == FlattenSeq(out[c])
             p == pending[s]
  <2>1. TypeOK /\ c \in Conns /\ s \in Slots
    BY DEF IInv, TypeOK, EngineTypeOK, Present
  <2>2. g \in Seq(Words) /\ o \in Seq(Words) /\ p \in Seq(Words)
    BY <2>1, LineType DEF TypeOK, EngineTypeOK
  <2>3. relayed = (GameWords(g) \o GameWords(o)) \o GameWords(p)
    BY EmptyStack DEF IInv, StreamInv, Kept, SoFar, Line
  <2> HIDE DEF g, o, p
  <2>4. GameWords((g \o o) \o p) = GameWords(g \o o) \o GameWords(p) /\ GameWords(g \o o) = GameWords(g) \o GameWords(o)
    <3>1. g \o o \in Seq(Words)
      BY <2>2
    <3> QED
      BY <2>2, <3>1, GameWordsConcat
  <2>5. GameWords((g \o o) \o p) = relayed
    BY <2>3, <2>4
  <2> QED
    BY <2>5 DEF g, o, p
<1> QED
  BY <1>1, Invariance, PTL

-----------------------------------------------------------------------------
(* GameRelay implements GameSync. Two more invariants are needed: what is  *)
(* on its way from each player, and what a handler has done so far.        *)

LEMMA PickedHas ==
    ASSUME NEW W, NEW K, NEW s \in Seq(W), NEW i \in 1..Len(s), s[i] \in K
    PROVE  \E j \in DOMAIN Picked(s, K) : Picked(s, K)[j] = s[i]
<1> DEFINE a == SubSeq(s, 1, i - 1)
           b == SubSeq(s, i + 1, Len(s))
           p == Picked(a, K)
           q == Picked(b, K)
<1>1. a \in Seq(W) /\ b \in Seq(W) /\ s[i] \in W
  OBVIOUS
<1>2. s = Append(a, s[i]) \o b
  <2>2. Len(a) = i - 1 /\ \A n \in 1..(i - 1) : a[n] = s[n]
    OBVIOUS
  <2>4. Len(b) = Len(s) - i /\ \A n \in 1..(Len(s) - i) : b[n] = s[n + i]
    OBVIOUS
  <2> HIDE DEF a, b
  <2> DEFINE e == Append(a, s[i])
  <2>5. e \in Seq(W) /\ Len(e) = i /\ \A n \in 1..i : e[n] = s[n]
    BY <1>1, <2>2
  <2> HIDE DEF e
  <2>7. i \in Nat /\ Len(s) \in Nat
    OBVIOUS
  <2>8. e \o b \in Seq(W) /\ Len(e \o b) = Len(e) + Len(b)
    BY <1>1, <2>5
  <2>1. e \o b \in Seq(W) /\ Len(e \o b) = Len(s)
    BY <2>4, <2>5, <2>7, <2>8
  <2>3. \A n \in 1..Len(s) : s[n] = (e \o b)[n]
    <3> TAKE n \in 1..Len(s)
    <3>1. CASE n <= i
      BY <3>1, <1>1, <2>5
    <3>2. CASE n > i
      <4>1. n - i \in 1..(Len(s) - i) /\ (n - i) + i = n
        BY <3>2
      <4>2. b[n - i] = s[n]
        BY <4>1, <2>4
      <4> QED
        BY <4>1, <4>2, <1>1, <2>4, <2>5
    <3>3. n <= i \/ n > i
      BY <2>7
    <3> QED
      BY <3>1, <3>2, <3>3
  <2>6. s = e \o b
    BY <2>1, <2>3, SeqEqual
  <2> QED
    BY <2>6 DEF e
<1>3. p \in Seq(W) /\ q \in Seq(W)
  <2> HIDE DEF a, b
  <2> QED
    BY <1>1, PickedType
<1>4. Picked(s, K) = Append(p, s[i]) \o q
  <2> HIDE DEF a, b
  <2>1. Append(a, s[i]) \in Seq(W)
    BY <1>1
  <2> DEFINE e == Append(a, s[i])
  <2>2. Picked(e, K) = Append(p, s[i])
    BY <1>1, PickedAppend
  <2> HIDE DEF e
  <2>3. Picked(e \o b, K) = Picked(e, K) \o q
    BY <1>1, <2>1, PickedConcat DEF e
  <2> QED
    BY <1>2, <2>2, <2>3 DEF e
<1> HIDE DEF p, q
<1>5. Len(p) + 1 \in DOMAIN (Append(p, s[i]) \o q) /\ (Append(p, s[i]) \o q)[Len(p) + 1] = s[i]
  BY <1>1, <1>3
<1> QED
  BY <1>4, <1>5

LEMMA PickedTail ==
    ASSUME NEW W, NEW K, NEW s \in Seq(W), s # <<>>
    PROVE  Picked(s, K) = IF Head(s) \in K THEN <<Head(s)>> \o Picked(Tail(s), K) ELSE Picked(Tail(s), K)
<1> DEFINE h == Head(s)
           t == Tail(s)
           one == Append(<<>>, h)
<1>1. h \in W /\ t \in Seq(W) /\ one \in Seq(W) /\ one = <<h>>
  OBVIOUS
<1>2. s = one \o t
  <2>1. one \o t \in Seq(W) /\ Len(one \o t) = Len(s)
    BY <1>1
  <2>2. \A n \in 1..Len(s) : s[n] = (one \o t)[n]
    OBVIOUS
  <2> HIDE DEF one, t
  <2> QED
    BY <2>1, <2>2, SeqEqual
<1>3. <<>> \in Seq(W) /\ Picked(<<>>, K) = <<>>
  BY EmptySeq, PickedEmpty
<1> HIDE DEF h, t
<1>4. Picked(one, K) = IF h \in K THEN <<h>> ELSE <<>>
  <2> DEFINE z == <<>>
  <2>1. z \in Seq(W)
    BY <1>3
  <2> HIDE DEF z
  <2>2. Picked(Append(z, h), K) = IF h \in K THEN Append(Picked(z, K), h) ELSE Picked(z, K)
    BY <1>1, <2>1, PickedAppend
  <2> QED
    BY <1>1, <1>3, <2>2 DEF z
<1> HIDE DEF one
<1>5. Picked(one \o t, K) = Picked(one, K) \o Picked(t, K)
  BY <1>1, PickedConcat
<1>6. Picked(t, K) \in Seq(W)
  BY <1>1, PickedType
<1>7. <<>> \o Picked(t, K) = Picked(t, K)
  BY <1>6
<1> QED
  BY <1>2, <1>4, <1>5, <1>7 DEF h, t

(* The words a player sends while it follows the game, by their number:    *)
(* two checksums, then the acknowledgement, of each frame in turn.         *)
IsStep(n, e) ==
    \E f \in 0..n :
        \/ n = 3 * f     /\ e[1] = "rnd" /\ e[3] \in {0, 1}
        \/ n = 3 * f + 1 /\ e[1] = "mem" /\ e[3] \in {0, 1}
        \/ n = 3 * f + 2 /\ e[1] = "ACK" /\ e[3] = f + 1

(* Those on their way to the game. *)
Posted(c, words) == [i \in DOMAIN words |-> <<words[i][1], c, words[i][2]>>]
StepsOf(c) == (Kinds \cup {"ACK"}) \X {c} \X Nat
Coming(c) == Picked(events \o Posted(c, up[c]), StepsOf(c))

(* How many of them the game has handled. *)
Rnds(s) == Len(sent[s]["rnd"])
Mems(s) == Len(sent[s]["mem"])
Steps(s) == Rnds(s) + Mems(s) + acked[s]

InOrder(s, c) ==
    /\ acked[s] <= Mems(s) /\ Mems(s) <= Rnds(s) /\ Rnds(s) <= acked[s] + 1
    /\ \A i \in DOMAIN Coming(c) : IsStep(Steps(s) + i - 1, Coming(c)[i])
    /\ Steps(s) + Len(Coming(c)) <= 3 * at[c]
    /\ handler[c] = "ended" \/ Steps(s) + Len(Coming(c)) = 3 * at[c]

(***************************************************************************)
(* What each player has sent and the game has not handled continues what   *)
(* the game has handled, up to the last frame its emulator acknowledged,   *)
(* which is no frame the game has yet to relay; only a lost connection     *)
(* takes some of it along.                                                 *)
(***************************************************************************)
StepInv ==
    /\ \A i \in DOMAIN relayed : relayed[i][1] = "FRAME" => relayed[i][2] <= frame
    /\ \A c \in Conns : at[c] <= frame
    /\ \A c \in Conns : handler[c] \in {"idle", "joining"} => at[c] = 0 /\ Coming(c) = <<>>
    /\ \A c \in Conns : handler[c] = "ended" => c \notin open
    /\ \A s \in Present : InOrder(s, players[s])

(* The handler that ticks is the only one with a call of checkGame to      *)
(* make, at its end.                                                       *)
Ticks(stack) == stack # <<>> /\ stack[Len(stack)].how = "check"
CheckLast(stack) == \A i \in DOMAIN stack : stack[i].how = "check" => i = Len(stack)

(***************************************************************************)
(* What the handler in progress has done since handled was left: dropped   *)
(* players, which stops a started game, and, if it ticks, begun a frame    *)
(* that nothing held up.                                                   *)
(***************************************************************************)
HandlerInv ==
    /\ CheckLast(work)
    /\ work = <<>> => handled = Now
    /\ work # <<>> => Present \subseteq handled.present
    /\ work # <<>> /\ phase # "loop" => handled.stop = stop
    /\ work # <<>> /\ phase = "loop" =>
        /\ handled.stop = "none"
        /\ stop = IF started /\ Present # handled.present THEN "stopped" ELSE "none"
    /\ work # <<>> /\ ~Ticks(work) => handled.frame = frame /\ handled.stalled = stalled
    /\ Ticks(work) =>
        /\ started /\ phase = "loop"
        /\ frame = handled.frame + 1
        /\ ~stalled
        /\ handled.stalled => \A s \in handled.present : acked[s] >= handled.frame

-----------------------------------------------------------------------------
(* What is on its way from a connection *)

LEMMA PostedType ==
    ASSUME NEW c \in Conns, NEW words \in Seq(UpWords)
    PROVE  /\ Posted(c, words) \in Seq(Events) /\ Len(Posted(c, words)) = Len(words)
           /\ \A i \in 1..Len(words) : Posted(c, words)[i] = <<words[i][1], c, words[i][2]>>
<1>1. DOMAIN words = 1..Len(words) /\ Len(words) \in Nat
  OBVIOUS
<1>2. \A i \in 1..Len(words) : <<words[i][1], c, words[i][2]>> \in Events
  <2> TAKE i \in 1..Len(words)
  <2>1. words[i] \in UpWords
    OBVIOUS
  <2> QED
    BY <2>1 DEF UpWords, Events
<1>3. Posted(c, words) \in [1..Len(words) -> Events]
  BY <1>1, <1>2 DEF Posted
<1>4. \A i \in 1..Len(words) : Posted(c, words)[i] = <<words[i][1], c, words[i][2]>>
  BY <1>1 DEF Posted
<1> QED
  BY <1>1, <1>3, <1>4

LEMMA PostedNone == \A c : Posted(c, <<>>) = <<>>
<1> TAKE c
<1>1. DOMAIN <<>> = {}
  OBVIOUS
<1> QED
  BY <1>1 DEF Posted

LEMMA ComingType ==
    ASSUME TypeOK, NEW c \in Conns
    PROVE  /\ events \in Seq(Events) /\ Posted(c, up[c]) \in Seq(Events)
           /\ Picked(events, StepsOf(c)) \in Seq(Events)
           /\ Picked(Posted(c, up[c]), StepsOf(c)) \in Seq(Events)
           /\ Coming(c) \in Seq(Events)
           /\ Coming(c) = Picked(events, StepsOf(c)) \o Picked(Posted(c, up[c]), StepsOf(c))
<1> DEFINE e == events
           p == Posted(c, up[c])
           K == StepsOf(c)
<1>1. e \in Seq(Events) /\ up[c] \in Seq(UpWords)
  BY DEF TypeOK
<1>2. p \in Seq(Events)
  BY <1>1, PostedType
<1> HIDE DEF e, p, K
<1>3. Picked(e \o p, K) = Picked(e, K) \o Picked(p, K)
  BY <1>1, <1>2, PickedConcat
<1>4. Picked(e, K) \in Seq(Events) /\ Picked(p, K) \in Seq(Events)
  BY <1>1, <1>2, PickedType
<1>5. Picked(e, K) \o Picked(p, K) \in Seq(Events)
  BY <1>4
<1> QED
  BY <1>1, <1>2, <1>3, <1>4, <1>5 DEF e, p, K, Coming

LEMMA ComingAppend ==
    ASSUME TypeOK, TypeOK', NEW c \in Conns, NEW e \in Events, e \notin StepsOf(c),
           events' = Append(events, e), up'[c] = up[c]
    PROVE  Coming(c)' = Coming(c)
<1>1. Picked(Append(events, e), StepsOf(c)) = Picked(events, StepsOf(c))
  <2>1. events \in Seq(Events)
    BY DEF TypeOK
  <2> QED
    BY <2>1, PickedAppend
<1>2. Coming(c)' = Picked(events', StepsOf(c)) \o Picked(Posted(c, up'[c]), StepsOf(c))
  <2>1. /\ events' \in Seq(Events)
        /\ Coming(c)' = Picked(events', StepsOf(c)) \o Picked(Posted(c, up[c])', StepsOf(c))
    <3>1. events' \in Seq(Events) /\ up'[c] \in Seq(UpWords)
      BY DEF TypeOK
    <3>2. Posted(c, up'[c]) \in Seq(Events)
      BY <3>1, PostedType
    <3> DEFINE ev == events'
               p == Posted(c, up'[c])
    <3> HIDE DEF ev, p
    <3>3. Picked(ev \o p, StepsOf(c)) = Picked(ev, StepsOf(c)) \o Picked(p, StepsOf(c))
      BY <3>1, <3>2, PickedConcat DEF ev, p
    <3> QED
      BY <3>1, <3>3 DEF ev, p, Coming, StepsOf, Kinds
  <2> QED
    BY <2>1
<1> QED
  BY <1>1, <1>2, ComingType

LEMMA ConcatIs ==
    ASSUME NEW S, NEW s \in Seq(S), NEW t \in Seq(S)
    PROVE  /\ s \o t \in Seq(S) /\ Len(s) \in Nat /\ Len(t) \in Nat /\ Len(s \o t) = Len(s) + Len(t)
           /\ \A i \in 1..Len(s) : (s \o t)[i] = s[i]
           /\ \A i \in 1..Len(t) : (s \o t)[Len(s) + i] = t[i]
OBVIOUS

LEMMA ComingRead ==
    ASSUME TypeOK, NEW c \in Conns, up[c] # <<>>,
           events' = Append(events, <<Head(up[c])[1], c, Head(up[c])[2]>>), up' = [up EXCEPT ![c] = Tail(@)]
    PROVE  Coming(c)' = Coming(c)
<1> DEFINE w == up[c]
           e == <<Head(w)[1], c, Head(w)[2]>>
           p == Posted(c, w)
           q == Posted(c, Tail(w))
<1>1. events \in Seq(Events) /\ w \in Seq(UpWords) /\ Tail(w) \in Seq(UpWords)
      /\ Len(Tail(w)) = Len(w) - 1 /\ Len(w) \in Nat \ {0}
  BY DEF TypeOK
<1>2. p \in Seq(Events) /\ Len(p) = Len(w) /\ \A i \in 1..Len(w) : p[i] = <<w[i][1], c, w[i][2]>>
  <2> HIDE DEF w
  <2> QED
    BY <1>1, PostedType
<1>3. q \in Seq(Events) /\ Len(q) = Len(w) - 1 /\ \A i \in 1..(Len(w) - 1) : q[i] = <<Tail(w)[i][1], c, Tail(w)[i][2]>>
  <2> DEFINE t == Tail(w)
  <2>1. t \in Seq(UpWords) /\ Len(t) = Len(w) - 1
    BY <1>1
  <2> HIDE DEF t, w
  <2>2. Posted(c, t) \in Seq(Events) /\ Len(Posted(c, t)) = Len(t) /\ \A i \in 1..Len(t) : Posted(c, t)[i] = <<t[i][1], c, t[i][2]>>
    BY <2>1, PostedType
  <2> QED
    BY <2>1, <2>2 DEF t
<1>4. \A i \in 1..(Len(w) - 1) : Tail(w)[i] = w[i + 1]
  BY <1>1
<1>5. p[1] = e /\ \A i \in 1..(Len(w) - 1) : q[i] = p[i + 1]
  <2>1. Head(w) = w[1] /\ 1 \in 1..Len(w)
    BY <1>1
  <2>2. \A i \in 1..(Len(w) - 1) : i + 1 \in 1..Len(w)
    BY <1>1
  <2> HIDE DEF w, p, q
  <2> QED
    BY <1>2, <1>3, <1>4, <2>1, <2>2 DEF e
<1>6. up'[c] = Tail(w) /\ events' = Append(events, e)
  BY DEF TypeOK
<1> HIDE DEF w, p, q, e
<1>7. e \in Events
  <2>1. 1 \in 1..Len(p)
    BY <1>1, <1>2
  <2> QED
    BY <2>1, <1>2, <1>5
<1>8. Append(events, e) \o q = events \o p
  <2> DEFINE a == Append(events, e)
  <2>1. a \in Seq(Events) /\ Len(a) = Len(events) + 1 /\ a[Len(events) + 1] = e /\ \A i \in 1..Len(events) : a[i] = events[i]
    BY <1>1, <1>7
  <2> HIDE DEF a
  <2>5. a \o q \in Seq(Events) /\ Len(a \o q) = Len(a) + Len(q)
    <3>1. a \in Seq(Events) /\ q \in Seq(Events)
      BY <1>3, <2>1
    <3> QED
      BY <3>1, ConcatIs
  <2>6. events \o p \in Seq(Events) /\ Len(events) \in Nat /\ Len(events \o p) = Len(events) + Len(p)
    <3>1. events \in Seq(Events) /\ p \in Seq(Events)
      BY <1>1, <1>2
    <3> QED
      BY <3>1, ConcatIs
  <2>2. a \o q \in Seq(Events) /\ events \o p \in Seq(Events) /\ Len(events) \in Nat
        /\ Len(a \o q) = Len(a) + Len(q) /\ Len(events \o p) = Len(events) + Len(p)
    BY <2>5, <2>6
  <2>3. Len(a \o q) = Len(events \o p)
    BY <1>1, <1>2, <1>3, <2>1, <2>2
  <2>4. \A i \in 1..Len(events \o p) : (a \o q)[i] = (events \o p)[i]
    <3> TAKE i \in 1..Len(events \o p)
    <3> DEFINE j == i - Len(events)
    <3>0. i \in Nat /\ Len(events) \in Nat
      BY <2>2
    <3>1. CASE i <= Len(events)
      BY <3>1, <1>1, <1>2, <1>3, <2>1, <2>2
    <3>2. CASE j = 1
      BY <3>2, <1>1, <1>2, <1>3, <1>5, <2>1, <2>2
    <3>3. CASE j > 1
      <4> DEFINE m == j - 1
      <4>1. m \in 1..(Len(w) - 1) /\ j = m + 1 /\ j \in 1..Len(p) /\ m \in 1..Len(q)
            /\ i = Len(events) + j /\ i = Len(a) + m
        BY <3>0, <3>3, <1>1, <1>2, <1>3, <2>1, <2>2
      <4> HIDE DEF m, j
      <4>2. (events \o p)[i] = p[j]
        BY <4>1, <1>1, <1>2
      <4>3. (a \o q)[i] = q[m]
        BY <4>1, <1>3, <2>1
      <4> QED
        BY <4>1, <4>2, <4>3, <1>5
    <3>4. i <= Len(events) \/ j = 1 \/ j > 1
      BY <3>0
    <3> QED
      BY <3>1, <3>2, <3>3, <3>4
  <2> QED
    BY <2>2, <2>3, <2>4, SeqEqual DEF a
<1> QED
  BY <1>6, <1>8 DEF Coming, StepsOf, w, p, q

LEMMA ComingTail ==
    ASSUME TypeOK, NEW c \in Conns, events # <<>>, events' = Tail(events), up'[c] = up[c]
    PROVE  Coming(c) = IF Head(events) \in StepsOf(c) THEN <<Head(events)>> \o Coming(c)' ELSE Coming(c)'
<1> DEFINE p == Posted(c, up[c])
           s == events \o p
           K == StepsOf(c)
<1>1. events \in Seq(Events) /\ p \in Seq(Events) /\ Tail(events) \in Seq(Events) /\ Len(events) \in Nat \ {0}
      /\ Len(Tail(events)) = Len(events) - 1 /\ \A i \in 1..(Len(events) - 1) : Tail(events)[i] = events[i + 1]
  BY ComingType
<1> HIDE DEF p, K
<1>2. s \in Seq(Events) /\ Len(s) = Len(events) + Len(p) /\ Len(p) \in Nat
      /\ (\A i \in 1..Len(events) : s[i] = events[i]) /\ \A i \in 1..Len(p) : s[Len(events) + i] = p[i]
  BY <1>1, ConcatIs
<1> HIDE DEF s
<1>3. s # <<>> /\ Head(s) = Head(events)
  BY <1>1, <1>2
<1>4. Tail(s) = Tail(events) \o p
  <2> DEFINE t == Tail(events)
             e == t \o p
             r == Tail(s)
  <2>1. r \in Seq(Events) /\ Len(r) = Len(s) - 1 /\ \A i \in 1..(Len(s) - 1) : r[i] = s[i + 1]
    BY <1>2, <1>3
  <2>2. t \in Seq(Events) /\ Len(t) = Len(events) - 1 /\ \A i \in 1..(Len(events) - 1) : t[i] = events[i + 1]
    BY <1>1
  <2> HIDE DEF t, r
  <2>3. e \in Seq(Events) /\ Len(e) = Len(t) + Len(p)
        /\ (\A i \in 1..Len(t) : e[i] = t[i]) /\ \A i \in 1..Len(p) : e[Len(t) + i] = p[i]
    <3>1. t \in Seq(Events) /\ p \in Seq(Events)
      BY <1>1, <2>2
    <3> QED
      BY <3>1, ConcatIs
  <2> HIDE DEF e
  <2>4. \A i \in 1..Len(e) : e[i] = r[i]
    <3> TAKE i \in 1..Len(e)
    <3>0. i \in Nat /\ Len(events) \in Nat /\ Len(p) \in Nat /\ Len(t) \in Nat
      BY <1>1, <1>2, <2>2
    <3>1. CASE i <= Len(t)
      <4> DEFINE j == i + 1
      <4>1. i \in 1..Len(t) /\ i \in 1..(Len(events) - 1) /\ i \in 1..(Len(s) - 1) /\ j \in 1..Len(events)
        BY <3>0, <3>1, <1>2, <2>2
      <4>2. r[i] = s[j] /\ t[i] = events[j]
        BY <4>1, <2>1, <2>2
      <4> HIDE DEF j
      <4> QED
        BY <4>1, <4>2, <1>2, <2>3
    <3>2. CASE i > Len(t)
      <4> DEFINE j == i - Len(t)
                 k == i + 1
      <4>1. j \in 1..Len(p) /\ i = Len(t) + j /\ k = Len(events) + j /\ i \in 1..(Len(s) - 1)
        BY <3>0, <3>2, <1>2, <2>2, <2>3
      <4>2. r[i] = s[k]
        BY <4>1, <2>1
      <4> HIDE DEF j, k
      <4> QED
        BY <4>1, <4>2, <1>2, <2>3
    <3> QED
      BY <3>0, <3>1, <3>2
  <2>5. Len(e) = Len(r)
    BY <1>1, <1>2, <2>1, <2>2, <2>3
  <2>6. e = r
    BY <2>1, <2>3, <2>4, <2>5, SeqEqual
  <2> QED
    BY <2>6 DEF e, r, t
<1>5. Picked(s, K) = IF Head(s) \in K THEN <<Head(s)>> \o Picked(Tail(s), K) ELSE Picked(Tail(s), K)
  BY <1>2, <1>3, PickedTail
<1>6. Coming(c) = Picked(s, K)
  BY DEF Coming, s, p, K
<1>7. Coming(c)' = Picked(Tail(events) \o p, K)
  BY DEF Coming, StepsOf, p, K
<1> QED
  BY <1>3, <1>4, <1>5, <1>6, <1>7 DEF K

(* A connection that could send something has nothing unread on its way;   *)
(* one that is lost takes what is unread with it.                          *)
LEMMA ComingSend ==
    ASSUME TypeOK, NEW c \in Conns, NEW words \in Seq(UpWords), up[c] = <<>>,
           up'[c] = words, UNCHANGED events
    PROVE  Coming(c)' = Coming(c) \o Picked(Posted(c, words), StepsOf(c))
<1> DEFINE p == Posted(c, words)
           K == StepsOf(c)
<1>1. p \in Seq(Events) /\ events \in Seq(Events)
  BY PostedType DEF TypeOK
<1>2. Coming(c)' = Picked(events \o p, K)
  BY DEF Coming, StepsOf
<1>3. Coming(c) = Picked(events, K)
  <2>1. events \o <<>> = events
    BY <1>1
  <2>2. Posted(c, up[c]) = <<>>
    BY PostedNone
  <2> QED
    BY <2>1, <2>2 DEF Coming
<1> HIDE DEF p, K
<1>4. Picked(events \o p, K) = Picked(events, K) \o Picked(p, K)
  BY <1>1, PickedConcat
<1> QED
  BY <1>2, <1>3, <1>4 DEF p, K

LEMMA ComingCut ==
    ASSUME TypeOK, NEW c \in Conns, up'[c] = <<>>,
           events' = events \/ \E e \in Events \ StepsOf(c) : events' = Append(events, e)
    PROVE  \E q \in Seq(Events) : Coming(c) = Coming(c)' \o q
<1> DEFINE K == StepsOf(c)
           q == Picked(Posted(c, up[c]), K)
<1>1. q \in Seq(Events) /\ Coming(c) = Picked(events, K) \o q /\ events \in Seq(Events)
  BY ComingType
<1>2. Coming(c)' = Picked(events', K)
  <2>1. events' \in Seq(Events)
    <3>1. ASSUME NEW e \in Events, events' = Append(events, e) PROVE events' \in Seq(Events)
      BY <1>1, <3>1
    <3> QED
      BY <1>1, <3>1
  <2>2. events' \o <<>> = events'
    BY <2>1
  <2>3. Posted(c, up'[c]) = <<>>
    BY PostedNone
  <2> QED
    BY <2>2, <2>3 DEF Coming, StepsOf
<1> HIDE DEF q, K
<1>3. Picked(events', K) = Picked(events, K)
  <2>1. ASSUME NEW e \in Events \ K, events' = Append(events, e) PROVE Picked(events', K) = Picked(events, K)
    <3>1. e \in Events /\ e \notin K
      OBVIOUS
    <3> QED
      BY <1>1, <2>1, <3>1, PickedAppend
  <2> QED
    BY <2>1 DEF K
<1> QED
  BY <1>1, <1>2, <1>3

-----------------------------------------------------------------------------
(* StepInv is kept. *)

LEMMA StepTypes ==
    ASSUME TypeOK, NEW s \in Slots, NEW c \in Conns
    PROVE  /\ acked[s] \in Nat /\ Rnds(s) \in Nat /\ Mems(s) \in Nat /\ Steps(s) \in Nat
           /\ at[c] \in Nat /\ frame \in Nat
           /\ Coming(c) \in Seq(Events) /\ Len(Coming(c)) \in Nat /\ DOMAIN Coming(c) = 1..Len(Coming(c))
<1>1. sent[s]["rnd"] \in Seq(Nat) /\ sent[s]["mem"] \in Seq(Nat)
  BY DEF TypeOK, EngineTypeOK, Kinds
<1>2. Rnds(s) \in Nat /\ Mems(s) \in Nat
  BY <1>1 DEF Rnds, Mems
<1>3. acked[s] \in Nat /\ at[c] \in Nat /\ frame \in Nat
  BY DEF TypeOK, EngineTypeOK
<1>4. Coming(c) \in Seq(Events)
  BY ComingType
<1> QED
  BY <1>2, <1>3, <1>4 DEF Steps

LEMMA InOrderSame ==
    ASSUME NEW s \in Slots, NEW c \in Conns, InOrder(s, c),
           acked'[s] = acked[s], sent'[s] = sent[s], at'[c] = at[c], Coming(c)' = Coming(c),
           handler[c] = "ended" => handler'[c] = "ended"
    PROVE  InOrder(s, c)'
BY DEF InOrder, Steps, Rnds, Mems

LEMMA StepKept ==
    ASSUME StepInv, TypeOK, TypeOK', frame <= frame', UNCHANGED <<acked, sent, at>>,
           \A i \in DOMAIN relayed' : relayed'[i][1] = "FRAME" => relayed'[i][2] <= frame',
           \A d \in Conns :
                /\ Coming(d)' = Coming(d)
                /\ handler'[d] \in {"idle", "joining"} => handler[d] \in {"idle", "joining"}
                /\ handler'[d] = "ended" => d \notin open'
                /\ handler[d] = "ended" => handler'[d] = "ended",
           \A s \in Present' : s \in Present /\ players'[s] = players[s]
    PROVE  StepInv'
<1>1. \A c \in Conns : at'[c] <= frame'
  <2> TAKE c \in Conns
  <2>1. at[c] \in Nat /\ frame \in Nat /\ frame' \in Nat
    BY DEF TypeOK, EngineTypeOK
  <2>2. at[c] <= frame /\ at'[c] = at[c]
    BY DEF StepInv
  <2> QED
    BY <2>1, <2>2
<1>2. \A c \in Conns : handler'[c] \in {"idle", "joining"} => at'[c] = 0 /\ Coming(c)' = <<>>
  BY DEF StepInv
<1>3. \A s \in Present' : InOrder(s, players[s])'
  <2> TAKE s \in Present'
  <2>1. s \in Present /\ s \in Slots
    BY DEF Present
  <2>2. players[s] \in Conns /\ players'[s] = players[s] /\ InOrder(s, players[s])
    BY <2>1 DEF Present, TypeOK, EngineTypeOK, StepInv
  <2>3. PICK c \in Conns : c = players[s]
    BY <2>2
  <2>4. InOrder(s, c)
    BY <2>2, <2>3
  <2>5. InOrder(s, c)'
    BY <2>1, <2>4, InOrderSame
  <2>6. players'[s] = c
    BY <2>2, <2>3
  <2> QED
    BY <2>5, <2>6 DEF InOrder
<1> QED
  BY <1>1, <1>2, <1>3 DEF StepInv

(* The same, for steps that leave the ways in alone. *)
LEMMA ComingSame ==
    ASSUME NEW c \in Conns, UNCHANGED events, up'[c] = up[c]
    PROVE  Coming(c)' = Coming(c)
BY DEF Coming, StepsOf

LEMMA StepAside ==
    ASSUME StepInv, TypeOK, TypeOK', UNCHANGED <<events, up, handler, acked, sent, at, relayed, frame>>,
           open' \subseteq open, \A s \in Present' : s \in Present /\ players'[s] = players[s]
    PROVE  StepInv'
<1>1. \A d \in Conns : Coming(d)' = Coming(d)
  BY ComingSame
<1>2. frame <= frame' /\ \A i \in DOMAIN relayed' : relayed'[i][1] = "FRAME" => relayed'[i][2] <= frame'
  BY DEF StepInv, TypeOK, EngineTypeOK
<1>3. \A d \in Conns : handler'[d] = "ended" => d \notin open'
  BY DEF StepInv
<1> QED
  BY <1>1, <1>2, <1>3, StepKept

(* The steps of the game goroutine between and within handlers *)

LEMMA SlotlessIs ==
    ASSUME TypeOK, NEW s \in Slots, players' = players \/ players' = Slotless(s)
    PROVE  \A t \in Present' : t \in Present /\ players'[t] = players[t]
BY EngineAssumption DEF Slotless, Present, TypeOK, EngineTypeOK

LEMMA RunStepSteps ==
    ASSUME StepInv, TypeOK, TypeOK', RunStep
    PROVE  StepInv'
<1>1. UNCHANGED <<events, up, handler, at, open>>
  BY DEF RunStep, connVars, clientVars
<1>2. UNCHANGED <<acked, sent, relayed, frame>>
  <2>1. CASE LaunchTimeout \/ Cancel \/ Shutdown \/ Return
    BY <2>1 DEF LaunchTimeout, Cancel, Stop, Shutdown, Return, syncVars
  <2>2. CASE CheckGame
    BY <2>2 DEF CheckGame
  <2>3. ASSUME NEW s \in Slots, Skip(s) \/ Queue(s) \/ Flush(s) \/ Overrun(s)
        PROVE  UNCHANGED <<acked, sent, relayed, frame>>
    BY <2>3 DEF Skip, Queue, Flush, Overrun, OnGone, syncVars
  <2> QED
    BY <2>1, <2>2, <2>3 DEF RunStep, Iterate
<1>3. \A t \in Present' : t \in Present /\ players'[t] = players[t]
  <2>1. CASE UNCHANGED players
    BY <2>1 DEF Present
  <2>2. CASE LaunchTimeout \/ Cancel \/ Shutdown \/ Return \/ CheckGame
    BY <2>1, <2>2 DEF LaunchTimeout, Cancel, Stop, Shutdown, Return, CheckGame, sendVars
  <2>3. ASSUME NEW s \in Slots, Skip(s) \/ Queue(s) \/ Flush(s) \/ Overrun(s)
        PROVE  players' = players \/ players' = Slotless(s)
    BY <2>3 DEF Skip, Queue, Flush, Overrun, OnGone, sendVars
  <2>4. ASSUME NEW s \in Slots, Skip(s) \/ Queue(s) \/ Flush(s) \/ Overrun(s)
        PROVE  \A t \in Present' : t \in Present /\ players'[t] = players[t]
    BY <2>3, <2>4, SlotlessIs
  <2> QED
    BY <2>2, <2>4 DEF RunStep, Iterate
<1> QED
  BY <1>1, <1>2, <1>3, StepAside

(* The relayed words after one more *)
LEMMA FramesBounded ==
    ASSUME StepInv, TypeOK, NEW w \in Words, relayed' = Append(relayed, w), frame' \in Nat, frame <= frame',
           w[1] = "FRAME" => w[2] <= frame'
    PROVE  \A i \in DOMAIN relayed' : relayed'[i][1] = "FRAME" => relayed'[i][2] <= frame'
<1>1. relayed \in Seq(Words) /\ frame \in Nat
  BY DEF TypeOK, EngineTypeOK
<1> TAKE i \in DOMAIN relayed'
<1>2. i \in 1..(Len(relayed) + 1) /\ Len(relayed) \in Nat
  BY <1>1
<1>3. CASE i = Len(relayed) + 1
  BY <1>1, <1>3
<1>4. CASE i \in 1..Len(relayed)
  <2>1. relayed'[i] = relayed[i] /\ relayed[i] \in Words
    BY <1>1, <1>4
  <2>2. relayed[i][1] = "FRAME" => relayed[i][2] <= frame /\ relayed[i][2] \in Nat
    <3>1. i \in DOMAIN relayed
      BY <1>1, <1>4
    <3>2. relayed[i][1] = "FRAME" => relayed[i][2] \in Nat
      BY <2>1 DEF Words
    <3> QED
      BY <3>1, <3>2 DEF StepInv
  <2> QED
    BY <1>1, <2>1, <2>2
<1> QED
  BY <1>2, <1>3, <1>4

LEMMA TakeTickSteps ==
    ASSUME StepInv, TypeOK, TypeOK', TakeTick
    PROVE  StepInv'
<1> DEFINE w == <<"FRAME", frame + 1>>
<1>1. /\ UNCHANGED <<events, up, handler, at, open, acked, sent, players>>
      /\ relayed' = Append(relayed, w) /\ frame' = frame + 1
  BY DEF TakeTick, Tick, connVars, clientVars, syncVars, sendVars
<1>2. frame \in Nat /\ frame' \in Nat /\ w \in Words /\ w[1] = "FRAME" /\ w[2] = frame + 1
  <2>1. frame \in Nat /\ frame' \in Nat
    BY DEF TypeOK, EngineTypeOK
  <2>2. frame + 1 \in Nat
    BY <2>1
  <2> QED
    BY <2>1, <2>2, WordsAre
<1> HIDE DEF w
<1>3. frame <= frame' /\ w[2] <= frame'
  BY <1>1, <1>2
<1>4. \A i \in DOMAIN relayed' : relayed'[i][1] = "FRAME" => relayed'[i][2] <= frame'
  BY <1>1, <1>2, <1>3, FramesBounded
<1>5. \A d \in Conns : Coming(d)' = Coming(d)
  BY <1>1, ComingSame
<1>6. \A d \in Conns : handler'[d] = "ended" => d \notin open'
  BY <1>1 DEF StepInv
<1>7. \A s \in Present' : s \in Present /\ players'[s] = players[s]
  BY <1>1 DEF Present
<1> QED
  BY <1>1, <1>3, <1>4, <1>5, <1>6, <1>7, StepKept

-----------------------------------------------------------------------------
(* Connections *)

LEMMA NoStep ==
    ASSUME NEW c \in Conns, NEW d \in Conns, NEW e \in Events, e[2] = d, c # d \/ e[1] \notin Kinds \cup {"ACK"}
    PROVE  e \notin StepsOf(c)
BY DEF StepsOf

(* Steps that leave the game alone *)
LEMMA StepOutside ==
    ASSUME StepInv, TypeOK, TypeOK', UNCHANGED <<players, acked, sent, relayed, frame, at>>,
           \A d \in Conns :
                /\ Coming(d)' = Coming(d)
                /\ handler'[d] \in {"idle", "joining"} => handler[d] \in {"idle", "joining"}
                /\ handler'[d] = "ended" => d \notin open'
                /\ handler[d] = "ended" => handler'[d] = "ended"
    PROVE  StepInv'
<1>1. \A s \in Present' : s \in Present /\ players'[s] = players[s]
  BY DEF Present
<1>2. frame <= frame'
  BY DEF TypeOK, EngineTypeOK
<1>3. \A i \in DOMAIN relayed' : relayed'[i][1] = "FRAME" => relayed'[i][2] <= frame'
  BY DEF StepInv
<1> QED
  BY <1>1, <1>2, <1>3, StepKept

LEMMA ConnectSteps ==
    ASSUME StepInv, TypeOK, TypeOK', NEW c \in Conns, Connect(c)
    PROVE  StepInv'
<1> DEFINE e == <<"JOIN", c, VersionOf[c]>>
<1>1. /\ UNCHANGED <<players, acked, sent, relayed, frame, at, up>> /\ events' = Append(events, e)
      /\ handler[c] = "idle" /\ handler' = [handler EXCEPT ![c] = "joining"] /\ open' = open \cup {c}
  BY DEF Connect, Post, engineVars, syncVars, sendVars, clientVars
<1>2. e \in Events /\ e[2] = c /\ e[1] \notin Kinds \cup {"ACK"}
  BY RelayAssumption DEF Events, Kinds
<1> HIDE DEF e
<1>3. ASSUME NEW d \in Conns PROVE Coming(d)' = Coming(d)
  <2>1. e \notin StepsOf(d) /\ up'[d] = up[d]
    BY <1>1, <1>2, NoStep
  <2> QED
    BY <1>1, <1>2, <2>1, ComingAppend
<1>4. \A d \in Conns : /\ handler'[d] \in {"idle", "joining"} => handler[d] \in {"idle", "joining"}
                       /\ handler'[d] = "ended" => d \notin open'
                       /\ handler[d] = "ended" => handler'[d] = "ended"
  BY <1>1 DEF StepInv, TypeOK
<1> QED
  BY <1>1, <1>3, <1>4, StepOutside

LEMMA ReplySteps ==
    ASSUME StepInv, TypeOK, TypeOK', NEW c \in Conns, JoinAbandoned(c) \/ JoinReplied(c)
    PROVE  StepInv'
<1>1. /\ UNCHANGED <<players, acked, sent, relayed, frame, at, up, events>>
      /\ \/ handler' = [handler EXCEPT ![c] = "ended"] /\ open' = open \ {c}
         \/ handler' = [handler EXCEPT ![c] = "reading"] /\ handler[c] = "accepted" /\ UNCHANGED open
  BY DEF JoinAbandoned, JoinReplied, engineVars, syncVars, sendVars, clientVars
<1>3. \A d \in Conns : Coming(d)' = Coming(d)
  BY <1>1, ComingSame
<1>4. \A d \in Conns : /\ handler'[d] \in {"idle", "joining"} => handler[d] \in {"idle", "joining"}
                       /\ handler'[d] = "ended" => d \notin open'
                       /\ handler[d] = "ended" => handler'[d] = "ended"
  BY <1>1 DEF StepInv, TypeOK
<1> QED
  BY <1>1, <1>3, <1>4, StepOutside

LEMMA UpHead ==
    ASSUME TypeOK, NEW c \in Conns, up[c] # <<>>
    PROVE  <<Head(up[c])[1], c, Head(up[c])[2]>> \in Events
<1>1. up[c] \in Seq(UpWords)
  BY DEF TypeOK
<1>2. Head(up[c]) \in UpWords
  BY <1>1
<1> QED
  BY <1>2 DEF UpWords, Events

LEMMA ReadWordSteps ==
    ASSUME StepInv, TypeOK, TypeOK', NEW c \in Conns, ReadWord(c)
    PROVE  StepInv'
<1> DEFINE e == <<Head(up[c])[1], c, Head(up[c])[2]>>
<1>1. /\ UNCHANGED <<players, acked, sent, relayed, frame, at, handler, open>> /\ events' = Append(events, e)
      /\ up[c] # <<>> /\ up' = [up EXCEPT ![c] = Tail(@)]
  BY DEF ReadWord, engineVars, syncVars, sendVars, clientVars
<1>2. e \in Events /\ e[2] = c
  BY <1>1, UpHead
<1>3. ASSUME NEW d \in Conns PROVE Coming(d)' = Coming(d)
  <2>1. CASE d = c
    BY <1>1, <2>1, ComingRead
  <2>2. CASE d # c
    <3> HIDE DEF e
    <3>1. e \notin StepsOf(d) /\ up'[d] = up[d]
      BY <1>1, <1>2, <2>2, NoStep DEF TypeOK
    <3> QED
      BY <1>1, <1>2, <3>1, ComingAppend
  <2> QED
    BY <2>1, <2>2
<1>4. \A d \in Conns : handler'[d] = "ended" => d \notin open'
  BY <1>1 DEF StepInv
<1> QED
  BY <1>1, <1>3, <1>4, StepOutside

LEMMA ComingSeq == TypeOK => \A who \in Conns : Coming(who) \in Seq(Events)
BY ComingType

LEMMA ComingNext == ASSUME TypeOK' PROVE \A c \in Conns : Coming(c)' \in Seq(Events)
<1>1. (TypeOK => \A who \in Conns : Coming(who) \in Seq(Events))'
  BY ComingSeq, PTL
<1> QED
  BY <1>1

LEMMA ReadFailsSteps ==
    ASSUME StepInv, TypeOK, TypeOK', NEW c \in Conns, ReadFails(c)
    PROVE  StepInv'
<1> DEFINE e == <<"GONE", c, 0>>
<1>1. /\ UNCHANGED <<players, acked, sent, relayed, frame, at, open>>
      /\ events' = events \/ events' = Append(events, e)
      /\ c \notin open /\ handler' = [handler EXCEPT ![c] = "ended"] /\ up' = [up EXCEPT ![c] = <<>>]
      /\ handler[c] = "reading"
  BY DEF ReadFails, Post, engineVars, syncVars, sendVars, clientVars
<1>2. e \in Events /\ e[2] = c /\ e[1] \notin Kinds \cup {"ACK"}
  BY DEF Events, Kinds
<1> HIDE DEF e
<1>3. \A d \in Conns : e \notin StepsOf(d)
  BY <1>2, NoStep
<1>4. ASSUME NEW d \in Conns, d # c PROVE Coming(d)' = Coming(d)
  <2>1. up'[d] = up[d]
    BY <1>1, <1>4 DEF TypeOK
  <2>2. CASE events' = events
    BY <2>1, <2>2, ComingSame
  <2>3. CASE events' = Append(events, e)
    BY <1>2, <1>3, <2>1, <2>3, ComingAppend
  <2> QED
    BY <1>1, <2>2, <2>3
<1>5. PICK q \in Seq(Events) : Coming(c) = Coming(c)' \o q
  <2>1. up'[c] = <<>>
    BY <1>1 DEF TypeOK
  <2>2. events' = events \/ \E f \in Events \ StepsOf(c) : events' = Append(events, f)
    BY <1>1, <1>2, <1>3
  <2> QED
    BY <2>1, <2>2, ComingCut
<1>6. handler' = [d \in Conns |-> IF d = c THEN "ended" ELSE handler[d]]
  BY <1>1 DEF TypeOK
<1>7. ASSUME NEW s \in Slots, InOrder(s, c) PROVE InOrder(s, c)'
  <2> DEFINE p == Coming(c)'
             n == Steps(s)
  <2>1. Coming(c)' \in Seq(Events) /\ Steps(s) \in Nat /\ at[c] \in Nat
    BY ComingNext, StepTypes
  <2>2. Steps(s)' = n /\ Rnds(s)' = Rnds(s) /\ Mems(s)' = Mems(s) /\ acked'[s] = acked[s] /\ at'[c] = at[c]
    BY <1>1 DEF Steps, Rnds, Mems
  <2>3. /\ \A i \in DOMAIN (p \o q) : IsStep(n + i - 1, (p \o q)[i])
        /\ n + Len(p \o q) <= 3 * at[c]
    BY <1>5, <1>7 DEF InOrder
  <2> HIDE DEF p, n
  <2>4. /\ p \o q \in Seq(Events) /\ Len(p) \in Nat /\ Len(q) \in Nat /\ Len(p \o q) = Len(p) + Len(q)
        /\ \A i \in 1..Len(p) : (p \o q)[i] = p[i]
    <3>1. p \in Seq(Events) /\ q \in Seq(Events)
      BY <2>1 DEF p
    <3> QED
      BY <3>1, ConcatIs
  <2>5. DOMAIN p = 1..Len(p) /\ DOMAIN (p \o q) = 1..Len(p \o q)
    BY <2>1, <2>4 DEF p
  <2>6. \A i \in DOMAIN p : IsStep(n + i - 1, p[i])
    <3> TAKE i \in DOMAIN p
    <3>1. i \in 1..Len(p) /\ i \in DOMAIN (p \o q)
      BY <2>4, <2>5
    <3> QED
      BY <3>1, <2>3, <2>4
  <2>7. n + Len(p) <= 3 * at[c]
    <3>1. n \in Nat
      BY <2>1 DEF n
    <3> QED
      BY <3>1, <2>1, <2>3, <2>4
  <2>8. handler'[c] = "ended"
    BY <1>6
  <2>9. acked[s] <= Mems(s) /\ Mems(s) <= Rnds(s) /\ Rnds(s) <= acked[s] + 1
    BY <1>7 DEF InOrder
  <2>10. \A i \in DOMAIN p : IsStep(Steps(s)' + i - 1, p[i])
    BY <2>2, <2>6
  <2>11. Steps(s)' + Len(p) <= 3 * at'[c]
    BY <2>2, <2>7
  <2>12. acked'[s] <= Mems(s)' /\ Mems(s)' <= Rnds(s)' /\ Rnds(s)' <= acked'[s] + 1
    BY <2>2, <2>9
  <2> QED
    BY <2>8, <2>10, <2>11, <2>12 DEF InOrder, IsStep, p
<1>8. \A s \in Present' : InOrder(s, players[s])'
  <2> TAKE s \in Present'
  <2>1. s \in Present /\ s \in Slots /\ players[s] \in Conns /\ players'[s] = players[s]
    BY <1>1 DEF Present, TypeOK, EngineTypeOK
  <2>2. PICK d \in Conns : d = players[s] /\ d = players'[s]
    BY <2>1
  <2>3. InOrder(s, d)
    BY <2>1, <2>2 DEF StepInv
  <2>4. CASE d = c
    BY <1>7, <2>1, <2>2, <2>3, <2>4 DEF InOrder
  <2>5. CASE d # c
    <3>1. InOrder(s, d)'
      BY <1>1, <1>4, <1>6, <2>1, <2>3, <2>5, InOrderSame
    <3> QED
      BY <2>2, <3>1 DEF InOrder
  <2> QED
    BY <2>4, <2>5
<1>9. \A d \in Conns : handler'[d] \in {"idle", "joining"} => at'[d] = 0 /\ Coming(d)' = <<>>
  BY <1>1, <1>4, <1>6 DEF StepInv
<1>10. \A d \in Conns : handler'[d] = "ended" => d \notin open'
  BY <1>1, <1>6 DEF StepInv
<1>11. /\ \A i \in DOMAIN relayed' : relayed'[i][1] = "FRAME" => relayed'[i][2] <= frame'
       /\ \A d \in Conns : at'[d] <= frame'
  BY <1>1 DEF StepInv
<1> QED
  BY <1>8, <1>9, <1>10, <1>11 DEF StepInv

LEMMA WriterSteps ==
    ASSUME StepInv, TypeOK, TypeOK', NEW c \in Conns, WriterStep(c) \/ Quit(c)
    PROVE  StepInv'
<1>1. UNCHANGED <<events, up, handler, acked, sent, at, relayed, frame, players>> /\ open' \subseteq open
  BY DEF WriterStep, WriteBuffer, WriterEnds, Quit, engineVars, syncVars, sendVars, serverVars, connVars, clientVars
<1>2. \A s \in Present' : s \in Present /\ players'[s] = players[s]
  BY <1>1 DEF Present
<1> QED
  BY <1>1, <1>2, StepAside

(* A word that is no step *)
LEMMA SendAsideSteps ==
    ASSUME StepInv, TypeOK, TypeOK', NEW c \in Conns, SendInput(c) \/ SendText(c) \/ SendPong(c)
    PROVE  StepInv'
<1>1. UNCHANGED <<events, handler, acked, sent, at, relayed, frame, players, open>>
  BY DEF SendInput, SendText, SendPong, engineVars, syncVars, sendVars, serverVars
<1>2. PICK w \in UpWords : /\ w[1] \notin Kinds \cup {"ACK"}
                           /\ up[c] = <<>> /\ up' = [up EXCEPT ![c] = <<w>>]
  <2>1. CASE SendInput(c)
    <3> DEFINE w == <<"INPUT", inputs + 1>>
    <3>1. w \in UpWords /\ w[1] \notin Kinds \cup {"ACK"}
      <4>1. inputs \in Nat
        BY RelayAssumption DEF TypeOK
      <4>2. inputs + 1 \in Nat
        BY <4>1
      <4> QED
        BY <4>2 DEF UpWords, MessageKinds, Kinds
    <3>2. up[c] = <<>> /\ up' = [up EXCEPT ![c] = <<w>>]
      BY <2>1 DEF SendInput, Send
    <3> QED
      BY <3>1, <3>2
  <2>2. CASE SendText(c)
    <3> DEFINE w == <<"TEXT", 0>>
    <3>1. w \in UpWords /\ w[1] \notin Kinds \cup {"ACK"}
      BY DEF UpWords, MessageKinds, Kinds
    <3>2. up[c] = <<>> /\ up' = [up EXCEPT ![c] = <<w>>]
      BY <2>2 DEF SendText, Send
    <3> QED
      BY <3>1, <3>2
  <2>3. CASE SendPong(c)
    <3> DEFINE w == <<"PONG", 0>>
    <3>1. w \in UpWords /\ w[1] \notin Kinds \cup {"ACK"}
      BY DEF UpWords, MessageKinds, Kinds
    <3>2. up[c] = <<>> /\ up' = [up EXCEPT ![c] = <<w>>]
      BY <2>3 DEF SendPong, Send
    <3> QED
      BY <3>1, <3>2
  <2> QED
    BY <2>1, <2>2, <2>3
<1>3. ASSUME NEW d \in Conns PROVE Coming(d)' = Coming(d)
  <2>1. CASE d # c
    <3>1. up'[d] = up[d]
      BY <1>2, <2>1 DEF TypeOK
    <3> QED
      BY <1>1, <3>1, ComingSame
  <2>2. CASE d = c
    <3> DEFINE words == <<w>>
               p == Posted(c, words)
    <3>1. words \in Seq(UpWords) /\ Len(words) = 1 /\ words[1] = w
      BY <1>2
    <3>2. up'[c] = words
      BY <1>2 DEF TypeOK
    <3> HIDE DEF words
    <3>3. /\ p \in Seq(Events) /\ Len(p) = 1
          /\ \A i \in 1..Len(words) : p[i] = <<words[i][1], c, words[i][2]>>
      BY <3>1, PostedType
    <3> DEFINE e == <<w[1], c, w[2]>>
    <3>4. p[1] = e
      BY <3>1, <3>3
    <3> HIDE DEF p
    <3>5. e \in Events /\ e[2] = c /\ e[1] \notin Kinds \cup {"ACK"}
      BY <1>2 DEF UpWords, Events
    <3> HIDE DEF e
    <3>6. e \notin StepsOf(c)
      BY <3>5, NoStep
    <3>7. Picked(p, StepsOf(c)) = <<>>
      <4>1. \A i \in 1..Len(p) : p[i] \notin StepsOf(c)
        BY <3>3, <3>4, <3>6
      <4> QED
        BY <3>3, <4>1, PickedNone
    <3>8. Coming(c)' = Coming(c) \o Picked(p, StepsOf(c))
      BY <1>1, <1>2, <3>1, <3>2, ComingSend DEF p
    <3>9. Coming(c) \o <<>> = Coming(c)
      BY StepTypes, ComingType
    <3> QED
      BY <2>2, <3>7, <3>8, <3>9
  <2> QED
    BY <2>1, <2>2
<1>4. \A d \in Conns : handler'[d] = "ended" => d \notin open'
  BY <1>1 DEF StepInv
<1> QED
  BY <1>1, <1>3, <1>4, StepOutside

LEMMA AppendIs ==
    ASSUME NEW S, NEW s \in Seq(S), NEW x \in S
    PROVE  /\ Append(s, x) \in Seq(S) /\ Len(s) \in Nat /\ Len(Append(s, x)) = Len(s) + 1
           /\ Append(s, x)[Len(s) + 1] = x
           /\ \A i \in 1..Len(s) : Append(s, x)[i] = s[i]
OBVIOUS

LEMMA PickedThree ==
    ASSUME NEW W, NEW K, NEW a \in W, NEW b \in W, NEW d \in W, a \in K, b \in K, d \in K
    PROVE  Picked(<<a, b, d>>, K) = <<a, b, d>>
<1> DEFINE z == <<>>
           s == Append(z, a)
           t == Append(s, b)
           u == Append(t, d)
<1>1. z \in Seq(W) /\ Picked(z, K) = z
  BY EmptySeq, PickedEmpty
<1>2. u = <<a, b, d>>
  <2> DEFINE v == <<a, b, d>>
  <2>1. s \in Seq(W) /\ Len(s) = 1 /\ s[1] = a
    BY <1>1
  <2> HIDE DEF s
  <2>2. t \in Seq(W) /\ Len(t) = 2 /\ t[1] = a /\ t[2] = b
    <3>1. /\ t \in Seq(W) /\ Len(t) = Len(s) + 1 /\ t[Len(s) + 1] = b
          /\ \A i \in 1..Len(s) : t[i] = s[i]
      <4>1. s \in Seq(W) /\ b \in W
        BY <2>1
      <4> QED
        BY <4>1, AppendIs
    <3> HIDE DEF t
    <3>2. 1 \in 1..Len(s) /\ Len(s) + 1 = 2
      BY <2>1
    <3> QED
      BY <2>1, <3>1, <3>2
  <2> HIDE DEF t
  <2>3. u \in Seq(W) /\ Len(u) = 3 /\ u[1] = a /\ u[2] = b /\ u[3] = d
    <3>1. /\ u \in Seq(W) /\ Len(u) = Len(t) + 1 /\ u[Len(t) + 1] = d
          /\ \A i \in 1..Len(t) : u[i] = t[i]
      <4>1. t \in Seq(W) /\ d \in W
        BY <2>2
      <4> QED
        BY <4>1, AppendIs
    <3> HIDE DEF u
    <3>2. 1 \in 1..Len(t) /\ 2 \in 1..Len(t) /\ Len(t) + 1 = 3
      BY <2>2
    <3> QED
      BY <2>2, <3>1, <3>2
  <2> HIDE DEF u
  <2>4. v \in Seq(W) /\ Len(v) = 3 /\ v[1] = a /\ v[2] = b /\ v[3] = d
    OBVIOUS
  <2> HIDE DEF v
  <2>5. \A i \in 1..Len(u) : u[i] = v[i]
    BY <2>3, <2>4
  <2>6. u = v
    BY <2>3, <2>4, <2>5, SeqEqual
  <2> QED
    BY <2>6 DEF v
<1> HIDE DEF z
<1>3. s \in Seq(W) /\ Picked(s, K) = s
  BY <1>1, PickedAppend
<1> HIDE DEF s
<1>4. t \in Seq(W) /\ Picked(t, K) = t
  BY <1>3, PickedAppend
<1> HIDE DEF t
<1>5. u \in Seq(W) /\ Picked(u, K) = u
  BY <1>4, PickedAppend
<1> QED
  BY <1>2, <1>5

(* An emulator acknowledges a frame only once it was relayed. *)
LEMMA ReceivedFrame ==
    ASSUME IInv, StepInv, NEW c \in Conns, NEW f \in Nat, Word(c, "FRAME", f)
    PROVE  f <= frame
<1> DEFINE w == <<"FRAME", f>>
           g == got[c]
           p == GameWords(g)
<1>1. g \in Seq(Words) /\ relayed \in Seq(Words)
  BY DEF IInv, TypeOK, EngineTypeOK
<1>2. PICK i \in 1..Len(g) : g[i] = w
  BY <1>1 DEF Word
<1>3. w \in {"FRAME", "INPUT"} \X Nat /\ w[1] = "FRAME" /\ w[2] = f
  OBVIOUS
<1> HIDE DEF g, w
<1>4. PICK j \in DOMAIN p : p[j] = w
  <2> DEFINE K == {"FRAME", "INPUT"} \X Nat
  <2>1. g[i] \in K
    BY <1>2, <1>3
  <2> HIDE DEF K
  <2>2. \E j \in DOMAIN Picked(g, K) : Picked(g, K)[j] = g[i]
    BY <1>1, <2>1, PickedHas
  <2> QED
    BY <1>2, <2>2 DEF GameWords, K
<1>5. p \in Seq(Words)
  BY <1>1, GameWordsType
<1>6. Len(p) <= Len(relayed) /\ \A n \in 1..Len(p) : p[n] = relayed[n]
  <2>1. IsPrefix(p, relayed)
    BY DEF IInv, StreamInv, g
  <2> HIDE DEF p
  <2> QED
    BY <1>1, <1>5, <2>1 DEF IsPrefix
<1> HIDE DEF p
<1>7. j \in 1..Len(p) /\ j \in DOMAIN relayed
  BY <1>1, <1>5, <1>6
<1>8. relayed[j] = w
  BY <1>4, <1>6, <1>7
<1> QED
  BY <1>3, <1>7, <1>8 DEF StepInv

LEMMA SendFrameAckSteps ==
    ASSUME IInv, StepInv, TypeOK', NEW c \in Conns, SendFrameAck(c)
    PROVE  StepInv'
<1> DEFINE n == at[c]
           words == <<<<"rnd", Sum(c, "rnd", n)>>, <<"mem", Sum(c, "mem", n)>>, <<"ACK", n + 1>>>>
           ea == <<"rnd", c, Sum(c, "rnd", n)>>
           eb == <<"mem", c, Sum(c, "mem", n)>>
           ed == <<"ACK", c, n + 1>>
           K == StepsOf(c)
<1>1. /\ UNCHANGED <<events, handler, acked, sent, relayed, frame, players, open>>
      /\ up[c] = <<>> /\ up' = [up EXCEPT ![c] = words] /\ at' = [at EXCEPT ![c] = n + 1]
      /\ c \in open /\ got[c] # <<>> /\ Word(c, "FRAME", n + 1)
  BY DEF SendFrameAck, Send, Playing, engineVars, syncVars, sendVars, serverVars
<1>2. TypeOK /\ n \in Nat /\ n + 1 \in Nat
  <2>1. n \in Nat
    BY DEF IInv, TypeOK
  <2> QED
    BY <2>1 DEF IInv
<1>3. n + 1 <= frame
  BY <1>1, <1>2, ReceivedFrame
<1>4. Sum(c, "rnd", n) \in {0, 1} /\ Sum(c, "mem", n) \in {0, 1}
  BY DEF Sum
<1>5. words \in Seq(UpWords) /\ Len(words) = 3
  <2>1. <<"rnd", Sum(c, "rnd", n)>> \in UpWords /\ <<"mem", Sum(c, "mem", n)>> \in UpWords
    BY <1>4 DEF UpWords, MessageKinds, Kinds
  <2>2. <<"ACK", n + 1>> \in UpWords
    BY <1>2 DEF UpWords, MessageKinds
  <2> QED
    BY <2>1, <2>2
<1>6. ea \in Events /\ eb \in Events /\ ed \in Events /\ ea \in K /\ eb \in K /\ ed \in K
  BY <1>2, <1>4 DEF Events, MessageKinds, Kinds, StepsOf
<1>7. Posted(c, words) = <<ea, eb, ed>>
  <2>1. DOMAIN words = 1..3
    OBVIOUS
  <2>2. words[1] = <<"rnd", Sum(c, "rnd", n)>> /\ words[2] = <<"mem", Sum(c, "mem", n)>> /\ words[3] = <<"ACK", n + 1>>
    OBVIOUS
  <2> HIDE DEF words
  <2>3. Posted(c, words) = [i \in 1..3 |-> <<words[i][1], c, words[i][2]>>]
    BY <2>1 DEF Posted
  <2>4. Posted(c, words)[1] = ea /\ Posted(c, words)[2] = eb /\ Posted(c, words)[3] = ed
    BY <2>2, <2>3
  <2> DEFINE p == Posted(c, words)
             q == <<ea, eb, ed>>
  <2>5. p \in Seq(Events) /\ Len(p) = 3
    BY <1>5, PostedType
  <2> HIDE DEF ea, eb, ed, p
  <2>6. q \in Seq(Events) /\ Len(q) = 3 /\ q[1] = ea /\ q[2] = eb /\ q[3] = ed
    BY <1>6
  <2>7. \A i \in 1..Len(p) : p[i] = q[i]
    BY <2>4, <2>5, <2>6 DEF p
  <2> HIDE DEF q
  <2>8. p = q
    BY <2>5, <2>6, <2>7, SeqEqual
  <2> QED
    BY <2>8 DEF p, q
<1>8. Coming(c)' = Coming(c) \o <<ea, eb, ed>>
  <2>1. up'[c] = words
    BY <1>1, <1>2 DEF TypeOK
  <2> HIDE DEF words, ea, eb, ed, K
  <2>2. Coming(c)' = Coming(c) \o Picked(Posted(c, words), StepsOf(c))
    BY <1>1, <1>2, <1>5, <2>1, ComingSend
  <2>3. Picked(<<ea, eb, ed>>, K) = <<ea, eb, ed>>
    BY <1>6, PickedThree
  <2> QED
    BY <1>7, <2>2, <2>3 DEF K
<1>9. ASSUME NEW d \in Conns, d # c PROVE Coming(d)' = Coming(d) /\ at'[d] = at[d]
  <2>1. up'[d] = up[d] /\ at'[d] = at[d]
    BY <1>1, <1>2, <1>9 DEF TypeOK
  <2> QED
    BY <1>1, <2>1, ComingSame
<1>10. at'[c] = n + 1
  BY <1>1, <1>2 DEF TypeOK
<1>11. IsStep(3 * n, ea) /\ IsStep(3 * n + 1, eb) /\ IsStep(3 * n + 2, ed)
  <2>1. n \in 0..(3 * n) /\ n \in 0..(3 * n + 1) /\ n \in 0..(3 * n + 2)
    BY <1>2
  <2>2. /\ ea[1] = "rnd" /\ ea[3] \in {0, 1} /\ eb[1] = "mem" /\ eb[3] \in {0, 1}
        /\ ed[1] = "ACK" /\ ed[3] = n + 1
    BY <1>4
  <2> HIDE DEF ea, eb, ed
  <2>3. IsStep(3 * n, ea)
    BY <2>1, <2>2 DEF IsStep
  <2>4. IsStep(3 * n + 1, eb)
    BY <2>1, <2>2 DEF IsStep
  <2>5. IsStep(3 * n + 2, ed)
    BY <2>1, <2>2 DEF IsStep
  <2> QED
    BY <2>3, <2>4, <2>5
<1> HIDE DEF n, words, ea, eb, ed, K
<1>12. ASSUME NEW s \in Slots, InOrder(s, c) PROVE InOrder(s, c)'
  <2> DEFINE p == Coming(c)
             q == <<ea, eb, ed>>
             m == Steps(s)
  <2>1. Coming(c) \in Seq(Events) /\ m \in Nat /\ n \in Nat
    BY <1>2, StepTypes DEF n
  <2>2. Steps(s)' = m /\ Rnds(s)' = Rnds(s) /\ Mems(s)' = Mems(s) /\ acked'[s] = acked[s]
    BY <1>1 DEF Steps, Rnds, Mems
  <2>3. handler[c] # "ended"
    BY <1>1 DEF StepInv
  <2>4. m + Len(p) = 3 * n /\ \A i \in DOMAIN p : IsStep(m + i - 1, p[i])
    BY <1>12, <2>3 DEF InOrder, n
  <2> HIDE DEF m
  <2>5. q \in Seq(Events) /\ Len(q) = 3 /\ q[1] = ea /\ q[2] = eb /\ q[3] = ed
    BY <1>6
  <2> HIDE DEF p, q
  <2>6. /\ p \o q \in Seq(Events) /\ Len(p) \in Nat /\ Len(p \o q) = Len(p) + 3
        /\ (\A i \in 1..Len(p) : (p \o q)[i] = p[i])
        /\ \A i \in 1..3 : (p \o q)[Len(p) + i] = q[i]
    <3>1. p \in Seq(Events) /\ q \in Seq(Events)
      BY <2>1, <2>5 DEF p
    <3>2. /\ p \o q \in Seq(Events) /\ Len(p) \in Nat /\ Len(p \o q) = Len(p) + Len(q)
          /\ (\A i \in 1..Len(p) : (p \o q)[i] = p[i])
          /\ \A i \in 1..Len(q) : (p \o q)[Len(p) + i] = q[i]
      BY <3>1, ConcatIs
    <3> QED
      BY <2>5, <3>2
  <2>7. m \in Nat /\ n \in Nat /\ Len(p) \in Nat /\ m + Len(p) = 3 * n
    BY <2>1, <2>4, <2>6
  <2>8. DOMAIN p = 1..Len(p) /\ DOMAIN (p \o q) = 1..(Len(p) + 3)
    BY <2>1, <2>6 DEF p
  <2>9. m + Len(p \o q) = 3 * (n + 1)
    BY <2>1, <2>4, <2>6
  <2>10. \A i \in DOMAIN (p \o q) : IsStep(m + i - 1, (p \o q)[i])
    <3> TAKE i \in DOMAIN (p \o q)
    <3>1. i \in Nat /\ i \in 1..(Len(p) + 3)
      BY <2>6, <2>8
    <3>2. CASE i <= Len(p)
      <4>1. i \in 1..Len(p)
        BY <3>1, <3>2, <2>6
      <4> QED
        BY <4>1, <2>4, <2>6, <2>8
    <3>3. CASE i = Len(p) + 1
      <4>1. m + i - 1 = 3 * n /\ (p \o q)[i] = ea
        BY <3>3, <2>1, <2>4, <2>5, <2>6
      <4> QED
        BY <4>1, <1>11
    <3>4. CASE i = Len(p) + 2
      <4>1. m + i - 1 = 3 * n + 1
        BY <3>4, <2>7
      <4>2. (p \o q)[i] = eb
        BY <3>4, <2>5, <2>6
      <4> QED
        BY <4>1, <4>2, <1>11
    <3>5. CASE i = Len(p) + 3
      <4>1. m + i - 1 = 3 * n + 2
        BY <3>5, <2>7
      <4>2. (p \o q)[i] = ed
        BY <3>5, <2>5, <2>6
      <4> QED
        BY <4>1, <4>2, <1>11
    <3>6. i <= Len(p) \/ i = Len(p) + 1 \/ i = Len(p) + 2 \/ i = Len(p) + 3
      BY <3>1, <2>6
    <3> QED
      BY <3>2, <3>3, <3>4, <3>5, <3>6
  <2>11. Coming(c)' = p \o q
    BY <1>8 DEF p, q
  <2>12. \A i \in DOMAIN Coming(c)' : IsStep(Steps(s)' + i - 1, Coming(c)'[i])
    BY <2>2, <2>10, <2>11
  <2>13. Steps(s)' + Len(Coming(c)') = 3 * at'[c] /\ Steps(s)' + Len(Coming(c)') <= 3 * at'[c]
    <3>1. 3 * (n + 1) \in Nat
      BY <2>1
    <3> QED
      BY <1>10, <2>2, <2>9, <2>11, <3>1
  <2>14. acked'[s] <= Mems(s)' /\ Mems(s)' <= Rnds(s)' /\ Rnds(s)' <= acked'[s] + 1
    BY <1>12, <2>2 DEF InOrder
  <2> QED
    BY <2>12, <2>13, <2>14 DEF InOrder, IsStep
<1>13. \A s \in Present' : InOrder(s, players[s])'
  <2> TAKE s \in Present'
  <2>1. s \in Present /\ s \in Slots /\ players[s] \in Conns /\ players'[s] = players[s]
    BY <1>1, <1>2 DEF Present, TypeOK, EngineTypeOK
  <2>2. PICK d \in Conns : d = players[s] /\ d = players'[s]
    BY <2>1
  <2>3. InOrder(s, d)
    BY <2>1, <2>2 DEF StepInv
  <2>4. CASE d = c
    BY <1>12, <2>1, <2>2, <2>3, <2>4 DEF InOrder
  <2>5. CASE d # c
    <3>1. InOrder(s, d)'
      BY <1>1, <1>9, <2>1, <2>3, <2>5, InOrderSame
    <3> QED
      BY <2>2, <3>1 DEF InOrder
  <2> QED
    BY <2>4, <2>5
<1>14. \A d \in Conns : handler'[d] \in {"idle", "joining"} => at'[d] = 0 /\ Coming(d)' = <<>>
  <2>1. handler[c] \notin {"idle", "joining"}
    <3>1. Joined(c)
      BY <1>1 DEF IInv, TellInv
    <3> QED
      BY <3>1 DEF IInv, SeatInv
  <2> QED
    BY <1>1, <1>9, <2>1 DEF StepInv
<1>15. \A d \in Conns : at'[d] <= frame'
  BY <1>1, <1>3, <1>9, <1>10 DEF StepInv
<1>16. /\ \A i \in DOMAIN relayed' : relayed'[i][1] = "FRAME" => relayed'[i][2] <= frame'
       /\ \A d \in Conns : handler'[d] = "ended" => d \notin open'
  BY <1>1 DEF StepInv
<1> QED
  BY <1>13, <1>14, <1>15, <1>16 DEF StepInv

-----------------------------------------------------------------------------
(* Events *)

LEMMA TakenComing ==
    ASSUME TypeOK, NEW kind, NEW c \in Conns, NEW data, Take(kind, c, data)
    PROVE  /\ \A d \in Conns : d # c \/ kind \notin Kinds \cup {"ACK"} => Coming(d)' = Coming(d)
           /\ kind \in Kinds \cup {"ACK"} => Coming(c) = <<<<kind, c, data>>>> \o Coming(c)'
           /\ UNCHANGED <<at, up>>
<1> DEFINE e == <<kind, c, data>>
<1>1. events # <<>> /\ Head(events) = e /\ events' = Tail(events) /\ UNCHANGED <<at, up>>
  BY DEF Take, clientVars
<1>2. e \in Events
  BY <1>1, FirstEvent DEF Events, MessageKinds
<1>3. data \in Nat
  BY TakeType
<1>4. e[1] = kind /\ e[2] = c
  OBVIOUS
<1>5. \A d \in Conns : d # c \/ kind \notin Kinds \cup {"ACK"} => e \notin StepsOf(d)
  BY <1>2, <1>4, NoStep
<1>6. kind \in Kinds \cup {"ACK"} => e \in StepsOf(c)
  BY <1>3 DEF StepsOf
<1> HIDE DEF e
<1>7. \A d \in Conns : Coming(d) = IF e \in StepsOf(d) THEN <<e>> \o Coming(d)' ELSE Coming(d)'
  <2> TAKE d \in Conns
  <2>1. up'[d] = up[d]
    BY <1>1
  <2> QED
    BY <1>1, <2>1, ComingTail
<1> QED
  BY <1>1, <1>5, <1>6, <1>7 DEF e

LEMMA StepNumber ==
    ASSUME NEW a \in Nat, NEW m \in Nat, NEW r \in Nat, NEW f \in Nat, a <= m, m <= r, r <= a + 1
    PROVE  /\ r + m + a = 3 * f => r = a /\ m = a
           /\ r + m + a = 3 * f + 1 => r = a + 1 /\ m = a
           /\ r + m + a = 3 * f + 2 => r = a + 1 /\ m = a + 1 /\ f = a
<1>1. CASE r = a /\ m = a
  BY <1>1
<1>2. CASE r = a + 1 /\ m = a
  BY <1>2
<1>3. CASE r = a + 1 /\ m = a + 1
  BY <1>3
<1>4. (r = a /\ m = a) \/ (r = a + 1 /\ m = a) \/ (r = a + 1 /\ m = a + 1)
  OBVIOUS
<1> QED
  BY <1>1, <1>2, <1>3, <1>4

LEMMA FirstStep ==
    ASSUME TypeOK, NEW s \in Slots, NEW c \in Conns, InOrder(s, c), at[c] <= frame,
           NEW e \in Events, NEW rest \in Seq(Events), Coming(c) = <<e>> \o rest
    PROVE  /\ acked[s] < frame
           /\ e[1] = "rnd" => Rnds(s) = acked[s] /\ Mems(s) = acked[s] /\ e[3] \in {0, 1}
           /\ e[1] = "mem" => Rnds(s) = acked[s] + 1 /\ Mems(s) = acked[s] /\ e[3] \in {0, 1}
           /\ e[1] = "ACK" => Rnds(s) = acked[s] + 1 /\ Mems(s) = acked[s] + 1 /\ e[3] = acked[s] + 1
           /\ Len(Coming(c)) = Len(rest) + 1 /\ DOMAIN Coming(c) = 1..(Len(rest) + 1) /\ Len(rest) \in Nat
           /\ \A i \in 1..Len(rest) : Coming(c)[i + 1] = rest[i]
<1> DEFINE a == acked[s]
           m == Mems(s)
           r == Rnds(s)
           n == Steps(s)
           p == Coming(c)
           one == <<e>>
<1>1. /\ a \in Nat /\ m \in Nat /\ r \in Nat /\ n = r + m + a /\ at[c] \in Nat /\ frame \in Nat
      /\ p \in Seq(Events) /\ Len(p) \in Nat /\ DOMAIN p = 1..Len(p)
  BY StepTypes DEF Steps
<1>2. /\ a <= m /\ m <= r /\ r <= a + 1 /\ n + Len(p) <= 3 * at[c]
      /\ \A i \in DOMAIN p : IsStep(n + i - 1, p[i])
  BY DEF InOrder
<1>3. one \in Seq(Events) /\ Len(one) = 1 /\ one[1] = e
  OBVIOUS
<1> HIDE DEF one
<1>4. /\ Len(one \o rest) = Len(one) + Len(rest) /\ Len(rest) \in Nat
      /\ (\A i \in 1..Len(one) : (one \o rest)[i] = one[i])
      /\ \A i \in 1..Len(rest) : (one \o rest)[Len(one) + i] = rest[i]
  <2>1. one \in Seq(Events) /\ rest \in Seq(Events)
    BY <1>3
  <2> QED
    BY <2>1, ConcatIs
<1>5. p = one \o rest
  BY DEF one
<1>6. /\ Len(p) = Len(rest) + 1 /\ p[1] = e
      /\ \A i \in 1..Len(rest) : p[i + 1] = rest[i]
  <2>1. 1 \in 1..Len(one)
    BY <1>3
  <2>2. \A i \in 1..Len(rest) : Len(one) + i = i + 1
    BY <1>3
  <2>3. Len(p) = Len(rest) + 1
    BY <1>3, <1>4, <1>5
  <2>4. p[1] = e
    BY <1>3, <1>4, <1>5, <2>1
  <2> HIDE DEF p
  <2> QED
    BY <1>4, <1>5, <2>2, <2>3, <2>4
<1>7. IsStep(n, e)
  <2>1. 1 \in DOMAIN p /\ n + 1 - 1 = n
    BY <1>1, <1>4, <1>6
  <2> QED
    BY <1>2, <1>6, <2>1
<1>8. n + 1 <= 3 * at[c]
  BY <1>1, <1>2, <1>4, <1>6
<1> HIDE DEF a, m, r, n, p
<1>9. 3 * a <= n
  BY <1>1, <1>2
<1>10. a < frame
  BY <1>1, <1>8, <1>9
<1>11. PICK f \in 0..n :
        \/ n = 3 * f     /\ e[1] = "rnd" /\ e[3] \in {0, 1}
        \/ n = 3 * f + 1 /\ e[1] = "mem" /\ e[3] \in {0, 1}
        \/ n = 3 * f + 2 /\ e[1] = "ACK" /\ e[3] = f + 1
  BY <1>7 DEF IsStep
<1>12. /\ r + m + a = 3 * f => r = a /\ m = a
       /\ r + m + a = 3 * f + 1 => r = a + 1 /\ m = a
       /\ r + m + a = 3 * f + 2 => r = a + 1 /\ m = a + 1 /\ f = a
  <2>1. a \in Nat /\ m \in Nat /\ r \in Nat /\ f \in Nat /\ a <= m /\ m <= r /\ r <= a + 1
    BY <1>1, <1>2
  <2> QED
    BY <2>1, StepNumber
<1>13. n = r + m + a
  BY <1>1
<1>14. e[1] = "rnd" => r = a /\ m = a /\ e[3] \in {0, 1}
  <2> SUFFICES ASSUME e[1] = "rnd" PROVE r = a /\ m = a /\ e[3] \in {0, 1}
    OBVIOUS
  <2>1. n = 3 * f /\ e[3] \in {0, 1}
    BY <1>11
  <2> QED
    BY <1>12, <1>13, <2>1
<1>15. e[1] = "mem" => r = a + 1 /\ m = a /\ e[3] \in {0, 1}
  <2> SUFFICES ASSUME e[1] = "mem" PROVE r = a + 1 /\ m = a /\ e[3] \in {0, 1}
    OBVIOUS
  <2>1. n = 3 * f + 1 /\ e[3] \in {0, 1}
    BY <1>11
  <2> QED
    BY <1>12, <1>13, <2>1
<1>16. e[1] = "ACK" => r = a + 1 /\ m = a + 1 /\ e[3] = a + 1
  <2> SUFFICES ASSUME e[1] = "ACK" PROVE r = a + 1 /\ m = a + 1 /\ e[3] = a + 1
    OBVIOUS
  <2>1. n = 3 * f + 2 /\ e[3] = f + 1 /\ f \in Nat
    BY <1>1, <1>11
  <2>2. f = a /\ r = a + 1 /\ m = a + 1
    BY <1>12, <1>13, <2>1
  <2> QED
    BY <2>1, <2>2
<1>17. DOMAIN p = 1..(Len(rest) + 1)
  BY <1>1, <1>6
<1> QED
  BY <1>4, <1>6, <1>10, <1>14, <1>15, <1>16, <1>17 DEF a, m, r, n, p

LEMMA HeadStep ==
    ASSUME TypeOK, NEW s \in Slots, NEW c \in Conns, InOrder(s, c), at[c] <= frame,
           NEW e \in Events, Coming(c)' \in Seq(Events), Coming(c) = <<e>> \o Coming(c)',
           at'[c] = at[c], handler'[c] = handler[c], Steps(s)' = Steps(s) + 1,
           acked'[s] <= Mems(s)', Mems(s)' <= Rnds(s)', Rnds(s)' <= acked'[s] + 1
    PROVE  InOrder(s, c)'
<1> DEFINE rest == Coming(c)'
           n == Steps(s)
           p == Coming(c)
<1>1. n \in Nat /\ at[c] \in Nat
  BY StepTypes
<1>2. /\ n + Len(p) <= 3 * at[c] /\ (handler[c] = "ended" \/ n + Len(p) = 3 * at[c])
      /\ \A i \in DOMAIN p : IsStep(n + i - 1, p[i])
  BY DEF InOrder
<1>3. /\ Len(p) = Len(rest) + 1 /\ DOMAIN p = 1..(Len(rest) + 1) /\ Len(rest) \in Nat
      /\ \A i \in 1..Len(rest) : p[i + 1] = rest[i]
  BY FirstStep
<1>4. DOMAIN rest = 1..Len(rest) /\ Steps(s)' = n + 1
  OBVIOUS
<1> HIDE DEF n, p, rest
<1>5. \A i \in DOMAIN rest : IsStep((n + 1) + i - 1, rest[i])
  <2> TAKE i \in DOMAIN rest
  <2> DEFINE j == i + 1
  <2>3. i \in 1..Len(rest) /\ i \in Nat /\ n \in Nat
    BY <1>1, <1>4
  <2>1. i \in 1..Len(rest) /\ j \in DOMAIN p /\ n + j - 1 = (n + 1) + i - 1
    BY <1>3, <2>3
  <2>2. p[j] = rest[i]
    BY <1>3, <2>1
  <2> HIDE DEF j
  <2> QED
    BY <1>2, <2>1, <2>2
<1>6. (n + 1) + Len(rest) <= 3 * at[c] /\ (handler[c] = "ended" \/ (n + 1) + Len(rest) = 3 * at[c])
  <2>1. (n + 1) + Len(rest) = n + Len(p)
    BY <1>1, <1>3
  <2> QED
    BY <1>2, <2>1
<1>7. \A i \in DOMAIN Coming(c)' : IsStep(Steps(s)' + i - 1, Coming(c)'[i])
  BY <1>4, <1>5 DEF rest
<1>8. /\ Steps(s)' + Len(Coming(c)') <= 3 * at'[c]
      /\ handler'[c] = "ended" \/ Steps(s)' + Len(Coming(c)') = 3 * at'[c]
  BY <1>4, <1>6 DEF rest
<1> QED
  BY <1>7, <1>8 DEF InOrder, IsStep

LEMMA EventSteps ==
    ASSUME StepInv, TypeOK, TypeOK', NEW kind, NEW c \in Conns, NEW data, Take(kind, c, data), frame' = frame,
           \A i \in DOMAIN relayed' : relayed'[i][1] = "FRAME" => relayed'[i][2] <= frame',
           \A d \in Conns :
                /\ handler'[d] \in {"idle", "joining"} => handler[d] \in {"idle", "joining"}
                /\ handler'[d] = "ended" => d \notin open',
           \A s \in Present' : InOrder(s, players[s])'
    PROVE  StepInv'
<1>1. UNCHANGED at
  BY TakenComing
<1>2. \A d \in Conns : at'[d] <= frame'
  BY <1>1 DEF StepInv
<1>3. ASSUME NEW d \in Conns, handler'[d] \in {"idle", "joining"} PROVE at'[d] = 0 /\ Coming(d)' = <<>>
  <2>1. at[d] = 0 /\ Coming(d) = <<>>
    BY <1>3 DEF StepInv
  <2>2. CASE d # c \/ kind \notin Kinds \cup {"ACK"}
    <3>1. Coming(d)' = Coming(d)
      BY <2>2, TakenComing
    <3> QED
      BY <1>1, <2>1, <3>1
  <2>3. CASE d = c /\ kind \in Kinds \cup {"ACK"}
    <3> DEFINE e == <<kind, c, data>>
               rest == Coming(c)'
    <3>1. <<>> = <<e>> \o rest
      BY <2>1, <2>3, TakenComing
    <3>2. e \in Events /\ rest \in Seq(Events)
      <4>1. rest \in Seq(Events)
        BY ComingNext
      <4>2. e \in Events
        BY TakeType DEF Events
      <4> QED
        BY <4>1, <4>2
    <3> HIDE DEF e, rest
    <3>3. <<e>> \in Seq(Events) /\ Len(<<e>>) = 1
      BY <3>2
    <3>4. Len(<<e>> \o rest) = 1 + Len(rest) /\ Len(rest) \in Nat
      BY <3>2, <3>3
    <3>5. Len(<<>>) = 0
      OBVIOUS
    <3> QED
      BY <3>1, <3>4, <3>5
  <2> QED
    BY <2>2, <2>3
<1> QED
  BY <1>2, <1>3 DEF StepInv

(* The other players *)
LEMMA OtherSteps ==
    ASSUME StepInv, TypeOK, NEW kind, NEW c \in Conns, NEW data, Take(kind, c, data), NEW s \in Present,
           players'[s] = players[s], acked'[s] = acked[s], sent'[s] = sent[s],
           players[s] # c \/ kind \notin Kinds \cup {"ACK"},
           handler[players[s]] = "ended" => handler'[players[s]] = "ended"
    PROVE  InOrder(s, players[s])'
<1>1. s \in Slots /\ players[s] \in Conns
  BY DEF Present, TypeOK, EngineTypeOK
<1>2. PICK d \in Conns : d = players[s] /\ d = players'[s]
  BY <1>1
<1>3. InOrder(s, d)
  BY <1>2 DEF StepInv
<1>4. Coming(d)' = Coming(d) /\ at'[d] = at[d]
  <2>1. at' = at /\ \A b \in Conns : b # c \/ kind \notin Kinds \cup {"ACK"} => Coming(b)' = Coming(b)
    BY TakenComing
  <2>2. d # c \/ kind \notin Kinds \cup {"ACK"}
    BY <1>2
  <2> QED
    BY <2>1, <2>2
<1>5. handler[d] = "ended" => handler'[d] = "ended"
  BY <1>2
<1>6. InOrder(s, d)'
  BY <1>1, <1>3, <1>4, <1>5, InOrderSame
<1> QED
  BY <1>2, <1>6 DEF InOrder

LEMMA RefuseJoinSteps ==
    ASSUME IInv, StepInv, TypeOK', NEW c, NEW v, RefuseJoin(c, v)
    PROVE  StepInv'
<1>1. Take("JOIN", c, v) /\ "JOIN" \notin Kinds \cup {"ACK"} /\ TypeOK
  BY DEF RefuseJoin, Kinds, IInv
<1>2. c \in Conns
  BY <1>1, TakeType
<1>3. /\ UNCHANGED <<players, acked, sent, relayed, frame>>
      /\ handler' = [handler EXCEPT ![c] = "ended"] /\ open' = open \ {c}
  BY DEF RefuseJoin, engineVars, syncVars, sendVars
<1>4. \A i \in DOMAIN relayed' : relayed'[i][1] = "FRAME" => relayed'[i][2] <= frame'
  BY <1>3 DEF StepInv
<1>5. \A d \in Conns :
                /\ handler'[d] \in {"idle", "joining"} => handler[d] \in {"idle", "joining"}
                /\ handler'[d] = "ended" => d \notin open'
                /\ handler[d] = "ended" => handler'[d] = "ended"
  BY <1>1, <1>3 DEF StepInv, TypeOK
<1>6. \A s \in Present' : InOrder(s, players[s])'
  <2> TAKE s \in Present'
  <2>1. s \in Present /\ players[s] \in Conns /\ players'[s] = players[s] /\ acked'[s] = acked[s] /\ sent'[s] = sent[s]
    BY <1>1, <1>3 DEF Present, TypeOK, EngineTypeOK
  <2> QED
    BY <1>1, <1>2, <1>5, <2>1, OtherSteps
<1> QED
  BY <1>1, <1>2, <1>3, <1>4, <1>5, <1>6, EventSteps

LEMMA IgnoreMessageSteps ==
    ASSUME IInv, StepInv, TypeOK', NEW kind, NEW c, NEW data, IgnoreMessage(kind, c, data)
    PROVE  StepInv'
<1>1. Take(kind, c, data) /\ TypeOK /\ \A s \in Slots : players[s] # c
  BY DEF IgnoreMessage, IInv
<1>2. c \in Conns
  BY <1>1, TakeType
<1>3. UNCHANGED <<players, acked, sent, relayed, frame, handler, open>>
  BY DEF IgnoreMessage, engineVars, syncVars, sendVars, connVars
<1>4. \A i \in DOMAIN relayed' : relayed'[i][1] = "FRAME" => relayed'[i][2] <= frame'
  BY <1>3 DEF StepInv
<1>5. \A d \in Conns :
                /\ handler'[d] \in {"idle", "joining"} => handler[d] \in {"idle", "joining"}
                /\ handler'[d] = "ended" => d \notin open'
  BY <1>3 DEF StepInv
<1>6. \A s \in Present' : InOrder(s, players[s])'
  <2> TAKE s \in Present'
  <2>1. /\ s \in Present /\ players'[s] = players[s] /\ acked'[s] = acked[s] /\ sent'[s] = sent[s]
        /\ players[s] # c /\ handler'[players[s]] = handler[players[s]]
    BY <1>1, <1>3 DEF Present
  <2> QED
    BY <1>1, <1>2, <2>1, OtherSteps
<1> QED
  BY <1>1, <1>2, <1>3, <1>4, <1>5, <1>6, EventSteps

(* A new player has sent nothing yet. *)
LEMMA AcceptJoinSteps ==
    ASSUME IInv, StepInv, TypeOK', NEW c, NEW v, AcceptJoin(c, v)
    PROVE  StepInv'
<1>1. Take("JOIN", c, v) /\ "JOIN" \notin Kinds \cup {"ACK"} /\ TypeOK
  BY DEF AcceptJoin, Kinds, IInv
<1>2. c \in Conns /\ handler[c] = "joining"
  BY <1>1, Taken
<1>3. PICK n \in Slots \ Present : JoinAt(n, c, v)
  BY DEF AcceptJoin, Join
<1>4. /\ UNCHANGED <<relayed, frame, open>>
      /\ handler' = [handler EXCEPT ![c] = "accepted"]
      /\ players' = [players EXCEPT ![n] = c]
      /\ acked' = [acked EXCEPT ![n] = 0]
      /\ sent' = [sent EXCEPT ![n] = NothingSent]
  BY <1>3 DEF AcceptJoin, JoinAt
<1>5. \A i \in DOMAIN relayed' : relayed'[i][1] = "FRAME" => relayed'[i][2] <= frame'
  BY <1>4 DEF StepInv
<1>6. \A d \in Conns :
                /\ handler'[d] \in {"idle", "joining"} => handler[d] \in {"idle", "joining"}
                /\ handler'[d] = "ended" => d \notin open'
                /\ handler[d] = "ended" => handler'[d] = "ended"
  BY <1>1, <1>2, <1>4 DEF StepInv, TypeOK
<1>7. ASSUME NEW s \in Present', s # n PROVE InOrder(s, players[s])'
  <2>1. s \in Present /\ players[s] \in Conns /\ players'[s] = players[s] /\ acked'[s] = acked[s] /\ sent'[s] = sent[s]
    BY <1>1, <1>4, <1>7 DEF Present, TypeOK, EngineTypeOK
  <2> QED
    BY <1>1, <1>2, <1>6, <2>1, OtherSteps
<1>8. InOrder(n, players[n])'
  <2>1. Coming(c)' = <<>> /\ at'[c] = 0
    <3>1. Coming(c)' = Coming(c) /\ at' = at
      BY <1>1, <1>2, TakenComing
    <3> QED
      BY <1>2, <3>1 DEF StepInv
  <2>2. players'[n] = c /\ acked'[n] = 0 /\ sent'[n] = NothingSent
    BY <1>1, <1>4 DEF TypeOK, EngineTypeOK
  <2>3. Rnds(n)' = 0 /\ Mems(n)' = 0
    BY <2>2 DEF Rnds, Mems, NothingSent, Kinds
  <2>4. Steps(n)' = 0
    BY <2>2, <2>3 DEF Steps
  <2>5. DOMAIN Coming(c)' = {} /\ Len(Coming(c)') = 0
    BY <2>1
  <2> QED
    BY <2>1, <2>2, <2>3, <2>4, <2>5 DEF InOrder
<1>9. \A s \in Present' : InOrder(s, players[s])'
  BY <1>7, <1>8
<1>10. frame' = frame
  BY <1>4
<1> QED
  BY <1>1, <1>2, <1>5, <1>6, <1>9, <1>10, EventSteps

LEMMA AsideMessageSteps ==
    ASSUME IInv, StepInv, TypeOK', NEW n \in Present, NEW kind, NEW data, HandleMessage(n, kind, data),
           kind \notin Kinds \cup {"ACK"}
    PROVE  StepInv'
<1> DEFINE c == players[n]
<1>1. Take(kind, c, data) /\ TypeOK /\ c \in Conns /\ n \in Slots /\ data \in Nat
  BY TakeType DEF HandleMessage, Present, TypeOK, EngineTypeOK, IInv
<1>2. UNCHANGED <<handler, open>>
  BY DEF HandleMessage, connVars
<1>3. UNCHANGED <<acked, sent, frame>> /\ (players' = players \/ players' = Slotless(n))
  BY DEF HandleMessage, OnInput, OnPong, OnText, Gone, OnGone, syncVars, sendVars
<1>4. \A i \in DOMAIN relayed' : relayed'[i][1] = "FRAME" => relayed'[i][2] <= frame'
  <2>1. CASE relayed' = relayed
    BY <1>3, <2>1 DEF StepInv
  <2>2. CASE relayed' = Append(relayed, <<"INPUT", data>>)
    <3> DEFINE w == <<"INPUT", data>>
    <3>1. w \in Words /\ w[1] # "FRAME" /\ frame' \in Nat /\ frame <= frame'
      <4>1. frame \in Nat /\ frame' = frame
        BY <1>1, <1>3 DEF TypeOK, EngineTypeOK
      <4>2. data \in Nat
        BY <1>1
      <4>3. w \in Words /\ w[1] # "FRAME"
        BY <4>2, WordsAre
      <4> QED
        BY <4>1, <4>3
    <3> HIDE DEF w
    <3>2. relayed' = Append(relayed, w)
      BY <2>2 DEF w
    <3> QED
      BY <1>1, <3>1, <3>2, FramesBounded
  <2>3. relayed' = relayed \/ relayed' = Append(relayed, <<"INPUT", data>>)
    BY DEF HandleMessage, OnInput, OnPong, OnText, Gone, OnGone
  <2> QED
    BY <2>1, <2>2, <2>3
<1>5. \A d \in Conns :
                /\ handler'[d] \in {"idle", "joining"} => handler[d] \in {"idle", "joining"}
                /\ handler'[d] = "ended" => d \notin open'
  BY <1>2 DEF StepInv
<1> HIDE DEF c
<1>6. \A s \in Present' : InOrder(s, players[s])'
  <2> TAKE s \in Present'
  <2>1. s \in Present /\ players'[s] = players[s]
    BY <1>1, <1>3, SlotlessIs
  <2>2. acked'[s] = acked[s] /\ sent'[s] = sent[s] /\ handler'[players[s]] = handler[players[s]]
    BY <1>2, <1>3
  <2> QED
    BY <1>1, <2>1, <2>2, OtherSteps
<1>7. frame' = frame
  BY <1>3
<1> QED
  BY <1>1, <1>4, <1>5, <1>6, <1>7, EventSteps

(* The player's next step *)
LEMMA TakenStep ==
    ASSUME IInv, StepInv, TypeOK', NEW s \in Present, NEW c \in Conns, players[s] = c,
           NEW kind \in Kinds \cup {"ACK"}, NEW data, Take(kind, c, data)
    PROVE  /\ acked[s] < frame /\ data \in Nat
           /\ kind = "rnd" => Rnds(s) = acked[s] /\ Mems(s) = acked[s] /\ data \in {0, 1}
           /\ kind = "mem" => Rnds(s) = acked[s] + 1 /\ Mems(s) = acked[s] /\ data \in {0, 1}
           /\ kind = "ACK" => Rnds(s) = acked[s] + 1 /\ Mems(s) = acked[s] + 1 /\ data = acked[s] + 1
           /\ Coming(c)' \in Seq(Events) /\ InOrder(s, c) /\ at[c] <= frame
           /\ Coming(c) = <<<<kind, c, data>>>> \o Coming(c)'
<1> DEFINE e == <<kind, c, data>>
           rest == Coming(c)'
<1>1. TypeOK /\ s \in Slots
  BY DEF Present, IInv
<1>2. InOrder(s, c) /\ at[c] <= frame
  BY <1>1 DEF StepInv
<1>3. e \in Events /\ data \in Nat
  BY <1>1, TakeType DEF Events
<1>4. e[1] = kind /\ e[3] = data
  OBVIOUS
<1>5. Coming(c) = <<e>> \o rest
  BY <1>1, TakenComing
<1>6. rest \in Seq(Events)
  BY ComingNext
<1> HIDE DEF e, rest
<1>7. /\ acked[s] < frame
      /\ e[1] = "rnd" => Rnds(s) = acked[s] /\ Mems(s) = acked[s] /\ e[3] \in {0, 1}
      /\ e[1] = "mem" => Rnds(s) = acked[s] + 1 /\ Mems(s) = acked[s] /\ e[3] \in {0, 1}
      /\ e[1] = "ACK" => Rnds(s) = acked[s] + 1 /\ Mems(s) = acked[s] + 1 /\ e[3] = acked[s] + 1
  BY <1>1, <1>2, <1>3, <1>5, <1>6, FirstStep
<1> QED
  BY <1>2, <1>3, <1>4, <1>5, <1>6, <1>7 DEF e, rest

LEMMA PlayerStepSteps ==
    ASSUME IInv, StepInv, TypeOK', NEW n \in Present, NEW kind \in Kinds \cup {"ACK"}, NEW data,
           HandleMessage(n, kind, data)
    PROVE  StepInv'
<1>1. PICK c \in Conns : players[n] = c
  BY DEF Present, TypeOK, EngineTypeOK, IInv
<1>2. Take(kind, c, data) /\ TypeOK /\ n \in Slots
  BY <1>1 DEF HandleMessage, Present, IInv
<1>3. UNCHANGED <<handler, open>>
  BY DEF HandleMessage, connVars
<1>4. UNCHANGED <<players, relayed, frame>>
  BY DEF HandleMessage, OnAck, OnCheck, Kinds, syncVars, sendVars
<1>5. /\ acked[n] < frame /\ data \in Nat
      /\ kind = "rnd" => Rnds(n) = acked[n] /\ Mems(n) = acked[n] /\ data \in {0, 1}
      /\ kind = "mem" => Rnds(n) = acked[n] + 1 /\ Mems(n) = acked[n] /\ data \in {0, 1}
      /\ kind = "ACK" => Rnds(n) = acked[n] + 1 /\ Mems(n) = acked[n] + 1 /\ data = acked[n] + 1
      /\ Coming(c)' \in Seq(Events) /\ InOrder(n, c) /\ at[c] <= frame
      /\ Coming(c) = <<<<kind, c, data>>>> \o Coming(c)'
  BY <1>1, <1>2, TakenStep
<1>6. \/ kind = "ACK" /\ acked' = [acked EXCEPT ![n] = data] /\ sent' = sent
      \/ kind \in Kinds /\ acked' = acked /\ sent' = [sent EXCEPT ![n][kind] = Append(@, data)]
  BY DEF HandleMessage, OnAck, OnCheck, Kinds
<1>7. acked[n] \in Nat /\ Rnds(n) \in Nat /\ Mems(n) \in Nat
  BY <1>2, StepTypes
<1>8. \A t \in Present : t # n => acked'[t] = acked[t] /\ sent'[t] = sent[t]
  BY <1>2, <1>6 DEF Present, TypeOK, EngineTypeOK
<1>9. /\ kind = "ACK" => acked'[n] = acked[n] + 1 /\ Rnds(n)' = Rnds(n) /\ Mems(n)' = Mems(n)
      /\ kind = "rnd" => acked'[n] = acked[n] /\ Rnds(n)' = Rnds(n) + 1 /\ Mems(n)' = Mems(n)
      /\ kind = "mem" => acked'[n] = acked[n] /\ Rnds(n)' = Rnds(n) /\ Mems(n)' = Mems(n) + 1
  <2>1. CASE kind = "ACK"
    BY <2>1, <1>2, <1>5, <1>6 DEF Rnds, Mems, TypeOK, EngineTypeOK, Kinds
  <2>2. CASE kind \in Kinds
    <3>1. sent[n] \in [Kinds -> Seq(Nat)] /\ sent[n][kind] \in Seq(Nat)
      BY <1>2, <2>2 DEF TypeOK, EngineTypeOK
    <3>2. sent'[n] = [sent[n] EXCEPT ![kind] = Append(sent[n][kind], data)] /\ acked' = acked
      BY <1>2, <1>6, <2>2 DEF TypeOK, EngineTypeOK, Kinds
    <3>3. Len(Append(sent[n][kind], data)) = Len(sent[n][kind]) + 1
      BY <1>5, <3>1
    <3>4. \A k \in Kinds : Len(sent'[n][k]) = IF k = kind THEN Len(sent[n][k]) + 1 ELSE Len(sent[n][k])
      BY <2>2, <3>1, <3>2, <3>3
    <3>5. "rnd" \in Kinds /\ "mem" \in Kinds
      BY DEF Kinds
    <3>6. /\ Rnds(n)' = IF kind = "rnd" THEN Rnds(n) + 1 ELSE Rnds(n)
          /\ Mems(n)' = IF kind = "mem" THEN Mems(n) + 1 ELSE Mems(n)
      BY <3>4, <3>5 DEF Rnds, Mems
    <3> QED
      BY <2>2, <3>2, <3>6 DEF Kinds
  <2> QED
    BY <2>1, <2>2
<1>10. InOrder(n, c)'
  <2>1. Steps(n)' = Steps(n) + 1 /\ acked'[n] <= Mems(n)' /\ Mems(n)' <= Rnds(n)' /\ Rnds(n)' <= acked'[n] + 1
    <3>1. kind = "rnd" \/ kind = "mem" \/ kind = "ACK"
      BY DEF Kinds
    <3>2. CASE kind = "rnd"
      <4>1. Rnds(n)' = Rnds(n) + 1 /\ Mems(n)' = Mems(n) /\ acked'[n] = acked[n]
        BY <3>2, <1>9
      <4>2. Steps(n)' = Steps(n) + 1
        BY <4>1, <1>7 DEF Steps
      <4> QED
        BY <3>2, <4>1, <4>2, <1>5, <1>7
    <3>3. CASE kind = "mem"
      <4>1. Rnds(n)' = Rnds(n) /\ Mems(n)' = Mems(n) + 1 /\ acked'[n] = acked[n]
        BY <3>3, <1>9
      <4>2. Steps(n)' = Steps(n) + 1
        BY <4>1, <1>7 DEF Steps
      <4> QED
        BY <3>3, <4>1, <4>2, <1>5, <1>7
    <3>4. CASE kind = "ACK"
      <4>1. Rnds(n)' = Rnds(n) /\ Mems(n)' = Mems(n) /\ acked'[n] = acked[n] + 1
        BY <3>4, <1>9
      <4>2. Steps(n)' = Steps(n) + 1
        BY <4>1, <1>7 DEF Steps
      <4> QED
        BY <3>4, <4>1, <4>2, <1>5, <1>7
    <3> QED
      BY <3>1, <3>2, <3>3, <3>4
  <2>2. at'[c] = at[c] /\ handler'[c] = handler[c]
    BY <1>2, <1>3, TakenComing
  <2> DEFINE e == <<kind, c, data>>
  <2>3. e \in Events
    BY <1>5 DEF Events, MessageKinds
  <2>4. Coming(c) = <<e>> \o Coming(c)'
    BY <1>5
  <2> HIDE DEF e
  <2> QED
    BY <1>2, <1>5, <2>1, <2>2, <2>3, <2>4, HeadStep
<1>11. \A s \in Present' : InOrder(s, players[s])'
  <2> TAKE s \in Present'
  <2>1. s \in Present /\ players'[s] = players[s] /\ players[s] \in Conns
    BY <1>2, <1>4 DEF Present, TypeOK, EngineTypeOK
  <2>2. CASE s = n
    <3>1. players'[s] = c
      BY <1>1, <2>1, <2>2
    <3> QED
      BY <1>10, <2>2, <3>1 DEF InOrder
  <2>3. CASE s # n
    <3>1. players[s] # c
      BY <1>1, <2>1, <2>3 DEF IInv, SeatInv
    <3>2. acked'[s] = acked[s] /\ sent'[s] = sent[s] /\ handler'[players[s]] = handler[players[s]]
      BY <1>3, <1>8, <2>1, <2>3
    <3> QED
      BY <1>2, <2>1, <3>1, <3>2, OtherSteps
  <2> QED
    BY <2>2, <2>3
<1>12. \A i \in DOMAIN relayed' : relayed'[i][1] = "FRAME" => relayed'[i][2] <= frame'
  BY <1>4 DEF StepInv
<1>13. \A d \in Conns :
                /\ handler'[d] \in {"idle", "joining"} => handler[d] \in {"idle", "joining"}
                /\ handler'[d] = "ended" => d \notin open'
  BY <1>3 DEF StepInv
<1>14. frame' = frame
  BY <1>4
<1> QED
  BY <1>2, <1>11, <1>12, <1>13, <1>14, EventSteps

LEMMA HandleEventSteps ==
    ASSUME IInv, StepInv, TypeOK', HandleEvent
    PROVE  StepInv'
<1> DEFINE kind == Head(events)[1]
           c == Head(events)[2]
           data == Head(events)[3]
<1>1. \/ RefuseJoin(c, data)
      \/ AcceptJoin(c, data)
      \/ \E s \in Present : HandleMessage(s, kind, data)
      \/ IgnoreMessage(kind, c, data)
  BY DEF HandleEvent
<1> HIDE DEF kind, c, data
<1>2. ASSUME NEW s \in Present, HandleMessage(s, kind, data) PROVE StepInv'
  BY <1>2, AsideMessageSteps, PlayerStepSteps
<1> QED
  BY <1>1, <1>2, RefuseJoinSteps, AcceptJoinSteps, IgnoreMessageSteps

LEMMA StutterSteps ==
    ASSUME StepInv, TypeOK, TypeOK', UNCHANGED vars
    PROVE  StepInv'
<1>1. UNCHANGED <<events, up, handler, acked, sent, at, relayed, frame, players, open>>
  BY DEF vars, engineVars, syncVars, sendVars, connVars, clientVars
<1>2. open' \subseteq open /\ \A s \in Present' : s \in Present /\ players'[s] = players[s]
  BY <1>1 DEF Present
<1> QED
  BY <1>1, <1>2, StepAside

LEMMA InitSteps == ASSUME Init PROVE StepInv
<1>1. /\ players = [s \in Slots |-> Nobody] /\ relayed = <<>> /\ frame = 0 /\ events = <<>>
      /\ up = [c \in Conns |-> <<>>] /\ at = [c \in Conns |-> 0]
      /\ handler = [c \in Conns |-> "idle"] /\ open = {}
  BY DEF Init, EngineInit
<1>2. \A c \in Conns : Coming(c) = <<>>
  <2> TAKE c \in Conns
  <2>1. Posted(c, up[c]) = <<>> /\ <<>> \o <<>> = <<>>
    BY <1>1, PostedNone
  <2> QED
    BY <1>1, <2>1, PickedEmpty DEF Coming
<1>3. Present = {}
  BY <1>1, EngineAssumption DEF Present
<1> QED
  BY <1>1, <1>2, <1>3 DEF StepInv

LEMMA NextSteps == ASSUME IInv, StepInv, [Next]_vars PROVE StepInv'
<1>1. TypeOK /\ TypeOK'
  BY NextType DEF IInv
<1>2. ASSUME NEW c \in Conns, Connect(c) \/ ReaderStep(c) \/ WriterStep(c) \/ ClientStep(c)
      PROVE  StepInv'
  BY <1>1, <1>2, ConnectSteps, ReplySteps, ReadWordSteps, ReadFailsSteps, WriterSteps, SendFrameAckSteps,
     SendAsideSteps DEF ReaderStep, ClientStep
<1> QED
  BY <1>1, <1>2, HandleEventSteps, TakeTickSteps, RunStepSteps, StutterSteps DEF Next, Ended

-----------------------------------------------------------------------------
(* HandlerInv is kept. *)

LEMMA RestTicks ==
    ASSUME TypeOK, CheckLast(work), NEW s \in Slots, Serving(s)
    PROVE  /\ CheckLast(Rest(s))
           /\ Rest(s) # <<>> => (Ticks(Rest(s)) <=> Ticks(work))
           /\ Rest(s) = <<>> => ~Ticks(work)
<1> DEFINE r == Rest(s)
<1>1. /\ work \in Seq(Loops) /\ work # <<>> /\ Len(work) \in Nat \ {0} /\ Head(work) = work[1]
      /\ Head(work).how \in {"auto", "flush", "ping", "last"} /\ r \in Seq(Loops)
  BY HeadLoop, RestLoops
<1>2. PICK d \in {0, 1} :
             /\ Len(r) = Len(work) - d
             /\ \A i \in 1..Len(r) : i + d \in 1..Len(work) /\ r[i].how = work[i + d].how
  BY RestAt
<1> HIDE DEF r
<1>3. DOMAIN r = 1..Len(r) /\ DOMAIN work = 1..Len(work) /\ Len(r) \in Nat
  BY <1>1
<1>4. CheckLast(r)
  <2> SUFFICES ASSUME NEW i \in DOMAIN r, r[i].how = "check" PROVE i = Len(r)
    BY DEF CheckLast
  <2> DEFINE j == i + d
  <2>1. j \in DOMAIN work /\ r[i].how = work[j].how /\ i \in Nat
    BY <1>2, <1>3
  <2> HIDE DEF j
  <2>2. j = Len(work)
    BY <2>1 DEF CheckLast
  <2> QED
    BY <1>1, <1>2, <1>3, <2>1, <2>2 DEF j
<1>5. ASSUME r # <<>> PROVE Ticks(r) <=> Ticks(work)
  <2> DEFINE n == Len(r)
             j == n + d
  <2>1. n \in 1..Len(r) /\ j = Len(work)
    <3>1. Len(r) # 0
      BY <1>1, <1>5
    <3> QED
      BY <1>1, <1>2, <1>3, <3>1
  <2>2. r[n].how = work[j].how
    BY <1>2, <2>1
  <2> HIDE DEF j
  <2> QED
    BY <1>1, <1>5, <2>1, <2>2 DEF Ticks
<1>6. ASSUME r = <<>> PROVE ~Ticks(work)
  <2>1. Len(r) = 0
    BY <1>6
  <2>2. Len(work) = 1
    BY <1>1, <1>2, <2>1
  <2> QED
    BY <1>1, <2>2 DEF Ticks
<1> QED
  BY <1>4, <1>5, <1>6 DEF r

LEMMA PushTicks ==
    ASSUME NEW a \in Seq(Loops), NEW b \in Seq(Loops), CheckLast(b), \A l \in Range(a) : l.how # "check"
    PROVE  /\ CheckLast(a \o b)
           /\ b # <<>> => (Ticks(a \o b) <=> Ticks(b))
           /\ b = <<>> => ~Ticks(a \o b)
<1> DEFINE t == a \o b
<1>1. /\ t \in Seq(Loops) /\ Len(a) \in Nat /\ Len(b) \in Nat /\ Len(t) = Len(a) + Len(b)
      /\ (\A i \in 1..Len(a) : t[i] = a[i]) /\ \A i \in 1..Len(b) : t[Len(a) + i] = b[i]
  BY ConcatIs
<1> HIDE DEF t
<1>2. DOMAIN t = 1..Len(t) /\ DOMAIN b = 1..Len(b)
  BY <1>1
<1>3. \A i \in 1..Len(a) : t[i].how # "check"
  BY <1>1, RangeAt
<1>4. CheckLast(t)
  <2> SUFFICES ASSUME NEW i \in DOMAIN t, t[i].how = "check" PROVE i = Len(t)
    BY DEF CheckLast
  <2> DEFINE j == i - Len(a)
  <2>1. i \in Nat /\ i \in 1..Len(t) /\ i \notin 1..Len(a)
    BY <1>1, <1>2, <1>3
  <2>2. j \in 1..Len(b) /\ i = Len(a) + j
    BY <2>1, <1>1
  <2> HIDE DEF j
  <2>3. t[i] = b[j]
    BY <1>1, <2>2
  <2>4. j = Len(b)
    BY <1>2, <2>2, <2>3 DEF CheckLast
  <2> QED
    BY <1>1, <2>2, <2>4
<1>5. ASSUME b # <<>> PROVE Ticks(t) <=> Ticks(b)
  <2> DEFINE n == Len(b)
             j == Len(a) + n
  <2>1. n \in 1..Len(b) /\ j = Len(t)
    <3>1. Len(b) # 0
      BY <1>5
    <3> QED
      BY <1>1, <3>1
  <2>2. t[j] = b[n]
    BY <1>1, <2>1
  <2>3. t # <<>>
    <3>1. Len(t) # 0
      BY <1>1, <2>1
    <3> QED
      BY <3>1
  <2> HIDE DEF j
  <2> QED
    BY <1>5, <2>1, <2>2, <2>3 DEF Ticks
<1>6. ASSUME b = <<>> PROVE ~Ticks(t)
  <2> SUFFICES ASSUME t # <<>> PROVE t[Len(t)].how # "check"
    BY DEF Ticks
  <2>1. Len(b) = 0
    BY <1>6
  <2>2. Len(t) # 0
    BY <1>1
  <2>3. Len(t) \in 1..Len(a)
    BY <1>1, <2>1, <2>2
  <2> QED
    BY <1>3, <2>3
<1> QED
  BY <1>4, <1>5, <1>6 DEF t

LEMMA NoTicks == CheckLast(<<>>) /\ ~Ticks(<<>>)
<1>1. DOMAIN <<>> = {}
  OBVIOUS
<1> QED
  BY <1>1 DEF CheckLast, Ticks

LEMMA QuietTicks ==
    ASSUME NEW a \in Seq(Loops), \A l \in Range(a) : l.how # "check"
    PROVE  CheckLast(a) /\ ~Ticks(a)
<1> DEFINE z == <<>>
<1>1. a \o z = a /\ z \in Seq(Loops)
  BY EmptySeq
<1>2. CheckLast(z)
  BY NoTicks
<1>3. z = <<>>
  OBVIOUS
<1> HIDE DEF z
<1> QED
  BY <1>1, <1>2, <1>3, PushTicks

(* A handler returns, goes on, or begins. *)
LEMMA HandlerDone ==
    ASSUME work' = <<>>, handled' = Now'
    PROVE  HandlerInv'
<1>1. CheckLast(<<>>) /\ ~Ticks(<<>>)
  BY NoTicks
<1>2. CheckLast(work') /\ ~Ticks(work')
  BY <1>1
<1> QED
  BY <1>2 DEF HandlerInv, CheckLast, Ticks

LEMMA HandlerGoesOn ==
    ASSUME HandlerInv, work # <<>>, work' # <<>>, UNCHANGED <<handled, frame, stalled, phase, started, acked>>,
           CheckLast(work'), Ticks(work') <=> Ticks(work),
           Present' \subseteq Present,
           phase # "loop" => stop' = stop,
           phase = "loop" => stop' = IF started /\ Present' # handled.present THEN "stopped" ELSE "none"
    PROVE  HandlerInv'
BY DEF HandlerInv, CheckLast, Ticks

LEMMA HandlerBegins ==
    ASSUME HandlerInv, work = <<>>, work' # <<>>, UNCHANGED <<handled, frame, stalled, started>>,
           CheckLast(work'), ~Ticks(work'), Present' \subseteq Present,
           phase' # "loop" => stop' = stop,
           phase' = "loop" => stop = "none" /\ stop' = IF started /\ Present' # Present THEN "stopped" ELSE "none"
    PROVE  HandlerInv'
BY DEF HandlerInv, CheckLast, Ticks, Now

(* What an iteration of a handler's loop leaves to the rest of it. *)
Onward ==
    /\ work # <<>>
    /\ UNCHANGED <<started, frame, verified, stalled, acked, ring, sent, phase>>
    /\ Present' \subseteq Present
    /\ phase # "loop" => stop' = stop
    /\ phase = "loop" => stop' = IF started /\ Present' # handled.present THEN "stopped" ELSE "none"
    /\ work' = <<>> => ~Ticks(work) /\ handled' = Now'
    /\ work' # <<>> => CheckLast(work') /\ (Ticks(work') <=> Ticks(work)) /\ handled' = handled

LEMMA ServedOnward ==
    ASSUME IInv, HandlerInv, NEW s \in Slots, Skip(s) \/ Queue(s) \/ Flush(s)
    PROVE  Onward
<1>1. TypeOK /\ Serving(s) /\ GoOn(Rest(s)) /\ work # <<>>
  BY DEF Skip, Queue, Flush, Serving, IInv
<1>2. UNCHANGED <<frame, stalled, stop, phase, started, acked, verified, ring, sent>>
  BY DEF Skip, Queue, Flush, syncVars, joinVars
<1>3. CheckLast(work)
  BY DEF HandlerInv
<1>4. /\ CheckLast(Rest(s))
      /\ Rest(s) # <<>> => (Ticks(Rest(s)) <=> Ticks(work))
      /\ Rest(s) = <<>> => ~Ticks(work)
  BY <1>1, <1>3, RestTicks
<1>5. players' = players \/ (players' = Slotless(s) /\ Head(work).how = "last")
  BY DEF Skip, Queue, Flush, sendVars
<1>6. Present' \subseteq Present
  BY <1>1, <1>5, SlotlessIs DEF Present
<1>7. phase = "loop" => Present' = Present
  <2>1. CASE players' = players
    BY <2>1 DEF Present
  <2>2. CASE Head(work).how = "last"
    <3>1. Head(work) \in Range(work)
      BY <1>1, HeadInRange
    <3> QED
      BY <2>2, <3>1 DEF IInv, WorkInv, LoopInv
  <2> QED
    BY <1>5, <2>1, <2>2
<1>8. phase = "loop" => stop' = IF started /\ Present' # handled.present THEN "stopped" ELSE "none"
  BY <1>1, <1>2, <1>7 DEF HandlerInv
<1>9. /\ work' = <<>> => ~Ticks(work) /\ handled' = Now'
      /\ work' # <<>> => CheckLast(work') /\ (Ticks(work') <=> Ticks(work)) /\ handled' = handled
  <2>1. work' = Rest(s) /\ handled' = IF Rest(s) = <<>> THEN Now' ELSE handled
    BY <1>1 DEF GoOn
  <2> QED
    BY <1>4, <2>1
<1> QED
  BY <1>1, <1>2, <1>6, <1>8, <1>9 DEF Onward

LEMMA OverrunOnward ==
    ASSUME IInv, HandlerInv, NEW s \in Slots, Overrun(s)
    PROVE  Onward
<1> DEFINE pre == IF started THEN Loop(<<"TEXT", s>>, "auto", Present \ {s}) ELSE <<>>
           r == Rest(s)
<1>1. /\ TypeOK /\ Serving(s) /\ GoOn(pre \o r) /\ work # <<>> /\ s \in Present
      /\ players' = Slotless(s) /\ stop' = IF started /\ stop = "none" THEN "stopped" ELSE stop
  BY DEF Overrun, OnGone, Unserved, Serving, Present, IInv
<1>2. UNCHANGED <<frame, stalled, phase, started, acked, verified, ring, sent>>
  BY DEF Overrun, OnGone, syncVars, joinVars
<1>3. CheckLast(work)
  BY DEF HandlerInv
<1>4. /\ CheckLast(r) /\ r \in Seq(Loops)
      /\ r # <<>> => (Ticks(r) <=> Ticks(work))
      /\ r = <<>> => ~Ticks(work)
  BY <1>1, <1>3, RestTicks, RestLoops
<1>5. pre \in Seq(Loops) /\ \A l \in Range(pre) : l.how # "check"
  <2> DEFINE live == Present \ {s}
  <2>1. live \in SUBSET Slots
    BY PresentSlots
  <2>2. pre = IF started THEN Loop(<<"TEXT", s>>, "auto", live) ELSE <<>>
    OBVIOUS
  <2> HIDE DEF pre, live
  <2> QED
    BY <2>1, <2>2, Farewell
<1> HIDE DEF pre, r
<1>6. /\ CheckLast(pre \o r)
      /\ r # <<>> => (Ticks(pre \o r) <=> Ticks(r))
      /\ r = <<>> => ~Ticks(pre \o r)
  BY <1>4, <1>5, PushTicks
<1>7. CheckLast(pre \o r) /\ (Ticks(pre \o r) <=> Ticks(work))
  <2>1. CASE r = <<>>
    BY <1>4, <1>6, <2>1
  <2>2. CASE r # <<>>
    BY <1>4, <1>6, <2>2
  <2> QED
    BY <2>1, <2>2
<1>8. Present' = Present \ {s}
  BY <1>1, EngineAssumption DEF Present, Slotless, TypeOK, EngineTypeOK, IInv
<1>9. phase # "loop" => stop' = stop
  BY <1>1 DEF IInv, WorkInv
<1>10. phase = "loop" => stop' = IF started /\ Present' # handled.present THEN "stopped" ELSE "none"
  <2> SUFFICES ASSUME phase = "loop"
               PROVE  stop' = IF started /\ Present' # handled.present THEN "stopped" ELSE "none"
    OBVIOUS
  <2>1. /\ Present \subseteq handled.present
        /\ stop = IF started /\ Present # handled.present THEN "stopped" ELSE "none"
    BY <1>1 DEF HandlerInv
  <2>2. Present' # handled.present
    BY <1>1, <1>8, <2>1
  <2> QED
    BY <1>1, <2>1, <2>2
<1>11. /\ work' = <<>> => ~Ticks(work) /\ handled' = Now'
       /\ work' # <<>> => CheckLast(work') /\ (Ticks(work') <=> Ticks(work)) /\ handled' = handled
  <2>1. work' = pre \o r /\ handled' = IF pre \o r = <<>> THEN Now' ELSE handled
    BY <1>1 DEF GoOn
  <2>2. pre \o r = <<>> => ~Ticks(pre \o r)
    BY DEF Ticks
  <2> QED
    BY <1>7, <2>1, <2>2
<1> QED
  BY <1>1, <1>2, <1>8, <1>9, <1>10, <1>11 DEF Onward

LEMMA OnwardHandler == ASSUME HandlerInv, Onward PROVE HandlerInv'
<1>1. CASE work' = <<>>
  BY <1>1, HandlerDone DEF Onward
<1>2. CASE work' # <<>>
  BY <1>2, HandlerGoesOn DEF Onward
<1> QED
  BY <1>1, <1>2

(* checkGame ends the handler that calls it. *)
LEMMA CheckIsLast ==
    ASSUME IInv, HandlerInv, CheckGame
    PROVE  work' = <<>> /\ handled' = Now' /\ Ticks(work) /\ work # <<>>
<1>1. work # <<>> /\ Head(work).how = "check" /\ GoOn(Tail(work)) /\ work \in Seq(Loops)
  BY DEF CheckGame, IInv, TypeOK, EngineTypeOK
<1>2. Head(work) = work[1] /\ 1 \in DOMAIN work /\ Len(work) \in Nat
  BY <1>1
<1>3. Len(work) = 1
  BY <1>1, <1>2 DEF HandlerInv, CheckLast
<1>4. Tail(work) = <<>>
  <2> DEFINE t == Tail(work)
  <2>1. Len(t) = 0 /\ t \in Seq(Loops)
    BY <1>1, <1>3
  <2> HIDE DEF t
  <2>2. t = <<>>
    BY <2>1
  <2> QED
    BY <2>2 DEF t
<1> QED
  BY <1>1, <1>2, <1>3, <1>4 DEF GoOn, Ticks

LEMMA RunStepHandler ==
    ASSUME IInv, HandlerInv, RunStep
    PROVE  HandlerInv'
<1>1. CASE LaunchTimeout \/ Cancel
  <2>1. work' = <<>> /\ handled' = Now'
    BY <1>1 DEF LaunchTimeout, Cancel, Stop, GoOn
  <2> QED
    BY <2>1, HandlerDone
<1>2. CASE Shutdown
  <2> DEFINE w == <<"ERROR", stop>>
             st == Loop(w, "last", Present)
  <2>1. /\ GoOn(st) /\ phase' = "draining" /\ work = <<>>
        /\ UNCHANGED <<frame, stalled, started, stop, players>>
    BY <1>2 DEF Shutdown, joinVars, sendVars
  <2>2. w \in Words
    BY WordsAre DEF IInv, TypeOK, EngineTypeOK
  <2>5. Present' = Present
    BY <2>1 DEF Present
  <2> HIDE DEF w
  <2>3. st \in Seq(Loops) /\ \A l \in Range(st) : l.how # "check"
    BY <2>2, PresentSlots, LoopRange
  <2> HIDE DEF st
  <2>4. CheckLast(st) /\ ~Ticks(st)
    BY <2>3, QuietTicks
  <2>6. CASE st = <<>>
    <3>1. work' = <<>> /\ handled' = Now'
      BY <2>1, <2>6 DEF GoOn
    <3> QED
      BY <3>1, HandlerDone
  <2>7. CASE st # <<>>
    <3>1. work' = st /\ handled' = handled
      BY <2>1, <2>7 DEF GoOn
    <3>2. CheckLast(work') /\ ~Ticks(work') /\ work' # <<>> /\ Present' \subseteq Present
      BY <2>4, <2>5, <2>7, <3>1
    <3> QED
      BY <2>1, <3>1, <3>2, HandlerBegins
  <2> QED
    BY <2>6, <2>7
<1>3. CASE Return
  <2>1. /\ work = <<>> /\ UNCHANGED <<work, handled, frame, stalled, stop, players>>
    BY <1>3 DEF Return, sendVars
  <2>2. work' = <<>> /\ handled' = Now'
    BY <2>1 DEF HandlerInv, Now, Present
  <2> QED
    BY <2>2, HandlerDone
<1>4. CASE CheckGame
  BY <1>4, CheckIsLast, HandlerDone
<1>5. ASSUME NEW s \in Slots, Skip(s) \/ Queue(s) \/ Flush(s) \/ Overrun(s) PROVE HandlerInv'
  BY <1>5, ServedOnward, OverrunOnward, OnwardHandler
<1> QED
  BY <1>1, <1>2, <1>3, <1>4, <1>5 DEF RunStep, Iterate

LEMMA TakeTickHandler ==
    ASSUME IInv, HandlerInv, TakeTick
    PROVE  HandlerInv' /\ handled' = handled
<1> DEFINE w == <<"FRAME", frame + 1>>
           a == IF frame % StatusEvery = 0 THEN Status ELSE <<>>
           b == Loop(w, "flush", Present)
           p == IF (frame + 1) % PingEvery = 0 THEN Loop(<<"PING", 0>>, "ping", Present) ELSE <<>>
           k == <<CheckEntry>>
<1>1. /\ Looping /\ started /\ (stalled => StallOver) /\ frame' = frame + 1 /\ stalled' = FALSE
      /\ UNCHANGED <<players, acked, stop, phase, started>> /\ GoOn(a \o b \o p \o k)
  BY DEF TakeTick, Tick, syncVars, joinVars, sendVars
<1>2. TypeOK /\ frame \in Nat /\ frame + 1 \in Nat
  <2>1. TypeOK /\ frame \in Nat
    BY DEF IInv, TypeOK, EngineTypeOK
  <2> QED
    BY <2>1
<1>3. a \in Seq(Loops) /\ \A l \in Range(a) : l.how # "check"
  BY <1>2, StatusLoops, StatusQuiet, EmptyStack
<1>4. b \in Seq(Loops) /\ \A l \in Range(b) : l.how # "check"
  <2>1. w \in Words
    BY <1>2, WordsAre
  <2> HIDE DEF w
  <2> QED
    BY <2>1, PresentSlots, LoopRange
<1>5. p \in Seq(Loops) /\ \A l \in Range(p) : l.how # "check"
  <2> DEFINE ping == <<"PING", 0>>
  <2>1. ping \in Words
    BY WordsAre
  <2> HIDE DEF ping
  <2>2. /\ Loop(ping, "ping", Present) \in Seq(Loops)
        /\ \A l \in Range(Loop(ping, "ping", Present)) : l.how = "ping"
    BY <2>1, PresentSlots, LoopRange
  <2> QED
    BY <2>2, EmptyStack DEF ping
<1>6. k \in Seq(Loops) /\ k # <<>> /\ CheckLast(k) /\ Ticks(k)
  <2>1. CheckEntry \in Loops /\ CheckEntry.how = "check"
    BY DEF Loops, CheckEntry
  <2>2. k \in Seq(Loops) /\ Len(k) = 1 /\ DOMAIN k = 1..1 /\ k[1] = CheckEntry
    BY <2>1, OneElement
  <2>3. k # <<>>
    OBVIOUS
  <2> HIDE DEF k
  <2> QED
    BY <2>1, <2>2, <2>3 DEF CheckLast, Ticks
<1> HIDE DEF a, b, p, k
<1> DEFINE ab == a \o b
           abp == ab \o p
<1>7. ab \in Seq(Loops) /\ \A l \in Range(ab) : l.how # "check"
  BY <1>3, <1>4, ConcatRange
<1> HIDE DEF ab
<1>8. abp \in Seq(Loops) /\ \A l \in Range(abp) : l.how # "check"
  BY <1>5, <1>7, ConcatRange
<1> HIDE DEF abp
<1>9. CheckLast(abp \o k) /\ Ticks(abp \o k)
  BY <1>6, <1>8, PushTicks
<1>10. work' = abp \o k /\ work' # <<>> /\ handled' = handled
  <2>1. GoOn(abp \o k)
    BY <1>1 DEF ab, abp
  <2>2. abp \o k # <<>>
    BY <1>9 DEF Ticks
  <2> QED
    BY <2>1, <2>2 DEF GoOn
<1>11. CheckLast(work') /\ Ticks(work')
  BY <1>9, <1>10
<1>12. handled = Now /\ phase = "loop" /\ stop = "none"
  BY <1>1 DEF HandlerInv, Looping
<1>13. handled.present = Present /\ handled.frame = frame /\ handled.stalled = stalled /\ handled.stop = "none"
  BY <1>12 DEF Now
<1>14. Present' = Present
  BY <1>1 DEF Present
<1>15. stalled => \A s \in Present : acked[s] >= frame
  <2> SUFFICES ASSUME stalled, NEW s \in Present PROVE acked[s] >= frame
    OBVIOUS
  <2>1. OldestFrame >= frame
    BY <1>1 DEF StallOver
  <2>2. OldestFrame \in Nat /\ OldestFrame <= acked[s] /\ acked[s] \in Nat
    BY <1>2, OldestFrameIs DEF Present, TypeOK, EngineTypeOK
  <2> QED
    BY <1>2, <2>1, <2>2
<1>16. /\ handled'.stalled => \A s \in handled'.present : acked'[s] >= handled'.frame
       /\ frame' = handled'.frame + 1 /\ ~stalled'
  BY <1>1, <1>10, <1>13, <1>15
<1>17. /\ Present' \subseteq handled'.present /\ handled'.stop = "none"
       /\ stop' = IF started' /\ Present' # handled'.present THEN "stopped" ELSE "none"
  BY <1>1, <1>10, <1>12, <1>13, <1>14
<1> QED
  BY <1>1, <1>10, <1>11, <1>12, <1>16, <1>17 DEF HandlerInv, CheckLast, Ticks

(* A broadcast begun by an event *)
LEMMA BroadcastHandler ==
    ASSUME IInv, HandlerInv, Looping, NEW st \in Seq(Loops), GoOn(st), \A l \in Range(st) : l.how # "check",
           UNCHANGED <<frame, stalled, started, phase>>, Present' \subseteq Present,
           stop' = IF started /\ Present' # Present THEN "stopped" ELSE "none"
    PROVE  HandlerInv'
<1>1. phase = "loop" /\ stop = "none" /\ work = <<>>
  BY DEF Looping
<1>2. CheckLast(st) /\ ~Ticks(st)
  BY QuietTicks
<1>3. CASE st = <<>>
  <2>1. work' = <<>> /\ handled' = Now'
    BY <1>3 DEF GoOn
  <2> QED
    BY <2>1, HandlerDone
<1>4. CASE st # <<>>
  <2>1. work' = st /\ handled' = handled
    BY <1>4 DEF GoOn
  <2>2. CheckLast(work') /\ ~Ticks(work') /\ work' # <<>>
    BY <1>2, <1>4, <2>1
  <2> QED
    BY <1>1, <2>1, <2>2, HandlerBegins
<1> QED
  BY <1>3, <1>4

(* Nothing the invariant speaks of changes. *)
LEMMA HandlerSame ==
    ASSUME HandlerInv, UNCHANGED <<work, handled, players, frame, stalled, stop, phase, started>>,
           UNCHANGED acked \/ work = <<>>
    PROVE  HandlerInv'
<1>1. Present' = Present /\ Now' = Now
  BY DEF Present, Now
<1>2. CASE UNCHANGED acked
  BY <1>1, <1>2 DEF HandlerInv, CheckLast, Ticks
<1>3. CASE work = <<>>
  BY <1>1, <1>3, HandlerDone DEF HandlerInv
<1> QED
  BY <1>2, <1>3

LEMMA MessageHandler ==
    ASSUME IInv, HandlerInv, NEW s \in Present, NEW kind, NEW data, HandleMessage(s, kind, data)
    PROVE  HandlerInv'
<1>1. Looping /\ work = <<>> /\ TypeOK /\ data \in Nat /\ s \in Slots
  BY TakeType DEF HandleMessage, Take, Looping, Present, IInv
<1>2. CASE OnAck(s, data) \/ OnCheck(s, kind, data) \/ OnPong(s)
  <2>1. UNCHANGED <<work, handled, players, frame, stalled, stop, phase, started>>
    BY <1>2 DEF OnAck, OnCheck, OnPong, joinVars, sendVars
  <2> QED
    BY <1>1, <2>1, HandlerSame
<1>3. CASE OnInput(data)
  <2> DEFINE w == <<"INPUT", data>>
             st == IF started THEN Loop(w, "auto", Present) ELSE <<>>
  <2>1. GoOn(st) /\ UNCHANGED <<frame, stalled, started, phase, stop, players>>
    BY <1>3 DEF OnInput, joinVars, sendVars
  <2>2. w \in Words
    BY <1>1, WordsAre
  <2> HIDE DEF w
  <2>3. st \in Seq(Loops) /\ \A l \in Range(st) : l.how # "check"
    <3>1. Loop(w, "auto", Present) \in Seq(Loops) /\ \A l \in Range(Loop(w, "auto", Present)) : l.how = "auto"
      BY <2>2, PresentSlots, LoopRange
    <3> QED
      BY <3>1, EmptyStack
  <2> HIDE DEF st
  <2>4. Present' = Present /\ stop' = "none"
    BY <1>1, <2>1 DEF Present, Looping
  <2> QED
    BY <1>1, <2>1, <2>3, <2>4, BroadcastHandler
<1>4. CASE OnText(s)
  <2> DEFINE w == <<"TEXT", s>>
             st == Loop(w, "auto", Present)
  <2>1. GoOn(st) /\ UNCHANGED <<frame, stalled, started, phase, stop, players>>
    BY <1>4 DEF OnText, joinVars, sendVars
  <2>2. w \in Words
    BY <1>1, SlotsAreNat, WordsAre
  <2> HIDE DEF w
  <2>3. st \in Seq(Loops) /\ \A l \in Range(st) : l.how # "check"
    BY <2>2, PresentSlots, LoopRange
  <2> HIDE DEF st
  <2>4. Present' = Present /\ stop' = "none"
    BY <1>1, <2>1 DEF Present, Looping
  <2> QED
    BY <1>1, <2>1, <2>3, <2>4, BroadcastHandler
<1>5. CASE Gone(s)
  <2> DEFINE live == Present \ {s}
             pre == IF started THEN Loop(<<"TEXT", s>>, "auto", live) ELSE <<>>
             z == <<>>
  <2>1. /\ GoOn(pre \o z) /\ players' = Slotless(s) /\ UNCHANGED <<frame, stalled, started, phase>>
        /\ stop' = IF started /\ stop = "none" THEN "stopped" ELSE stop
    BY <1>5 DEF Gone, OnGone, joinVars
  <2>2. live \in SUBSET Slots
    BY PresentSlots
  <2>3. pre = IF started THEN Loop(<<"TEXT", s>>, "auto", live) ELSE <<>>
    OBVIOUS
  <2> HIDE DEF pre
  <2>4. pre \in Seq(Loops) /\ \A l \in Range(pre) : l.how # "check"
    BY <1>1, <2>2, <2>3, Farewell
  <2>5. pre \o z = pre
    BY <2>4
  <2>6. Present' = Present \ {s}
    BY <1>1, <2>1, EngineAssumption DEF Present, Slotless, TypeOK, EngineTypeOK
  <2>7. stop' = IF started /\ Present' # Present THEN "stopped" ELSE "none"
    BY <1>1, <2>1, <2>6 DEF Looping
  <2> HIDE DEF live, z
  <2>8. GoOn(pre)
    BY <2>1, <2>5
  <2> QED
    BY <1>1, <2>1, <2>4, <2>6, <2>7, <2>8, BroadcastHandler
<1> QED
  BY <1>2, <1>3, <1>4, <1>5 DEF HandleMessage

LEMMA HandleEventHandler ==
    ASSUME IInv, HandlerInv, HandleEvent
    PROVE  HandlerInv'
<1> DEFINE kind == Head(events)[1]
           c == Head(events)[2]
           data == Head(events)[3]
<1>1. \/ RefuseJoin(c, data)
      \/ AcceptJoin(c, data)
      \/ \E s \in Present : HandleMessage(s, kind, data)
      \/ IgnoreMessage(kind, c, data)
  BY DEF HandleEvent
<1> HIDE DEF kind, c, data
<1>2. CASE RefuseJoin(c, data) \/ IgnoreMessage(kind, c, data)
  <2>1. UNCHANGED <<work, handled, players, frame, stalled, stop, phase, started, acked>>
    BY <1>2 DEF RefuseJoin, IgnoreMessage, engineVars, syncVars, joinVars, sendVars
  <2> QED
    BY <2>1, HandlerSame
<1>3. CASE AcceptJoin(c, data)
  <2>1. work' = <<>> /\ handled' = Now'
    BY <1>3 DEF AcceptJoin, Join, JoinAt, GoOn
  <2> QED
    BY <2>1, HandlerDone
<1> QED
  BY <1>1, <1>2, <1>3, MessageHandler

(* Connections leave the game goroutine alone. *)
LEMMA OutsideSame ==
    ASSUME NEW c \in Conns, Connect(c) \/ ReaderStep(c) \/ WriterStep(c) \/ ClientStep(c)
    PROVE  UNCHANGED <<players, started, frame, verified, stalled, stop, acked, ring, phase, work, sent, handled>>
BY DEF Connect, ReaderStep, JoinAbandoned, JoinReplied, ReadWord, ReadFails, WriterStep, WriteBuffer, WriterEnds,
   ClientStep, SendFrameAck, SendInput, SendText, SendPong, Quit, serverVars, engineVars, syncVars, joinVars, sendVars

LEMMA InitHandler == ASSUME Init PROVE HandlerInv
BY NoTicks DEF Init, EngineInit, HandlerInv

LEMMA NextHandler == ASSUME IInv, HandlerInv, [Next]_vars PROVE HandlerInv'
<1>1. ASSUME NEW c \in Conns, Connect(c) \/ ReaderStep(c) \/ WriterStep(c) \/ ClientStep(c)
      PROVE  HandlerInv'
  BY <1>1, OutsideSame, HandlerSame
<1>2. CASE UNCHANGED vars
  BY <1>2, HandlerSame DEF vars, engineVars, syncVars, joinVars, sendVars
<1> QED
  BY <1>1, <1>2, HandleEventHandler, TakeTickHandler, RunStepHandler DEF Next, Ended

-----------------------------------------------------------------------------
(* Steps of GameRelay are steps of GameSync. *)

LEMMA InitSync == ASSUME Init PROVE Sync!Init
<1>1. /\ players = [s \in Slots |-> Nobody] /\ started = FALSE /\ frame = 0 /\ verified = -1 /\ stalled = FALSE
      /\ stop = "none" /\ acked = [s \in Slots |-> 0] /\ ring = [s \in Slots |-> NewRings]
      /\ phase = "loop" /\ sent = [s \in Slots |-> NothingSent] /\ handled = Now
  BY DEF Init, EngineInit
<1>2. Present = {}
  BY <1>1, EngineAssumption DEF Present
<1>3. handled.present = {} /\ handled.frame = 0 /\ handled.stalled = FALSE /\ handled.stop = "none"
  BY <1>1, <1>2 DEF Now
<1>4. (phase # "loop" /\ work = <<>>) = FALSE
  BY <1>1
<1> QED
  BY <1>1, <1>3, <1>4 DEF Sync!Init, Sync!Slots, Slots, Sync!EmptyRings, NewRings, Sync!NothingSent, NothingSent,
     Sync!Kinds, Kinds

LEMMA SyncStutter ==
    ASSUME UNCHANGED <<handled, started, verified, acked, ring, sent>>,
           (phase' # "loop" /\ work' = <<>>) <=> (phase # "loop" /\ work = <<>>)
    PROVE  [Sync!Next]_Sync!vars
<1>1. (phase' # "loop" /\ work' = <<>>) = (phase # "loop" /\ work = <<>>)
  OBVIOUS
<1>2. UNCHANGED Sync!vars
  BY <1>1 DEF Sync!vars
<1> QED
  BY <1>2

LEMMA SyncDrop ==
    ASSUME phase = "loop", phase' = "loop", handled.stop = "none", handled' = Now',
           frame' = handled.frame, stalled' = handled.stalled, Present' \subseteq handled.present,
           stop' = IF started /\ Present' # handled.present THEN "stopped" ELSE "none",
           UNCHANGED <<started, verified, acked, ring, sent>>
    PROVE  [Sync!Next]_Sync!vars
<1> DEFINE gone == handled.present \ Present'
<1>1. handled'.present = Present' /\ handled'.frame = frame' /\ handled'.stalled = stalled' /\ handled'.stop = stop'
  BY DEF Now
<1>2. (phase' # "loop" /\ work' = <<>>) = (phase # "loop" /\ work = <<>>)
  OBVIOUS
<1>3. Present' = handled.present \ gone /\ (gone = {} <=> Present' = handled.present)
  OBVIOUS
<1> HIDE DEF gone
<1>4. CASE gone = {}
  <2>1. UNCHANGED Sync!vars
    BY <1>1, <1>2, <1>3, <1>4 DEF Sync!vars
  <2> QED
    BY <2>1
<1>5. CASE gone # {}
  <2>1. gone \in SUBSET handled.present
    BY DEF gone
  <2>2. Sync!Drop(gone)
    BY <1>1, <1>2, <1>3, <1>5 DEF Sync!Drop, Sync!Running
  <2> QED
    BY <2>1, <2>2 DEF Sync!Next
<1> QED
  BY <1>4, <1>5

LEMMA SyncShutdown ==
    ASSUME phase = "loop" \/ work # <<>>, phase' # "loop", work' = <<>>, handled.stop # "none", handled' = Now',
           frame' = handled.frame, stalled' = handled.stalled, stop' = handled.stop, Present' = {},
           UNCHANGED <<started, verified, acked, ring, sent>>
    PROVE  [Sync!Next]_Sync!vars
<1>1. handled'.present = Present' /\ handled'.frame = frame' /\ handled'.stalled = stalled' /\ handled'.stop = stop'
  BY DEF Now
<1>2. (phase' # "loop" /\ work' = <<>>) = TRUE /\ (phase # "loop" /\ work = <<>>) = FALSE
  OBVIOUS
<1>3. Sync!Shutdown
  BY <1>1, <1>2 DEF Sync!Shutdown, Sync!Running
<1> QED
  BY <1>3 DEF Sync!Next

LEMMA SyncStop ==
    ASSUME HandlerInv, LaunchTimeout \/ Cancel
    PROVE  [Sync!Next]_Sync!vars
<1>1. /\ Looping /\ UNCHANGED <<players, started, verified, acked, ring, sent, frame, stalled, phase>>
      /\ work' = <<>> /\ handled' = Now' /\ handled = Now
      /\ (~started /\ stop' = "timeout") \/ stop' = "stopped"
  BY DEF LaunchTimeout, Cancel, Stop, GoOn, Looping, HandlerInv, syncVars, joinVars, sendVars
<1>2. Present' = Present /\ phase = "loop" /\ stop = "none"
  BY <1>1 DEF Present, Looping
<1>3. /\ handled'.present = handled.present /\ handled'.frame = handled.frame /\ handled'.stalled = handled.stalled
      /\ handled.stop = "none" /\ handled'.stop = stop'
  BY <1>1, <1>2 DEF Now
<1>4. (phase' # "loop" /\ work' = <<>>) = (phase # "loop" /\ work = <<>>)
  BY <1>1, <1>2
<1>5. Sync!LaunchTimeout \/ Sync!Cancel
  BY <1>1, <1>3, <1>4 DEF Sync!LaunchTimeout, Sync!Cancel, Sync!Running
<1> QED
  BY <1>5 DEF Sync!Next

LEMMA OnwardSync ==
    ASSUME IInv, IInv', HandlerInv, Onward
    PROVE  [Sync!Next]_Sync!vars
<1>1. /\ work # <<>> /\ Present' \subseteq Present /\ Present \subseteq handled.present
      /\ UNCHANGED <<started, frame, verified, stalled, acked, ring, sent, phase>>
  BY DEF Onward, HandlerInv
<1>2. CASE work' # <<>>
  <2>1. handled' = handled
    BY <1>2 DEF Onward
  <2> QED
    BY <1>1, <1>2, <2>1, SyncStutter
<1>3. CASE work' = <<>>
  <2>1. handled' = Now' /\ handled.frame = frame /\ handled.stalled = stalled
    BY <1>1, <1>3 DEF Onward, HandlerInv
  <2>2. CASE phase = "loop"
    <3>1. /\ handled.stop = "none" /\ phase' = "loop"
          /\ stop' = IF started /\ Present' # handled.present THEN "stopped" ELSE "none"
      BY <1>1, <2>2 DEF Onward, HandlerInv
    <3>2. Present' \subseteq handled.present /\ frame' = handled.frame /\ stalled' = handled.stalled
      BY <1>1, <2>1
    <3> QED
      BY <1>1, <2>1, <2>2, <3>1, <3>2, SyncDrop
  <2>3. CASE phase # "loop"
    <3>1. handled.stop = stop /\ stop # "none" /\ stop' = stop
      BY <1>1, <2>3 DEF Onward, HandlerInv, IInv, WorkInv
    <3>2. Present' = {}
      <4>1. \A s \in Present' : \E l \in Range(work') : l.how = "last" /\ s \in l.todo
        BY <1>1, <2>3 DEF IInv, WorkInv
      <4>2. Range(work') = {}
        BY <1>3, EmptyStack
      <4> QED
        BY <4>1, <4>2
    <3> QED
      BY <1>1, <1>3, <2>1, <2>3, <3>1, <3>2, SyncShutdown
  <2> QED
    BY <2>2, <2>3
<1> QED
  BY <1>2, <1>3

LEMMA ShutdownSync ==
    ASSUME IInv, HandlerInv, Shutdown
    PROVE  [Sync!Next]_Sync!vars
<1> DEFINE w == <<"ERROR", stop>>
           st == Loop(w, "last", Present)
<1>1. /\ phase = "loop" /\ stop # "none" /\ work = <<>> /\ phase' = "draining" /\ GoOn(st) /\ handled = Now
      /\ UNCHANGED <<players, started, frame, verified, stalled, acked, ring, sent, stop>>
  BY DEF Shutdown, HandlerInv, syncVars, joinVars, sendVars
<1>2. Present' = Present /\ handled.frame = frame /\ handled.stalled = stalled /\ handled.stop = stop
  BY <1>1 DEF Present, Now
<1>3. CASE Present = {}
  <2>1. work' = <<>> /\ handled' = Now'
    BY <1>1, <1>3 DEF GoOn, Loop
  <2> QED
    BY <1>1, <1>2, <1>3, <2>1, SyncShutdown
<1>4. CASE Present # {}
  <2>1. st # <<>>
    BY <1>4 DEF Loop
  <2> HIDE DEF st
  <2>2. work' # <<>> /\ handled' = handled
    BY <1>1, <2>1 DEF GoOn
  <2> QED
    BY <1>1, <2>2, SyncStutter
<1> QED
  BY <1>3, <1>4

LEMMA ReturnSync ==
    ASSUME Return
    PROVE  [Sync!Next]_Sync!vars
<1>1. /\ phase = "draining" /\ work = <<>> /\ phase' = "done" /\ work' = <<>>
      /\ UNCHANGED <<handled, started, verified, acked, ring, sent>>
  BY DEF Return, syncVars, joinVars
<1> QED
  BY <1>1, SyncStutter

LEMMA TakeTickSync ==
    ASSUME IInv, HandlerInv, TakeTick
    PROVE  [Sync!Next]_Sync!vars
<1>1. phase = "loop" /\ phase' = "loop" /\ UNCHANGED <<started, verified, acked, ring, sent>>
  BY DEF TakeTick, Tick, Looping, syncVars, joinVars
<1>2. handled' = handled
  BY TakeTickHandler
<1> QED
  BY <1>1, <1>2, SyncStutter

(* What a message makes the game send takes the rest of its handler. *)
LEMMA BroadcastSync ==
    ASSUME HandlerInv, Looping, NEW st, GoOn(st), Present' \subseteq Present,
           UNCHANGED <<started, frame, verified, stalled, acked, ring, sent, phase>>,
           stop' = IF started /\ Present' # Present THEN "stopped" ELSE "none"
    PROVE  [Sync!Next]_Sync!vars
<1>1. phase = "loop" /\ stop = "none" /\ work = <<>> /\ handled = Now
  BY DEF Looping, HandlerInv
<1>2. handled.present = Present /\ handled.frame = frame /\ handled.stalled = stalled /\ handled.stop = "none"
  BY <1>1 DEF Now
<1>3. CASE st = <<>>
  <2>1. handled' = Now'
    BY <1>3 DEF GoOn
  <2> QED
    BY <1>1, <1>2, <2>1, SyncDrop
<1>4. CASE st # <<>>
  <2>1. handled' = handled
    BY <1>4 DEF GoOn
  <2> QED
    BY <1>1, <2>1, SyncStutter
<1> QED
  BY <1>3, <1>4

LEMMA AckSync ==
    ASSUME IInv, IInv', StepInv, HandlerInv, NEW s \in Present, NEW data,
           HandleMessage(s, "ACK", data), OnAck(s, data)
    PROVE  Sync!Ack(s)
<1>1. PICK c : c = players[s]
  OBVIOUS
<1>2. /\ Take("ACK", c, data) /\ handled = Now /\ stop = "none"
      /\ acked' = [acked EXCEPT ![s] = data]
      /\ UNCHANGED <<started, verified, ring, sent, phase, work, handled>>
  BY <1>1 DEF HandleMessage, Take, Looping, HandlerInv, OnAck, joinVars
<1>3. c \in Conns /\ acked[s] \in Nat
  BY <1>1 DEF Present, IInv, TypeOK, EngineTypeOK
<1>4. Rnds(s) = acked[s] + 1 /\ Mems(s) = acked[s] + 1 /\ data = acked[s] + 1
  BY <1>1, <1>2, <1>3, TakenStep DEF IInv
<1>5. \A k \in Sync!Kinds : ~Sync!Owes(s, k)
  <2>1. Len(sent[s]["rnd"]) # acked[s] /\ Len(sent[s]["mem"]) # acked[s]
    BY <1>3, <1>4 DEF Rnds, Mems
  <2> QED
    BY <2>1 DEF Sync!Kinds, Sync!Owes
<1>6. s \in handled.present /\ handled.stop = "none"
  BY <1>2 DEF Now
<1>7. acked' = [acked EXCEPT ![s] = @ + 1]
  BY <1>2, <1>4
<1> QED
  BY <1>2, <1>5, <1>6, <1>7 DEF Sync!Ack, Sync!Running

LEMMA CheckSync ==
    ASSUME IInv, IInv', StepInv, HandlerInv, NEW s \in Present, NEW kind \in Kinds, NEW data,
           HandleMessage(s, kind, data), OnCheck(s, kind, data)
    PROVE  Sync!FileCheck(s, kind, data) /\ data \in {0, 1}
<1>1. PICK c : c = players[s]
  OBVIOUS
<1>2. /\ Take(kind, c, data) /\ handled = Now /\ stop = "none"
      /\ ring' = [ring EXCEPT ![s][kind][acked[s] % RingSize] = [data |-> data, frame |-> acked[s]]]
      /\ sent' = [sent EXCEPT ![s][kind] = Append(@, data)]
      /\ UNCHANGED <<started, verified, acked, phase, work, handled>>
  BY <1>1 DEF HandleMessage, Take, Looping, HandlerInv, OnCheck, joinVars
<1>3. c \in Conns /\ acked[s] \in Nat
  BY <1>1 DEF Present, IInv, TypeOK, EngineTypeOK
<1>4. /\ acked[s] < frame
      /\ kind = "rnd" => Rnds(s) = acked[s] /\ Mems(s) = acked[s] /\ data \in {0, 1}
      /\ kind = "mem" => Rnds(s) = acked[s] + 1 /\ Mems(s) = acked[s] /\ data \in {0, 1}
  BY <1>1, <1>2, <1>3, TakenStep DEF IInv
<1>5. data \in {0, 1} /\ Sync!Owes(s, kind) /\ (kind = "mem" => ~Sync!Owes(s, "rnd"))
  <2>1. CASE kind = "rnd"
    BY <1>4, <2>1 DEF Rnds, Sync!Owes
  <2>2. CASE kind = "mem"
    <3>1. Len(sent[s]["rnd"]) # acked[s] /\ Len(sent[s]["mem"]) = acked[s]
      BY <1>3, <1>4, <2>2 DEF Rnds, Mems
    <3> QED
      BY <1>4, <2>2, <3>1 DEF Sync!Owes
  <2> QED
    BY <2>1, <2>2 DEF Kinds
<1>6. s \in handled.present /\ handled.stop = "none" /\ handled.frame = frame
  BY <1>2 DEF Now
<1> QED
  BY <1>2, <1>4, <1>5, <1>6 DEF Sync!FileCheck, Sync!Running

LEMMA MessageSync ==
    ASSUME IInv, IInv', StepInv, HandlerInv, NEW s \in Present, NEW kind, NEW data, HandleMessage(s, kind, data)
    PROVE  [Sync!Next]_Sync!vars
<1>1. Looping /\ s \in Sync!Slots /\ s \in Slots
  BY DEF HandleMessage, Take, Present, Slots, Sync!Slots
<1>2. CASE kind = "ACK" /\ OnAck(s, data)
  <2>1. Sync!Ack(s)
    BY <1>2, AckSync
  <2> QED
    BY <1>1, <2>1 DEF Sync!Next, Sync!PlayerStep
<1>3. CASE kind \in Kinds /\ OnCheck(s, kind, data)
  <2>1. Sync!FileCheck(s, kind, data) /\ data \in {0, 1} /\ kind \in Sync!Kinds
    BY <1>3, CheckSync DEF Kinds, Sync!Kinds
  <2> QED
    BY <1>1, <2>1 DEF Sync!Next, Sync!PlayerStep
<1>4. CASE OnPong(s)
  <2>1. UNCHANGED <<handled, started, verified, acked, ring, sent, phase, work>>
    BY <1>4 DEF OnPong, syncVars, joinVars
  <2> QED
    BY <2>1, SyncStutter
<1>5. CASE OnInput(data) \/ OnText(s)
  <2>1. PICK st : GoOn(st)
    BY <1>5 DEF OnInput, OnText
  <2>2. UNCHANGED <<players, started, frame, verified, stalled, acked, ring, sent, phase, stop>>
    BY <1>5 DEF OnInput, OnText, syncVars, joinVars, sendVars
  <2>3. Present' = Present /\ stop' = "none"
    BY <1>1, <2>2 DEF Present, Looping
  <2> QED
    BY <1>1, <2>1, <2>2, <2>3, BroadcastSync
<1>6. CASE Gone(s)
  <2>1. PICK st : GoOn(st)
    BY <1>6 DEF Gone, OnGone
  <2>2. /\ UNCHANGED <<started, frame, verified, stalled, acked, ring, sent, phase>> /\ players' = Slotless(s)
        /\ stop' = IF started /\ stop = "none" THEN "stopped" ELSE stop
    BY <1>6 DEF Gone, OnGone, syncVars, joinVars
  <2>3. Present' = Present \ {s}
    BY <1>1, <2>2, EngineAssumption DEF Present, Slotless, TypeOK, EngineTypeOK, IInv
  <2>4. Present' \subseteq Present /\ stop' = IF started /\ Present' # Present THEN "stopped" ELSE "none"
    BY <1>1, <2>2, <2>3 DEF Looping
  <2> QED
    BY <1>1, <2>1, <2>2, <2>4, BroadcastSync
<1> QED
  BY <1>2, <1>3, <1>4, <1>5, <1>6 DEF HandleMessage

LEMMA JoinSync ==
    ASSUME IInv, HandlerInv, NEW c, NEW v, AcceptJoin(c, v)
    PROVE  [Sync!Next]_Sync!vars
<1>1. PICK s \in Slots \ Present : (\A t \in Slots \ Present : s <= t) /\ JoinAt(s, c, v)
  BY DEF AcceptJoin, Join
<1>2. /\ ~started /\ phase = "loop" /\ stop = "none" /\ work = <<>> /\ handled = Now
      /\ players' = [players EXCEPT ![s] = c]
      /\ acked' = [acked EXCEPT ![s] = 0]
      /\ ring' = [ring EXCEPT ![s] = NewRings]
      /\ sent' = [sent EXCEPT ![s] = NothingSent]
      /\ started' = (Slots = Present \cup {s})
      /\ UNCHANGED <<frame, verified, stalled, stop, phase>>
      /\ work' = <<>> /\ handled' = Now'
  BY <1>1 DEF AcceptJoin, Take, JoinRefused, Looping, HandlerInv, JoinAt, GoOn
<1>3. c \in Conns /\ players \in [Slots -> Conns \cup {Nobody}]
  BY TakeType DEF AcceptJoin, IInv, TypeOK, EngineTypeOK
<1>4. Present' = Present \cup {s}
  BY <1>1, <1>2, <1>3, EngineAssumption DEF Present
<1>5. /\ handled.present = Present /\ handled.frame = frame /\ handled.stalled = stalled /\ handled.stop = stop
      /\ handled'.present = Present' /\ handled'.frame = frame' /\ handled'.stalled = stalled' /\ handled'.stop = stop'
  BY <1>2 DEF Now
<1>6. (phase' # "loop" /\ work' = <<>>) = (phase # "loop" /\ work = <<>>)
  BY <1>2
<1>7. Sync!Slots = Slots /\ Sync!EmptyRings = NewRings /\ Sync!NothingSent = NothingSent
  BY DEF Sync!Slots, Slots, Sync!EmptyRings, NewRings, Sync!NothingSent, NothingSent, Sync!Kinds, Kinds
<1>8. started' = (handled'.present = Sync!Slots)
  BY <1>2, <1>4, <1>5, <1>7
<1>9. Sync!Join(s)
  BY <1>1, <1>2, <1>4, <1>5, <1>6, <1>7, <1>8 DEF Sync!Join, Sync!Running
<1> QED
  BY <1>1, <1>7, <1>9 DEF Sync!Next

LEMMA HandleEventSync ==
    ASSUME IInv, IInv', StepInv, HandlerInv, HandleEvent
    PROVE  [Sync!Next]_Sync!vars
<1> DEFINE kind == Head(events)[1]
           c == Head(events)[2]
           data == Head(events)[3]
<1>1. \/ RefuseJoin(c, data)
      \/ AcceptJoin(c, data)
      \/ \E s \in Present : HandleMessage(s, kind, data)
      \/ IgnoreMessage(kind, c, data)
  BY DEF HandleEvent
<1> HIDE DEF kind, c, data
<1>2. CASE RefuseJoin(c, data) \/ IgnoreMessage(kind, c, data)
  <2>1. UNCHANGED <<handled, started, verified, acked, ring, sent, phase, work>>
    BY <1>2 DEF RefuseJoin, IgnoreMessage, engineVars, syncVars, joinVars
  <2> QED
    BY <2>1, SyncStutter
<1> QED
  BY <1>1, <1>2, JoinSync, MessageSync

(* A tick is a step of GameSync when its check of the game, which is the   *)
(* end of it, is made: gone are the players its broadcasts dropped.        *)
LEMMA SyncAgree ==
    /\ \A k, tag : Sync!Agree(Present, k, tag) <=> Agree(k, tag)
    /\ \A tag : Sync!InSync(Present, tag) <=> \A k \in Kinds : Agree(k, tag)
BY DEF Sync!Agree, Agree, Sync!InSync, Sync!Kinds, Kinds

LEMMA CheckPassesSync ==
    ASSUME IInv, HandlerInv, CheckGame, Bad(Passed) = {}, handled'.stalled = stalled', handled'.stop = stop',
           Ticks(work), NEW other, stop = other
    PROVE  Sync!CheckPasses(Present, frame, OldestFrame, other)
<1>1. TypeOK /\ ~stalled
  BY DEF IInv, HandlerInv
<1>2. OldestFrame \in Nat /\ verified \in Int /\ frame \in Nat
  BY <1>1, OldestFrameIs DEF TypeOK, EngineTypeOK
<1>3. verified' = Max({verified, OldestFrame - 1}) /\ stalled' = (stalled \/ frame - OldestFrame > MaxDrift) /\ stop' = stop
  BY DEF CheckGame
<1>4. verified' = IF verified < OldestFrame - 1 THEN OldestFrame - 1 ELSE verified
  <2>1. OldestFrame - 1 \in Int
    BY <1>2
  <2> QED
    BY <1>2, <1>3, <2>1, MaxOfTwo
<1>5. handled'.stalled = (frame - OldestFrame > MaxDrift) /\ handled'.stop = other
  BY <1>1, <1>3
<1>6. \A tag \in Sync!Passed(OldestFrame) : Sync!InSync(Present, tag)
  <2>1. Sync!Passed(OldestFrame) = Passed
    BY DEF Sync!Passed, Passed
  <2>2. \A tag \in Passed : \A k \in Kinds : Agree(k, tag)
    BY DEF Bad
  <2> QED
    BY <2>1, <2>2, SyncAgree
<1> QED
  BY <1>4, <1>5, <1>6 DEF Sync!CheckPasses

LEMMA CheckFailsSync ==
    ASSUME IInv, HandlerInv, CheckGame, Bad(Passed) # {}, handled'.stalled = stalled', handled'.stop = stop',
           Ticks(work)
    PROVE  Sync!CheckFails(Present, OldestFrame)
<1> DEFINE tag == Min(Bad(Passed))
<1>1. TypeOK /\ ~stalled
  BY DEF IInv, HandlerInv
<1>2. /\ verified' = tag - 1 /\ stop' = IF Agree("mem", tag) THEN "rnd" ELSE "mem"
      /\ stalled' = stalled
  BY DEF CheckGame
<1>3. tag \in Nat /\ tag \in Bad(Passed) /\ \A t \in Bad(Passed) : tag <= t
  BY <1>1, BadIs
<1>4. OldestFrame \in Nat /\ verified \in Int
  BY <1>1, OldestFrameIs DEF TypeOK, EngineTypeOK
<1> HIDE DEF tag
<1>5. tag \in Sync!Passed(OldestFrame) /\ ~Sync!InSync(Present, tag)
  BY <1>3, SyncAgree DEF Bad, Passed, Sync!Passed
<1>6. ASSUME NEW t \in (verified + 1)..(tag - 1) PROVE Sync!InSync(Present, t)
  <2>1. t \in Passed
    BY <1>3, <1>4 DEF Bad, Passed
  <2>2. t \notin Bad(Passed)
    BY <1>3, <1>4
  <2> QED
    BY <2>1, <2>2, SyncAgree DEF Bad
<1>7. handled'.stop = IF Sync!Agree(Present, "mem", tag) THEN "rnd" ELSE "mem"
  BY <1>2, SyncAgree
<1>8. handled'.stalled = FALSE
  BY <1>1, <1>2 DEF TypeOK, EngineTypeOK
<1> QED
  BY <1>2, <1>5, <1>6, <1>7, <1>8 DEF Sync!CheckFails

LEMMA CheckGameSync ==
    ASSUME IInv, HandlerInv, CheckGame
    PROVE  [Sync!Next]_Sync!vars
<1> DEFINE gone == handled.present \ Present
<1>1. work' = <<>> /\ handled' = Now' /\ Ticks(work) /\ work # <<>>
  BY CheckIsLast
<1>2. /\ UNCHANGED <<acked, ring, sent, started, players, frame, phase>>
  BY DEF CheckGame, joinVars, sendVars
<1>3. /\ started /\ phase = "loop" /\ frame = handled.frame + 1 /\ handled.stop = "none"
      /\ handled.stalled => \A s \in handled.present : acked[s] >= handled.frame
      /\ Present \subseteq handled.present
      /\ stop = IF Present # handled.present THEN "stopped" ELSE "none"
  BY <1>1 DEF HandlerInv
<1>4. /\ handled'.present = Present /\ handled'.frame = frame /\ handled'.stalled = stalled' /\ handled'.stop = stop'
  BY <1>1, <1>2 DEF Now, Present
<1>5. handled.frame \in Nat /\ frame \in Nat /\ frame <= FrameLimit /\ FrameLimit \in Nat
  BY RelayAssumption DEF IInv, TypeOK, EngineTypeOK
<1>6. handled.frame < FrameLimit
  BY <1>3, <1>5
<1>7. /\ gone \subseteq handled.present /\ Present = handled.present \ gone
      /\ stop = IF gone = {} THEN "none" ELSE "stopped"
  BY <1>3
<1> HIDE DEF gone
<1>8. /\ OldestFrame \in 0..frame
      /\ Sync!IsOldest(OldestFrame, frame, Present)
  BY <1>5, OldestFrameIs DEF IInv, Sync!IsOldest
<1>9. \/ Sync!CheckPasses(Present, frame, OldestFrame, IF gone = {} THEN "none" ELSE "stopped")
      \/ Sync!CheckFails(Present, OldestFrame)
  <2>1. CASE Bad(Passed) = {}
    BY <1>1, <1>4, <1>7, <2>1, CheckPassesSync
  <2>2. CASE Bad(Passed) # {}
    BY <1>1, <1>4, <2>2, CheckFailsSync
  <2> QED
    BY <2>1, <2>2
<1>10. (phase' # "loop" /\ work' = <<>>) = (phase # "loop" /\ work = <<>>)
  BY <1>1, <1>2, <1>3
<1>11. handled.stalled => Sync!StallOver
  BY <1>3 DEF Sync!StallOver
<1> HIDE DEF Ticks
<1>12. \E oldest \in 0..handled'.frame :
          /\ Sync!IsOldest(oldest, handled'.frame, handled'.present)
          /\ \/ Sync!CheckPasses(handled'.present, handled'.frame, oldest, IF gone = {} THEN "none" ELSE "stopped")
             \/ Sync!CheckFails(handled'.present, oldest)
  BY <1>4, <1>8, <1>9
<1>13. Sync!Tick(gone)
  BY <1>2, <1>3, <1>4, <1>6, <1>7, <1>10, <1>11, <1>12 DEF Sync!Tick, Sync!Running
<1>14. gone \in SUBSET handled.present
  BY <1>7
<1> QED
  BY <1>13, <1>14 DEF Sync!Next

-----------------------------------------------------------------------------
LEMMA NextSync ==
    ASSUME IInv, IInv', StepInv, HandlerInv, [Next]_vars
    PROVE  [Sync!Next]_Sync!vars
<1>1. ASSUME NEW s \in Slots, Skip(s) \/ Queue(s) \/ Flush(s) \/ Overrun(s) PROVE [Sync!Next]_Sync!vars
  BY <1>1, ServedOnward, OverrunOnward, OnwardSync
<1>2. CASE RunStep
  BY <1>1, <1>2, CheckGameSync, SyncStop, ShutdownSync, ReturnSync DEF RunStep, Iterate
<1>3. ASSUME NEW c \in Conns, Connect(c) \/ ReaderStep(c) \/ WriterStep(c) \/ ClientStep(c)
      PROVE  [Sync!Next]_Sync!vars
  <2>1. UNCHANGED <<handled, started, verified, acked, ring, sent, phase, work>>
    BY <1>3, OutsideSame
  <2> QED
    BY <2>1, SyncStutter
<1>4. CASE UNCHANGED vars
  <2>1. UNCHANGED <<handled, started, verified, acked, ring, sent, phase, work>>
    BY <1>4 DEF vars, engineVars, syncVars, joinVars
  <2> QED
    BY <2>1, SyncStutter
<1> QED
  BY <1>2, <1>3, <1>4, HandleEventSync, TakeTickSync DEF Next, Ended

(***************************************************************************)
(* A game served by its goroutine, readers and writers, with emulators     *)
(* that answer the frame words they received, is a game of GameSync: every *)
(* handler, with all the players its broadcasts drop, is one step of it or *)
(* none (game.Run and what it calls).                                      *)
(***************************************************************************)
THEOREM RelayRefinesSync == SafeSpec => ImplementsSync
<1>1. Init => StepInv /\ HandlerInv /\ Sync!Init
  BY InitSteps, InitHandler, InitSync
<1>2. IInv /\ StepInv /\ [Next]_vars => StepInv'
  BY NextSteps
<1>3. IInv /\ HandlerInv /\ [Next]_vars => HandlerInv'
  BY NextHandler
<1>4. IInv /\ IInv' /\ StepInv /\ HandlerInv /\ [Next]_vars => [Sync!Next]_Sync!vars
  BY NextSync
<1> QED
  BY <1>1, <1>2, <1>3, <1>4, Invariance, PTL DEF SafeSpec, ImplementsSync, Sync!SafeSpec

(* GameSync with what is proved of it. *)
Proved == INSTANCE GameSyncProofs WITH
    Data     <- {0, 1},
    present  <- handled.present,
    frame    <- handled.frame,
    stalled  <- handled.stalled,
    stop     <- handled.stop,
    done     <- phase # "loop" /\ work = <<>>

(* It is the same GameSync that GameRelay implements. *)
LEMMA SameSync ==
    /\ Sync!Init => Proved!Init
    /\ [Sync!Next]_Sync!vars => [Proved!Next]_Proved!vars
<1>1. Sync!Init => Proved!Init
  BY DEF Sync!Slots, Proved!Slots, Sync!Kinds, Proved!Kinds, Sync!Running, Proved!Running, Sync!EmptyRings,
     Proved!EmptyRings, Sync!NothingSent, Proved!NothingSent, Sync!vars, Proved!vars, Sync!Join, Proved!Join,
     Sync!Drop, Proved!Drop, Sync!Owes, Proved!Owes, Sync!FileCheck, Proved!FileCheck, Sync!Ack, Proved!Ack,
     Sync!IsOldest, Proved!IsOldest, Sync!Agree, Proved!Agree, Sync!InSync, Proved!InSync, Sync!Passed,
     Proved!Passed, Sync!CheckPasses, Proved!CheckPasses, Sync!CheckFails, Proved!CheckFails, Sync!StallOver,
     Proved!StallOver, Sync!Tick, Proved!Tick, Sync!LaunchTimeout, Proved!LaunchTimeout, Sync!Cancel,
     Proved!Cancel, Sync!Shutdown, Proved!Shutdown, Sync!Finished, Proved!Finished, Sync!PlayerStep,
     Proved!PlayerStep, Sync!Next, Proved!Next, Sync!Init, Proved!Init
<1>2. [Sync!Next]_Sync!vars => [Proved!Next]_Proved!vars
  BY DEF Sync!Slots, Proved!Slots, Sync!Kinds, Proved!Kinds, Sync!Running, Proved!Running, Sync!EmptyRings,
     Proved!EmptyRings, Sync!NothingSent, Proved!NothingSent, Sync!vars, Proved!vars, Sync!Join, Proved!Join,
     Sync!Drop, Proved!Drop, Sync!Owes, Proved!Owes, Sync!FileCheck, Proved!FileCheck, Sync!Ack, Proved!Ack,
     Sync!IsOldest, Proved!IsOldest, Sync!Agree, Proved!Agree, Sync!InSync, Proved!InSync, Sync!Passed,
     Proved!Passed, Sync!CheckPasses, Proved!CheckPasses, Sync!CheckFails, Proved!CheckFails, Sync!StallOver,
     Proved!StallOver, Sync!Tick, Proved!Tick, Sync!LaunchTimeout, Proved!LaunchTimeout, Sync!Cancel,
     Proved!Cancel, Sync!Shutdown, Proved!Shutdown, Sync!Finished, Proved!Finished, Sync!PlayerStep,
     Proved!PlayerStep, Sync!Next, Proved!Next, Sync!Init, Proved!Init
<1> QED
  BY <1>1, <1>2

LEMMA SameProperties ==
    /\ Proved!DriftBounded => Sync!DriftBounded
    /\ Proved!NoFalseDesync => Sync!NoFalseDesync
    /\ Proved!DesyncCaughtWithinDrift => Sync!DesyncCaughtWithinDrift
BY DEF Proved!DriftBounded, Sync!DriftBounded, Proved!NoFalseDesync, Sync!NoFalseDesync, Proved!Running, Sync!Running,
   Proved!DesyncCaughtWithinDrift, Sync!DesyncCaughtWithinDrift, Proved!Sent, Sync!Sent, Proved!Slots, Sync!Slots,
   Proved!Kinds, Sync!Kinds

(***************************************************************************)
(* Whatever the queues, the writers and the broadcasts that drop players   *)
(* do, a game with MaxDrift < RingSize stays near its slowest player, ends *)
(* for a desync only if two players disagree on a frame, and notices one   *)
(* before it is MaxDrift + 2 frames on (tick and checkGame, run by a game  *)
(* goroutine among readers and writers).                                   *)
(***************************************************************************)
THEOREM RelayIsInSync ==
    ASSUME MaxDrift < RingSize
    PROVE  SafeSpec => [](Sync!DriftBounded /\ Sync!NoFalseDesync /\ Sync!DesyncCaughtWithinDrift)
<1>1. Proved!SizeAssumption!: /\ Proved!RingAssumption!:
  BY EngineAssumption, RelayAssumption
<1>2. Proved!SafeSpec => []Proved!DriftBounded
  BY <1>1, Proved!DriftIsBounded
<1>3. Proved!SafeSpec => []Proved!NoFalseDesync
  BY <1>1, Proved!DesyncIsReal
<1>4. Proved!SafeSpec => []Proved!DesyncCaughtWithinDrift
  BY <1>1, Proved!DesyncIsCaught
<1>5. ImplementsSync => Proved!SafeSpec
  BY SameSync, PTL DEF ImplementsSync, Sync!SafeSpec, Proved!SafeSpec
<1> QED
  BY <1>2, <1>3, <1>4, <1>5, RelayRefinesSync, SameProperties, PTL

=============================================================================
