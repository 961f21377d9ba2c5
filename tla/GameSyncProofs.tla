--------------------------- MODULE GameSyncProofs ---------------------------
(***************************************************************************)
(* What TLC checks of GameSync on two or three players, proved for every   *)
(* number of players, drift, ring size and length of game.                 *)
(***************************************************************************)
EXTENDS GameSync, TLAPS

(***************************************************************************)
(* Two tags less than RingSize apart never share a ring entry              *)
(* (memCheck[p.frame%ringSize] in handle).                                 *)
(***************************************************************************)
LEMMA DistinctEntries ==
    ASSUME NEW R \in Nat \ {0}, NEW a \in Nat, NEW b \in Nat, a < b, b - a < R
    PROVE  a % R # b % R
<1> DEFINE qa == a \div R
           qb == b \div R
<1>1. a = R * qa + (a % R) /\ qa \in Int
  BY SMT
<1>2. b = R * qb + (b % R) /\ qb \in Int
  BY SMT
<1> HIDE DEF qa, qb
<1> SUFFICES ASSUME a % R = b % R PROVE FALSE
  OBVIOUS
<1>3. b - a = R * (qb - qa)
  BY <1>1, <1>2, SMT
<1>4. CASE qb - qa <= 0
  <2>1. R * (qb - qa) <= 0
    BY <1>1, <1>2, <1>4, SMT
  <2> QED
    BY <2>1, <1>3, SMT
<1>5. CASE qb - qa >= 1
  <2>1. R * (qb - qa) >= R
    BY <1>1, <1>2, <1>5, SMT
  <2> QED
    BY <2>1, <1>3, SMT
<1> QED
  BY <1>1, <1>2, <1>4, <1>5, SMT

LEMMA EntryInRange ==
    ASSUME NEW R \in Nat \ {0}, NEW a \in Nat
    PROVE  a % R \in 0..(R - 1)
BY SMT

-----------------------------------------------------------------------------
(* The inductive invariant, by parts. *)

(* Nothing is counted, checked or stalled before the game starts. *)
StartInv ==
    ~started => /\ frame = 0
                /\ verified = -1
                /\ ~stalled
                /\ stop \notin Kinds

(* An emulator is at most one checksum of each kind ahead of its last      *)
(* acknowledgement, and that one is for a frame it was sent.               *)
SentInv ==
    \A s \in present :
        /\ acked[s] <= frame
        /\ \A k \in Kinds :
            \/ Len(sent[s][k]) = acked[s]
            \/ Len(sent[s][k]) = acked[s] + 1 /\ acked[s] < frame

(* While the game runs, verification keeps up with the slowest player and  *)
(* the frame counter stays within the drift of verification.               *)
DriftInv ==
    Running =>
        /\ \A s \in present : verified + 1 <= acked[s]
        /\ verified + 1 <= frame
        /\ frame <= verified + 2 + MaxDrift
        /\ ~stalled => frame <= verified + 1 + MaxDrift

(* Every checksum still to be compared is in the ring, whole. *)
RingInv ==
    Running => \A s \in present, k \in Kinds, tag \in Nat :
        verified < tag /\ tag < Len(sent[s][k]) =>
            ring[s][k][tag % RingSize] = [data |-> Sent(s, k, tag), frame |-> tag]

(* Whatever was verified did agree. *)
AgreeInv ==
    \A s, t \in present, k \in Kinds, tag \in Nat :
        tag <= verified => Sent(s, k, tag) = Sent(t, k, tag)

IInv ==
    /\ TypeOK
    /\ StartInv
    /\ SentInv
    /\ DriftInv
    /\ RingInv
    /\ AgreeInv
    /\ NoFalseDesync

-----------------------------------------------------------------------------
(* A fresh player record is well typed. *)
LEMMA FreshTyped ==
    /\ EmptyRings \in [Kinds -> [0..(RingSize - 1) -> Check]]
    /\ NothingSent \in [Kinds -> Seq(Data)]
<1>1. [data |-> 0, frame |-> 0] \in Check
  BY SizeAssumption DEF Check
<1>2. [i \in 0..(RingSize - 1) |-> [data |-> 0, frame |-> 0]] \in [0..(RingSize - 1) -> Check]
  BY <1>1
<1>3. EmptyRings \in [Kinds -> [0..(RingSize - 1) -> Check]]
  BY <1>2 DEF EmptyRings
<1>4. <<>> \in Seq(Data)
  OBVIOUS
<1> QED
  BY <1>3, <1>4 DEF NothingSent

LEMMA InitInv == Init => IInv
<1> SUFFICES ASSUME Init PROVE IInv
  OBVIOUS
<1> USE SizeAssumption DEF Init
<1>1. TypeOK
  BY FreshTyped DEF TypeOK, Stops
<1>2. StartInv /\ SentInv /\ DriftInv /\ RingInv /\ AgreeInv /\ NoFalseDesync
  BY DEF StartInv, SentInv, DriftInv, RingInv, AgreeInv, NoFalseDesync, Kinds, Running
<1> QED
  BY <1>1, <1>2 DEF IInv

-----------------------------------------------------------------------------
(* One lemma per action. *)

LEMMA JoinInv == ASSUME IInv, NEW s \in Slots, Join(s) PROVE IInv'
<1> USE SizeAssumption DEF Join, Running, IInv
<1>1. TypeOK'
  BY FreshTyped DEF TypeOK
<1>2. /\ frame' = 0 /\ verified' = -1 /\ stalled' = FALSE /\ stop' = "none"
      /\ acked'[s] = 0 /\ sent'[s] = NothingSent
      /\ \A t \in present : t # s /\ acked'[t] = acked[t] /\ sent'[t] = sent[t] /\ ring'[t] = ring[t]
      /\ present' = present \cup {s}
  BY DEF TypeOK, StartInv
<1>3. \A k \in Kinds : sent'[s][k] = <<>> /\ Len(sent'[s][k]) = 0
  BY <1>2 DEF NothingSent
<1>4. StartInv'
  BY <1>2 DEF StartInv, Kinds
<1>5. SentInv'
  BY <1>2, <1>3 DEF SentInv, TypeOK, StartInv
<1>6. DriftInv'
  BY <1>2 DEF DriftInv, TypeOK
<1>7. RingInv'
  BY <1>2, <1>3 DEF RingInv, Sent, TypeOK, StartInv
<1>8. AgreeInv'
  BY <1>2 DEF AgreeInv
<1>9. NoFalseDesync'
  BY <1>2 DEF NoFalseDesync, Kinds
<1> QED
  BY <1>1, <1>4, <1>5, <1>6, <1>7, <1>8, <1>9

(* Actions that only let players go, and may stop the game without blaming *)
(* a checksum: onGone, the launch timer, a cancelled context, shutdown.    *)
LEMMA LeaveInv ==
    ASSUME IInv,
           present' \subseteq present,
           stop' \in Stops,
           stop' = stop \/ stop' \notin Kinds \cup {"none"},
           stop = "none" \/ stop' = stop,
           done' \in BOOLEAN,
           UNCHANGED <<started, frame, verified, stalled, acked, ring, sent>>
    PROVE  IInv'
<1> USE SizeAssumption DEF IInv
<1>1. TypeOK'
  BY DEF TypeOK
<1>2. StartInv'
  BY DEF StartInv
<1>3. SentInv'
  BY DEF SentInv
<1>4. DriftInv'
  BY DEF DriftInv, Running
<1>5. RingInv'
  BY DEF RingInv, Running, Sent
<1>6. AgreeInv'
  BY DEF AgreeInv, Sent
<1>7. NoFalseDesync'
  BY DEF NoFalseDesync, Sent
<1> QED
  BY <1>1, <1>2, <1>3, <1>4, <1>5, <1>6, <1>7

-----------------------------------------------------------------------------
LEMMA AckInv == ASSUME IInv, NEW s \in Slots, Ack(s) PROVE IInv'
<1> USE SizeAssumption DEF IInv, Ack
<1>1. /\ acked[s] \in Nat /\ acked' = [acked EXCEPT ![s] = acked[s] + 1]
      /\ \A k \in Kinds : Len(sent[s][k]) = acked[s] + 1 /\ acked[s] < frame
  BY DEF TypeOK, SentInv, Owes
<1>2. acked[s] < frame
  BY <1>1 DEF Kinds
<1>3. TypeOK'
  BY <1>1 DEF TypeOK
<1>4. StartInv'
  BY DEF StartInv
<1>5. SentInv'
  BY <1>1, <1>2 DEF SentInv, TypeOK
<1>6. DriftInv'
  BY <1>1 DEF DriftInv, Running, TypeOK
<1>7. RingInv' /\ AgreeInv' /\ NoFalseDesync'
  BY DEF RingInv, AgreeInv, NoFalseDesync, Running, Sent
<1> QED
  BY <1>3, <1>4, <1>5, <1>6, <1>7

(* Filing a checksum overwrites an entry that was verified already: the    *)
(* tags still to be compared are fewer than RingSize apart.                *)
LEMMA FileCheckInv ==
    ASSUME IInv, NEW s \in Slots, NEW k \in Kinds, NEW d \in Data, FileCheck(s, k, d)
    PROVE  IInv'
<1> USE SizeAssumption DEF IInv
<1> DEFINE a == acked[s]
           entry == [data |-> d, frame |-> a]
<1>1. /\ s \in present /\ a \in Nat /\ a < frame /\ Len(sent[s][k]) = a
      /\ sent[s][k] \in Seq(Data) /\ Running
      /\ entry \in Check /\ a % RingSize \in 0..(RingSize - 1)
  BY EntryInRange DEF TypeOK, FileCheck, Owes, Check
<1>2. ring' = [ring EXCEPT ![s][k][a % RingSize] = entry]
  BY DEF FileCheck
<1>3. sent' = [sent EXCEPT ![s][k] = Append(sent[s][k], d)]
  BY DEF FileCheck
<1>4. UNCHANGED <<present, started, frame, verified, stalled, acked, stop, done>>
  BY DEF FileCheck
<1>5. /\ \A t \in Slots, j \in Kinds :
            (t # s \/ j # k) => sent'[t][j] = sent[t][j] /\ ring'[t][j] = ring[t][j]
      /\ sent'[s][k] = Append(sent[s][k], d)
      /\ ring'[s][k] = [ring[s][k] EXCEPT ![a % RingSize] = entry]
  BY <1>2, <1>3 DEF TypeOK
<1>6. /\ Len(sent'[s][k]) = a + 1
      /\ sent'[s][k][a + 1] = d
      /\ \A tag \in Nat : tag < a => sent'[s][k][tag + 1] = sent[s][k][tag + 1]
  BY <1>1, <1>5
<1>7. TypeOK'
  <2>1. ring' \in [Slots -> [Kinds -> [0..(RingSize - 1) -> Check]]]
    BY <1>1, <1>2 DEF TypeOK
  <2>2. sent' \in [Slots -> [Kinds -> Seq(Data)]]
    BY <1>1, <1>3 DEF TypeOK
  <2> QED
    BY <1>4, <2>1, <2>2 DEF TypeOK
<1>8. StartInv'
  BY <1>4 DEF StartInv
<1>9. SentInv'
  <2> SUFFICES ASSUME NEW t \in present, NEW j \in Kinds
               PROVE  /\ acked[t] <= frame
                      /\ \/ Len(sent'[t][j]) = acked[t]
                         \/ Len(sent'[t][j]) = acked[t] + 1 /\ acked[t] < frame
    BY <1>4 DEF SentInv, Kinds
  <2>1. CASE t = s /\ j = k
    BY <2>1, <1>1, <1>6 DEF TypeOK
  <2>2. CASE t # s \/ j # k
    BY <2>2, <1>5 DEF SentInv, TypeOK
  <2> QED
    BY <2>1, <2>2
<1>10. DriftInv'
  BY <1>4 DEF DriftInv, Running
<1>11. RingInv'
  <2> SUFFICES ASSUME NEW t \in present, NEW j \in Kinds, NEW tag \in Nat,
                      verified < tag, tag < Len(sent'[t][j])
               PROVE  ring'[t][j][tag % RingSize] = [data |-> sent'[t][j][tag + 1], frame |-> tag]
    BY <1>4 DEF RingInv, Sent
  <2>0. t \in Slots
    BY DEF TypeOK
  <2>1. CASE t # s \/ j # k
    <3>1. sent'[t][j] = sent[t][j] /\ ring'[t][j] = ring[t][j]
      BY <2>0, <2>1, <1>5
    <3>2. tag < Len(sent[t][j])
      BY <3>1
    <3>3. ring[t][j][tag % RingSize] = [data |-> sent[t][j][tag + 1], frame |-> tag]
      BY <3>2, <1>1 DEF RingInv, Sent
    <3> QED
      BY <3>1, <3>3
  <2>2. CASE t = s /\ j = k /\ tag = a
    BY <2>2, <1>1, <1>5, <1>6 DEF TypeOK
  <2>3. CASE t = s /\ j = k /\ tag # a
    <3>1. tag < a
      BY <2>3, <1>1, <1>6
    <3>2. a - tag < RingSize
      BY <1>1, RingAssumption, <2>3, <3>1 DEF DriftInv, TypeOK
    <3>3. tag % RingSize # a % RingSize
      BY <3>1, <3>2, <1>1, DistinctEntries
    <3>. tag % RingSize \in 0..(RingSize - 1)
      BY EntryInRange
    <3>. ring[s][k] \in [0..(RingSize - 1) -> Check]
      BY <1>1 DEF TypeOK
    <3>4. ring'[s][k][tag % RingSize] = ring[s][k][tag % RingSize]
      BY <3>3, <1>5
    <3>5. ring[s][k][tag % RingSize] = [data |-> sent[s][k][tag + 1], frame |-> tag]
      BY <1>1, <2>3, <3>1 DEF RingInv, Sent
    <3> QED
      BY <2>3, <3>1, <3>4, <3>5, <1>6
  <2> QED
    BY <2>1, <2>2, <2>3
<1>12. AgreeInv'
  <2> SUFFICES ASSUME NEW t \in present, NEW j \in Kinds, NEW tag \in Nat, tag <= verified
               PROVE  sent'[t][j][tag + 1] = sent[t][j][tag + 1]
    BY <1>4 DEF AgreeInv, Sent
  <2>0. t \in Slots
    BY DEF TypeOK
  <2>1. CASE t # s \/ j # k
    BY <2>0, <2>1, <1>5
  <2>2. CASE t = s /\ j = k
    <3>1. tag < a
      BY <1>1 DEF DriftInv, TypeOK
    <3> QED
      BY <2>2, <3>1, <1>6
  <2> QED
    BY <2>1, <2>2
<1>13. NoFalseDesync'
  BY <1>1, <1>4 DEF NoFalseDesync, Kinds, Running
<1> QED
  BY <1>7, <1>8, <1>9, <1>10, <1>11, <1>12, <1>13

-----------------------------------------------------------------------------
(* A tag every player in live has passed is in all their rings, so the     *)
(* rings agree on it exactly when the checksums sent for it do.            *)
LEMMA RingsTellSent ==
    ASSUME IInv, Running, NEW live \in SUBSET present, NEW k \in Kinds, NEW tag \in Nat,
           verified < tag, \A s \in live : tag < acked[s]
    PROVE  /\ \A s \in live : tag < Len(sent[s][k])
           /\ Agree(live, k, tag) <=> \A s, t \in live : Sent(s, k, tag) = Sent(t, k, tag)
<1>1. \A s \in live : s \in present /\ tag < Len(sent[s][k])
  <2> SUFFICES ASSUME NEW s \in live PROVE tag < Len(sent[s][k])
    OBVIOUS
  <2>1. acked[s] \in Nat /\ tag < acked[s]
    BY DEF IInv, TypeOK
  <2>2. Len(sent[s][k]) = acked[s] \/ Len(sent[s][k]) = acked[s] + 1
    BY DEF IInv, SentInv
  <2> QED
    BY <2>1, <2>2
<1>2. \A s \in live : ring[s][k][tag % RingSize] = [data |-> Sent(s, k, tag), frame |-> tag]
  BY <1>1 DEF IInv, RingInv
<1>3. ASSUME NEW s \in live, NEW t \in live
      PROVE  ring[s][k][tag % RingSize] = ring[t][k][tag % RingSize]
                <=> Sent(s, k, tag) = Sent(t, k, tag)
  <2> DEFINE e(u) == [data |-> Sent(u, k, tag), frame |-> tag]
  <2>1. e(s).data = Sent(s, k, tag) /\ e(t).data = Sent(t, k, tag)
    OBVIOUS
  <2>2. ring[s][k][tag % RingSize] = e(s) /\ ring[t][k][tag % RingSize] = e(t)
    BY <1>2
  <2> QED
    BY <2>1, <2>2
<1> QED
  BY <1>1, <1>3 DEF Agree

(* checkGame's arithmetic: f, v and v2 are the old frame and the old and   *)
(* new verified, o the oldest frame, d the drift.                          *)
LEMMA VerifiedKeepsUp ==
    ASSUME NEW f \in Int, NEW v \in Int, NEW v2 \in Int, NEW o \in Int, NEW d \in Int,
           v2 = IF v < o - 1 THEN o - 1 ELSE v,
           d >= 1, o <= f + 1, v + 1 <= f, f <= v + 2 + d, f <= v + 1 + d \/ f <= o
    PROVE  /\ v2 + 1 <= f + 1
           /\ f + 1 <= v2 + 2 + d
           /\ f + 1 - o <= d => f + 1 <= v2 + 1 + d
BY SMT

LEMMA TickInv == ASSUME IInv, NEW gone \in SUBSET present, Tick(gone) PROVE IInv'
<1>0. /\ frame \in Nat /\ MaxDrift \in Nat \ {0} /\ verified \in Int /\ verified >= -1
      /\ acked \in [Slots -> Nat] /\ present \subseteq Slots
  BY SizeAssumption DEF IInv, TypeOK
<1>1. /\ Running /\ started /\ present' \subseteq present
      /\ UNCHANGED <<started, acked, ring, done, sent>>
      /\ stalled => \A s \in present : acked[s] >= frame
      /\ frame' = frame + 1
  BY DEF Tick, StallOver
<1>2. PICK oldest \in Nat :
        /\ oldest <= frame + 1
        /\ IsOldest(oldest, frame + 1, present')
        /\ \/ CheckPasses(present', frame + 1, oldest, IF gone = {} THEN "none" ELSE "stopped")
           \/ CheckFails(present', oldest)
  BY <1>0 DEF Tick
<1>3. frame' \in Nat
  BY <1>0, <1>1
<1>4. \A s \in present' : oldest <= acked[s]
  BY <1>2 DEF IsOldest
<1>5. ASSUME NEW tag \in Passed(oldest)
      PROVE  tag \in Nat /\ verified < tag /\ \A s \in present' : tag < acked[s]
  BY <1>0, <1>1, <1>2, <1>4 DEF Passed
<1>6. StartInv'
  BY <1>1 DEF IInv, StartInv
<1>7. SentInv'
  BY <1>1, <1>0, <1>3 DEF IInv, SentInv
<1>8. CASE CheckPasses(present', frame + 1, oldest, IF gone = {} THEN "none" ELSE "stopped")
  <2>1. /\ verified' = IF verified < oldest - 1 THEN oldest - 1 ELSE verified
        /\ stalled' = (frame + 1 - oldest > MaxDrift)
        /\ stop' \in {"none", "stopped"}
        /\ \A tag \in Passed(oldest) : InSync(present', tag)
    BY <1>8, <1>0 DEF CheckPasses
  <2>2. verified' \in Int /\ verified' >= -1 /\ verified <= verified'
    BY <2>1, <1>0, <1>3
  <2>3. TypeOK'
    BY <2>1, <2>2, <1>1, <1>0, <1>3 DEF IInv, TypeOK, Stops
  <2>4. DriftInv'
    <3>1. \A s \in present' : verified' + 1 <= acked[s]
      BY <2>1, <1>0, <1>1, <1>4 DEF IInv, DriftInv
    <3>2. /\ verified + 1 <= frame /\ frame <= verified + 2 + MaxDrift
          /\ ~stalled => frame <= verified + 1 + MaxDrift
      BY <1>1 DEF IInv, DriftInv
    <3>3. stalled => frame <= oldest
      BY <1>0, <1>1, <1>2 DEF IsOldest
    <3>4. /\ verified' + 1 <= frame + 1
          /\ frame + 1 <= verified' + 2 + MaxDrift
          /\ frame + 1 - oldest <= MaxDrift => frame + 1 <= verified' + 1 + MaxDrift
      BY <3>2, <3>3, <2>1, <1>0, <1>2, VerifiedKeepsUp
    <3>5. ~(frame + 1 - oldest > MaxDrift) => frame + 1 - oldest <= MaxDrift
      BY <1>0
    <3>6. frame' <= verified' + 2 + MaxDrift /\ verified' + 1 <= frame'
      BY <3>4, <2>2, <1>0, <1>1
    <3>7. ~stalled' => frame' <= verified' + 1 + MaxDrift
      BY <3>4, <3>5, <2>1, <2>2, <1>0, <1>1
    <3> QED
      BY <3>1, <3>6, <3>7, <1>1 DEF DriftInv
  <2>5. RingInv'
    BY <2>2, <1>1, <1>0, <1>3 DEF IInv, RingInv, Sent
  <2>6. AgreeInv'
    <3> SUFFICES ASSUME NEW s \in present', NEW t \in present', NEW k \in Kinds, NEW tag \in Nat,
                        tag <= verified'
                 PROVE  Sent(s, k, tag) = Sent(t, k, tag)
      BY <1>1 DEF IInv, AgreeInv, Sent
    <3>1. CASE tag <= verified
      BY <3>1, <1>1, <1>0, <1>3 DEF IInv, AgreeInv
    <3>2. CASE verified < tag
      <4>1. tag \in Passed(oldest)
        BY <3>2, <2>1, <1>0, <1>3 DEF Passed
      <4>2. Agree(present', k, tag)
        BY <4>1, <2>1 DEF InSync
      <4>3. Agree(present', k, tag) <=> \A u, v \in present' : Sent(u, k, tag) = Sent(v, k, tag)
        <5>1. verified < tag /\ \A u \in present' : tag < acked[u]
          BY <4>1, <1>5
        <5> QED
          BY <5>1, <1>1, RingsTellSent
      <4> QED
        BY <4>2, <4>3
    <3> QED
      BY <3>1, <3>2, <1>0, <1>3
  <2>7. NoFalseDesync'
    BY <2>1 DEF NoFalseDesync, Kinds
  <2> QED
    BY <2>3, <2>4, <2>5, <2>6, <2>7, <1>6, <1>7 DEF IInv
<1>9. CASE CheckFails(present', oldest)
  <2>1. PICK tag \in Passed(oldest) :
          /\ ~InSync(present', tag)
          /\ \A before \in (verified + 1)..(tag - 1) : InSync(present', before)
          /\ verified' = tag - 1
          /\ stalled' = FALSE
          /\ stop' = IF Agree(present', "mem", tag) THEN "rnd" ELSE "mem"
    BY <1>9 DEF CheckFails
  <2>2. /\ verified' \in Int /\ verified' >= -1 /\ verified <= verified'
        /\ verified' + 1 = tag /\ tag \in Nat /\ stop' \in Kinds
    BY <2>1, <1>0, <1>3, <1>5 DEF Kinds
  <2>3. TypeOK'
    <3>1. verified' \in Nat \cup {-1}
      BY <2>2
    <3>2. stalled' \in BOOLEAN /\ stop' \in Stops
      BY <2>1, <2>2 DEF Stops
    <3> QED
      BY <3>1, <3>2, <1>1, <1>3 DEF IInv, TypeOK
  <2>4. DriftInv' /\ RingInv'
    BY <2>2 DEF IInv, DriftInv, RingInv, Running, Kinds
  <2>5. AgreeInv'
    <3> SUFFICES ASSUME NEW s \in present', NEW t \in present', NEW k \in Kinds, NEW old \in Nat,
                        old < tag
                 PROVE  Sent(s, k, old) = Sent(t, k, old)
      <4>1. ASSUME NEW old \in Nat, NEW v \in Int, NEW n \in Nat, v + 1 = n, old <= v
            PROVE  old < n
        BY <4>1
      <4>2. \A old \in Nat : old <= verified' => old < tag
        BY ONLY <4>1, <2>2
      <4> QED
        BY <4>2, <1>1 DEF AgreeInv, Sent
    <3>1. CASE old <= verified
      BY <3>1, <1>1, <1>0, <1>3 DEF IInv, AgreeInv
    <3>2. CASE verified < old
      <4>1. old \in (verified + 1)..(tag - 1) /\ old \in Passed(oldest)
        BY <3>2, <2>1, <2>2, <1>0, <1>3 DEF Passed
      <4>2. Agree(present', k, old)
        BY <4>1, <2>1 DEF InSync
      <4>3. Agree(present', k, old) <=> \A u, v \in present' : Sent(u, k, old) = Sent(v, k, old)
        <5>1. verified < old /\ \A u \in present' : old < acked[u]
          BY <4>1, <1>5
        <5> QED
          BY <5>1, <1>1, RingsTellSent
      <4> QED
        BY <4>2, <4>3
    <3> QED
      BY <3>1, <3>2, <1>0, <1>3
  <2>6. ~Agree(present', stop', tag)
    BY <2>1 DEF InSync, Kinds
  <2>7. PICK s \in present', t \in present' : Sent(s, stop', tag) # Sent(t, stop', tag)
    BY <2>2, <2>6, <1>1, <1>0, <1>3, <1>5, RingsTellSent
  <2>8. tag < Len(sent[s][stop']) /\ tag < Len(sent[t][stop'])
    BY <2>2, <1>1, <1>0, <1>3, <1>5, RingsTellSent
  <2>9. NoFalseDesync'
    <3>1. s \in Slots /\ t \in Slots
      BY <1>0, <1>1
    <3> QED
      BY <3>1, <2>2, <2>7, <2>8, <1>1 DEF NoFalseDesync, Sent
  <2> QED
    BY <2>3, <2>4, <2>5, <2>9, <1>6, <1>7 DEF IInv
<1> QED
  BY <1>2, <1>8, <1>9

-----------------------------------------------------------------------------
LEMMA NextInv == IInv /\ [Next]_vars => IInv'
<1> SUFFICES ASSUME IInv, [Next]_vars PROVE IInv'
  OBVIOUS
<1>1. ASSUME NEW s \in Slots, Join(s) PROVE IInv'
  BY <1>1, JoinInv
<1>2. ASSUME NEW s \in Slots, PlayerStep(s) PROVE IInv'
  BY <1>2, AckInv, FileCheckInv DEF PlayerStep
<1>3. ASSUME NEW gone \in SUBSET present, Drop(gone) PROVE IInv'
  BY <1>3, LeaveInv DEF Drop, IInv, TypeOK, Stops, Kinds, Running
<1>4. ASSUME NEW gone \in SUBSET present, Tick(gone) PROVE IInv'
  BY <1>4, TickInv
<1>5. CASE LaunchTimeout
  BY <1>5, LeaveInv DEF LaunchTimeout, IInv, TypeOK, Stops, Kinds, Running
<1>6. CASE Cancel
  BY <1>6, LeaveInv DEF Cancel, IInv, TypeOK, Stops, Kinds, Running
<1>7. CASE Shutdown
  BY <1>7, LeaveInv DEF Shutdown, IInv, TypeOK
<1>8. CASE UNCHANGED vars
  BY <1>8, LeaveInv DEF vars, IInv, TypeOK
<1> QED
  BY <1>1, <1>2, <1>3, <1>4, <1>5, <1>6, <1>7, <1>8 DEF Next, Finished

LEMMA InvAlways == SafeSpec => []IInv
BY InitInv, NextInv, PTL DEF SafeSpec

(* The types of the game's state, for every number of players and length.  *)
THEOREM TypeCorrect == SafeSpec => []TypeOK
BY InvAlways, PTL DEF IInv

(* The server never runs more than MaxDrift + 1 frames ahead of the        *)
(* slowest connected player (checkGame's stall).                           *)
THEOREM DriftIsBounded == SafeSpec => []DriftBounded
<1>1. IInv => DriftBounded
  <2> SUFFICES ASSUME IInv, Running, NEW s \in present PROVE frame - acked[s] <= MaxDrift + 1
    BY DEF DriftBounded
  <2>1. /\ frame \in Nat /\ acked[s] \in Nat /\ verified \in Nat \cup {-1} /\ MaxDrift \in Nat
        /\ verified + 1 <= acked[s] /\ frame <= verified + 2 + MaxDrift
    BY SizeAssumption DEF IInv, TypeOK, DriftInv
  <2> QED
    BY <2>1
<1> QED
  BY <1>1, InvAlways, PTL

(* No game is ended for a desync without two players having sent different *)
(* checksums for the same frame (checkSync), given MaxDrift < RingSize.    *)
THEOREM DesyncIsReal == SafeSpec => []NoFalseDesync
BY InvAlways, PTL DEF IInv

(* A divergence is caught before the server is more than MaxDrift + 1      *)
(* frames past it (checkGame verifies every tag in order).                 *)
THEOREM DesyncIsCaught == SafeSpec => []DesyncCaughtWithinDrift
<1>1. IInv => DesyncCaughtWithinDrift
  <2> SUFFICES ASSUME IInv, Running, NEW s \in present, NEW t \in present, NEW k \in Kinds,
                      NEW tag \in 0..(frame - MaxDrift - 2)
               PROVE  Sent(s, k, tag) = Sent(t, k, tag)
    BY DEF DesyncCaughtWithinDrift
  <2>1. /\ frame \in Nat /\ verified \in Nat \cup {-1} /\ MaxDrift \in Nat
        /\ frame <= verified + 2 + MaxDrift
    BY SizeAssumption DEF IInv, TypeOK, DriftInv
  <2>2. tag \in Nat /\ tag <= verified
    BY <2>1
  <2> QED
    BY <2>2 DEF IInv, AgreeInv
<1> QED
  BY <1>1, InvAlways, PTL

=============================================================================
