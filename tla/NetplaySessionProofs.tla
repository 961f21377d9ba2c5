------------------------ MODULE NetplaySessionProofs ------------------------
(***************************************************************************)
(* Proofs about NetplaySession, for any launchers, documents, slots and    *)
(* media: the start is for what is on the host's screen, a ready slot has  *)
(* the game's document, and that document is what everybody launches.      *)
(***************************************************************************)
EXTENDS NetplaySession, FiniteSetTheorems, SequenceTheorems, TLAPS

(* A snapshot s tells what the entry is, or has been. *)
SnapTrue(e, s) ==
    /\ s.version <= e.configVersion
    /\ s.version = e.configVersion => s.config = e.config
    /\ s.config = None <=> s.version = 0
    /\ s.state = "running" => e.running /\ s.version = e.configVersion
    /\ s.state = "ended" => e.ended

(* It is not older than the one the session has. *)
After(c, s) ==
    c.snapshot # None =>
        /\ c.snapshot.version <= s.version
        /\ c.snapshot.version = s.version => c.snapshot.config = s.config
        /\ c.snapshot.state \notin PreStart => s.state \notin PreStart

(* Once the game runs all slots are ready, and stay so; the host's is never free. *)
EntryOK(e) ==
    /\ e \in Entries
    /\ Claimed(e, 0)
    /\ e.config = None <=> e.configVersion = 0
    /\ e.running => e.config # None /\ AllReady(e)

(* A launcher that has not left has its slot. *)
SlotOK(l, c, e) ==
    /\ c.slot = None <=> c.token = None
    /\ l = Host <=> c.slot = 0
    /\ c.slot # None /\ ~c.ended => e.slots[c.slot].token = c.token
    /\ \A n \in DOMAIN c.calls : c.calls[n].what = "leave" => c.ended

(* There is one push at a time, and none of a player's; unless one is on    *)
(* its way, the lobby has the document last pushed.                        *)
PushOK(l, c, e, a) ==
    IF l = Host
    THEN /\ \A n \in DOMAIN c.calls : c.calls[n].what = "push" =>
                /\ c.pushing /\ a = None /\ c.calls[n].doc = c.lastPushed
                /\ \A m \in DOMAIN c.calls : c.calls[m].what = "push" => m = n
         /\ a # None => c.pushing /\ (a.error \/ e.config = c.lastPushed)
         /\ ~c.pushing /\ c.lastPushed # None => e.config = c.lastPushed
         /\ ~c.restoreScheduled
    ELSE /\ \A n \in DOMAIN c.calls : c.calls[n].what # "push"
         /\ a = None /\ ~c.pushScheduled /\ ~c.pushAgain

(* What a session has seen of the game's states. *)
SeenOK(c, e) ==
    /\ c.snapshot # None => SnapTrue(e, c.snapshot)
    /\ c.snapshot # None /\ c.snapshot.state = "ended" => c.ended
    /\ c.snapshot # None /\ c.snapshot.state = "running" /\ ~c.ended => c.launched # None
    /\ c.launched # None => e.running

Before(c) == ~c.ended /\ c.snapshot # None /\ c.snapshot.state \in PreStart /\ c.snapshot.config # None

(* A player's document is the one last applied, or is to be restored. *)
Followed(c) ==
    /\ c.applied # 0 /\ State(c) \in PreStart => c.snapshot # None /\ c.snapshot.version = c.applied
    /\ Before(c) /\ c.applied # 0 =>
        c.restoreScheduled \/ c.local \in {c.snapshot.config, Resolved(c, c.snapshot.config)}

(* A report is of a document the launcher has seen, and a good one of the   *)
(* document it sees now says that it has all of it.                        *)
ReportOK(c, v, r) ==
    /\ c.snapshot # None /\ v <= c.snapshot.version
    /\ v = c.snapshot.version /\ ~r.missing => c.snapshot.config # None /\ c.snapshot.config.hash \notin c.lacks

PlayerOK(c, e) ==
    /\ Followed(c)
    /\ c.launched # None => c.launched = e.config
    /\ \A n \in DOMAIN c.calls : c.calls[n].what = "report" => ReportOK(c, c.calls[n].version, c.calls[n].result)
    /\ c.slot # None /\ e.slots[c.slot].token = c.token /\ e.slots[c.slot].ready # None =>
        ReportOK(c, e.slots[c.slot].ready.version, e.slots[c.slot].ready.result)

Sound(l, c, e, a) ==
    /\ c \in Sessions
    /\ SlotOK(l, c, e) /\ PushOK(l, c, e, a) /\ SeenOK(c, e)
    /\ l # Host => PlayerOK(c, e)

(* In between, _handle resets applied. *)
Applied(c) == Before(c) => c.applied # 0

Tokens ==
    /\ \A l \in Launchers : session[l].token # None =>
          session[l].token \in 1..Cardinality({k \in Launchers : Joined(k)})
    /\ \A k, l \in Launchers : k # l /\ session[k].token # None => session[k].token # session[l].token

LauncherOK(l) ==
    /\ Sound(l, session[l], entry, pushed[l])
    /\ l # Host => Applied(session[l])
    /\ polled[l] # None => Joined(l) /\ SnapTrue(entry, polled[l]) /\ After(session[l], polled[l])

IInv ==
    /\ TypeOK /\ EntryOK(entry) /\ Tokens
    /\ \A l \in Launchers : LauncherOK(l)
-----------------------------------------------------------------------------
LEMMA Constants ==
    /\ None \notin Nat /\ None \notin Slots /\ None \notin Docs /\ None \notin Views
    /\ 0 \in Slots
    /\ Host \in Launchers /\ FirstDocs \subseteq Docs /\ NoMedia \in Hashes
    /\ Unfound \subseteq Hashes /\ NoMedia \notin Unfound /\ IsFiniteSet(Launchers)
    /\ Players \in Nat /\ Slots \subseteq Nat
<1>1. Players \in Nat /\ Players > 0 /\ None \notin Nat
  BY EntryAssumption
<1>2. Slots \subseteq Nat /\ 0 \in Slots /\ None \notin Slots
  BY <1>1 DEF Slots
<1> QED BY <1>1, <1>2, NetplayAssumption, NoMediaAssumption

(* The worker's queue *)
LEMMA Queued ==
    ASSUME NEW q \in Seq(Calls), NEW call \in Calls
    PROVE  /\ Append(q, call) \in Seq(Calls)
           /\ \A n \in DOMAIN Append(q, call) :
                 \/ n = Len(q) + 1 /\ Append(q, call)[n] = call
                 \/ n \in DOMAIN q /\ Append(q, call)[n] = q[n]
<1>1. Append(q, call) \in Seq(Calls) /\ Len(Append(q, call)) = Len(q) + 1
  OBVIOUS
<1>2. DOMAIN Append(q, call) = 1..Len(q) + 1 /\ DOMAIN q = 1..Len(q) /\ Len(q) \in Nat
  BY <1>1
<1>3. Append(q, call)[Len(q) + 1] = call /\ \A n \in 1..Len(q) : Append(q, call)[n] = q[n]
  OBVIOUS
<1>4. \A n \in 1..Len(q) + 1 : n = Len(q) + 1 \/ n \in 1..Len(q)
  BY <1>2
<1> QED BY <1>1, <1>2, <1>3, <1>4

LEMMA Dequeued ==
    ASSUME NEW q \in Seq(Calls), q # <<>>
    PROVE  /\ Tail(q) \in Seq(Calls) /\ Head(q) \in Calls /\ Head(q) = q[1] /\ 1 \in DOMAIN q
           /\ \A n \in DOMAIN Tail(q) : n + 1 \in DOMAIN q /\ n \in Nat /\ n > 0 /\ Tail(q)[n] = q[n + 1]
<1>1. Tail(q) \in Seq(Calls) /\ Head(q) \in Calls /\ Head(q) = q[1] /\ 1 \in DOMAIN q
  OBVIOUS
<1>2. Len(q) \in Nat /\ DOMAIN q = 1..Len(q) /\ DOMAIN Tail(q) = 1..Len(q) - 1
  OBVIOUS
<1>3. \A n \in 1..Len(q) - 1 : n + 1 \in 1..Len(q) /\ n \in Nat /\ n > 0 /\ Tail(q)[n] = q[n + 1]
  BY <1>2
<1> QED BY <1>1, <1>2, <1>3

-----------------------------------------------------------------------------
(* The types of a session's fields, and what changes with one of them *)
LEMMA SessionTypes ==
    ASSUME NEW c \in Sessions
    PROVE  /\ c.local \in Docs /\ c.lacks \subseteq Hashes
           /\ c.slot \in Slots \cup {None} /\ c.token \in Nat \cup {None}
           /\ c.snapshot \in Views \cup {None} /\ c.ended \in BOOLEAN
           /\ c.launched \in Docs \cup {None} /\ c.applied \in Nat
           /\ c.lastPushed \in Docs \cup {None} /\ c.pushedVersion \in Nat
           /\ c.pushing \in BOOLEAN /\ c.pushAgain \in BOOLEAN
           /\ c.pushScheduled \in BOOLEAN /\ c.restoreScheduled \in BOOLEAN
           /\ c.calls \in Seq(Calls)
  BY DEF Sessions

(* _call *)
LEMMA CallEffect ==
    ASSUME NEW c \in Sessions, NEW call \in Calls
    PROVE  /\ Call(c, call) \in Sessions
           /\ c.ended => Call(c, call) = c
           /\ \A field \in DOMAIN c \ {"calls"} : Call(c, call)[field] = c[field]
           /\ \A n \in DOMAIN Call(c, call).calls :
                 \/ ~c.ended /\ Call(c, call).calls[n] = call /\ n = Len(c.calls) + 1
                 \/ n \in DOMAIN c.calls /\ Call(c, call).calls[n] = c.calls[n]
<1>1. c.calls \in Seq(Calls)
  BY SessionTypes
<1>2. CASE c.ended
  BY <1>2 DEF Call
<1>3. CASE ~c.ended
  <2>1. Call(c, call) = [c EXCEPT !.calls = Append(c.calls, call)]
    BY <1>3 DEF Call
  <2>2. Call(c, call).calls = Append(c.calls, call) /\ Append(c.calls, call) \in Seq(Calls)
    BY <1>1, <2>1, Queued DEF Sessions
  <2>3. Call(c, call) \in Sessions
    BY <2>1, <2>2 DEF Sessions
  <2>4. \A field \in DOMAIN c \ {"calls"} : Call(c, call)[field] = c[field]
    BY <2>1
  <2> QED BY <1>1, <1>3, <2>2, <2>3, <2>4, Queued
<1> QED BY <1>2, <1>3

(* A call that is not a push, from a session that may make it *)
LEMMA CallSound ==
    ASSUME NEW l \in Launchers, NEW c, NEW e, NEW a, Sound(l, c, e, a),
           NEW call \in Calls, call.what \notin {"push", "leave"},
           l # Host /\ call.what = "report" => ReportOK(c, call.version, call.result)
    PROVE  /\ Sound(l, Call(c, call), e, a)
           /\ \A field \in DOMAIN c \ {"calls"} : Call(c, call)[field] = c[field]
<1> DEFINE d == Call(c, call)
<1>1. /\ c \in Sessions /\ d \in Sessions
      /\ \A field \in DOMAIN c \ {"calls"} : d[field] = c[field]
      /\ \A n \in DOMAIN d.calls :
            \/ ~c.ended /\ d.calls[n] = call /\ n = Len(c.calls) + 1
            \/ n \in DOMAIN c.calls /\ d.calls[n] = c.calls[n]
  BY CallEffect DEF Sound
<1> HIDE DEF d
<1>2. /\ d.local = c.local /\ d.lacks = c.lacks /\ d.slot = c.slot /\ d.token = c.token
      /\ d.snapshot = c.snapshot /\ d.ended = c.ended /\ d.launched = c.launched /\ d.applied = c.applied
      /\ d.lastPushed = c.lastPushed /\ d.pushing = c.pushing /\ d.pushAgain = c.pushAgain
      /\ d.pushScheduled = c.pushScheduled /\ d.restoreScheduled = c.restoreScheduled
  BY <1>1 DEF Sessions
<1>3. SlotOK(l, d, e)
  BY <1>1, <1>2 DEF Sound, SlotOK
<1>4. PushOK(l, d, e, a)
  BY <1>1, <1>2 DEF Sound, PushOK
<1>5. SeenOK(d, e)
  BY <1>2 DEF Sound, SeenOK
<1>6. ASSUME l # Host PROVE PlayerOK(d, e)
  <2>1. PlayerOK(c, e)
    BY <1>6 DEF Sound
  <2>2. Followed(d)
    BY <1>2, <2>1 DEF PlayerOK, Followed, Before, State, Resolved
  <2>3. \A v, r : ReportOK(c, v, r) => ReportOK(d, v, r)
    BY <1>2 DEF ReportOK
  <2> QED BY <1>1, <1>2, <1>6, <2>1, <2>2, <2>3 DEF PlayerOK
<1> QED BY <1>1, <1>3, <1>4, <1>5, <1>6 DEF Sound, d

(* _push_if_changed, of the host *)
LEMMA PushIfChangedSound ==
    ASSUME NEW c, NEW e, NEW a, Sound(Host, c, e, a)
    PROVE  /\ Sound(Host, PushIfChanged(c), e, a)
           /\ PushIfChanged(c).snapshot = c.snapshot /\ PushIfChanged(c).slot = c.slot
           /\ PushIfChanged(c).token = c.token
<1>1. c \in Sessions /\ SlotOK(Host, c, e) /\ PushOK(Host, c, e, a) /\ SeenOK(c, e)
  BY DEF Sound
<1>2. CASE PushIfChanged(c) = c
  BY <1>2
<1>3. CASE PushIfChanged(c) = [c EXCEPT !.pushAgain = TRUE]
  <2> DEFINE d == [c EXCEPT !.pushAgain = TRUE]
  <2>1. d \in Sessions
    BY <1>1 DEF Sessions
  <2>2. /\ d.slot = c.slot /\ d.token = c.token /\ d.snapshot = c.snapshot /\ d.ended = c.ended
        /\ d.launched = c.launched /\ d.lastPushed = c.lastPushed /\ d.pushing = c.pushing
        /\ d.restoreScheduled = c.restoreScheduled /\ d.calls = c.calls
    BY <1>1 DEF Sessions
  <2> HIDE DEF d
  <2>3. SlotOK(Host, d, e) /\ PushOK(Host, d, e, a) /\ SeenOK(d, e)
    BY <1>1, <2>2 DEF SlotOK, PushOK, SeenOK
  <2>4. Sound(Host, d, e, a)
    BY <2>1, <2>3 DEF Sound
  <2> QED BY <1>3, <2>2, <2>4 DEF d
<1>4. CASE Waiting(c) /\ c.local # c.lastPushed /\ ~c.pushing
  <2> DEFINE b == [c EXCEPT !.pushing = TRUE, !.lastPushed = c.local]
             call == [what |-> "push", doc |-> c.local]
             d == Call(b, call)
  <2>1. call \in Calls /\ b \in Sessions
    BY <1>1, SessionTypes DEF Calls, Sessions
  <2>2. /\ b.slot = c.slot /\ b.token = c.token /\ b.snapshot = c.snapshot /\ b.ended = c.ended
        /\ b.launched = c.launched /\ b.lastPushed = c.local /\ b.pushing = TRUE
        /\ b.restoreScheduled = c.restoreScheduled /\ b.calls = c.calls /\ call.what = "push" /\ call.doc = c.local
    BY <1>1 DEF Sessions
  <2> HIDE DEF b, call
  <2>3. /\ d \in Sessions
        /\ \A field \in DOMAIN b \ {"calls"} : d[field] = b[field]
        /\ \A n \in DOMAIN d.calls :
              \/ ~b.ended /\ d.calls[n] = call /\ n = Len(b.calls) + 1
              \/ n \in DOMAIN b.calls /\ d.calls[n] = b.calls[n]
    BY <2>1, CallEffect
  <2>4. /\ d.slot = c.slot /\ d.token = c.token /\ d.snapshot = c.snapshot /\ d.ended = c.ended
        /\ d.launched = c.launched /\ d.lastPushed = c.local /\ d.pushing = TRUE
        /\ d.restoreScheduled = c.restoreScheduled
    BY <2>1, <2>2, <2>3 DEF Sessions
  <2> HIDE DEF d
  <2>5. PushOK(Host, d, e, a)
    BY <1>1, <1>4, <2>2, <2>3, <2>4 DEF PushOK
  <2>6. SlotOK(Host, d, e) /\ SeenOK(d, e)
    BY <1>1, <2>2, <2>3, <2>4 DEF SlotOK, SeenOK
  <2>7. Sound(Host, d, e, a)
    BY <2>3, <2>5, <2>6 DEF Sound
  <2>8. PushIfChanged(c) = d
    BY <1>4 DEF PushIfChanged, d, b, call
  <2> QED BY <2>4, <2>7, <2>8
<1> QED BY <1>2, <1>3, <1>4 DEF PushIfChanged

(* What was reported stays true of a later snapshot. *)
LEMMA ReportsAge ==
    ASSUME NEW c, NEW d, NEW s, s \in Views, c \in Sessions, s # None,
           After(c, s), d.snapshot = s, d.lacks = c.lacks,
           NEW v, NEW r, v \in Nat, ReportOK(c, v, r)
    PROVE  ReportOK(d, v, r)
<1>1. c.snapshot \in Views
  BY SessionTypes DEF ReportOK
<1>2. c.snapshot.version \in Nat /\ s.version \in Nat
  BY <1>1 DEF Views
<1> QED BY <1>2 DEF ReportOK, After

(* What is known of a player's reports when they go to the lobby or are there *)
LEMMA ReportTypes ==
    /\ \A c \in Sessions : \A n \in DOMAIN c.calls :
          c.calls[n] \in Calls /\ (c.calls[n].what = "report" => c.calls[n].version \in Nat)
    /\ \A e \in Entries : \A s \in Slots :
          /\ e.slots[s].token \in Nat \cup {None}
          /\ e.slots[s].ready # None => e.slots[s].ready.version \in Nat
<1>1. ASSUME NEW c \in Sessions, NEW n \in DOMAIN c.calls
      PROVE  c.calls[n] \in Calls /\ (c.calls[n].what = "report" => c.calls[n].version \in Nat)
  <2>1. c.calls[n] \in Calls
    BY <1>1, SessionTypes
  <2>2. \A call \in Calls : call.what = "report" => call.version \in Nat
    BY DEF Calls
  <2> QED BY <2>1, <2>2
<1>2. ASSUME NEW e \in Entries, NEW s \in Slots
      PROVE  /\ e.slots[s].token \in Nat \cup {None}
             /\ e.slots[s].ready # None => e.slots[s].ready.version \in Nat
  BY <1>2 DEF Entries, SlotRecords, Reports
<1> QED BY <1>1, <1>2

LEMMA PlayerAges ==
    ASSUME NEW c, NEW d, NEW e \in Entries, NEW s \in Views, s # None, c \in Sessions,
           After(c, s), d.snapshot = s, d.lacks = c.lacks, d.slot = c.slot, d.token = c.token,
           d.calls = c.calls, PlayerOK(c, e), Followed(d), d.launched # None => d.launched = e.config
    PROVE  PlayerOK(d, e)
<1>1. \A v \in Nat : \A r : ReportOK(c, v, r) => ReportOK(d, v, r)
  BY ReportsAge
<1>2. \A n \in DOMAIN d.calls : d.calls[n].what = "report" => ReportOK(d, d.calls[n].version, d.calls[n].result)
  BY <1>1, ReportTypes DEF PlayerOK
<1>3. c.slot # None => c.slot \in Slots
  BY SessionTypes
<1>4. d.slot # None /\ e.slots[d.slot].token = d.token /\ e.slots[d.slot].ready # None =>
          ReportOK(d, e.slots[d.slot].ready.version, e.slots[d.slot].ready.result)
  BY <1>1, <1>3, ReportTypes DEF PlayerOK
<1> QED BY <1>2, <1>4 DEF PlayerOK

LEMMA ResolvedType ==
    ASSUME NEW c, NEW doc \in Docs
    PROVE  /\ Resolved(c, doc) \in Docs
           /\ doc.hash \notin c.lacks => Resolved(c, doc) = doc
  BY Constants DEF Resolved, Docs

LEMMA ViewTypes ==
    ASSUME NEW s \in Views
    PROVE  /\ s.version \in Nat /\ s.config \in Docs \cup {None}
           /\ s.state \in PreStart \/ s.state = "running" \/ s.state = "ended"
           /\ "running" \notin PreStart /\ "ended" \notin PreStart
  BY DEF Views, PreStart

(* A session that takes over another snapshot of before the start: it has  *)
(* applied it, or its document, or does not follow.                        *)
LEMMA SnapshotSound ==
    ASSUME NEW l \in Launchers, NEW c, NEW e \in Entries, NEW a, NEW s \in Views, s # None,
           Sound(l, c, e, a), ~c.ended, SnapTrue(e, s), After(c, s), s.state \in PreStart,
           NEW d \in Sessions, d.snapshot = s,
           \A field \in DOMAIN c \ {"snapshot", "local", "applied"} : d[field] = c[field],
           l # Host => Followed(d)
    PROVE  Sound(l, d, e, a)
<1>1. c \in Sessions /\ SlotOK(l, c, e) /\ PushOK(l, c, e, a) /\ SeenOK(c, e) /\ (l # Host => PlayerOK(c, e))
  BY DEF Sound
<1>2. /\ d.lacks = c.lacks /\ d.slot = c.slot /\ d.token = c.token
      /\ d.ended = c.ended /\ d.launched = c.launched
      /\ d.lastPushed = c.lastPushed /\ d.pushing = c.pushing /\ d.pushAgain = c.pushAgain
      /\ d.pushScheduled = c.pushScheduled /\ d.restoreScheduled = c.restoreScheduled /\ d.calls = c.calls
  BY <1>1 DEF Sessions
<1>3. SlotOK(l, d, e)
  BY <1>1, <1>2 DEF SlotOK
<1>4. PushOK(l, d, e, a)
  BY <1>1, <1>2 DEF PushOK
<1>5. SeenOK(d, e)
  BY <1>1, <1>2, ViewTypes DEF SeenOK
<1>6. ASSUME l # Host PROVE PlayerOK(d, e)
  <2>1. d.launched # None => d.launched = e.config
    BY <1>1, <1>2, <1>6 DEF PlayerOK
  <2> QED BY <1>1, <1>2, <1>6, <2>1, PlayerAges
<1> QED BY <1>3, <1>4, <1>5, <1>6 DEF Sound

(* _apply_and_report *)
LEMMA ApplySound ==
    ASSUME NEW l \in Launchers, NEW c, NEW e \in Entries, NEW a, NEW s \in Views, s # None,
           Sound(l, c, e, a), ~c.ended, SnapTrue(e, s), After(c, s), s.state \in PreStart, s.config # None
    PROVE  LET d == ApplyAndReport([c EXCEPT !.snapshot = s], s)
           IN  /\ Sound(l, d, e, a) /\ d.snapshot = s /\ d.applied # 0
               /\ d.slot = c.slot /\ d.token = c.token
<1> DEFINE b == [c EXCEPT !.snapshot = s]
           x == [c EXCEPT !.snapshot = s, !.local = Resolved(b, s.config), !.applied = s.version]
           call == [what |-> "report", version |-> s.version,
                    result |-> [hash |-> Resolved(b, s.config).hash, missing |-> s.config.hash \in b.lacks]]
<1>1. c \in Sessions /\ s.config \in Docs /\ s.version \in Nat /\ s.version # 0
  BY ViewTypes DEF Sound, SnapTrue
<1>2. b.lacks = c.lacks /\ Resolved(b, s.config) \in Docs /\ Resolved(b, s.config) = Resolved(x, s.config)
  BY <1>1, ResolvedType DEF Sessions, Resolved
<1>3. ApplyAndReport([c EXCEPT !.snapshot = s], s) = Call(x, call)
  BY <1>1 DEF ApplyAndReport, ApplyQuietly, Sessions
<1>4. x \in Sessions
  BY <1>1, <1>2 DEF Sessions
<1>5. /\ x.snapshot = s /\ x.local = Resolved(x, s.config) /\ x.applied = s.version
      /\ \A field \in DOMAIN c \ {"snapshot", "local", "applied"} : x[field] = c[field]
  BY <1>1, <1>2 DEF Sessions
<1>6. x.slot = c.slot /\ x.token = c.token /\ x.lacks = c.lacks
  BY <1>1, <1>5 DEF Sessions
<1>7. call \in Calls
  BY <1>1, <1>2 DEF Calls, Results, Docs
<1>8. /\ call.what = "report" /\ call.version = s.version
      /\ call.result.missing <=> s.config.hash \in c.lacks
  BY <1>2
<1> HIDE DEF b, x, call
<1>9. Followed(x)
  BY <1>5 DEF Followed, Before, State
<1>10. Sound(l, x, e, a)
  BY <1>4, <1>5, <1>9, SnapshotSound
<1>11. ReportOK(x, call.version, call.result)
  BY <1>1, <1>5, <1>6, <1>8 DEF ReportOK
<1>12. Sound(l, Call(x, call), e, a) /\ \A field \in DOMAIN x \ {"calls"} : Call(x, call)[field] = x[field]
  BY <1>7, <1>8, <1>10, <1>11, CallSound
<1>13. /\ Call(x, call).snapshot = x.snapshot /\ Call(x, call).applied = x.applied
       /\ Call(x, call).slot = x.slot /\ Call(x, call).token = x.token
  BY <1>4, <1>12 DEF Sessions
<1> QED BY <1>1, <1>3, <1>5, <1>6, <1>12, <1>13

(* _handle of a snapshot from before the start *)
LEMMA FollowSound ==
    ASSUME NEW l \in Launchers, NEW c, NEW e \in Entries, NEW a, NEW s \in Views, s # None,
           Sound(l, c, e, a), ~c.ended, SnapTrue(e, s), After(c, s), s.state \in PreStart
    PROVE  LET d == Follow([c EXCEPT !.snapshot = s], s)
           IN  /\ Sound(l, d, e, a) /\ d.snapshot = s /\ (l # Host => Applied(d))
               /\ d.slot = c.slot /\ d.token = c.token
<1> DEFINE b == [c EXCEPT !.snapshot = s]
           d == Follow(b, s)
<1> SUFFICES /\ Sound(l, d, e, a) /\ d.snapshot = s /\ (l # Host => Applied(d))
             /\ d.slot = c.slot /\ d.token = c.token
  OBVIOUS
<1>1. c \in Sessions /\ b \in Sessions
  BY DEF Sound, Sessions
<1>2. /\ b.snapshot = s /\ \A field \in DOMAIN c \ {"snapshot", "local", "applied"} : b[field] = c[field]
  BY <1>1 DEF Sessions
<1>3. /\ b.slot = c.slot /\ b.token = c.token /\ b.applied = c.applied /\ b.ended = c.ended
      /\ b.local = c.local /\ b.lacks = c.lacks /\ b.restoreScheduled = c.restoreScheduled
  BY <1>1 DEF Sessions
<1>4. CASE s.config # None /\ d = ApplyAndReport(b, s)
  <2>1. /\ Sound(l, d, e, a) /\ d.snapshot = s /\ d.applied # 0
        /\ d.slot = c.slot /\ d.token = c.token
    BY <1>4, ApplySound
  <2> QED BY <2>1 DEF Applied
<1> HIDE DEF b
<1>5. CASE d = b /\ (s.config = None \/ s.version = c.applied)
  <2>1. l # Host => Followed(b) /\ Applied(b)
    <3> SUFFICES ASSUME l # Host PROVE Followed(b) /\ Applied(b)
      OBVIOUS
    <3>1. Followed(c)
      BY DEF Sound, PlayerOK
    <3>2. c.applied \in Nat /\ s.version \in Nat /\ (c.snapshot # None => c.snapshot \in Views)
      BY <1>1, SessionTypes, ViewTypes
    <3>3. c.snapshot # None => c.snapshot.version \in Nat
      BY <3>2, ViewTypes
    <3>4. c.applied # 0 => State(c) \in PreStart
      BY DEF After, State, PreStart
    <3>5. c.applied # 0 => c.snapshot # None /\ c.snapshot.version = c.applied
      BY <3>1, <3>4 DEF Followed
    <3>6. CASE s.config = None
      <4>1. c.applied = 0
        BY <3>2, <3>3, <3>5, <3>6 DEF SnapTrue, After
      <4> QED BY <1>2, <1>3, <3>6, <4>1 DEF Followed, Applied, Before
    <3>7. CASE s.config # None /\ s.version = c.applied
      <4>1. c.applied # 0
        BY <3>2, <3>7 DEF SnapTrue
      <4>2. c.snapshot # None /\ c.snapshot.version = s.version /\ c.snapshot.config = s.config
        BY <3>5, <3>7, <4>1 DEF After
      <4>3. Before(c)
        BY <3>4, <3>7, <4>1, <4>2 DEF Before, State
      <4>4. Resolved(c, s.config) = Resolved(b, s.config)
        BY <1>3 DEF Resolved
      <4>5. b.restoreScheduled \/ b.local \in {s.config, Resolved(b, s.config)}
        BY <1>3, <3>1, <4>1, <4>2, <4>3, <4>4 DEF Followed
      <4> QED BY <1>2, <1>3, <3>7, <4>1, <4>5 DEF Followed, Applied
    <3> QED BY <1>5, <3>6, <3>7
  <2>2. Sound(l, b, e, a)
    BY <1>1, <1>2, <2>1, SnapshotSound
  <2> QED BY <1>2, <1>3, <1>5, <2>1, <2>2
<1>6. CASE IsHost(b) /\ d = PushIfChanged(b)
  <2>1. l = Host
    BY <1>3, <1>6 DEF IsHost, Sound, SlotOK
  <2>2. Sound(l, b, e, a)
    BY <1>1, <1>2, <2>1, SnapshotSound
  <2> QED BY <1>2, <1>3, <1>6, <2>1, <2>2, PushIfChangedSound
<1>7. s.state \in PreStart
  OBVIOUS
<1> QED BY <1>3, <1>4, <1>5, <1>6, <1>7 DEF Follow

(***************************************************************************)
(* When a player sees the start, its slot was ready: it reported all of    *)
(* the game's document, and has it or is about to restore it.              *)
(***************************************************************************)
LEMMA HasTheGame ==
    ASSUME NEW c, NEW e, c \in Sessions, EntryOK(e), PlayerOK(c, e), SeenOK(c, e), Applied(c),
           ~c.ended, c.launched = None, c.slot # None, e.slots[c.slot].token = c.token,
           SlotStatus(e, c.slot) = "ready"
    PROVE  /\ e.config \in Docs /\ e.config.hash \notin c.lacks
           /\ c.restoreScheduled \/ c.local = e.config
<1>1. c.slot \in Slots /\ e \in Entries
  BY SessionTypes DEF EntryOK
<1>2. /\ e.config # None /\ e.slots[c.slot].ready # None
      /\ e.slots[c.slot].ready.version = e.configVersion /\ ~e.slots[c.slot].ready.result.missing
  BY DEF SlotStatus, Reported
<1>3. ReportOK(c, e.configVersion, e.slots[c.slot].ready.result)
  BY <1>2 DEF PlayerOK
<1>4. e.config \in Docs /\ e.configVersion \in Nat
  BY <1>1, <1>2 DEF Entries
<1>5. c.snapshot \in Views /\ c.snapshot # None
  BY <1>3, SessionTypes DEF ReportOK
<1>6. c.snapshot.version = e.configVersion /\ c.snapshot.config = e.config
  BY <1>3, <1>4, <1>5, ViewTypes DEF ReportOK, SeenOK, SnapTrue
<1>7. c.snapshot.state \in PreStart
  BY <1>5, ViewTypes DEF SeenOK
<1>8. e.config.hash \notin c.lacks
  BY <1>2, <1>3, <1>6 DEF ReportOK
<1>9. Before(c)
  BY <1>2, <1>5, <1>6, <1>7 DEF Before
<1>10. c.restoreScheduled \/ c.local \in {e.config, Resolved(c, e.config)}
  BY <1>6, <1>9 DEF PlayerOK, Followed, Applied
<1> QED BY <1>4, <1>8, <1>10, ResolvedType

(* _handle of the start *)
LEMMA LaunchSound ==
    ASSUME NEW l \in Launchers, NEW c, NEW e, NEW a, NEW s \in Views, s # None,
           EntryOK(e), Sound(l, c, e, a), ~c.ended, SnapTrue(e, s), After(c, s), s.state = "running",
           c.slot # None, l # Host => Applied(c)
    PROVE  LET b == [c EXCEPT !.snapshot = s]
               d == IF Started(c, s) THEN Launch(b, s) ELSE b
           IN  /\ Sound(l, d, e, a) /\ (l # Host => Applied(d))
               /\ d.slot = c.slot /\ d.token = c.token
<1> DEFINE b == [c EXCEPT !.snapshot = s]
           d == IF Started(c, s) THEN Launch(b, s) ELSE b
           local == IF b.restoreScheduled THEN Resolved(b, s.config) ELSE b.local
<1> SUFFICES Sound(l, d, e, a) /\ (l # Host => Applied(d)) /\ d.slot = c.slot /\ d.token = c.token
  OBVIOUS
<1>1. /\ c \in Sessions /\ b \in Sessions /\ e \in Entries /\ e.running /\ s.config = e.config
      /\ e.config \in Docs /\ s.state \notin PreStart
  <2>1. c \in Sessions /\ e \in Entries /\ e.running /\ s.config = e.config
    BY DEF Sound, SnapTrue, EntryOK
  <2>2. e.config \in Docs
    BY <2>1 DEF EntryOK, Entries
  <2>3. b \in Sessions
    BY <2>1 DEF Sessions
  <2> QED BY <2>1, <2>2, <2>3, ViewTypes
<1>2. /\ b.snapshot = s /\ b.lacks = c.lacks /\ b.slot = c.slot /\ b.token = c.token
      /\ b.ended = c.ended /\ b.launched = c.launched /\ b.local = c.local /\ b.applied = c.applied
      /\ b.lastPushed = c.lastPushed /\ b.pushing = c.pushing /\ b.pushAgain = c.pushAgain
      /\ b.pushScheduled = c.pushScheduled /\ b.restoreScheduled = c.restoreScheduled /\ b.calls = c.calls
  BY <1>1 DEF Sessions
<1> HIDE DEF b
<1>3. local \in Docs
  BY <1>1, ResolvedType, SessionTypes
<1>4. /\ d \in Sessions /\ d.snapshot = s /\ d.lacks = c.lacks /\ d.slot = c.slot /\ d.token = c.token
      /\ d.ended = c.ended
      /\ d.lastPushed = c.lastPushed /\ d.pushing = c.pushing /\ d.pushAgain = c.pushAgain
      /\ d.pushScheduled = c.pushScheduled /\ d.calls = c.calls
      /\ d.restoreScheduled => c.restoreScheduled
      /\ d.launched = IF c.launched = None THEN local ELSE c.launched
  <2>1. CASE Started(c, s)
    <3>1. d = [b EXCEPT !.local = local, !.launched = local, !.restoreScheduled = FALSE]
      BY <2>1 DEF Launch
    <3> HIDE DEF local, d
    <3>2. d \in Sessions
      BY <1>1, <1>3, <3>1 DEF Sessions
    <3> QED BY <1>1, <1>2, <2>1, <3>1, <3>2 DEF Sessions, Started
  <2>2. CASE ~Started(c, s)
    BY <1>1, <1>2, <2>2 DEF Started
  <2> QED BY <2>1, <2>2
<1> HIDE DEF d
<1>5. d.launched # None
  BY <1>3, <1>4, Constants
<1>6. SlotOK(l, d, e) /\ PushOK(l, d, e, a) /\ SeenOK(d, e)
  BY <1>1, <1>4, <1>5 DEF Sound, SlotOK, PushOK, SeenOK
<1>7. ASSUME l # Host PROVE PlayerOK(d, e) /\ Applied(d)
  <2>1. PlayerOK(c, e) /\ Applied(c) /\ SeenOK(c, e)
    BY <1>7 DEF Sound
  <2>2. Followed(d) /\ Applied(d)
    BY <1>1, <1>4 DEF Followed, Applied, Before, State
  <2>3. d.launched = e.config
    <3>1. CASE c.launched # None
      BY <1>4, <2>1, <3>1 DEF PlayerOK
    <3>2. CASE c.launched = None
      <4>1. c.slot \in Slots
        BY <1>1, SessionTypes
      <4>2. e.slots[c.slot].token = c.token
        BY DEF Sound, SlotOK
      <4>3. SlotStatus(e, c.slot) = "ready"
        BY <1>1, <4>1 DEF EntryOK, AllReady
      <4>4. e.config.hash \notin c.lacks /\ (c.restoreScheduled \/ c.local = e.config)
        BY <1>1, <2>1, <3>2, <4>2, <4>3, HasTheGame
      <4>5. local = e.config
        BY <1>1, <1>2, <4>4, ResolvedType
      <4> QED BY <1>4, <3>2, <4>5
    <3> QED BY <3>1, <3>2
  <2> QED BY <1>1, <1>4, <2>1, <2>2, <2>3, PlayerAges
<1> QED BY <1>4, <1>6, <1>7 DEF Sound

(* _finish, after the game has ended or the user has left *)
LEMMA EndSound ==
    ASSUME NEW l \in Launchers, NEW c, NEW e \in Entries, NEW a, Sound(l, c, e, a),
           NEW d \in Sessions, d.ended,
           \A field \in DOMAIN c \ {"snapshot", "ended", "calls"} : d[field] = c[field],
           \A n \in DOMAIN d.calls :
              d.calls[n].what \in {"leave", "end"} \/ (n \in DOMAIN c.calls /\ d.calls[n] = c.calls[n]),
           \/ d.snapshot = c.snapshot
           \/ /\ d.snapshot \in Views /\ d.snapshot # None /\ d.snapshot.state = "ended"
              /\ SnapTrue(e, d.snapshot) /\ After(c, d.snapshot)
    PROVE  Sound(l, d, e, a) /\ Applied(d)
<1>1. c \in Sessions /\ SlotOK(l, c, e) /\ PushOK(l, c, e, a) /\ SeenOK(c, e) /\ (l # Host => PlayerOK(c, e))
  BY DEF Sound
<1>2. /\ d.lacks = c.lacks /\ d.slot = c.slot /\ d.token = c.token /\ d.launched = c.launched
      /\ d.lastPushed = c.lastPushed /\ d.pushing = c.pushing /\ d.pushAgain = c.pushAgain
      /\ d.pushScheduled = c.pushScheduled /\ d.restoreScheduled = c.restoreScheduled
      /\ d.applied = c.applied /\ d.local = c.local
  BY <1>1 DEF Sessions
<1>3. SlotOK(l, d, e) /\ PushOK(l, d, e, a) /\ SeenOK(d, e)
  BY <1>1, <1>2 DEF SlotOK, PushOK, SeenOK
<1>4. ASSUME l # Host PROVE PlayerOK(d, e)
  <2>1. Followed(d)
    BY <1>1, <1>2, <1>4 DEF PlayerOK, Followed, Before, State, PreStart
  <2>2. \A v \in Nat : \A r : ReportOK(c, v, r) => ReportOK(d, v, r)
    <3>1. CASE d.snapshot = c.snapshot
      BY <1>2, <3>1 DEF ReportOK
    <3>2. CASE d.snapshot \in Views /\ d.snapshot # None /\ After(c, d.snapshot)
      BY <1>1, <1>2, <3>2, ReportsAge
    <3> QED BY <3>1, <3>2
  <2>3. ASSUME NEW n \in DOMAIN d.calls, d.calls[n].what = "report"
        PROVE  ReportOK(d, d.calls[n].version, d.calls[n].result)
    <3>1. n \in DOMAIN c.calls /\ d.calls[n] = c.calls[n]
      BY <2>3
    <3>2. ReportOK(c, c.calls[n].version, c.calls[n].result) /\ c.calls[n].version \in Nat
      BY <1>1, <1>4, <2>3, <3>1, ReportTypes DEF PlayerOK
    <3> QED BY <2>2, <3>1, <3>2
  <2>4. c.slot # None => c.slot \in Slots
    BY <1>1, SessionTypes
  <2>5. d.slot # None /\ e.slots[d.slot].token = d.token /\ e.slots[d.slot].ready # None =>
            ReportOK(d, e.slots[d.slot].ready.version, e.slots[d.slot].ready.result)
    BY <1>1, <1>2, <1>4, <2>2, <2>4, ReportTypes DEF PlayerOK
  <2>6. d.launched # None => d.launched = e.config
    BY <1>1, <1>2, <1>4 DEF PlayerOK
  <2> QED BY <2>1, <2>3, <2>5, <2>6 DEF PlayerOK
<1> QED BY <1>3, <1>4 DEF Sound, Applied, Before

(* _handle *)
LEMMA HandleSound ==
    ASSUME NEW l \in Launchers, NEW c, NEW e, NEW a, NEW s \in Views, s # None,
           EntryOK(e), Sound(l, c, e, a), SnapTrue(e, s), After(c, s),
           s.state = "running" => c.slot # None /\ (l # Host => Applied(c))
    PROVE  /\ Sound(l, Handle(c, s), e, a) /\ (l # Host => Applied(Handle(c, s)))
           /\ Handle(c, s).slot = c.slot /\ Handle(c, s).token = c.token
           /\ s.state \in PreStart => Handle(c, s).snapshot \in {s, c.snapshot}
<1>1. c \in Sessions /\ e \in Entries
  BY DEF Sound, EntryOK
<1>2. CASE c.ended
  BY <1>2 DEF Handle, Applied, Before
<1>3. CASE ~c.ended /\ s.state = "ended"
  <2> DEFINE last == IF c.snapshot = None THEN s ELSE [c.snapshot EXCEPT !.state = "ended"]
             d == [c EXCEPT !.snapshot = last, !.ended = TRUE]
  <2>1. Handle(c, s) = d
    BY <1>1, <1>3 DEF Handle, Finish, Sessions
  <2>2. /\ last \in Views /\ last.state = "ended" /\ last # None
        /\ \/ last = s
           \/ c.snapshot # None /\ last.version = c.snapshot.version /\ last.config = c.snapshot.config
    <3>1. CASE c.snapshot = None
      BY <1>3, <3>1
    <3>2. CASE c.snapshot # None
      <4>1. c.snapshot \in Views
        BY <1>1, <3>2, SessionTypes
      <4>2. /\ last \in Views /\ last.state = "ended"
            /\ last.version = c.snapshot.version /\ last.config = c.snapshot.config
        BY <3>2, <4>1 DEF Views
      <4> QED BY <3>2, <4>2, Constants
    <3> QED BY <3>1, <3>2
  <2> HIDE DEF last
  <2>3. d \in Sessions /\ d.ended /\ d.snapshot = last /\ d.calls = c.calls /\ d.slot = c.slot /\ d.token = c.token
        /\ \A field \in DOMAIN c \ {"snapshot", "ended", "calls"} : d[field] = c[field]
    BY <1>1, <2>2 DEF Sessions
  <2> HIDE DEF d
  <2>4. e.ended
    BY <1>3 DEF SnapTrue
  <2>5. c.snapshot # None => SnapTrue(e, c.snapshot) /\ c.snapshot \in Views
    BY <1>1, SessionTypes DEF Sound, SeenOK
  <2>6. SnapTrue(e, last) /\ After(c, last)
    <3>1. CASE last = s
      BY <3>1
    <3>2. CASE c.snapshot # None /\ last.version = c.snapshot.version /\ last.config = c.snapshot.config
      <4>1. c.snapshot.version \in Nat
        BY <2>5, <3>2, ViewTypes
      <4>2. last.state # "running" /\ last.state \notin PreStart
        BY <2>2, ViewTypes
      <4> QED BY <2>2, <2>4, <2>5, <3>2, <4>1, <4>2 DEF SnapTrue, After
    <3> QED BY <2>2, <3>1, <3>2
  <2>7. Sound(l, d, e, a) /\ Applied(d)
    BY <1>1, <2>2, <2>3, <2>6, EndSound
  <2> QED BY <1>3, <2>1, <2>3, <2>7, ViewTypes
<1>4. CASE ~c.ended /\ s.state \in PreStart
  <2>1. Handle(c, s) = Follow([c EXCEPT !.snapshot = s], s)
    BY <1>4 DEF Handle, Started, PreStart
  <2> QED BY <1>1, <1>4, <2>1, FollowSound
<1>5. CASE ~c.ended /\ s.state = "running"
  <2> DEFINE b == [c EXCEPT !.snapshot = s]
  <2>1. Follow(b, s) = b
    BY <1>5 DEF Follow, PreStart
  <2>2. Started(b, s) <=> Started(c, s)
    BY <1>1 DEF Started, Sessions
  <2>3. Handle(c, s) = IF Started(c, s) THEN Launch(b, s) ELSE b
    BY <1>5, <2>1 DEF Handle
  <2> QED BY <1>1, <1>5, <2>3, LaunchSound, ViewTypes
<1> QED BY <1>2, <1>3, <1>4, <1>5, ViewTypes
-----------------------------------------------------------------------------
(* A change of what the launcher itself decides *)
LEMMA LocalSound ==
    ASSUME NEW l \in Launchers, NEW c, NEW e \in Entries, NEW a, Sound(l, c, e, a), NEW d \in Sessions,
           \A field \in DOMAIN c \ {"local", "lacks", "applied", "restoreScheduled", "pushScheduled"} :
              d[field] = c[field],
           d.lacks \subseteq c.lacks,
           l = Host => ~d.restoreScheduled,
           l # Host => ~d.pushScheduled /\ Followed(d)
    PROVE  Sound(l, d, e, a)
<1>1. c \in Sessions /\ SlotOK(l, c, e) /\ PushOK(l, c, e, a) /\ SeenOK(c, e) /\ (l # Host => PlayerOK(c, e))
  BY DEF Sound
<1>2. /\ d.slot = c.slot /\ d.token = c.token /\ d.snapshot = c.snapshot /\ d.ended = c.ended
      /\ d.launched = c.launched /\ d.lastPushed = c.lastPushed /\ d.pushing = c.pushing
      /\ d.pushAgain = c.pushAgain /\ d.calls = c.calls
  BY <1>1 DEF Sessions
<1>3. SlotOK(l, d, e) /\ PushOK(l, d, e, a) /\ SeenOK(d, e)
  BY <1>1, <1>2 DEF SlotOK, PushOK, SeenOK
<1>4. ASSUME l # Host PROVE PlayerOK(d, e)
  <2>1. \A v, r : ReportOK(c, v, r) => ReportOK(d, v, r)
    BY <1>2 DEF ReportOK
  <2> QED BY <1>1, <1>2, <1>4, <2>1 DEF PlayerOK
<1> QED BY <1>3, <1>4 DEF Sound

(* recheck, when fewer media are missing or a restore was due *)
LEMMA RecheckSound ==
    ASSUME NEW l \in Launchers, NEW c, NEW e, NEW a, EntryOK(e), Sound(l, c, e, a), NEW x \in Sessions,
           \A field \in DOMAIN c \ {"lacks", "restoreScheduled"} : x[field] = c[field],
           x.lacks \subseteq c.lacks, x.restoreScheduled => c.restoreScheduled
    PROVE  /\ Sound(l, Recheck(x), e, a) /\ (l # Host /\ Applied(c) => Applied(Recheck(x)))
           /\ Recheck(x).slot = c.slot /\ Recheck(x).token = c.token /\ Recheck(x).snapshot = c.snapshot
<1>1. c \in Sessions /\ e \in Entries
  BY DEF Sound, EntryOK
<1>2. /\ x.slot = c.slot /\ x.token = c.token /\ x.snapshot = c.snapshot /\ x.ended = c.ended
      /\ x.applied = c.applied /\ x.pushScheduled = c.pushScheduled /\ x.local = c.local
  BY <1>1 DEF Sessions
<1>3. /\ l = Host => ~c.restoreScheduled
      /\ l # Host => ~c.pushScheduled /\ Followed(c)
  BY DEF Sound, PushOK, PlayerOK
<1>4. CASE x.snapshot # None /\ State(x) \in PreStart
  <2> DEFINE y == [x EXCEPT !.applied = 0]
  <2>1. Recheck(x) = Handle(y, x.snapshot)
    BY <1>4 DEF Recheck
  <2>2. /\ y \in Sessions /\ y.applied = 0 /\ y.lacks = x.lacks /\ y.restoreScheduled = x.restoreScheduled
        /\ y.slot = c.slot /\ y.token = c.token /\ y.snapshot = c.snapshot
        /\ y.pushScheduled = c.pushScheduled
        /\ \A field \in DOMAIN c \ {"local", "lacks", "applied", "restoreScheduled", "pushScheduled"} :
              y[field] = c[field]
    BY <1>1, <1>2 DEF Sessions
  <2> HIDE DEF y
  <2>3. Followed(y)
    BY <2>2 DEF Followed
  <2>4. Sound(l, y, e, a)
    BY <1>1, <1>3, <2>2, <2>3, LocalSound
  <2>5. c.snapshot \in Views /\ c.snapshot # None /\ c.snapshot.state \in PreStart
    BY <1>1, <1>2, <1>4, SessionTypes DEF State
  <2>6. SnapTrue(e, c.snapshot)
    BY <2>5 DEF Sound, SeenOK
  <2>7. After(y, c.snapshot)
    BY <2>2, <2>5, ViewTypes DEF After
  <2>8. c.snapshot.state # "running"
    BY <2>5, ViewTypes
  <2> QED BY <1>2, <2>1, <2>2, <2>4, <2>5, <2>6, <2>7, <2>8, HandleSound
<1>5. CASE ~(x.snapshot # None /\ State(x) \in PreStart)
  <2>1. Recheck(x) = x
    BY <1>5 DEF Recheck
  <2>2. ~Before(x)
    BY <1>5 DEF Before, State
  <2>3. l # Host => Followed(x)
    BY <1>2, <1>3, <2>2 DEF Followed, State
  <2>4. Sound(l, x, e, a)
    BY <1>1, <1>2, <1>3, <2>3, LocalSound
  <2> QED BY <1>2, <2>1, <2>2, <2>4 DEF Applied
<1> QED BY <1>4, <1>5

(* restore *)
LEMMA RestoreSound ==
    ASSUME NEW l \in Launchers, NEW c, NEW e, NEW a, EntryOK(e), Sound(l, c, e, a)
    PROVE  /\ Sound(l, RestoreDue(c), e, a) /\ (l # Host /\ Applied(c) => Applied(RestoreDue(c)))
           /\ RestoreDue(c).slot = c.slot /\ RestoreDue(c).token = c.token
           /\ RestoreDue(c).snapshot = c.snapshot
<1> DEFINE x == [c EXCEPT !.restoreScheduled = FALSE]
<1>1. c \in Sessions /\ e \in Entries
  BY DEF Sound, EntryOK
<1>2. /\ x \in Sessions /\ x.lacks = c.lacks /\ x.restoreScheduled = FALSE
      /\ x.slot = c.slot /\ x.token = c.token /\ x.snapshot = c.snapshot /\ x.ended = c.ended
      /\ x.applied = c.applied /\ x.pushScheduled = c.pushScheduled
      /\ \A field \in DOMAIN c \ {"restoreScheduled"} : x[field] = c[field]
  BY <1>1 DEF Sessions
<1>3. RestoreDue(c) = IF Waiting(c) THEN Recheck(x) ELSE x
  BY DEF RestoreDue
<1> HIDE DEF x
<1>4. CASE Waiting(c)
  <2>1. \A field \in DOMAIN c \ {"lacks", "restoreScheduled"} : x[field] = c[field]
    BY <1>2
  <2> QED BY <1>2, <1>3, <1>4, <2>1, RecheckSound
<1>5. CASE ~Waiting(c)
  <2>1. ~Before(x)
    BY <1>2, <1>5 DEF Waiting, Before, State
  <2>2. l # Host => Followed(x) /\ ~x.pushScheduled
    BY <1>2, <2>1 DEF Sound, PushOK, PlayerOK, Followed, State
  <2>3. Sound(l, x, e, a)
    BY <1>1, <1>2, <2>2, LocalSound
  <2> QED BY <1>2, <1>3, <1>5, <2>1, <2>3 DEF Applied
<1> QED BY <1>4, <1>5

(***************************************************************************)
(* An edit: a player's is to be restored, unless it puts in what the game  *)
(* has and the launcher could not find.                                    *)
(***************************************************************************)
LEMMA EditSound ==
    ASSUME NEW l \in Launchers, NEW c, NEW e \in Entries, NEW a, Sound(l, c, e, a), ~c.ended,
           NEW part \in {"hash", "rest"}, NEW value,
           part = "hash" => value \in Hashes, part = "rest" => value \in Rests,
           c.local[part] # value
    PROVE  LET d == ConfigChanged([c EXCEPT !.local[part] = value], part)
           IN  /\ Sound(l, d, e, a) /\ (l # Host /\ Applied(c) => Applied(d))
               /\ d.slot = c.slot /\ d.token = c.token /\ d.snapshot = c.snapshot
<1> DEFINE local == [c.local EXCEPT ![part] = value]
           b == [c EXCEPT !.local = local]
           d == ConfigChanged(b, part)
<1>1. c \in Sessions /\ c.local \in Docs
  BY SessionTypes DEF Sound
<1> SUFFICES /\ Sound(l, d, e, a) /\ (l # Host /\ Applied(c) => Applied(d))
             /\ d.slot = c.slot /\ d.token = c.token /\ d.snapshot = c.snapshot
  BY <1>1 DEF Sessions
<1>2. local \in Docs /\ local[part] = value
      /\ \A p \in {"hash", "rest"} \ {part} : local[p] = c.local[p]
  BY <1>1 DEF Docs
<1> HIDE DEF local
<1>3. /\ b \in Sessions /\ b.local = local /\ b.slot = c.slot /\ b.token = c.token /\ b.snapshot = c.snapshot
      /\ b.ended = c.ended /\ b.lacks = c.lacks /\ b.applied = c.applied
      /\ b.restoreScheduled = c.restoreScheduled /\ b.pushScheduled = c.pushScheduled
      /\ \A field \in DOMAIN c \ {"local"} : b[field] = c[field]
  BY <1>1, <1>2 DEF Sessions
<1> HIDE DEF b
<1>4. /\ IsHost(b) <=> l = Host
      /\ l = Host => ~c.restoreScheduled
      /\ l # Host => ~c.pushScheduled /\ Followed(c)
  BY <1>3 DEF Sound, SlotOK, PushOK, PlayerOK, IsHost
<1>5. /\ d \in Sessions /\ d.local = local /\ d.slot = c.slot /\ d.token = c.token /\ d.snapshot = c.snapshot
      /\ d.ended = c.ended /\ d.lacks = c.lacks /\ d.applied = c.applied
      /\ l = Host => ~d.restoreScheduled
      /\ l # Host => ~d.pushScheduled
      /\ \A field \in DOMAIN c \ {"local", "lacks", "applied", "restoreScheduled", "pushScheduled"} :
            d[field] = c[field]
  <2>1. CASE d = [b EXCEPT !.pushScheduled = TRUE] /\ l = Host
    BY <1>1, <1>3, <1>4, <2>1 DEF Sessions
  <2>2. CASE d = [b EXCEPT !.restoreScheduled = TRUE] /\ l # Host
    BY <1>1, <1>3, <1>4, <2>2 DEF Sessions
  <2>3. CASE d = b
    BY <1>1, <1>3, <1>4, <2>3 DEF Sessions
  <2> QED BY <1>3, <1>4, <2>1, <2>2, <2>3 DEF ConfigChanged
<1>6. ASSUME l # Host, Before(d), d.applied # 0
      PROVE  d.restoreScheduled \/ d.local \in {d.snapshot.config, Resolved(d, d.snapshot.config)}
  <2> DEFINE config == c.snapshot.config
  <2>1. /\ c.snapshot # None /\ c.snapshot.state \in PreStart /\ config # None /\ config \in Docs
        /\ Before(c) /\ c.applied # 0
    BY <1>1, <1>5, <1>6, SessionTypes, ViewTypes DEF Before
  <2>2. CASE b.local[part] # b.snapshot.config[part]
    <3>1. d = [b EXCEPT !.restoreScheduled = TRUE]
      BY <1>3, <1>4, <1>6, <2>1, <2>2 DEF ConfigChanged, State
    <3> QED BY <1>3, <3>1 DEF Sessions
  <2>3. CASE b.local[part] = b.snapshot.config[part]
    <3>1. config[part] = value /\ c.local # config
      BY <1>2, <1>3, <2>3
    <3>2. CASE c.restoreScheduled
      <4>1. d.restoreScheduled
        <5>1. d = b
          BY <1>3, <1>4, <1>6, <2>3 DEF ConfigChanged
        <5> QED BY <1>3, <3>2, <5>1
      <4> QED BY <4>1
    <3>3. CASE ~c.restoreScheduled
      <4>1. c.local = Resolved(c, config)
        BY <1>4, <1>6, <2>1, <3>1, <3>3 DEF Followed
      <4>2. c.local = [config EXCEPT !.hash = NoMedia]
        BY <3>1, <4>1 DEF Resolved
      <4>3. c.local.rest = config.rest
        BY <2>1, <4>2 DEF Docs
      <4>4. part = "hash"
        BY <3>1, <4>3
      <4>5. local.hash = config.hash /\ local.rest = config.rest
        BY <1>2, <3>1, <4>3, <4>4
      <4>6. local = config
        BY <1>2, <2>1, <4>5 DEF Docs
      <4> QED BY <1>5, <4>6
    <3> QED BY <3>2, <3>3
  <2> QED BY <2>2, <2>3
<1> HIDE DEF d
<1>7. l # Host => Followed(d)
  BY <1>4, <1>5, <1>6 DEF Followed, State
<1>8. Sound(l, d, e, a)
  BY <1>5, <1>7, LocalSound
<1>9. Applied(c) => Applied(d)
  BY <1>5 DEF Applied, Before
<1> QED BY <1>5, <1>8, <1>9

(* push *)
LEMMA PushDueSound ==
    ASSUME NEW l \in Launchers, NEW c, NEW e \in Entries, NEW a, Sound(l, c, e, a), c.pushScheduled
    PROVE  /\ l = Host /\ Sound(l, PushDue(c), e, a)
           /\ PushDue(c).slot = c.slot /\ PushDue(c).token = c.token /\ PushDue(c).snapshot = c.snapshot
<1> DEFINE x == [c EXCEPT !.pushScheduled = FALSE]
<1>1. c \in Sessions /\ l = Host /\ ~c.restoreScheduled
  BY DEF Sound, PushOK
<1>2. /\ x \in Sessions /\ x.slot = c.slot /\ x.token = c.token /\ x.snapshot = c.snapshot
      /\ x.restoreScheduled = c.restoreScheduled /\ x.lacks = c.lacks
      /\ \A field \in DOMAIN c \ {"local", "lacks", "applied", "restoreScheduled", "pushScheduled"} :
            x[field] = c[field]
  BY <1>1 DEF Sessions
<1>3. PushDue(c) = PushIfChanged(x)
  BY DEF PushDue
<1> HIDE DEF x
<1>4. Sound(l, x, e, a)
  BY <1>1, <1>2, LocalSound
<1> QED BY <1>1, <1>2, <1>3, <1>4, PushIfChangedSound

(* pushed *)
LEMMA PushedSound ==
    ASSUME NEW l \in Launchers, NEW c, NEW e, NEW a \in Answers, a # None, Sound(l, c, e, a)
    PROVE  /\ l = Host /\ Sound(l, Pushed(c, a), e, None)
           /\ Pushed(c, a).slot = c.slot /\ Pushed(c, a).token = c.token
           /\ Pushed(c, a).snapshot = c.snapshot
<1> DEFINE done == IF a.error THEN [c EXCEPT !.pushing = FALSE, !.lastPushed = None]
                   ELSE [c EXCEPT !.pushing = FALSE, !.pushedVersion = a.version]
           again == [done EXCEPT !.pushAgain = FALSE]
<1>1. c \in Sessions /\ l = Host /\ SlotOK(l, c, e) /\ PushOK(l, c, e, a) /\ SeenOK(c, e)
  BY DEF Sound, PushOK
<1>2. a.error \in BOOLEAN /\ a.version \in Nat
  BY DEF Answers
<1>3. /\ done \in Sessions /\ done.slot = c.slot /\ done.token = c.token /\ done.snapshot = c.snapshot
      /\ done.ended = c.ended /\ done.launched = c.launched /\ done.calls = c.calls
      /\ done.restoreScheduled = c.restoreScheduled /\ done.pushing = FALSE
      /\ done.lastPushed = IF a.error THEN None ELSE c.lastPushed
  BY <1>1, <1>2 DEF Sessions
<1>4. Pushed(c, a) = IF done.pushAgain THEN PushIfChanged(again) ELSE done
  BY DEF Pushed
<1> HIDE DEF done
<1>5. /\ again \in Sessions /\ again.slot = c.slot /\ again.token = c.token /\ again.snapshot = c.snapshot
      /\ again.ended = c.ended /\ again.launched = c.launched /\ again.calls = c.calls
      /\ again.restoreScheduled = c.restoreScheduled /\ again.pushing = FALSE
      /\ again.lastPushed = done.lastPushed
  BY <1>3 DEF Sessions
<1> HIDE DEF again
<1>6. \A n \in DOMAIN c.calls : c.calls[n].what # "push"
  BY <1>1 DEF PushOK
<1>7. Sound(l, done, e, None)
  BY <1>1, <1>3, <1>6 DEF Sound, SlotOK, PushOK, SeenOK
<1>8. Sound(l, again, e, None)
  BY <1>1, <1>3, <1>5, <1>6 DEF Sound, SlotOK, PushOK, SeenOK
<1> QED BY <1>1, <1>3, <1>4, <1>5, <1>7, <1>8, PushIfChangedSound

(* start_game *)
LEMMA StartSound ==
    ASSUME NEW c, NEW e, NEW a, Sound(Host, c, e, a)
    PROVE  /\ Sound(Host, StartGame(c), e, a)
           /\ StartGame(c).slot = c.slot /\ StartGame(c).token = c.token /\ StartGame(c).snapshot = c.snapshot
<1> DEFINE call == [what |-> "start"]
<1>1. c \in Sessions /\ Host \in Launchers
  BY Constants DEF Sound
<1>2. call \in Calls /\ call.what = "start"
  BY DEF Calls
<1> HIDE DEF call
<1>3. /\ Sound(Host, Call(c, call), e, a)
      /\ \A field \in DOMAIN c \ {"calls"} : Call(c, call)[field] = c[field]
  BY <1>1, <1>2, CallSound
<1>4. /\ Call(c, call).slot = c.slot /\ Call(c, call).token = c.token /\ Call(c, call).snapshot = c.snapshot
  BY <1>1, <1>3 DEF Sessions
<1>5. StartGame(c) = c \/ StartGame(c) = Call(c, call)
  BY DEF StartGame, call
<1> QED BY <1>3, <1>4, <1>5

(* leave *)
LEMMA LeaveSound ==
    ASSUME NEW l \in Launchers, NEW c, NEW e \in Entries, NEW a, Sound(l, c, e, a), ~c.ended
    PROVE  /\ Sound(l, LeaveGame(c), e, a) /\ Applied(LeaveGame(c))
           /\ LeaveGame(c).slot = c.slot /\ LeaveGame(c).token = c.token
           /\ LeaveGame(c).snapshot = c.snapshot
<1> DEFINE call == [what |-> IF IsHost(c) THEN "end" ELSE "leave"]
           b == Call(c, call)
<1>1. c \in Sessions
  BY DEF Sound
<1>2. call \in Calls /\ call.what \in {"leave", "end"}
  BY DEF Calls
<1> HIDE DEF call
<1>3. /\ b \in Sessions
      /\ \A field \in DOMAIN c \ {"calls"} : b[field] = c[field]
      /\ \A n \in DOMAIN b.calls :
            \/ ~c.ended /\ b.calls[n] = call /\ n = Len(c.calls) + 1
            \/ n \in DOMAIN c.calls /\ b.calls[n] = c.calls[n]
  BY <1>1, <1>2, CallEffect
<1> HIDE DEF b
<1>4. ASSUME NEW x \in {b, c}
      PROVE  LET d == Finish(x)
             IN  /\ Sound(l, d, e, a) /\ Applied(d)
                 /\ d.slot = c.slot /\ d.token = c.token /\ d.snapshot = c.snapshot
  <2> DEFINE d == Finish(x)
  <2>1. /\ x \in Sessions /\ \A field \in DOMAIN c \ {"calls"} : x[field] = c[field]
        /\ \A n \in DOMAIN x.calls :
              x.calls[n].what \in {"leave", "end"} \/ (n \in DOMAIN c.calls /\ x.calls[n] = c.calls[n])
    BY <1>1, <1>2, <1>3
  <2>2. d \in Sessions /\ d.ended /\ d.calls = x.calls
        /\ \A field \in DOMAIN c \ {"snapshot", "ended", "calls"} : d[field] = c[field]
    BY <1>1, <2>1 DEF Finish, Sessions
  <2>3. d.snapshot = c.snapshot /\ d.slot = c.slot /\ d.token = c.token
    BY <1>1, <2>1 DEF Finish, Sessions
  <2> HIDE DEF d
  <2>4. Sound(l, d, e, a) /\ Applied(d)
    BY <2>1, <2>2, <2>3, EndSound
  <2> QED BY <2>3, <2>4 DEF d
<1>5. LeaveGame(c) = Finish(c) \/ LeaveGame(c) = Finish(b)
  BY DEF LeaveGame, b, call
<1> QED BY <1>4, <1>5
-----------------------------------------------------------------------------
(***************************************************************************)
(* What may happen to the entry without changing a session: the session's  *)
(* slot stays its own, and a report there is its own, too.                 *)
(***************************************************************************)
GoesOn(l, c, e, f) ==
    /\ f.configVersion >= e.configVersion
    /\ f.configVersion = e.configVersion => f.config = e.config
    /\ e.running => f.running /\ f.configVersion = e.configVersion
    /\ e.ended => f.ended
    /\ c.slot # None =>
        /\ ~c.ended => f.slots[c.slot].token = e.slots[c.slot].token
        /\ l # Host /\ f.slots[c.slot].token = c.token /\ f.slots[c.slot].ready # None =>
              \/ /\ e.slots[c.slot].token = c.token
                 /\ e.slots[c.slot].ready = f.slots[c.slot].ready
              \/ ReportOK(c, f.slots[c.slot].ready.version, f.slots[c.slot].ready.result)

LEMMA TrueLater ==
    ASSUME NEW l, NEW c, NEW e \in Entries, NEW f \in Entries, GoesOn(l, c, e, f),
           NEW s \in Views, SnapTrue(e, s)
    PROVE  SnapTrue(f, s)
<1>1. e.configVersion \in Nat /\ f.configVersion \in Nat /\ s.version \in Nat
  BY ViewTypes DEF Entries
<1> QED BY <1>1 DEF GoesOn, SnapTrue

LEMMA OthersSound ==
    ASSUME NEW l \in Launchers, NEW c, NEW e \in Entries, NEW f \in Entries, NEW a, NEW b,
           Sound(l, c, e, a), GoesOn(l, c, e, f), PushOK(l, c, f, b)
    PROVE  Sound(l, c, f, b)
<1>1. c \in Sessions /\ SlotOK(l, c, e) /\ SeenOK(c, e) /\ (l # Host => PlayerOK(c, e))
  BY DEF Sound
<1>2. SlotOK(l, c, f)
  BY <1>1 DEF SlotOK, GoesOn
<1>3. SeenOK(c, f)
  <2>1. c.snapshot # None => SnapTrue(f, c.snapshot)
    BY <1>1, TrueLater, SessionTypes DEF SeenOK
  <2> QED BY <1>1, <2>1 DEF SeenOK, GoesOn
<1>4. ASSUME l # Host PROVE PlayerOK(c, f)
  <2>1. c.launched # None => f.config = e.config
    BY <1>1 DEF SeenOK, GoesOn
  <2> QED BY <1>1, <1>4, <2>1 DEF PlayerOK, GoesOn
<1> QED BY <1>1, <1>2, <1>3, <1>4 DEF Sound

(* A call is taken from the queue. *)
LEMMA TakenSound ==
    ASSUME NEW l \in Launchers, NEW c, NEW e, NEW a, NEW b, Sound(l, c, e, a), c.calls # <<>>,
           PushOK(l, [c EXCEPT !.calls = Tail(c.calls)], e, b)
    PROVE  LET d == [c EXCEPT !.calls = Tail(c.calls)]
           IN  /\ Sound(l, d, e, b)
               /\ \A field \in DOMAIN c \ {"calls"} : d[field] = c[field]
<1> DEFINE d == [c EXCEPT !.calls = Tail(c.calls)]
<1>1. /\ c \in Sessions /\ c.calls \in Seq(Calls)
      /\ SlotOK(l, c, e) /\ SeenOK(c, e) /\ (l # Host => PlayerOK(c, e))
  BY SessionTypes DEF Sound
<1>2. /\ Tail(c.calls) \in Seq(Calls)
      /\ \A n \in DOMAIN Tail(c.calls) : n + 1 \in DOMAIN c.calls /\ Tail(c.calls)[n] = c.calls[n + 1]
  BY <1>1, Dequeued
<1>3. /\ d \in Sessions /\ d.calls = Tail(c.calls)
      /\ \A field \in DOMAIN c \ {"calls"} : d[field] = c[field]
  BY <1>1, <1>2 DEF Sessions
<1>4. PushOK(l, d, e, b)
  OBVIOUS
<1> HIDE DEF d
<1>5. /\ d.local = c.local /\ d.lacks = c.lacks /\ d.slot = c.slot /\ d.token = c.token
      /\ d.snapshot = c.snapshot /\ d.ended = c.ended /\ d.launched = c.launched /\ d.applied = c.applied
      /\ d.restoreScheduled = c.restoreScheduled
  BY <1>1, <1>3 DEF Sessions
<1>6. SlotOK(l, d, e) /\ SeenOK(d, e)
  BY <1>1, <1>2, <1>3, <1>5 DEF SlotOK, SeenOK
<1>7. ASSUME l # Host PROVE PlayerOK(d, e)
  <2>1. PlayerOK(c, e)
    BY <1>1, <1>7
  <2>2. Followed(d)
    BY <1>5, <2>1 DEF PlayerOK, Followed, Before, State, Resolved
  <2>3. \A v, r : ReportOK(c, v, r) => ReportOK(d, v, r)
    BY <1>5 DEF ReportOK
  <2>4. \A n \in DOMAIN d.calls : d.calls[n].what = "report" => ReportOK(d, d.calls[n].version, d.calls[n].result)
    BY <1>2, <1>3, <2>1, <2>3 DEF PlayerOK
  <2> QED BY <1>5, <2>1, <2>2, <2>3, <2>4 DEF PlayerOK
<1> QED BY <1>3, <1>4, <1>6, <1>7 DEF Sound, d
-----------------------------------------------------------------------------
(* The lobby's side of the calls *)
LEMMA SettledValues ==
    ASSUME NEW e \in Entries
    PROVE  /\ Settled(e) \in Entries /\ Settled(e).slots = e.slots /\ Settled(e).config = e.config
           /\ Settled(e).configVersion = e.configVersion /\ Settled(e).running = e.running
           /\ Settled(e).ended = e.ended
           /\ Changed(e) \in Entries /\ Settled(Changed(e)) = Settled(e)
<1> DEFINE g == Changed(e)
           f == Settled(e)
<1>1. /\ g \in Entries /\ g.slots = e.slots /\ g.config = e.config /\ g.configVersion = e.configVersion
      /\ g.running = e.running /\ g.ended = e.ended
  <2> DEFINE revision == e.revision + 1
             changed == e.changed + 1
  <2>1. g = [e EXCEPT !.revision = revision, !.changed = changed] /\ revision \in Nat /\ changed \in Nat
    BY DEF Changed, Entries
  <2> HIDE DEF g, revision, changed
  <2> QED BY <2>1 DEF Entries
<1>2. /\ f \in Entries /\ f.slots = e.slots /\ f.config = e.config /\ f.configVersion = e.configVersion
      /\ f.running = e.running /\ f.ended = e.ended
  BY DEF Settled, Entries
<1>3. Settled(Changed(e)) = Settled(e)
  <2>1. /\ e.revision \in Nat /\ e.changed \in Nat
        /\ DOMAIN e = {"slots", "config", "configVersion", "running", "ended", "revision", "changed"}
    BY DEF Entries
  <2> HIDE DEF g
  <2>2. /\ DOMAIN g = DOMAIN e
        /\ \A field \in DOMAIN e \ {"revision", "changed"} : g[field] = e[field]
    BY <2>1 DEF Changed, g
  <2> QED BY <2>1, <2>2 DEF Settled, g
<1> QED BY <1>1, <1>2, <1>3

LEMMA ReadySame ==
    ASSUME NEW e, NEW f, f.slots = e.slots, f.config = e.config, f.configVersion = e.configVersion
    PROVE  \A s \in Slots : SlotStatus(f, s) = SlotStatus(e, s)
  BY DEF SlotStatus, Claimed, Reported

LEMMA JoinEntry ==
    ASSUME NEW e, EntryOK(e), NEW s \in Slots, NEW t \in Nat, CanJoin(e, s)
    PROVE  LET f == Settled(JoinSession(e, s, t))
           IN  /\ EntryOK(f) /\ f.slots[s] = Taken(t) /\ \A r \in Slots \ {s} : f.slots[r] = e.slots[r]
               /\ f.config = e.config /\ f.configVersion = e.configVersion
               /\ f.running = e.running /\ f.ended = e.ended
<1> DEFINE g == [e EXCEPT !.slots[s] = Taken(t)]
<1>1. /\ g \in Entries /\ g.config = e.config /\ g.configVersion = e.configVersion /\ g.running = e.running
      /\ g.ended = e.ended /\ g.slots[s] = Taken(t) /\ \A r \in Slots \ {s} : g.slots[r] = e.slots[r]
  BY DEF EntryOK, Entries, SlotRecords, Taken
<1> HIDE DEF g
<1>2. Settled(JoinSession(e, s, t)) = Settled(g)
  BY <1>1, SettledValues DEF JoinSession, g
<1>3. ~e.running
  BY DEF CanJoin
<1>4. Claimed(Settled(g), 0)
  BY <1>1, SettledValues, Constants DEF EntryOK, Claimed, Taken
<1> QED BY <1>1, <1>2, <1>3, <1>4, SettledValues DEF EntryOK

LEMMA PushEntry ==
    ASSUME NEW e, EntryOK(e), NEW doc \in Docs, CanSetConfig(e, HostToken)
    PROVE  LET f == Settled(SetConfig(e, doc))
           IN  /\ EntryOK(f) /\ f.config = doc /\ f.configVersion = e.configVersion + 1
               /\ \A r \in Slots : f.slots[r].token = e.slots[r].token /\ f.slots[r].ready = None
               /\ ~e.running /\ f.running = e.running /\ f.ended = e.ended
<1> DEFINE g == [e EXCEPT !.config = doc, !.configVersion = e.configVersion + 1,
                          !.slots = [s \in Slots |-> [e.slots[s] EXCEPT !.ready = None]]]
           slots == [s \in Slots |-> [e.slots[s] EXCEPT !.ready = None]]
           version == e.configVersion + 1
<1>0. /\ e \in Entries /\ version \in Nat /\ slots \in [Slots -> SlotRecords]
      /\ \A r \in Slots : slots[r].token = e.slots[r].token /\ slots[r].ready = None
  BY DEF EntryOK, Entries, SlotRecords
<1>1. /\ g \in Entries /\ g.config = doc /\ g.configVersion = e.configVersion + 1 /\ g.running = e.running
      /\ g.ended = e.ended /\ \A r \in Slots : g.slots[r].token = e.slots[r].token /\ g.slots[r].ready = None
  <2>1. g = [e EXCEPT !.config = doc, !.configVersion = version, !.slots = slots]
    OBVIOUS
  <2> HIDE DEF g, slots, version
  <2>2. /\ g \in Entries /\ g.config = doc /\ g.configVersion = version /\ g.running = e.running
        /\ g.ended = e.ended /\ g.slots = slots
    BY <1>0, <2>1 DEF Entries
  <2> QED BY <1>0, <2>2 DEF version
<1>2. SetConfig(e, doc) = Changed(g)
  BY DEF SetConfig, EntryOK, Entries
<1> HIDE DEF g
<1>3. Settled(SetConfig(e, doc)) = Settled(g)
  BY <1>1, <1>2, SettledValues
<1>4. ~e.running /\ e.configVersion \in Nat /\ doc # None
  BY Constants DEF CanSetConfig, EntryOK, Entries
<1>5. Claimed(Settled(g), 0)
  BY <1>1, SettledValues, Constants DEF EntryOK, Claimed
<1> QED BY <1>1, <1>3, <1>4, <1>5, SettledValues DEF EntryOK

LEMMA ReportEntry ==
    ASSUME NEW e, EntryOK(e), NEW s \in Slots, NEW t, NEW v, NEW result \in Results, CanReport(e, s, t, v)
    PROVE  LET f == Settled(ReportReady(e, s, result))
           IN  /\ EntryOK(f) /\ f.config = e.config /\ f.configVersion = e.configVersion
               /\ \A r \in Slots : f.slots[r].token = e.slots[r].token
               /\ \A r \in Slots \ {s} : f.slots[r] = e.slots[r]
               /\ f.slots[s].ready = [version |-> e.configVersion, result |-> result]
               /\ f.running = e.running /\ f.ended = e.ended
<1> DEFINE g == [e EXCEPT !.slots[s].ready = [version |-> e.configVersion, result |-> result]]
<1>1. /\ g \in Entries /\ g.config = e.config /\ g.configVersion = e.configVersion /\ g.running = e.running
      /\ g.ended = e.ended /\ \A r \in Slots : g.slots[r].token = e.slots[r].token
      /\ \A r \in Slots \ {s} : g.slots[r] = e.slots[r]
      /\ g.slots[s].ready = [version |-> e.configVersion, result |-> result]
  BY DEF EntryOK, Entries, SlotRecords, Reports
<1>2. ReportReady(e, s, result) = Changed(g)
  BY DEF ReportReady
<1> HIDE DEF g
<1>3. Settled(ReportReady(e, s, result)) = Settled(g)
  BY <1>1, <1>2, SettledValues
<1>4. ~e.running
  BY DEF CanReport
<1>5. Claimed(Settled(g), 0)
  BY <1>1, SettledValues, Constants DEF EntryOK, Claimed
<1> QED BY <1>1, <1>3, <1>4, <1>5, SettledValues DEF EntryOK

LEMMA StartEntry ==
    ASSUME NEW e, EntryOK(e), CanStart(e, HostToken)
    PROVE  LET f == Settled(StartSession(e))
           IN  /\ EntryOK(f) /\ f.config = e.config /\ f.configVersion = e.configVersion
               /\ f.slots = e.slots /\ f.running = TRUE /\ f.ended = e.ended
<1> DEFINE g == [e EXCEPT !.running = TRUE]
<1>1. /\ g \in Entries /\ g.config = e.config /\ g.configVersion = e.configVersion /\ g.running = TRUE
      /\ g.ended = e.ended /\ g.slots = e.slots
  BY DEF EntryOK, Entries
<1>2. StartSession(e) = Changed(g)
  BY DEF StartSession
<1> HIDE DEF g
<1>3. Settled(StartSession(e)) = Settled(g)
  BY <1>1, <1>2, SettledValues
<1>4. e.config # None /\ AllReady(e)
  BY DEF CanStart, StateOf
<1>5. AllReady(Settled(g))
  <2>1. /\ Settled(g).slots = e.slots /\ Settled(g).config = e.config
        /\ Settled(g).configVersion = e.configVersion
    BY <1>1, SettledValues
  <2> QED BY <1>4, <2>1, ReadySame DEF AllReady
<1>6. Claimed(Settled(g), 0)
  BY <1>1, SettledValues DEF EntryOK, Claimed
<1> QED BY <1>1, <1>3, <1>4, <1>5, <1>6, SettledValues DEF EntryOK

LEMMA LeaveEntry ==
    ASSUME NEW e, EntryOK(e), NEW s \in Slots, NEW t, CanLeave(e, s, t)
    PROVE  LET f == Settled(LeaveSession(e, s))
           IN  /\ EntryOK(f) /\ f.config = e.config /\ f.configVersion = e.configVersion
               /\ \A r \in Slots \ {s} : f.slots[r] = e.slots[r]
               /\ f.slots[s].ready = None
               /\ f.running = e.running /\ f.ended = e.ended
<1> DEFINE g == [e EXCEPT !.slots[s] = Free]
<1>1. /\ g \in Entries /\ g.config = e.config /\ g.configVersion = e.configVersion /\ g.running = e.running
      /\ g.ended = e.ended /\ g.slots[s].ready = None
      /\ \A r \in Slots \ {s} : g.slots[r] = e.slots[r]
  BY DEF EntryOK, Entries, SlotRecords, Free
<1>2. LeaveSession(e, s) = Changed(g)
  BY DEF LeaveSession
<1> HIDE DEF g
<1>3. Settled(LeaveSession(e, s)) = Settled(g)
  BY <1>1, <1>2, SettledValues
<1>4. ~e.running
  BY DEF CanLeave
<1>5. Claimed(Settled(g), 0)
  BY <1>1, SettledValues, Constants DEF EntryOK, Claimed, CanLeave
<1> QED BY <1>1, <1>3, <1>4, <1>5, SettledValues DEF EntryOK

LEMMA SameEntry ==
    ASSUME NEW e, EntryOK(e), NEW g \in {e, Remove(e)}
    PROVE  LET f == Settled(g)
           IN  /\ EntryOK(f) /\ f.config = e.config /\ f.configVersion = e.configVersion
               /\ f.slots = e.slots /\ f.running = e.running /\ (e.ended => f.ended)
<1> DEFINE f == Settled(g)
           h == [e EXCEPT !.ended = TRUE]
<1>1. e \in Entries /\ h \in Entries /\ h.config = e.config /\ h.configVersion = e.configVersion
      /\ h.slots = e.slots /\ h.running = e.running /\ h.ended = TRUE
  BY DEF EntryOK, Entries
<1>2. Remove(e) = Changed(h)
  BY DEF Remove
<1> HIDE DEF h
<1>3. f \in Entries /\ f.config = e.config /\ f.configVersion = e.configVersion
      /\ f.slots = e.slots /\ f.running = e.running /\ (e.ended => f.ended)
  BY <1>1, <1>2, SettledValues
<1> HIDE DEF f
<1>4. AllReady(e) => AllReady(f)
  BY <1>3, ReadySame DEF AllReady
<1>5. Claimed(f, 0)
  BY <1>3 DEF EntryOK, Claimed
<1> QED BY <1>3, <1>4, <1>5 DEF EntryOK, f

LEMMA JoinedCount ==
    /\ IsFiniteSet({k \in Launchers : Joined(k)})
    /\ Cardinality({k \in Launchers : Joined(k)}) \in Nat
<1>1. {k \in Launchers : Joined(k)} \subseteq Launchers
  OBVIOUS
<1>2. IsFiniteSet({k \in Launchers : Joined(k)})
  BY <1>1, Constants, FS_Subset
<1> QED BY <1>2, FS_CardinalityType

(***************************************************************************)
(* A call that is granted does to the entry what every session, its own    *)
(* included, can go on with.                                               *)
(***************************************************************************)
LEMMA CallGoesOn ==
    ASSUME IInv, NEW k \in Launchers, session[k].calls # <<>>,
           Granted(session[k], Head(session[k].calls))
    PROVE  LET call == Head(session[k].calls)
               f == Settled(Effect(session[k], call))
           IN  /\ EntryOK(f)
               /\ \A l \in Launchers : GoesOn(l, session[l], entry, f)
               /\ call.what = "push" => k = Host /\ f.config = call.doc
               /\ call.what # "push" => f.config = entry.config
<1> DEFINE c == session[k]
           call == Head(c.calls)
           f == Settled(Effect(c, call))
<1> SUFFICES /\ EntryOK(f)
             /\ \A l \in Launchers : GoesOn(l, session[l], entry, f)
             /\ call.what = "push" => k = Host /\ f.config = call.doc
             /\ call.what # "push" => f.config = entry.config
  OBVIOUS
<1>1. /\ c \in Sessions /\ c.calls \in Seq(Calls) /\ EntryOK(entry) /\ entry \in Entries
      /\ SlotOK(k, c, entry) /\ PushOK(k, c, entry, pushed[k]) /\ (k # Host => PlayerOK(c, entry))
  BY SessionTypes DEF IInv, LauncherOK, Sound, EntryOK
<1>2. call \in Calls /\ call = c.calls[1] /\ 1 \in DOMAIN c.calls
  BY <1>1, Dequeued
<1>3. ASSUME NEW l \in Launchers
      PROVE  /\ session[l] \in Sessions /\ session[l].slot \in Slots \cup {None}
             /\ SlotOK(l, session[l], entry)
             /\ l # k /\ c.token # None => session[l].token # c.token
  BY SessionTypes DEF IInv, LauncherOK, Sound, Tokens
<1>4. entry.configVersion \in Nat
  BY <1>1 DEF Entries
<1>5. CASE call.what = "push"
  <2>1. k = Host /\ call.doc \in Docs
    BY <1>1, <1>2, <1>5 DEF PushOK, Calls
  <2>2. CanSetConfig(entry, HostToken) /\ f = Settled(SetConfig(entry, call.doc))
    BY <1>5 DEF Granted, Effect
  <2> HIDE DEF f, call
  <2>3. /\ EntryOK(f) /\ f.config = call.doc /\ f.configVersion = entry.configVersion + 1
        /\ \A r \in Slots : f.slots[r].token = entry.slots[r].token /\ f.slots[r].ready = None
        /\ ~entry.running /\ f.ended = entry.ended
    BY <1>1, <2>1, <2>2, PushEntry
  <2>4. \A l \in Launchers : GoesOn(l, session[l], entry, f)
    BY <1>3, <1>4, <2>3 DEF GoesOn
  <2> QED BY <1>5, <2>1, <2>3, <2>4
<1>6. CASE call.what = "report"
  <2>1. call.version \in Nat /\ call.result \in Results
    BY <1>2, <1>6 DEF Calls
  <2>2. CanReport(entry, c.slot, c.token, call.version) /\ f = Settled(ReportReady(entry, c.slot, call.result))
    BY <1>6 DEF Granted, Effect
  <2> HIDE DEF f, call, c
  <2>3. /\ c.token = entry.slots[c.slot].token /\ c.token # None /\ call.version = entry.configVersion
        /\ c.slot \in Slots
    BY <1>1, <1>3, <2>2, SessionTypes DEF CanReport, Claimed, SlotOK
  <2>4. /\ EntryOK(f) /\ f.config = entry.config /\ f.configVersion = entry.configVersion
        /\ \A r \in Slots : f.slots[r].token = entry.slots[r].token
        /\ \A r \in Slots \ {c.slot} : f.slots[r] = entry.slots[r]
        /\ f.slots[c.slot].ready = [version |-> entry.configVersion, result |-> call.result]
        /\ f.running = entry.running /\ f.ended = entry.ended
    BY <1>1, <2>1, <2>2, <2>3, ReportEntry
  <2>5. k # Host => ReportOK(c, call.version, call.result)
    BY <1>1, <1>2, <1>6 DEF PlayerOK
  <2>6. GoesOn(k, c, entry, f)
    BY <1>4, <2>3, <2>4, <2>5 DEF GoesOn
  <2>7. ASSUME NEW l \in Launchers \ {k} PROVE GoesOn(l, session[l], entry, f)
    <3>1. session[l].token # c.token /\ session[l].slot \in Slots \cup {None}
      BY <1>3, <2>3
    <3>2. CASE session[l].slot = c.slot
      BY <1>4, <2>3, <2>4, <3>1, <3>2 DEF GoesOn
    <3>3. CASE session[l].slot # c.slot
      BY <1>4, <2>4, <3>1, <3>3 DEF GoesOn
    <3> QED BY <3>2, <3>3
  <2> QED BY <1>6, <2>4, <2>6, <2>7 DEF c
<1>7. CASE call.what = "start"
  <2>1. CanStart(entry, HostToken) /\ f = Settled(StartSession(entry))
    BY <1>7 DEF Granted, Effect
  <2> HIDE DEF f, call
  <2>2. /\ EntryOK(f) /\ f.config = entry.config /\ f.configVersion = entry.configVersion
        /\ f.slots = entry.slots /\ f.running = TRUE /\ f.ended = entry.ended
    BY <1>1, <2>1, StartEntry
  <2>3. \A l \in Launchers : GoesOn(l, session[l], entry, f)
    BY <1>4, <2>2 DEF GoesOn
  <2> QED BY <1>7, <2>2, <2>3
<1>8. CASE call.what = "leave"
  <2>1. CanLeave(entry, c.slot, c.token) /\ f = Settled(LeaveSession(entry, c.slot))
    BY <1>8 DEF Granted, Effect
  <2>2. c.ended
    BY <1>1, <1>2, <1>8 DEF SlotOK
  <2> HIDE DEF f, call, c
  <2>3. c.token # None
    BY <1>1, <2>1, Constants DEF CanLeave, Claimed, HostToken, SlotOK
  <2>4. c.token = entry.slots[c.slot].token /\ c.slot \in Slots
    <3>1. c.token # HostToken
      BY <2>3, JoinedCount DEF IInv, Tokens, HostToken, c
    <3> QED BY <1>1, <2>1, <2>3, <3>1, SessionTypes DEF CanLeave, SlotOK
  <2>5. /\ EntryOK(f) /\ f.config = entry.config /\ f.configVersion = entry.configVersion
        /\ \A r \in Slots \ {c.slot} : f.slots[r] = entry.slots[r]
        /\ f.slots[c.slot].ready = None
        /\ f.running = entry.running /\ f.ended = entry.ended
    BY <1>1, <2>1, <2>4, LeaveEntry
  <2>6. GoesOn(k, c, entry, f)
    BY <1>4, <2>2, <2>5 DEF GoesOn
  <2>7. ASSUME NEW l \in Launchers \ {k} PROVE GoesOn(l, session[l], entry, f)
    <3>1. session[l].token # c.token /\ session[l].slot \in Slots \cup {None} /\ SlotOK(l, session[l], entry)
      BY <1>3, <2>3
    <3>2. CASE session[l].slot = c.slot
      <4>1. session[l].ended
        BY <2>3, <2>4, <3>1, <3>2, Constants DEF SlotOK
      <4> QED BY <1>4, <2>5, <3>2, <4>1 DEF GoesOn
    <3>3. CASE session[l].slot # c.slot
      BY <1>4, <2>5, <3>1, <3>3 DEF GoesOn
    <3> QED BY <3>2, <3>3
  <2> QED BY <1>8, <2>5, <2>6, <2>7 DEF c
<1>9. CASE call.what = "end"
  <2>1. \E g \in {entry, Remove(entry)} : f = Settled(g)
    <3>1. Effect(c, call) = IF entry.running THEN entry ELSE Remove(entry)
      BY <1>9 DEF Effect
    <3> QED BY <3>1
  <2> HIDE DEF f, call
  <2>2. /\ EntryOK(f) /\ f.config = entry.config /\ f.configVersion = entry.configVersion
        /\ f.slots = entry.slots /\ f.running = entry.running /\ (entry.ended => f.ended)
    BY <1>1, <2>1, SameEntry
  <2>3. \A l \in Launchers : GoesOn(l, session[l], entry, f)
    BY <1>4, <2>2 DEF GoesOn
  <2> QED BY <1>9, <2>2, <2>3
<1>10. call.what \in {"push", "report", "start", "leave", "end"}
  BY <1>2 DEF Calls
<1> QED BY <1>5, <1>6, <1>7, <1>8, <1>9, <1>10
-----------------------------------------------------------------------------
(* Steps *)
LEMMA TokensKept ==
    ASSUME IInv, \A k \in Launchers : session'[k].slot = session[k].slot /\ session'[k].token = session[k].token
    PROVE  Tokens'
<1>1. {k \in Launchers : Joined(k)}' = {k \in Launchers : Joined(k)}
  BY DEF Joined
<1> QED BY <1>1 DEF IInv, Tokens

(* A step that changes one session and what is on its way there, if anything *)
LEMMA OneSession ==
    ASSUME IInv, NEW l \in Launchers, session' = [session EXCEPT ![l] = session'[l]], entry' = entry,
           news' \subseteq Launchers, acts' \in 0..ActLimit, failures' \in 0..FailLimit,
           pushed' = [pushed EXCEPT ![l] = pushed'[l]], pushed'[l] \in {pushed[l], None},
           polled' = [polled EXCEPT ![l] = polled'[l]], polled'[l] \in {polled[l], None},
           Sound(l, session'[l], entry, pushed'[l]), l # Host => Applied(session'[l]),
           session'[l].slot = session[l].slot, session'[l].token = session[l].token,
           polled'[l] # None => After(session'[l], polled[l])
    PROVE  IInv'
<1>1. /\ entry \in Entries /\ session \in [Launchers -> Sessions]
      /\ polled \in [Launchers -> Views \cup {None}] /\ pushed \in [Launchers -> Answers \cup {None}]
      /\ EntryOK(entry)
  BY DEF IInv, TypeOK
<1>2. TypeOK'
  BY <1>1 DEF TypeOK, Sound
<1>3. Tokens'
  BY <1>1, TokensKept
<1>4. ASSUME NEW k \in Launchers PROVE LauncherOK(k)'
  <2>1. LauncherOK(k)
    BY DEF IInv
  <2>2. CASE k = l
    BY <2>1, <2>2 DEF LauncherOK, Joined
  <2>3. CASE k # l
    <3>1. session'[k] = session[k] /\ polled'[k] = polled[k] /\ pushed'[k] = pushed[k]
      BY <1>1, <2>3
    <3> QED BY <2>1, <3>1 DEF LauncherOK, Joined
  <2> QED BY <2>2, <2>3
<1> QED BY <1>1, <1>2, <1>3, <1>4 DEF IInv

(* And one that leaves the snapshot the session has as it is *)
LEMMA SameSnapshot ==
    ASSUME IInv, NEW l \in Launchers, NEW d, session' = [session EXCEPT ![l] = d],
           UNCHANGED <<entry, news, polled, pushed, failures>>, acts' \in 0..ActLimit,
           Sound(l, d, entry, pushed[l]), l # Host /\ Applied(session[l]) => Applied(d),
           d.slot = session[l].slot, d.token = session[l].token, d.snapshot = session[l].snapshot
    PROVE  IInv'
<1>1. /\ session \in [Launchers -> Sessions] /\ news \subseteq Launchers /\ failures \in 0..FailLimit
      /\ polled \in [Launchers -> Views \cup {None}] /\ pushed \in [Launchers -> Answers \cup {None}]
      /\ LauncherOK(l)
  BY DEF IInv, TypeOK
<1>2. /\ session'[l] = d /\ session' = [session EXCEPT ![l] = session'[l]]
      /\ pushed' = [pushed EXCEPT ![l] = pushed'[l]] /\ polled' = [polled EXCEPT ![l] = polled'[l]]
  BY <1>1
<1>3. polled[l] # None => After(d, polled[l])
  BY <1>1 DEF LauncherOK, After
<1>4. l # Host => Applied(d)
  BY <1>1 DEF LauncherOK
<1> QED BY <1>1, <1>2, <1>3, <1>4, OneSession

(* What the invariant says of one launcher *)
LEMMA OneLauncher ==
    ASSUME IInv, NEW l \in Launchers
    PROVE  /\ session[l] \in Sessions /\ entry \in Entries /\ EntryOK(entry)
           /\ Sound(l, session[l], entry, pushed[l])
           /\ l # Host => Applied(session[l])
           /\ polled[l] \in Views \cup {None} /\ pushed[l] \in Answers \cup {None}
           /\ polled[l] # None => Joined(l) /\ SnapTrue(entry, polled[l]) /\ After(session[l], polled[l])
           /\ acts \in 0..ActLimit /\ failures \in 0..FailLimit /\ news \subseteq Launchers
  BY DEF IInv, TypeOK, LauncherOK

LEMMA UserActs ==
    ASSUME IInv, NEW l, User(l)
    PROVE  acts' \in 0..ActLimit /\ ~session[l].ended /\ UNCHANGED <<entry, news, polled, pushed, failures>>
  BY NetplayAssumption DEF IInv, TypeOK, User

LEMMA EditStep ==
    ASSUME IInv, NEW l \in Launchers, NEW part \in {"hash", "rest"}, NEW value, Edit(l, part, value),
           part = "hash" => value \in Hashes, part = "rest" => value \in Rests
    PROVE  IInv'
<1> DEFINE c == session[l]
           d == ConfigChanged([c EXCEPT !.local[part] = value], part)
<1>1. session' = [session EXCEPT ![l] = d] /\ c.local[part] # value
  BY DEF Edit
<1>2. acts' \in 0..ActLimit /\ ~c.ended /\ UNCHANGED <<entry, news, polled, pushed, failures>>
  BY UserActs DEF Edit
<1>3. Sound(l, c, entry, pushed[l]) /\ entry \in Entries
  BY OneLauncher
<1> HIDE DEF c
<1>4. /\ Sound(l, d, entry, pushed[l]) /\ (l # Host /\ Applied(c) => Applied(d))
      /\ d.slot = c.slot /\ d.token = c.token /\ d.snapshot = c.snapshot
  BY <1>1, <1>2, <1>3, EditSound
<1> HIDE DEF d
<1> QED BY <1>1, <1>2, <1>4, SameSnapshot DEF c

LEMMA PressRecheckStep ==
    ASSUME IInv, NEW l \in Launchers, NEW added \in BOOLEAN, PressRecheck(l, added)
    PROVE  IInv'
<1> DEFINE c == session[l]
           x == IF added THEN [c EXCEPT !.lacks = {}] ELSE c
           d == Recheck(x)
<1>1. session' = [session EXCEPT ![l] = d]
  BY DEF PressRecheck
<1>2. acts' \in 0..ActLimit /\ UNCHANGED <<entry, news, polled, pushed, failures>>
  BY UserActs DEF PressRecheck
<1>3. Sound(l, c, entry, pushed[l]) /\ EntryOK(entry) /\ c \in Sessions
  BY OneLauncher
<1> HIDE DEF c
<1>4. /\ x \in Sessions /\ \A field \in DOMAIN c \ {"lacks", "restoreScheduled"} : x[field] = c[field]
      /\ x.lacks \subseteq c.lacks /\ (x.restoreScheduled => c.restoreScheduled)
  BY <1>3 DEF Sessions
<1> HIDE DEF x
<1>5. /\ Sound(l, d, entry, pushed[l]) /\ (l # Host /\ Applied(c) => Applied(d))
      /\ d.slot = c.slot /\ d.token = c.token /\ d.snapshot = c.snapshot
  BY <1>3, <1>4, RecheckSound
<1> HIDE DEF d
<1> QED BY <1>1, <1>2, <1>5, SameSnapshot DEF c

LEMMA PressStartStep ==
    ASSUME IInv, PressStart
    PROVE  IInv'
<1> DEFINE c == session[Host]
           d == StartGame(c)
<1>1. session' = [session EXCEPT ![Host] = d] /\ UNCHANGED <<entry, news, polled, pushed, acts, failures>>
  BY DEF PressStart
<1>2. Sound(Host, c, entry, pushed[Host]) /\ acts \in 0..ActLimit /\ Host \in Launchers
  BY OneLauncher, Constants
<1> HIDE DEF c
<1>3. Sound(Host, d, entry, pushed[Host]) /\ d.slot = c.slot /\ d.token = c.token /\ d.snapshot = c.snapshot
  BY <1>2, StartSound
<1> HIDE DEF d
<1> QED BY <1>1, <1>2, <1>3, SameSnapshot DEF c

LEMMA PressLeaveStep ==
    ASSUME IInv, NEW l \in Launchers, PressLeave(l)
    PROVE  IInv'
<1> DEFINE c == session[l]
           d == LeaveGame(c)
<1>1. session' = [session EXCEPT ![l] = d]
  BY DEF PressLeave
<1>2. acts' \in 0..ActLimit /\ ~c.ended /\ UNCHANGED <<entry, news, polled, pushed, failures>>
  BY UserActs DEF PressLeave
<1>3. Sound(l, c, entry, pushed[l]) /\ entry \in Entries
  BY OneLauncher
<1> HIDE DEF c
<1>4. /\ Sound(l, d, entry, pushed[l]) /\ Applied(d)
      /\ d.slot = c.slot /\ d.token = c.token /\ d.snapshot = c.snapshot
  BY <1>2, <1>3, LeaveSound
<1> HIDE DEF d
<1> QED BY <1>1, <1>2, <1>4, SameSnapshot DEF c

LEMMA TimerStep ==
    ASSUME IInv, NEW l \in Launchers, Timer(l)
    PROVE  IInv'
<1> DEFINE c == session[l]
<1>1. /\ Sound(l, c, entry, pushed[l]) /\ EntryOK(entry) /\ entry \in Entries /\ acts \in 0..ActLimit
  BY OneLauncher
<1>2. CASE PushTimer(l)
  <2> DEFINE d == PushDue(c)
  <2>1. /\ session' = [session EXCEPT ![l] = d] /\ UNCHANGED <<entry, news, polled, pushed, acts, failures>>
        /\ c.pushScheduled
    BY <1>2 DEF PushTimer
  <2> HIDE DEF c
  <2>2. /\ l = Host /\ Sound(l, d, entry, pushed[l])
        /\ d.slot = c.slot /\ d.token = c.token /\ d.snapshot = c.snapshot
    BY <1>1, <2>1, PushDueSound
  <2> HIDE DEF d
  <2> QED BY <1>1, <2>1, <2>2, SameSnapshot DEF c
<1>3. CASE RestoreTimer(l)
  <2> DEFINE d == RestoreDue(c)
  <2>1. session' = [session EXCEPT ![l] = d] /\ UNCHANGED <<entry, news, polled, pushed, acts, failures>>
    BY <1>3 DEF RestoreTimer
  <2> HIDE DEF c
  <2>2. /\ Sound(l, d, entry, pushed[l]) /\ (l # Host /\ Applied(c) => Applied(d))
        /\ d.slot = c.slot /\ d.token = c.token /\ d.snapshot = c.snapshot
    BY <1>1, RestoreSound
  <2> HIDE DEF d
  <2> QED BY <1>1, <2>1, <2>2, SameSnapshot DEF c
<1> QED BY <1>2, <1>3 DEF Timer

LEMMA PostedStep ==
    ASSUME IInv, NEW l \in Launchers, Posted(l)
    PROVE  IInv'
<1> DEFINE c == session[l]
<1>1. /\ Sound(l, c, entry, pushed[l]) /\ EntryOK(entry) /\ acts \in 0..ActLimit /\ failures \in 0..FailLimit
      /\ news \subseteq Launchers /\ (l # Host => Applied(c))
      /\ polled[l] \in Views \cup {None} /\ pushed[l] \in Answers \cup {None}
      /\ polled[l] # None => Joined(l) /\ SnapTrue(entry, polled[l]) /\ After(c, polled[l])
  BY OneLauncher
<1>2. /\ session \in [Launchers -> Sessions]
      /\ polled \in [Launchers -> Views \cup {None}] /\ pushed \in [Launchers -> Answers \cup {None}]
  BY DEF IInv, TypeOK
<1>3. CASE SeeSnapshot(l)
  <2> DEFINE s == polled[l]
             d == Handle(c, s)
  <2>1. /\ session' = [session EXCEPT ![l] = d] /\ UNCHANGED <<entry, news, pushed, acts, failures>>
        /\ polled' = [polled EXCEPT ![l] = None] /\ s # None
    BY <1>3 DEF SeeSnapshot
  <2>2. s \in Views /\ c.slot # None /\ SnapTrue(entry, s) /\ After(c, s)
    BY <1>1, <2>1 DEF Joined
  <2>3. session'[l] = d /\ session' = [session EXCEPT ![l] = session'[l]]
        /\ polled'[l] = None /\ polled' = [polled EXCEPT ![l] = polled'[l]]
        /\ pushed' = [pushed EXCEPT ![l] = pushed'[l]] /\ pushed'[l] = pushed[l]
    BY <1>2, <2>1
  <2> HIDE DEF s, c
  <2>4. /\ Sound(l, d, entry, pushed[l]) /\ (l # Host => Applied(d))
        /\ d.slot = c.slot /\ d.token = c.token
    BY <1>1, <2>1, <2>2, HandleSound
  <2> HIDE DEF d
  <2> QED BY <1>1, <2>1, <2>3, <2>4, OneSession DEF c
<1>4. CASE SeePushed(l)
  <2> DEFINE a == pushed[l]
             d == Pushed(c, a)
  <2>1. /\ session' = [session EXCEPT ![l] = d] /\ UNCHANGED <<entry, news, polled, acts, failures>>
        /\ pushed' = [pushed EXCEPT ![l] = None] /\ a # None
    BY <1>4 DEF SeePushed
  <2>2. session'[l] = d /\ session' = [session EXCEPT ![l] = session'[l]]
        /\ polled' = [polled EXCEPT ![l] = polled'[l]] /\ polled'[l] = polled[l]
        /\ pushed'[l] = None /\ pushed' = [pushed EXCEPT ![l] = pushed'[l]]
    BY <1>2, <2>1
  <2>3. a \in Answers
    BY <1>1, <2>1
  <2>4. Sound(l, c, entry, a)
    BY <1>1
  <2> HIDE DEF a, c
  <2>5. /\ l = Host /\ Sound(l, d, entry, None)
        /\ d.slot = c.slot /\ d.token = c.token /\ d.snapshot = c.snapshot
    BY <2>1, <2>3, <2>4, PushedSound
  <2> HIDE DEF d
  <2>6. polled[l] # None => After(d, polled[l])
    BY <1>1, <2>5 DEF After
  <2>7. /\ Sound(l, session'[l], entry, pushed'[l]) /\ (l # Host => Applied(session'[l]))
        /\ session'[l].slot = session[l].slot /\ session'[l].token = session[l].token
        /\ polled'[l] # None => After(session'[l], polled[l])
    BY <2>2, <2>5, <2>6 DEF c
  <2> QED BY <1>1, <2>1, <2>2, <2>7, OneSession
<1> QED BY <1>3, <1>4 DEF Posted

-----------------------------------------------------------------------------
(* Steps of the entry *)
LEMMA StaysOK ==
    ASSUME IInv, NEW l \in Launchers, entry' \in Entries, GoesOn(l, session[l], entry, entry'),
           l = Host => entry'.config = entry.config,
           session'[l] = session[l], pushed'[l] = pushed[l], polled'[l] = polled[l]
    PROVE  LauncherOK(l)'
<1> DEFINE c == session[l]
<1>1. /\ entry \in Entries /\ Sound(l, c, entry, pushed[l]) /\ (l # Host => Applied(c))
      /\ polled[l] \in Views \cup {None}
      /\ polled[l] # None => Joined(l) /\ SnapTrue(entry, polled[l]) /\ After(c, polled[l])
  BY OneLauncher
<1>2. PushOK(l, c, entry', pushed[l])
  BY <1>1 DEF Sound, PushOK
<1>3. Sound(l, c, entry', pushed[l])
  BY <1>1, <1>2, OthersSound
<1>4. polled[l] # None => SnapTrue(entry', polled[l])
  BY <1>1, TrueLater
<1> QED BY <1>1, <1>3, <1>4 DEF LauncherOK, Joined

LEMMA GameOverStep ==
    ASSUME IInv, GameOver
    PROVE  IInv'
<1>1. entry' = Settled(Remove(entry)) /\ news' \subseteq Launchers
      /\ UNCHANGED <<session, polled, pushed, acts, failures>>
  BY DEF GameOver, Becomes, IInv, TypeOK
<1>2. EntryOK(entry) /\ entry \in Entries
  BY DEF IInv, EntryOK
<1>3. /\ EntryOK(entry') /\ entry'.config = entry.config /\ entry'.configVersion = entry.configVersion
      /\ entry'.slots = entry.slots /\ entry'.running = entry.running /\ (entry.ended => entry'.ended)
  BY <1>1, <1>2, SameEntry
<1>4. entry.configVersion \in Nat /\ entry' \in Entries
  BY <1>2, <1>3 DEF Entries, EntryOK
<1>5. \A l \in Launchers : GoesOn(l, session[l], entry, entry')
  BY <1>3, <1>4 DEF GoesOn
<1>6. \A l \in Launchers : LauncherOK(l)'
  BY <1>1, <1>3, <1>4, <1>5, StaysOK
<1>7. Tokens'
  BY <1>1, TokensKept
<1>8. TypeOK'
  BY <1>1, <1>4 DEF IInv, TypeOK
<1>9. EntryOK(entry)'
  BY <1>3
<1> QED BY <1>6, <1>7, <1>8, <1>9 DEF IInv

LEMMA PollStep ==
    ASSUME IInv, NEW l \in Launchers, Poll(l)
    PROVE  IInv'
<1> DEFINE c == session[l]
           s == Shown(entry)
<1>1. /\ polled' = [polled EXCEPT ![l] = s] /\ news' \subseteq Launchers /\ Joined(l)
      /\ UNCHANGED <<entry, session, pushed, acts, failures>>
  BY DEF Poll, IInv, TypeOK
<1>2. entry \in Entries /\ EntryOK(entry) /\ Sound(l, c, entry, pushed[l]) /\ c \in Sessions
  BY OneLauncher
<1>3. /\ entry.configVersion \in Nat /\ entry.config \in Docs \cup {None}
      /\ entry.running \in BOOLEAN /\ entry.ended \in BOOLEAN
  BY <1>2 DEF Entries
<1>4. StateOf(entry) = IF entry.ended THEN "ended" ELSE IF entry.running THEN "running"
                       ELSE IF entry.config = None THEN "created" ELSE IF AllReady(entry) THEN "ready" ELSE "configuring"
  BY <1>3 DEF StateOf
<1>5. s \in Views /\ s.version = entry.configVersion /\ s.config = entry.config /\ s.state = StateOf(entry)
  BY <1>3, <1>4 DEF Shown, Views, PreStart
<1> HIDE DEF s
<1>6. SnapTrue(entry, s)
  BY <1>2, <1>3, <1>4, <1>5 DEF SnapTrue, EntryOK
<1>7. After(c, s)
  <2>1. SUFFICES ASSUME c.snapshot # None PROVE After(c, s)
    BY DEF After
  <2>2. SnapTrue(entry, c.snapshot) /\ c.snapshot \in Views
    BY <1>2, <2>1, SessionTypes DEF Sound, SeenOK
  <2>3. c.snapshot.state \notin PreStart => entry.running \/ entry.ended
    BY <2>2, ViewTypes DEF SnapTrue
  <2>4. entry.running \/ entry.ended => s.state \notin PreStart
    BY <1>4, <1>5 DEF PreStart
  <2> QED BY <1>5, <2>2, <2>3, <2>4 DEF SnapTrue, After
<1>8. TypeOK'
  BY <1>1, <1>5 DEF IInv, TypeOK
<1>9. Tokens'
  BY <1>1, TokensKept
<1>10. ASSUME NEW k \in Launchers PROVE LauncherOK(k)'
  <2>1. LauncherOK(k) /\ polled \in [Launchers -> Views \cup {None}]
    BY DEF IInv, TypeOK
  <2>2. CASE k = l
    BY <1>1, <1>6, <1>7, <2>1, <2>2 DEF LauncherOK, Joined
  <2>3. CASE k # l
    BY <1>1, <2>1, <2>3 DEF LauncherOK, Joined
  <2> QED BY <2>2, <2>3
<1> QED BY <1>1, <1>2, <1>8, <1>9, <1>10 DEF IInv

(* The worker takes a call, which the lobby may or may not have got. *)
LEMMA TakeStep ==
    ASSUME IInv, NEW k \in Launchers, NEW error \in BOOLEAN, Take(k, error),
           EntryOK(entry'), \A l \in Launchers : GoesOn(l, session[l], entry, entry'),
           news' \subseteq Launchers, failures' \in 0..FailLimit,
           Head(session[k].calls).what = "push" =>
               k = Host /\ (error \/ entry'.config = Head(session[k].calls).doc),
           Head(session[k].calls).what # "push" => entry'.config = entry.config
    PROVE  IInv'
<1> DEFINE c == session[k]
           call == Head(c.calls)
           d == [c EXCEPT !.calls = Tail(c.calls)]
           b == IF call.what = "push" THEN [error |-> error, version |-> entry'.configVersion] ELSE pushed[k]
<1>1. /\ c \in Sessions /\ entry \in Entries /\ Sound(k, c, entry, pushed[k]) /\ (k # Host => Applied(c))
      /\ polled[k] \in Views \cup {None}
      /\ polled[k] # None => Joined(k) /\ SnapTrue(entry, polled[k]) /\ After(c, polled[k])
  BY OneLauncher
<1>2. /\ c.calls # <<>> /\ session' = [session EXCEPT ![k] = d] /\ pushed' = [pushed EXCEPT ![k] = b]
      /\ UNCHANGED <<polled, acts>>
  BY DEF Take
<1>3. /\ session \in [Launchers -> Sessions] /\ polled \in [Launchers -> Views \cup {None}]
      /\ pushed \in [Launchers -> Answers \cup {None}]
  BY DEF IInv, TypeOK
<1>4. /\ entry' \in Entries /\ entry'.configVersion \in Nat
      /\ session'[k] = d /\ pushed'[k] = b
      /\ \A l \in Launchers \ {k} : session'[l] = session[l] /\ pushed'[l] = pushed[l]
  BY <1>2, <1>3 DEF EntryOK, Entries
<1>5. b \in Answers \cup {None} /\ (call.what = "push" => b.error = error)
  <2>1. [error |-> error, version |-> entry'.configVersion] \in Answers
    BY <1>4 DEF Answers
  <2> QED BY <1>3, <2>1
<1>6. /\ c.calls \in Seq(Calls) /\ 1 \in DOMAIN c.calls /\ call = c.calls[1]
      /\ \A n \in DOMAIN Tail(c.calls) :
            n + 1 \in DOMAIN c.calls /\ n \in Nat /\ n > 0 /\ Tail(c.calls)[n] = c.calls[n + 1]
  BY <1>1, <1>2, SessionTypes, Dequeued
<1>7. /\ d \in Sessions /\ d.calls = Tail(c.calls) /\ \A field \in DOMAIN c \ {"calls"} : d[field] = c[field]
  <2>1. Tail(c.calls) \in Seq(Calls)
    BY <1>2, <1>6
  <2> QED BY <1>1, <2>1 DEF Sessions
<1>8. /\ d.slot = c.slot /\ d.token = c.token /\ d.snapshot = c.snapshot /\ d.ended = c.ended
      /\ d.applied = c.applied /\ d.pushing = c.pushing /\ d.lastPushed = c.lastPushed /\ d.pushAgain = c.pushAgain
      /\ d.restoreScheduled = c.restoreScheduled /\ d.pushScheduled = c.pushScheduled
  BY <1>1, <1>7 DEF Sessions
<1>9. GoesOn(k, c, entry, entry') /\ PushOK(k, c, entry, pushed[k])
  BY <1>1 DEF Sound
<1>10. call.what = "push" => k = Host /\ (error \/ entry'.config = call.doc)
  OBVIOUS
<1>11. call.what # "push" => entry'.config = entry.config /\ b = pushed[k]
  OBVIOUS
<1>12. k # Host => b = pushed[k]
  BY <1>10
<1> HIDE DEF c, call, b, d
<1>13. PushOK(k, c, entry', pushed[k])
  BY <1>6, <1>9, <1>10, <1>11 DEF PushOK
<1>14. Sound(k, c, entry', pushed[k])
  BY <1>1, <1>4, <1>9, <1>13, OthersSound
<1>15. PushOK(k, d, entry', b)
  <2>1. CASE k # Host
    BY <1>6, <1>7, <1>8, <1>9, <1>12, <2>1 DEF PushOK
  <2>2. CASE k = Host /\ call.what = "push"
    <3>1. /\ c.pushing /\ pushed[k] = None /\ call.doc = c.lastPushed /\ ~c.restoreScheduled
          /\ \A m \in DOMAIN c.calls : c.calls[m].what = "push" => m = 1
      BY <1>6, <1>9, <2>2 DEF PushOK
    <3>2. \A n \in DOMAIN d.calls : d.calls[n].what # "push"
      BY <1>6, <1>7, <3>1
    <3>3. b.error \/ entry'.config = c.lastPushed
      BY <1>5, <1>10, <2>2, <3>1
    <3> QED BY <1>8, <2>2, <3>1, <3>2, <3>3 DEF PushOK
  <2>3. CASE k = Host /\ call.what # "push"
    <3>1. \A n \in DOMAIN d.calls : d.calls[n].what = "push" =>
              /\ c.pushing /\ pushed[k] = None /\ d.calls[n].doc = c.lastPushed
              /\ \A m \in DOMAIN d.calls : d.calls[m].what = "push" => m = n
      BY <1>6, <1>7, <1>9, <2>3 DEF PushOK
    <3> QED BY <1>8, <1>9, <1>11, <2>3, <3>1 DEF PushOK
  <2> QED BY <2>1, <2>2, <2>3
<1>16. Sound(k, d, entry', b)
  BY <1>2, <1>14, <1>15, TakenSound DEF d
<1>17. LauncherOK(k)'
  <2>1. k # Host => Applied(d)
    BY <1>1, <1>8 DEF Applied, Before
  <2>2. polled[k] # None => SnapTrue(entry', polled[k]) /\ After(d, polled[k])
    <3>1. polled[k] # None => SnapTrue(entry', polled[k])
      BY <1>1, <1>4, <1>9, TrueLater
    <3> QED BY <1>1, <1>8, <3>1 DEF After
  <2>3. polled[k] # None => d.slot # None
    BY <1>1, <1>8 DEF Joined, c
  <2> QED BY <1>2, <1>4, <1>16, <2>1, <2>2, <2>3 DEF LauncherOK, Joined
<1>18. ASSUME NEW l \in Launchers \ {k} PROVE LauncherOK(l)'
  <2>1. l = Host => entry'.config = entry.config
    BY <1>10, <1>11
  <2> QED BY <1>2, <1>4, <2>1, StaysOK
<1>19. \A l \in Launchers : session'[l].slot = session[l].slot /\ session'[l].token = session[l].token
  BY <1>4, <1>8 DEF c
<1>20. TypeOK'
  BY <1>2, <1>3, <1>4, <1>5, <1>7 DEF IInv, TypeOK
<1> QED BY <1>17, <1>18, <1>19, <1>20, TokensKept DEF IInv

LEMMA WorkerStep ==
    ASSUME IInv, NEW k \in Launchers, Worker(k)
    PROVE  IInv'
<1> DEFINE call == Head(session[k].calls)
           f == Settled(Effect(session[k], call))
<1>1. /\ EntryOK(entry) /\ entry \in Entries /\ entry.configVersion \in Nat /\ news \subseteq Launchers
      /\ failures \in 0..FailLimit /\ PushOK(k, session[k], entry, pushed[k]) /\ session[k].calls \in Seq(Calls)
  BY OneLauncher, SessionTypes DEF Sound, Entries
<1>2. session[k].calls # <<>> => (call.what = "push" => k = Host)
  BY <1>1, Dequeued DEF PushOK
<1>3. \A e : Becomes(e) => entry' = Settled(e) /\ news' \subseteq Launchers
  BY <1>1 DEF Becomes
<1>4. ASSUME session[k].calls # <<>>, Granted(session[k], call), Becomes(Effect(session[k], call)),
             failures' \in 0..FailLimit, NEW error \in BOOLEAN, Take(k, error)
      PROVE  IInv'
  <2>1. entry' = f /\ news' \subseteq Launchers
    BY <1>3, <1>4
  <2>2. /\ EntryOK(f) /\ \A l \in Launchers : GoesOn(l, session[l], entry, f)
        /\ call.what = "push" => k = Host /\ f.config = call.doc
        /\ call.what # "push" => f.config = entry.config
    BY <1>4, CallGoesOn
  <2> HIDE DEF f
  <2> QED BY <1>4, <2>1, <2>2, TakeStep
<1>5. ASSUME session[k].calls # <<>>, entry' \in {entry, Settled(entry)}, news' \subseteq Launchers,
             failures' \in 0..FailLimit, Take(k, TRUE)
      PROVE  IInv'
  <2>1. /\ EntryOK(entry') /\ entry'.config = entry.config /\ entry'.configVersion = entry.configVersion
        /\ entry'.slots = entry.slots /\ entry'.running = entry.running /\ (entry.ended => entry'.ended)
    BY <1>1, <1>5, SameEntry
  <2>2. \A l \in Launchers : GoesOn(l, session[l], entry, entry')
    BY <1>1, <2>1 DEF GoesOn
  <2> QED BY <1>2, <1>5, <2>1, <2>2, TakeStep
<1>6. CASE CallWorks(k)
  BY <1>1, <1>4, <1>6 DEF CallWorks
<1>7. CASE CallRefused(k)
  BY <1>1, <1>5, <1>7 DEF CallRefused
<1>8. CASE CallLost(k)
  <2>1. session[k].calls # <<>> /\ failures' \in 0..FailLimit /\ Take(k, TRUE)
    <3>1. session[k].calls # <<>> /\ Take(k, TRUE) /\ failures < FailLimit /\ failures' = failures + 1
      BY <1>8 DEF CallLost
    <3>2. FailLimit \in Nat
      BY NetplayAssumption
    <3>3. failures' \in 0..FailLimit
      <4>1. failures < FailLimit /\ failures' = failures + 1
        BY <3>1
      <4> QED BY <1>1, <3>2, <4>1
    <3> QED BY <3>1, <3>3
  <2>2. CASE Becomes(entry)
    BY <1>3, <1>5, <2>1, <2>2
  <2>3. CASE Granted(session[k], call) /\ Becomes(Effect(session[k], call))
    BY <1>4, <2>1, <2>3
  <2> QED BY <1>8, <2>2, <2>3 DEF CallLost
<1> QED BY <1>6, <1>7, <1>8 DEF Worker

LEMMA JoinStep ==
    ASSUME IInv, NEW l \in Launchers, NEW s \in Slots, Join(l, s)
    PROVE  IInv'
<1> DEFINE c == session[l]
           t == NextToken
           d == [c EXCEPT !.slot = s, !.token = t]
           J == {k \in Launchers : Joined(k)}
<1>1. /\ c \in Sessions /\ entry \in Entries /\ EntryOK(entry) /\ Sound(l, c, entry, pushed[l])
      /\ (l # Host => Applied(c)) /\ (polled[l] # None => Joined(l))
  BY OneLauncher
<1>2. /\ c.slot = None /\ CanJoin(entry, s) /\ entry' = Settled(JoinSession(entry, s, t))
      /\ session' = [session EXCEPT ![l] = d] /\ UNCHANGED <<polled, pushed, acts, failures>>
      /\ news' \subseteq Launchers
  BY DEF Join, Joined, Becomes, IInv, TypeOK
<1>3. /\ IsFiniteSet(J) /\ Cardinality(J) \in Nat /\ t = 1 + Cardinality(J)
  BY JoinedCount DEF NextToken
<1>4. t \in Nat /\ t # None
  BY <1>3, Constants
<1>5. /\ EntryOK(entry') /\ entry' \in Entries
      /\ entry'.slots[s] = Taken(t) /\ \A r \in Slots \ {s} : entry'.slots[r] = entry.slots[r]
      /\ entry'.config = entry.config /\ entry'.configVersion = entry.configVersion
      /\ entry'.running = entry.running /\ entry'.ended = entry.ended
  BY <1>1, <1>2, <1>4, JoinEntry DEF EntryOK
<1>6. entry.configVersion \in Nat /\ entry.slots[s].token = None /\ s # 0
  BY <1>1, <1>2 DEF CanJoin, Claimed, EntryOK, Entries
<1>7. session \in [Launchers -> Sessions]
  BY DEF IInv, TypeOK
<1>8. session'[l] = d /\ \A k \in Launchers \ {l} : session'[k] = session[k]
  BY <1>2, <1>7
<1>9. \A k \in Launchers : /\ session[k] \in Sessions /\ SlotOK(k, session[k], entry)
                           /\ session[k].slot \in Slots \cup {None} /\ session[k].token \in Nat \cup {None}
  BY OneLauncher, SessionTypes DEF Sound
<1>10. /\ d \in Sessions /\ d.slot = s /\ d.token = t
       /\ \A field \in DOMAIN c \ {"slot", "token"} : d[field] = c[field]
  BY <1>1, <1>4 DEF Sessions
<1>11. /\ d.local = c.local /\ d.lacks = c.lacks /\ d.snapshot = c.snapshot /\ d.ended = c.ended
       /\ d.launched = c.launched /\ d.applied = c.applied /\ d.lastPushed = c.lastPushed /\ d.pushing = c.pushing
       /\ d.pushAgain = c.pushAgain /\ d.pushScheduled = c.pushScheduled
       /\ d.restoreScheduled = c.restoreScheduled /\ d.calls = c.calls
  BY <1>1, <1>10 DEF Sessions
<1>12. l # Host
  BY <1>1, <1>2, Constants DEF Sound, SlotOK
<1>13. /\ SlotOK(l, c, entry) /\ PushOK(l, c, entry, pushed[l]) /\ SeenOK(c, entry) /\ PlayerOK(c, entry)
  BY <1>1, <1>12 DEF Sound
<1>14. Tokens'
  <2>1. l \notin J /\ l \in Launchers
    BY <1>2 DEF Joined
  <2>2. {k \in Launchers : Joined(k)}' = J \cup {l}
    <3>1. s # None
      BY Constants
    <3>2. \A k \in Launchers : Joined(k)' <=> Joined(k) \/ k = l
      BY <1>8, <1>10, <3>1 DEF Joined
    <3> QED BY <3>2
  <2>3. Cardinality(J \cup {l}) = t
    <3> HIDE DEF J, t
    <3>1. Cardinality(J \cup {l}) = Cardinality(J) + 1
      BY <1>3, <2>1, FS_AddElement, Zenon
    <3> QED BY <1>3, <3>1
  <2>4. \A k \in Launchers : session[k].token # None => session[k].token \in 1..Cardinality(J)
    BY DEF IInv, Tokens
  <2>5. \A k, m \in Launchers : k # m /\ session[k].token # None => session[k].token # session[m].token
    BY DEF IInv, Tokens
  <2> HIDE DEF c, d, t, J
  <2>6. \A k \in Launchers : session'[k].token # None => session'[k].token \in 1..t
    BY <1>3, <1>8, <1>10, <2>4
  <2>7. \A k \in Launchers \ {l} : session[k].token # None => session[k].token # t
    BY <1>3, <2>4
  <2>8. \A k, m \in Launchers : k # m /\ session'[k].token # None => session'[k].token # session'[m].token
    BY <1>4, <1>8, <1>10, <2>5, <2>7
  <2> QED BY <2>2, <2>3, <2>6, <2>8 DEF Tokens
<1>15. ASSUME NEW k \in Launchers \ {l} PROVE LauncherOK(k)'
  <2>1. GoesOn(k, session[k], entry, entry')
    <3>1. CASE session[k].slot = s
      <4>1. session[k].ended
        BY <1>6, <1>9, <3>1, Constants DEF SlotOK
      <4> QED BY <1>5, <1>6, <3>1, <4>1 DEF GoesOn, Taken
    <3>2. CASE session[k].slot # s
      BY <1>5, <1>6, <1>9, <3>2 DEF GoesOn
    <3> QED BY <3>1, <3>2
  <2> QED BY <1>2, <1>5, <1>8, <2>1, StaysOK
<1> HIDE DEF c, d, t, J
<1>16. Sound(l, d, entry', pushed[l])
  <2>1. SlotOK(l, d, entry')
    BY <1>4, <1>5, <1>6, <1>10, <1>11, <1>12, <1>13, Constants DEF SlotOK, Taken
  <2>2. PushOK(l, d, entry', pushed[l])
    BY <1>11, <1>12, <1>13 DEF PushOK
  <2>3. SeenOK(d, entry')
    BY <1>5, <1>11, <1>13 DEF SeenOK, SnapTrue
  <2>4. Followed(d)
    BY <1>11, <1>13 DEF PlayerOK, Followed, Before, State, Resolved
  <2>5. \A v, r : ReportOK(c, v, r) => ReportOK(d, v, r)
    BY <1>11 DEF ReportOK
  <2>6. entry'.slots[d.slot].ready = None
    BY <1>5, <1>10 DEF Taken
  <2>7. PlayerOK(d, entry')
    BY <1>5, <1>11, <1>13, <2>4, <2>5, <2>6 DEF PlayerOK
  <2> QED BY <1>10, <2>1, <2>2, <2>3, <2>7 DEF Sound
<1>17. LauncherOK(l)'
  <2>1. Applied(d) /\ polled[l] = None
    BY <1>1, <1>2, <1>11, <1>12 DEF Applied, Before, Joined, c
  <2> QED BY <1>2, <1>8, <1>16, <2>1 DEF LauncherOK
<1>18. TypeOK'
  BY <1>2, <1>5, <1>7, <1>10 DEF IInv, TypeOK
<1> QED BY <1>5, <1>14, <1>15, <1>17, <1>18 DEF IInv

-----------------------------------------------------------------------------
(* A session without a snapshot, before it or its game has begun *)
Fresh(d) ==
    /\ d \in Sessions
    /\ d.snapshot = None /\ d.ended = FALSE /\ d.launched = None
    /\ d.applied = 0 /\ d.lastPushed = None /\ d.pushing = FALSE /\ d.pushAgain = FALSE
    /\ d.pushScheduled = FALSE /\ d.restoreScheduled = FALSE /\ d.calls = <<>>

LEMMA NewFresh ==
    ASSUME NEW local \in Docs, NEW lacks \in SUBSET Hashes
    PROVE  LET d == NewSession(local, lacks)
           IN  Fresh(d) /\ d.slot = None /\ d.token = None
<1> DEFINE d == NewSession(local, lacks)
<1>1. <<>> \in Seq(Calls)
  OBVIOUS
<1>2. d \in Sessions
  BY <1>1 DEF NewSession, Sessions
<1> QED BY <1>2 DEF NewSession, Fresh

LEMMA FreshSound ==
    ASSUME NEW l \in Launchers, NEW d, Fresh(d), NEW e, d.slot = None <=> d.token = None, l = Host <=> d.slot = 0,
           d.slot # None => e.slots[d.slot].token = d.token /\ e.slots[d.slot].ready = None
    PROVE  Sound(l, d, e, None) /\ Applied(d)
<1>1. DOMAIN d.calls = {}
  BY DEF Fresh
<1>2. SlotOK(l, d, e)
  BY <1>1 DEF SlotOK
<1>3. PushOK(l, d, e, None)
  BY <1>1 DEF PushOK, Fresh
<1>4. SeenOK(d, e)
  BY DEF SeenOK, Fresh
<1>5. PlayerOK(d, e)
  BY <1>1 DEF PlayerOK, Followed, Before, Fresh
<1>6. Applied(d)
  BY DEF Applied, Before, Fresh
<1> QED BY <1>2, <1>3, <1>4, <1>5, <1>6 DEF Sound, Fresh

LEMMA NewEntryOK ==
    /\ EntryOK(NewEntry(1)) /\ NewEntry(1) \in Entries
    /\ NewEntry(1).slots[0].token = 1 /\ NewEntry(1).slots[0].ready = None
<1> DEFINE slots == [s \in Slots |-> IF s = 0 THEN Taken(1) ELSE Free]
           e == NewEntry(1)
<1>1. slots \in [Slots -> SlotRecords] /\ slots[0].token = 1 /\ slots[0].ready = None
  BY Constants DEF Taken, Free, SlotRecords
<1>2. e = [slots |-> slots, config |-> None, configVersion |-> 0, running |-> FALSE, ended |-> FALSE,
           revision |-> 1, changed |-> 0]
  BY DEF NewEntry
<1> HIDE DEF slots, e
<1>3. e \in Entries /\ e.config = None /\ e.configVersion = 0 /\ e.running = FALSE /\ e.slots = slots
  BY <1>1, <1>2 DEF Entries
<1>4. Claimed(e, 0)
  BY <1>1, <1>3, Constants DEF Claimed
<1> QED BY <1>1, <1>3, <1>4 DEF EntryOK, e

LEMMA InitOK == Init => IInv
<1> SUFFICES ASSUME Init PROVE IInv
  OBVIOUS
<1>1. PICK local \in [Launchers -> FirstDocs], without \in SUBSET Lacking :
          session = [l \in Launchers |->
              LET c == NewSession(local[l], IF l \in without THEN Unfound ELSE {})
              IN  IF l = Host THEN Begun(c, 0, 1) ELSE c]
  BY DEF Init
<1> DEFINE lacks(l) == IF l \in without THEN Unfound ELSE {}
           c(l) == NewSession(local[l], lacks(l))
<1>2. /\ entry = NewEntry(1) /\ news = Launchers /\ acts = 0 /\ failures = 0
      /\ \A l \in Launchers : polled[l] = None /\ pushed[l] = None
      /\ polled = [l \in Launchers |-> None] /\ pushed = [l \in Launchers |-> None]
  BY DEF Init
<1>3. \A l \in Launchers : Fresh(c(l)) /\ c(l).slot = None /\ c(l).token = None
  <2>1. \A l \in Launchers : local[l] \in Docs /\ lacks(l) \in SUBSET Hashes
    BY Constants
  <2> HIDE DEF lacks
  <2> QED BY <2>1, NewFresh
<1>5. /\ session[Host] = PushIfChanged([c(Host) EXCEPT !.slot = 0, !.token = 1])
      /\ \A l \in Launchers \ {Host} : session[l] = c(l)
  BY <1>1, Constants DEF Begun
<1> HIDE DEF c, lacks
<1>6. ASSUME NEW l \in Launchers, l # Host
      PROVE  /\ Sound(l, session[l], entry, None) /\ Applied(session[l])
             /\ session[l].slot = None /\ session[l].token = None
  <2>1. None # 0
    BY Constants
  <2> QED BY <1>3, <1>5, <1>6, <2>1, FreshSound
<1>7. /\ Sound(Host, session[Host], entry, None)
      /\ session[Host].slot = 0 /\ session[Host].token = 1
  <2> DEFINE d == [c(Host) EXCEPT !.slot = 0, !.token = 1]
  <2>1. Fresh(c(Host)) /\ 0 \in Slots /\ None \notin Nat
    BY <1>3, Constants
  <2>2. d.slot = 0 /\ d.token = 1 /\ Fresh(d)
    BY <2>1 DEF Fresh, Sessions
  <2>3. session[Host] = PushIfChanged(d)
    BY <1>5
  <2> HIDE DEF d
  <2>4. Sound(Host, d, entry, None)
    BY <1>2, <2>1, <2>2, Constants, NewEntryOK, FreshSound
  <2> QED BY <2>2, <2>3, <2>4, PushIfChangedSound
<1>8. \A l \in Launchers : LauncherOK(l)
  BY <1>2, <1>6, <1>7 DEF LauncherOK
<1>9. Tokens
  <2> DEFINE J == {k \in Launchers : Joined(k)}
  <2>1. J = {Host}
    BY <1>6, <1>7, Constants DEF Joined
  <2>2. Cardinality(J) = 1
    BY <2>1, FS_Singleton, Zenon
  <2>3. \A l \in Launchers : session[l].token = IF l = Host THEN 1 ELSE None
    BY <1>6, <1>7
  <2>4. 1 # None
    BY Constants
  <2> HIDE DEF J
  <2>5. \A l \in Launchers : session[l].token # None => session[l].token \in 1..Cardinality(J)
    BY <2>2, <2>3
  <2>6. \A k, l \in Launchers : k # l /\ session[k].token # None => session[k].token # session[l].token
    BY <2>3, <2>4
  <2> QED BY <2>5, <2>6 DEF Tokens, J
<1>10. TypeOK
  <2>1. session \in [Launchers -> Sessions]
    BY <1>1, <1>6, <1>7 DEF Sound
  <2> QED BY <1>2, <2>1, NewEntryOK, NetplayAssumption DEF TypeOK
<1> QED BY <1>2, <1>8, <1>9, <1>10, NewEntryOK DEF IInv

LEMMA StepOK == IInv /\ [Next]_vars => IInv'
<1> SUFFICES ASSUME IInv, [Next]_vars PROVE IInv'
  OBVIOUS
<1>1. CASE UNCHANGED vars
  BY <1>1 DEF vars, IInv, TypeOK, Tokens, Joined, LauncherOK
<1>2. ASSUME NEW l \in Launchers, UserStep(l) PROVE IInv'
  <2>1. ASSUME NEW s \in Slots, Join(l, s) PROVE IInv'
    BY <2>1, JoinStep
  <2>2. ASSUME NEW value \in Hashes, Edit(l, "hash", value) PROVE IInv'
    BY <2>2, EditStep
  <2>3. ASSUME NEW value \in Rests, Edit(l, "rest", value) PROVE IInv'
    BY <2>3, EditStep
  <2>4. ASSUME NEW added \in BOOLEAN, PressRecheck(l, added) PROVE IInv'
    BY <2>4, PressRecheckStep
  <2>5. CASE PressLeave(l)
    BY <2>5, PressLeaveStep
  <2> QED BY <1>2, <2>1, <2>2, <2>3, <2>4, <2>5 DEF UserStep
<1>3. ASSUME NEW l \in Launchers, Timer(l) \/ Posted(l) \/ Worker(l) \/ Poll(l) PROVE IInv'
  BY <1>3, TimerStep, PostedStep, WorkerStep, PollStep
<1>4. CASE PressStart
  BY <1>4, PressStartStep
<1>5. CASE GameOver
  BY <1>5, GameOverStep
<1>6. CASE Finished
  BY <1>1, <1>6 DEF Finished
<1> QED BY <1>1, <1>2, <1>3, <1>4, <1>5, <1>6 DEF Next

LEMMA Invariant == Spec => []IInv
  BY InitOK, StepOK, PTL DEF Spec, SafeSpec

(* While the host sends nothing, the lobby has what is on its screen. *)
LEMMA NothingToSend ==
    ASSUME IInv, ~SendingConfig(session[Host])
    PROVE  entry.config = session[Host].local
<1>1. Sound(Host, session[Host], entry, pushed[Host]) /\ session[Host] \in Sessions
  BY OneLauncher, Constants
<1> QED BY <1>1, SessionTypes, Constants DEF Sound, PushOK, SendingConfig
-----------------------------------------------------------------------------
(***************************************************************************)
(* The sessions, the entry, what is queued and what is on its way to the   *)
(* UI threads are what session.py and session.go can make of them.         *)
(***************************************************************************)
THEOREM NetplayTypeCorrect == Spec => []TypeOK
<1>1. IInv => TypeOK
  BY DEF IInv
<1> QED BY <1>1, Invariant, PTL

(***************************************************************************)
(* While the Start button is enabled, the game starts with what the host   *)
(* sees: the lobby has the document last pushed unless a push or its       *)
(* answer is on its way, and then the button is not enabled (can_start,    *)
(* sending_config, pushed).                                                *)
(***************************************************************************)
THEOREM StartIsForTheScreen == Spec => []StartIsForScreen
<1>1. IInv => StartIsForScreen
  BY NothingToSend DEF StartIsForScreen, CanStartGame
<1> QED BY <1>1, Invariant, PTL

(***************************************************************************)
(* A launcher whose slot the lobby counts as ready has the game's document *)
(* or knows that it has not: a report on the version the lobby has was     *)
(* made from that version, and an edit since then is to be restored        *)
(* (_apply_and_report, config_changed, report_ready).                      *)
(***************************************************************************)
THEOREM ReadyIsTheDocument == Spec => []ReadyIsTrue
<1>1. ASSUME IInv, NEW l \in Launchers, Following(l), Open, SlotStatus(entry, session[l].slot) = "ready",
             entry.slots[session[l].slot].token = session[l].token
      PROVE  \/ session[l].local = entry.config
             \/ session[l].restoreScheduled
             \/ l = Host /\ SendingConfig(session[l])
  <2>1. CASE l = Host
    BY <1>1, <2>1, NothingToSend
  <2>2. CASE l # Host
    <3>1. /\ session[l] \in Sessions /\ EntryOK(entry) /\ PlayerOK(session[l], entry)
          /\ SeenOK(session[l], entry) /\ Applied(session[l])
      BY <1>1, <2>2, OneLauncher DEF Sound
    <3>2. ~session[l].ended /\ session[l].slot # None /\ session[l].launched = None
      BY <1>1, <3>1 DEF Following, Joined, Open, SeenOK
    <3> QED BY <1>1, <3>1, <3>2, HasTheGame
  <2> QED BY <2>1, <2>2
<1>2. IInv => ReadyIsTrue
  BY <1>1 DEF ReadyIsTrue
<1> QED BY <1>2, Invariant, PTL

(***************************************************************************)
(* Every player starts FS-UAE with the document the game was started with, *)
(* and the host with another only for an edit the lobby has not got        *)
(* (_handle, _player_changed, start_game).                                 *)
(***************************************************************************)
THEOREM EveryoneLaunchesTheGame == Spec => []PlayersLaunchTheGame
<1>1. ASSUME IInv, NEW l \in Launchers, session[l].launched \notin {None, entry.config}
      PROVE  /\ l = Host
             /\ session[l].pushing \/ session[l].launched # session[l].lastPushed
  <2>1. Sound(l, session[l], entry, pushed[l])
    BY <1>1, OneLauncher
  <2>2. l = Host
    BY <1>1, <2>1 DEF Sound, PlayerOK
  <2> QED BY <1>1, <2>1, <2>2 DEF Sound, PushOK
<1>2. IInv => PlayersLaunchTheGame
  BY <1>1 DEF PlayersLaunchTheGame
<1> QED BY <1>2, Invariant, PTL

-----------------------------------------------------------------------------
(* What leaves the document of a session, and what is to restore it, alone *)
Keeps(x, y) ==
    /\ {"local", "restoreScheduled"} \subseteq DOMAIN y
    /\ y.local = x.local /\ y.restoreScheduled = x.restoreScheduled

LEMMA CallKeeps ==
    ASSUME NEW x, {"local", "restoreScheduled"} \subseteq DOMAIN x, NEW call
    PROVE  Keeps(x, Call(x, call))
  BY DEF Call, Keeps

LEMMA PushKeeps ==
    ASSUME NEW x, {"local", "restoreScheduled"} \subseteq DOMAIN x
    PROVE  Keeps(x, PushIfChanged(x))
<1> DEFINE b == [x EXCEPT !.pushing = TRUE, !.lastPushed = x.local]
           call == [what |-> "push", doc |-> x.local]
<1>1. Keeps(x, x) /\ Keeps(x, [x EXCEPT !.pushAgain = TRUE]) /\ Keeps(x, b)
  BY DEF Keeps
<1>2. \/ PushIfChanged(x) \in {x, [x EXCEPT !.pushAgain = TRUE]}
      \/ PushIfChanged(x) = Call(b, call)
  BY DEF PushIfChanged
<1> HIDE DEF b, call
<1>3. Keeps(x, Call(b, call))
  BY <1>1, CallKeeps DEF Keeps
<1> QED BY <1>1, <1>2, <1>3

LEMMA TimersKeep ==
    ASSUME NEW c \in Sessions
    PROVE  /\ PushDue(c).local = c.local
           /\ StartGame(c).local = c.local
           /\ \A a : Pushed(c, a).local = c.local
<1>1. {"local", "restoreScheduled"} \subseteq DOMAIN c
  BY DEF Sessions
<1>2. PushDue(c).local = c.local
  <2>1. Keeps(c, [c EXCEPT !.pushScheduled = FALSE])
    BY <1>1 DEF Keeps
  <2> QED BY <2>1, PushKeeps DEF PushDue, Keeps
<1>3. StartGame(c).local = c.local
  BY <1>1, CallKeeps DEF StartGame, Keeps
<1>4. ASSUME NEW a PROVE Pushed(c, a).local = c.local
  <2> DEFINE d == IF a.error THEN [c EXCEPT !.pushing = FALSE, !.lastPushed = None]
                  ELSE [c EXCEPT !.pushing = FALSE, !.pushedVersion = a.version]
             b == [d EXCEPT !.pushAgain = FALSE]
  <2>1. Keeps(c, d)
    BY <1>1 DEF Keeps
  <2>2. Pushed(c, a) = d \/ Pushed(c, a) = PushIfChanged(b)
    BY DEF Pushed
  <2> HIDE DEF d
  <2>3. Keeps(c, b)
    BY <2>1 DEF Keeps
  <2> HIDE DEF b
  <2> QED BY <2>1, <2>2, <2>3, PushKeeps DEF Keeps
<1> QED BY <1>2, <1>3, <1>4

(* _handle changes the host's document only for what it cannot find. *)
LEMMA HostHandle ==
    ASSUME NEW c \in Sessions, c.slot = 0, ~c.restoreScheduled, c.local.hash \notin c.lacks, NEW s
    PROVE  Handle(c, s).local = c.local
<1> DEFINE b == [c EXCEPT !.snapshot = s]
           e == [c EXCEPT !.snapshot = IF c.snapshot = None THEN s ELSE [c.snapshot EXCEPT !.state = "ended"]]
           x == [c EXCEPT !.snapshot = s, !.local = Resolved(b, s.config), !.applied = s.version]
           call == [what |-> "report", version |-> s.version,
                    result |-> [hash |-> Resolved(b, s.config).hash, missing |-> s.config.hash \in b.lacks]]
<1>1. {"local", "restoreScheduled", "lacks", "slot", "snapshot", "applied"} \subseteq DOMAIN c
  BY DEF Sessions
<1>2. Keeps(c, b) /\ Keeps(c, Finish(e)) /\ b.lacks = c.lacks /\ b.slot = 0
  BY <1>1 DEF Keeps, Finish
<1>3. s.config = c.local => Keeps(c, x)
  BY <1>1, <1>2 DEF Keeps, Resolved
<1>4. ApplyAndReport(b, s) = Call(x, call)
  BY <1>1 DEF ApplyAndReport, ApplyQuietly
<1>5. \/ Follow(b, s) = b
      \/ Follow(b, s) = PushIfChanged(b)
      \/ s.config = c.local /\ Follow(b, s) = Call(x, call)
  BY <1>2, <1>4 DEF Follow, IsHost, Keeps
<1>6. \/ Handle(c, s) \in {c, Finish(e), Follow(b, s)}
      \/ Handle(c, s) = Launch(Follow(b, s), s)
  BY DEF Handle
<1> HIDE DEF b, e, x, call
<1>7. Keeps(c, Follow(b, s))
  BY <1>2, <1>3, <1>5, PushKeeps, CallKeeps DEF Keeps
<1> DEFINE f == Follow(b, s)
<1> HIDE DEF f
<1>8. Keeps(c, f) => Launch(f, s).local = c.local
  BY DEF Launch, Keeps
<1> QED BY <1>2, <1>6, <1>7, <1>8 DEF Keeps, f

(***************************************************************************)
(* Nothing the lobby sends changes what the host has set, but for media it *)
(* cannot find: a snapshot with another document than the host's is only   *)
(* answered with a push, and nothing of the host's is to be restored       *)
(* (_handle, config_changed).                                              *)
(***************************************************************************)
THEOREM HostEditsAreKept == Spec => HostEditsStand
<1> DEFINE Stands == acts' = acts /\ session[Host].local' # session[Host].local
                         => session[Host].local.hash \in session[Host].lacks
           c == session[Host]
<1>1. ASSUME IInv, Next, acts' = acts, c.local.hash \notin c.lacks
      PROVE  session[Host].local' = session[Host].local
  <2>1. /\ c \in Sessions /\ c.slot = 0 /\ ~c.restoreScheduled /\ acts \in Nat /\ Host \in Launchers
        /\ session \in [Launchers -> Sessions]
    BY <1>1, OneLauncher, Constants DEF Sound, SlotOK, PushOK, IInv, TypeOK
  <2>2. \A l \in Launchers : ~User(l)
    BY <1>1, <2>1 DEF User
  <2>3. \A l \in Launchers : \A d : session' = [session EXCEPT ![l] = d] =>
            session[Host].local' = IF l = Host THEN d.local ELSE c.local
    BY <2>1
  <2>4. ASSUME NEW l \in Launchers, UserStep(l) PROVE session[Host].local' = session[Host].local
    <3>1. PICK s \in Slots : Join(l, s)
      BY <2>2, <2>4 DEF UserStep, Edit, PressRecheck, PressLeave
    <3>2. l # Host
      BY <2>1, <3>1, Constants DEF Join, Joined
    <3> QED BY <2>3, <3>1, <3>2 DEF Join
  <2>5. ASSUME NEW l \in Launchers, Timer(l) PROVE session[Host].local' = session[Host].local
    BY <2>1, <2>3, <2>5, TimersKeep DEF Timer, PushTimer, RestoreTimer
  <2>6. ASSUME NEW l \in Launchers, Posted(l) PROVE session[Host].local' = session[Host].local
    <3>1. \A s : Handle(c, s).local = c.local
      BY <1>1, <2>1, HostHandle
    <3> QED BY <2>1, <2>3, <2>6, <3>1, TimersKeep DEF Posted, SeeSnapshot, SeePushed
  <2>7. ASSUME NEW l \in Launchers, Worker(l) PROVE session[Host].local' = session[Host].local
    <3>1. session' = [session EXCEPT ![l].calls = Tail(session[l].calls)]
      BY <2>7 DEF Worker, CallWorks, CallRefused, CallLost, Take
    <3>2. [c EXCEPT !.calls = Tail(c.calls)].local = c.local
      BY <2>1 DEF Sessions
    <3> QED BY <2>1, <3>1, <3>2
  <2>8. CASE PressStart
    BY <2>1, <2>3, <2>8, TimersKeep DEF PressStart
  <2>9. CASE UNCHANGED session
    BY <2>9
  <2> QED BY <1>1, <2>4, <2>5, <2>6, <2>7, <2>8, <2>9 DEF Next, Poll, GameOver, Finished, vars
<1>2. IInv /\ [Next]_vars => [Stands]_vars
  BY <1>1
<1> QED BY <1>2, Invariant, PTL DEF Spec, SafeSpec, HostEditsStand
=============================================================================
