----------------------- MODULE NetplayCommandsProofs -----------------------
(***************************************************************************)
(* Proofs about NetplayCommands, for any games, servers and number of      *)
(* commands, and about ConnectionTester, for any lobbies, lists of         *)
(* addresses and number of changes and results.                            *)
(***************************************************************************)
EXTENDS NetplayCommands, ConnectionTester, TLAPS

(***************************************************************************)
(* The inductive invariant, by parts.  A join belongs to the generation it *)
(* was asked in, of which there is one; only the current one is awaited.   *)
(***************************************************************************)
JoinsAsked ==
    /\ \A j \in joins : j.slot.token <= me.generation
    /\ \A j, k \in joins : j.slot.token = k.slot.token => j = k
    /\ \A j \in joins : Asked(j) => me.joining = j.slot.game

(* A snapshot is the session's, or one of a session left before. *)
SeenInTime ==
    /\ me.session # None => me.session.token <= me.generation
    /\ seen # None => \/ seen.token < me.generation
                      \/ me.session # None /\ me.session.token = seen.token

(* What the launcher knows of has been created. *)
Opened ==
    /\ me.session # None => lobby[me.session.game] # "none"
    /\ \A j \in joins : lobby[j.slot.game] # "none"
    /\ \A slot \in held : lobby[slot.game] # "none"
    /\ \A g \in Games : g \in launched => lobby[g] \in {"running", "ended"}

(* What it knows to have started has started. *)
Past(g, state) ==
    /\ state = "running" => lobby[g] \in {"running", "ended"}
    /\ state = "ended" => lobby[g] = "ended"

SeenTrue ==
    /\ me.session # None /\ me.session.started =>
        me.session.game \in launched /\ Past(me.session.game, "running")
    /\ seen # None /\ me.session # None /\ me.session.token = seen.token =>
        Past(me.session.game, seen.state)

(* A server runs for a reason, and a game played in it is one. *)
PlayedIn(s) == \E g \in Own : runs[g] = s /\ g \in launched

HostingOK(m) ==
    /\ \A s \in m.alive :
          s = m.view /\ (m.hosted \/ m.leftRunning) /\ (m.leftRunning => PlayedIn(s))
    /\ m.hosted => /\ m.session # None
                   /\ m.session.game \in Own
                   /\ \A s \in m.alive : runs[m.session.game] = s
    /\ \A g \in Own :
          g \in launched /\ runs[g] \in m.alive /\ lobby[g] = "running" =>
              m.leftRunning \/ (m.hosted /\ m.session.started /\ m.session.game = g)

(* A server is only waited for when there is no game and no other server. *)
StartingOK ==
    starting # None =>
        /\ me.session = None /\ me.joining = None /\ ~me.hosted /\ me.alive = {}
        /\ \A h \in Games : runs[h] # starting.server

IInv ==
    /\ TypeOK /\ JoinsAsked /\ SeenInTime /\ FollowsLatest
    /\ Opened /\ SeenTrue /\ HostingOK(me) /\ StartingOK /\ SlotsAccounted

-----------------------------------------------------------------------------
(* What leaving makes of a launcher *)

LEMMA EndSessionShape ==
    ASSUME NEW m \in LauncherStates
    PROVE  LET e == EndSession(m)
           IN  /\ e \in LauncherStates
               /\ e.session = None /\ e.joining = None /\ e.generation = m.generation + 1
               /\ m.session = None =>
                    /\ e.alive = m.alive /\ e.view = m.view /\ e.hosted = m.hosted
                    /\ e.leftRunning = m.leftRunning /\ e.calls = m.calls
               /\ m.session # None =>
                    /\ e.hosted = FALSE
                    /\ e.leftRunning = (m.leftRunning \/ (m.hosted /\ m.session.started))
                    /\ e.calls = m.calls \cup LeaveCalls(m.session)
                    /\ e.leftRunning => e.alive = m.alive /\ e.view = m.view
                    /\ ~e.leftRunning => e.alive = m.alive \ {m.view} /\ e.view = None
<1> DEFINE n == m.generation + 1
           left == [m EXCEPT !.session = None, !.generation = n, !.joining = None]
           remembered == m.leftRunning \/ (m.hosted /\ m.session.started)
           calls == m.calls \cup LeaveCalls(m.session)
           gone == [left EXCEPT !.leftRunning = remembered, !.hosted = FALSE, !.calls = calls]
<1>0. n \in Nat
  BY DEF LauncherStates
<1>1. /\ left \in LauncherStates
      /\ left.session = None /\ left.joining = None /\ left.generation = n
      /\ left.alive = m.alive /\ left.view = m.view /\ left.hosted = m.hosted
      /\ left.leftRunning = m.leftRunning /\ left.calls = m.calls
  <2> HIDE DEF n
  <2> QED
    BY <1>0 DEF LauncherStates
<1>2. CASE m.session = None
  <2>1. EndSession(m) = left
    BY <1>2 DEF EndSession
  <2> HIDE DEF left
  <2> QED
    BY <1>1, <1>2, <2>1
<1>3. CASE m.session # None
  <2>1. EndSession(m) = Release(gone)
    BY <1>1, <1>3 DEF EndSession
  <2>2. m.session \in Sessions
    BY <1>3 DEF LauncherStates
  <2>3. LeaveCalls(m.session) \subseteq Calls
    BY <2>2 DEF LeaveCalls, Sessions, Calls, SlotIds, SlotOf
  <2>4. remembered \in BOOLEAN /\ calls \in SUBSET Calls
    BY <2>2, <2>3 DEF LauncherStates, Sessions
  <2> HIDE DEF left, remembered, calls
  <2>5. /\ gone \in LauncherStates
        /\ gone.session = None /\ gone.joining = None /\ gone.generation = n
        /\ gone.hosted = FALSE /\ gone.calls = calls /\ gone.leftRunning = remembered
        /\ gone.alive = m.alive /\ gone.view = m.view
    BY <1>1, <2>4 DEF LauncherStates
  <2> HIDE DEF gone
  <2>6. CASE gone.leftRunning
    <3>1. EndSession(m) = gone
      BY <2>1, <2>6 DEF Release
    <3> QED
      BY <1>3, <2>5, <2>6, <3>1 DEF remembered, calls
  <2>7. CASE ~gone.leftRunning
    <3>1. EndSession(m) = [gone EXCEPT !.alive = gone.alive \ {gone.view}, !.view = None]
      BY <2>1, <2>7 DEF Release, StopServer
    <3>2. EndSession(m) \in LauncherStates
      BY <2>5, <3>1 DEF LauncherStates
    <3>3. LET e == EndSession(m)
          IN  /\ e.session = None /\ e.joining = None /\ e.generation = n
              /\ e.hosted = FALSE /\ e.calls = calls /\ e.leftRunning = remembered
              /\ e.alive = m.alive \ {m.view} /\ e.view = None
      BY <2>5, <3>1 DEF LauncherStates
    <3> QED
      BY <1>3, <2>5, <2>7, <3>2, <3>3 DEF remembered, calls
  <2> QED
    BY <2>6, <2>7
<1> QED
  BY <1>2, <1>3

LEMMA BeginSessionShape ==
    ASSUME NEW m \in LauncherStates, m.session = None, NEW s \in Sessions
    PROVE  LET e == BeginSession(m, s)
           IN  /\ e \in LauncherStates
               /\ e.session = s /\ e.joining = None /\ e.generation = m.generation + 1
               /\ e.alive = m.alive /\ e.view = m.view /\ e.hosted = m.hosted
               /\ e.leftRunning = m.leftRunning /\ e.calls = m.calls
<1> DEFINE e == EndSession(m)
<1>1. /\ e \in LauncherStates /\ e.joining = None /\ e.generation = m.generation + 1
      /\ e.alive = m.alive /\ e.view = m.view /\ e.hosted = m.hosted
      /\ e.leftRunning = m.leftRunning /\ e.calls = m.calls
  BY EndSessionShape
<1> HIDE DEF e
<1>2. BeginSession(m, s) = [e EXCEPT !.session = s]
  BY DEF BeginSession, e
<1> QED
  BY <1>1, <1>2 DEF LauncherStates

LEMMA StopServerShape ==
    ASSUME NEW m \in LauncherStates
    PROVE  LET e == StopServer(m)
           IN  /\ e \in LauncherStates
               /\ e.alive = m.alive \ {m.view} /\ e.view = None
               /\ e.session = m.session /\ e.joining = m.joining /\ e.generation = m.generation
               /\ e.hosted = m.hosted /\ e.leftRunning = m.leftRunning /\ e.calls = m.calls
BY DEF StopServer, LauncherStates

(* The session's server goes with it, unless a game stays behind in it. *)
LEMMA LeavingKeepsHosting ==
    ASSUME IInv
    PROVE  /\ HostingOK(EndSession(me))
           /\ ~EndSession(me).hosted
           /\ EndSession(me).alive \subseteq me.alive
<1> DEFINE e == EndSession(me)
<1>1. me \in LauncherStates /\ HostingOK(me)
  BY DEF IInv, TypeOK
<1>2. CASE me.session = None
  <2>1. e.alive = me.alive /\ e.view = me.view /\ e.hosted = me.hosted /\ e.leftRunning = me.leftRunning
    BY <1>1, <1>2, EndSessionShape
  <2>2. ~me.hosted
    BY <1>1, <1>2 DEF HostingOK
  <2> HIDE DEF e
  <2>3. HostingOK(e) /\ ~e.hosted /\ e.alive \subseteq me.alive
    BY <1>1, <2>1, <2>2 DEF HostingOK, PlayedIn
  <2> QED
    BY <2>3 DEF e
<1>3. CASE me.session # None
  <2>1. /\ e.hosted = FALSE
        /\ e.leftRunning = (me.leftRunning \/ (me.hosted /\ me.session.started))
        /\ e.leftRunning => e.alive = me.alive /\ e.view = me.view
        /\ ~e.leftRunning => e.alive = me.alive \ {me.view}
    BY <1>1, <1>3, EndSessionShape
  <2>2. me.hosted /\ me.session.started => me.session.game \in launched
    BY <1>1, <1>3 DEF IInv, SeenTrue
  <2> HIDE DEF e
  <2>3. CASE e.leftRunning
    <3>1. ASSUME NEW s \in e.alive PROVE s = e.view /\ PlayedIn(s)
      <4>1. s = me.view /\ (me.leftRunning => PlayedIn(s))
        BY <1>1, <2>1, <2>3 DEF HostingOK
      <4>2. CASE me.leftRunning
        BY <2>1, <2>3, <4>1, <4>2
      <4>3. CASE me.hosted /\ me.session.started
        <5>1. runs[me.session.game] = s /\ me.session.game \in Own
          BY <1>1, <2>1, <2>3, <4>3 DEF HostingOK
        <5> QED
          BY <2>1, <2>2, <2>3, <4>1, <4>3, <5>1 DEF PlayedIn
      <4> QED
        BY <2>1, <2>3, <4>2, <4>3
    <3>2. HostingOK(e)
      BY <2>1, <2>3, <3>1 DEF HostingOK
    <3> QED
      BY <2>1, <2>3, <3>2 DEF e
  <2>4. CASE ~e.leftRunning
    <3>1. e.alive = {}
      BY <1>1, <2>1, <2>4 DEF HostingOK
    <3> QED
      BY <2>1, <3>1 DEF HostingOK, e
  <2> QED
    BY <2>3, <2>4
<1> QED
  BY <1>2, <1>3

(* A slot that is followed and not started is given back. *)
LEMMA LeavingKeepsSlots ==
    ASSUME IInv, NEW slot \in held, lobby[slot.game] = "open", Reachable(slot.game)
    PROVE  \/ \E j \in joins : j.slot = slot /\ j.answer = "granted"
           \/ \E c \in EndSession(me).calls : c.slot = slot
           \/ slot \in lost
<1> DEFINE e == EndSession(me)
<1>1. me \in LauncherStates
  BY DEF IInv, TypeOK
<1>2. CASE me.session = None
  <2>1. e.calls = me.calls
    BY <1>1, <1>2, EndSessionShape
  <2> HIDE DEF e
  <2>2. \/ \E j \in joins : j.slot = slot /\ j.answer = "granted"
        \/ \E c \in me.calls : c.slot = slot
        \/ slot \in lost
    BY <1>2 DEF IInv, SlotsAccounted
  <2> QED
    BY <2>1, <2>2 DEF e
<1>3. CASE me.session # None
  <2>1. e.calls = me.calls \cup LeaveCalls(me.session)
    BY <1>1, <1>3, EndSessionShape
  <2> HIDE DEF e
  <2>2. CASE SlotOf(me.session) = slot
    <3>1. me.session.game = slot.game
      BY <2>2 DEF SlotOf
    <3>2. ~me.session.started
      BY <1>3, <3>1 DEF IInv, SeenTrue, Past
    <3>3. \E c \in LeaveCalls(me.session) : c.slot = slot
      BY <2>2, <3>2 DEF LeaveCalls
    <3> QED
      BY <2>1, <3>3 DEF e
  <2>3. CASE SlotOf(me.session) # slot
    <3>1. \/ \E j \in joins : j.slot = slot /\ j.answer = "granted"
          \/ \E c \in me.calls : c.slot = slot
          \/ slot \in lost
      BY <2>3 DEF IInv, SlotsAccounted
    <3> QED
      BY <2>1, <3>1 DEF e
  <2> QED
    BY <2>2, <2>3
<1> QED
  BY <1>2, <1>3

-----------------------------------------------------------------------------
(* Commands: they leave, and some then join or create *)

LEMMA FreeStays ==
    ASSUME Free, UNCHANGED starting
    PROVE  starting' \in Starts \cup {None} /\ StartingOK'
BY DEF Free, StartingOK

LEMMA LeftInv ==
    ASSUME IInv, me' \in LauncherStates,
           me'.session = None, me'.joining = None, me'.generation = me.generation + 1,
           me'.calls = EndSession(me).calls, me'.alive \subseteq me.alive, HostingOK(me)',
           starting' \in Starts \cup {None}, StartingOK',
           UNCHANGED <<lobby, runs, held, joins, lost, seen, launched, wanted>>
    PROVE  IInv'
<1>1. me \in LauncherStates /\ me.generation \in Nat
  BY DEF IInv, TypeOK, LauncherStates
<1>2. TypeOK'
  BY DEF IInv, TypeOK
<1>3. \A j \in joins : j.slot.token \in Nat
  BY DEF IInv, TypeOK, SlotIds, Tokens
<1>4. JoinsAsked'
  BY <1>1, <1>3 DEF IInv, JoinsAsked, Asked
<1>5. SeenInTime'
  <2>1. seen # None => seen.token \in Nat
    BY DEF IInv, TypeOK, Tokens
  <2>2. me.session # None => me.session.token \in Nat
    BY <1>1 DEF LauncherStates, Sessions, Tokens
  <2> QED
    BY <1>1, <2>1, <2>2 DEF IInv, SeenInTime
<1>6. FollowsLatest' /\ Opened' /\ SeenTrue'
  BY DEF IInv, FollowsLatest, Opened, SeenTrue
<1>7. SlotsAccounted'
  <2>1. \A slot \in held : Reachable(slot.game)' => Reachable(slot.game)
    BY DEF Reachable
  <2> QED
    BY <2>1, LeavingKeepsSlots DEF SlotsAccounted
<1> QED
  BY <1>2, <1>4, <1>5, <1>6, <1>7 DEF IInv

LEMMA AnnounceInv ==
    ASSUME IInv, NEW g \in Games, SessionAnnounce(g)
    PROVE  IInv'
<1> DEFINE e == EndSession(me)
           j == [slot |-> [game |-> g, token |-> e.generation], answer |-> "none"]
<1>1. /\ me \in LauncherStates /\ me.generation \in Nat
      /\ e \in LauncherStates /\ e.session = None /\ e.generation = me.generation + 1
  BY EndSessionShape DEF IInv, TypeOK, LauncherStates
<1>2. HostingOK(e) /\ e.alive \subseteq me.alive
  BY LeavingKeepsHosting
<1>3. /\ me' = [e EXCEPT !.joining = g]
      /\ joins' = joins \cup {j}
      /\ wanted' = g
      /\ lobby[g] # "none"
      /\ UNCHANGED <<lobby, runs, held, lost, seen, launched>>
      /\ starting' \in Starts \cup {None} /\ StartingOK'
  BY FreeStays DEF SessionAnnounce, Command
<1>c. e.calls = EndSession(me).calls
  OBVIOUS
<1> HIDE DEF e
<1>4. /\ me' \in LauncherStates /\ me'.session = None /\ me'.joining = g
      /\ me'.generation = me.generation + 1 /\ me'.calls = e.calls
      /\ me'.alive = e.alive /\ me'.view = e.view /\ me'.hosted = e.hosted
      /\ me'.leftRunning = e.leftRunning
  BY <1>1, <1>3 DEF LauncherStates
<1>5. j \in [slot : SlotIds, answer : {"none", "granted", "failed"}] /\ j.slot.token = me.generation + 1
      /\ j.slot.game = g
  BY <1>1 DEF SlotIds, Tokens
<1> HIDE DEF j
<1>6. TypeOK'
  BY <1>3, <1>4, <1>5 DEF IInv, TypeOK
<1>7. \A k \in joins : k.slot.token \in Nat
  BY DEF IInv, TypeOK, SlotIds, Tokens
<1>8. JoinsAsked'
  BY <1>1, <1>3, <1>4, <1>5, <1>7 DEF IInv, JoinsAsked, Asked
<1>9. SeenInTime'
  <2>1. seen # None => seen.token \in Nat
    BY DEF IInv, TypeOK, Tokens
  <2>2. me.session # None => me.session.token \in Nat
    BY <1>1 DEF LauncherStates, Sessions, Tokens
  <2> QED
    BY <1>1, <1>3, <1>4, <2>1, <2>2 DEF IInv, SeenInTime
<1>10. FollowsLatest'
  BY <1>3, <1>4, <1>5 DEF FollowsLatest, Asked
<1>11. Opened' /\ SeenTrue'
  BY <1>3, <1>4, <1>5 DEF IInv, Opened, SeenTrue
<1>12. HostingOK(me)'
  BY <1>1, <1>2, <1>3, <1>4, LeavingKeepsHosting DEF HostingOK, PlayedIn, e
<1>13. SlotsAccounted'
  <2>1. \A slot \in held : Reachable(slot.game)' => Reachable(slot.game)
    BY <1>2, <1>3, <1>4 DEF Reachable
  <2> QED
    BY <1>3, <1>4, <1>c, <2>1, LeavingKeepsSlots DEF SlotsAccounted
<1> QED
  BY <1>3, <1>6, <1>8, <1>9, <1>10, <1>11, <1>12, <1>13 DEF IInv

(* A game is created: its session begins, or the answer got lost.  The game *)
(* before, of generation n, was left in this step or before it.             *)
LEMMA CreatedInv ==
    ASSUME IInv, NEW g \in Own, NEW s \in Servers \cup {None}, lobby[g] = "none",
           NEW n \in Nat, n = me.generation + 1 \/ (n = me.generation /\ me.session = None /\ me.joining = None),
           me' \in LauncherStates, me'.joining = None, me'.calls = EndSession(me).calls,
           \A h \in Games : h # g /\ runs[h] \in me'.alive => runs[h] \in me.alive,
           HostingOK(me)', starting' = None,
           NEW slot, slot = [game |-> g, token |-> n + 1],
           lobby' = [lobby EXCEPT ![g] = "open"], runs' = [runs EXCEPT ![g] = s],
           held' = held \cup {slot},
           \/ /\ me'.session = [game |-> g, token |-> n + 1, host |-> TRUE, started |-> FALSE]
              /\ me'.generation = n + 1
              /\ wanted' = g /\ lost' = lost
           \/ /\ me'.session = None
              /\ me'.generation = n
              /\ lost' = lost \cup {slot} /\ wanted' = wanted,
           UNCHANGED <<joins, seen, launched>>
    PROVE  IInv'
<1>1. /\ me \in LauncherStates /\ me.generation \in Nat /\ g \in Games
      /\ slot \in SlotIds /\ slot.game = g
  BY DEF IInv, TypeOK, LauncherStates, Games, SlotIds, Tokens
<1>2. TypeOK'
  BY <1>1 DEF IInv, TypeOK
<1>3. \A j \in joins : j.slot.token \in Nat
  BY DEF IInv, TypeOK, SlotIds, Tokens
<1>4. JoinsAsked'
  <2>1. \A j \in joins : j.slot.game \in Games
    BY DEF IInv, TypeOK, SlotIds
  <2>2. \A j \in joins : j.slot.token <= n /\ (j.slot.token = n => n # me.generation + 1 /\ me.joining = j.slot.game)
    BY <1>1, <1>3 DEF IInv, JoinsAsked, Asked
  <2>3. \A j \in joins : j.slot.token < n
    BY <1>3, <2>1, <2>2, CommandsAssumption
  <2>4. me'.generation \in Nat /\ n <= me'.generation
    OBVIOUS
  <2> QED
    BY <1>3, <2>3, <2>4 DEF IInv, JoinsAsked, Asked
<1>5. SeenInTime'
  <2>1. seen # None => seen.token \in Nat
    BY DEF IInv, TypeOK, Tokens
  <2>2. me.session # None => me.session.token \in Nat
    BY <1>1 DEF LauncherStates, Sessions, Tokens
  <2> QED
    BY <1>1, <2>1, <2>2 DEF IInv, SeenInTime
<1>6. FollowsLatest'
  BY DEF FollowsLatest
<1>7. \A h \in Games : lobby'[h] = IF h = g THEN "open" ELSE lobby[h]
  BY DEF IInv, TypeOK
<1>8. Opened'
  <2>1. me'.session # None => me'.session.game = g
    OBVIOUS
  <2>2. \A j \in joins : j.slot.game \in Games
    BY DEF IInv, TypeOK, SlotIds
  <2>3. \A h \in held : h.game \in Games
    BY DEF IInv, TypeOK, SlotIds
  <2> QED
    BY <1>1, <1>7, <2>1, <2>2, <2>3 DEF IInv, Opened
<1>9. SeenTrue'
  <2>1. me'.session # None => me'.session.token = n + 1 /\ ~me'.session.started
    OBVIOUS
  <2>2. seen # None => seen.token \in Nat /\ seen.token <= me.generation
    <3>1. me.session # None => me.session.token \in Nat
      BY <1>1 DEF LauncherStates, Sessions, Tokens
    <3> QED
      BY <1>1, <3>1 DEF IInv, TypeOK, Tokens, SeenInTime
  <2> QED
    BY <1>1, <2>1, <2>2 DEF SeenTrue
<1>10. SlotsAccounted'
  <2> SUFFICES ASSUME NEW h \in held', lobby'[h.game] = "open", Reachable(h.game)'
               PROVE  \/ me'.session # None /\ SlotOf(me'.session) = h
                      \/ \E j \in joins : j.slot = h /\ j.answer = "granted"
                      \/ \E c \in me'.calls : c.slot = h
                      \/ h \in lost'
    BY DEF SlotsAccounted, SlotOf
  <2>1. CASE h = slot
    <3>1. [game |-> g, token |-> n + 1, host |-> TRUE, started |-> FALSE] \in Sessions
      BY <1>1 DEF Sessions, Tokens
    <3> QED
      BY <2>1, <3>1, CommandsAssumption DEF SlotOf
  <2>2. CASE h # slot
    <3>1. h \in held /\ h.game \in Games /\ h.game # g
      BY <2>2 DEF IInv, TypeOK, SlotIds, Opened
    <3>2. lobby[h.game] = "open"
      BY <1>7, <3>1
    <3>3. runs'[h.game] = runs[h.game]
      BY <1>1, <3>1 DEF IInv, TypeOK
    <3>4. Reachable(h.game)
      BY <3>1, <3>3 DEF Reachable
    <3> QED
      BY <3>1, <3>2, <3>4, LeavingKeepsSlots
  <2> QED
    BY <2>1, <2>2
<1>11. StartingOK'
  BY DEF StartingOK
<1> QED
  BY <1>2, <1>4, <1>5, <1>6, <1>8, <1>9, <1>10, <1>11 DEF IInv

LEMMA EnterStep == ASSUME IInv, EnterChannel PROVE IInv'
<1> DEFINE e == EndSession(me)
<1>1. /\ me \in LauncherStates /\ e \in LauncherStates
      /\ e.session = None /\ e.joining = None /\ e.generation = me.generation + 1
      /\ e.calls = EndSession(me).calls
  BY EndSessionShape DEF IInv, TypeOK
<1>2. HostingOK(e) /\ e.alive \subseteq me.alive
  BY LeavingKeepsHosting
<1>3. /\ me' = [e EXCEPT !.channel = TRUE]
      /\ starting' \in Starts \cup {None} /\ StartingOK'
      /\ UNCHANGED <<lobby, runs, held, joins, lost, seen, launched, wanted>>
  BY FreeStays DEF EnterChannel, Command
<1> HIDE DEF e
<1>4. /\ me' \in LauncherStates /\ me'.session = e.session /\ me'.joining = e.joining
      /\ me'.generation = e.generation /\ me'.calls = e.calls /\ me'.alive = e.alive
      /\ me'.view = e.view /\ me'.hosted = e.hosted /\ me'.leftRunning = e.leftRunning
  BY <1>1, <1>3 DEF LauncherStates
<1>5. HostingOK(me)'
  BY <1>2, <1>3, <1>4 DEF HostingOK, PlayedIn
<1> QED
  BY <1>1, <1>2, <1>3, <1>4, <1>5, LeftInv

LEMMA PartStep == ASSUME IInv, PartChannel PROVE IInv'
<1> DEFINE e == EndSession(me)
<1>1. /\ me \in LauncherStates /\ e \in LauncherStates
      /\ e.session = None /\ e.joining = None /\ e.generation = me.generation + 1
      /\ e.calls = EndSession(me).calls
  BY EndSessionShape DEF IInv, TypeOK
<1>2. HostingOK(e) /\ e.alive \subseteq me.alive
  BY LeavingKeepsHosting
<1>3. /\ me' = [e EXCEPT !.channel = FALSE]
      /\ starting' \in Starts \cup {None} /\ StartingOK'
      /\ UNCHANGED <<lobby, runs, held, joins, lost, seen, launched, wanted>>
  BY FreeStays DEF PartChannel, Command
<1> HIDE DEF e
<1>4. /\ me' \in LauncherStates /\ me'.session = e.session /\ me'.joining = e.joining
      /\ me'.generation = e.generation /\ me'.calls = e.calls /\ me'.alive = e.alive
      /\ me'.view = e.view /\ me'.hosted = e.hosted /\ me'.leftRunning = e.leftRunning
  BY <1>1, <1>3 DEF LauncherStates
<1>5. HostingOK(me)'
  BY <1>2, <1>3, <1>4 DEF HostingOK, PlayedIn
<1> QED
  BY <1>1, <1>2, <1>3, <1>4, <1>5, LeftInv

LEMMA ResetStep == ASSUME IInv, CommandReset \/ Disconnect PROVE IInv'
<1> DEFINE e == EndSession(me)
           stopped == StopServer(e)
<1>1. /\ me \in LauncherStates /\ e \in LauncherStates
      /\ e.session = None /\ e.joining = None /\ e.generation = me.generation + 1
      /\ e.calls = EndSession(me).calls
  BY EndSessionShape DEF IInv, TypeOK
<1>2. HostingOK(e) /\ ~e.hosted /\ e.alive \subseteq me.alive
  BY LeavingKeepsHosting
<1>3. /\ me' = [stopped EXCEPT !.leftRunning = FALSE] \/ me' = [stopped EXCEPT !.page = FALSE]
      /\ starting' \in Starts \cup {None} /\ StartingOK'
      /\ UNCHANGED <<lobby, runs, held, joins, lost, seen, launched, wanted>>
  BY FreeStays DEF CommandReset, Disconnect, Command
<1> HIDE DEF e
<1>4. /\ stopped \in LauncherStates /\ stopped.alive = e.alive \ {e.view} /\ ~stopped.hosted
      /\ stopped.session = None /\ stopped.joining = None
      /\ stopped.generation = me.generation + 1 /\ stopped.calls = EndSession(me).calls
  BY <1>1, <1>2, StopServerShape
<1>5. stopped.alive = {}
  BY <1>2, <1>4 DEF HostingOK
<1> HIDE DEF stopped
<1>6. /\ me' \in LauncherStates /\ me'.alive = {} /\ ~me'.hosted
      /\ me'.session = None /\ me'.joining = None
      /\ me'.generation = me.generation + 1 /\ me'.calls = EndSession(me).calls
  BY <1>3, <1>4, <1>5 DEF LauncherStates
<1>7. HostingOK(me)'
  BY <1>6 DEF HostingOK
<1> QED
  BY <1>3, <1>6, <1>7, LeftInv

(* me is as leaving made it. *)
LEMMA OnlyLeft ==
    ASSUME IInv, me' = EndSession(me), starting' \in Starts \cup {None}, StartingOK',
           UNCHANGED <<lobby, runs, held, joins, lost, seen, launched, wanted>>
    PROVE  IInv'
<1> DEFINE e == EndSession(me)
<1>1. /\ e \in LauncherStates
      /\ e.session = None /\ e.joining = None /\ e.generation = me.generation + 1
  BY EndSessionShape DEF IInv, TypeOK
<1>2. HostingOK(e) /\ e.alive \subseteq me.alive
  BY LeavingKeepsHosting
<1>3. me' = e
  OBVIOUS
<1> HIDE DEF e
<1>4. HostingOK(me)'
  BY <1>2, <1>3 DEF HostingOK, PlayedIn
<1>5. me'.calls = EndSession(me).calls
  OBVIOUS
<1> QED
  BY <1>1, <1>2, <1>3, <1>4, <1>5, LeftInv

(* The session that create_session begins *)
LEMMA CreatedShape ==
    ASSUME NEW m \in LauncherStates, m.session = None, NEW g \in Games
    PROVE  LET c == Created(m, g)
           IN  /\ c \in LauncherStates
               /\ c.session = [game |-> g, token |-> m.generation + 1, host |-> TRUE, started |-> FALSE]
               /\ c.session # None
               /\ c.joining = None /\ c.generation = m.generation + 1
               /\ c.alive = m.alive /\ c.view = m.view /\ c.hosted = m.hosted
               /\ c.leftRunning = m.leftRunning /\ c.calls = m.calls
<1> DEFINE s == [game |-> g, token |-> m.generation + 1, host |-> TRUE, started |-> FALSE]
<1>1. s \in Sessions /\ s # None
  <2>1. m.generation + 1 \in Nat
    BY DEF LauncherStates
  <2>2. s \in Sessions
    BY <2>1 DEF Sessions, Tokens
  <2> QED
    BY <2>2, CommandsAssumption
<1>2. Created(m, g) = BeginSession(m, s)
  BY DEF Created
<1> HIDE DEF s
<1>3. LET c == BeginSession(m, s)
      IN  /\ c \in LauncherStates /\ c.session = s /\ c.joining = None
          /\ c.generation = m.generation + 1
          /\ c.alive = m.alive /\ c.view = m.view /\ c.hosted = m.hosted
          /\ c.leftRunning = m.leftRunning /\ c.calls = m.calls
  BY <1>1, BeginSessionShape
<1> QED
  BY <1>1, <1>2, <1>3 DEF s

LEMMA StartGameStep == ASSUME IInv, NEW g \in Own, CommandStartGame(g) PROVE IInv'
<1> DEFINE e == EndSession(me)
           c == Created(e, g)
           n == e.generation
           slot == [game |-> g, token |-> n + 1]
<1>1. /\ me \in LauncherStates /\ me.generation \in Nat /\ g \in Games
      /\ e \in LauncherStates /\ e.session = None /\ e.generation = me.generation + 1
      /\ e.joining = None
  BY EndSessionShape DEF IInv, TypeOK, LauncherStates, Games
<1>2. HostingOK(e) /\ ~e.hosted /\ e.alive \subseteq me.alive /\ e.calls = EndSession(me).calls
  BY LeavingKeepsHosting
<1>3. CreateSession(e, g, None, c, e) /\ starting' = None
  BY DEF CommandStartGame, Command, Free
<1>s. starting' \in Starts \cup {None} /\ StartingOK'
  BY <1>3 DEF StartingOK
<1>4. /\ c \in LauncherStates /\ c.session # None
      /\ c.session = [game |-> g, token |-> e.generation + 1, host |-> TRUE, started |-> FALSE]
      /\ c.joining = None /\ c.generation = e.generation + 1
      /\ c.alive = e.alive /\ c.view = e.view /\ c.hosted = e.hosted
      /\ c.leftRunning = e.leftRunning /\ c.calls = e.calls
  BY <1>1, CreatedShape
<1>5. lobby[g] = "none" /\ g \notin launched
  BY <1>1, <1>3 DEF CreateSession, IInv, Opened
<1>6. CASE me' = e /\ UNCHANGED <<lobby, runs, held, lost, wanted>>
  BY <1>3, <1>s, <1>6, OnlyLeft DEF CreateSession
<1>7. CASE \/ me' = c /\ wanted' = g /\ UNCHANGED lost
           \/ me' = e /\ lost' = lost \cup {slot} /\ UNCHANGED wanted
  <2>1. ASSUME me' = c \/ me' = e,
               lobby' = [lobby EXCEPT ![g] = "open"], runs' = [runs EXCEPT ![g] = None],
               UNCHANGED launched
        PROVE  HostingOK(me)'
    <3>1. /\ me'.alive = e.alive /\ me'.view = e.view /\ me'.hosted = e.hosted
          /\ me'.leftRunning = e.leftRunning
      BY <1>4, <2>1
    <3>2. \A h \in Own : h # g => runs'[h] = runs[h] /\ lobby'[h] = lobby[h]
      BY <2>1 DEF IInv, TypeOK, Games
    <3>3. \A s \in Servers : PlayedIn(s) => PlayedIn(s)'
      BY <1>5, <2>1, <3>2 DEF PlayedIn
    <3>4. e.alive \subseteq Servers
      BY <1>1 DEF LauncherStates
    <3> HIDE DEF e, c
    <3> QED
      BY <1>2, <1>5, <2>1, <3>1, <3>2, <3>3, <3>4 DEF HostingOK
  <2>2. CASE lobby' = [lobby EXCEPT ![g] = "open"] /\ runs' = [runs EXCEPT ![g] = None]
             /\ held' = held \cup {slot}
    <3>1. HostingOK(me)' /\ UNCHANGED <<joins, seen, launched>>
      BY <1>3, <1>7, <2>1, <2>2 DEF CreateSession
    <3>2. slot = [game |-> g, token |-> n + 1] /\ n \in Nat /\ n = me.generation + 1
      BY <1>1
    <3>3. \A h \in Games : h # g /\ runs[h] \in me'.alive => runs[h] \in me.alive
      BY <1>2, <1>4, <1>7
    <3>4. me' \in LauncherStates /\ me'.joining = None /\ me'.calls = EndSession(me).calls
      BY <1>1, <1>2, <1>4, <1>7
    <3>5. \/ /\ me'.session = [game |-> g, token |-> n + 1, host |-> TRUE, started |-> FALSE]
             /\ me'.generation = n + 1
             /\ wanted' = g /\ lost' = lost
          \/ /\ me'.session = None
             /\ me'.generation = n
             /\ lost' = lost \cup {slot} /\ wanted' = wanted
      BY <1>1, <1>4, <1>7, <3>2
    <3> HIDE DEF e, c, n, slot
    <3> QED
      BY <1>5, <2>2, <1>3, <3>1, <3>2, <3>3, <3>4, <3>5, CreatedInv
  <2> QED
    BY <1>3, <1>6, <1>7, <2>2 DEF CreateSession
<1> QED
  BY <1>3, <1>6, <1>7 DEF CreateSession

(* Hosting a game created in launcher state m on server s, which m's view has *)
(* if it has any server that runs                                             *)
LEMMA HostingShape ==
    ASSUME NEW m \in LauncherStates, m.session = None, NEW g \in Games, NEW s \in Servers,
           \A r \in m.alive : r = s
    PROVE  LET c == Hosting(Created(m, g), s)
           IN  /\ c \in LauncherStates /\ c.session # None
               /\ c.session = [game |-> g, token |-> m.generation + 1, host |-> TRUE, started |-> FALSE]
               /\ c.joining = None /\ c.generation = m.generation + 1
               /\ c.alive \subseteq m.alive /\ c.view = s /\ c.hosted = TRUE
               /\ c.leftRunning = m.leftRunning /\ c.calls = m.calls
<1> DEFINE a == Created(m, g)
           b == IF a.view = s THEN a ELSE StopServer(a)
<1>1. /\ a \in LauncherStates /\ a.session # None
      /\ a.session = [game |-> g, token |-> m.generation + 1, host |-> TRUE, started |-> FALSE]
      /\ a.joining = None /\ a.generation = m.generation + 1
      /\ a.alive = m.alive /\ a.leftRunning = m.leftRunning /\ a.calls = m.calls
  BY CreatedShape
<1>2. Hosting(a, s) = [b EXCEPT !.hosted = TRUE, !.view = s]
  BY DEF Hosting
<1> HIDE DEF a
<1>3. /\ b \in LauncherStates /\ b.session = a.session
      /\ b.joining = a.joining /\ b.generation = a.generation
      /\ b.alive \subseteq a.alive /\ b.leftRunning = a.leftRunning /\ b.calls = a.calls
  BY <1>1, StopServerShape
<1> HIDE DEF b
<1>4. LET c == [b EXCEPT !.hosted = TRUE, !.view = s]
      IN  /\ c \in LauncherStates /\ c.session = b.session
          /\ c.joining = b.joining /\ c.generation = b.generation
          /\ c.alive = b.alive /\ c.view = s /\ c.hosted = TRUE
          /\ c.leftRunning = b.leftRunning /\ c.calls = b.calls
  BY <1>3 DEF LauncherStates
<1> QED
  BY <1>1, <1>2, <1>3, <1>4 DEF a

LEMMA AlongsideStep == ASSUME IInv, NEW g \in Own, NEW same \in BOOLEAN, CommandHostAlongside(g, same)
                       PROVE  IInv'
<1> DEFINE e == EndSession(me)
           s == e.view
           c == Hosting(Created(e, g), s)
           n == e.generation
           slot == [game |-> g, token |-> n + 1]
<1>1. /\ me \in LauncherStates /\ me.generation \in Nat /\ g \in Games
      /\ e \in LauncherStates /\ e.session = None /\ e.generation = me.generation + 1
      /\ e.joining = None
  BY EndSessionShape DEF IInv, TypeOK, LauncherStates, Games
<1>2. HostingOK(e) /\ ~e.hosted /\ e.alive \subseteq me.alive /\ e.calls = EndSession(me).calls
  BY LeavingKeepsHosting
<1>s. starting' = None /\ starting' \in Starts \cup {None} /\ StartingOK'
  BY FreeStays DEF CommandHostAlongside, Command, Free
<1>3. CASE ~same
  <2>1. me' = e /\ UNCHANGED <<lobby, runs, held, joins, lost, seen, launched, wanted>>
    BY <1>3 DEF CommandHostAlongside
  <2> QED
    BY <1>s, <2>1, OnlyLeft
<1>4. CASE same
  <2>1. CreateSession(e, g, s, c, e) /\ s \in e.alive
    BY <1>4 DEF CommandHostAlongside, Running
  <2>2. s \in Servers /\ e.alive \subseteq Servers /\ \A r \in e.alive : r = s
    BY <1>1, <1>2, <2>1 DEF HostingOK, LauncherStates
  <2>3. /\ c \in LauncherStates /\ c.session # None
        /\ c.session = [game |-> g, token |-> e.generation + 1, host |-> TRUE, started |-> FALSE]
        /\ c.joining = None /\ c.generation = e.generation + 1
        /\ c.alive \subseteq e.alive /\ c.view = s /\ c.hosted = TRUE
        /\ c.leftRunning = e.leftRunning /\ c.calls = e.calls
    BY <1>1, <2>2, HostingShape
  <2>4. lobby[g] = "none" /\ g \notin launched
    BY <1>1, <2>1 DEF CreateSession, IInv, Opened
  <2>5. CASE me' = e /\ UNCHANGED <<lobby, runs, held, lost, wanted>>
    BY <2>1, <1>s, <2>5, OnlyLeft DEF CreateSession
  <2>6. CASE /\ lobby' = [lobby EXCEPT ![g] = "open"] /\ runs' = [runs EXCEPT ![g] = s]
             /\ held' = held \cup {slot}
             /\ \/ me' = c /\ wanted' = g /\ UNCHANGED lost
                \/ me' = e /\ lost' = lost \cup {slot} /\ UNCHANGED wanted
    <3>1. UNCHANGED <<joins, seen, launched>>
      BY <2>1 DEF CreateSession
    <3>2. \A h \in Own : h # g => runs'[h] = runs[h] /\ lobby'[h] = lobby[h]
      BY <2>6 DEF IInv, TypeOK, Games
    <3>3. \A r \in Servers : PlayedIn(r) => PlayedIn(r)'
      BY <2>4, <3>1, <3>2 DEF PlayedIn
    <3>4. /\ me'.view = s /\ me'.leftRunning = e.leftRunning /\ me'.alive \subseteq e.alive
          /\ me' \in LauncherStates /\ me'.joining = None /\ me'.calls = EndSession(me).calls
          /\ me'.hosted => me'.session # None /\ me'.session.game = g
          /\ me'.alive \subseteq {s}
      BY <1>1, <1>2, <2>2, <2>3, <2>6
    <3>5. e.leftRunning /\ PlayedIn(s)
      BY <1>2, <2>1 DEF HostingOK
    <3>6. runs'[g] = s
      BY <1>1, <2>6 DEF IInv, TypeOK
    <3>7. slot = [game |-> g, token |-> n + 1] /\ n \in Nat /\ n = me.generation + 1
      BY <1>1
    <3>8. \A h \in Games : h # g /\ runs[h] \in me'.alive => runs[h] \in me.alive
      BY <1>2, <3>4
    <3>9. \/ /\ me'.session = [game |-> g, token |-> n + 1, host |-> TRUE, started |-> FALSE]
             /\ me'.generation = n + 1
             /\ wanted' = g /\ lost' = lost
          \/ /\ me'.session = None
             /\ me'.generation = n
             /\ lost' = lost \cup {slot} /\ wanted' = wanted
      BY <1>1, <2>3, <2>6, <3>7
    <3> HIDE DEF e, s, c, n, slot
    <3>10. HostingOK(me)'
      BY <2>2, <3>3, <3>4, <3>5, <3>6 DEF HostingOK
    <3> QED
      BY <2>2, <2>4, <2>6, <3>1, <3>4, <3>7, <3>8, <3>9, <3>10, <1>s, CreatedInv
  <2> QED
    BY <2>1, <2>5, <2>6 DEF CreateSession
<1> QED
  BY <1>3, <1>4

LEMMA HostGameStep == ASSUME IInv, NEW g \in Own, NEW s \in Servers, CommandHostGame(g, s)
                      PROVE  IInv'
<1> DEFINE e == EndSession(me)
           start == [game |-> g, server |-> s, line |-> "none", alive |-> TRUE]
<1>1. /\ e \in LauncherStates /\ e.session = None /\ e.joining = None
  BY EndSessionShape DEF IInv, TypeOK
<1>2. HostingOK(e) /\ ~e.hosted
  BY LeavingKeepsHosting
<1>3. /\ me' = e /\ e.view \notin e.alive /\ \A h \in Games : runs[h] # s
      /\ starting' = start
      /\ UNCHANGED <<lobby, runs, held, joins, lost, seen, launched, wanted>>
  BY DEF CommandHostGame, Running
<1>4. start \in Starts /\ start.server = s
  BY DEF Starts
<1> HIDE DEF e, start
<1>5. e.alive = {}
  BY <1>2, <1>3 DEF HostingOK
<1>6. starting' \in Starts \cup {None}
  BY <1>3, <1>4
<1>7. StartingOK'
  BY <1>1, <1>2, <1>3, <1>4, <1>5 DEF StartingOK
<1> QED
  BY <1>3, <1>6, <1>7, OnlyLeft DEF e

LEMMA HostFailsStep == ASSUME IInv, CommandHostFails PROVE IInv'
BY OnlyLeft, FreeStays DEF CommandHostFails, Command

-----------------------------------------------------------------------------
(* Servers that stop *)

(* The current game is left as it is. *)
LEMMA QuietInv ==
    ASSUME IInv, me' \in LauncherStates,
           me'.session = me.session, me'.joining = me.joining, me'.generation = me.generation,
           me'.calls = me.calls, me'.alive \subseteq me.alive, HostingOK(me)',
           starting' \in Starts \cup {None}, StartingOK', seen' \in {seen, None},
           UNCHANGED <<lobby, runs, held, joins, lost, launched, wanted>>
    PROVE  IInv'
<1>1. TypeOK'
  BY DEF IInv, TypeOK
<1>2. JoinsAsked' /\ SeenInTime' /\ FollowsLatest'
  BY DEF IInv, JoinsAsked, SeenInTime, FollowsLatest, Asked
<1>3. Opened' /\ SeenTrue'
  BY DEF IInv, Opened, SeenTrue, Past
<1>4. SlotsAccounted'
  <2>1. \A slot \in held : Reachable(slot.game)' => Reachable(slot.game)
    BY DEF Reachable
  <2> QED
    BY <2>1 DEF IInv, SlotsAccounted, SlotOf
<1> QED
  BY <1>1, <1>2, <1>3, <1>4 DEF IInv

LEMMA PressStopStep == ASSUME IInv, PressStopServer \/ CheckServer PROVE IInv'
<1>1. me \in LauncherStates /\ HostingOK(me)
  BY DEF IInv, TypeOK
<1>2. /\ me' = StopServer(me)
      /\ starting' \in Starts \cup {None} /\ StartingOK'
      /\ UNCHANGED <<lobby, runs, held, joins, lost, seen, launched, wanted>>
  BY FreeStays DEF PressStopServer, CheckServer
<1>3. /\ me' \in LauncherStates /\ me'.alive = me.alive \ {me.view}
      /\ me'.session = me.session /\ me'.joining = me.joining /\ me'.generation = me.generation
      /\ me'.hosted = me.hosted /\ me'.leftRunning = me.leftRunning /\ me'.calls = me.calls
  BY <1>1, <1>2, StopServerShape
<1>4. me'.alive = {}
  BY <1>1, <1>3 DEF HostingOK
<1>5. HostingOK(me)'
  BY <1>1, <1>2, <1>3, <1>4 DEF HostingOK
<1> QED
  BY <1>2, <1>3, <1>4, <1>5, QuietInv

LEMMA ServerExitsStep == ASSUME IInv, NEW s \in Servers, ServerExits(s) PROVE IInv'
<1>1. me \in LauncherStates /\ HostingOK(me) /\ starting \in Starts \cup {None} /\ StartingOK
  BY DEF IInv, TypeOK
<1>2. /\ me' = [me EXCEPT !.alive = me.alive \ {s}]
      /\ UNCHANGED <<starting, lobby, runs, held, joins, lost, seen, launched, wanted>>
  BY DEF ServerExits
<1>3. /\ me' \in LauncherStates /\ me'.alive = me.alive \ {s} /\ me'.view = me.view
      /\ me'.session = me.session /\ me'.joining = me.joining /\ me'.generation = me.generation
      /\ me'.hosted = me.hosted /\ me'.leftRunning = me.leftRunning /\ me'.calls = me.calls
  BY <1>1, <1>2 DEF LauncherStates
<1>4. HostingOK(me)'
  BY <1>1, <1>2, <1>3 DEF HostingOK, PlayedIn
<1>5. StartingOK'
  BY <1>1, <1>2, <1>3 DEF StartingOK
<1>6. starting' \in Starts \cup {None} /\ me'.alive \subseteq me.alive
  BY <1>1, <1>2, <1>3
<1> QED
  BY <1>2, <1>3, <1>4, <1>5, <1>6, QuietInv

-----------------------------------------------------------------------------
(* The server that is waited for *)

LEMMA ReportStep ==
    ASSUME IInv, (\E listens \in BOOLEAN : ServerReports(listens)) \/ StartingExits \/ HostGameFails
    PROVE  IInv'
<1>1. /\ me \in LauncherStates /\ HostingOK(me) /\ StartingOK
      /\ starting \in Starts
  BY DEF IInv, TypeOK, ServerReports, StartingExits, HostGameFails
<1>2. /\ UNCHANGED <<me, lobby, runs, held, joins, lost, seen, launched, wanted>>
      /\ starting # None
      /\ \/ starting' = [starting EXCEPT !.line = "listening"]
         \/ starting' = [starting EXCEPT !.line = "error", !.alive = FALSE]
         \/ starting' = [starting EXCEPT !.alive = FALSE]
         \/ starting' = None
  BY DEF ServerReports, StartingExits, HostGameFails
<1>3. starting' \in Starts \cup {None} /\ (starting' # None => starting'.server = starting.server)
  BY <1>1, <1>2 DEF Starts
<1>4. HostingOK(me)' /\ StartingOK'
  BY <1>1, <1>2, <1>3 DEF HostingOK, PlayedIn, StartingOK
<1> QED
  BY <1>1, <1>2, <1>3, <1>4, QuietInv

LEMMA HostStartedStep == ASSUME IInv, HostGameStarted PROVE IInv'
<1> DEFINE g == starting.game
           s == starting.server
           n == me.generation
           on == Listening(me, s)
           c == Hosting(Created(on, g), s)
           down == NotHosted(on, s)
           slot == [game |-> g, token |-> n + 1]
<1>1. /\ me \in LauncherStates /\ n \in Nat /\ g \in Own /\ g \in Games /\ s \in Servers
      /\ starting # None /\ starting' = None
  BY DEF IInv, TypeOK, LauncherStates, Starts, Games, HostGameStarted
<1>2. /\ me.session = None /\ me.joining = None /\ ~me.hosted /\ me.alive = {}
      /\ \A h \in Games : runs[h] # s
  BY <1>1 DEF IInv, StartingOK
<1>3. EndSession(me).calls = me.calls
  BY <1>1, <1>2, EndSessionShape
<1>4. /\ on \in LauncherStates /\ on.session = None /\ on.generation = n
      /\ on.joining = None /\ on.alive = {s} /\ ~on.leftRunning /\ ~on.hosted
      /\ on.calls = me.calls
  BY <1>1, <1>2 DEF Listening, LauncherStates
<1>5. \/ CreateSession(on, g, s, c, down)
      \/ me' = down /\ UNCHANGED <<lobby, runs, held, joins, lost, seen, launched, wanted>>
  BY DEF HostGameStarted
<1>6. CreateSession(on, g, s, c, down) =>
        /\ lobby[g] = "none"
        /\ \/ /\ lobby' = [lobby EXCEPT ![g] = "open"] /\ runs' = [runs EXCEPT ![g] = s]
              /\ held' = held \cup {[game |-> g, token |-> on.generation + 1]}
              /\ \/ me' = c /\ wanted' = g /\ UNCHANGED lost
                 \/ /\ me' = down /\ lost' = lost \cup {[game |-> g, token |-> on.generation + 1]}
                    /\ UNCHANGED wanted
           \/ me' = down /\ UNCHANGED <<lobby, runs, held, lost, wanted>>
        /\ UNCHANGED <<joins, seen, launched>>
  BY DEF CreateSession
<1>7. slot = [game |-> g, token |-> on.generation + 1]
  BY <1>4
<1> HIDE DEF on
<1>8. /\ down \in LauncherStates /\ down.session = None /\ down.generation = n
      /\ down.joining = None /\ down.alive = {} /\ ~down.hosted /\ down.calls = me.calls
  BY <1>4 DEF NotHosted, LauncherStates
<1>9. /\ c \in LauncherStates /\ c.session # None
      /\ c.session = [game |-> g, token |-> n + 1, host |-> TRUE, started |-> FALSE]
      /\ c.joining = None /\ c.generation = n + 1
      /\ c.alive \subseteq on.alive /\ c.view = s /\ c.hosted = TRUE
      /\ c.leftRunning = on.leftRunning /\ c.calls = on.calls
  <2>1. \A r \in on.alive : r = s
    BY <1>4
  <2>2. on \in LauncherStates /\ on.session = None /\ on.generation = n
    BY <1>4
  <2> HIDE DEF g, s, n, c
  <2>3. LET h == Hosting(Created(on, g), s)
        IN  /\ h \in LauncherStates /\ h.session # None
            /\ h.session = [game |-> g, token |-> on.generation + 1, host |-> TRUE, started |-> FALSE]
            /\ h.joining = None /\ h.generation = on.generation + 1
            /\ h.alive \subseteq on.alive /\ h.view = s /\ h.hosted = TRUE
            /\ h.leftRunning = on.leftRunning /\ h.calls = on.calls
    BY <1>1, <2>1, <2>2, HostingShape
  <2> QED
    BY <2>2, <2>3 DEF c
<1> HIDE DEF c, down, slot
<1>10. StartingOK' /\ starting' \in Starts \cup {None}
  BY <1>1 DEF StartingOK
<1>11. CASE me' = down /\ UNCHANGED <<lobby, runs, held, joins, lost, seen, launched, wanted>>
  <2>1. HostingOK(me)'
    BY <1>8, <1>11 DEF HostingOK
  <2>2. /\ me' \in LauncherStates /\ me'.session = me.session /\ me'.joining = me.joining
        /\ me'.generation = me.generation /\ me'.calls = me.calls /\ me'.alive \subseteq me.alive
    BY <1>2, <1>8, <1>11
  <2> QED
    BY <1>10, <1>11, <2>1, <2>2, QuietInv
<1>12. CASE /\ lobby[g] = "none"
            /\ lobby' = [lobby EXCEPT ![g] = "open"] /\ runs' = [runs EXCEPT ![g] = s]
            /\ held' = held \cup {slot}
            /\ \/ me' = c /\ wanted' = g /\ UNCHANGED lost
               \/ me' = down /\ lost' = lost \cup {slot} /\ UNCHANGED wanted
            /\ UNCHANGED <<joins, seen, launched>>
  <2> HIDE DEF g, s, n
  <2>1. \A h \in Own : h # g => runs'[h] # s
    BY <1>2, <1>12 DEF IInv, TypeOK, Games
  <2>2. runs'[g] = s /\ g \notin launched
    BY <1>1, <1>12 DEF IInv, TypeOK, Opened
  <2>3. /\ me' \in LauncherStates /\ me'.joining = None /\ me'.calls = EndSession(me).calls
        /\ me'.alive \subseteq {s}
        /\ me'.alive # {} => me'.view = s /\ me'.hosted /\ ~me'.leftRunning
        /\ me'.hosted => me'.session # None /\ me'.session.game = g
    BY <1>3, <1>4, <1>8, <1>9, <1>12
  <2>4. \A h \in Games : h # g /\ runs[h] \in me'.alive => runs[h] \in me.alive
    BY <1>2, <2>3
  <2>5. \/ /\ me'.session = [game |-> g, token |-> n + 1, host |-> TRUE, started |-> FALSE]
           /\ me'.generation = n + 1
           /\ wanted' = g /\ lost' = lost
        \/ /\ me'.session = None
           /\ me'.generation = n
           /\ lost' = lost \cup {slot} /\ wanted' = wanted
    BY <1>8, <1>9, <1>12
  <2>6. HostingOK(me)'
    BY <1>1, <1>12, <2>1, <2>2, <2>3 DEF HostingOK
  <2>7. slot = [game |-> g, token |-> n + 1] /\ n = me.generation
    BY DEF slot, n
  <2> QED
    BY <1>1, <1>2, <1>12, <2>3, <2>4, <2>5, <2>6, <2>7, CreatedInv
<1> QED
  BY <1>5, <1>6, <1>7, <1>11, <1>12

-----------------------------------------------------------------------------
(* Joins and leaves *)

LEMMA JoinCallStep == ASSUME IInv, NEW j \in joins, JoinCall(j) PROVE IInv'
<1> DEFINE granted == [j EXCEPT !.answer = "granted"]
           failed == [j EXCEPT !.answer = "failed"]
<1>1. /\ j \in [slot : SlotIds, answer : {"none", "granted", "failed"}]
      /\ joins \subseteq [slot : SlotIds, answer : {"none", "granted", "failed"}]
      /\ j.answer = "none"
  BY DEF IInv, TypeOK, JoinCall
<1>2. /\ granted \in [slot : SlotIds, answer : {"none", "granted", "failed"}]
      /\ failed \in [slot : SlotIds, answer : {"none", "granted", "failed"}]
      /\ granted.slot = j.slot /\ failed.slot = j.slot /\ granted.answer = "granted"
  BY <1>1
<1> HIDE DEF granted, failed
<1>3. PICK a \in {granted, failed} :
        /\ joins' = (joins \ {j}) \cup {a}
        /\ \/ held' = held \cup {j.slot} /\ a = granted /\ UNCHANGED lost /\ lobby[j.slot.game] = "open"
           \/ held' = held \cup {j.slot} /\ a = failed /\ lost' = lost \cup {j.slot}
              /\ lobby[j.slot.game] = "open"
           \/ a = failed /\ UNCHANGED <<held, lost>>
  BY DEF JoinCall, Answer, granted, failed
<1>4. UNCHANGED <<me, starting, lobby, runs, seen, launched, wanted>>
  BY DEF JoinCall
<1>5. a \in [slot : SlotIds, answer : {"none", "granted", "failed"}] /\ a.slot = j.slot
  BY <1>2, <1>3
<1>6. j.slot \in SlotIds
  BY <1>1
<1>7. TypeOK'
  BY <1>3, <1>4, <1>5, <1>6 DEF IInv, TypeOK
<1>8. JoinsAsked' /\ SeenInTime'
  BY <1>3, <1>4, <1>5 DEF IInv, JoinsAsked, SeenInTime, Asked
<1>9. FollowsLatest'
  BY <1>3, <1>4, <1>5 DEF IInv, FollowsLatest, Asked
<1>10. Opened' /\ SeenTrue'
  BY <1>3, <1>4, <1>5 DEF IInv, Opened, SeenTrue, Past
<1>11. HostingOK(me)' /\ StartingOK'
  BY <1>4 DEF IInv, HostingOK, PlayedIn, StartingOK
<1>12. SlotsAccounted'
  <2> SUFFICES ASSUME NEW slot \in held', lobby[slot.game] = "open", Reachable(slot.game)
               PROVE  \/ me.session # None /\ SlotOf(me.session) = slot
                      \/ \E k \in joins' : k.slot = slot /\ k.answer = "granted"
                      \/ \E c \in me.calls : c.slot = slot
                      \/ slot \in lost'
    BY <1>4 DEF SlotsAccounted, Reachable, SlotOf
  <2>1. CASE slot \in held
    <3>1. \A k \in joins : k.answer = "granted" => k \in joins'
      BY <1>1, <1>3
    <3>2. lost \subseteq lost'
      BY <1>3
    <3> QED
      BY <2>1, <3>1, <3>2 DEF IInv, SlotsAccounted
  <2>2. CASE slot \notin held
    BY <1>2, <1>3, <2>2
  <2> QED
    BY <2>1, <2>2
<1> QED
  BY <1>7, <1>8, <1>9, <1>10, <1>11, <1>12 DEF IInv

(* An answer in time begins the session of the game last asked for; a slot *)
(* that comes too late goes into a call of its own.                        *)
LEMMA JoinedGameStep == ASSUME IInv, NEW j \in joins, JoinedGame(j) PROVE IInv'
<1>1. /\ me \in LauncherStates /\ me.generation \in Nat
      /\ j.slot \in SlotIds /\ j.slot.game \in Games /\ j.slot.token \in Nat
      /\ j.answer \in {"granted", "failed"}
  BY DEF IInv, TypeOK, LauncherStates, SlotIds, Tokens, JoinedGame
<1>2. /\ joins' = joins \ {j}
      /\ starting' \in Starts \cup {None} /\ StartingOK'
      /\ UNCHANGED <<lobby, runs, held, lost, seen, launched, wanted>>
  BY FreeStays DEF JoinedGame
<1>3. \A k \in joins : k.slot.token \in Nat
  BY DEF IInv, TypeOK, SlotIds, Tokens
<1>4. seen # None => seen.token \in Nat
  BY DEF IInv, TypeOK, Tokens
<1>5. CASE Asked(j) /\ j.answer = "granted"
  <2> DEFINE s == [game |-> j.slot.game, token |-> j.slot.token, host |-> FALSE, started |-> FALSE]
  <2>1. me' = BeginSession(me, s)
    BY <1>5 DEF JoinedGame
  <2>2. s \in Sessions /\ s # None /\ SlotOf(s) = j.slot
    <3>1. j.slot = [game |-> j.slot.game, token |-> j.slot.token]
      BY <1>1 DEF SlotIds
    <3>2. s \in Sessions
      BY <1>1 DEF Sessions, Tokens
    <3>3. s.game = j.slot.game /\ s.token = j.slot.token
      OBVIOUS
    <3> HIDE DEF s
    <3> QED
      BY <3>1, <3>2, <3>3, CommandsAssumption DEF SlotOf
  <2>3. me.joining = j.slot.game /\ me.joining # None
    BY <1>1, <1>5, CommandsAssumption DEF IInv, JoinsAsked
  <2>4. me.session = None /\ me.joining = wanted
    BY <2>3 DEF IInv, FollowsLatest
  <2>5. /\ s.game = j.slot.game /\ s.token = j.slot.token /\ ~s.started
    OBVIOUS
  <2> HIDE DEF s
  <2>6. /\ me' \in LauncherStates
        /\ me'.session = s /\ me'.joining = None /\ me'.generation = me.generation + 1
        /\ me'.alive = me.alive /\ me'.view = me.view /\ me'.hosted = me.hosted
        /\ me'.leftRunning = me.leftRunning /\ me'.calls = me.calls
    BY <1>1, <2>1, <2>2, <2>4, BeginSessionShape
  <2>7. TypeOK'
    BY <1>2, <2>6 DEF IInv, TypeOK
  <2>8. JoinsAsked' /\ FollowsLatest'
    BY <1>1, <1>2, <1>3, <2>3, <2>4, <2>5, <2>6 DEF IInv, JoinsAsked, FollowsLatest, Asked
  <2>9. j.slot.token = me.generation
    BY <1>5 DEF Asked
  <2>10. seen # None => seen.token < me.generation
    BY <2>4 DEF IInv, SeenInTime
  <2>11. SeenInTime' /\ SeenTrue'
    BY <1>1, <1>2, <1>4, <2>5, <2>6, <2>9, <2>10 DEF SeenInTime, SeenTrue
  <2>12. Opened'
    BY <1>2, <2>5, <2>6 DEF IInv, Opened
  <2>13. HostingOK(me)'
    BY <1>2, <2>4, <2>6 DEF IInv, HostingOK, PlayedIn
  <2>14. SlotsAccounted'
    <3>1. \A slot \in held : Reachable(slot.game)' => Reachable(slot.game)
      BY <1>2, <2>6 DEF Reachable
    <3>2. SlotOf(me'.session) = j.slot /\ me'.session # None
      BY <2>2, <2>6
    <3>3. SlotOf(me.session)' = SlotOf(me'.session)
      BY DEF SlotOf
    <3> QED
      BY <1>2, <2>4, <2>6, <3>1, <3>2, <3>3 DEF IInv, SlotsAccounted
  <2> QED
    BY <1>2, <2>7, <2>8, <2>11, <2>12, <2>13, <2>14 DEF IInv
<1>6. CASE Asked(j) /\ j.answer = "failed"
  <2>1. me' = [me EXCEPT !.joining = None]
    BY <1>6 DEF JoinedGame
  <2>2. /\ me' \in LauncherStates
        /\ me'.session = me.session /\ me'.joining = None /\ me'.generation = me.generation
        /\ me'.alive = me.alive /\ me'.view = me.view /\ me'.hosted = me.hosted
        /\ me'.leftRunning = me.leftRunning /\ me'.calls = me.calls
    BY <1>1, <2>1 DEF LauncherStates
  <2>3. TypeOK'
    BY <1>2, <2>2 DEF IInv, TypeOK
  <2>4. JoinsAsked'
    BY <1>2, <1>6, <2>2 DEF IInv, JoinsAsked, Asked
  <2>5. SeenInTime' /\ FollowsLatest'
    BY <1>2, <2>2 DEF IInv, SeenInTime, FollowsLatest
  <2>6. Opened' /\ SeenTrue'
    BY <1>2, <2>2 DEF IInv, Opened, SeenTrue, Past
  <2>7. HostingOK(me)'
    BY <1>2, <2>2 DEF IInv, HostingOK, PlayedIn
  <2>8. SlotsAccounted'
    BY <1>2, <1>6, <2>2 DEF IInv, SlotsAccounted, Reachable, SlotOf
  <2> QED
    BY <1>2, <2>3, <2>4, <2>5, <2>6, <2>7, <2>8 DEF IInv
<1>7. CASE ~Asked(j)
  <2> DEFINE c == [what |-> "leave", slot |-> j.slot]
  <2>1. c \in Calls /\ c.slot = j.slot
    BY <1>1 DEF Calls
  <2>2. me' = IF j.answer = "granted" THEN [me EXCEPT !.calls = @ \cup {c}] ELSE me
    BY <1>1, <1>7 DEF JoinedGame
  <2> HIDE DEF c
  <2>3. /\ me' \in LauncherStates
        /\ me'.session = me.session /\ me'.joining = me.joining /\ me'.generation = me.generation
        /\ me'.alive = me.alive /\ me'.view = me.view /\ me'.hosted = me.hosted
        /\ me'.leftRunning = me.leftRunning
        /\ me'.calls = IF j.answer = "granted" THEN me.calls \cup {c} ELSE me.calls
    BY <1>1, <2>1, <2>2 DEF LauncherStates
  <2>4. TypeOK'
    BY <1>2, <2>3 DEF IInv, TypeOK
  <2>5. JoinsAsked' /\ SeenInTime'
    BY <1>2, <2>3 DEF IInv, JoinsAsked, SeenInTime, Asked
  <2>6. FollowsLatest'
    BY <1>2, <1>7, <2>3 DEF IInv, FollowsLatest, Asked
  <2>7. Opened' /\ SeenTrue'
    BY <1>2, <2>3 DEF IInv, Opened, SeenTrue, Past
  <2>8. HostingOK(me)'
    BY <1>2, <2>3 DEF IInv, HostingOK, PlayedIn
  <2>9. SlotsAccounted'
    BY <1>2, <2>1, <2>3 DEF IInv, SlotsAccounted, Reachable, SlotOf
  <2> QED
    BY <1>2, <2>4, <2>5, <2>6, <2>7, <2>8, <2>9 DEF IInv
<1> QED
  BY <1>1, <1>5, <1>6, <1>7

(* A game that goes on in its lobby *)
LEMMA LobbyInv ==
    ASSUME IInv, NEW g \in Games, lobby[g] # "none", NEW state \in {"running", "ended"},
           lobby' = [lobby EXCEPT ![g] = state],
           state = "running" => lobby[g] = "open",
           UNCHANGED <<me, starting, runs, held, joins, lost, seen, launched, wanted>>
    PROVE  IInv'
<1>1. \A h \in Games : lobby'[h] = IF h = g THEN state ELSE lobby[h]
  BY DEF IInv, TypeOK
<1>2. TypeOK'
  BY DEF IInv, TypeOK
<1>3. JoinsAsked' /\ SeenInTime' /\ FollowsLatest'
  BY DEF IInv, JoinsAsked, SeenInTime, FollowsLatest, Asked
<1>4. \A h \in Games : lobby[h] # "none" => lobby'[h] # "none"
  BY <1>1
<1>5. /\ \A j \in joins : j.slot.game \in Games
      /\ \A slot \in held : slot.game \in Games
      /\ me.session # None => me.session.game \in Games
  BY DEF IInv, TypeOK, SlotIds, LauncherStates, Sessions
<1>6. Opened'
  BY <1>4, <1>5 DEF IInv, Opened
<1>7. SeenTrue'
  BY <1>1, <1>5 DEF IInv, SeenTrue, Past
<1>8. HostingOK(me)'
  <2>1. g \in launched /\ state = "running" => FALSE
    BY DEF IInv, Opened
  <2> QED
    BY <1>1, <2>1 DEF IInv, HostingOK, PlayedIn, Games
<1>9. SlotsAccounted'
  BY <1>1, <1>5 DEF IInv, SlotsAccounted, Reachable, SlotOf
<1>10. StartingOK'
  BY DEF IInv, StartingOK
<1> QED
  BY <1>2, <1>3, <1>6, <1>7, <1>8, <1>9, <1>10 DEF IInv

LEMMA LobbyStep == ASSUME IInv, NEW g \in Games, LobbyStarts(g) \/ LobbyEnds(g) PROVE IInv'
<1>1. CASE LobbyStarts(g)
  BY <1>1, LobbyInv DEF LobbyStarts
<1>2. CASE LobbyEnds(g)
  BY <1>2, LobbyInv DEF LobbyEnds
<1> QED
  BY <1>1, <1>2

LEMMA LeaveCallStep == ASSUME IInv, NEW c \in me.calls, LeaveCall(c) PROVE IInv'
<1> DEFINE g == c.slot.game
<1>1. /\ me \in LauncherStates /\ c \in Calls /\ c.slot \in SlotIds /\ g \in Games
  BY DEF IInv, TypeOK, LauncherStates, Calls, SlotIds
<1>2. /\ me' = [me EXCEPT !.calls = me.calls \ {c}]
      /\ UNCHANGED <<starting, runs, joins, seen, launched, wanted>>
  BY DEF LeaveCall
<1>3. /\ me' \in LauncherStates /\ me'.calls = me.calls \ {c}
      /\ me'.session = me.session /\ me'.joining = me.joining /\ me'.generation = me.generation
      /\ me'.alive = me.alive /\ me'.view = me.view /\ me'.hosted = me.hosted
      /\ me'.leftRunning = me.leftRunning
  BY <1>1, <1>2 DEF LauncherStates
<1>4. \/ /\ held' = IF lobby[g] = "open" THEN held \ {c.slot} ELSE held
         /\ UNCHANGED <<lobby, lost>>
      \/ /\ lobby' = [lobby EXCEPT ![g] = "ended"]
         /\ UNCHANGED <<held, lost>>
      \/ lost' = lost \cup {c.slot} /\ UNCHANGED <<lobby, held>>
  BY DEF LeaveCall
<1>5. held' \subseteq held /\ lost \subseteq lost'
  BY <1>4
<1>6. \A h \in Games : lobby'[h] = lobby[h] \/ (h = g /\ lobby'[h] = "ended")
  BY <1>1, <1>4 DEF IInv, TypeOK
<1> HIDE DEF g
<1>7. TypeOK'
  BY <1>1, <1>2, <1>3, <1>4 DEF IInv, TypeOK
<1>8. JoinsAsked' /\ SeenInTime' /\ FollowsLatest'
  BY <1>2, <1>3 DEF IInv, JoinsAsked, SeenInTime, FollowsLatest, Asked
<1>9. /\ \A j \in joins : j.slot.game \in Games
      /\ \A slot \in held : slot.game \in Games
      /\ me.session # None => me.session.game \in Games
  BY <1>1 DEF IInv, TypeOK, SlotIds, LauncherStates, Sessions
<1>10. Opened'
  BY <1>2, <1>3, <1>5, <1>6, <1>9 DEF IInv, Opened
<1>11. SeenTrue'
  BY <1>2, <1>3, <1>6, <1>9 DEF IInv, SeenTrue, Past
<1>12. HostingOK(me)'
  BY <1>2, <1>3, <1>6 DEF IInv, HostingOK, PlayedIn, Games
<1>13. SlotsAccounted'
  <2> SUFFICES ASSUME NEW slot \in held', lobby'[slot.game] = "open", Reachable(slot.game)'
               PROVE  \/ me.session # None /\ SlotOf(me.session) = slot
                      \/ \E j \in joins : j.slot = slot /\ j.answer = "granted"
                      \/ \E d \in me'.calls : d.slot = slot
                      \/ slot \in lost'
    BY <1>2, <1>3 DEF SlotsAccounted, SlotOf
  <2>1. slot \in held /\ lobby[slot.game] = "open" /\ Reachable(slot.game)
    BY <1>2, <1>3, <1>5, <1>6, <1>9 DEF Reachable
  <2>2. slot = c.slot => slot \in lost'
    BY <1>4, <1>6, <1>9, <2>1 DEF g, IInv, TypeOK
  <2> QED
    BY <1>3, <1>5, <2>1, <2>2 DEF IInv, SlotsAccounted
<1>14. StartingOK'
  BY <1>2, <1>3 DEF IInv, StartingOK
<1> QED
  BY <1>7, <1>8, <1>10, <1>11, <1>12, <1>13, <1>14 DEF IInv

-----------------------------------------------------------------------------
(* The session *)

LEMMA WatchStep == ASSUME IInv, Watch PROVE IInv'
<1>1. /\ me.session # None
      /\ seen' = [token |-> me.session.token, state |-> lobby[me.session.game]]
      /\ UNCHANGED <<me, starting, lobby, runs, held, joins, lost, launched, wanted>>
  BY DEF Watch
<1>2. /\ me.session \in Sessions /\ me.session.game \in Games /\ me.session.token \in Tokens
      /\ lobby[me.session.game] \in {"none", "open", "running", "ended"}
  BY <1>1 DEF IInv, TypeOK, LauncherStates, Sessions
<1>3. seen'.token = me.session.token /\ seen'.state = lobby[me.session.game]
  BY <1>1
<1>4. TypeOK'
  BY <1>1, <1>2 DEF IInv, TypeOK
<1>5. JoinsAsked' /\ FollowsLatest' /\ Opened'
  BY <1>1 DEF IInv, JoinsAsked, FollowsLatest, Opened, Asked
<1>6. SeenInTime' /\ SeenTrue'
  BY <1>1, <1>3 DEF IInv, SeenInTime, SeenTrue, Past
<1>7. HostingOK(me)' /\ StartingOK' /\ SlotsAccounted'
  BY <1>1 DEF IInv, HostingOK, PlayedIn, StartingOK, SlotsAccounted, Reachable, SlotOf
<1> QED
  BY <1>4, <1>5, <1>6, <1>7 DEF IInv

(* A session that ended leaves no slot to give back, and its server nothing *)
(* to run for, unless a game is left running in it.                         *)
LEMMA SessionEndedStep ==
    ASSUME IInv, HandleSnapshot, me.session # None, me.session.token = seen.token,
           seen.state = "ended"
    PROVE  IInv'
<1> DEFINE g == me.session.game
           gone == [me EXCEPT !.session = None, !.hosted = FALSE]
           over == Release(gone)
<1>1. /\ me \in LauncherStates /\ me.session \in Sessions /\ g \in Games
      /\ seen # None
  BY DEF IInv, TypeOK, LauncherStates, Sessions, HandleSnapshot
<1>2. /\ me' = over
      /\ seen' = None
      /\ starting' \in Starts \cup {None} /\ StartingOK'
      /\ UNCHANGED <<lobby, runs, held, joins, lost, launched, wanted>>
  BY FreeStays DEF HandleSnapshot, SessionEnded
<1>3. lobby[g] = "ended"
  BY <1>1 DEF IInv, SeenTrue, Past
<1>4. me.joining = None
  BY DEF IInv, FollowsLatest
<1>5. /\ gone \in LauncherStates /\ gone.session = None /\ gone.hosted = FALSE
      /\ gone.joining = me.joining /\ gone.generation = me.generation
      /\ gone.leftRunning = me.leftRunning /\ gone.calls = me.calls
      /\ gone.alive = me.alive /\ gone.view = me.view
  BY <1>1 DEF LauncherStates
<1> HIDE DEF gone
<1>6. /\ over \in LauncherStates /\ over.session = None /\ over.hosted = FALSE
      /\ over.joining = me.joining /\ over.generation = me.generation
      /\ over.leftRunning = me.leftRunning /\ over.calls = me.calls
      /\ me.leftRunning => over.alive = me.alive /\ over.view = me.view
      /\ ~me.leftRunning => over.alive = me.alive \ {me.view}
  <2>1. CASE me.leftRunning
    BY <1>5, <2>1 DEF Release
  <2>2. CASE ~me.leftRunning
    BY <1>5, <2>2, StopServerShape DEF Release
  <2> QED
    BY <2>1, <2>2
<1> HIDE DEF over
<1>7. /\ me' \in LauncherStates /\ me'.session = None /\ me'.hosted = FALSE
      /\ me'.joining = me.joining /\ me'.generation = me.generation
      /\ me'.leftRunning = me.leftRunning /\ me'.calls = me.calls
      /\ me.leftRunning => me'.alive = me.alive /\ me'.view = me.view
      /\ ~me.leftRunning => me'.alive = me.alive \ {me.view}
  BY <1>2, <1>6
<1>8. TypeOK'
  BY <1>2, <1>7 DEF IInv, TypeOK
<1>9. JoinsAsked' /\ SeenInTime' /\ FollowsLatest' /\ Opened' /\ SeenTrue'
  BY <1>2, <1>4, <1>7 DEF IInv, JoinsAsked, SeenInTime, FollowsLatest, Opened, SeenTrue, Asked
<1>10. HostingOK(me)'
  <2>1. CASE me.leftRunning
    BY <1>2, <1>7, <2>1 DEF IInv, HostingOK, PlayedIn
  <2>2. CASE ~me.leftRunning
    <3>1. me'.alive = {}
      BY <1>7, <2>2 DEF IInv, HostingOK
    <3> QED
      BY <1>7, <3>1 DEF HostingOK
  <2> QED
    BY <2>1, <2>2
<1>11. SlotsAccounted'
  <2> SUFFICES ASSUME NEW slot \in held, lobby[slot.game] = "open", Reachable(slot.game)'
               PROVE  \/ \E j \in joins : j.slot = slot /\ j.answer = "granted"
                      \/ \E c \in me.calls : c.slot = slot
                      \/ slot \in lost
    BY <1>2, <1>7 DEF SlotsAccounted
  <2>1. Reachable(slot.game)
    BY <1>2, <1>7 DEF Reachable
  <2>2. SlotOf(me.session) # slot
    BY <1>3 DEF SlotOf
  <2> QED
    BY <2>1, <2>2 DEF IInv, SlotsAccounted
<1> QED
  BY <1>2, <1>8, <1>9, <1>10, <1>11 DEF IInv

(* FS-UAE is launched for the session's game, which has started. *)
LEMMA LaunchStep ==
    ASSUME IInv, HandleSnapshot, me.session # None, me.session.token = seen.token,
           seen.state = "running", ~me.session.started
    PROVE  IInv'
<1> DEFINE g == me.session.game
           s == [me.session EXCEPT !.started = TRUE]
<1>1. /\ me \in LauncherStates /\ me.session \in Sessions /\ g \in Games
      /\ launched \subseteq Games
  BY DEF IInv, TypeOK, LauncherStates, Sessions
<1>2. /\ launched' = launched \cup {g}
      /\ me' = [me EXCEPT !.session.started = TRUE]
      /\ seen # None /\ seen' = None
      /\ starting' \in Starts \cup {None} /\ StartingOK'
      /\ UNCHANGED <<lobby, runs, held, joins, lost, wanted>>
  BY FreeStays DEF HandleSnapshot
<1>3. lobby[g] \in {"running", "ended"}
  BY <1>2 DEF IInv, SeenTrue, Past
<1>5. s \in Sessions /\ s.game = g /\ s.token = me.session.token /\ s.started
  BY <1>1 DEF Sessions
<1>6. me' = [me EXCEPT !.session = s]
  BY <1>1, <1>2 DEF LauncherStates
<1> HIDE DEF s
<1>8. /\ me' \in LauncherStates /\ me'.session = s
      /\ me'.alive = me.alive /\ me'.view = me.view /\ me'.joining = me.joining
      /\ me'.generation = me.generation /\ me'.hosted = me.hosted
      /\ me'.leftRunning = me.leftRunning /\ me'.calls = me.calls
  BY <1>1, <1>5, <1>6 DEF LauncherStates
<1>4. launched' \subseteq Games /\ g \in launched' /\ launched \subseteq launched'
  BY <1>1, <1>2
<1>9. TypeOK'
  BY <1>2, <1>4, <1>8 DEF IInv, TypeOK
<1>10. s # None /\ g # None
  BY <1>1, <1>5, CommandsAssumption
<1>11. JoinsAsked' /\ SeenInTime' /\ FollowsLatest'
  BY <1>2, <1>5, <1>8, <1>10 DEF IInv, JoinsAsked, SeenInTime, FollowsLatest, Asked
<1>12. Opened'
  BY <1>2, <1>3, <1>5, <1>8 DEF IInv, Opened
<1>13. SeenTrue'
  BY <1>2, <1>3, <1>4, <1>5, <1>8, <1>10 DEF SeenTrue, Past
<1>15. HostingOK(me)'
  <2>1. \A t \in Servers : PlayedIn(t) => PlayedIn(t)'
    BY <1>2 DEF PlayedIn, Games
  <2>2. me.alive \subseteq Servers
    BY <1>1 DEF LauncherStates
  <2>3. \A t \in me'.alive :
           t = me'.view /\ (me'.hosted \/ me'.leftRunning) /\ (me'.leftRunning => PlayedIn(t)')
    BY <1>8, <2>1, <2>2 DEF IInv, HostingOK
  <2>4. me'.hosted => /\ me'.session # None
                      /\ me'.session.game \in Own
                      /\ \A t \in me'.alive : runs'[me'.session.game] = t
    BY <1>2, <1>5, <1>8, <1>10 DEF IInv, HostingOK
  <2>5. ASSUME NEW h \in Own, h \in launched', runs'[h] \in me'.alive, lobby'[h] = "running"
        PROVE  me'.leftRunning \/ (me'.hosted /\ me'.session.started /\ me'.session.game = h)
    <3>1. h \in Games
      BY DEF Games
    <3>2. CASE h = g
      BY <1>2, <1>5, <1>8, <2>5, <3>2 DEF IInv, HostingOK
    <3>3. CASE h # g
      BY <1>2, <1>5, <1>8, <2>5, <3>1, <3>3 DEF IInv, HostingOK
    <3> QED
      BY <3>2, <3>3
  <2> QED
    BY <2>3, <2>4, <2>5 DEF HostingOK, PlayedIn
<1>16. SlotsAccounted'
  <2>1. SlotOf(s) = SlotOf(me.session)
    BY <1>5 DEF SlotOf
  <2>2. \A h : Reachable(h)' = Reachable(h)
    BY <1>2, <1>8 DEF Reachable
  <2>3. SlotOf(me.session)' = SlotOf(s)
    BY <1>8 DEF SlotOf
  <2> QED
    BY <1>2, <1>8, <1>10, <2>1, <2>2, <2>3 DEF IInv, SlotsAccounted
<1> QED
  BY <1>2, <1>9, <1>11, <1>12, <1>13, <1>15, <1>16 DEF IInv

LEMMA HandleSnapshotStep == ASSUME IInv, HandleSnapshot PROVE IInv'
<1>1. /\ seen' = None /\ me \in LauncherStates /\ HostingOK(me)
      /\ starting' \in Starts \cup {None} /\ StartingOK'
      /\ UNCHANGED <<lobby, runs, held, joins, lost, wanted>>
  BY FreeStays DEF HandleSnapshot, IInv, TypeOK
<1>2. CASE UNCHANGED <<me, launched>>
  <2>1. HostingOK(me)'
    BY <1>1, <1>2 DEF HostingOK, PlayedIn
  <2> QED
    BY <1>1, <1>2, <2>1, QuietInv
<1>3. CASE me.session # None /\ me.session.token = seen.token /\ seen.state = "ended"
  BY <1>3, SessionEndedStep
<1>4. CASE /\ me.session # None /\ me.session.token = seen.token
           /\ seen.state = "running" /\ ~me.session.started
  BY <1>4, LaunchStep
<1> QED
  BY <1>2, <1>3, <1>4 DEF HandleSnapshot

-----------------------------------------------------------------------------
(* The invariant *)

LEMMA InitIInv == Init => IInv
<1> SUFFICES ASSUME Init PROVE IInv
  OBVIOUS
<1>1. /\ me.session = None /\ me.joining = None /\ me.alive = {} /\ me.hosted = FALSE
      /\ me.generation = 0 /\ me.calls = {}
  BY DEF Init
<1>2. me \in LauncherStates
  BY DEF Init, LauncherStates
<1>3. TypeOK
  BY <1>2 DEF Init, TypeOK
<1>4. JoinsAsked /\ SeenInTime /\ FollowsLatest /\ Opened /\ SeenTrue /\ StartingOK
  BY <1>1 DEF Init, JoinsAsked, SeenInTime, FollowsLatest, Opened, SeenTrue, StartingOK
<1>5. HostingOK(me) /\ SlotsAccounted
  BY <1>1 DEF Init, HostingOK, SlotsAccounted
<1> QED
  BY <1>3, <1>4, <1>5 DEF IInv

LEMMA NextIInv == IInv /\ [Next]_vars => IInv'
<1> SUFFICES ASSUME IInv, [Next]_vars PROVE IInv'
  OBVIOUS
<1>1. CASE EnterChannel
  BY <1>1, EnterStep
<1>2. CASE PartChannel
  BY <1>2, PartStep
<1>3. CASE CommandReset \/ Disconnect
  BY <1>3, ResetStep
<1>4. ASSUME NEW g \in Games, SessionAnnounce(g) PROVE IInv'
  BY <1>4, AnnounceInv
<1>5. ASSUME NEW g \in Own, CommandStartGame(g) PROVE IInv'
  BY <1>5, StartGameStep
<1>6. ASSUME NEW g \in Own, NEW same \in BOOLEAN, CommandHostAlongside(g, same) PROVE IInv'
  BY <1>6, AlongsideStep
<1>7. ASSUME NEW g \in Own, NEW s \in Servers, CommandHostGame(g, s) PROVE IInv'
  BY <1>7, HostGameStep
<1>8. CASE CommandHostFails
  BY <1>8, HostFailsStep
<1>9. CASE PressStopServer \/ CheckServer
  BY <1>9, PressStopStep
<1>10. ASSUME NEW s \in Servers, ServerExits(s) PROVE IInv'
  BY <1>10, ServerExitsStep
<1>11. ASSUME NEW j \in joins, JoinCall(j) PROVE IInv'
  BY <1>11, JoinCallStep
<1>12. ASSUME NEW j \in joins, JoinedGame(j) PROVE IInv'
  BY <1>12, JoinedGameStep
<1>13. ASSUME NEW c \in me.calls, LeaveCall(c) PROVE IInv'
  BY <1>13, LeaveCallStep
<1>14. ASSUME NEW g \in Games, LobbyStarts(g) \/ LobbyEnds(g) PROVE IInv'
  BY <1>14, LobbyStep
<1>15. CASE Watch
  BY <1>15, WatchStep
<1>16. CASE HandleSnapshot
  BY <1>16, HandleSnapshotStep
<1>17. CASE (\E listens \in BOOLEAN : ServerReports(listens)) \/ StartingExits \/ HostGameFails
  BY <1>17, ReportStep
<1>18. CASE HostGameStarted
  BY <1>18, HostStartedStep
<1>19. CASE UNCHANGED vars
  <2>1. UNCHANGED <<me, starting, lobby, runs, held, joins, lost, seen, launched, wanted>>
    BY <1>19 DEF vars
  <2>2. TypeOK' /\ JoinsAsked' /\ SeenInTime' /\ FollowsLatest'
    BY <2>1 DEF IInv, TypeOK, JoinsAsked, SeenInTime, FollowsLatest, Asked
  <2>3. Opened' /\ SeenTrue'
    BY <2>1 DEF IInv, Opened, SeenTrue, Past
  <2>4. HostingOK(me)' /\ StartingOK' /\ SlotsAccounted'
    BY <2>1 DEF IInv, HostingOK, PlayedIn, StartingOK, SlotsAccounted, Reachable, SlotOf
  <2> QED
    BY <2>2, <2>3, <2>4 DEF IInv
<1> QED
  BY <1>1, <1>2, <1>3, <1>4, <1>5, <1>6, <1>7, <1>8, <1>9, <1>10, <1>11, <1>12, <1>13,
     <1>14, <1>15, <1>16, <1>17, <1>18, <1>19 DEF Next

LEMMA IInvAlways == Spec => []IInv
<1>1. Init => IInv
  BY InitIInv
<1>2. IInv /\ [Next]_vars => IInv'
  BY NextIInv
<1> QED
  BY <1>1, <1>2, PTL DEF Spec

-----------------------------------------------------------------------------
(* Servers that are played in *)

(* Whatever is left, the server of a game that goes on stays. *)
LEMMA ServedStays ==
    ASSUME IInv, NEW g \in Own, Served(g)
    PROVE  /\ runs[g] \in me.alive /\ runs[g] = me.view
           /\ me.leftRunning \/ (me.hosted /\ me.session # None /\ me.session.started /\ me.session.game = g)
           /\ runs[g] \in EndSession(me).alive /\ runs[g] = EndSession(me).view
<1> DEFINE e == EndSession(me)
<1>1. me \in LauncherStates /\ HostingOK(me)
  BY DEF IInv, TypeOK
<1>2. runs[g] \in me.alive
  BY DEF Served, Reachable
<1>3. /\ runs[g] = me.view
      /\ me.leftRunning \/ (me.hosted /\ me.session # None /\ me.session.started /\ me.session.game = g)
  BY <1>1, <1>2 DEF Served, HostingOK
<1>4. e.alive = me.alive /\ e.view = me.view
  <2>1. CASE me.session = None
    BY <1>1, <2>1, EndSessionShape
  <2>2. CASE me.session # None
    <3>1. e.leftRunning = (me.leftRunning \/ (me.hosted /\ me.session.started))
          /\ (e.leftRunning => e.alive = me.alive /\ e.view = me.view)
      BY <1>1, <2>2, EndSessionShape
    <3> HIDE DEF e
    <3> QED
      BY <1>3, <3>1
  <2> QED
    BY <2>1, <2>2
<1> QED
  BY <1>2, <1>3, <1>4

LEMMA CreatedStays ==
    ASSUME IInv, NEW g \in Own, Served(g), NEW h \in Own,
           me' \in {EndSession(me), Created(EndSession(me), h),
                    Hosting(Created(EndSession(me), h), EndSession(me).view)}
    PROVE  runs[g] \in me'.alive
<1> DEFINE e == EndSession(me)
           c == Created(e, h)
<1>1. e \in LauncherStates /\ e.session = None /\ h \in Games
  BY EndSessionShape DEF IInv, TypeOK, Games
<1>2. runs[g] \in e.alive
  BY ServedStays
<1> HIDE DEF e
<1>3. c \in LauncherStates /\ c.alive = e.alive /\ c.view = e.view
  BY <1>1, CreatedShape
<1> HIDE DEF c
<1>4. Hosting(c, e.view) = [c EXCEPT !.hosted = TRUE, !.view = e.view]
  BY <1>3 DEF Hosting
<1>5. Hosting(c, e.view).alive = c.alive
  BY <1>3, <1>4 DEF LauncherStates
<1> QED
  BY <1>2, <1>3, <1>5 DEF c, e

LEMMA EndingStays ==
    ASSUME IInv, NEW g \in Own, Served(g), HandleSnapshot
    PROVE  runs[g] \in me'.alive
<1>1. /\ me \in LauncherStates /\ runs[g] \in me.alive
      /\ me.leftRunning \/ (me.session # None /\ me.session.game = g)
  BY ServedStays DEF IInv, TypeOK
<1>2. CASE me.session # None /\ me.session.token = seen.token /\ seen.state = "ended"
  <2> DEFINE gone == [me EXCEPT !.session = None, !.hosted = FALSE]
  <2>1. lobby[me.session.game] = "ended"
    BY <1>2 DEF HandleSnapshot, IInv, SeenTrue, Past
  <2>2. me.leftRunning
    BY <1>1, <2>1 DEF Served
  <2>3. gone \in LauncherStates /\ gone.alive = me.alive /\ gone.leftRunning
    BY <1>1, <2>2 DEF LauncherStates
  <2>4. me' = Release(gone)
    BY <1>2 DEF HandleSnapshot, SessionEnded
  <2> HIDE DEF gone
  <2> QED
    BY <1>1, <2>3, <2>4 DEF Release
<1>3. CASE UNCHANGED me
  BY <1>1, <1>3
<1>4. CASE me' = [me EXCEPT !.session.started = TRUE]
  BY <1>1, <1>4 DEF LauncherStates
<1> QED
  BY <1>2, <1>3, <1>4 DEF HandleSnapshot

LEMMA KeepsServer ==
    ASSUME IInv, Next, NEW g \in Own, Served(g), runs[g] \notin me'.alive
    PROVE  PressStopServer \/ CommandReset \/ Disconnect \/ ServerExits(runs[g])
<1> DEFINE e == EndSession(me)
<1>1. /\ me \in LauncherStates /\ e \in LauncherStates /\ e.session = None
      /\ runs[g] \in me.alive /\ runs[g] = me.view /\ runs[g] \in e.alive /\ runs[g] = e.view
  BY ServedStays, EndSessionShape DEF IInv, TypeOK
<1>2. ~UNCHANGED me
  BY <1>1
<1>3. ASSUME EnterChannel \/ PartChannel PROVE FALSE
  <2>1. PICK b \in BOOLEAN : me' = [e EXCEPT !.channel = b]
    BY <1>3 DEF EnterChannel, PartChannel
  <2> HIDE DEF e
  <2> QED
    BY <1>1, <2>1 DEF LauncherStates
<1>4. ASSUME NEW h \in Games, SessionAnnounce(h) PROVE FALSE
  <2>1. me' = [e EXCEPT !.joining = h]
    BY <1>4 DEF SessionAnnounce
  <2> HIDE DEF e
  <2> QED
    BY <1>1, <2>1 DEF LauncherStates
<1>5. ASSUME NEW h \in Own, CommandStartGame(h) PROVE FALSE
  BY <1>5, CreatedStays DEF CommandStartGame, CreateSession
<1>6. ASSUME NEW h \in Own, NEW same \in BOOLEAN, CommandHostAlongside(h, same) PROVE FALSE
  BY <1>6, CreatedStays DEF CommandHostAlongside, CreateSession
<1>7. ASSUME (\E h \in Own, s \in Servers : CommandHostGame(h, s)) \/ CommandHostFails PROVE FALSE
  BY <1>1, <1>7 DEF CommandHostGame, CommandHostFails, Running
<1>8. ASSUME NEW s \in Servers, ServerExits(s) PROVE ServerExits(runs[g])
  <2>1. me' = [me EXCEPT !.alive = me.alive \ {s}]
    BY <1>8 DEF ServerExits
  <2>2. me'.alive = me.alive \ {s}
    BY <1>1, <2>1 DEF LauncherStates
  <2>3. runs[g] = s
    BY <1>1, <2>2
  <2> QED
    BY <1>8, <2>3
<1>9. ~CheckServer
  BY <1>1 DEF CheckServer
<1>10. ASSUME NEW j \in joins, JoinedGame(j) PROVE FALSE
  <2> DEFINE s == [game |-> j.slot.game, token |-> j.slot.token, host |-> FALSE, started |-> FALSE]
  <2>1. CASE Asked(j) /\ j.answer = "granted"
    <3>1. j.slot.game \in Games /\ j.slot.token \in Tokens
      BY DEF IInv, TypeOK, SlotIds
    <3>2. s \in Sessions
      BY <3>1 DEF Sessions
    <3>3. me.session = None
      BY <2>1, <3>1, CommandsAssumption DEF IInv, JoinsAsked, FollowsLatest
    <3>4. me' = BeginSession(me, s)
      BY <2>1, <1>10 DEF JoinedGame
    <3> HIDE DEF s
    <3> QED
      BY <1>1, <3>2, <3>3, <3>4, BeginSessionShape
  <2>2. CASE ~(Asked(j) /\ j.answer = "granted")
    <3>1. \/ me' = [me EXCEPT !.joining = None]
          \/ me' = [me EXCEPT !.calls = @ \cup {[what |-> "leave", slot |-> j.slot]}]
          \/ me' = me
      BY <2>2, <1>10 DEF JoinedGame
    <3> QED
      BY <1>1, <3>1 DEF LauncherStates
  <2> QED
    BY <2>1, <2>2
<1>11. ASSUME NEW c \in me.calls, LeaveCall(c) PROVE FALSE
  <2>1. me' = [me EXCEPT !.calls = @ \ {c}]
    BY <1>11 DEF LeaveCall
  <2> QED
    BY <1>1, <2>1 DEF LauncherStates
<1>12. ~HandleSnapshot
  BY EndingStays
<1>13. ~HostGameStarted
  BY <1>1 DEF HostGameStarted, IInv, StartingOK
<1>14. /\ \A j \in joins : ~JoinCall(j)
       /\ \A h \in Games : ~LobbyStarts(h) /\ ~LobbyEnds(h)
       /\ ~Watch /\ ~StartingExits /\ ~HostGameFails /\ \A listens \in BOOLEAN : ~ServerReports(listens)
  BY <1>2 DEF JoinCall, LobbyStarts, LobbyEnds, Watch, StartingExits, HostGameFails, ServerReports
<1> QED
  BY <1>3, <1>4, <1>5, <1>6, <1>7, <1>8, <1>9, <1>10, <1>11, <1>12, <1>13, <1>14 DEF Next

-----------------------------------------------------------------------------
(***************************************************************************)
(* The launcher's record, its joins, its calls and what the lobbies hold   *)
(* for it stay well formed (netplay.py, Server.py).                        *)
(***************************************************************************)
THEOREM CommandsTypeCorrect == Spec => []TypeOK
<1>1. IInv => TypeOK
  BY DEF IInv
<1> QED
  BY <1>1, IInvAlways, PTL

(***************************************************************************)
(* Whatever comes between a join and its answer, no lobby is left holding  *)
(* a slot nobody wants (joined_game, leave_quietly, end_session).          *)
(***************************************************************************)
THEOREM SlotsAreAccounted == Spec => []SlotsAccounted
<1>1. IInv => SlotsAccounted
  BY DEF IInv
<1> QED
  BY <1>1, IInvAlways, PTL

(***************************************************************************)
(* The launcher follows the game it was last told to (session_generation). *)
(***************************************************************************)
THEOREM LatestIsFollowed == Spec => []FollowsLatest
<1>1. IInv => FollowsLatest
  BY DEF IInv
<1> QED
  BY <1>1, IInvAlways, PTL

(***************************************************************************)
(* Every lobby server that runs is in the view and has a game to run for   *)
(* (release_hosted_server, start_hosted_server, command_hostgame).         *)
(***************************************************************************)
THEOREM ServersAreNeeded == Spec => []ServersHaveReason
<1>1. IInv => ServersHaveReason
  BY DEF IInv, HostingOK, PlayedIn, ServersHaveReason, LeftIn
<1> QED
  BY <1>1, IInvAlways, PTL

(***************************************************************************)
(* A game's own lobby server runs until the user stops it, however often   *)
(* the launcher goes on to other games (hosted_game_left_running).         *)
(***************************************************************************)
THEOREM PlayedServerIsKept == Spec => PlayKeepsServer
<1>1. IInv /\ [Next]_vars =>
        [\A g \in Own : Served(g) /\ runs[g] \notin me'.alive
            => PressStopServer \/ CommandReset \/ Disconnect \/ ServerExits(runs[g])]_vars
  BY KeepsServer
<1> QED
  BY <1>1, IInvAlways, PTL DEF Spec, PlayKeepsServer


-----------------------------------------------------------------------------
(* The connection tester *)

(* One test runs at a time, so the results come in the order of their tests. *)
InOrder ==
    /\ \A t, u \in tests : t = u
    /\ \A t \in tests : t.epoch <= epoch
    /\ \A i \in DOMAIN results :
          /\ results[i].epoch <= epoch
          /\ \A t \in tests : results[i].epoch <= t.epoch
          /\ \A j \in DOMAIN results : i <= j => results[i].epoch <= results[j].epoch

(* A test begun since the configuration was set is of the lobby in it. *)
OfItsLobby(h) == info # Nowhere /\ h \in Range(Listed[info]) \cup {Nowhere}
Current ==
    /\ \A t \in tests : t.epoch = epoch => t.lobby = info
    /\ \A i \in DOMAIN results : results[i].epoch = epoch => OfItsLobby(results[i].host)

(* Once one of these is published, nothing older is left to be. *)
Published ==
    verified # Nowhere =>
        /\ host = verified /\ OfItsLobby(host)
        /\ \A t \in tests : t.epoch = epoch
        /\ \A i \in DOMAIN results : results[i].epoch = epoch

TesterInv == TesterTypeOK /\ InOrder /\ Current /\ Published

(* Wherever a test is, it has an address to try. *)
LEMMA HasAddress ==
    ASSUME NEW l \in Lobbies
    PROVE  /\ Len(Listed[l]) \in Nat /\ DOMAIN Listed[l] = 1 .. Len(Listed[l])
           /\ 1 \in DOMAIN Listed[l]
           /\ \A n \in DOMAIN Listed[l] : Listed[l][n] \in Addresses /\ Listed[l][n] \in Range(Listed[l])
<1>1. Listed[l] \in Seq(Addresses) /\ Listed[l] # <<>>
  BY TesterAssumption
<1> QED
  BY <1>1 DEF Range

LEMMA EpochsTyped ==
    ASSUME TesterTypeOK
    PROVE  /\ epoch \in Nat
           /\ \A t \in tests : t.epoch \in Nat
           /\ \A i \in DOMAIN results : i \in Nat /\ results[i].epoch \in Nat
<1>1. epoch \in Nat /\ tests \subseteq Tests /\ results \in Seq(Results)
  BY DEF TesterTypeOK
<1>2. \A i \in DOMAIN results : i \in Nat /\ results[i] \in Results
  BY <1>1
<1>3. \A t \in Tests : t.epoch \in Nat
  BY DEF Tests
<1>4. \A r \in Results : r.epoch \in Nat
  BY DEF Results
<1> QED
  BY <1>1, <1>2, <1>3, <1>4

LEMMA SetConfigInv ==
    ASSUME TesterInv, epoch' = epoch + 1, verified' = Nowhere,
           info' \in Lobbies \cup {Nowhere}, host' \in Addresses \cup {Nowhere},
           following' \in Lobbies \cup {Nowhere}, channel' \in BOOLEAN,
           tester' \in {"made", "running", "gone"}, given' \in Addresses \cup {Nowhere},
           UNCHANGED <<tests, results, up>>
    PROVE  TesterInv'
<1>1. /\ epoch \in Nat /\ \A t \in tests : t.epoch \in Nat
      /\ \A i \in DOMAIN results : results[i].epoch \in Nat
  BY EpochsTyped DEF TesterInv
<1>2. TesterTypeOK'
  BY <1>1 DEF TesterInv, TesterTypeOK
<1>3. InOrder'
  BY <1>1 DEF TesterInv, InOrder
<1>4. Current' /\ Published'
  BY <1>1 DEF TesterInv, InOrder, Current, Published
<1> QED
  BY <1>2, <1>3, <1>4 DEF TesterInv

(* The configuration, the tester and its results are not touched. *)
LEMMA AsideInv ==
    ASSUME TesterInv, channel' \in BOOLEAN, following' \in Lobbies \cup {Nowhere},
           given' \in Addresses \cup {Nowhere}, up' \subseteq Places,
           UNCHANGED <<info, host, tester, tests, results, epoch, verified>>
    PROVE  TesterInv'
<1>1. TesterTypeOK'
  BY DEF TesterInv, TesterTypeOK
<1>2. InOrder' /\ Current' /\ Published'
  BY DEF TesterInv, InOrder, Current, Published, OfItsLobby
<1> QED
  BY <1>1, <1>2 DEF TesterInv

LEMMA HostSetStep == ASSUME TesterInv, HostSet PROVE TesterInv'
<1>1. /\ results \in Seq(Results) /\ results # <<>> /\ epoch \in Nat
      /\ InOrder /\ Current /\ Published
  BY DEF TesterInv, TesterTypeOK, HostSet
<1>2. /\ host' = results[1].host /\ results' = Tail(results)
      /\ verified' = IF results[1].epoch = epoch THEN host' ELSE verified
      /\ UNCHANGED <<info, channel, following, tester, tests, up, epoch, given>>
  BY <1>1 DEF HostSet
<1>3. /\ results[1] \in Results /\ 1 \in DOMAIN results
      /\ results' \in Seq(Results)
      /\ \A i \in DOMAIN results' : i + 1 \in DOMAIN results /\ results'[i] = results[i + 1] /\ i \in Nat
  BY <1>1, <1>2
<1>4. /\ \A i \in DOMAIN results : results[i].epoch \in Nat /\ i \in Nat
      /\ \A t \in tests : t.epoch \in Nat
  BY EpochsTyped DEF TesterInv
<1>5. TesterTypeOK'
  BY <1>2, <1>3 DEF TesterInv, TesterTypeOK, Results
<1>6. InOrder'
  <2>1. \A i, j \in DOMAIN results' : i <= j => i + 1 <= j + 1
    BY <1>3
  <2> QED
    BY <1>1, <1>2, <1>3, <2>1 DEF InOrder
<1>7. Current'
  BY <1>1, <1>2, <1>3 DEF Current, OfItsLobby
<1>8. Published'
  <2>1. CASE results[1].epoch = epoch
    <3>1. \A i \in DOMAIN results : results[1].epoch <= results[i].epoch /\ results[i].epoch <= epoch
      BY <1>1, <1>3, <1>4 DEF InOrder
    <3>2. \A t \in tests : results[1].epoch <= t.epoch /\ t.epoch <= epoch
      BY <1>1, <1>3 DEF InOrder
    <3>3. \A i \in DOMAIN results : results[i].epoch = epoch
      BY <1>1, <1>4, <2>1, <3>1
    <3>4. \A t \in tests : t.epoch = epoch
      BY <1>1, <1>4, <2>1, <3>2
    <3>5. OfItsLobby(results[1].host)
      BY <1>1, <1>3, <2>1 DEF Current
    <3> QED
      BY <1>2, <1>3, <2>1, <3>3, <3>4, <3>5 DEF Published, OfItsLobby
  <2>2. CASE results[1].epoch # epoch
    BY <1>1, <1>2, <1>3, <2>2 DEF Published
  <2> QED
    BY <2>1, <2>2
<1> QED
  BY <1>5, <1>6, <1>7, <1>8 DEF TesterInv

LEMMA BeginTestStep == ASSUME TesterInv, BeginTest PROVE TesterInv'
<1>1. /\ info \in Lobbies /\ epoch \in Nat /\ tests = {}
      /\ tests' = {NewTest} /\ NewTest.epoch = epoch /\ NewTest.lobby = info /\ NewTest.at = 1
      /\ UNCHANGED <<info, host, channel, following, tester, results, up, epoch, verified, given>>
  BY DEF TesterInv, TesterTypeOK, BeginTest, NewTest
<1>2. NewTest \in Tests /\ 1 \in DOMAIN Listed[info]
  BY <1>1, HasAddress DEF Tests, NewTest
<1>3. TesterTypeOK'
  BY <1>1, <1>2 DEF TesterInv, TesterTypeOK
<1>4. InOrder' /\ Current' /\ Published'
  BY <1>1 DEF TesterInv, InOrder, Current, Published, OfItsLobby
<1> QED
  BY <1>3, <1>4 DEF TesterInv

(* The next address is tried, or what was found is posted. *)
LEMMA TestConnectionStep == ASSUME TesterInv, NEW t \in tests, TestConnection(t) PROVE TesterInv'
<1> DEFINE next == [t EXCEPT !.at = t.at + 1]
           l == t.lobby
<1>1. /\ t \in Tests /\ l \in Lobbies /\ t.at \in Nat /\ t.at \in DOMAIN Listed[l]
      /\ t.epoch \in Nat /\ epoch \in Nat /\ results \in Seq(Results) /\ tests = {t}
      /\ InOrder /\ Current /\ Published
  BY DEF TesterInv, TesterTypeOK, Tests, InOrder
<1>2. UNCHANGED <<info, host, channel, following, tester, up, epoch, verified, given>>
  BY DEF TestConnection
<1>3. CASE t.at # Len(Listed[l]) /\ tests' = {next} /\ UNCHANGED results
  <2>1. next \in Tests /\ next.lobby = l /\ next.epoch = t.epoch /\ next.at = t.at + 1
    BY <1>1 DEF Tests
  <2>2. next.at \in DOMAIN Listed[l]
    BY <1>1, <1>3, <2>1, HasAddress
  <2> HIDE DEF next
  <2>3. TesterTypeOK'
    BY <1>2, <1>3, <2>1, <2>2 DEF TesterInv, TesterTypeOK
  <2>4. InOrder' /\ Current' /\ Published'
    BY <1>1, <1>2, <1>3, <2>1 DEF InOrder, Current, Published, OfItsLobby
  <2> QED
    BY <2>3, <2>4 DEF TesterInv
<1>4. ASSUME NEW h \in {Listed[l][t.at], Nowhere}, SetHost(t, h) PROVE TesterInv'
  <2> DEFINE r == [host |-> h, epoch |-> t.epoch]
             n == Len(results) + 1
  <2>1. h \in Addresses \cup {Nowhere} /\ (t.epoch = epoch => OfItsLobby(h))
    <3>1. h = Nowhere \/ (h \in Addresses /\ h \in Range(Listed[l]))
      BY <1>1, <1>4, HasAddress
    <3>2. t.epoch = epoch => l = info
      BY <1>1 DEF Current
    <3> QED
      BY <1>1, <3>1, <3>2, TesterAssumption DEF OfItsLobby
  <2>2. r \in Results /\ r.epoch = t.epoch /\ r.host = h
    BY <1>1, <2>1 DEF Results
  <2>3. results' = Append(results, r) /\ tests' = {}
    BY <1>1, <1>4 DEF SetHost
  <2> HIDE DEF r
  <2>4. /\ results' \in Seq(Results) /\ n \in Nat
        /\ \A i \in DOMAIN results' :
              \/ i \in DOMAIN results /\ results'[i] = results[i] /\ i < n
              \/ i = n /\ results'[i] = r
    BY <1>1, <2>2, <2>3
  <2> HIDE DEF n
  <2>5. \A i \in DOMAIN results : results[i].epoch <= t.epoch /\ results[i].epoch \in Nat /\ i \in Nat
    BY <1>1, EpochsTyped DEF TesterInv, InOrder
  <2>6. TesterTypeOK'
    BY <1>2, <2>3, <2>4 DEF TesterInv, TesterTypeOK
  <2>7. InOrder'
    <3>1. t.epoch <= epoch
      BY <1>1 DEF InOrder
    <3>2. \A i \in DOMAIN results' : results'[i].epoch <= epoch
      BY <1>1, <2>2, <2>4, <3>1 DEF InOrder
    <3>3. \A i, j \in DOMAIN results' : i <= j => results'[i].epoch <= results'[j].epoch
      <4> SUFFICES ASSUME NEW i \in DOMAIN results', NEW j \in DOMAIN results', i <= j
                   PROVE  results'[i].epoch <= results'[j].epoch
        OBVIOUS
      <4>1. CASE j = n /\ results'[j] = r
        BY <1>1, <2>2, <2>4, <2>5, <4>1
      <4>2. CASE j \in DOMAIN results /\ results'[j] = results[j] /\ j < n
        <5>1. i \in DOMAIN results /\ results'[i] = results[i]
          BY <2>4, <2>5, <4>2
        <5> QED
          BY <1>1, <4>2, <5>1 DEF InOrder
      <4> QED
        BY <2>4, <4>1, <4>2
    <3> QED
      BY <1>2, <2>3, <3>2, <3>3 DEF InOrder
  <2>8. Current'
    BY <1>1, <1>2, <2>1, <2>2, <2>3, <2>4 DEF Current, OfItsLobby
  <2>9. Published'
    BY <1>1, <1>2, <2>2, <2>3, <2>4 DEF Published, OfItsLobby
  <2> QED
    BY <2>6, <2>7, <2>8, <2>9 DEF TesterInv
<1> QED
  <2>1. \/ \E h \in {Listed[l][t.at], Nowhere} : SetHost(t, h)
        \/ t.at # Len(Listed[l]) /\ tests' = (tests \ {t}) \cup {next} /\ UNCHANGED results
    BY DEF TestConnection
  <2> QED
    BY <1>1, <1>3, <1>4, <2>1

LEMMA TesterNextInv == TesterInv /\ [TesterNext]_testerVars => TesterInv'
<1> SUFFICES ASSUME TesterInv, [TesterNext]_testerVars PROVE TesterInv'
  OBVIOUS
<1>1. /\ info \in Lobbies \cup {Nowhere} /\ following \in Lobbies \cup {Nowhere}
      /\ host \in Addresses \cup {Nowhere} /\ given \in Addresses \cup {Nowhere}
      /\ channel \in BOOLEAN /\ tester \in {"made", "running", "gone"} /\ up \subseteq Places
  BY DEF TesterInv, TesterTypeOK
<1>2. CASE EnterGameChannel \/ LeaveGameChannel \/ LoadConfiguration \/ GameOver
  BY <1>1, <1>2, SetConfigInv
  DEF EnterGameChannel, LeaveGameChannel, LoadConfiguration, GameOver, ResetNetplayConfig, SetConfig
<1>3. CASE ResetGame
  BY <1>1, <1>3, SetConfigInv DEF ResetGame
<1>4. ASSUME NEW l \in Lobbies, GameCreated(l) PROVE TesterInv'
  BY <1>1, <1>4, SetConfigInv DEF GameCreated, SetConfig
<1>5. ASSUME NEW l \in Lobbies \cup {Nowhere}, FollowGame(l) PROVE TesterInv'
  BY <1>1, <1>5, AsideInv DEF FollowGame
<1>6. CASE DocumentApplied
  BY <1>1, <1>6, SetConfigInv DEF DocumentApplied, SetConfig
<1>7. CASE LaunchGame
  <2>1. LaunchAddress(following) \in Addresses \cup {Nowhere}
    BY <1>1, <1>7, HasAddress DEF LaunchGame, LaunchAddress
  <2> QED
    BY <1>1, <1>7, <2>1, SetConfigInv DEF LaunchGame, ResetNetplayConfig, SetConfig
<1>8. CASE StartLocalGame
  BY <1>1, <1>8, AsideInv DEF StartLocalGame
<1>9. CASE HostSet
  BY <1>9, HostSetStep
<1>10. CASE BeginTest
  BY <1>10, BeginTestStep
<1>11. ASSUME NEW t \in tests, TestConnection(t) PROVE TesterInv'
  BY <1>11, TestConnectionStep
<1>12. CASE ServersChange
  BY <1>1, <1>12, AsideInv DEF ServersChange
<1>13. CASE UNCHANGED testerVars
  BY <1>1, <1>13, AsideInv DEF testerVars
<1> QED
  BY <1>2, <1>3, <1>4, <1>5, <1>6, <1>7, <1>8, <1>9, <1>10, <1>11, <1>12, <1>13 DEF TesterNext

LEMMA TesterInvAlways == TesterSpec => []TesterInv
<1>1. TesterInit => TesterInv
  <2> SUFFICES ASSUME TesterInit PROVE TesterInv
    OBVIOUS
  <2>1. tests = {} /\ results = <<>> /\ DOMAIN results = {} /\ verified = Nowhere
    BY DEF TesterInit
  <2>2. TesterTypeOK
    <3>1. results \in Seq(Results) /\ tests \subseteq Tests /\ \A t \in tests : t.at \in DOMAIN Listed[t.lobby]
      BY <2>1
    <3>2. /\ info \in Lobbies \cup {Nowhere} /\ following \in Lobbies \cup {Nowhere}
          /\ host \in Addresses \cup {Nowhere} /\ channel \in BOOLEAN
          /\ tester \in {"made", "running", "gone"} /\ up \subseteq Places /\ epoch \in Nat
          /\ verified \in Addresses \cup {Nowhere} /\ given \in Addresses \cup {Nowhere}
      BY DEF TesterInit
    <3> QED
      BY <3>1, <3>2 DEF TesterTypeOK
  <2>3. InOrder /\ Current /\ Published
    BY <2>1 DEF InOrder, Current, Published
  <2> QED
    BY <2>2, <2>3 DEF TesterInv
<1>2. TesterInv /\ [TesterNext]_testerVars => TesterInv'
  BY TesterNextInv
<1> QED
  BY <1>1, <1>2, PTL DEF TesterSpec

(***************************************************************************)
(* What the tester tries, posts and publishes keeps its type; a test has   *)
(* always another address to try (test_connection).                        *)
(***************************************************************************)
THEOREM TesterTypeCorrect == TesterSpec => []TesterTypeOK
<1>1. TesterInv => TesterTypeOK
  BY DEF TesterInv
<1> QED
  BY <1>1, TesterInvAlways, PTL

(***************************************************************************)
(* Once an address of the game in the configuration is verified, no late   *)
(* result of an earlier test takes its place, and it is what FS-UAE is     *)
(* launched with (set_host, launch_session_game).                          *)
(***************************************************************************)
THEOREM LaunchUsesVerified == TesterSpec => LaunchesVerified
<1>1. TesterInv /\ [TesterNext]_testerVars =>
        [LaunchGame /\ info = following /\ verified # Nowhere => given' = verified]_testerVars
  <2> SUFFICES ASSUME TesterInv, LaunchGame, info = following, verified # Nowhere
               PROVE  given' = verified
    OBVIOUS
  <2>1. verified = host /\ host \in Range(Listed[info])
    BY DEF TesterInv, Published, OfItsLobby
  <2> QED
    BY <2>1 DEF LaunchGame, LaunchAddress
<1> QED
  BY <1>1, TesterInvAlways, PTL DEF TesterSpec, LaunchesVerified
=============================================================================
