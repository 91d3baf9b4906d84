-------------------------- MODULE ServerTurnsProofs --------------------------
(***************************************************************************)
(* Proofs about the turns of a round, for any tankets, owners, options and *)
(* disciplines.                                                            *)
(*                                                                         *)
(* A loop of the code is a function "after" that gives the state after its *)
(* first steps (ForEach, InvokeAll); LoopTheorems says what such a loop    *)
(* keeps.                                                                  *)
(***************************************************************************)
EXTENDS ServerTurns, LoopTheorems, TLAPS, FiniteSetTheorems, SequenceTheorems

-----------------------------------------------------------------------------
(* The operations that all disciplines use: what they change, and that they *)
(* keep the types.                                                          *)

USE TanketsAssumption, TimesAssumption DEF Tankets

\* What the operations that append an action leave alone.
Rest(s) == <<s.waitingPlayers, s.playingPlayer, s.waitingTime, s.deserted, s.moves>>

\* Two functions that differ at p at most.
SameBut(f, g, p) == \A q \in Tankets : q # p => f[q] = g[q]

LEMMA StateFields ==
    ASSUME NEW s \in TurnsState
    PROVE  /\ s.shotsState \in {"eShotsNone", "eShotsWaitingStart", "eShotsWaitingEnd"}
           /\ s.playingPlayers \in [Tankets -> Timer]
           /\ s.timedPlayers \in [Tankets -> Nat]
           /\ s.moveId \in [Tankets -> Nat]
           /\ s.nextMoveId \in Nat /\ s.nextNonNormalMoveId \in Nat
           /\ s.sendActions \in Seq(SimAction)
           /\ s.playingPlayer \in 0 .. N
           /\ s.waitingPlayers \in Seq(Tankets)
           /\ s.moves \in SUBSET Message
           /\ s.waitingTime \in Int
           /\ s.deserted \in SUBSET Tankets
BY DEF TurnsState

LEMMA ActionTypes ==
    /\ \A p \in Tankets : Stop(p) \in SimAction /\ Stop(p).kind = "stop" /\ Stop(p).player = p
    /\ \A p \in Tankets, move \in MoveIds, timed \in BOOLEAN :
        Start(p, move, timed) \in SimAction /\ StartAgain(p, move) \in SimAction
    /\ \A moves \in SUBSET Message, timeOut, referenced \in BOOLEAN :
        /\ Shots(moves, timeOut, referenced) \in SimAction
        /\ Shots(moves, timeOut, referenced).kind = "shots"
        /\ Shots(moves, timeOut, referenced).moves = moves
    /\ NextTurn \in SimAction /\ NextTurn.kind = "turn"
BY DEF Stop, Start, StartAgain, Shots, NextTurn, SimAction

LEMMA Appended ==
    ASSUME NEW S, NEW q \in Seq(S), NEW e \in S
    PROVE  /\ Append(q, e) \in Seq(S)
           /\ Len(Append(q, e)) = Len(q) + 1
           /\ \A i \in 1 .. Len(q) : Append(q, e)[i] = q[i]
           /\ Append(q, e)[Len(q) + 1] = e
OBVIOUS

LEMMA AddIs ==
    ASSUME NEW s \in TurnsState, NEW a \in SimAction, NEW t, t = AddSimulatorAction(s, a)
    PROVE  /\ t \in TurnsState
           /\ t.sendActions = Append(s.sendActions, a)
           /\ t.moveId = s.moveId /\ t.playingPlayers = s.playingPlayers
           /\ t.shotsState = s.shotsState /\ t.timedPlayers = s.timedPlayers
           /\ t.nextMoveId = s.nextMoveId /\ t.nextNonNormalMoveId = s.nextNonNormalMoveId
           /\ Rest(t) = Rest(s)
<1>1. PICK queue \in Seq(SimAction) : queue = Append(s.sendActions, a)
  <2>1. s.sendActions \in Seq(SimAction)
    BY StateFields
  <2> QED
    BY <2>1, Appended
<1>2. t = [s EXCEPT !.sendActions = queue]
  BY <1>1 DEF AddSimulatorAction
<1>3. t \in TurnsState /\ t.sendActions = queue
  BY <1>2 DEF TurnsState
<1>4. /\ t.moveId = s.moveId /\ t.playingPlayers = s.playingPlayers
      /\ t.shotsState = s.shotsState /\ t.timedPlayers = s.timedPlayers
      /\ t.nextMoveId = s.nextMoveId /\ t.nextNonNormalMoveId = s.nextNonNormalMoveId
      /\ Rest(t) = Rest(s)
  BY <1>2 DEF TurnsState, Rest
<1> QED
  BY <1>1, <1>3, <1>4

\* What the end of p's move changes.
Ended(s, t, p) ==
    /\ t \in TurnsState
    /\ t.moveId[p] = 0 /\ SameBut(t.moveId, s.moveId, p)
    /\ t.playingPlayers[p] = NoTimer
    /\ SameBut(t.playingPlayers, s.playingPlayers, p)
    /\ t.sendActions = Append(s.sendActions, Stop(p))
    /\ t.shotsState = s.shotsState /\ t.timedPlayers = s.timedPlayers
    /\ t.nextMoveId = s.nextMoveId /\ t.nextNonNormalMoveId = s.nextNonNormalMoveId
    /\ Rest(t) = Rest(s)

LEMMA PlayMoveFinishedIs ==
    ASSUME NEW s \in TurnsState, NEW p \in Tankets, NEW t, t = PlayMoveFinished(s, p)
    PROVE  Ended(s, t, p)
<1>1. PICK ids \in [Tankets -> Nat] : ids = [s.moveId EXCEPT ![p] = 0]
  BY StateFields
<1>2. NoTimer \in Timer
  BY DEF NoTimer, Timer
<1>3. PICK timers \in [Tankets -> Timer] : timers = [s.playingPlayers EXCEPT ![p] = NoTimer]
  BY <1>2, StateFields
<1> DEFINE u == [s EXCEPT !.moveId[p] = 0, !.playingPlayers[p] = NoTimer]
<1>4. u = [s EXCEPT !.moveId = ids, !.playingPlayers = timers]
  BY <1>1, <1>3
<1>5. t = AddSimulatorAction(u, Stop(p)) /\ Stop(p) \in SimAction
  BY ActionTypes DEF PlayMoveFinished
<1> HIDE DEF u
<1>6. u \in TurnsState /\ u.moveId = ids /\ u.playingPlayers = timers
  BY <1>4 DEF TurnsState
<1>7. /\ u.sendActions = s.sendActions /\ u.shotsState = s.shotsState
      /\ u.timedPlayers = s.timedPlayers /\ u.nextMoveId = s.nextMoveId
      /\ u.nextNonNormalMoveId = s.nextNonNormalMoveId /\ Rest(u) = Rest(s)
  BY <1>4 DEF TurnsState, Rest
<1>8. /\ t \in TurnsState
      /\ t.sendActions = Append(u.sendActions, Stop(p))
      /\ t.moveId = u.moveId /\ t.playingPlayers = u.playingPlayers
      /\ t.shotsState = u.shotsState /\ t.timedPlayers = u.timedPlayers
      /\ t.nextMoveId = u.nextMoveId /\ t.nextNonNormalMoveId = u.nextNonNormalMoveId
      /\ Rest(t) = Rest(u)
  BY <1>6, <1>5, AddIs
<1>9. /\ ids[p] = 0 /\ SameBut(ids, s.moveId, p)
      /\ timers[p] = NoTimer /\ SameBut(timers, s.playingPlayers, p)
  <2>1. s.moveId \in [Tankets -> Nat] /\ s.playingPlayers \in [Tankets -> Timer]
    BY StateFields
  <2> QED
    BY <1>1, <1>3, <2>1 DEF SameBut
<1> QED
  BY <1>6, <1>7, <1>8, <1>9 DEF Ended

\* The timer of a move that is given.
NewTimer(move, time) == [started |-> FALSE, move |-> move, time |-> time]

\* What a move given to p changes, the next ids aside.
Given(s, t, p, move, time) ==
    /\ t \in TurnsState
    /\ t.moveId[p] = move /\ SameBut(t.moveId, s.moveId, p)
    /\ t.playingPlayers[p] = IF time = 0 THEN s.playingPlayers[p] ELSE NewTimer(move, time)
    /\ SameBut(t.playingPlayers, s.playingPlayers, p)
    /\ \E timed \in BOOLEAN : t.sendActions = Append(s.sendActions, Start(p, move, timed))
    /\ t.shotsState = s.shotsState /\ t.timedPlayers = s.timedPlayers
    /\ Rest(t) = Rest(s)

LEMMA PlayMoveIs ==
    ASSUME NEW s \in TurnsState, NEW p \in Tankets, NEW move \in MoveIds,
           NEW time \in {0, MoveTime}, NEW t, t = PlayMove(s, p, move, time)
    PROVE  /\ Given(s, t, p, move, time)
           /\ t.nextMoveId = s.nextMoveId /\ t.nextNonNormalMoveId = s.nextNonNormalMoveId
<1>1. PICK ids \in [Tankets -> Nat] : ids = [s.moveId EXCEPT ![p] = move]
  BY StateFields DEF MoveIds
<1>2. NewTimer(move, time) \in Timer
  BY DEF NewTimer, Timer, MoveIds
<1> DEFINE new == IF time > 0 THEN NewTimer(move, time) ELSE s.playingPlayers[p]
<1> DEFINE u == [s EXCEPT !.moveId[p] = move, !.playingPlayers[p] = new]
<1>3. PICK timers \in [Tankets -> Timer] : timers = [s.playingPlayers EXCEPT ![p] = new]
  <2>1. s.playingPlayers \in [Tankets -> Timer]
    BY StateFields
  <2> QED
    BY <1>2, <2>1
<1>4. PICK timed \in BOOLEAN : timed = (time > 0)
  <2>1. (time > 0) \in BOOLEAN
    OBVIOUS
  <2> QED
    BY <2>1
<1>5. t = AddSimulatorAction(u, Start(p, move, timed))
  BY <1>4, Zenon DEF PlayMove, NewTimer
<1>6. Start(p, move, timed) \in SimAction
  BY ActionTypes
<1>7. u = [s EXCEPT !.moveId = ids, !.playingPlayers = timers]
  <2> HIDE DEF new
  <2> QED
    BY <1>1, <1>3
<1> HIDE DEF u
<1>8. u \in TurnsState /\ u.moveId = ids /\ u.playingPlayers = timers
  BY <1>7 DEF TurnsState
<1>9. /\ u.sendActions = s.sendActions /\ u.shotsState = s.shotsState
      /\ u.timedPlayers = s.timedPlayers /\ u.nextMoveId = s.nextMoveId
      /\ u.nextNonNormalMoveId = s.nextNonNormalMoveId /\ Rest(u) = Rest(s)
  BY <1>7 DEF TurnsState, Rest
<1>10. /\ t \in TurnsState
       /\ t.sendActions = Append(u.sendActions, Start(p, move, timed))
       /\ t.moveId = u.moveId /\ t.playingPlayers = u.playingPlayers
       /\ t.shotsState = u.shotsState /\ t.timedPlayers = u.timedPlayers
       /\ t.nextMoveId = u.nextMoveId /\ t.nextNonNormalMoveId = u.nextNonNormalMoveId
       /\ Rest(t) = Rest(u)
  BY <1>5, <1>6, <1>8, AddIs
<1>11. /\ ids[p] = move /\ SameBut(ids, s.moveId, p)
       /\ timers[p] = IF time = 0 THEN s.playingPlayers[p] ELSE NewTimer(move, time)
       /\ SameBut(timers, s.playingPlayers, p)
  <2>1. s.moveId \in [Tankets -> Nat] /\ s.playingPlayers \in [Tankets -> Timer]
    BY StateFields
  <2>2. ids[p] = move /\ SameBut(ids, s.moveId, p)
    BY <1>1, <2>1 DEF SameBut
  <2>3. timers[p] = new /\ SameBut(timers, s.playingPlayers, p)
    <3> HIDE DEF new
    <3> QED
      BY <1>3, <2>1 DEF SameBut
  <2>4. new = IF time = 0 THEN s.playingPlayers[p] ELSE NewTimer(move, time)
    OBVIOUS
  <2> QED
    BY <2>2, <2>3, <2>4
<1>12. \E x \in BOOLEAN : t.sendActions = Append(s.sendActions, Start(p, move, x))
  BY <1>9, <1>10
<1> QED
  BY <1>8, <1>9, <1>10, <1>11, <1>12 DEF Given

\* The same, whatever the next ids were before.
LEMMA GivenFrom ==
    ASSUME NEW s, NEW u, NEW t, NEW p, NEW move, NEW time, Given(u, t, p, move, time),
           u.moveId = s.moveId, u.playingPlayers = s.playingPlayers,
           u.sendActions = s.sendActions, u.shotsState = s.shotsState,
           u.timedPlayers = s.timedPlayers, Rest(u) = Rest(s)
    PROVE  Given(s, t, p, move, time)
BY DEF Given

LEMMA GiveMoveIs ==
    ASSUME NEW s \in TurnsState, NEW p \in Tankets, NEW time \in {0, MoveTime},
           NEW t, t = GiveMove(s, p, time)
    PROVE  /\ Given(s, t, p, s.nextMoveId + 1, time)
           /\ t.nextMoveId = s.nextMoveId + 1 /\ t.nextNonNormalMoveId = s.nextNonNormalMoveId
<1>1. PICK next \in MoveIds : next = s.nextMoveId + 1
  <2>1. s.nextMoveId \in Nat
    BY StateFields
  <2> QED
    BY <2>1 DEF MoveIds
<1> DEFINE u == [s EXCEPT !.nextMoveId = @ + 1]
<1>2. u = [s EXCEPT !.nextMoveId = next]
  BY <1>1
<1>3. t = PlayMove(u, p, next, time)
  BY <1>1 DEF GiveMove
<1> HIDE DEF u
<1>4. u \in TurnsState /\ u.nextMoveId = next
  BY <1>2 DEF TurnsState, MoveIds
<1>5. /\ u.moveId = s.moveId /\ u.playingPlayers = s.playingPlayers
      /\ u.sendActions = s.sendActions /\ u.shotsState = s.shotsState
      /\ u.timedPlayers = s.timedPlayers /\ Rest(u) = Rest(s)
      /\ u.nextNonNormalMoveId = s.nextNonNormalMoveId
  BY <1>2 DEF TurnsState, Rest
<1>6. /\ Given(u, t, p, next, time)
      /\ t.nextMoveId = u.nextMoveId /\ t.nextNonNormalMoveId = u.nextNonNormalMoveId
  BY <1>3, <1>4, PlayMoveIs
<1>7. Given(s, t, p, next, time)
  BY <1>5, <1>6, GivenFrom
<1> QED
  BY <1>1, <1>4, <1>5, <1>6, <1>7

\* A move outside the turns has an id of its own kind.
GiveNonNormalMove(s, p) ==
    PlayMove([s EXCEPT !.nextNonNormalMoveId = @ + 1], p, s.nextNonNormalMoveId + 1, 0)

LEMMA GiveNonNormalMoveIs ==
    ASSUME NEW s \in TurnsState, NEW p \in Tankets, NEW t, t = GiveNonNormalMove(s, p)
    PROVE  /\ Given(s, t, p, s.nextNonNormalMoveId + 1, 0)
           /\ t.nextMoveId = s.nextMoveId
           /\ t.nextNonNormalMoveId = s.nextNonNormalMoveId + 1
<1>1. PICK next \in MoveIds : next = s.nextNonNormalMoveId + 1
  <2>1. s.nextNonNormalMoveId \in Nat
    BY StateFields
  <2> QED
    BY <2>1 DEF MoveIds
<1> DEFINE u == [s EXCEPT !.nextNonNormalMoveId = @ + 1]
<1>2. u = [s EXCEPT !.nextNonNormalMoveId = next]
  BY <1>1
<1>3. t = PlayMove(u, p, next, 0)
  BY <1>1 DEF GiveNonNormalMove
<1> HIDE DEF u
<1>4. u \in TurnsState /\ u.nextNonNormalMoveId = next
  BY <1>2 DEF TurnsState, MoveIds
<1>5. /\ u.moveId = s.moveId /\ u.playingPlayers = s.playingPlayers
      /\ u.sendActions = s.sendActions /\ u.shotsState = s.shotsState
      /\ u.timedPlayers = s.timedPlayers /\ Rest(u) = Rest(s)
      /\ u.nextMoveId = s.nextMoveId
  BY <1>2 DEF TurnsState, Rest
<1>6. PICK time \in {0, MoveTime} : time = 0
  OBVIOUS
<1>7. t = PlayMove(u, p, next, time)
  BY <1>3, <1>6
<1>8. /\ Given(u, t, p, next, time)
      /\ t.nextMoveId = u.nextMoveId /\ t.nextNonNormalMoveId = u.nextNonNormalMoveId
  BY <1>4, <1>7, PlayMoveIs
<1>9. Given(s, t, p, next, time)
  BY <1>5, <1>8, GivenFrom
<1> QED
  BY <1>1, <1>4, <1>5, <1>6, <1>8, <1>9

\* What the shots of some moves change.
Played(s, t, moves, timeOut, referenced) ==
    /\ t \in TurnsState
    /\ t.sendActions = Append(s.sendActions, Shots(moves, timeOut, referenced))
    /\ t.shotsState = IF WaitForShots THEN "eShotsWaitingStart" ELSE s.shotsState
    /\ t.moveId = s.moveId /\ t.playingPlayers = s.playingPlayers
    /\ t.timedPlayers = s.timedPlayers
    /\ t.nextMoveId = s.nextMoveId /\ t.nextNonNormalMoveId = s.nextNonNormalMoveId
    /\ Rest(t) = Rest(s)

LEMMA PlayShotsIs ==
    ASSUME NEW s \in TurnsState, NEW moves \in SUBSET Message,
           NEW timeOut \in BOOLEAN, NEW referenced \in BOOLEAN,
           NEW t, t = PlayShots(s, moves, timeOut, referenced)
    PROVE  Played(s, t, moves, timeOut, referenced)
<1> DEFINE a == Shots(moves, timeOut, referenced)
<1> DEFINE state == IF WaitForShots THEN "eShotsWaitingStart" ELSE s.shotsState
<1> DEFINE u == [s EXCEPT !.shotsState = IF WaitForShots THEN "eShotsWaitingStart" ELSE @]
<1>1. a \in SimAction
  BY ActionTypes
<1>2. state \in {"eShotsNone", "eShotsWaitingStart", "eShotsWaitingEnd"}
  BY StateFields
<1>3. u = [s EXCEPT !.shotsState = state]
  OBVIOUS
<1>4. t = AddSimulatorAction(u, a)
  BY DEF PlayShots
<1> HIDE DEF u, state, a
<1>5. u \in TurnsState /\ u.shotsState = state
  BY <1>2, <1>3 DEF TurnsState
<1>6. /\ u.sendActions = s.sendActions /\ u.moveId = s.moveId
      /\ u.playingPlayers = s.playingPlayers
      /\ u.timedPlayers = s.timedPlayers /\ u.nextMoveId = s.nextMoveId
      /\ u.nextNonNormalMoveId = s.nextNonNormalMoveId /\ Rest(u) = Rest(s)
  BY <1>3 DEF TurnsState, Rest
<1>7. /\ t \in TurnsState /\ t.sendActions = Append(u.sendActions, a)
      /\ t.moveId = u.moveId /\ t.playingPlayers = u.playingPlayers
      /\ t.shotsState = u.shotsState /\ t.timedPlayers = u.timedPlayers
      /\ t.nextMoveId = u.nextMoveId /\ t.nextNonNormalMoveId = u.nextNonNormalMoveId
      /\ Rest(t) = Rest(u)
  BY <1>1, <1>4, <1>5, AddIs
<1> QED
  BY <1>5, <1>6, <1>7 DEF a, state, Played

\* What only changes the timers, the delays or the state of the shots.
Queues(s) == <<s.sendActions, s.moveId, s.nextMoveId, s.nextNonNormalMoveId>>

\* What a delay of p changes.
DelayedFor(s, t, p) ==
    /\ t \in TurnsState
    /\ SameBut(t.timedPlayers, s.timedPlayers, p)
    /\ t.playingPlayers = s.playingPlayers /\ t.shotsState = s.shotsState
    /\ Queues(t) = Queues(s) /\ Rest(t) = Rest(s)

LEMMA DelayedIs ==
    ASSUME NEW s \in TurnsState, NEW p \in Tankets, NEW time \in Nat, NEW t, t = Delayed(s, p, time)
    PROVE  DelayedFor(s, t, p)
<1>1. CASE time > 0
  <2>1. PICK delays \in [Tankets -> Nat] : delays = [s.timedPlayers EXCEPT ![p] = time]
    BY StateFields
  <2>2. t = [s EXCEPT !.timedPlayers = delays]
    BY <1>1, <2>1 DEF Delayed
  <2>3. t \in TurnsState /\ t.timedPlayers = delays
    BY <2>2 DEF TurnsState
  <2>4. /\ t.playingPlayers = s.playingPlayers /\ t.shotsState = s.shotsState
        /\ Queues(t) = Queues(s) /\ Rest(t) = Rest(s)
    BY <2>2 DEF TurnsState, Queues, Rest
  <2>5. SameBut(delays, s.timedPlayers, p)
    <3>1. s.timedPlayers \in [Tankets -> Nat]
      BY StateFields
    <3> QED
      BY <2>1, <3>1 DEF SameBut
  <2> QED
    BY <2>3, <2>4, <2>5 DEF DelayedFor
<1>2. CASE ~(time > 0)
  <2>1. t = s
    BY <1>2 DEF Delayed
  <2> QED
    BY <2>1 DEF DelayedFor, SameBut
<1> QED
  BY <1>1, <1>2

LEMMA ShotsStateIs ==
    ASSUME NEW s \in TurnsState,
           NEW state \in {"eShotsNone", "eShotsWaitingStart", "eShotsWaitingEnd"},
           NEW t, t = [s EXCEPT !.shotsState = state]
    PROVE  /\ t \in TurnsState
           /\ t.shotsState = state
           /\ t.timedPlayers = s.timedPlayers /\ t.playingPlayers = s.playingPlayers
           /\ Queues(t) = Queues(s) /\ Rest(t) = Rest(s)
<1>1. t \in TurnsState /\ t.shotsState = state
  BY DEF TurnsState
<1>2. /\ t.timedPlayers = s.timedPlayers /\ t.playingPlayers = s.playingPlayers
      /\ Queues(t) = Queues(s) /\ Rest(t) = Rest(s)
  BY DEF TurnsState, Queues, Rest
<1> QED
  BY <1>1, <1>2

LEMMA TimersAre ==
    ASSUME NEW s \in TurnsState, NEW timers \in [Tankets -> Timer],
           NEW t, t = [s EXCEPT !.playingPlayers = timers]
    PROVE  /\ t \in TurnsState
           /\ t.playingPlayers = timers
           /\ t.timedPlayers = s.timedPlayers /\ t.shotsState = s.shotsState
           /\ Queues(t) = Queues(s) /\ Rest(t) = Rest(s)
<1>1. t \in TurnsState /\ t.playingPlayers = timers
  BY DEF TurnsState
<1>2. /\ t.timedPlayers = s.timedPlayers /\ t.shotsState = s.shotsState
      /\ Queues(t) = Queues(s) /\ Rest(t) = Rest(s)
  BY DEF TurnsState, Queues, Rest
<1> QED
  BY <1>1, <1>2

\* The call back of a started move and the passing of time keep the move of every
\* timer, and no timer comes into being.
LEMMA MoveStartedIs ==
    ASSUME NEW s \in TurnsState, NEW p \in Tankets, NEW t, t = MoveStarted(s, p)
    PROVE  /\ t \in TurnsState
           /\ \A q \in Tankets :
                \/ t.playingPlayers[q] = s.playingPlayers[q]
                \/ /\ q = p /\ s.playingPlayers[q] # NoTimer
                   /\ t.playingPlayers[q].move = s.playingPlayers[q].move
           /\ t.timedPlayers = s.timedPlayers /\ t.shotsState = s.shotsState
           /\ Queues(t) = Queues(s) /\ Rest(t) = Rest(s)
<1>1. CASE s.playingPlayers[p] = NoTimer
  <2>1. t = s
    BY <1>1 DEF MoveStarted
  <2> QED
    BY <2>1
<1>2. CASE s.playingPlayers[p] # NoTimer
  <2>1. s.playingPlayers \in [Tankets -> Timer] /\ s.playingPlayers[p] \in Timer
    BY StateFields
  <2>2. PICK new \in Timer : /\ new = [s.playingPlayers[p] EXCEPT !.started = TRUE]
                             /\ new.move = s.playingPlayers[p].move
    <3>1. PICK timer \in Timer : timer = s.playingPlayers[p]
      BY <2>1
    <3>2. [timer EXCEPT !.started = TRUE] \in Timer
      BY DEF Timer
    <3>3. [timer EXCEPT !.started = TRUE].move = timer.move
      BY DEF Timer
    <3> QED
      BY <3>1, <3>2, <3>3
  <2>3. PICK timers \in [Tankets -> Timer] : timers = [s.playingPlayers EXCEPT ![p] = new]
    BY <2>1
  <2>4. t = [s EXCEPT !.playingPlayers = timers]
    BY <1>2, <2>2, <2>3 DEF MoveStarted
  <2>5. /\ t \in TurnsState /\ t.playingPlayers = timers
        /\ t.timedPlayers = s.timedPlayers /\ t.shotsState = s.shotsState
        /\ Queues(t) = Queues(s) /\ Rest(t) = Rest(s)
    BY <2>4, TimersAre
  <2>6. \A q \in Tankets : timers[q] = IF q = p THEN new ELSE s.playingPlayers[q]
    BY <2>1, <2>3
  <2> QED
    BY <1>2, <2>2, <2>5, <2>6
<1> QED
  BY <1>1, <1>2

LEMMA RunTimersIs ==
    ASSUME NEW s \in TurnsState, NEW time \in {0, 1}, NEW t, t = RunTimers(s, time)
    PROVE  /\ t \in TurnsState
           /\ \A q \in Tankets :
                \/ t.playingPlayers[q] = s.playingPlayers[q]
                \/ /\ s.playingPlayers[q] # NoTimer
                   /\ s.playingPlayers[q].started /\ t.playingPlayers[q].started
                   /\ t.playingPlayers[q].move = s.playingPlayers[q].move
           /\ t.timedPlayers = s.timedPlayers /\ t.shotsState = s.shotsState
           /\ Queues(t) = Queues(s) /\ Rest(t) = Rest(s)
<1> DEFINE old(q) == s.playingPlayers[q]
<1> DEFINE new(q) == IF old(q).started /\ old(q).time >= 0
                     THEN [old(q) EXCEPT !.time = old(q).time - time] ELSE old(q)
<1> DEFINE timers == [q \in Tankets |-> new(q)]
<1>1. \A q \in Tankets : old(q) \in Timer
  BY StateFields
<1>2. ASSUME NEW q \in Tankets
      PROVE  /\ new(q) \in Timer
             /\ \/ new(q) = old(q)
                \/ /\ old(q) # NoTimer /\ old(q).started
                   /\ new(q).started /\ new(q).move = old(q).move
  <2>1. PICK x \in Timer : x = old(q)
    BY <1>1
  <2>2. CASE x.started /\ x.time >= 0
    <3>1. x.time - time \in -1 .. MoveTime
      <4>1. x.time \in -1 .. MoveTime
        BY DEF Timer
      <4> QED
        BY <2>2, <4>1
    <3>2. PICK y \in -1 .. MoveTime : y = x.time - time
      BY <3>1
    <3>3. [x EXCEPT !.time = y] \in Timer /\ [x EXCEPT !.time = y].started
          /\ [x EXCEPT !.time = y].move = x.move
      BY <2>2 DEF Timer
    <3>4. x # NoTimer
      BY <2>2 DEF NoTimer
    <3>5. new(q) = [x EXCEPT !.time = y]
      BY <2>1, <2>2, <3>2
    <3> HIDE DEF new, old
    <3> QED
      BY <2>1, <3>3, <3>4, <3>5
  <2>3. CASE ~(x.started /\ x.time >= 0)
    <3>1. new(q) = old(q)
      BY <2>1, <2>3
    <3> HIDE DEF new
    <3> QED
      BY <1>1, <3>1
  <2> QED
    BY <2>2, <2>3
<1>3. t = [s EXCEPT !.playingPlayers = timers]
  BY DEF RunTimers
<1>4. timers \in [Tankets -> Timer] /\ \A q \in Tankets : timers[q] = new(q)
  <2> HIDE DEF new
  <2> QED
    BY <1>2
<1> HIDE DEF timers, new
<1>5. /\ t \in TurnsState /\ t.playingPlayers = timers
      /\ t.timedPlayers = s.timedPlayers /\ t.shotsState = s.shotsState
      /\ Queues(t) = Queues(s) /\ Rest(t) = Rest(s)
  BY <1>3, <1>4, TimersAre
<1> QED
  BY <1>2, <1>4, <1>5

LEMMA RunDelaysIs ==
    ASSUME NEW s \in TurnsState, NEW time \in {0, 1}, NEW t, t = RunDelays(s, time)
    PROVE  /\ t \in TurnsState
           /\ \A q \in Tankets : t.timedPlayers[q] > 0 => s.timedPlayers[q] > 0
           /\ t.playingPlayers = s.playingPlayers /\ t.shotsState = s.shotsState
           /\ Queues(t) = Queues(s) /\ Rest(t) = Rest(s)
<1> DEFINE old(q) == s.timedPlayers[q]
<1> DEFINE runs(q) == old(q) > 0 /\ \A r \in {x \in Tankets : old(x) = time} : q <= r
<1> DEFINE new(q) == IF runs(q) THEN old(q) - time ELSE old(q)
<1> DEFINE delays == [q \in Tankets |-> new(q)]
<1>1. \A q \in Tankets : old(q) \in Nat
  BY StateFields
<1>2. ASSUME NEW q \in Tankets PROVE new(q) \in Nat /\ (new(q) > 0 => old(q) > 0)
  <2>1. PICK x \in Nat : x = old(q)
    BY <1>1
  <2>2. runs(q) => x > 0
    BY <2>1
  <2>3. new(q) = IF runs(q) THEN x - time ELSE x
    BY <2>1
  <2> HIDE DEF runs, new, old
  <2> QED
    BY <2>1, <2>2, <2>3
<1>3. t = [s EXCEPT !.timedPlayers = delays]
  BY DEF RunDelays
<1>4. delays \in [Tankets -> Nat] /\ \A q \in Tankets : delays[q] = new(q)
  <2> HIDE DEF new
  <2> QED
    BY <1>2
<1> HIDE DEF delays, new, runs
<1>5. t \in TurnsState /\ t.timedPlayers = delays
  BY <1>3, <1>4 DEF TurnsState
<1>6. /\ t.playingPlayers = s.playingPlayers /\ t.shotsState = s.shotsState
      /\ Queues(t) = Queues(s) /\ Rest(t) = Rest(s)
  BY <1>3 DEF TurnsState, Queues, Rest
<1> QED
  BY <1>2, <1>4, <1>5, <1>6
-----------------------------------------------------------------------------
(* The part of the invariant that all disciplines share.  "ahead" is what   *)
(* will be applied before the actions that wait to be sent.                 *)

\* A timer is the one of the move the player has.
Timers(s) ==
    \A p \in Tankets :
        s.playingPlayers[p] # NoTimer =>
            s.playingPlayers[p].move = s.moveId[p] /\ s.moveId[p] # 0

\* The moves were given before the one the player has, and before the next one.
Before(s, moves) ==
    \A m \in moves :
        m.player \notin NonNormal =>
            /\ s.moveId[m.player] # 0 => m.move < s.moveId[m.player]
            /\ m.move <= s.nextMoveId

\* InOrder, and the next id is a new one.
Ids(s, q) ==
    /\ \A p \in Tankets \ NonNormal : s.moveId[p] <= s.nextMoveId
    /\ OnePerPlayer(s.moves) /\ Before(s, s.moves)
    /\ \A i \in 1 .. Len(q) :
        /\ OnePerPlayer(MovesAt(q, i)) /\ Before(s, MovesAt(q, i))
        /\ Earlier(MovesAt(q, i), s.moves)
        /\ \A j \in i + 1 .. Len(q) : Earlier(MovesAt(q, i), MovesAt(q, j))

Common(s, ahead) ==
    s \in TurnsState /\ Timers(s) /\ Ids(s, ahead \o s.sendActions)

LEMMA MovesAtType ==
    ASSUME NEW q \in Seq(SimAction), NEW i \in 1 .. Len(q)
    PROVE  MovesAt(q, i) \in SUBSET Message
<1>1. q[i] \in SimAction
  OBVIOUS
<1> QED
  BY <1>1 DEF MovesAt, SimAction, NextTurn

LEMMA IdsInOrder ==
    ASSUME NEW s \in TurnsState, NEW q \in Seq(SimAction), Ids(s, q)
    PROVE  InOrder(s, q)
<1>1. ASSUME NEW moves \in SUBSET Message, Before(s, moves)
      PROVE  Earlier(moves, CurrentMoves(s))
  <2> SUFFICES ASSUME NEW m \in moves, NEW n \in CurrentMoves(s), m.player = n.player,
                      m.player \notin NonNormal
               PROVE  m.move < n.move
    BY DEF Earlier
  <2>1. n.move = s.moveId[n.player] /\ n.move # 0
    BY DEF CurrentMoves
  <2> QED
    BY <1>1, <2>1 DEF Before
<1>2. Earlier(s.moves, CurrentMoves(s))
  <2>1. s.moves \in SUBSET Message /\ Before(s, s.moves)
    BY StateFields DEF Ids
  <2> QED
    BY <1>1, <2>1
<1>3. ASSUME NEW i \in 1 .. Len(q) PROVE Earlier(MovesAt(q, i), CurrentMoves(s))
  <2>1. MovesAt(q, i) \in SUBSET Message /\ Before(s, MovesAt(q, i))
    BY MovesAtType DEF Ids
  <2> QED
    BY <1>1, <2>1
<1> QED
  BY <1>2, <1>3 DEF Ids, InOrder

\* New ids are higher than those given before.
LEMMA IdsStep ==
    ASSUME NEW s \in TurnsState, NEW t \in TurnsState, NEW q \in Seq(SimAction), Ids(s, q),
           t.moves \in SUBSET s.moves, s.nextMoveId <= t.nextMoveId,
           \A p \in Tankets \ NonNormal :
               \/ t.moveId[p] \in {0, s.moveId[p]}
               \/ s.nextMoveId < t.moveId[p] /\ t.moveId[p] <= t.nextMoveId
    PROVE  Ids(t, q)
<1>1. /\ s.moveId \in [Tankets -> Nat] /\ t.moveId \in [Tankets -> Nat]
      /\ s.nextMoveId \in Nat /\ t.nextMoveId \in Nat
      /\ s.moves \in SUBSET Message
  BY StateFields
<1>2. ASSUME NEW moves \in SUBSET Message, Before(s, moves) PROVE Before(t, moves)
  <2> SUFFICES ASSUME NEW m \in moves, m.player \notin NonNormal
               PROVE  /\ t.moveId[m.player] # 0 => m.move < t.moveId[m.player]
                      /\ m.move <= t.nextMoveId
    BY DEF Before
  <2>1. m.move \in Nat /\ m.player \in Tankets \ NonNormal
    BY DEF Message
  <2>2. /\ s.moveId[m.player] # 0 => m.move < s.moveId[m.player]
        /\ m.move <= s.nextMoveId
    BY <1>2 DEF Before
  <2>3. \/ t.moveId[m.player] \in {0, s.moveId[m.player]}
        \/ s.nextMoveId < t.moveId[m.player] /\ t.moveId[m.player] <= t.nextMoveId
    BY <2>1
  <2>4. /\ s.moveId[m.player] \in Nat /\ t.moveId[m.player] \in Nat
        /\ s.nextMoveId \in Nat /\ t.nextMoveId \in Nat /\ s.nextMoveId <= t.nextMoveId
    BY <1>1, <2>1
  <2>5. PICK a \in Nat, b \in Nat, c \in Nat, d \in Nat, move \in Nat :
            /\ a = s.moveId[m.player] /\ b = t.moveId[m.player]
            /\ c = s.nextMoveId /\ d = t.nextMoveId /\ move = m.move
    BY <2>1, <2>4
  <2>6. (a # 0 => move < a) /\ move <= c /\ c <= d /\ (b \in {0, a} \/ c < b)
    BY <2>2, <2>3, <2>4, <2>5
  <2>7. (b # 0 => move < b) /\ move <= d
    BY <2>6
  <2> QED
    BY <2>5, <2>7
<1>3. \A p \in Tankets \ NonNormal : t.moveId[p] <= t.nextMoveId
  <2> SUFFICES ASSUME NEW p \in Tankets \ NonNormal PROVE t.moveId[p] <= t.nextMoveId
    OBVIOUS
  <2>1. s.moveId[p] <= s.nextMoveId
    BY DEF Ids
  <2>2. \/ t.moveId[p] \in {0, s.moveId[p]}
        \/ s.nextMoveId < t.moveId[p] /\ t.moveId[p] <= t.nextMoveId
    OBVIOUS
  <2>3. /\ s.moveId[p] \in Nat /\ t.moveId[p] \in Nat
        /\ s.nextMoveId \in Nat /\ t.nextMoveId \in Nat /\ s.nextMoveId <= t.nextMoveId
    BY <1>1
  <2> QED
    BY <2>1, <2>2, <2>3
<1>4. OnePerPlayer(t.moves) /\ Before(t, t.moves)
  <2>1. OnePerPlayer(s.moves) /\ Before(s, s.moves)
    BY DEF Ids
  <2>2. Before(s, t.moves) /\ OnePerPlayer(t.moves)
    BY <2>1 DEF Before, OnePerPlayer
  <2> QED
    BY <1>1, <1>2, <2>2
<1>5. ASSUME NEW i \in 1 .. Len(q)
      PROVE  /\ OnePerPlayer(MovesAt(q, i)) /\ Before(t, MovesAt(q, i))
             /\ Earlier(MovesAt(q, i), t.moves)
             /\ \A j \in i + 1 .. Len(q) : Earlier(MovesAt(q, i), MovesAt(q, j))
  <2>1. /\ OnePerPlayer(MovesAt(q, i)) /\ Before(s, MovesAt(q, i))
        /\ Earlier(MovesAt(q, i), s.moves)
        /\ \A j \in i + 1 .. Len(q) : Earlier(MovesAt(q, i), MovesAt(q, j))
    BY DEF Ids
  <2>2. Before(t, MovesAt(q, i))
    BY <1>2, <2>1, MovesAtType
  <2>3. Earlier(MovesAt(q, i), t.moves)
    BY <2>1 DEF Earlier
  <2> QED
    BY <2>1, <2>2, <2>3
<1> QED
  BY <1>3, <1>4, <1>5 DEF Ids

\* An action is appended that plays the moves "last", or none.
LEMMA IdsAppend ==
    ASSUME NEW s \in TurnsState, NEW q \in Seq(SimAction), Ids(s, q), NEW a \in SimAction,
           NEW last \in SUBSET Message, last = IF a.kind = "shots" THEN a.moves ELSE {},
           OnePerPlayer(last), Before(s, last), Earlier(last, s.moves),
           \A i \in 1 .. Len(q) : Earlier(MovesAt(q, i), last)
    PROVE  Ids(s, Append(q, a))
<1> DEFINE r == Append(q, a)
<1>1. Len(r) = Len(q) + 1 /\ (\A i \in 1 .. Len(q) : r[i] = q[i]) /\ r[Len(q) + 1] = a
  BY Appended
<1>2. Len(q) \in Nat
  OBVIOUS
<1> HIDE DEF r
<1>3. \A i \in 1 .. Len(q) : MovesAt(r, i) = MovesAt(q, i)
  BY <1>1 DEF MovesAt
<1>4. MovesAt(r, Len(q) + 1) = last
  BY <1>1 DEF MovesAt
<1>5. ASSUME NEW i \in 1 .. Len(r)
      PROVE  /\ OnePerPlayer(MovesAt(r, i)) /\ Before(s, MovesAt(r, i))
             /\ Earlier(MovesAt(r, i), s.moves)
             /\ \A j \in i + 1 .. Len(r) : Earlier(MovesAt(r, i), MovesAt(r, j))
  <2>1. CASE i \in 1 .. Len(q)
    <3>1. /\ OnePerPlayer(MovesAt(q, i)) /\ Before(s, MovesAt(q, i))
          /\ Earlier(MovesAt(q, i), s.moves)
          /\ \A j \in i + 1 .. Len(q) : Earlier(MovesAt(q, i), MovesAt(q, j))
      BY <2>1 DEF Ids
    <3>2. ASSUME NEW j \in i + 1 .. Len(r) PROVE Earlier(MovesAt(r, i), MovesAt(r, j))
      <4>1. CASE j = Len(q) + 1
        BY <1>3, <1>4, <2>1, <4>1
      <4>2. CASE j # Len(q) + 1
        <5>1. j \in i + 1 .. Len(q) /\ j \in 1 .. Len(q)
          BY <1>1, <1>2, <2>1, <4>2
        <5> QED
          BY <1>3, <2>1, <3>1, <5>1
      <4> QED
        BY <4>1, <4>2
    <3> QED
      BY <1>3, <2>1, <3>1, <3>2
  <2>2. CASE i \notin 1 .. Len(q)
    <3>1. i = Len(q) + 1 /\ i + 1 .. Len(r) = {}
      BY <1>1, <1>2, <2>2
    <3> QED
      BY <1>4, <3>1
  <2> QED
    BY <2>1, <2>2
<1> QED
  BY <1>5 DEF Ids, r

LEMMA IdsNoShots ==
    ASSUME NEW s \in TurnsState, NEW q \in Seq(SimAction), Ids(s, q), NEW a \in SimAction,
           a.kind # "shots"
    PROVE  Ids(s, Append(q, a))
<1> DEFINE last == IF a.kind = "shots" THEN a.moves ELSE {}
<1>1. last = {}
  OBVIOUS
<1>2. /\ last \in SUBSET Message /\ OnePerPlayer(last) /\ Before(s, last)
      /\ Earlier(last, s.moves)
      /\ \A i \in 1 .. Len(q) : Earlier(MovesAt(q, i), last)
  BY <1>1 DEF OnePerPlayer, Before, Earlier
<1> HIDE DEF last
<1> QED
  BY <1>2, IdsAppend DEF last

\* The first action was applied.
LEMMA IdsTail ==
    ASSUME NEW s, NEW q, NEW r, Len(q) \in Nat, Len(r) \in Nat, Ids(s, q), Len(q) = Len(r) + 1,
           \A i \in 1 .. Len(r) : r[i] = q[i + 1]
    PROVE  Ids(s, r)
<1>1. ASSUME NEW i \in 1 .. Len(r)
      PROVE  /\ OnePerPlayer(MovesAt(r, i)) /\ Before(s, MovesAt(r, i))
             /\ Earlier(MovesAt(r, i), s.moves)
             /\ \A j \in i + 1 .. Len(r) : Earlier(MovesAt(r, i), MovesAt(r, j))
  <2>1. i + 1 \in 1 .. Len(q) /\ MovesAt(r, i) = MovesAt(q, i + 1)
    BY DEF MovesAt
  <2>2. /\ OnePerPlayer(MovesAt(q, i + 1)) /\ Before(s, MovesAt(q, i + 1))
        /\ Earlier(MovesAt(q, i + 1), s.moves)
        /\ \A j \in i + 2 .. Len(q) : Earlier(MovesAt(q, i + 1), MovesAt(q, j))
    BY <2>1 DEF Ids
  <2>3. ASSUME NEW j \in i + 1 .. Len(r) PROVE Earlier(MovesAt(r, i), MovesAt(r, j))
    <3>1. j \in 1 .. Len(r) /\ j + 1 \in i + 2 .. Len(q)
      OBVIOUS
    <3>2. MovesAt(r, j) = MovesAt(q, j + 1)
      BY <3>1 DEF MovesAt
    <3> QED
      BY <2>1, <2>2, <3>1, <3>2
  <2> QED
    BY <2>1, <2>2, <2>3
<1> QED
  BY <1>1 DEF Ids

\* The answer to the move a player has is later than all moves before.
LEMMA IdsAnswer ==
    ASSUME NEW s \in TurnsState, NEW q \in Seq(SimAction), Ids(s, q), NEW m \in Message,
           m.move # 0, s.moveId[m.player] = m.move
    PROVE  /\ \A i \in 1 .. Len(q) : Earlier(MovesAt(q, i), {m})
           /\ Earlier(s.moves, {m})
           /\ m.player \notin NonNormal => m.move <= s.nextMoveId
<1>1. ASSUME NEW moves, Before(s, moves) PROVE Earlier(moves, {m})
  BY <1>1 DEF Before, Earlier
<1>2. m.player \in Tankets
  BY DEF Message
<1> QED
  BY <1>1, <1>2 DEF Ids

LEMMA QueueAppend ==
    ASSUME NEW x \in Seq(SimAction), NEW y \in Seq(SimAction), NEW a \in SimAction
    PROVE  /\ x \o y \in Seq(SimAction)
           /\ x \o Append(y, a) = Append(x \o y, a)
<1>1. x \o y \in Seq(SimAction)
  OBVIOUS
<1>2. x \o Append(y, a) \in Seq(SimAction) /\ Append(x \o y, a) \in Seq(SimAction)
  BY <1>1
<1>3. Len(x \o Append(y, a)) = Len(Append(x \o y, a))
  BY <1>1
<1>4. ASSUME NEW i \in 1 .. Len(x \o Append(y, a))
      PROVE  (x \o Append(y, a))[i] = Append(x \o y, a)[i]
  BY <1>1
<1> QED
  BY <1>2, <1>3, <1>4, SeqEqual

LEMMA CommonFields ==
    ASSUME NEW s \in TurnsState, NEW t \in TurnsState, NEW ahead \in Seq(SimAction),
           Common(s, ahead), Queues(t) = Queues(s), Rest(t) = Rest(s),
           \A q \in Tankets :
              \/ t.playingPlayers[q] = s.playingPlayers[q]
              \/ /\ s.playingPlayers[q] # NoTimer
                 /\ t.playingPlayers[q].move = s.playingPlayers[q].move
    PROVE  Common(t, ahead)
<1>1. /\ t.sendActions = s.sendActions /\ t.moveId = s.moveId /\ t.nextMoveId = s.nextMoveId
      /\ t.moves = s.moves
  BY DEF Queues, Rest
<1>2. Timers(t)
  BY <1>1 DEF Common, Timers
<1>3. Ids(t, ahead \o t.sendActions)
  <2> DEFINE q == ahead \o s.sendActions
  <2>1. Ids(s, q) /\ ahead \o t.sendActions = q
    BY <1>1 DEF Common
  <2> HIDE DEF q
  <2>2. Ids(t, q)
    BY <1>1, <2>1 DEF Ids, Before
  <2> QED
    BY <2>1, <2>2
<1> QED
  BY <1>2, <1>3 DEF Common

LEMMA CommonAdd ==
    ASSUME NEW s \in TurnsState, NEW t \in TurnsState, NEW ahead \in Seq(SimAction),
           NEW a \in SimAction, a.kind # "shots", t.sendActions = Append(s.sendActions, a),
           Ids(s, ahead \o s.sendActions),
           t.moves = s.moves, s.nextMoveId <= t.nextMoveId,
           \A p \in Tankets \ NonNormal :
               \/ t.moveId[p] \in {0, s.moveId[p]}
               \/ s.nextMoveId < t.moveId[p] /\ t.moveId[p] <= t.nextMoveId
    PROVE  Ids(t, ahead \o t.sendActions)
<1>1. s.sendActions \in Seq(SimAction)
  BY StateFields
<1> DEFINE q == ahead \o s.sendActions
<1>2. q \in Seq(SimAction) /\ ahead \o t.sendActions = Append(q, a) /\ Ids(s, q)
  BY <1>1, QueueAppend
<1> HIDE DEF q
<1>3. Ids(t, q)
  BY <1>2, IdsStep
<1>4. Ids(t, Append(q, a))
  BY <1>2, <1>3, IdsNoShots
<1> QED
  BY <1>2, <1>4

LEMMA CommonEnd ==
    ASSUME NEW s \in TurnsState, NEW ahead \in Seq(SimAction), Common(s, ahead),
           NEW p \in Tankets
    PROVE  Common(PlayMoveFinished(s, p), ahead)
<1>1. PICK t : t = PlayMoveFinished(s, p)
  OBVIOUS
<1>2. /\ t \in TurnsState
      /\ t.moveId[p] = 0 /\ SameBut(t.moveId, s.moveId, p)
      /\ t.playingPlayers[p] = NoTimer /\ SameBut(t.playingPlayers, s.playingPlayers, p)
      /\ t.sendActions = Append(s.sendActions, Stop(p))
      /\ t.nextMoveId = s.nextMoveId /\ Rest(t) = Rest(s)
  BY <1>1, PlayMoveFinishedIs DEF Ended
<1>3. s.moveId \in [Tankets -> Nat] /\ s.playingPlayers \in [Tankets -> Timer] /\ s.nextMoveId \in Nat
  BY StateFields
<1>4. Timers(t)
  BY <1>2, <1>3 DEF Timers, Common, SameBut
<1>5. Ids(t, ahead \o t.sendActions)
  <2>1. Stop(p) \in SimAction /\ Stop(p).kind # "shots"
    BY ActionTypes
  <2>2. t.moves = s.moves /\ s.nextMoveId <= t.nextMoveId
    BY <1>2, <1>3 DEF Rest
  <2>3. \A r \in Tankets \ NonNormal : t.moveId[r] \in {0, s.moveId[r]}
    BY <1>2, <1>3 DEF SameBut
  <2>4. Ids(s, ahead \o s.sendActions)
    BY DEF Common
  <2> QED
    BY <1>2, <2>1, <2>2, <2>3, <2>4, CommonAdd
<1> QED
  BY <1>1, <1>2, <1>4, <1>5 DEF Common

LEMMA StartKind ==
    ASSUME NEW p, NEW move, NEW timed
    PROVE  Start(p, move, timed).kind = "start" /\ StartAgain(p, move).kind = "start"
BY DEF Start, StartAgain

\* A move given to p: the first with a time is the one of its timer.
LEMMA CommonGiven ==
    ASSUME NEW s \in TurnsState, NEW ahead \in Seq(SimAction), Common(s, ahead),
           NEW p \in Tankets, NEW move \in MoveIds, NEW time \in {0, MoveTime},
           NEW t, Given(s, t, p, move, time), time # 0 \/ s.moveId[p] = 0,
           s.nextMoveId <= t.nextMoveId,
           p \notin NonNormal => move = s.nextMoveId + 1 /\ move = t.nextMoveId
    PROVE  Common(t, ahead)
<1>1. /\ t \in TurnsState /\ t.moveId[p] = move /\ SameBut(t.moveId, s.moveId, p)
      /\ t.playingPlayers[p] = IF time = 0 THEN s.playingPlayers[p] ELSE NewTimer(move, time)
      /\ SameBut(t.playingPlayers, s.playingPlayers, p)
      /\ Rest(t) = Rest(s)
  BY DEF Given
<1>2. PICK timed \in BOOLEAN : t.sendActions = Append(s.sendActions, Start(p, move, timed))
  BY DEF Given
<1>3. Timers(t)
  <2> SUFFICES ASSUME NEW q \in Tankets, t.playingPlayers[q] # NoTimer
               PROVE  t.playingPlayers[q].move = t.moveId[q] /\ t.moveId[q] # 0
    BY DEF Timers
  <2>1. s.playingPlayers[q] # NoTimer => s.playingPlayers[q].move = s.moveId[q] /\ s.moveId[q] # 0
    BY DEF Common, Timers
  <2>2. CASE time # 0 /\ q = p
    <3>1. t.playingPlayers[q] = NewTimer(move, time)
      BY <1>1, <2>2
    <3>2. t.playingPlayers[q].move = move
      BY <3>1 DEF NewTimer
    <3> QED
      BY <1>1, <2>2, <3>2 DEF MoveIds
  <2>3. CASE time = 0 /\ q = p
    <3>1. t.playingPlayers[q] = s.playingPlayers[q]
      BY <1>1, <2>3
    <3> QED
      BY <2>1, <2>3, <3>1
  <2>4. CASE q # p
    <3>1. t.playingPlayers[q] = s.playingPlayers[q] /\ t.moveId[q] = s.moveId[q]
      BY <1>1, <2>4 DEF SameBut
    <3> QED
      BY <2>1, <3>1
  <2> QED
    BY <2>2, <2>3, <2>4
<1>4. Ids(t, ahead \o t.sendActions)
  <2>1. Start(p, move, timed) \in SimAction /\ Start(p, move, timed).kind # "shots"
    BY ActionTypes, StartKind
  <2>2. t.moves = s.moves
    BY <1>1 DEF Rest
  <2>3. ASSUME NEW r \in Tankets \ NonNormal
        PROVE  \/ t.moveId[r] \in {0, s.moveId[r]}
               \/ s.nextMoveId < t.moveId[r] /\ t.moveId[r] <= t.nextMoveId
    <3>1. CASE r = p
      <4>1. s.nextMoveId \in Nat
        BY StateFields
      <4> QED
        BY <1>1, <3>1, <4>1
    <3>2. CASE r # p
      BY <1>1, <3>2 DEF SameBut
    <3> QED
      BY <3>1, <3>2
  <2>4. Ids(s, ahead \o s.sendActions)
    BY DEF Common
  <2> QED
    BY <1>1, <1>2, <2>1, <2>2, <2>3, <2>4, CommonAdd
<1> QED
  BY <1>1, <1>3, <1>4 DEF Common

LEMMA CommonGive ==
    ASSUME NEW s \in TurnsState, NEW ahead \in Seq(SimAction), Common(s, ahead),
           NEW p \in Tankets, NEW time \in {0, MoveTime}, time # 0 \/ s.moveId[p] = 0
    PROVE  Common(GiveMove(s, p, time), ahead)
<1>1. PICK t : t = GiveMove(s, p, time)
  OBVIOUS
<1>2. PICK next \in MoveIds : next = s.nextMoveId + 1 /\ s.nextMoveId <= next
  <2>1. s.nextMoveId \in Nat
    BY StateFields
  <2> QED
    BY <2>1 DEF MoveIds
<1>3. Given(s, t, p, next, time) /\ t.nextMoveId = next
  BY <1>1, <1>2, GiveMoveIs
<1>4. Common(t, ahead)
  BY <1>2, <1>3, CommonGiven
<1> QED
  BY <1>1, <1>4

LEMMA CommonGiveNonNormal ==
    ASSUME NEW s \in TurnsState, NEW ahead \in Seq(SimAction), Common(s, ahead),
           NEW p \in NonNormal, s.moveId[p] = 0
    PROVE  Common(GiveNonNormalMove(s, p), ahead)
<1>1. PICK t : t = GiveNonNormalMove(s, p)
  OBVIOUS
<1>2. s.nextMoveId \in Nat /\ s.nextNonNormalMoveId \in Nat
  BY StateFields
<1>3. PICK next \in MoveIds : next = s.nextNonNormalMoveId + 1
  BY <1>2 DEF MoveIds
<1>4. p \in Tankets
  OBVIOUS
<1>5. PICK time \in {0, MoveTime} : time = 0
  OBVIOUS
<1>6. Given(s, t, p, next, time) /\ t.nextMoveId = s.nextMoveId
  BY <1>1, <1>3, <1>4, <1>5, GiveNonNormalMoveIs
<1>7. s.nextMoveId <= t.nextMoveId
  BY <1>2, <1>6
<1>8. Common(t, ahead)
  BY <1>3, <1>4, <1>6, <1>7, CommonGiven
<1> QED
  BY <1>1, <1>8
-----------------------------------------------------------------------------
(* The invariant of the turns.  "away" are those whose player left, and     *)
(* "tank" is the state of the tankets while a method runs.                  *)

\* In sequential turns only the playing player has a move.
OnlyPlaying(s, tk) ==
    Discipline = "Sequential" =>
        \A p \in TakeTurns(tk) : s.moveId[p] # 0 => p = s.playingPlayer

\* Who has a move does not wait.  Simultaneous turns give moves to those that
\* wait because they do not use the normal moves.
Waits(s) ==
    /\ Discipline # "Simultaneous" \/ NonNormal = {} =>
            \A p \in Tankets : s.timedPlayers[p] > 0 => s.moveId[p] = 0
    /\ Discipline # "Free" => \A p \in Tankets \ NonNormal : s.timedPlayers[p] = 0
    /\ Discipline = "Sequential" =>
            \A i \in 1 .. Len(s.waitingPlayers) : s.waitingPlayers[i] \notin NonNormal

\* A destination has one move, those of its tankets that are dead included.
OneEach(s, tk) ==
    Discipline # "Sequential" =>
        \A p, q \in TakeTurns(tk) :
            /\ DestinationOf(s, p) = DestinationOf(s, q)
            /\ DestinationOf(s, p) # 0
            /\ s.moveId[p] # 0 /\ s.moveId[q] # 0
            => p = q

\* Moves wait for others in simultaneous turns only.
Collects(s) == Discipline # "Simultaneous" => s.moves = {}

Turns(tk, ahead, away) ==
    {s \in TurnsState : /\ Common(s, ahead) /\ OnlyPlaying(s, tk) /\ Waits(s)
                        /\ OneEach(s, tk) /\ Collects(s) /\ s.deserted = away}

\* A step that appends an action and gives or takes no move.
Queued(s, t) ==
    /\ t.moveId = s.moveId /\ t.playingPlayers = s.playingPlayers
    /\ t.timedPlayers = s.timedPlayers /\ t.nextMoveId = s.nextMoveId
    /\ Rest(t) = Rest(s)

\* A step that gives nobody a move.
LEMMA NoNewMove ==
    ASSUME NEW tk, NEW ahead, NEW away, NEW s \in Turns(tk, ahead, away), NEW t \in TurnsState,
           Common(t, ahead), t.timedPlayers = s.timedPlayers, Rest(t) = Rest(s),
           \A p \in Tankets : t.moveId[p] \in {0, s.moveId[p]}
    PROVE  t \in Turns(tk, ahead, away)
<1>1. /\ s \in TurnsState /\ OnlyPlaying(s, tk) /\ Waits(s) /\ OneEach(s, tk) /\ Collects(s)
      /\ s.deserted = away
  BY DEF Turns
<1>2. /\ t.waitingPlayers = s.waitingPlayers /\ t.playingPlayer = s.playingPlayer
      /\ t.deserted = s.deserted /\ t.moves = s.moves
  BY DEF Rest
<1>3. OnlyPlaying(t, tk)
  BY <1>1, <1>2 DEF OnlyPlaying, TakeTurns, Present
<1>4. Waits(t)
  BY <1>1, <1>2 DEF Waits
<1>5. OneEach(t, tk)
  <2>1. \A p \in Tankets : DestinationOf(t, p) = DestinationOf(s, p)
    BY <1>2 DEF DestinationOf
  <2>2. TakeTurns(tk) \subseteq Tankets
    BY DEF TakeTurns, Present
  <2> QED
    BY <1>1, <2>1, <2>2 DEF OneEach
<1> QED
  BY <1>1, <1>2, <1>3, <1>4, <1>5 DEF Turns, Collects

LEMMA TurnsEnd ==
    ASSUME NEW tk, NEW ahead \in Seq(SimAction), NEW away, NEW s \in Turns(tk, ahead, away),
           NEW p \in Tankets
    PROVE  PlayMoveFinished(s, p) \in Turns(tk, ahead, away)
<1>1. PICK t : t = PlayMoveFinished(s, p)
  OBVIOUS
<1>2. s \in TurnsState /\ Common(s, ahead)
  BY DEF Turns
<1>3. /\ t \in TurnsState
      /\ t.moveId[p] = 0 /\ SameBut(t.moveId, s.moveId, p)
      /\ t.timedPlayers = s.timedPlayers /\ Rest(t) = Rest(s)
  BY <1>1, <1>2, PlayMoveFinishedIs DEF Ended
<1>4. Common(t, ahead)
  BY <1>1, <1>2, CommonEnd
<1>5. \A q \in Tankets : t.moveId[q] \in {0, s.moveId[q]}
  BY <1>3 DEF SameBut
<1> QED
  BY <1>1, <1>3, <1>4, <1>5, NoNewMove

\* The message m answers the last move of a player that has none now; q is the
\* queue of what will be applied.
IsAnswer(s, m, q) ==
    /\ m \in Message /\ s.moveId[m.player] = 0
    /\ Before(s, {m}) /\ \A i \in 1 .. Len(q) : Earlier(MovesAt(q, i), {m})

LEMMA AnswerIs ==
    ASSUME NEW s \in TurnsState, NEW ahead \in Seq(SimAction), Common(s, ahead),
           NEW m \in Message, m.move # 0, s.moveId[m.player] = m.move,
           NEW t, t = PlayMoveFinished(s, m.player)
    PROVE  IsAnswer(t, m, ahead \o t.sendActions) /\ Earlier(t.moves, {m})
<1>1. PICK p \in Tankets : p = m.player
  BY DEF Message
<1>2. /\ t.moveId[p] = 0 /\ t.nextMoveId = s.nextMoveId /\ Rest(t) = Rest(s)
      /\ t.sendActions = Append(s.sendActions, Stop(p))
  <2>1. t = PlayMoveFinished(s, p)
    BY <1>1
  <2>2. Ended(s, t, p)
    BY <2>1, PlayMoveFinishedIs
  <2> QED
    BY <2>2 DEF Ended
<1> DEFINE q == ahead \o s.sendActions
<1>3. PICK a \in SimAction : a = Stop(p) /\ a.kind # "shots"
  BY ActionTypes
<1>4. q \in Seq(SimAction) /\ ahead \o t.sendActions = Append(q, a)
  <2>1. s.sendActions \in Seq(SimAction)
    BY StateFields
  <2>2. t.sendActions = Append(s.sendActions, a)
    BY <1>2, <1>3
  <2> QED
    BY <2>1, <2>2, QueueAppend
<1>5. Ids(s, q)
  BY DEF Common
<1> HIDE DEF q
<1>6. /\ \A i \in 1 .. Len(q) : Earlier(MovesAt(q, i), {m})
      /\ Earlier(s.moves, {m})
      /\ m.player \notin NonNormal => m.move <= s.nextMoveId
  BY <1>4, <1>5, IdsAnswer
<1>7. Before(t, {m})
  BY <1>1, <1>2, <1>6 DEF Before
<1>8. Earlier(t.moves, {m})
  BY <1>2, <1>6 DEF Rest
<1> DEFINE r == Append(q, a)
<1>9. ASSUME NEW i \in 1 .. Len(r) PROVE Earlier(MovesAt(r, i), {m})
  <2>1. /\ Len(r) = Len(q) + 1 /\ (\A j \in 1 .. Len(q) : r[j] = q[j])
        /\ r[Len(q) + 1] = a /\ Len(q) \in Nat
    BY <1>3, <1>4, Appended
  <2> HIDE DEF r
  <2>2. CASE i \in 1 .. Len(q)
    BY <1>6, <2>1, <2>2 DEF MovesAt
  <2>3. CASE i = Len(q) + 1
    <3>1. MovesAt(r, i) = {}
      BY <1>3, <2>1, <2>3 DEF MovesAt
    <3> QED
      BY <3>1 DEF Earlier
  <2> QED
    BY <2>1, <2>2, <2>3
<1> QED
  BY <1>1, <1>2, <1>4, <1>7, <1>8, <1>9 DEF IsAnswer

\* Shots of moves that are later than those before them.
LEMMA TurnsShots ==
    ASSUME NEW tk, NEW ahead \in Seq(SimAction), NEW away, NEW s \in Turns(tk, ahead, away),
           NEW moves \in SUBSET Message, OnePerPlayer(moves), Before(s, moves),
           Earlier(moves, s.moves),
           \A i \in 1 .. Len(ahead \o s.sendActions) :
               Earlier(MovesAt(ahead \o s.sendActions, i), moves),
           NEW timeOut \in BOOLEAN, NEW referenced \in BOOLEAN,
           NEW t, t = PlayShots(s, moves, timeOut, referenced)
    PROVE  t \in Turns(tk, ahead, away) /\ Queued(s, t)
<1>1. s \in TurnsState /\ Timers(s) /\ Ids(s, ahead \o s.sendActions)
  BY DEF Turns, Common
<1>2. PICK a \in SimAction : /\ a = Shots(moves, timeOut, referenced)
                             /\ a.kind = "shots" /\ a.moves = moves
  BY ActionTypes
<1>3. /\ t \in TurnsState /\ t.sendActions = Append(s.sendActions, a)
      /\ t.moveId = s.moveId /\ t.playingPlayers = s.playingPlayers
      /\ t.timedPlayers = s.timedPlayers /\ t.nextMoveId = s.nextMoveId
      /\ t.nextNonNormalMoveId = s.nextNonNormalMoveId
      /\ Rest(t) = Rest(s)
  <2>1. Played(s, t, moves, timeOut, referenced)
    BY <1>1, PlayShotsIs
  <2> QED
    BY <1>2, <2>1 DEF Played
<1> DEFINE q == ahead \o s.sendActions
<1>4. q \in Seq(SimAction) /\ ahead \o t.sendActions = Append(q, a)
  <2>1. s.sendActions \in Seq(SimAction)
    BY <1>1, StateFields
  <2>2. t.sendActions = Append(s.sendActions, a)
    BY <1>3
  <2> QED
    BY <2>1, <2>2, QueueAppend
<1>5. Ids(s, q) /\ \A i \in 1 .. Len(q) : Earlier(MovesAt(q, i), moves)
  BY <1>1
<1> HIDE DEF q
<1>6. Ids(s, Append(q, a))
  <2>1. moves = IF a.kind = "shots" THEN a.moves ELSE {}
    BY <1>2
  <2> QED
    BY <1>1, <1>4, <1>5, <2>1, IdsAppend
<1>7. Ids(t, Append(q, a))
  <2>1. t.moveId = s.moveId /\ t.nextMoveId = s.nextMoveId /\ t.moves = s.moves
    BY <1>3 DEF Rest
  <2> QED
    BY <1>6, <2>1 DEF Ids, Before
<1>8. Common(t, ahead)
  BY <1>1, <1>3, <1>4, <1>7 DEF Common, Timers
<1>9. \A p \in Tankets : t.moveId[p] \in {0, s.moveId[p]}
  BY <1>3
<1> QED
  BY <1>3, <1>8, <1>9, NoNewMove DEF Queued

\* The answer of a player is played.
LEMMA TurnsAnswer ==
    ASSUME NEW tk, NEW ahead \in Seq(SimAction), NEW away, NEW s \in Turns(tk, ahead, away),
           NEW m, IsAnswer(s, m, ahead \o s.sendActions),
           m.player \in NonNormal \/ s.moves = {},
           NEW timeOut \in BOOLEAN, NEW referenced \in BOOLEAN,
           NEW t, t = PlayShots(s, {m}, timeOut, referenced)
    PROVE  t \in Turns(tk, ahead, away) /\ Queued(s, t)
<1>1. PICK moves \in SUBSET Message : moves = {m}
  BY DEF IsAnswer
<1>2. OnePerPlayer(moves) /\ Before(s, moves)
  BY <1>1 DEF IsAnswer, OnePerPlayer
<1>3. Earlier(moves, s.moves)
  BY <1>1 DEF Earlier
<1>4. \A i \in 1 .. Len(ahead \o s.sendActions) :
            Earlier(MovesAt(ahead \o s.sendActions, i), moves)
  BY <1>1 DEF IsAnswer
<1>5. t = PlayShots(s, moves, timeOut, referenced)
  BY <1>1
<1> QED
  BY <1>2, <1>3, <1>4, <1>5, TurnsShots

\* Any other action is sent.
LEMMA TurnsAdd ==
    ASSUME NEW tk, NEW ahead \in Seq(SimAction), NEW away, NEW s \in Turns(tk, ahead, away),
           NEW a \in SimAction, a.kind # "shots", NEW t, t = AddSimulatorAction(s, a)
    PROVE  t \in Turns(tk, ahead, away) /\ Queued(s, t)
<1>1. s \in TurnsState /\ Timers(s) /\ Ids(s, ahead \o s.sendActions)
  BY DEF Turns, Common
<1>2. /\ t \in TurnsState /\ t.sendActions = Append(s.sendActions, a)
      /\ t.moveId = s.moveId /\ t.playingPlayers = s.playingPlayers
      /\ t.timedPlayers = s.timedPlayers /\ t.nextMoveId = s.nextMoveId
      /\ t.nextNonNormalMoveId = s.nextNonNormalMoveId
      /\ Rest(t) = Rest(s)
  BY <1>1, AddIs
<1>3. Ids(t, ahead \o t.sendActions)
  <2>1. t.moves = s.moves /\ s.nextMoveId <= t.nextMoveId
    <3>1. s.nextMoveId \in Nat
      BY <1>1, StateFields
    <3> QED
      BY <1>2, <3>1 DEF Rest
  <2>2. \A p \in Tankets \ NonNormal : t.moveId[p] \in {0, s.moveId[p]}
    BY <1>2
  <2> QED
    BY <1>1, <1>2, <2>1, <2>2, CommonAdd
<1>4. Common(t, ahead)
  BY <1>1, <1>2, <1>3 DEF Common, Timers
<1>5. \A p \in Tankets : t.moveId[p] \in {0, s.moveId[p]}
  BY <1>2
<1> QED
  BY <1>2, <1>4, <1>5, NoNewMove DEF Queued

LEMMA TurnsIncrement ==
    ASSUME NEW tk, NEW ahead \in Seq(SimAction), NEW away, NEW s \in Turns(tk, ahead, away),
           NEW t, t = IncrementTurn(s)
    PROVE  t \in Turns(tk, ahead, away) /\ Queued(s, t)
<1>1. PICK a \in SimAction : a = NextTurn /\ a.kind # "shots"
  BY ActionTypes
<1>2. t = AddSimulatorAction(s, a)
  BY <1>1 DEF IncrementTurn
<1> QED
  BY <1>1, <1>2, TurnsAdd

\* Steps that change nothing that is sent, and no move.
LEMMA TurnsFields ==
    ASSUME NEW tk, NEW ahead \in Seq(SimAction), NEW away, NEW s \in Turns(tk, ahead, away),
           NEW t \in TurnsState, t.playingPlayers = s.playingPlayers,
           t.sendActions = s.sendActions, t.moveId = s.moveId, t.nextMoveId = s.nextMoveId,
           t.timedPlayers = s.timedPlayers, t.moves = s.moves, t.deserted = s.deserted,
           OnlyPlaying(t, tk),
           Discipline = "Sequential" =>
               \A i \in 1 .. Len(t.waitingPlayers) : t.waitingPlayers[i] \notin NonNormal
    PROVE  t \in Turns(tk, ahead, away)
<1>1. /\ s \in TurnsState /\ Timers(s) /\ Ids(s, ahead \o s.sendActions)
      /\ OnlyPlaying(s, tk) /\ Waits(s) /\ OneEach(s, tk) /\ Collects(s)
      /\ s.deserted = away
  BY DEF Turns, Common
<1>2. Timers(t)
  BY <1>1 DEF Timers
<1>3. Ids(t, ahead \o t.sendActions)
  <2> DEFINE q == ahead \o s.sendActions
  <2>1. Ids(s, q) /\ ahead \o t.sendActions = q
    BY <1>1
  <2> HIDE DEF q
  <2>2. Ids(t, q)
    BY <2>1 DEF Ids, Before
  <2> QED
    BY <2>1, <2>2
<1>4. Waits(t)
  BY <1>1 DEF Waits
<1>5. OneEach(t, tk)
  <2>1. \A p \in Tankets : DestinationOf(t, p) = DestinationOf(s, p)
    BY DEF DestinationOf
  <2>2. TakeTurns(tk) \subseteq Tankets
    BY DEF TakeTurns, Present
  <2> QED
    BY <1>1, <2>1, <2>2 DEF OneEach
<1> QED
  BY <1>1, <1>2, <1>3, <1>4, <1>5 DEF Turns, Common, Collects

\* A delay of a tanket that has no move.
LEMMA TurnsDelay ==
    ASSUME NEW tk, NEW ahead \in Seq(SimAction), NEW away, NEW s \in Turns(tk, ahead, away),
           NEW p \in Tankets, s.moveId[p] = 0, Discipline # "Free" => p \in NonNormal,
           NEW t, DelayedFor(s, t, p)
    PROVE  t \in Turns(tk, ahead, away)
<1>1. /\ s \in TurnsState /\ Common(s, ahead) /\ OnlyPlaying(s, tk) /\ Waits(s)
      /\ OneEach(s, tk) /\ Collects(s) /\ s.deserted = away
  BY DEF Turns
<1>2. /\ t \in TurnsState /\ SameBut(t.timedPlayers, s.timedPlayers, p)
      /\ t.playingPlayers = s.playingPlayers
      /\ Queues(t) = Queues(s) /\ Rest(t) = Rest(s)
  BY DEF DelayedFor
<1>3. /\ t.moveId = s.moveId /\ t.waitingPlayers = s.waitingPlayers
      /\ t.playingPlayer = s.playingPlayer /\ t.deserted = s.deserted /\ t.moves = s.moves
  BY <1>2 DEF Queues, Rest
<1>4. Common(t, ahead)
  BY <1>1, <1>2, CommonFields
<1>5. OnlyPlaying(t, tk)
  BY <1>1, <1>3 DEF OnlyPlaying
<1>6. Waits(t)
  BY <1>1, <1>2, <1>3 DEF Waits, SameBut
<1>7. OneEach(t, tk)
  <2>1. \A q \in Tankets : DestinationOf(t, q) = DestinationOf(s, q)
    BY <1>3 DEF DestinationOf
  <2>2. TakeTurns(tk) \subseteq Tankets
    BY DEF TakeTurns, Present
  <2> QED
    BY <1>1, <1>3, <2>1, <2>2 DEF OneEach
<1> QED
  BY <1>1, <1>2, <1>3, <1>4, <1>5, <1>6, <1>7 DEF Turns, Collects

LEMMA TurnsFinished ==
    ASSUME NEW tk, NEW ahead \in Seq(SimAction), NEW away, NEW s \in Turns(tk, ahead, away),
           NEW m \in Message, m.move # 0, s.moveId[m.player] = m.move,
           NEW t, t = PlayMoveFinished(s, m.player)
    PROVE  /\ t \in Turns(tk, ahead, away) /\ IsAnswer(t, m, ahead \o t.sendActions)
           /\ Earlier(t.moves, {m})
<1>1. PICK p \in Tankets : p = m.player
  BY DEF Message
<1>2. PlayMoveFinished(s, p) \in Turns(tk, ahead, away)
  BY TurnsEnd
<1>3. t \in Turns(tk, ahead, away)
  BY <1>1, <1>2
<1>4. s \in TurnsState /\ Common(s, ahead)
  BY DEF Turns
<1>5. IsAnswer(t, m, ahead \o t.sendActions) /\ Earlier(t.moves, {m})
  BY <1>4, AnswerIs
<1> QED
  BY <1>3, <1>5
-----------------------------------------------------------------------------
(* moveFinished.                                                            *)

\* What a handler of p keeps in every state.
Handled(s, t, p) ==
    /\ t \in TurnsState
    /\ t.deserted = s.deserted
    /\ SameBut(t.playingPlayers, s.playingPlayers, p)

LEMMA NonNormalFinished ==
    ASSUME NEW tk, NEW s \in TurnsState, NEW m \in Message, m.player \in NonNormal,
           NEW thinking \in Nat, NEW t, t = NonNormalMoveFinished(s, tk, m, thinking)
    PROVE  /\ Handled(s, t, m.player)
           /\ \A ahead \in Seq(SimAction) : \A away :
                  s \in Turns(tk, ahead, away) /\ m.move # 0 => t \in Turns(tk, ahead, away)
<1>1. PICK p \in Tankets : p = m.player
  BY DEF Message
<1>2. CASE s.moveId[p] # m.move
  <2>1. t = s
    BY <1>1, <1>2 DEF NonNormalMoveFinished
  <2> QED
    BY <2>1 DEF Handled, SameBut
<1>3. CASE s.moveId[p] = m.move
  <2>1. PICK e : e = PlayMoveFinished(s, p)
    OBVIOUS
  <2>2. Ended(s, e, p)
    BY <2>1, PlayMoveFinishedIs
  <2>3. Handled(s, e, p)
    BY <2>2 DEF Handled, Ended, Rest
  <2>4. ASSUME NEW ahead \in Seq(SimAction), NEW away, s \in Turns(tk, ahead, away), m.move # 0
        PROVE  e \in Turns(tk, ahead, away) /\ IsAnswer(e, m, ahead \o e.sendActions)
    <3>1. e = PlayMoveFinished(s, m.player) /\ s.moveId[m.player] = m.move
      BY <1>1, <1>3, <2>1
    <3> QED
      BY <2>4, <3>1, TurnsFinished
  <2>5. CASE p \in Alive(tk) \cap Computer
    <3>1. e \in TurnsState
      BY <2>2 DEF Ended
    <3>2. PICK next \in Nat : next = e.nextNonNormalMoveId + 1
      <4>1. e.nextNonNormalMoveId \in Nat
        BY <3>1, StateFields
      <4> QED
        BY <4>1
    <3>3. PICK u : u = [e EXCEPT !.nextNonNormalMoveId = next]
      OBVIOUS
    <3>4. /\ u \in TurnsState /\ u.moveId = e.moveId /\ u.playingPlayers = e.playingPlayers
          /\ u.sendActions = e.sendActions /\ u.nextMoveId = e.nextMoveId
          /\ u.timedPlayers = e.timedPlayers /\ Rest(u) = Rest(e)
      BY <3>1, <3>3 DEF TurnsState, Rest
    <3>5. PICK v : v = PlayShots(u, {m}, FALSE, FALSE)
      OBVIOUS
    <3>6. PICK no \in BOOLEAN : no = FALSE
      OBVIOUS
    <3>7. PICK moves \in SUBSET Message : moves = {m}
      OBVIOUS
    <3>8. v = PlayShots(u, moves, no, no)
      BY <3>5, <3>6, <3>7
    <3>9. Played(u, v, moves, no, no)
      BY <3>4, <3>8, PlayShotsIs
    <3>10. t = Delayed(v, p, thinking)
      BY <1>1, <1>3, <2>1, <2>5, <3>2, <3>3, <3>5 DEF NonNormalMoveFinished
    <3>11. v \in TurnsState
      BY <3>9 DEF Played
    <3>12. DelayedFor(v, t, p)
      BY <3>10, <3>11, DelayedIs
    <3>13. Handled(s, t, p)
      <4>1. t \in TurnsState /\ t.deserted = v.deserted /\ t.playingPlayers = v.playingPlayers
        BY <3>12 DEF DelayedFor, Rest
      <4>2. v.deserted = u.deserted /\ v.playingPlayers = u.playingPlayers
        BY <3>9 DEF Played, Rest
      <4>3. u.deserted = e.deserted /\ u.playingPlayers = e.playingPlayers
        BY <3>4 DEF Rest
      <4> QED
        BY <2>3, <4>1, <4>2, <4>3 DEF Handled
    <3>14. ASSUME NEW ahead \in Seq(SimAction), NEW away, s \in Turns(tk, ahead, away), m.move # 0
           PROVE  t \in Turns(tk, ahead, away)
      <4>1. e \in Turns(tk, ahead, away) /\ IsAnswer(e, m, ahead \o e.sendActions)
        BY <2>4, <3>14
      <4>2. u \in Turns(tk, ahead, away)
        <5>1. /\ u.waitingPlayers = e.waitingPlayers /\ u.playingPlayer = e.playingPlayer
              /\ u.deserted = e.deserted /\ u.moves = e.moves
          BY <3>4 DEF Rest
        <5>2. OnlyPlaying(e, tk) /\ Waits(e)
          BY <4>1 DEF Turns
        <5>3. OnlyPlaying(u, tk)
          BY <3>4, <5>1, <5>2 DEF OnlyPlaying
        <5>4. Discipline = "Sequential" =>
                  \A i \in 1 .. Len(u.waitingPlayers) : u.waitingPlayers[i] \notin NonNormal
          BY <5>1, <5>2 DEF Waits
        <5> QED
          BY <3>4, <4>1, <5>1, <5>3, <5>4, TurnsFields
      <4>3. IsAnswer(u, m, ahead \o u.sendActions)
        BY <3>4, <4>1 DEF IsAnswer, Before
      <4>4. v = PlayShots(u, {m}, no, no)
        BY <3>5, <3>6
      <4>5. v \in Turns(tk, ahead, away) /\ Queued(u, v)
        BY <4>2, <4>3, <4>4, TurnsAnswer
      <4>6. v.moveId[p] = 0
        BY <2>2, <3>4, <4>5 DEF Queued, Ended
      <4>7. p \in NonNormal
        BY <1>1
      <4> QED
        BY <3>12, <4>5, <4>6, <4>7, TurnsDelay
    <3> QED
      BY <1>1, <3>13, <3>14
  <2>6. CASE p \notin Alive(tk) \cap Computer
    <3>1. t = e
      BY <1>1, <1>3, <2>1, <2>6 DEF NonNormalMoveFinished
    <3> QED
      BY <1>1, <2>3, <2>4, <3>1
  <2> QED
    BY <2>5, <2>6
<1> QED
  BY <1>2, <1>3

\* Who plays when nobody of the turn has a move.
LEMMA PlayingPlayerIs ==
    ASSUME NEW s \in TurnsState, NEW player \in 0 .. N,
           NEW t, t = [s EXCEPT !.playingPlayer = player]
    PROVE  /\ t \in TurnsState /\ t.playingPlayer = player
           /\ t.waitingPlayers = s.waitingPlayers /\ t.waitingTime = s.waitingTime
           /\ t.deserted = s.deserted /\ t.moves = s.moves
           /\ t.timedPlayers = s.timedPlayers /\ t.playingPlayers = s.playingPlayers
           /\ t.shotsState = s.shotsState /\ Queues(t) = Queues(s)
BY DEF TurnsState, Queues

LEMMA TurnsNobodyPlays ==
    ASSUME NEW tk, NEW ahead \in Seq(SimAction), NEW away, NEW s \in Turns(tk, ahead, away),
           \A p \in TakeTurns(tk) : s.moveId[p] = 0,
           NEW t, t = [s EXCEPT !.playingPlayer = 0]
    PROVE  t \in Turns(tk, ahead, away)
<1>1. s \in TurnsState /\ OnlyPlaying(s, tk) /\ Waits(s)
  BY DEF Turns
<1>2. /\ t \in TurnsState /\ t.waitingPlayers = s.waitingPlayers
      /\ t.deserted = s.deserted /\ t.moves = s.moves
      /\ t.timedPlayers = s.timedPlayers /\ t.playingPlayers = s.playingPlayers
      /\ Queues(t) = Queues(s)
  <2>1. PICK player \in 0 .. N : player = 0
    OBVIOUS
  <2>2. t = [s EXCEPT !.playingPlayer = player]
    BY <2>1
  <2> QED
    BY <1>1, <2>2, PlayingPlayerIs
<1>3. t.sendActions = s.sendActions /\ t.moveId = s.moveId /\ t.nextMoveId = s.nextMoveId
  BY <1>2 DEF Queues
<1>4. OnlyPlaying(t, tk)
  BY <1>3 DEF OnlyPlaying
<1>5. Discipline = "Sequential" =>
          \A i \in 1 .. Len(t.waitingPlayers) : t.waitingPlayers[i] \notin NonNormal
  BY <1>1, <1>2 DEF Waits
<1> QED
  BY <1>2, <1>3, <1>4, <1>5, TurnsFields

LEMMA SequentialFinished ==
    ASSUME Discipline = "Sequential", NEW tk, NEW s \in TurnsState, NEW m \in Message,
           NEW t, t = SequentialMoveFinished(s, tk, m)
    PROVE  /\ Handled(s, t, m.player)
           /\ \A ahead \in Seq(SimAction) : \A away :
                  s \in Turns(tk, ahead, away) /\ m.move # 0 => t \in Turns(tk, ahead, away)
<1>1. PICK p \in Tankets : p = m.player
  BY DEF Message
<1>2. CASE p # s.playingPlayer \/ p \notin Present(tk) \/ s.moveId[p] # m.move
  <2>1. t = s
    BY <1>1, <1>2 DEF SequentialMoveFinished
  <2> QED
    BY <2>1 DEF Handled, SameBut
<1>3. CASE ~(p # s.playingPlayer \/ p \notin Present(tk) \/ s.moveId[p] # m.move)
  <2>1. PICK e : e = PlayMoveFinished(s, p)
    OBVIOUS
  <2>2. Ended(s, e, p)
    BY <2>1, PlayMoveFinishedIs
  <2>3. PICK u : u = [e EXCEPT !.playingPlayer = 0]
    OBVIOUS
  <2>4. /\ e \in TurnsState /\ e.deserted = s.deserted
        /\ SameBut(e.playingPlayers, s.playingPlayers, p)
    BY <2>2 DEF Ended, Rest
  <2>5. /\ u \in TurnsState /\ u.deserted = e.deserted /\ u.moves = e.moves
        /\ u.playingPlayers = e.playingPlayers /\ Queues(u) = Queues(e)
    <3>1. PICK player \in 0 .. N : player = 0
      OBVIOUS
    <3>2. u = [e EXCEPT !.playingPlayer = player]
      BY <2>3, <3>1
    <3> QED
      BY <2>4, <3>2, PlayingPlayerIs
  <2>6. ASSUME NEW ahead \in Seq(SimAction), NEW away, s \in Turns(tk, ahead, away), m.move # 0
        PROVE  u \in Turns(tk, ahead, away) /\ IsAnswer(u, m, ahead \o u.sendActions) /\ u.moves = {}
    <3>1. e = PlayMoveFinished(s, m.player) /\ s.moveId[m.player] = m.move
      BY <1>1, <1>3, <2>1
    <3>2. e \in Turns(tk, ahead, away) /\ IsAnswer(e, m, ahead \o e.sendActions)
      BY <2>6, <3>1, TurnsFinished
    <3>3. \A q \in TakeTurns(tk) : e.moveId[q] = 0
      <4>1. \A q \in TakeTurns(tk) : s.moveId[q] # 0 => q = p
        BY <1>3, <2>6 DEF Turns, OnlyPlaying
      <4>2. e.moveId[p] = 0 /\ SameBut(e.moveId, s.moveId, p)
        BY <2>2 DEF Ended
      <4>3. TakeTurns(tk) \subseteq Tankets
        BY DEF TakeTurns, Present
      <4> QED
        BY <4>1, <4>2, <4>3 DEF SameBut
    <3>4. u \in Turns(tk, ahead, away)
      BY <2>3, <3>2, <3>3, TurnsNobodyPlays
    <3>5. IsAnswer(u, m, ahead \o u.sendActions)
      BY <2>5, <3>2 DEF IsAnswer, Before, Queues
    <3>6. u.moves = {}
      BY <3>4 DEF Turns, Collects
    <3> QED
      BY <3>4, <3>5, <3>6
  <2>7. CASE p \in Alive(tk)
    <3>1. PICK yes \in BOOLEAN : yes = TRUE
      OBVIOUS
    <3>2. PICK moves \in SUBSET Message : moves = {m}
      OBVIOUS
    <3>3. t = PlayShots(u, {m}, TRUE, TRUE)
      BY <1>1, <1>3, <2>1, <2>3, <2>7 DEF SequentialMoveFinished
    <3>4. t = PlayShots(u, moves, yes, yes)
      BY <3>1, <3>2, <3>3
    <3>5. Played(u, t, moves, yes, yes)
      BY <2>5, <3>4, PlayShotsIs
    <3>6. Handled(s, t, p)
      BY <2>4, <2>5, <3>5 DEF Handled, Played, Rest
    <3>7. ASSUME NEW ahead \in Seq(SimAction), NEW away, s \in Turns(tk, ahead, away), m.move # 0
          PROVE  t \in Turns(tk, ahead, away)
      <4>1. /\ u \in Turns(tk, ahead, away) /\ IsAnswer(u, m, ahead \o u.sendActions)
            /\ u.moves = {}
        BY <2>6, <3>7
      <4>2. t = PlayShots(u, {m}, yes, yes)
        BY <3>1, <3>3
      <4> QED
        BY <4>1, <4>2, TurnsAnswer
    <3> QED
      BY <1>1, <3>6, <3>7
  <2>8. CASE p \notin Alive(tk)
    <3>1. t = u
      BY <1>1, <1>3, <2>1, <2>3, <2>8 DEF SequentialMoveFinished
    <3>2. Handled(s, t, p)
      BY <2>4, <2>5, <3>1 DEF Handled
    <3> QED
      BY <1>1, <2>6, <3>1, <3>2
  <2> QED
    BY <2>7, <2>8
<1> QED
  BY <1>2, <1>3

LEMMA FreeFinished ==
    ASSUME Discipline = "Free", NEW tk, NEW s \in TurnsState, NEW m \in Message,
           NEW thinking \in Nat, NEW t, t = FreeMoveFinished(s, tk, m, thinking)
    PROVE  /\ Handled(s, t, m.player)
           /\ \A ahead \in Seq(SimAction) : \A away :
                  s \in Turns(tk, ahead, away) /\ m.move # 0 => t \in Turns(tk, ahead, away)
<1>1. PICK p \in Tankets : p = m.player
  BY DEF Message
<1>2. CASE p \notin Present(tk) \/ s.moveId[p] # m.move
  <2>1. t = s
    BY <1>1, <1>2 DEF FreeMoveFinished
  <2> QED
    BY <2>1 DEF Handled, SameBut
<1>3. CASE ~(p \notin Present(tk) \/ s.moveId[p] # m.move)
  <2>1. PICK e : e = PlayMoveFinished(s, p)
    OBVIOUS
  <2>2. Ended(s, e, p)
    BY <2>1, PlayMoveFinishedIs
  <2>3. /\ e \in TurnsState /\ e.deserted = s.deserted
        /\ SameBut(e.playingPlayers, s.playingPlayers, p)
    BY <2>2 DEF Ended, Rest
  <2>4. ASSUME NEW ahead \in Seq(SimAction), NEW away, s \in Turns(tk, ahead, away), m.move # 0
        PROVE  e \in Turns(tk, ahead, away) /\ IsAnswer(e, m, ahead \o e.sendActions) /\ e.moves = {}
    <3>1. e = PlayMoveFinished(s, m.player) /\ s.moveId[m.player] = m.move
      BY <1>1, <1>3, <2>1
    <3>2. e \in Turns(tk, ahead, away) /\ IsAnswer(e, m, ahead \o e.sendActions)
      BY <2>4, <3>1, TurnsFinished
    <3>3. e.moves = {}
      BY <3>2 DEF Turns, Collects
    <3> QED
      BY <3>2, <3>3
  <2>5. CASE p \in Alive(tk)
    <3>1. PICK no \in BOOLEAN, yes \in BOOLEAN : no = FALSE /\ yes = TRUE
      OBVIOUS
    <3>2. PICK moves \in SUBSET Message : moves = {m}
      OBVIOUS
    <3>3. PICK v : v = PlayShots(e, {m}, FALSE, TRUE)
      OBVIOUS
    <3>4. v = PlayShots(e, moves, no, yes)
      BY <3>1, <3>2, <3>3
    <3>5. Played(e, v, moves, no, yes)
      BY <2>3, <3>4, PlayShotsIs
    <3>6. PICK delay \in Nat :
              delay = (IF FreeTimed THEN MoveTime ELSE 0) + (IF HasAI(s, p) THEN thinking ELSE 0)
      <4>1. (IF FreeTimed THEN MoveTime ELSE 0) \in Nat /\ (IF HasAI(s, p) THEN thinking ELSE 0) \in Nat
        OBVIOUS
      <4> QED
        BY <4>1
    <3>7. t = Delayed(v, p, delay)
      BY <1>1, <1>3, <2>1, <2>5, <3>3, <3>6, Zenon DEF FreeMoveFinished
    <3>8. v \in TurnsState
      BY <3>5 DEF Played
    <3>9. DelayedFor(v, t, p)
      BY <3>7, <3>8, DelayedIs
    <3>10. Handled(s, t, p)
      <4>1. t \in TurnsState /\ t.deserted = v.deserted /\ t.playingPlayers = v.playingPlayers
        BY <3>9 DEF DelayedFor, Rest
      <4>2. v.deserted = e.deserted /\ v.playingPlayers = e.playingPlayers
        BY <3>5 DEF Played, Rest
      <4> QED
        BY <2>3, <4>1, <4>2 DEF Handled
    <3>11. ASSUME NEW ahead \in Seq(SimAction), NEW away, s \in Turns(tk, ahead, away), m.move # 0
           PROVE  t \in Turns(tk, ahead, away)
      <4>1. /\ e \in Turns(tk, ahead, away) /\ IsAnswer(e, m, ahead \o e.sendActions)
            /\ e.moves = {}
        BY <2>4, <3>11
      <4>2. v = PlayShots(e, {m}, no, yes)
        BY <3>1, <3>3
      <4>3. v \in Turns(tk, ahead, away) /\ Queued(e, v)
        BY <4>1, <4>2, TurnsAnswer
      <4>4. v.moveId[p] = 0
        BY <2>2, <4>3 DEF Queued, Ended
      <4>5. Discipline # "Free" => p \in NonNormal
        OBVIOUS
      <4> QED
        BY <3>9, <4>3, <4>4, <4>5, TurnsDelay
    <3> QED
      BY <1>1, <3>10, <3>11
  <2>6. CASE p \notin Alive(tk)
    <3>1. t = e
      BY <1>1, <1>3, <2>1, <2>6 DEF FreeMoveFinished
    <3>2. Handled(s, t, p)
      BY <2>3, <3>1 DEF Handled
    <3> QED
      BY <1>1, <2>4, <3>1, <3>2
  <2> QED
    BY <2>5, <2>6
<1> QED
  BY <1>2, <1>3

\* The messages that wait for the others.
WaitingMoves(s, t, moves) ==
    /\ t \in TurnsState /\ t.moves = moves
    /\ t.waitingPlayers = s.waitingPlayers /\ t.waitingTime = s.waitingTime
    /\ t.deserted = s.deserted /\ t.playingPlayer = s.playingPlayer
    /\ t.timedPlayers = s.timedPlayers /\ t.playingPlayers = s.playingPlayers
    /\ t.shotsState = s.shotsState /\ Queues(t) = Queues(s)

LEMMA MovesAre ==
    ASSUME NEW s \in TurnsState, NEW moves \in SUBSET Message,
           NEW t, t = [s EXCEPT !.moves = moves]
    PROVE  WaitingMoves(s, t, moves)
BY DEF TurnsState, Queues, WaitingMoves

LEMMA TurnsMoves ==
    ASSUME NEW tk, NEW ahead \in Seq(SimAction), NEW away, NEW s \in Turns(tk, ahead, away),
           Discipline = "Simultaneous",
           NEW moves \in SUBSET Message, OnePerPlayer(moves), Before(s, moves),
           \A i \in 1 .. Len(ahead \o s.sendActions) :
               Earlier(MovesAt(ahead \o s.sendActions, i), moves),
           NEW t, t = [s EXCEPT !.moves = moves]
    PROVE  t \in Turns(tk, ahead, away)
<1>1. /\ s \in TurnsState /\ Timers(s) /\ Ids(s, ahead \o s.sendActions)
      /\ OnlyPlaying(s, tk) /\ Waits(s) /\ OneEach(s, tk) /\ s.deserted = away
  BY DEF Turns, Common
<1>2. /\ t \in TurnsState /\ t.moves = moves /\ t.waitingPlayers = s.waitingPlayers
      /\ t.deserted = s.deserted /\ t.playingPlayer = s.playingPlayer
      /\ t.timedPlayers = s.timedPlayers /\ t.playingPlayers = s.playingPlayers
      /\ Queues(t) = Queues(s)
  <2>1. WaitingMoves(s, t, moves)
    BY <1>1, MovesAre
  <2> QED
    BY <2>1 DEF WaitingMoves
<1>3. t.sendActions = s.sendActions /\ t.moveId = s.moveId /\ t.nextMoveId = s.nextMoveId
  BY <1>2 DEF Queues
<1>4. Timers(t)
  BY <1>1, <1>2, <1>3 DEF Timers
<1>5. Ids(t, ahead \o t.sendActions)
  <2> DEFINE q == ahead \o s.sendActions
  <2>1. /\ Ids(s, q) /\ ahead \o t.sendActions = q
        /\ \A i \in 1 .. Len(q) : Earlier(MovesAt(q, i), moves)
    BY <1>1, <1>3
  <2> HIDE DEF q
  <2>2. Ids(t, q)
    BY <1>2, <1>3, <2>1 DEF Ids, Before
  <2> QED
    BY <2>1, <2>2
<1>6. OnlyPlaying(t, tk) /\ Waits(t)
  <2>1. OnlyPlaying(t, tk)
    BY DEF OnlyPlaying
  <2>2. Waits(t)
    BY <1>1, <1>2, <1>3 DEF Waits
  <2> QED
    BY <2>1, <2>2
<1>7. OneEach(t, tk)
  <2>1. \A p \in Tankets : DestinationOf(t, p) = DestinationOf(s, p)
    BY <1>2 DEF DestinationOf
  <2>2. TakeTurns(tk) \subseteq Tankets
    BY DEF TakeTurns, Present
  <2> QED
    BY <1>1, <1>3, <2>1, <2>2 DEF OneEach
<1> QED
  BY <1>1, <1>2, <1>4, <1>5, <1>6, <1>7 DEF Turns, Common, Collects

LEMMA SimultaneousFinished ==
    ASSUME Discipline = "Simultaneous", NEW tk, NEW s \in TurnsState, NEW m \in Message,
           NEW t, t = SimultaneousMoveFinished(s, tk, m)
    PROVE  /\ Handled(s, t, m.player)
           /\ \A ahead \in Seq(SimAction) : \A away :
                  s \in Turns(tk, ahead, away) /\ m.move # 0 => t \in Turns(tk, ahead, away)
<1>1. PICK p \in Tankets : p = m.player
  BY DEF Message
<1>2. CASE p \notin Present(tk) \/ s.moveId[p] # m.move \/ HasMove(s, p)
  <2>1. t = s
    BY <1>1, <1>2 DEF SimultaneousMoveFinished
  <2> QED
    BY <2>1 DEF Handled, SameBut
<1>3. CASE ~(p \notin Present(tk) \/ s.moveId[p] # m.move \/ HasMove(s, p))
  <2>1. PICK e : e = PlayMoveFinished(s, p)
    OBVIOUS
  <2>2. Ended(s, e, p)
    BY <2>1, PlayMoveFinishedIs
  <2>3. /\ e \in TurnsState /\ e.deserted = s.deserted /\ e.moves = s.moves
        /\ SameBut(e.playingPlayers, s.playingPlayers, p)
    BY <2>2 DEF Ended, Rest
  <2>4. PICK moves \in SUBSET Message : moves = e.moves \cup {m}
    <3>1. e.moves \in SUBSET Message
      BY <2>3, StateFields
    <3> QED
      BY <3>1
  <2>5. t = [e EXCEPT !.moves = moves]
    BY <1>1, <1>3, <2>1, <2>4 DEF SimultaneousMoveFinished
  <2>6. t \in TurnsState /\ t.deserted = e.deserted /\ t.playingPlayers = e.playingPlayers
    <3>1. WaitingMoves(e, t, moves)
      BY <2>3, <2>5, MovesAre
    <3> QED
      BY <3>1 DEF WaitingMoves
  <2>7. Handled(s, t, p)
    BY <2>3, <2>6 DEF Handled
  <2>8. ASSUME NEW ahead \in Seq(SimAction), NEW away, s \in Turns(tk, ahead, away), m.move # 0
        PROVE  t \in Turns(tk, ahead, away)
    <3>1. e = PlayMoveFinished(s, m.player) /\ s.moveId[m.player] = m.move
      BY <1>1, <1>3, <2>1
    <3>2. e \in Turns(tk, ahead, away) /\ IsAnswer(e, m, ahead \o e.sendActions)
      BY <2>8, <3>1, TurnsFinished
    <3>3. Ids(e, ahead \o e.sendActions)
      BY <3>2 DEF Turns, Common
    <3>4. OnePerPlayer(moves)
      <4>1. OnePerPlayer(e.moves)
        BY <3>3 DEF Ids
      <4>2. \A n \in e.moves : n.player # m.player
        BY <1>1, <1>3, <2>3 DEF HasMove
      <4> QED
        BY <2>4, <4>1, <4>2 DEF OnePerPlayer
    <3>5. Before(e, moves)
      <4>1. Before(e, e.moves) /\ Before(e, {m})
        BY <3>2, <3>3 DEF Ids, IsAnswer
      <4> QED
        BY <2>4, <4>1 DEF Before
    <3>6. ASSUME NEW i \in 1 .. Len(ahead \o e.sendActions)
          PROVE  Earlier(MovesAt(ahead \o e.sendActions, i), moves)
      <4>1. /\ Earlier(MovesAt(ahead \o e.sendActions, i), e.moves)
            /\ Earlier(MovesAt(ahead \o e.sendActions, i), {m})
        BY <3>2, <3>3 DEF Ids, IsAnswer
      <4> QED
        BY <2>4, <4>1 DEF Earlier
    <3> QED
      BY <2>5, <3>2, <3>4, <3>5, <3>6, TurnsMoves
  <2> QED
    BY <1>1, <2>7, <2>8
<1> QED
  BY <1>2, <1>3

LEMMA MoveFinishedKeeps ==
    ASSUME NEW tk, NEW s \in TurnsState, NEW m \in Message, NEW thinking \in Nat,
           NEW t, t = MoveFinished(s, tk, m, thinking)
    PROVE  /\ Handled(s, t, m.player)
           /\ \A ahead \in Seq(SimAction) : \A away :
                  s \in Turns(tk, ahead, away) /\ m.move # 0 => t \in Turns(tk, ahead, away)
<1>1. CASE m.player \in Present(tk) \cap NonNormal
  <2>1. t = NonNormalMoveFinished(s, tk, m, thinking)
    BY <1>1 DEF MoveFinished
  <2> QED
    BY <1>1, <2>1, NonNormalFinished
<1>2. CASE m.player \notin Present(tk) \cap NonNormal
  <2>1. t = InternalMoveFinished(s, tk, m, thinking)
    BY <1>2 DEF MoveFinished
  <2>2. CASE Discipline = "Sequential"
    <3>1. t = SequentialMoveFinished(s, tk, m)
      BY <2>1, <2>2 DEF InternalMoveFinished
    <3> QED
      BY <2>2, <3>1, SequentialFinished
  <2>3. CASE Discipline = "Simultaneous"
    <3>1. t = SimultaneousMoveFinished(s, tk, m)
      BY <2>1, <2>3 DEF InternalMoveFinished
    <3> QED
      BY <2>3, <3>1, SimultaneousFinished
  <2>4. CASE Discipline = "Free"
    <3>1. t = FreeMoveFinished(s, tk, m, thinking)
      BY <2>1, <2>4 DEF InternalMoveFinished
    <3> QED
      BY <2>4, <3>1, FreeFinished
  <2> QED
    BY <2>2, <2>3, <2>4, DisciplineAssumption
<1> QED
  BY <1>1, <1>2

-----------------------------------------------------------------------------
(* simulate: the part of all disciplines.                                   *)

\* Time passes, or the shots go on.
LEMMA TurnsClock ==
    ASSUME NEW tk, NEW ahead \in Seq(SimAction), NEW away, NEW s \in Turns(tk, ahead, away),
           NEW t \in TurnsState, Queues(t) = Queues(s), Rest(t) = Rest(s),
           \A q \in Tankets : t.timedPlayers[q] > 0 => s.timedPlayers[q] > 0,
           \A q \in Tankets :
              \/ t.playingPlayers[q] = s.playingPlayers[q]
              \/ /\ s.playingPlayers[q] # NoTimer
                 /\ t.playingPlayers[q].move = s.playingPlayers[q].move
    PROVE  t \in Turns(tk, ahead, away)
<1>1. /\ s \in TurnsState /\ Common(s, ahead) /\ OnlyPlaying(s, tk) /\ Waits(s)
      /\ OneEach(s, tk) /\ Collects(s) /\ s.deserted = away
  BY DEF Turns
<1>2. /\ t.moveId = s.moveId /\ t.waitingPlayers = s.waitingPlayers
      /\ t.playingPlayer = s.playingPlayer /\ t.deserted = s.deserted /\ t.moves = s.moves
  BY DEF Queues, Rest
<1>3. Common(t, ahead)
  BY <1>1, CommonFields
<1>4. OnlyPlaying(t, tk)
  BY <1>1, <1>2 DEF OnlyPlaying
<1>5. Waits(t)
  <2>1. s.timedPlayers \in [Tankets -> Nat] /\ t.timedPlayers \in [Tankets -> Nat]
    BY <1>1, StateFields
  <2>2. ASSUME NEW q \in Tankets, s.timedPlayers[q] = 0 PROVE t.timedPlayers[q] = 0
    <3>1. PICK x \in Nat : x = t.timedPlayers[q]
      BY <2>1
    <3>2. ~(x > 0)
      BY <2>2, <3>1
    <3> QED
      BY <3>1, <3>2
  <2> QED
    BY <1>1, <1>2, <2>2 DEF Waits
<1>6. OneEach(t, tk)
  <2>1. \A q \in Tankets : DestinationOf(t, q) = DestinationOf(s, q)
    BY <1>2 DEF DestinationOf
  <2>2. TakeTurns(tk) \subseteq Tankets
    BY DEF TakeTurns, Present
  <2> QED
    BY <1>1, <1>2, <2>1, <2>2 DEF OneEach
<1> QED
  BY <1>1, <1>2, <1>3, <1>4, <1>5, <1>6 DEF Turns, Collects

LEMMA TurnsTimers ==
    ASSUME NEW tk, NEW ahead \in Seq(SimAction), NEW away, NEW s \in Turns(tk, ahead, away),
           NEW time \in {0, 1}, NEW t, t = RunTimers(s, time)
    PROVE  t \in Turns(tk, ahead, away) /\ t.shotsState = s.shotsState
<1>1. s \in TurnsState
  BY DEF Turns
<1>2. /\ t \in TurnsState
      /\ \A q \in Tankets :
            \/ t.playingPlayers[q] = s.playingPlayers[q]
            \/ /\ s.playingPlayers[q] # NoTimer /\ t.playingPlayers[q].started
               /\ t.playingPlayers[q].move = s.playingPlayers[q].move
      /\ t.timedPlayers = s.timedPlayers /\ t.shotsState = s.shotsState
      /\ Queues(t) = Queues(s) /\ Rest(t) = Rest(s)
  BY <1>1, RunTimersIs
<1> QED
  BY <1>2, TurnsClock

LEMMA TurnsDelays ==
    ASSUME NEW tk, NEW ahead \in Seq(SimAction), NEW away, NEW s \in Turns(tk, ahead, away),
           NEW time \in {0, 1}, NEW t, t = RunDelays(s, time)
    PROVE  t \in Turns(tk, ahead, away)
<1>1. s \in TurnsState
  BY DEF Turns
<1>2. /\ t \in TurnsState
      /\ \A q \in Tankets : t.timedPlayers[q] > 0 => s.timedPlayers[q] > 0
      /\ t.playingPlayers = s.playingPlayers
      /\ Queues(t) = Queues(s) /\ Rest(t) = Rest(s)
  BY <1>1, RunDelaysIs
<1> QED
  BY <1>2, TurnsClock

\* The moves that are over, and what is done with one.
Over(s) == {p \in Tankets : s.playingPlayers[p].started /\ s.playingPlayers[p].time < 0}

TimedOut(t, tk, p) ==
    MoveFinished(t, tk, [player |-> p, move |-> t.playingPlayers[p].move, type |-> "eTimeout"], 0)

LEMMA TimedOutMessage ==
    ASSUME NEW t \in TurnsState, NEW p \in Tankets
    PROVE  [player |-> p, move |-> t.playingPlayers[p].move, type |-> "eTimeout"] \in Message
<1>1. t.playingPlayers[p] \in Timer
  BY StateFields
<1> QED
  BY <1>1 DEF Timer, Message

LEMMA TimeOutLoop ==
    ASSUME NEW tk, NEW s \in TurnsState
    PROVE  \E f : /\ f[0] = s
                  /\ \A p \in 1 .. N :
                        f[p] = IF p \in Over(s) THEN TimedOut(f[p - 1], tk, p) ELSE f[p - 1]
                  /\ TimeOut(s, tk) = f[N]
<1> DEFINE step == [x \in TurnsState \X (1 .. N) |->
                     IF x[2] \in Over(s) THEN TimedOut(x[1], tk, x[2]) ELSE x[1]]
<1>1. ASSUME NEW x \in TurnsState, NEW p \in 1 .. N, p \in Over(s)
      PROVE  TimedOut(x, tk, p) \in TurnsState
  <2>1. PICK m \in Message : m = [player |-> p, move |-> x.playingPlayers[p].move, type |-> "eTimeout"]
    BY TimedOutMessage
  <2>2. PICK thinking \in Nat : thinking = 0
    OBVIOUS
  <2>3. PICK t : t = MoveFinished(x, tk, m, thinking)
    OBVIOUS
  <2>4. t \in TurnsState
    BY <2>3, MoveFinishedKeeps DEF Handled
  <2>5. t = TimedOut(x, tk, p)
    BY <2>1, <2>2, <2>3 DEF TimedOut
  <2> QED
    BY <2>4, <2>5
<1>2. step \in [TurnsState \X (1 .. N) -> TurnsState]
  BY <1>1
<1>3. \A x \in TurnsState, p \in 1 .. N :
          step[<<x, p>>] = IF p \in Over(s) THEN TimedOut(x, tk, p) ELSE x
  OBVIOUS
<1> HIDE DEF step
<1>4. PICK f \in [0 .. N -> TurnsState] : IsLoopOver(f, N, Over(s), s, step)
  BY <1>2, LoopOver
<1>5. ASSUME NEW p \in 0 .. N, p # 0, p \in Over(s)
      PROVE  step[<<f[p - 1], p>>] = TimedOut(f[p - 1], tk, p)
  <2>1. p \in 1 .. N /\ f[p - 1] \in TurnsState
    BY <1>5
  <2> QED
    BY <1>3, <1>5, <2>1
<1>6. f = [p \in 0 .. N |->
            IF p = 0 THEN s
            ELSE IF p \in Over(s) THEN TimedOut(f[p - 1], tk, p) ELSE f[p - 1]]
  BY <1>4, <1>5 DEF IsLoopOver
<1> DEFINE after == CHOOSE g : g = [p \in 0 .. N |->
            IF p = 0 THEN s
            ELSE IF p \in Over(s) THEN TimedOut(g[p - 1], tk, p) ELSE g[p - 1]]
<1>7. after = [p \in 0 .. N |->
            IF p = 0 THEN s
            ELSE IF p \in Over(s) THEN TimedOut(after[p - 1], tk, p) ELSE after[p - 1]]
  BY <1>6, Zenon
<1>8. TimeOut(s, tk) = after[N]
  BY Zenon DEF TimeOut, ForEach, TimedOut, Over
<1> HIDE DEF after
<1>9. /\ after[0] = s
      /\ \A p \in 1 .. N :
            after[p] = IF p \in Over(s) THEN TimedOut(after[p - 1], tk, p) ELSE after[p - 1]
  BY <1>7
<1> QED
  BY <1>8, <1>9

LEMMA TurnsTimeOut ==
    ASSUME NEW tk, NEW ahead \in Seq(SimAction), NEW away, NEW s \in Turns(tk, ahead, away)
    PROVE  TimeOut(s, tk) \in Turns(tk, ahead, away)
<1>1. s \in TurnsState /\ Timers(s)
  BY DEF Turns, Common
<1>2. PICK f : /\ f[0] = s
               /\ \A p \in 1 .. N : f[p] = IF p \in Over(s) THEN TimedOut(f[p - 1], tk, p) ELSE f[p - 1]
               /\ TimeOut(s, tk) = f[N]
  BY <1>1, TimeOutLoop
<1> DEFINE Unvisited(i) == \A q \in Tankets : q > i => f[i].playingPlayers[q] = s.playingPlayers[q]
<1> DEFINE U == {i \in 0 .. N : f[i] \in Turns(tk, ahead, away) /\ Unvisited(i)}
<1>3. 0 \in U
  BY <1>2
<1>4. ASSUME NEW i \in 1 .. N, i - 1 \in U PROVE i \in U
  <2>1. PICK t : t = f[i - 1]
    OBVIOUS
  <2>2. /\ t \in Turns(tk, ahead, away)
        /\ \A q \in Tankets : q > i - 1 => t.playingPlayers[q] = s.playingPlayers[q]
    BY <1>4, <2>1
  <2>3. CASE i \in Over(s)
    <3>1. f[i] = TimedOut(t, tk, i)
      BY <1>2, <2>1, <2>3
    <3>2. t \in TurnsState
      BY <2>2 DEF Turns
    <3>3. PICK m \in Message : m = [player |-> i, move |-> t.playingPlayers[i].move, type |-> "eTimeout"]
      BY <3>2, TimedOutMessage
    <3>4. PICK thinking \in Nat : thinking = 0
      OBVIOUS
    <3>5. f[i] = MoveFinished(t, tk, m, thinking)
      BY <3>1, <3>3, <3>4 DEF TimedOut
    <3>6. m.move # 0
      <4>1. t.playingPlayers[i] = s.playingPlayers[i]
        BY <2>2
      <4>2. s.playingPlayers[i] # NoTimer
        BY <2>3 DEF Over, NoTimer
      <4>3. s.playingPlayers[i].move # 0
        BY <1>1, <4>2 DEF Timers
      <4> QED
        BY <3>3, <4>1, <4>3
    <3>7. Handled(t, f[i], m.player) /\ f[i] \in Turns(tk, ahead, away)
      <4>1. PICK u : u = MoveFinished(t, tk, m, thinking)
        OBVIOUS
      <4>2. Handled(t, u, m.player) /\ u \in Turns(tk, ahead, away)
        BY <2>2, <3>2, <3>6, <4>1, MoveFinishedKeeps
      <4> QED
        BY <3>5, <4>1, <4>2
    <3>8. ASSUME NEW q \in Tankets, q > i PROVE f[i].playingPlayers[q] = s.playingPlayers[q]
      <4>1. m.player = i
        BY <3>3
      <4>2. f[i].playingPlayers[q] = t.playingPlayers[q]
        BY <3>7, <3>8, <4>1 DEF Handled, SameBut
      <4>3. q > i - 1
        BY <3>8
      <4> QED
        BY <2>2, <4>2, <4>3
    <3> QED
      BY <3>7, <3>8
  <2>4. CASE i \notin Over(s)
    <3>1. f[i] = t
      BY <1>2, <2>1, <2>4
    <3>2. \A q \in Tankets : q > i => q > i - 1
      OBVIOUS
    <3> QED
      BY <2>2, <3>1, <3>2
  <2> QED
    BY <2>3, <2>4
<1>5. \A i \in 0 .. N : i \in U
  <2> HIDE DEF U
  <2>1. N \in Nat
    OBVIOUS
  <2>2. \A i \in 1 .. N : i - 1 \in U => i \in U
    BY <1>4
  <2> QED
    BY <1>3, <2>1, <2>2, UpTo
<1>6. f[N] \in Turns(tk, ahead, away)
  <2>1. N \in 0 .. N
    OBVIOUS
  <2> QED
    BY <1>5, <2>1
<1> QED
  BY <1>2, <1>6

\* A move outside the turns, for one that has none and does not wait.
NonNormalPlayers(tk) == Present(tk) \cap NonNormal \cap Computer

GiveToNonNormal(t, p) ==
    IF t.moveId[p] = 0 /\ t.timedPlayers[p] = 0 THEN GiveNonNormalMove(t, p) ELSE t

LEMMA TurnsGiveNonNormal ==
    ASSUME NEW tk, NEW ahead \in Seq(SimAction), NEW away, NEW s \in Turns(tk, ahead, away),
           NEW p \in NonNormal
    PROVE  GiveToNonNormal(s, p) \in Turns(tk, ahead, away)
<1>1. CASE ~(s.moveId[p] = 0 /\ s.timedPlayers[p] = 0)
  BY <1>1 DEF GiveToNonNormal
<1>2. CASE s.moveId[p] = 0 /\ s.timedPlayers[p] = 0
  <2>1. /\ s \in TurnsState /\ Common(s, ahead) /\ OnlyPlaying(s, tk) /\ Waits(s)
        /\ OneEach(s, tk) /\ Collects(s) /\ s.deserted = away
    BY DEF Turns
  <2>2. PICK t : t = GiveNonNormalMove(s, p)
    OBVIOUS
  <2>3. p \in Tankets
    OBVIOUS
  <2>4. PICK next : next = s.nextNonNormalMoveId + 1
    OBVIOUS
  <2>5. PICK time : time = 0
    OBVIOUS
  <2>6. Given(s, t, p, next, time)
    BY <2>1, <2>2, <2>3, <2>4, <2>5, GiveNonNormalMoveIs
  <2>7. /\ t \in TurnsState /\ SameBut(t.moveId, s.moveId, p)
        /\ t.timedPlayers = s.timedPlayers /\ Rest(t) = Rest(s)
    BY <2>6 DEF Given
  <2>8. Common(t, ahead)
    BY <1>2, <2>1, <2>2, CommonGiveNonNormal
  <2>9. /\ t.waitingPlayers = s.waitingPlayers /\ t.playingPlayer = s.playingPlayer
        /\ t.deserted = s.deserted /\ t.moves = s.moves
    BY <2>7 DEF Rest
  <2>10. \A q \in TakeTurns(tk) : q \in Tankets /\ t.moveId[q] = s.moveId[q]
    BY <2>7 DEF TakeTurns, Present, SameBut
  <2>11. OnlyPlaying(t, tk)
    BY <2>1, <2>9, <2>10 DEF OnlyPlaying
  <2>12. Waits(t)
    BY <1>2, <2>1, <2>7, <2>9 DEF Waits, SameBut
  <2>13. OneEach(t, tk)
    <3>1. \A q \in Tankets : DestinationOf(t, q) = DestinationOf(s, q)
      BY <2>9 DEF DestinationOf
    <3> QED
      BY <2>1, <2>10, <3>1 DEF OneEach
  <2>14. t \in Turns(tk, ahead, away)
    BY <2>1, <2>7, <2>8, <2>9, <2>11, <2>12, <2>13 DEF Turns, Collects
  <2> QED
    BY <1>2, <2>2, <2>14 DEF GiveToNonNormal
<1> QED
  BY <1>1, <1>2

IsGiving(f, s, tk, kept) ==
    /\ f[0] = s
    /\ \A p \in 1 .. N :
          f[p] = IF p \in NonNormalPlayers(tk) THEN GiveToNonNormal(f[p - 1], p) ELSE f[p - 1]
    /\ \A p \in 1 .. N : f[p - 1] \in kept => f[p] \in kept
    /\ GiveNonNormalMoves(s, tk) = f[N]

LEMMA NonNormalLoop ==
    ASSUME NEW tk, NEW ahead \in Seq(SimAction), NEW away, NEW s \in Turns(tk, ahead, away)
    PROVE  \E f : IsGiving(f, s, tk, Turns(tk, ahead, away))
<1> DEFINE step == [x \in Turns(tk, ahead, away) \X (1 .. N) |->
                     IF x[2] \in NonNormalPlayers(tk) THEN GiveToNonNormal(x[1], x[2]) ELSE x[1]]
<1>1. ASSUME NEW x \in Turns(tk, ahead, away), NEW p \in 1 .. N, p \in NonNormalPlayers(tk)
      PROVE  GiveToNonNormal(x, p) \in Turns(tk, ahead, away)
  <2>1. p \in NonNormal
    BY <1>1 DEF NonNormalPlayers
  <2> QED
    BY <2>1, TurnsGiveNonNormal
<1>2. step \in [Turns(tk, ahead, away) \X (1 .. N) -> Turns(tk, ahead, away)]
  BY <1>1
<1>3. \A x \in Turns(tk, ahead, away), p \in 1 .. N :
          step[<<x, p>>] = IF p \in NonNormalPlayers(tk) THEN GiveToNonNormal(x, p) ELSE x
  OBVIOUS
<1> HIDE DEF step
<1>4. PICK f \in [0 .. N -> Turns(tk, ahead, away)] : IsLoopOver(f, N, NonNormalPlayers(tk), s, step)
  BY <1>2, LoopOver
<1>5. ASSUME NEW p \in 0 .. N, p # 0, p \in NonNormalPlayers(tk)
      PROVE  step[<<f[p - 1], p>>] = GiveToNonNormal(f[p - 1], p)
  <2>1. p \in 1 .. N /\ f[p - 1] \in Turns(tk, ahead, away)
    BY <1>5
  <2> QED
    BY <1>3, <1>5, <2>1
<1>6. f = [p \in 0 .. N |->
            IF p = 0 THEN s
            ELSE IF p \in NonNormalPlayers(tk) THEN GiveToNonNormal(f[p - 1], p) ELSE f[p - 1]]
  BY <1>4, <1>5 DEF IsLoopOver
<1> DEFINE after == CHOOSE g : g = [p \in 0 .. N |->
            IF p = 0 THEN s
            ELSE IF p \in NonNormalPlayers(tk) THEN GiveToNonNormal(g[p - 1], p) ELSE g[p - 1]]
<1>7. after = [p \in 0 .. N |->
            IF p = 0 THEN s
            ELSE IF p \in NonNormalPlayers(tk) THEN GiveToNonNormal(after[p - 1], p) ELSE after[p - 1]]
  BY <1>6, Zenon
<1>8. GiveNonNormalMoves(s, tk) = after[N]
  BY Zenon DEF GiveNonNormalMoves, ForEach, GiveToNonNormal, GiveNonNormalMove, NonNormalPlayers
<1> HIDE DEF after
<1>9. /\ after[0] = s
      /\ \A p \in 1 .. N :
            after[p] = IF p \in NonNormalPlayers(tk) THEN GiveToNonNormal(after[p - 1], p) ELSE after[p - 1]
  BY <1>7
<1>10. \A p \in 1 .. N :
           after[p - 1] \in Turns(tk, ahead, away) => after[p] \in Turns(tk, ahead, away)
  BY <1>1, <1>9
<1>11. after[0] = s /\ \A p \in 1 .. N :
            after[p] = IF p \in NonNormalPlayers(tk) THEN GiveToNonNormal(after[p - 1], p) ELSE after[p - 1]
  BY <1>9
<1> QED
  BY <1>8, <1>10, <1>11, Zenon DEF IsGiving

LEMMA TurnsNonNormal ==
    ASSUME NEW tk, NEW ahead \in Seq(SimAction), NEW away, NEW s \in Turns(tk, ahead, away)
    PROVE  GiveNonNormalMoves(s, tk) \in Turns(tk, ahead, away)
<1>1. PICK f : IsGiving(f, s, tk, Turns(tk, ahead, away))
  BY NonNormalLoop
<1>2. N \in Nat /\ N \in 0 .. N /\ f[0] \in Turns(tk, ahead, away)
  BY <1>1 DEF IsGiving
<1>3. \A i \in 0 .. N : f[i] \in Turns(tk, ahead, away)
  BY <1>1, <1>2, LoopKeeps DEF IsGiving
<1> QED
  BY <1>1, <1>2, <1>3 DEF IsGiving

LEMMA TurnsShotsState ==
    ASSUME NEW tk, NEW ahead \in Seq(SimAction), NEW away, NEW s \in Turns(tk, ahead, away),
           NEW state \in {"eShotsNone", "eShotsWaitingStart", "eShotsWaitingEnd"},
           NEW t, t = [s EXCEPT !.shotsState = state]
    PROVE  t \in Turns(tk, ahead, away)
<1>1. s \in TurnsState
  BY DEF Turns
<1>2. /\ t \in TurnsState
      /\ t.timedPlayers = s.timedPlayers /\ t.playingPlayers = s.playingPlayers
      /\ Queues(t) = Queues(s) /\ Rest(t) = Rest(s)
  BY <1>1, ShotsStateIs
<1> QED
  BY <1>2, TurnsClock

LEMMA TurnsWait ==
    ASSUME NEW tk, NEW ahead \in Seq(SimAction), NEW away, NEW s \in Turns(tk, ahead, away),
           NEW inFlight
    PROVE  WaitForShotsToEnd(s, inFlight) \in Turns(tk, ahead, away)
<1>1. CASE s.shotsState = "eShotsWaitingEnd" /\ inFlight = {}
  <2>1. PICK u : u = InternalShotsFinished(s)
    OBVIOUS
  <2>2. u \in Turns(tk, ahead, away)
    <3>1. CASE Discipline = "Simultaneous"
      <4>1. u = IncrementTurn(s)
        BY <2>1, <3>1 DEF InternalShotsFinished, SimultaneousShotsFinished
      <4> QED
        BY <4>1, TurnsIncrement
    <3>2. CASE Discipline # "Simultaneous"
      BY <2>1, <3>2 DEF InternalShotsFinished
    <3> QED
      BY <3>1, <3>2
  <2>3. PICK state \in {"eShotsNone", "eShotsWaitingStart", "eShotsWaitingEnd"} : state = "eShotsNone"
    OBVIOUS
  <2>4. PICK t : t = [u EXCEPT !.shotsState = state]
    OBVIOUS
  <2>5. t \in Turns(tk, ahead, away)
    BY <2>2, <2>4, TurnsShotsState
  <2>6. t = WaitForShotsToEnd(s, inFlight)
    BY <1>1, <2>1, <2>3, <2>4 DEF WaitForShotsToEnd
  <2> QED
    BY <2>5, <2>6
<1>2. CASE ~(s.shotsState = "eShotsWaitingEnd" /\ inFlight = {})
  BY <1>2 DEF WaitForShotsToEnd
<1> QED
  BY <1>1, <1>2
-----------------------------------------------------------------------------
(* simulate in sequential turns.                                            *)

\* An order of tankets that use the normal moves.
IsOrder(order) ==
    order \in Seq(Tankets) /\ \A i \in 1 .. Len(order) : order[i] \notin NonNormal

\* Who waits for a turn, and who has it.
TurnOf(s, t, player, waiting) ==
    /\ t \in TurnsState
    /\ t.playingPlayer = player /\ t.waitingPlayers = waiting
    /\ t.deserted = s.deserted /\ t.moves = s.moves
    /\ t.timedPlayers = s.timedPlayers /\ t.playingPlayers = s.playingPlayers
    /\ t.sendActions = s.sendActions /\ t.moveId = s.moveId /\ t.nextMoveId = s.nextMoveId

LEMMA TurnFieldsAre ==
    ASSUME NEW s \in TurnsState, NEW waiting \in Seq(Tankets), NEW player \in 0 .. N,
           NEW t, t = [s EXCEPT !.playingPlayer = player, !.waitingPlayers = waiting]
    PROVE  TurnOf(s, t, player, waiting)
BY DEF TurnsState, TurnOf

LEMMA WaitingPlayersAre ==
    ASSUME NEW s \in TurnsState, NEW waiting \in Seq(Tankets),
           NEW t, t = [s EXCEPT !.waitingPlayers = waiting]
    PROVE  TurnOf(s, t, s.playingPlayer, waiting)
BY DEF TurnsState, TurnOf

\* The rest of a queue after its n-th element.
IsLater(later, q, n, S) ==
    later \in Seq(S) /\ \A i \in 1 .. Len(later) : n + i \in 1 .. Len(q) /\ later[i] = q[n + i]

LEMMA LaterIs ==
    ASSUME NEW S, NEW q \in Seq(S), NEW n \in 1 .. Len(q),
           NEW later, later = SubSeq(q, n + 1, Len(q))
    PROVE  IsLater(later, q, n, S)
<1>1. Len(q) \in Nat /\ n \in Nat /\ n + 1 <= Len(q) + 1 /\ n + 1 >= 1
  OBVIOUS
<1>2. SubSeq(q, n + 1, Len(q)) \in Seq(S)
  BY <1>1
<1>3. Len(SubSeq(q, n + 1, Len(q))) = Len(q) - n
  BY <1>1
<1>4. ASSUME NEW i \in 1 .. Len(q) - n PROVE SubSeq(q, n + 1, Len(q))[i] = q[n + i]
  BY <1>1
<1>5. \A i \in 1 .. Len(q) - n : n + i \in 1 .. Len(q)
  BY <1>1
<1> QED
  BY <1>2, <1>3, <1>4, <1>5 DEF IsLater

LEMMA NobodyMoves ==
    ASSUME NEW tk, NEW ahead, NEW away, NEW s \in Turns(tk, ahead, away),
           Discipline = "Sequential", s.playingPlayer \notin TakeTurns(tk)
    PROVE  \A p \in TakeTurns(tk) : s.moveId[p] = 0
BY DEF Turns, OnlyPlaying

LEMMA TurnsNewTurn ==
    ASSUME NEW tk, NEW ahead \in Seq(SimAction), NEW away, NEW s \in Turns(tk, ahead, away),
           Discipline = "Sequential", NEW order, IsOrder(order)
    PROVE  NewTurnIfAllMoved(s, tk, order) \in Turns(tk, ahead, away)
<1>1. CASE s.waitingPlayers = <<>> /\ s.playingPlayer = 0
  <2>1. s \in TurnsState /\ s.moveId \in [Tankets -> Nat]
    BY StateFields DEF Turns
  <2>2. \A p \in TakeTurns(tk) : s.moveId[p] = 0
    <3>1. 0 \notin TakeTurns(tk)
      BY DEF TakeTurns, Present
    <3> QED
      BY <1>1, <3>1, NobodyMoves
  <2>3. [p \in Tankets |-> IF p \in TakeTurns(tk) THEN 0 ELSE s.moveId[p]] = s.moveId
    BY <2>1, <2>2
  <2>4. PICK u : u = SequentialEnterState(s, tk, order)
    OBVIOUS
  <2>5. PICK player \in 0 .. N : player = 0
    OBVIOUS
  <2>6. PICK v : v = [s EXCEPT !.playingPlayer = player, !.waitingPlayers = order]
    OBVIOUS
  <2>7. TurnOf(s, v, player, order)
    <3>1. order \in Seq(Tankets)
      BY DEF IsOrder
    <3> QED
      BY <2>1, <2>6, <3>1, TurnFieldsAre
  <2>8. /\ v \in TurnsState /\ v.waitingPlayers = order
        /\ v.deserted = s.deserted /\ v.moves = s.moves
        /\ v.timedPlayers = s.timedPlayers /\ v.playingPlayers = s.playingPlayers
        /\ v.moveId = s.moveId /\ v.sendActions = s.sendActions /\ v.nextMoveId = s.nextMoveId
    BY <2>7 DEF TurnOf
  <2>9. u = v
    BY <2>1, <2>3, <2>4, <2>5, <2>6 DEF SequentialEnterState, TurnsState
  <2>10. v \in Turns(tk, ahead, away)
    <3>1. OnlyPlaying(v, tk)
      BY <2>2, <2>8 DEF OnlyPlaying
    <3>2. \A i \in 1 .. Len(v.waitingPlayers) : v.waitingPlayers[i] \notin NonNormal
      BY <2>8 DEF IsOrder
    <3> QED
      BY <2>8, <3>1, <3>2, TurnsFields
  <2>11. NewTurnIfAllMoved(s, tk, order) = IncrementTurn(v)
    BY <1>1, <2>4, <2>9 DEF NewTurnIfAllMoved
  <2> QED
    BY <2>10, <2>11, TurnsIncrement
<1>2. CASE ~(s.waitingPlayers = <<>> /\ s.playingPlayer = 0)
  BY <1>2 DEF NewTurnIfAllMoved
<1> QED
  BY <1>1, <1>2

LEMMA TurnsDropDead ==
    ASSUME NEW tk, NEW ahead \in Seq(SimAction), NEW away, NEW s \in Turns(tk, ahead, away),
           Discipline = "Sequential"
    PROVE  DropDeadPlayer(s, tk) \in Turns(tk, ahead, away)
<1>1. PICK p : p = s.playingPlayer
  OBVIOUS
<1>2. CASE p \in Alive(tk)
  BY <1>1, <1>2 DEF DropDeadPlayer
<1>3. CASE p \notin Alive(tk)
  <2>1. PICK e : e = IF p \in Present(tk) /\ s.moveId[p] # 0 THEN PlayMoveFinished(s, p) ELSE s
    OBVIOUS
  <2>2. DropDeadPlayer(s, tk) = [e EXCEPT !.playingPlayer = 0]
    BY <1>1, <1>3, <2>1 DEF DropDeadPlayer
  <2>3. \A q \in TakeTurns(tk) : q \in Tankets /\ q \in Present(tk) /\ (s.moveId[q] # 0 => q = p)
    BY <1>1 DEF Turns, OnlyPlaying, TakeTurns, Present
  <2>4. CASE p \in Present(tk) /\ s.moveId[p] # 0
    <3>1. e = PlayMoveFinished(s, p) /\ p \in Tankets /\ s \in TurnsState
      BY <2>1, <2>4 DEF Present, Turns
    <3>2. e \in Turns(tk, ahead, away)
      BY <3>1, TurnsEnd
    <3>3. Ended(s, e, p)
      BY <3>1, PlayMoveFinishedIs
    <3>4. \A q \in TakeTurns(tk) : e.moveId[q] = 0
      BY <2>3, <3>3 DEF Ended, SameBut
    <3> QED
      BY <2>2, <3>2, <3>4, TurnsNobodyPlays
  <2>5. CASE ~(p \in Present(tk) /\ s.moveId[p] # 0)
    <3>1. e = s
      BY <2>1, <2>5
    <3>2. \A q \in TakeTurns(tk) : s.moveId[q] = 0
      BY <2>3, <2>5
    <3> QED
      BY <2>2, <3>1, <3>2, TurnsNobodyPlays
  <2> QED
    BY <2>4, <2>5
<1> QED
  BY <1>2, <1>3

\* The places of those in the list that live, and the first of them.
Living(s, tk) == {i \in 1 .. Len(s.waitingPlayers) : s.waitingPlayers[i] \in Alive(tk)}

FirstLiving(s, tk) == CHOOSE i \in Living(s, tk) : \A j \in Living(s, tk) : i <= j

WithWaiting(s, waiting) == [s EXCEPT !.waitingPlayers = waiting]

WithTurn(s, player, waiting) ==
    [s EXCEPT !.playingPlayer = player, !.waitingPlayers = waiting]

LEMMA NobodyNext ==
    ASSUME NEW tk, NEW s, s.playingPlayer = 0, Living(s, tk) = {}
    PROVE  NextPlayer(s, tk) = WithWaiting(s, <<>>)
<1>1. NextPlayer(s, tk) =
             IF s.playingPlayer # 0 THEN s
             ELSE IF Living(s, tk) = {} THEN [s EXCEPT !.waitingPlayers = <<>>]
             ELSE [GiveMove(s, s.waitingPlayers[FirstLiving(s, tk)], MoveTime) EXCEPT
                     !.playingPlayer = s.waitingPlayers[FirstLiving(s, tk)],
                     !.waitingPlayers = SubSeq(@, FirstLiving(s, tk) + 1, Len(@))]
  BY DEF NextPlayer, Living, FirstLiving
<1> QED
  BY <1>1 DEF WithWaiting

\* The n-th in the list, p, is given a move, which leads to g.
IsNext(s, tk, n, p, g, later) ==
    /\ s.playingPlayer = 0 /\ Living(s, tk) # {}
    /\ n = FirstLiving(s, tk) /\ p = s.waitingPlayers[n]
    /\ g = GiveMove(s, p, MoveTime)
    /\ later = SubSeq(g.waitingPlayers, n + 1, Len(g.waitingPlayers))

LEMMA NextPlayerIs ==
    ASSUME NEW tk, NEW s, NEW n, NEW p, NEW g, NEW later, IsNext(s, tk, n, p, g, later)
    PROVE  NextPlayer(s, tk) = WithTurn(g, p, later)
<1>1. NextPlayer(s, tk) =
             IF s.playingPlayer # 0 THEN s
             ELSE IF Living(s, tk) = {} THEN [s EXCEPT !.waitingPlayers = <<>>]
             ELSE [GiveMove(s, s.waitingPlayers[FirstLiving(s, tk)], MoveTime) EXCEPT
                     !.playingPlayer = s.waitingPlayers[FirstLiving(s, tk)],
                     !.waitingPlayers = SubSeq(@, FirstLiving(s, tk) + 1, Len(@))]
  BY DEF NextPlayer, Living, FirstLiving
<1>2. s.playingPlayer = 0 /\ Living(s, tk) # {}
  BY DEF IsNext
<1>3. NextPlayer(s, tk) =
        WithTurn(GiveMove(s, s.waitingPlayers[FirstLiving(s, tk)], MoveTime),
                 s.waitingPlayers[FirstLiving(s, tk)],
                 SubSeq(GiveMove(s, s.waitingPlayers[FirstLiving(s, tk)], MoveTime).waitingPlayers,
                        FirstLiving(s, tk) + 1,
                        Len(GiveMove(s, s.waitingPlayers[FirstLiving(s, tk)], MoveTime).waitingPlayers)))
  BY <1>1, <1>2, Zenon DEF WithTurn
<1> QED
  BY <1>3 DEF IsNext

LEMMA FirstLivingIs ==
    ASSUME NEW s, NEW tk, Living(s, tk) # {}
    PROVE  FirstLiving(s, tk) \in Living(s, tk)
<1>1. PICK living \in SUBSET Nat : living = Living(s, tk)
  <2>1. Living(s, tk) \in SUBSET Nat
    BY DEF Living
  <2> QED
    BY <2>1
<1>2. \E i \in living : \A j \in living : i <= j
  BY <1>1, Least
<1> QED
  BY <1>1, <1>2 DEF FirstLiving

LEMMA TurnsNextPlayer ==
    ASSUME NEW tk, NEW ahead \in Seq(SimAction), NEW away, NEW s \in Turns(tk, ahead, away),
           Discipline = "Sequential"
    PROVE  NextPlayer(s, tk) \in Turns(tk, ahead, away)
<1>1. PICK waiting : waiting = s.waitingPlayers
  OBVIOUS
<1>2. /\ s \in TurnsState /\ Common(s, ahead) /\ OnlyPlaying(s, tk) /\ Waits(s)
      /\ Collects(s) /\ s.deserted = away /\ waiting \in Seq(Tankets)
  BY <1>1, StateFields DEF Turns
<1>3. \A i \in 1 .. Len(waiting) : waiting[i] \notin NonNormal
  BY <1>1, <1>2 DEF Waits
<1>4. CASE s.playingPlayer # 0
  BY <1>4 DEF NextPlayer
<1>5. CASE s.playingPlayer = 0
  <2>1. \A p \in TakeTurns(tk) : s.moveId[p] = 0
    <3>1. 0 \notin TakeTurns(tk)
      BY DEF TakeTurns, Present
    <3> QED
      BY <1>5, <3>1, NobodyMoves
  <2>2. CASE Living(s, tk) = {}
    <3>1. NextPlayer(s, tk) = WithWaiting(s, <<>>)
      BY <1>5, <2>2, NobodyNext
    <3>2. PICK order \in Seq(Tankets) : order = <<>>
      <4>1. <<>> \in Seq(Tankets)
        OBVIOUS
      <4> QED
        BY <4>1
    <3>3. PICK t : t = NextPlayer(s, tk)
      OBVIOUS
    <3>9. t = [s EXCEPT !.waitingPlayers = order]
      BY <3>1, <3>2, <3>3 DEF WithWaiting
    <3>4. TurnOf(s, t, s.playingPlayer, order)
      BY <1>2, <3>9, WaitingPlayersAre
    <3>5. /\ t \in TurnsState /\ t.waitingPlayers = order
          /\ t.deserted = s.deserted /\ t.moves = s.moves
          /\ t.timedPlayers = s.timedPlayers /\ t.playingPlayers = s.playingPlayers
          /\ t.moveId = s.moveId /\ t.sendActions = s.sendActions /\ t.nextMoveId = s.nextMoveId
      BY <3>4 DEF TurnOf
    <3>6. OnlyPlaying(t, tk)
      BY <2>1, <3>5 DEF OnlyPlaying
    <3>7. \A i \in 1 .. Len(t.waitingPlayers) : t.waitingPlayers[i] \notin NonNormal
      BY <3>2, <3>5
    <3>8. t \in Turns(tk, ahead, away)
      BY <3>5, <3>6, <3>7, TurnsFields
    <3> QED
      BY <3>3, <3>8
  <2>3. CASE Living(s, tk) # {}
    <3>1. PICK n \in Nat : n = FirstLiving(s, tk)
      BY <2>3, FirstLivingIs DEF Living
    <3>2. n \in 1 .. Len(waiting) /\ waiting[n] \in Alive(tk)
      BY <1>1, <2>3, <3>1, FirstLivingIs DEF Living
    <3>3. PICK p \in Tankets : p = waiting[n] /\ p \in TakeTurns(tk)
      BY <1>2, <1>3, <3>2 DEF TakeTurns, Alive, Present
    <3>4. PICK later \in Seq(Tankets) :
              /\ later = SubSeq(waiting, n + 1, Len(waiting))
              /\ \A i \in 1 .. Len(later) : later[i] \notin NonNormal
      <4>1. PICK later : later = SubSeq(waiting, n + 1, Len(waiting))
        OBVIOUS
      <4>2. IsLater(later, waiting, n, Tankets)
        BY <1>2, <3>2, <4>1, LaterIs
      <4>3. later \in Seq(Tankets) /\ \A i \in 1 .. Len(later) : later[i] \notin NonNormal
        BY <1>3, <4>2 DEF IsLater
      <4> QED
        BY <4>1, <4>3
    <3>5. PICK time \in {0, MoveTime} : time = MoveTime /\ time # 0
      OBVIOUS
    <3>6. PICK g : g = GiveMove(s, p, time)
      OBVIOUS
    <3>7. PICK next : next = s.nextMoveId + 1
      OBVIOUS
    <3>8. Given(s, g, p, next, time)
      BY <1>2, <3>6, <3>7, GiveMoveIs
    <3>9. Common(g, ahead)
      BY <1>2, <3>5, <3>6, CommonGive
    <3>10. PICK t : t = [g EXCEPT !.playingPlayer = p, !.waitingPlayers = later]
      OBVIOUS
    <3>11. /\ g \in TurnsState /\ SameBut(g.moveId, s.moveId, p)
           /\ g.timedPlayers = s.timedPlayers /\ Rest(g) = Rest(s)
      BY <3>8 DEF Given
    <3>12. g.waitingPlayers = waiting /\ g.deserted = s.deserted /\ g.moves = s.moves
      BY <1>1, <3>11 DEF Rest
    <3>13. NextPlayer(s, tk) = t
      <4>1. later = SubSeq(g.waitingPlayers, n + 1, Len(g.waitingPlayers))
        BY <3>4, <3>12
      <4>2. p = s.waitingPlayers[n] /\ g = GiveMove(s, p, MoveTime)
        BY <1>1, <3>3, <3>5, <3>6
      <4>3. IsNext(s, tk, n, p, g, later)
        BY <1>5, <2>3, <3>1, <4>1, <4>2 DEF IsNext
      <4>4. NextPlayer(s, tk) = WithTurn(g, p, later)
        BY <4>3, NextPlayerIs
      <4> QED
        BY <3>10, <4>4 DEF WithTurn
    <3>14. TurnOf(g, t, p, later)
      <4>1. p \in 0 .. N
        OBVIOUS
      <4> QED
        BY <3>10, <3>11, <4>1, TurnFieldsAre
    <3>15. /\ t \in TurnsState /\ t.playingPlayer = p /\ t.waitingPlayers = later
           /\ t.deserted = g.deserted /\ t.moves = g.moves
           /\ t.timedPlayers = g.timedPlayers /\ t.playingPlayers = g.playingPlayers
           /\ t.moveId = g.moveId /\ t.sendActions = g.sendActions /\ t.nextMoveId = g.nextMoveId
      BY <3>14 DEF TurnOf
    <3>16. Common(t, ahead)
      BY <3>9, <3>15 DEF Common, Timers, Ids, Before
    <3>17. OnlyPlaying(t, tk)
      <4>1. TakeTurns(tk) \subseteq Tankets
        BY DEF TakeTurns, Present
      <4> QED
        BY <2>1, <3>11, <3>15, <4>1 DEF OnlyPlaying, SameBut
    <3>18. Waits(t)
      <4>1. t.timedPlayers = s.timedPlayers /\ s.timedPlayers[p] = 0 /\ SameBut(t.moveId, s.moveId, p)
        BY <1>2, <3>3, <3>11, <3>15 DEF Waits, TakeTurns
      <4>2. ASSUME NEW q \in Tankets, t.timedPlayers[q] > 0 PROVE t.moveId[q] = 0
        <5>1. q # p
          BY <4>1, <4>2
        <5>2. t.moveId[q] = s.moveId[q] /\ s.timedPlayers[q] > 0
          BY <4>1, <4>2, <5>1 DEF SameBut
        <5> QED
          BY <1>2, <5>2 DEF Waits
      <4>3. \A q \in Tankets \ NonNormal : t.timedPlayers[q] = 0
        BY <1>2, <4>1 DEF Waits
      <4>4. \A i \in 1 .. Len(t.waitingPlayers) : t.waitingPlayers[i] \notin NonNormal
        BY <3>4, <3>15
      <4> QED
        BY <4>2, <4>3, <4>4 DEF Waits
    <3>19. OneEach(t, tk)
      BY DEF OneEach
    <3>20. Collects(t) /\ t.deserted = away
      BY <1>2, <3>12, <3>15 DEF Collects
    <3>21. t \in Turns(tk, ahead, away)
      BY <3>15, <3>16, <3>17, <3>18, <3>19, <3>20 DEF Turns
    <3> QED
      BY <3>13, <3>21
  <2> QED
    BY <2>2, <2>3
<1> QED
  BY <1>4, <1>5


LEMMA TurnsSequential ==
    ASSUME NEW tk, NEW ahead \in Seq(SimAction), NEW away, NEW s \in Turns(tk, ahead, away),
           Discipline = "Sequential", NEW order, IsOrder(order)
    PROVE  SequentialSimulate(s, tk, order) \in Turns(tk, ahead, away)
<1>1. PICK t \in Turns(tk, ahead, away) : t = NewTurnIfAllMoved(s, tk, order)
  BY TurnsNewTurn
<1>2. PICK u \in Turns(tk, ahead, away) : u = DropDeadPlayer(t, tk)
  BY TurnsDropDead
<1>3. NextPlayer(u, tk) \in Turns(tk, ahead, away)
  BY TurnsNextPlayer
<1> QED
  BY <1>1, <1>2, <1>3 DEF SequentialSimulate

LEMMA OrdersAre ==
    ASSUME NEW tk, NEW order \in DrawnOrders(tk) \cup {<<>>}
    PROVE  IsOrder(order)
<1>1. CASE order = <<>>
  <2>1. <<>> \in Seq(Tankets) /\ Len(<<>>) = 0
    OBVIOUS
  <2> QED
    BY <1>1, <2>1 DEF IsOrder
<1>2. CASE order \in Orders(tk)
  <2>1. Cardinality(TakeTurns(tk)) \in Nat
    <3>1. IsFiniteSet(1 .. N)
      BY FS_Interval
    <3>2. TakeTurns(tk) \subseteq 1 .. N
      BY DEF TakeTurns, Present
    <3> QED
      BY <3>1, <3>2, FS_Subset, FS_CardinalityType
  <2>2. PICK n \in Nat : n = Cardinality(TakeTurns(tk))
    BY <2>1
  <2>3. order \in [1 .. n -> TakeTurns(tk)]
    BY <1>2, <2>2 DEF Orders
  <2>4. order \in [1 .. n -> Tankets] /\ \A i \in 1 .. n : order[i] \notin NonNormal
    BY <2>3 DEF TakeTurns, Present
  <2>5. order \in Seq(Tankets) /\ Len(order) = n
    BY <2>4
  <2> QED
    BY <2>4, <2>5 DEF IsOrder
<1> QED
  BY <1>1, <1>2 DEF DrawnOrders
-----------------------------------------------------------------------------
(* simulate in simultaneous turns.                                          *)

\* The states where only those that live have a move of the turn.
Cleared(tk, ahead, away) ==
    {s \in Turns(tk, ahead, away) : \A p \in TakeTurns(tk) \ Alive(tk) : s.moveId[p] = 0}

Fallen(tk) == Present(tk) \ (Alive(tk) \cup NonNormal)

EndIfAny(t, p) == IF t.moveId[p] # 0 THEN PlayMoveFinished(t, p) ELSE t

LEMMA EndIfAnyIs ==
    ASSUME NEW tk, NEW ahead \in Seq(SimAction), NEW away, NEW s \in Turns(tk, ahead, away),
           NEW p \in Tankets, NEW t, t = EndIfAny(s, p)
    PROVE  t \in Turns(tk, ahead, away) /\ t.moveId[p] = 0 /\ SameBut(t.moveId, s.moveId, p)
<1>1. CASE s.moveId[p] = 0
  BY <1>1 DEF EndIfAny, SameBut
<1>2. CASE s.moveId[p] # 0
  <2>1. t = PlayMoveFinished(s, p) /\ s \in TurnsState
    BY <1>2 DEF EndIfAny, Turns
  <2>2. t \in Turns(tk, ahead, away)
    BY <2>1, TurnsEnd
  <2>3. Ended(s, t, p)
    BY <2>1, PlayMoveFinishedIs
  <2> QED
    BY <2>2, <2>3 DEF Ended
<1> QED
  BY <1>1, <1>2

LEMMA EndLoop ==
    ASSUME NEW tk, NEW ahead \in Seq(SimAction), NEW away, NEW s \in Turns(tk, ahead, away)
    PROVE  \E f : /\ f[0] = s
                  /\ \A p \in 1 .. N :
                        f[p] = IF p \in Fallen(tk) THEN EndIfAny(f[p - 1], p) ELSE f[p - 1]
                  /\ EndMovesOfDead(s, tk) = f[N]
<1> DEFINE step == [x \in Turns(tk, ahead, away) \X (1 .. N) |->
                     IF x[2] \in Fallen(tk) THEN EndIfAny(x[1], x[2]) ELSE x[1]]
<1>1. ASSUME NEW x \in Turns(tk, ahead, away), NEW p \in 1 .. N, p \in Fallen(tk)
      PROVE  EndIfAny(x, p) \in Turns(tk, ahead, away)
  <2>1. PICK t : t = EndIfAny(x, p)
    OBVIOUS
  <2>2. t \in Turns(tk, ahead, away)
    BY <2>1, EndIfAnyIs
  <2> QED
    BY <2>1, <2>2
<1>2. step \in [Turns(tk, ahead, away) \X (1 .. N) -> Turns(tk, ahead, away)]
  BY <1>1
<1>3. \A x \in Turns(tk, ahead, away), p \in 1 .. N :
          step[<<x, p>>] = IF p \in Fallen(tk) THEN EndIfAny(x, p) ELSE x
  OBVIOUS
<1> HIDE DEF step
<1>4. PICK f \in [0 .. N -> Turns(tk, ahead, away)] : IsLoopOver(f, N, Fallen(tk), s, step)
  BY <1>2, LoopOver
<1>5. ASSUME NEW p \in 0 .. N, p # 0, p \in Fallen(tk)
      PROVE  step[<<f[p - 1], p>>] = EndIfAny(f[p - 1], p)
  <2>1. p \in 1 .. N /\ f[p - 1] \in Turns(tk, ahead, away)
    BY <1>5
  <2> QED
    BY <1>3, <1>5, <2>1
<1>6. f = [p \in 0 .. N |->
            IF p = 0 THEN s
            ELSE IF p \in Fallen(tk) THEN EndIfAny(f[p - 1], p) ELSE f[p - 1]]
  BY <1>4, <1>5 DEF IsLoopOver
<1> DEFINE after == CHOOSE g : g = [p \in 0 .. N |->
            IF p = 0 THEN s
            ELSE IF p \in Fallen(tk) THEN EndIfAny(g[p - 1], p) ELSE g[p - 1]]
<1>7. after = [p \in 0 .. N |->
            IF p = 0 THEN s
            ELSE IF p \in Fallen(tk) THEN EndIfAny(after[p - 1], p) ELSE after[p - 1]]
  BY <1>6, Zenon
<1>8. EndMovesOfDead(s, tk) = after[N]
  BY Zenon DEF EndMovesOfDead, ForEach, EndIfAny, Fallen
<1> HIDE DEF after
<1>9. /\ after[0] = s
      /\ \A p \in 1 .. N :
            after[p] = IF p \in Fallen(tk) THEN EndIfAny(after[p - 1], p) ELSE after[p - 1]
  BY <1>7
<1> QED
  BY <1>8, <1>9

LEMMA TurnsEndDead ==
    ASSUME NEW tk, NEW ahead \in Seq(SimAction), NEW away, NEW s \in Turns(tk, ahead, away)
    PROVE  EndMovesOfDead(s, tk) \in Cleared(tk, ahead, away)
<1>1. PICK f : /\ f[0] = s
               /\ \A p \in 1 .. N : f[p] = IF p \in Fallen(tk) THEN EndIfAny(f[p - 1], p) ELSE f[p - 1]
               /\ EndMovesOfDead(s, tk) = f[N]
  <2>1. EndMovesOfDead(s, tk) = EndMovesOfDead(s, tk) /\ s \in Turns(tk, ahead, away)
    OBVIOUS
  <2> QED
    BY <2>1, EndLoop
<1> DEFINE U == {i \in 0 .. N : /\ f[i] \in Turns(tk, ahead, away)
                                /\ \A q \in Fallen(tk) : q <= i => f[i].moveId[q] = 0}
<1>2. 0 \in U
  BY <1>1 DEF Fallen, Present
<1>3. ASSUME NEW i \in 1 .. N, i - 1 \in U PROVE i \in U
  <2>1. PICK t : t = f[i - 1]
    OBVIOUS
  <2>2. t \in Turns(tk, ahead, away) /\ \A q \in Fallen(tk) : q <= i - 1 => t.moveId[q] = 0
    BY <1>3, <2>1
  <2>3. PICK u : u = f[i]
    OBVIOUS
  <2>4. \A q \in Fallen(tk) : q \in Tankets /\ (q <= i /\ q # i => q <= i - 1)
    BY DEF Fallen, Present
  <2>5. CASE i \in Fallen(tk)
    <3>1. u = EndIfAny(t, i)
      BY <1>1, <2>1, <2>3, <2>5
    <3>2. u \in Turns(tk, ahead, away) /\ u.moveId[i] = 0 /\ SameBut(u.moveId, t.moveId, i)
      BY <2>2, <3>1, EndIfAnyIs
    <3>3. \A q \in Fallen(tk) : q <= i => u.moveId[q] = 0
      BY <2>2, <2>4, <3>2 DEF SameBut
    <3> QED
      BY <2>3, <3>2, <3>3
  <2>6. CASE i \notin Fallen(tk)
    <3>1. u = t
      BY <1>1, <2>1, <2>3, <2>6
    <3>2. \A q \in Fallen(tk) : q <= i => u.moveId[q] = 0
      BY <2>2, <2>4, <2>6, <3>1
    <3>3. u \in Turns(tk, ahead, away)
      BY <2>2, <3>1
    <3> QED
      BY <2>3, <3>2, <3>3
  <2> QED
    BY <2>5, <2>6
<1>4. N \in U
  <2> HIDE DEF U
  <2>1. N \in Nat /\ N \in 0 .. N
    OBVIOUS
  <2>2. \A i \in 1 .. N : i - 1 \in U => i \in U
    BY <1>3
  <2>3. \A i \in 0 .. N : i \in U
    BY <1>2, <2>1, <2>2, UpTo
  <2> QED
    BY <2>1, <2>3
<1>5. \A p \in TakeTurns(tk) \ Alive(tk) : p \in Fallen(tk) /\ p <= N
  BY DEF TakeTurns, Fallen, Present
<1> QED
  BY <1>1, <1>4, <1>5 DEF Cleared

\* The waiting time is not part of the invariant.
LEMMA WaitingTimeIs ==
    ASSUME NEW s \in TurnsState, NEW time \in Int, NEW t, t = [s EXCEPT !.waitingTime = time]
    PROVE  /\ t \in TurnsState /\ t.playingPlayers = s.playingPlayers
           /\ t.sendActions = s.sendActions /\ t.moveId = s.moveId /\ t.nextMoveId = s.nextMoveId
           /\ t.timedPlayers = s.timedPlayers /\ t.moves = s.moves /\ t.deserted = s.deserted
BY DEF TurnsState

LEMMA ClearedWaitingTime ==
    ASSUME NEW tk, NEW ahead \in Seq(SimAction), NEW away, NEW s \in Cleared(tk, ahead, away),
           Discipline = "Simultaneous", NEW time \in Int, NEW t, t = [s EXCEPT !.waitingTime = time]
    PROVE  t \in Cleared(tk, ahead, away)
<1>1. s \in Turns(tk, ahead, away) /\ s \in TurnsState
  BY DEF Cleared, Turns
<1>2. /\ t \in TurnsState /\ t.playingPlayers = s.playingPlayers
      /\ t.sendActions = s.sendActions /\ t.moveId = s.moveId /\ t.nextMoveId = s.nextMoveId
      /\ t.timedPlayers = s.timedPlayers /\ t.moves = s.moves /\ t.deserted = s.deserted
  BY <1>1, WaitingTimeIs
<1>3. OnlyPlaying(t, tk)
  BY DEF OnlyPlaying
<1>4. t \in Turns(tk, ahead, away)
  BY <1>1, <1>2, <1>3, TurnsFields
<1> QED
  BY <1>2, <1>4 DEF Cleared

\* The second loop gives a move to one tanket of each destination.
GiveIfFree(t, tk, p) ==
    IF /\ t.moveId[p] = 0 /\ ~HasMove(t, p)
       /\ DestinationOf(t, p) \notin PlayingDestinations(t, tk)
    THEN GiveMove(t, p, MoveTime) ELSE t

LEMMA ClearedGive ==
    ASSUME NEW tk, NEW ahead \in Seq(SimAction), NEW away, NEW s \in Cleared(tk, ahead, away),
           Discipline = "Simultaneous", NEW p \in Alive(tk)
    PROVE  GiveIfFree(s, tk, p) \in Cleared(tk, ahead, away)
<1>1. CASE s.moveId[p] = 0 /\ DestinationOf(s, p) \notin PlayingDestinations(s, tk)
  <2>1. /\ s \in TurnsState /\ Common(s, ahead) /\ Waits(s) /\ OneEach(s, tk)
        /\ Collects(s) /\ s.deserted = away /\ s \in Turns(tk, ahead, away)
        /\ \A q \in TakeTurns(tk) \ Alive(tk) : s.moveId[q] = 0
    BY DEF Cleared, Turns
  <2>2. p \in Tankets
    BY DEF Alive
  <2>3. PICK time \in {0, MoveTime} : time = MoveTime /\ time # 0
    OBVIOUS
  <2>4. PICK next : next = s.nextMoveId + 1
    OBVIOUS
  <2>5. PICK t : t = GiveMove(s, p, time)
    OBVIOUS
  <2>6. Given(s, t, p, next, time)
    BY <2>1, <2>2, <2>4, <2>5, GiveMoveIs
  <2>7. /\ t \in TurnsState /\ SameBut(t.moveId, s.moveId, p)
        /\ t.timedPlayers = s.timedPlayers /\ Rest(t) = Rest(s)
    BY <2>6 DEF Given
  <2>8. /\ t.waitingPlayers = s.waitingPlayers /\ t.deserted = s.deserted /\ t.moves = s.moves
    BY <2>7 DEF Rest
  <2>9. Common(t, ahead)
    BY <2>1, <2>2, <2>3, <2>5, CommonGive
  <2>10. OnlyPlaying(t, tk)
    BY DEF OnlyPlaying
  <2>11. Waits(t)
    BY <2>1, <2>7 DEF Waits
  <2>12. ASSUME NEW q \in TakeTurns(tk), q # p, s.moveId[q] # 0, DestinationOf(s, q) # 0
         PROVE  DestinationOf(s, q) # DestinationOf(s, p)
    <3>1. q \in Alive(tk) \ NonNormal
      BY <2>1, <2>12 DEF TakeTurns
    <3>2. DestinationOf(s, q) \in PlayingDestinations(s, tk)
      BY <2>12, <3>1 DEF PlayingDestinations
    <3> QED
      BY <1>1, <3>2
  <2>13. OneEach(t, tk)
    <3>1. \A q : DestinationOf(t, q) = DestinationOf(s, q)
      BY <2>8 DEF DestinationOf
    <3>2. \A q \in TakeTurns(tk) : q \in Tankets /\ (q # p => t.moveId[q] = s.moveId[q])
      BY <2>7 DEF TakeTurns, Present, SameBut
    <3>3. ASSUME NEW q \in TakeTurns(tk), NEW r \in TakeTurns(tk), q # r,
                 DestinationOf(s, q) = DestinationOf(s, r), DestinationOf(s, q) # 0,
                 t.moveId[q] # 0, t.moveId[r] # 0
          PROVE  FALSE
      <4>1. CASE q = p
        BY <2>12, <3>2, <3>3, <4>1
      <4>2. CASE r = p
        BY <2>12, <3>2, <3>3, <4>2
      <4>3. CASE q # p /\ r # p
        <5>1. s.moveId[q] # 0 /\ s.moveId[r] # 0
          BY <3>2, <3>3, <4>3
        <5> QED
          BY <2>1, <3>3, <5>1 DEF OneEach
      <4> QED
        BY <4>1, <4>2, <4>3
    <3> QED
      BY <3>1, <3>3 DEF OneEach
  <2>14. Collects(t)
    BY DEF Collects
  <2>15. t \in Turns(tk, ahead, away)
    BY <2>1, <2>7, <2>8, <2>9, <2>10, <2>11, <2>13, <2>14 DEF Turns
  <2>16. \A q \in TakeTurns(tk) \ Alive(tk) : t.moveId[q] = 0
    <3>1. \A q \in TakeTurns(tk) \ Alive(tk) : q \in Tankets /\ q # p
      BY DEF TakeTurns, Present
    <3> QED
      BY <2>1, <2>7, <3>1 DEF SameBut
  <2>17. t \in Cleared(tk, ahead, away)
    BY <2>15, <2>16 DEF Cleared
  <2> QED
    BY <2>3, <2>5, <2>17 DEF GiveIfFree
<1>2. CASE ~(s.moveId[p] = 0 /\ DestinationOf(s, p) \notin PlayingDestinations(s, tk))
  BY <1>2 DEF GiveIfFree
<1> QED
  BY <1>1, <1>2

LEMMA GiveLoop ==
    ASSUME NEW tk, NEW ahead \in Seq(SimAction), NEW away, NEW s \in Cleared(tk, ahead, away),
           Discipline = "Simultaneous"
    PROVE  \E f : /\ f[0] = s
                  /\ \A p \in 1 .. N :
                        f[p] = IF p \in Alive(tk) THEN GiveIfFree(f[p - 1], tk, p) ELSE f[p - 1]
                  /\ GiveMoves(s, tk) = f[N]
<1> DEFINE step == [x \in Cleared(tk, ahead, away) \X (1 .. N) |->
                     IF x[2] \in Alive(tk) THEN GiveIfFree(x[1], tk, x[2]) ELSE x[1]]
<1>1. ASSUME NEW x \in Cleared(tk, ahead, away), NEW p \in 1 .. N, p \in Alive(tk)
      PROVE  GiveIfFree(x, tk, p) \in Cleared(tk, ahead, away)
  BY <1>1, ClearedGive
<1>2. step \in [Cleared(tk, ahead, away) \X (1 .. N) -> Cleared(tk, ahead, away)]
  BY <1>1
<1>3. \A x \in Cleared(tk, ahead, away), p \in 1 .. N :
          step[<<x, p>>] = IF p \in Alive(tk) THEN GiveIfFree(x, tk, p) ELSE x
  OBVIOUS
<1> HIDE DEF step
<1>4. PICK f \in [0 .. N -> Cleared(tk, ahead, away)] : IsLoopOver(f, N, Alive(tk), s, step)
  BY <1>2, LoopOver
<1>5. ASSUME NEW p \in 0 .. N, p # 0, p \in Alive(tk)
      PROVE  step[<<f[p - 1], p>>] = GiveIfFree(f[p - 1], tk, p)
  <2>1. p \in 1 .. N /\ f[p - 1] \in Cleared(tk, ahead, away)
    BY <1>5
  <2> QED
    BY <1>3, <1>5, <2>1
<1>6. f = [p \in 0 .. N |->
            IF p = 0 THEN s
            ELSE IF p \in Alive(tk) THEN GiveIfFree(f[p - 1], tk, p) ELSE f[p - 1]]
  BY <1>4, <1>5 DEF IsLoopOver
<1> DEFINE after == CHOOSE g : g = [p \in 0 .. N |->
            IF p = 0 THEN s
            ELSE IF p \in Alive(tk) THEN GiveIfFree(g[p - 1], tk, p) ELSE g[p - 1]]
<1>7. after = [p \in 0 .. N |->
            IF p = 0 THEN s
            ELSE IF p \in Alive(tk) THEN GiveIfFree(after[p - 1], tk, p) ELSE after[p - 1]]
  BY <1>6, Zenon
<1>8. GiveMoves(s, tk) = after[N]
  BY Zenon DEF GiveMoves, ForEach, GiveIfFree
<1> HIDE DEF after
<1>9. /\ after[0] = s
      /\ \A p \in 1 .. N :
            after[p] = IF p \in Alive(tk) THEN GiveIfFree(after[p - 1], tk, p) ELSE after[p - 1]
  BY <1>7
<1> QED
  BY <1>8, <1>9

LEMMA ClearedGiveMoves ==
    ASSUME NEW tk, NEW ahead \in Seq(SimAction), NEW away, NEW s \in Cleared(tk, ahead, away),
           Discipline = "Simultaneous"
    PROVE  GiveMoves(s, tk) \in Cleared(tk, ahead, away)
<1>1. PICK f : /\ f[0] = s
               /\ \A p \in 1 .. N : f[p] = IF p \in Alive(tk) THEN GiveIfFree(f[p - 1], tk, p) ELSE f[p - 1]
               /\ GiveMoves(s, tk) = f[N]
  BY GiveLoop
<1>2. ASSUME NEW p \in 1 .. N, f[p - 1] \in Cleared(tk, ahead, away)
      PROVE  f[p] \in Cleared(tk, ahead, away)
  <2>1. CASE p \in Alive(tk)
    BY <1>1, <1>2, <2>1, ClearedGive
  <2>2. CASE p \notin Alive(tk)
    BY <1>1, <1>2, <2>2
  <2> QED
    BY <2>1, <2>2
<1>3. N \in Nat /\ N \in 0 .. N /\ f[0] \in Cleared(tk, ahead, away)
  BY <1>1
<1>4. \A i \in 0 .. N : f[i] \in Cleared(tk, ahead, away)
  BY <1>2, <1>3, LoopKeeps
<1> QED
  BY <1>1, <1>3, <1>4

LEMMA TurnsPlayAll ==
    ASSUME NEW tk, NEW ahead \in Seq(SimAction), NEW away, NEW s \in Turns(tk, ahead, away),
           Discipline = "Simultaneous"
    PROVE  PlayAllMoves(s, tk) \in Turns(tk, ahead, away)
<1>1. s \in TurnsState /\ Common(s, ahead) /\ s.moves \in SUBSET Message
  BY StateFields DEF Turns
<1>2. PICK none \in SUBSET Message : none = {}
  OBVIOUS
<1>3. PICK u : u = [s EXCEPT !.moves = none]
  OBVIOUS
<1>4. PICK moves \in SUBSET Message :
        moves = {m \in s.moves : m.player \in Alive(tk)} /\ moves \subseteq s.moves
  BY <1>1
<1>5. WaitingMoves(s, u, none)
  BY <1>1, <1>3, MovesAre
<1>6. /\ u.moves = {} /\ u.moveId = s.moveId /\ u.nextMoveId = s.nextMoveId
      /\ u.sendActions = s.sendActions
  BY <1>2, <1>5 DEF WaitingMoves, Queues
<1>7. PICK q \in Seq(SimAction) : q = ahead \o s.sendActions
  <2>1. ahead \o s.sendActions \in Seq(SimAction)
    BY <1>1, StateFields
  <2> QED
    BY <2>1
<1>8. /\ OnePerPlayer(s.moves) /\ Before(s, s.moves)
      /\ \A i \in 1 .. Len(q) : Earlier(MovesAt(q, i), s.moves)
  BY <1>1, <1>7 DEF Common, Ids
<1>9. u \in Turns(tk, ahead, away)
  <2>1. OnePerPlayer(none) /\ Before(s, none)
    BY <1>2 DEF OnePerPlayer, Before
  <2>2. \A i \in 1 .. Len(ahead \o s.sendActions) :
            Earlier(MovesAt(ahead \o s.sendActions, i), none)
    BY <1>2 DEF Earlier
  <2> QED
    BY <1>3, <2>1, <2>2, TurnsMoves
<1>10. /\ OnePerPlayer(moves) /\ Before(u, moves) /\ Earlier(moves, u.moves)
       /\ \A i \in 1 .. Len(q) : Earlier(MovesAt(q, i), moves)
  <2>1. OnePerPlayer(moves)
    BY <1>4, <1>8 DEF OnePerPlayer
  <2>2. Before(u, moves)
    BY <1>4, <1>6, <1>8 DEF Before
  <2>3. Earlier(moves, u.moves)
    BY <1>6 DEF Earlier
  <2>4. \A i \in 1 .. Len(q) : Earlier(MovesAt(q, i), moves)
    BY <1>4, <1>8 DEF Earlier
  <2> QED
    BY <2>1, <2>2, <2>3, <2>4
<1>11. PICK yes \in BOOLEAN : yes = TRUE
  OBVIOUS
<1>12. PICK t : t = PlayShots(u, moves, yes, yes)
  OBVIOUS
<1>13. t \in Turns(tk, ahead, away)
  <2>1. q = ahead \o u.sendActions
    BY <1>6, <1>7
  <2> QED
    BY <1>9, <1>10, <1>12, <2>1, TurnsShots
<1>14. PlayAllMoves(s, tk) = IF WaitForShots THEN t ELSE IncrementTurn(t)
  BY <1>2, <1>3, <1>4, <1>11, <1>12 DEF PlayAllMoves
<1>15. PICK v : v = IncrementTurn(t)
  OBVIOUS
<1>16. v \in Turns(tk, ahead, away)
  BY <1>13, <1>15, TurnsIncrement
<1> QED
  BY <1>13, <1>14, <1>15, <1>16

LEMMA TurnsSimultaneous ==
    ASSUME NEW tk, NEW ahead \in Seq(SimAction), NEW away, NEW s \in Turns(tk, ahead, away),
           Discipline = "Simultaneous", NEW time \in {0, 1}
    PROVE  SimultaneousSimulate(s, tk, time) \in Turns(tk, ahead, away)
<1>1. PICK ended \in Cleared(tk, ahead, away) : ended = EndMovesOfDead(s, tk)
  BY TurnsEndDead
<1>2. PICK slowed : slowed = SlowedDown(s, tk)
  OBVIOUS
<1>3. \A u \in Cleared(tk, ahead, away) : u \in Turns(tk, ahead, away)
  BY DEF Cleared
<1>4. PICK left \in Int : left = ended.waitingTime - time
  <2>1. ended.waitingTime \in Int
    BY StateFields DEF Cleared, Turns
  <2>2. ended.waitingTime - time \in Int
    BY <2>1
  <2> QED
    BY <2>2
<1>5. PICK half \in Int : half = AIShotTime \div 2
  <2>1. AIShotTime \div 2 \in Int
    BY AIShotTimeAssumption
  <2> QED
    BY <2>1
<1>6. PICK waited : waited = IF slowed THEN [ended EXCEPT !.waitingTime = left] ELSE ended
  OBVIOUS
<1>7. waited \in Cleared(tk, ahead, away)
  BY <1>6, ClearedWaitingTime
<1>8. PICK ready : ready = IF slowed THEN [waited EXCEPT !.waitingTime = half] ELSE waited
  OBVIOUS
<1>9. ready \in Cleared(tk, ahead, away)
  BY <1>7, <1>8, ClearedWaitingTime
<1>10. PICK given \in Cleared(tk, ahead, away) : given = GiveMoves(ready, tk)
  <2>1. GiveMoves(ready, tk) \in Cleared(tk, ahead, away)
    BY <1>9, ClearedGiveMoves
  <2> QED
    BY <2>1
<1>11. PICK played \in Turns(tk, ahead, away) : played = PlayAllMoves(given, tk)
  <2>1. given \in Turns(tk, ahead, away)
    BY <1>3
  <2>2. PlayAllMoves(given, tk) \in Turns(tk, ahead, away)
    BY <2>1, TurnsPlayAll
  <2> QED
    BY <2>2
<1>12. SimultaneousSimulate(s, tk, time) =
           IF slowed /\ waited.waitingTime > 0 THEN waited
           ELSE IF AllChose(s, tk) THEN played ELSE given
  BY <1>1, <1>2, <1>4, <1>5, <1>6, <1>8, <1>10, <1>11 DEF SimultaneousSimulate
<1> QED
  BY <1>3, <1>7, <1>12
-----------------------------------------------------------------------------
(* simulate in free turns.                                                  *)

\* No other tanket of p's destination has a move.
Apart(s, tk, p) ==
    \A q \in TakeTurns(tk) :
        q # p /\ s.moveId[q] # 0 /\ DestinationOf(s, q) # 0
            => DestinationOf(s, q) # DestinationOf(s, p)

LEMMA TurnsGive ==
    ASSUME NEW tk, NEW ahead \in Seq(SimAction), NEW away, NEW s \in Turns(tk, ahead, away),
           Discipline = "Free", NEW p \in Tankets, s.moveId[p] = 0, s.timedPlayers[p] = 0,
           Apart(s, tk, p)
    PROVE  LET t == GiveMove(s, p, 0)
           IN  /\ t \in Turns(tk, ahead, away) /\ SameBut(t.moveId, s.moveId, p)
               /\ Rest(t) = Rest(s)
<1>1. PICK time \in {0, MoveTime} : time = 0
  OBVIOUS
<1>2. PICK t : t = GiveMove(s, p, time)
  OBVIOUS
<1>3. /\ s \in TurnsState /\ Common(s, ahead) /\ Waits(s) /\ OneEach(s, tk)
      /\ Collects(s) /\ s.deserted = away
  BY DEF Turns
<1>4. PICK next : next = s.nextMoveId + 1
  OBVIOUS
<1>5. Given(s, t, p, next, time)
  BY <1>2, <1>3, <1>4, GiveMoveIs
<1>6. /\ t \in TurnsState /\ SameBut(t.moveId, s.moveId, p)
      /\ t.timedPlayers = s.timedPlayers /\ Rest(t) = Rest(s)
  BY <1>5 DEF Given
<1>7. t.waitingPlayers = s.waitingPlayers /\ t.deserted = s.deserted /\ t.moves = s.moves
  BY <1>6 DEF Rest
<1>8. Common(t, ahead)
  BY <1>2, <1>3, CommonGive
<1>9. OnlyPlaying(t, tk)
  BY DEF OnlyPlaying
<1>10. Waits(t)
  <2>1. ASSUME NEW q \in Tankets, t.timedPlayers[q] > 0 PROVE t.moveId[q] = 0
    <3>1. q # p
      BY <1>6, <2>1
    <3>2. t.moveId[q] = s.moveId[q] /\ s.timedPlayers[q] > 0
      BY <1>6, <2>1, <3>1 DEF SameBut
    <3> QED
      BY <1>3, <3>2 DEF Waits
  <2> QED
    BY <2>1 DEF Waits
<1>11. OneEach(t, tk)
  <2>1. \A q : DestinationOf(t, q) = DestinationOf(s, q)
    BY <1>7 DEF DestinationOf
  <2>2. \A q \in TakeTurns(tk) : q \in Tankets /\ (q # p => t.moveId[q] = s.moveId[q])
    BY <1>6 DEF TakeTurns, Present, SameBut
  <2>3. ASSUME NEW q \in TakeTurns(tk), NEW r \in TakeTurns(tk), q # r,
               DestinationOf(s, q) = DestinationOf(s, r), DestinationOf(s, q) # 0,
               t.moveId[q] # 0, t.moveId[r] # 0
        PROVE  FALSE
    <3>1. CASE q = p
      BY <2>2, <2>3, <3>1 DEF Apart
    <3>2. CASE r = p
      BY <2>2, <2>3, <3>2 DEF Apart
    <3>3. CASE q # p /\ r # p
      <4>1. s.moveId[q] # 0 /\ s.moveId[r] # 0
        BY <2>2, <2>3, <3>3
      <4> QED
        BY <1>3, <2>3, <4>1 DEF OneEach
    <3> QED
      BY <3>1, <3>2, <3>3
  <2> QED
    BY <2>1, <2>3 DEF OneEach
<1>12. Collects(t)
  BY <1>3, <1>7 DEF Collects
<1>13. t \in Turns(tk, ahead, away)
  BY <1>3, <1>6, <1>7, <1>8, <1>9, <1>10, <1>11, <1>12 DEF Turns
<1> QED
  BY <1>1, <1>2, <1>6, <1>13

\* The visit of a tanket in the first loop.
Visited(t, tk, p) ==
    IF t.moveId[p] # 0
    THEN IF p \in Alive(tk) THEN t ELSE PlayMoveFinished(t, p)
    ELSE IF HasAI(t, p) /\ t.timedPlayers[p] = 0 THEN GiveMove(t, p, 0) ELSE t

\* Only the server's own keep a move when they are dead.
IsVisited(s, t, tk, p) ==
    /\ SameBut(t.moveId, s.moveId, p)
    /\ p \notin Alive(tk) /\ DestinationOf(t, p) # 0 => t.moveId[p] = 0

LEMMA TurnsVisit ==
    ASSUME NEW tk, NEW ahead \in Seq(SimAction), NEW away, NEW s \in Turns(tk, ahead, away),
           Discipline = "Free", NEW p \in Tankets, NEW t, t = Visited(s, tk, p)
    PROVE  t \in Turns(tk, ahead, away) /\ IsVisited(s, t, tk, p)
<1>1. s \in TurnsState
  BY DEF Turns
<1>2. CASE s.moveId[p] # 0 /\ p \in Alive(tk)
  BY <1>2 DEF Visited, IsVisited, SameBut
<1>3. CASE s.moveId[p] # 0 /\ p \notin Alive(tk)
  <2>1. t = PlayMoveFinished(s, p)
    BY <1>3 DEF Visited
  <2>2. t \in Turns(tk, ahead, away)
    BY <2>1, TurnsEnd
  <2>3. Ended(s, t, p)
    BY <1>1, <2>1, PlayMoveFinishedIs
  <2> QED
    BY <2>2, <2>3 DEF Ended, IsVisited
<1>4. CASE s.moveId[p] = 0 /\ HasAI(s, p) /\ s.timedPlayers[p] = 0
  <2>2. t = GiveMove(s, p, 0)
    BY <1>4 DEF Visited
  <2>3. DestinationOf(s, p) = 0
    BY <1>4 DEF HasAI, DestinationOf
  <2>4. Apart(s, tk, p)
    BY <2>3 DEF Apart
  <2>5. t \in Turns(tk, ahead, away) /\ SameBut(t.moveId, s.moveId, p) /\ Rest(t) = Rest(s)
    <3>1. s \in Turns(tk, ahead, away) /\ s.moveId[p] = 0 /\ s.timedPlayers[p] = 0
      BY <1>4
    <3> QED
      BY <2>2, <2>4, <3>1, TurnsGive
  <2>6. DestinationOf(t, p) = 0
    <3>1. t.deserted = s.deserted
      BY <2>5 DEF Rest
    <3> QED
      BY <2>3, <3>1 DEF DestinationOf
  <2> QED
    BY <2>5, <2>6 DEF IsVisited
<1>5. CASE s.moveId[p] = 0 /\ ~(HasAI(s, p) /\ s.timedPlayers[p] = 0)
  BY <1>5 DEF Visited, IsVisited, SameBut
<1> QED
  BY <1>2, <1>3, <1>4, <1>5

LEMMA VisitLoop ==
    ASSUME NEW tk, NEW ahead \in Seq(SimAction), NEW away, NEW s \in Turns(tk, ahead, away),
           Discipline = "Free"
    PROVE  \E f : /\ f[0] = s
                  /\ \A p \in 1 .. N :
                        f[p] = IF p \in TakeTurns(tk) THEN Visited(f[p - 1], tk, p) ELSE f[p - 1]
                  /\ EndAndGiveComputerMoves(s, tk) = f[N]
<1> DEFINE step == [x \in Turns(tk, ahead, away) \X (1 .. N) |->
                     IF x[2] \in TakeTurns(tk) THEN Visited(x[1], tk, x[2]) ELSE x[1]]
<1>1. ASSUME NEW x \in Turns(tk, ahead, away), NEW p \in 1 .. N, p \in TakeTurns(tk)
      PROVE  Visited(x, tk, p) \in Turns(tk, ahead, away)
  <2>1. PICK t : t = Visited(x, tk, p)
    OBVIOUS
  <2>2. t \in Turns(tk, ahead, away)
    BY <1>1, <2>1, TurnsVisit
  <2> QED
    BY <2>1, <2>2
<1>2. step \in [Turns(tk, ahead, away) \X (1 .. N) -> Turns(tk, ahead, away)]
  BY <1>1
<1>3. \A x \in Turns(tk, ahead, away), p \in 1 .. N :
          step[<<x, p>>] = IF p \in TakeTurns(tk) THEN Visited(x, tk, p) ELSE x
  OBVIOUS
<1> HIDE DEF step
<1>4. PICK f \in [0 .. N -> Turns(tk, ahead, away)] : IsLoopOver(f, N, TakeTurns(tk), s, step)
  BY <1>2, LoopOver
<1>5. ASSUME NEW p \in 0 .. N, p # 0, p \in TakeTurns(tk)
      PROVE  step[<<f[p - 1], p>>] = Visited(f[p - 1], tk, p)
  <2>1. p \in 1 .. N /\ f[p - 1] \in Turns(tk, ahead, away)
    BY <1>5
  <2> QED
    BY <1>3, <1>5, <2>1
<1>6. f = [p \in 0 .. N |->
            IF p = 0 THEN s
            ELSE IF p \in TakeTurns(tk) THEN Visited(f[p - 1], tk, p) ELSE f[p - 1]]
  BY <1>4, <1>5 DEF IsLoopOver
<1> DEFINE after == CHOOSE g : g = [p \in 0 .. N |->
            IF p = 0 THEN s
            ELSE IF p \in TakeTurns(tk) THEN Visited(g[p - 1], tk, p) ELSE g[p - 1]]
<1>7. after = [p \in 0 .. N |->
            IF p = 0 THEN s
            ELSE IF p \in TakeTurns(tk) THEN Visited(after[p - 1], tk, p) ELSE after[p - 1]]
  BY <1>6, Zenon
<1>8. EndAndGiveComputerMoves(s, tk) = after[N]
  BY Zenon DEF EndAndGiveComputerMoves, ForEach, Visited, TakeTurns
<1> HIDE DEF after
<1>9. /\ after[0] = s
      /\ \A p \in 1 .. N :
            after[p] = IF p \in TakeTurns(tk) THEN Visited(after[p - 1], tk, p) ELSE after[p - 1]
  BY <1>7
<1> QED
  BY <1>8, <1>9

\* The states where those that are dead have no move, the server's own aside.
Visits(tk, ahead, away) ==
    {s \in Turns(tk, ahead, away) :
        \A p \in TakeTurns(tk) \ Alive(tk) : DestinationOf(s, p) # 0 => s.moveId[p] = 0}

LEMMA TurnsVisitAll ==
    ASSUME NEW tk, NEW ahead \in Seq(SimAction), NEW away, NEW s \in Turns(tk, ahead, away),
           Discipline = "Free"
    PROVE  EndAndGiveComputerMoves(s, tk) \in Visits(tk, ahead, away)
<1>1. PICK f : /\ f[0] = s
               /\ \A p \in 1 .. N :
                    f[p] = IF p \in TakeTurns(tk) THEN Visited(f[p - 1], tk, p) ELSE f[p - 1]
               /\ EndAndGiveComputerMoves(s, tk) = f[N]
  <2>1. /\ EndAndGiveComputerMoves(s, tk) = EndAndGiveComputerMoves(s, tk)
        /\ s \in Turns(tk, ahead, away)
    OBVIOUS
  <2> QED
    BY <2>1, VisitLoop
<1> DEFINE Free(t, q) == DestinationOf(t, q) # 0 => t.moveId[q] = 0
<1> DEFINE U == {i \in 0 .. N : /\ f[i] \in Turns(tk, ahead, away)
                                /\ \A q \in TakeTurns(tk) \ Alive(tk) : q <= i => Free(f[i], q)}
<1>2. 0 \in U
  BY <1>1 DEF TakeTurns, Present
<1>3. ASSUME NEW i \in 1 .. N, i - 1 \in U PROVE i \in U
  <2>1. PICK t : t = f[i - 1]
    OBVIOUS
  <2>2. /\ t \in Turns(tk, ahead, away)
        /\ \A q \in TakeTurns(tk) \ Alive(tk) : q <= i - 1 => Free(t, q)
    BY <1>3, <2>1
  <2>3. PICK u : u = f[i]
    OBVIOUS
  <2>4. \A q \in TakeTurns(tk) : q \in Tankets /\ (q <= i /\ q # i => q <= i - 1)
    BY DEF TakeTurns, Present
  <2>5. CASE i \in TakeTurns(tk)
    <3>1. u = Visited(t, tk, i)
      BY <1>1, <2>1, <2>3, <2>5
    <3>2. u \in Turns(tk, ahead, away) /\ IsVisited(t, u, tk, i)
      BY <2>2, <3>1, TurnsVisit
    <3>3. \A q : DestinationOf(u, q) = DestinationOf(t, q)
      BY <2>2, <3>2 DEF Turns, DestinationOf
    <3>4. ASSUME NEW q \in TakeTurns(tk) \ Alive(tk), q <= i PROVE Free(u, q)
      <4>1. CASE q = i
        BY <3>2, <3>4, <4>1 DEF IsVisited
      <4>2. CASE q # i
        <5>1. u.moveId[q] = t.moveId[q]
          BY <2>4, <3>2, <4>2 DEF IsVisited, SameBut
        <5>2. Free(t, q)
          BY <2>2, <2>4, <3>4, <4>2
        <5> QED
          BY <3>3, <5>1, <5>2
      <4> QED
        BY <4>1, <4>2
    <3> HIDE DEF Free
    <3> QED
      BY <2>3, <3>2, <3>4
  <2>6. CASE i \notin TakeTurns(tk)
    <3>1. u = t
      BY <1>1, <2>1, <2>3, <2>6
    <3>2. ASSUME NEW q \in TakeTurns(tk) \ Alive(tk), q <= i PROVE Free(u, q)
      BY <2>2, <2>4, <2>6, <3>1, <3>2
    <3>3. u \in Turns(tk, ahead, away)
      BY <2>2, <3>1
    <3> HIDE DEF Free
    <3> QED
      BY <2>3, <3>2, <3>3
  <2> QED
    BY <2>5, <2>6
<1>4. N \in U
  <2> HIDE DEF U
  <2>1. N \in Nat /\ N \in 0 .. N
    OBVIOUS
  <2>2. \A i \in 1 .. N : i - 1 \in U => i \in U
    BY <1>3
  <2>3. \A i \in 0 .. N : i \in U
    BY <1>2, <2>1, <2>2, UpTo
  <2> QED
    BY <2>1, <2>3
<1>5. \A p \in TakeTurns(tk) : p <= N
  BY DEF TakeTurns, Present
<1> QED
  BY <1>1, <1>4, <1>5 DEF Visits


\* The first that waits and may get a move gets it, and waits behind the others.
FirstReady(s, tk) == CHOOSE i \in Ready(s, tk) : \A j \in Ready(s, tk) : i <= j

GiveReady(s, tk) ==
    IF Ready(s, tk) = {} THEN s
    ELSE [GiveMove(s, s.waitingPlayers[FirstReady(s, tk)], 0) EXCEPT
            !.waitingPlayers = Append(RemoveAt(@, FirstReady(s, tk)), @[FirstReady(s, tk)])]

LEMMA FreeSimulateIs ==
    ASSUME NEW s, NEW tk
    PROVE  FreeSimulate(s, tk) = GiveReady(EndAndGiveComputerMoves(s, tk), tk)
BY Zenon DEF FreeSimulate, GiveReady, FirstReady

LEMMA FirstReadyIs ==
    ASSUME NEW s, NEW tk, Ready(s, tk) # {}
    PROVE  FirstReady(s, tk) \in Ready(s, tk)
<1>1. PICK ready \in SUBSET Nat : ready = Ready(s, tk)
  <2>1. Ready(s, tk) \in SUBSET Nat
    BY DEF Ready
  <2> QED
    BY <2>1
<1>2. \E i \in ready : \A j \in ready : i <= j
  BY <1>1, Least
<1> QED
  BY <1>1, <1>2 DEF FirstReady

LEMMA BehindIs ==
    ASSUME NEW S, NEW q \in Seq(S), NEW n \in 1 .. Len(q)
    PROVE  Append(RemoveAt(q, n), q[n]) \in Seq(S)
<1>1. PICK before \in Seq(S) : before = SubSeq(q, 1, n - 1)
  <2>1. Len(q) \in Nat /\ n - 1 \in Nat /\ n - 1 <= Len(q)
    OBVIOUS
  <2>2. SubSeq(q, 1, n - 1) \in Seq(S)
    BY <2>1
  <2> QED
    BY <2>2
<1>2. PICK later \in Seq(S) : later = SubSeq(q, n + 1, Len(q))
  <2>1. PICK r : r = SubSeq(q, n + 1, Len(q))
    OBVIOUS
  <2>2. IsLater(r, q, n, S)
    BY <2>1, LaterIs
  <2> QED
    BY <2>1, <2>2 DEF IsLater
<1>3. RemoveAt(q, n) = before \o later
  BY <1>1, <1>2 DEF RemoveAt
<1>4. before \o later \in Seq(S) /\ q[n] \in S
  OBVIOUS
<1> QED
  BY <1>3, <1>4

LEMMA TurnsGiveReady ==
    ASSUME NEW tk, NEW ahead \in Seq(SimAction), NEW away, NEW s \in Visits(tk, ahead, away),
           Discipline = "Free"
    PROVE  GiveReady(s, tk) \in Turns(tk, ahead, away)
<1>1. /\ s \in Turns(tk, ahead, away) /\ s \in TurnsState /\ s.waitingPlayers \in Seq(Tankets)
      /\ \A p \in TakeTurns(tk) \ Alive(tk) : DestinationOf(s, p) # 0 => s.moveId[p] = 0
  BY StateFields DEF Visits, Turns
<1>2. CASE Ready(s, tk) = {}
  BY <1>1, <1>2 DEF GiveReady
<1>3. CASE Ready(s, tk) # {}
  <2>1. PICK n : n = FirstReady(s, tk)
    OBVIOUS
  <2>2. n \in Ready(s, tk)
    BY <1>3, <2>1, FirstReadyIs
  <2>3. PICK p : p = s.waitingPlayers[n]
    OBVIOUS
  <2>4. /\ n \in 1 .. Len(s.waitingPlayers) /\ p \in Alive(tk) /\ s.moveId[p] = 0
        /\ DestinationOf(s, p) \notin PlayingDestinations(s, tk) \cup {0}
        /\ s.timedPlayers[p] = 0
    BY <2>2, <2>3 DEF Ready
  <2>5. p \in Tankets
    BY <2>4 DEF Alive
  <2>6. Apart(s, tk, p)
    <3>1. ASSUME NEW q \in TakeTurns(tk), q # p, s.moveId[q] # 0, DestinationOf(s, q) # 0
          PROVE  DestinationOf(s, q) # DestinationOf(s, p)
      <4>1. q \in Alive(tk) \ NonNormal
        BY <1>1, <3>1 DEF TakeTurns
      <4>2. DestinationOf(s, q) \in PlayingDestinations(s, tk)
        BY <3>1, <4>1 DEF PlayingDestinations
      <4> QED
        BY <2>4, <4>2
    <3> QED
      BY <3>1 DEF Apart
  <2>7. PICK g : g = GiveMove(s, p, 0)
    OBVIOUS
  <2>8. g \in Turns(tk, ahead, away) /\ Rest(g) = Rest(s)
    BY <1>1, <2>4, <2>5, <2>6, <2>7, TurnsGive
  <2>9. g \in TurnsState /\ g.waitingPlayers = s.waitingPlayers
    BY <2>8 DEF Rest, Turns
  <2>10. PICK waiting \in Seq(Tankets) :
            waiting = Append(RemoveAt(s.waitingPlayers, n), s.waitingPlayers[n])
    <3>1. PICK q \in Seq(Tankets) : q = s.waitingPlayers
      BY <1>1
    <3>2. n \in 1 .. Len(q)
      BY <2>4, <3>1
    <3>3. Append(RemoveAt(q, n), q[n]) \in Seq(Tankets)
      BY <3>2, BehindIs
    <3> QED
      BY <3>1, <3>3
  <2>11. PICK t : t = [g EXCEPT !.waitingPlayers = waiting]
    OBVIOUS
  <2>12. GiveReady(s, tk) = t
    <3>1. GiveReady(s, tk) =
              [g EXCEPT !.waitingPlayers = Append(RemoveAt(g.waitingPlayers, n), g.waitingPlayers[n])]
      BY <1>3, <2>1, <2>3, <2>7 DEF GiveReady
    <3> QED
      BY <2>9, <2>10, <2>11, <3>1
  <2>13. TurnOf(g, t, g.playingPlayer, waiting)
    BY <2>9, <2>11, WaitingPlayersAre
  <2>14. /\ t \in TurnsState /\ t.deserted = g.deserted /\ t.moves = g.moves
         /\ t.timedPlayers = g.timedPlayers /\ t.playingPlayers = g.playingPlayers
         /\ t.sendActions = g.sendActions /\ t.moveId = g.moveId /\ t.nextMoveId = g.nextMoveId
    BY <2>13 DEF TurnOf
  <2>15. OnlyPlaying(t, tk)
    BY DEF OnlyPlaying
  <2> QED
    BY <2>8, <2>12, <2>14, <2>15, TurnsFields
<1> QED
  BY <1>2, <1>3

LEMMA TurnsFree ==
    ASSUME NEW tk, NEW ahead \in Seq(SimAction), NEW away, NEW s \in Turns(tk, ahead, away),
           Discipline = "Free"
    PROVE  FreeSimulate(s, tk) \in Turns(tk, ahead, away)
<1>1. PICK t \in Visits(tk, ahead, away) : t = EndAndGiveComputerMoves(s, tk)
  BY TurnsVisitAll
<1>2. GiveReady(t, tk) \in Turns(tk, ahead, away)
  BY TurnsGiveReady
<1> QED
  BY <1>1, <1>2, FreeSimulateIs
-----------------------------------------------------------------------------
(* simulate keeps the invariant, for the orders that can be drawn.          *)
LEMMA TurnsInternal ==
    ASSUME NEW tk, NEW ahead \in Seq(SimAction), NEW away, NEW s \in Turns(tk, ahead, away),
           NEW time \in {0, 1}, NEW order, IsOrder(order)
    PROVE  InternalSimulate(s, tk, time, order) \in Turns(tk, ahead, away)
<1>1. CASE Discipline = "Sequential"
  BY <1>1, TurnsSequential DEF InternalSimulate
<1>2. CASE Discipline = "Simultaneous"
  BY <1>2, TurnsSimultaneous DEF InternalSimulate
<1>3. CASE Discipline = "Free"
  BY <1>3, TurnsFree DEF InternalSimulate
<1> QED
  BY <1>1, <1>2, <1>3, DisciplineAssumption

LEMMA TurnsSimulate ==
    ASSUME NEW tk, NEW ahead \in Seq(SimAction), NEW away, NEW s \in Turns(tk, ahead, away),
           NEW inFlight, NEW time \in {0, 1}, NEW order, IsOrder(order)
    PROVE  Simulate(s, tk, inFlight, time, order) \in Turns(tk, ahead, away)
<1>1. PICK t \in Turns(tk, ahead, away) : t = WaitForShotsToEnd(s, inFlight)
  BY TurnsWait
<1>2. PICK u : u = RunTimers(t, time)
  OBVIOUS
<1>3. u \in Turns(tk, ahead, away)
  BY <1>2, TurnsTimers
<1>4. PICK v \in Turns(tk, ahead, away) : v = TimeOut(u, tk)
  BY <1>3, TurnsTimeOut
<1>5. PICK w \in Turns(tk, ahead, away) : w = GiveNonNormalMoves(v, tk)
  BY TurnsNonNormal
<1>6. PICK x : x = RunDelays(w, time)
  OBVIOUS
<1>7. x \in Turns(tk, ahead, away)
  BY <1>6, TurnsDelays
<1>8. InternalSimulate(x, tk, time, order) \in Turns(tk, ahead, away)
  BY <1>7, TurnsInternal
<1>9. Simulate(s, tk, inFlight, time, order) =
          IF t.shotsState # "eShotsNone" THEN t ELSE InternalSimulate(x, tk, time, order)
  BY <1>1, <1>2, <1>4, <1>5, <1>6 DEF Simulate
<1> QED
  BY <1>8, <1>9

-----------------------------------------------------------------------------
(* enterState.                                                              *)

\* The list of some tankets.
Listed(list, p) == Append(list, p)

LEMMA EachIn ==
    ASSUME NEW S, NEW list \in Seq(Tankets)
    PROVE  ForEach(S, Append, list) \in Seq(Tankets)
<1> DEFINE step == [x \in Seq(Tankets) \X (1 .. N) |->
                     IF x[2] \in S THEN Listed(x[1], x[2]) ELSE x[1]]
<1>1. ASSUME NEW x \in Seq(Tankets), NEW p \in 1 .. N, p \in S
      PROVE  Listed(x, p) \in Seq(Tankets)
  BY <1>1, Appended DEF Listed
<1>2. step \in [Seq(Tankets) \X (1 .. N) -> Seq(Tankets)]
  BY <1>1
<1>3. \A x \in Seq(Tankets), p \in 1 .. N :
          step[<<x, p>>] = IF p \in S THEN Listed(x, p) ELSE x
  OBVIOUS
<1> HIDE DEF step
<1>4. PICK f \in [0 .. N -> Seq(Tankets)] : IsLoopOver(f, N, S, list, step)
  BY <1>2, LoopOver
<1>5. ASSUME NEW p \in 0 .. N, p # 0, p \in S
      PROVE  step[<<f[p - 1], p>>] = Listed(f[p - 1], p)
  <2>1. p \in 1 .. N /\ f[p - 1] \in Seq(Tankets)
    BY <1>5
  <2> QED
    BY <1>3, <1>5, <2>1
<1>6. f = [p \in 0 .. N |->
            IF p = 0 THEN list
            ELSE IF p \in S THEN Listed(f[p - 1], p) ELSE f[p - 1]]
  BY <1>4, <1>5 DEF IsLoopOver
<1> DEFINE after == CHOOSE g : g = [p \in 0 .. N |->
            IF p = 0 THEN list
            ELSE IF p \in S THEN Listed(g[p - 1], p) ELSE g[p - 1]]
<1>7. after = [p \in 0 .. N |->
            IF p = 0 THEN list
            ELSE IF p \in S THEN Listed(after[p - 1], p) ELSE after[p - 1]]
  BY <1>6, Zenon
<1>8. ForEach(S, Append, list) = after[N]
  BY Zenon DEF ForEach, Listed
<1> HIDE DEF after
<1>9. /\ after[0] = list
      /\ \A p \in 1 .. N :
            after[p] = IF p \in S THEN Listed(after[p - 1], p) ELSE after[p - 1]
  BY <1>7
<1>10. ASSUME NEW p \in 1 .. N, after[p - 1] \in Seq(Tankets) PROVE after[p] \in Seq(Tankets)
  <2>1. PICK x \in Seq(Tankets) : x = after[p - 1]
    BY <1>10
  <2>2. after[p] = IF p \in S THEN Listed(x, p) ELSE x
    BY <1>9, <2>1
  <2> QED
    BY <1>1, <2>2
<1>11. N \in Nat /\ N \in 0 .. N /\ after[0] \in Seq(Tankets)
  BY <1>9
<1>12. \A i \in 0 .. N : after[i] \in Seq(Tankets)
  BY <1>10, <1>11, LoopKeeps
<1> QED
  BY <1>8, <1>11, <1>12

\* What enterState of each discipline begins with, and what it keeps: nobody
\* has a timer, a delay or, if it is present, a move.
Reset(tk, away) ==
    {s \in TurnsState :
        /\ \A p \in Tankets : s.playingPlayers[p] = NoTimer /\ s.timedPlayers[p] = 0
        /\ \A p \in Present(tk) : s.moveId[p] = 0
        /\ \A p \in Tankets \ NonNormal : s.moveId[p] <= s.nextMoveId
        /\ s.sendActions = <<>>
        /\ Collects(s) /\ s.deserted = away}

LEMMA ResetTurns ==
    ASSUME NEW tk, NEW away, NEW s \in Reset(tk, away), s.moves = {},
           Discipline = "Sequential" => IsOrder(s.waitingPlayers)
    PROVE  s \in Turns(tk, <<>>, away)
<1>1. /\ s \in TurnsState
      /\ \A p \in Tankets : s.playingPlayers[p] = NoTimer /\ s.timedPlayers[p] = 0
      /\ \A p \in Present(tk) : s.moveId[p] = 0
      /\ \A p \in Tankets \ NonNormal : s.moveId[p] <= s.nextMoveId
      /\ s.sendActions = <<>>
      /\ Collects(s) /\ s.deserted = away
  BY DEF Reset
<1>2. PICK q : q = <<>> \o s.sendActions
  OBVIOUS
<1>3. Len(q) = 0
  BY <1>1, <1>2
<1>4. Ids(s, q)
  <2>1. OnePerPlayer(s.moves) /\ Before(s, s.moves)
    BY DEF OnePerPlayer, Before
  <2>2. 1 .. Len(q) = {}
    BY <1>3
  <2> QED
    BY <1>1, <2>1, <2>2 DEF Ids
<1>5. Common(s, <<>>)
  BY <1>1, <1>2, <1>4 DEF Common, Timers
<1>6. TakeTurns(tk) \subseteq Present(tk)
  BY DEF TakeTurns
<1>7. OnlyPlaying(s, tk) /\ OneEach(s, tk)
  BY <1>1, <1>6 DEF OnlyPlaying, OneEach
<1>8. Waits(s)
  BY <1>1 DEF Waits, IsOrder
<1> QED
  BY <1>1, <1>5, <1>7, <1>8 DEF Turns

\* What enterState sets before the discipline's own part.
LEMMA ResetIs ==
    ASSUME NEW tk, NEW away, NEW s \in TurnsState,
           \A p \in Tankets \ NonNormal : s.moveId[p] <= s.nextMoveId,
           s.sendActions = <<>>, Collects(s), s.deserted = away,
           NEW timers \in [Tankets -> Timer], \A p \in Tankets : timers[p] = NoTimer,
           NEW delays \in [Tankets -> Nat], \A p \in Tankets : delays[p] = 0,
           NEW ids \in [Tankets -> Nat],
           \A p \in Tankets : ids[p] = IF p \in Present(tk) THEN 0 ELSE s.moveId[p],
           NEW t, t = [s EXCEPT !.shotsState = "eShotsNone", !.playingPlayers = timers,
                                !.timedPlayers = delays, !.moveId = ids]
    PROVE  t \in Reset(tk, away)
<1>1. t \in TurnsState
  BY DEF TurnsState
<1>2. /\ t.playingPlayers = timers /\ t.timedPlayers = delays /\ t.moveId = ids
      /\ t.sendActions = s.sendActions /\ t.moves = s.moves /\ t.deserted = s.deserted
      /\ t.nextMoveId = s.nextMoveId
  BY DEF TurnsState
<1>3. \A p \in Present(tk) : p \in Tankets /\ t.moveId[p] = 0
  BY <1>2 DEF Present
<1>4. ASSUME NEW p \in Tankets \ NonNormal PROVE t.moveId[p] <= t.nextMoveId
  <2>1. s.nextMoveId \in Nat /\ t.nextMoveId = s.nextMoveId /\ t.moveId[p] = ids[p]
    BY <1>2, StateFields
  <2>2. ids[p] \in {0, s.moveId[p]}
    OBVIOUS
  <2>3. s.moveId[p] <= s.nextMoveId
    OBVIOUS
  <2> QED
    BY <2>1, <2>2, <2>3
<1>5. Collects(t)
  BY <1>2 DEF Collects
<1> QED
  BY <1>1, <1>2, <1>3, <1>4, <1>5 DEF Reset

LEMMA SequentialEnter ==
    ASSUME NEW tk, NEW away, NEW s \in Reset(tk, away), Discipline = "Sequential",
           NEW order, IsOrder(order)
    PROVE  SequentialEnterState(s, tk, order) \in Turns(tk, <<>>, away)
<1>1. s \in TurnsState /\ s.moveId \in [Tankets -> Nat]
  BY StateFields DEF Reset
<1>2. [p \in Tankets |-> IF p \in TakeTurns(tk) THEN 0 ELSE s.moveId[p]] = s.moveId
  <2>1. \A p \in TakeTurns(tk) : s.moveId[p] = 0
    BY DEF Reset, TakeTurns
  <2> QED
    BY <1>1, <2>1
<1>3. PICK player \in 0 .. N : player = 0
  OBVIOUS
<1>4. PICK u : u = SequentialEnterState(s, tk, order)
  OBVIOUS
<1>5. PICK v : v = [s EXCEPT !.playingPlayer = player, !.waitingPlayers = order]
  OBVIOUS
<1>6. u = v
  BY <1>1, <1>2, <1>3, <1>4, <1>5 DEF SequentialEnterState, TurnsState
<1>7. TurnOf(s, v, player, order)
  BY <1>1, <1>5, TurnFieldsAre DEF IsOrder
<1>8. /\ v \in TurnsState /\ v.waitingPlayers = order
      /\ v.deserted = s.deserted /\ v.moves = s.moves
      /\ v.timedPlayers = s.timedPlayers /\ v.playingPlayers = s.playingPlayers
      /\ v.sendActions = s.sendActions /\ v.moveId = s.moveId /\ v.nextMoveId = s.nextMoveId
  BY <1>7 DEF TurnOf
<1>9. v \in Reset(tk, away) /\ v.moves = {}
  BY <1>8 DEF Reset, Collects
<1>10. v \in Turns(tk, <<>>, away)
  BY <1>8, <1>9, ResetTurns
<1> QED
  BY <1>4, <1>6, <1>10

\* The disciplines that give out the next id anew.
LEMMA EnterIs ==
    ASSUME NEW tk, NEW away, NEW s \in Reset(tk, away), Discipline # "Sequential",
           NEW t \in TurnsState, t.playingPlayers = s.playingPlayers,
           t.timedPlayers = s.timedPlayers, t.sendActions = s.sendActions,
           t.deserted = s.deserted, t.moves = {}, t.nextMoveId = s.nextMoveId + 1,
           t.moveId = [p \in Tankets |-> IF p \in Present(tk) THEN 0 ELSE s.moveId[p]]
    PROVE  t \in Turns(tk, <<>>, away)
<1>1. /\ s \in TurnsState /\ s.moveId \in [Tankets -> Nat] /\ s.nextMoveId \in Nat
      /\ \A p \in Tankets \ NonNormal : s.moveId[p] <= s.nextMoveId
  BY StateFields DEF Reset
<1>2. \A p \in Present(tk) : t.moveId[p] = 0
  BY DEF Present
<1>3. \A p \in Tankets \ NonNormal : t.moveId[p] <= t.nextMoveId
  BY <1>1
<1>4. t \in Reset(tk, away)
  BY <1>2, <1>3 DEF Reset, Collects
<1> QED
  BY <1>4, ResetTurns

LEMMA SimultaneousEnter ==
    ASSUME NEW tk, NEW away, NEW s \in Reset(tk, away), Discipline = "Simultaneous"
    PROVE  SimultaneousEnterState(s, tk) \in Turns(tk, <<>>, away)
<1>1. s \in TurnsState /\ s.moveId \in [Tankets -> Nat] /\ s.nextMoveId \in Nat
  BY StateFields DEF Reset
<1>2. PICK ids \in [Tankets -> Nat] :
        ids = [p \in Tankets |-> IF p \in Present(tk) THEN 0 ELSE s.moveId[p]]
  BY <1>1
<1>3. PICK next \in Nat : next = s.nextMoveId + 1
  BY <1>1
<1>4. PICK none \in SUBSET Message : none = {}
  OBVIOUS
<1>5. PICK time \in Int : time = AIShotTime
  BY AIShotTimeAssumption
<1>6. PICK t : t = SimultaneousEnterState(s, tk)
  OBVIOUS
<1>7. t = [s EXCEPT !.nextMoveId = next, !.moves = none, !.moveId = ids, !.waitingTime = time]
  BY <1>2, <1>3, <1>4, <1>5, <1>6 DEF SimultaneousEnterState
<1>8. /\ t \in TurnsState /\ t.playingPlayers = s.playingPlayers
      /\ t.timedPlayers = s.timedPlayers /\ t.sendActions = s.sendActions
      /\ t.deserted = s.deserted /\ t.moves = none /\ t.nextMoveId = next /\ t.moveId = ids
  BY <1>1, <1>7 DEF TurnsState
<1>9. t \in Turns(tk, <<>>, away)
  BY <1>2, <1>3, <1>4, <1>8, EnterIs
<1> QED
  BY <1>6, <1>9

LEMMA FreeEnter ==
    ASSUME NEW tk, NEW away, NEW s \in Reset(tk, away), Discipline = "Free"
    PROVE  FreeEnterState(s, tk) \in Turns(tk, <<>>, away)
<1>1. /\ s \in TurnsState /\ s.moveId \in [Tankets -> Nat] /\ s.nextMoveId \in Nat
      /\ s.moves = {}
  BY StateFields DEF Reset, Collects
<1>2. PICK ids \in [Tankets -> Nat] :
        ids = [p \in Tankets |-> IF p \in Present(tk) THEN 0 ELSE s.moveId[p]]
  BY <1>1
<1>3. PICK next \in Nat : next = s.nextMoveId + 1
  BY <1>1
<1>4. PICK waiting \in Seq(Tankets) :
        waiting = ForEach({p \in Alive(tk) : ~HasAI(s, p)}, Append, <<>>)
  <2>1. <<>> \in Seq(Tankets)
    OBVIOUS
  <2>2. ForEach({p \in Alive(tk) : ~HasAI(s, p)}, Append, <<>>) \in Seq(Tankets)
    BY <2>1, EachIn
  <2> QED
    BY <2>2
<1>5. PICK t : t = FreeEnterState(s, tk)
  OBVIOUS
<1>6. t = [s EXCEPT !.nextMoveId = next, !.moveId = ids, !.waitingPlayers = waiting]
  BY <1>2, <1>3, <1>4, <1>5, Zenon DEF FreeEnterState
<1>7. /\ t \in TurnsState /\ t.playingPlayers = s.playingPlayers
      /\ t.timedPlayers = s.timedPlayers /\ t.sendActions = s.sendActions
      /\ t.deserted = s.deserted /\ t.moves = s.moves /\ t.nextMoveId = next /\ t.moveId = ids
  BY <1>1, <1>6 DEF TurnsState
<1>8. t \in Turns(tk, <<>>, away)
  BY <1>1, <1>2, <1>3, <1>7, EnterIs
<1> QED
  BY <1>5, <1>8

LEMMA TurnsEnter ==
    ASSUME NEW tk, NEW away, NEW s \in TurnsState,
           \A p \in Tankets \ NonNormal : s.moveId[p] <= s.nextMoveId,
           s.sendActions = <<>>, Collects(s), s.deserted = away, NEW order, IsOrder(order)
    PROVE  EnterTurns(s, tk, order) \in Turns(tk, <<>>, away)
<1>1. s.moveId \in [Tankets -> Nat]
  BY StateFields
<1>2. PICK timers \in [Tankets -> Timer] : timers = [p \in Tankets |-> NoTimer]
  <2>1. NoTimer \in Timer
    BY DEF Timer, NoTimer
  <2> QED
    BY <2>1
<1>3. PICK delays \in [Tankets -> Nat] : delays = [p \in Tankets |-> 0]
  OBVIOUS
<1>4. PICK ids \in [Tankets -> Nat] :
        ids = [p \in Tankets |-> IF p \in Present(tk) THEN 0 ELSE s.moveId[p]]
  BY <1>1
<1>5. PICK r : r = [s EXCEPT !.shotsState = "eShotsNone", !.playingPlayers = timers,
                             !.timedPlayers = delays, !.moveId = ids]
  OBVIOUS
<1>6. r \in Reset(tk, away)
  BY <1>2, <1>3, <1>4, <1>5, ResetIs
<1>7. EnterTurns(s, tk, order) = InternalEnterState(r, tk, order)
  BY <1>2, <1>3, <1>4, <1>5 DEF EnterTurns
<1>8. CASE Discipline = "Sequential"
  <2>1. SequentialEnterState(r, tk, order) \in Turns(tk, <<>>, away)
    BY <1>6, <1>8, SequentialEnter
  <2> QED
    BY <1>7, <1>8, <2>1 DEF InternalEnterState
<1>9. CASE Discipline = "Simultaneous"
  <2>1. SimultaneousEnterState(r, tk) \in Turns(tk, <<>>, away)
    BY <1>6, <1>9, SimultaneousEnter
  <2> QED
    BY <1>7, <1>9, <2>1 DEF InternalEnterState
<1>10. CASE Discipline = "Free"
  <2>1. FreeEnterState(r, tk) \in Turns(tk, <<>>, away)
    BY <1>6, <1>10, FreeEnter
  <2> QED
    BY <1>7, <1>10, <2>1 DEF InternalEnterState
<1> QED
  BY <1>8, <1>9, <1>10, DisciplineAssumption

-----------------------------------------------------------------------------
(* The actions of a queue, one after the other.                             *)

\* What is in flight, and what will revive a tank.
Flights == ({"shot", "rez"} \cup Reviving) \X Tankets
Revivals == {"rez"} \cup Reviving

\* A tank that plays has a life, and one that comes back has one left; it comes
\* back once.
LivesFit(tk, lv, inFlight) ==
    /\ \A p \in Tankets : tk[p] = "sNormal" => lv[p] > 0
    /\ \A p \in Tankets, x \in Revivals :
        <<x, p>> \in inFlight => tk[p] # "sNormal" /\ (tk[p] = "sDead" => lv[p] > 0)
    /\ \A p \in Tankets, x, y \in Revivals :
        <<x, p>> \in inFlight /\ <<y, p>> \in inFlight => x = y

WorldState ==
    [turns : TurnsState, tank : [Tankets -> TankStates], lives : [Tankets -> 0 .. Lives],
     missedMoves : [Tankets -> Nat], flying : SUBSET Flights, clientMove : [Tankets -> Nat]]

WorldsOf(away) == {w \in WorldState : w.turns.deserted = away}

Worlds(ahead, away) ==
    {w \in WorldState : /\ w.turns \in Turns(w.tank, ahead, away)
                        /\ LivesFit(w.tank, w.lives, w.flying)}

\* The invariant is about those that take turns only.
LEMMA TurnsTank ==
    ASSUME NEW tk, NEW tk2, NEW ahead, NEW away, NEW s \in Turns(tk, ahead, away),
           TakeTurns(tk2) \subseteq TakeTurns(tk)
    PROVE  s \in Turns(tk2, ahead, away)
<1>1. /\ s \in TurnsState /\ Common(s, ahead) /\ OnlyPlaying(s, tk) /\ Waits(s)
      /\ OneEach(s, tk) /\ Collects(s) /\ s.deserted = away
  BY DEF Turns
<1>2. OnlyPlaying(s, tk2)
  BY <1>1 DEF OnlyPlaying
<1>3. OneEach(s, tk2)
  BY <1>1 DEF OneEach
<1> QED
  BY <1>1, <1>2, <1>3 DEF Turns

\* l is what is left of the queue r when its first i actions were applied.
IsLeft(l, r, i) ==
    l \in Seq(SimAction) /\ Len(l) = Len(r) - i /\ \A j \in 1 .. Len(l) : l[j] = r[i + j]

LEMMA LeftExists ==
    ASSUME NEW r \in Seq(SimAction), NEW i \in 0 .. Len(r)
    PROVE  \E l : IsLeft(l, r, i)
<1> DEFINE l == [j \in 1 .. Len(r) - i |-> r[i + j]]
<1>1. Len(r) \in Nat /\ Len(r) - i \in Nat
  OBVIOUS
<1>2. \A j \in 1 .. Len(r) - i : i + j \in 1 .. Len(r)
  OBVIOUS
<1>3. l \in Seq(SimAction) /\ Len(l) = Len(r) - i
  <2>1. \A j \in 1 .. Len(r) - i : r[i + j] \in SimAction
    BY <1>2
  <2> QED
    BY <1>1, <2>1, IsASeq
<1>4. \A j \in 1 .. Len(r) - i : l[j] = r[i + j]
  OBVIOUS
<1> HIDE DEF l
<1> QED
  BY <1>3, <1>4 DEF IsLeft

LEMMA TailOf ==
    ASSUME NEW k \in Seq(SimAction), NEW l \in Seq(SimAction), NEW m \in Seq(SimAction),
           Len(k) = Len(l) + 1, \A j \in 1 .. Len(l) : l[j] = k[j + 1]
    PROVE  /\ Len(k \o m) = Len(l \o m) + 1
           /\ Len(k \o m) \in Nat /\ Len(l \o m) \in Nat
           /\ \A j \in 1 .. Len(l \o m) : (l \o m)[j] = (k \o m)[j + 1]
<1>1. /\ Len(l) \in Nat /\ Len(m) \in Nat /\ Len(k) \in Nat
      /\ Len(l \o m) = Len(l) + Len(m) /\ Len(k \o m) = Len(k) + Len(m)
  <2>1. Len(l) \in Nat /\ Len(m) \in Nat /\ Len(k) \in Nat
    OBVIOUS
  <2>2. Len(l \o m) = Len(l) + Len(m)
    BY <2>1, ConcatProperties
  <2>3. Len(k \o m) = Len(k) + Len(m)
    BY <2>1, ConcatProperties
  <2> QED
    BY <2>1, <2>2, <2>3
<1>2. ASSUME NEW j \in 1 .. Len(l) + Len(m) PROVE (l \o m)[j] = (k \o m)[j + 1]
  <2>1. CASE j <= Len(l)
    <3>1. j \in 1 .. Len(l) /\ j + 1 \in 1 .. Len(k)
      BY <1>1, <2>1
    <3>2. (l \o m)[j] = l[j]
      BY <3>1
    <3>3. (k \o m)[j + 1] = k[j + 1]
      BY <3>1
    <3> QED
      BY <3>1, <3>2, <3>3
  <2>2. CASE j > Len(l)
    <3>1. j - Len(l) \in 1 .. Len(m) /\ j + 1 - Len(k) = j - Len(l)
      BY <1>1, <2>2
    <3>2. (l \o m)[j] = m[j - Len(l)]
      BY <1>1, <2>2
    <3>3. (k \o m)[j + 1] = m[j + 1 - Len(k)]
      BY <1>1, <2>2
    <3> QED
      BY <3>1, <3>2, <3>3
  <2> QED
    BY <1>1, <2>1, <2>2
<1> QED
  BY <1>1, <1>2

\* An action of those ahead was applied.
LEMMA TurnsTail ==
    ASSUME NEW tk, NEW away, NEW r \in Seq(SimAction), NEW i \in 1 .. Len(r),
           NEW k, IsLeft(k, r, i - 1), NEW l, IsLeft(l, r, i), NEW s \in Turns(tk, k, away)
    PROVE  s \in Turns(tk, l, away)
<1>1. /\ s \in TurnsState /\ Common(s, k) /\ OnlyPlaying(s, tk) /\ Waits(s)
      /\ OneEach(s, tk) /\ Collects(s) /\ s.deserted = away
  BY DEF Turns
<1>2. k \in Seq(SimAction) /\ l \in Seq(SimAction) /\ s.sendActions \in Seq(SimAction)
  BY <1>1, StateFields DEF IsLeft
<1>3. Len(k) = Len(l) + 1 /\ \A j \in 1 .. Len(l) : l[j] = k[j + 1]
  <2>1. Len(r) \in Nat /\ Len(k) = Len(r) - (i - 1) /\ Len(l) = Len(r) - i
    BY DEF IsLeft
  <2>2. ASSUME NEW j \in 1 .. Len(l) PROVE l[j] = k[j + 1]
    <3>1. j + 1 \in 1 .. Len(k)
      BY <2>1
    <3>2. l[j] = r[i + j] /\ k[j + 1] = r[i - 1 + (j + 1)]
      BY <3>1 DEF IsLeft
    <3>3. i - 1 + (j + 1) = i + j
      BY <2>1
    <3> QED
      BY <3>2, <3>3
  <2> QED
    BY <2>1, <2>2
<1>4. PICK m \in Seq(SimAction) : m = s.sendActions
  <2>1. s.sendActions \in Seq(SimAction)
    BY <1>2
  <2> QED
    BY <2>1
<1>5. /\ Len(k \o m) = Len(l \o m) + 1
      /\ Len(k \o m) \in Nat /\ Len(l \o m) \in Nat
      /\ \A j \in 1 .. Len(l \o m) : (l \o m)[j] = (k \o m)[j + 1]
  BY <1>2, <1>3, TailOf, Zenon
<1>6. PICK q : q = k \o m
  OBVIOUS
<1>7. PICK v : v = l \o m
  OBVIOUS
<1>8. /\ Len(q) = Len(v) + 1 /\ Len(q) \in Nat /\ Len(v) \in Nat
      /\ \A j \in 1 .. Len(v) : v[j] = q[j + 1]
  BY <1>5, <1>6, <1>7
<1>9. Ids(s, q)
  BY <1>1, <1>4, <1>6 DEF Common
<1>10. Ids(s, v)
  BY <1>8, <1>9, IdsTail
<1>11. Common(s, l)
  BY <1>1, <1>4, <1>7, <1>10 DEF Common
<1> QED
  BY <1>1, <1>11 DEF Turns

LEMMA WorldFields ==
    ASSUME NEW w \in WorldState
    PROVE  /\ w.turns \in TurnsState /\ w.tank \in [Tankets -> TankStates]
           /\ w.lives \in [Tankets -> 0 .. Lives] /\ w.missedMoves \in [Tankets -> Nat]
           /\ w.flying \in SUBSET Flights /\ w.clientMove \in [Tankets -> Nat]
BY DEF WorldState

\* A step that changes the turns and the clients' moves only.
IsWorld(w, u, t) ==
    /\ u \in WorldState /\ u.turns = t
    /\ u.tank = w.tank /\ u.lives = w.lives /\ u.flying = w.flying

LEMMA WorldIs ==
    ASSUME NEW w \in WorldState, NEW t \in TurnsState, NEW ids \in [Tankets -> Nat],
           NEW u, u = [w EXCEPT !.turns = t, !.clientMove = ids]
    PROVE  IsWorld(w, u, t)
BY DEF WorldState, IsWorld

\* What the application of an action keeps.
Kept(w, u, away) ==
    /\ u \in WorldsOf(away)
    /\ \A ahead \in Seq(SimAction) : w \in Worlds(ahead, away) => u \in Worlds(ahead, away)

LEMMA WorldKept ==
    ASSUME NEW away, NEW w \in WorldsOf(away), NEW t \in TurnsState, t.deserted = away,
           \A ahead \in Seq(SimAction) :
               w.turns \in Turns(w.tank, ahead, away) => t \in Turns(w.tank, ahead, away),
           NEW ids \in [Tankets -> Nat], NEW u, u = [w EXCEPT !.turns = t, !.clientMove = ids]
    PROVE  Kept(w, u, away)
<1>1. w \in WorldState
  BY DEF WorldsOf
<1>2. /\ u \in WorldState /\ u.turns = t /\ u.tank = w.tank /\ u.lives = w.lives
      /\ u.flying = w.flying
  <2>1. IsWorld(w, u, t)
    BY <1>1, WorldIs
  <2> QED
    BY <2>1 DEF IsWorld
<1>3. u \in WorldsOf(away)
  BY <1>2 DEF WorldsOf
<1>4. ASSUME NEW ahead \in Seq(SimAction), w \in Worlds(ahead, away)
      PROVE  u \in Worlds(ahead, away)
  <2>1. w.turns \in Turns(w.tank, ahead, away) /\ LivesFit(w.tank, w.lives, w.flying)
    BY <1>4 DEF Worlds
  <2>2. t \in Turns(w.tank, ahead, away)
    BY <2>1
  <2> QED
    BY <1>2, <2>1, <2>2 DEF Worlds
<1> QED
  BY <1>3, <1>4 DEF Kept


\* What a step keeps of the turns.
TurnsKept(s, t, tk, away) ==
    /\ t \in TurnsState /\ t.deserted = away
    /\ \A ahead \in Seq(SimAction) :
        s \in Turns(tk, ahead, away) => t \in Turns(tk, ahead, away)

LEMMA KeptTwice ==
    ASSUME NEW s, NEW t, NEW u, NEW tk, NEW away, TurnsKept(s, t, tk, away), TurnsKept(t, u, tk, away)
    PROVE  TurnsKept(s, u, tk, away)
BY DEF TurnsKept

LEMMA StartFields ==
    ASSUME NEW a \in SimAction, a.kind = "start"
    PROVE  a.player \in Tankets /\ a.move \in MoveIds /\ a.timed \in BOOLEAN
BY DEF SimAction, NextTurn

LEMMA KeptFinished ==
    ASSUME NEW tk, NEW away, NEW s \in TurnsState, s.deserted = away, NEW m \in Message,
           m.move # 0, NEW thinking \in Nat, NEW t, t = MoveFinished(s, tk, m, thinking)
    PROVE  TurnsKept(s, t, tk, away)
<1>1. /\ Handled(s, t, m.player)
      /\ \A ahead \in Seq(SimAction) : \A gone :
            s \in Turns(tk, ahead, gone) /\ m.move # 0 => t \in Turns(tk, ahead, gone)
  BY MoveFinishedKeeps
<1> QED
  BY <1>1 DEF Handled, TurnsKept

LEMMA KeptAdd ==
    ASSUME NEW tk, NEW away, NEW s \in TurnsState, s.deserted = away,
           NEW a \in SimAction, a.kind # "shots", NEW t, t = AddSimulatorAction(s, a)
    PROVE  TurnsKept(s, t, tk, away)
<1>1. t \in TurnsState /\ t.deserted = away
  <2>1. t \in TurnsState /\ Rest(t) = Rest(s)
    BY AddIs
  <2> QED
    BY <2>1 DEF Rest
<1>2. ASSUME NEW ahead \in Seq(SimAction), s \in Turns(tk, ahead, away)
      PROVE  t \in Turns(tk, ahead, away)
  BY <1>2, TurnsAdd
<1> QED
  BY <1>1, <1>2 DEF TurnsKept

LEMMA KeptStarted ==
    ASSUME NEW tk, NEW away, NEW s \in TurnsState, s.deserted = away, NEW p \in Tankets,
           NEW t, t = MoveStarted(s, p)
    PROVE  TurnsKept(s, t, tk, away)
<1>1. /\ t \in TurnsState
      /\ t.timedPlayers = s.timedPlayers
      /\ Queues(t) = Queues(s) /\ Rest(t) = Rest(s)
  BY MoveStartedIs
<1>2. \A q \in Tankets :
          \/ t.playingPlayers[q] = s.playingPlayers[q]
          \/ /\ s.playingPlayers[q] # NoTimer
             /\ t.playingPlayers[q].move = s.playingPlayers[q].move
  <2>1. \A q \in Tankets :
            \/ t.playingPlayers[q] = s.playingPlayers[q]
            \/ /\ q = p /\ s.playingPlayers[q] # NoTimer
               /\ t.playingPlayers[q].move = s.playingPlayers[q].move
    BY MoveStartedIs, SMTT(30)
  <2> QED
    BY <2>1, Zenon
<1>3. t.deserted = away
  BY <1>1 DEF Rest
<1>4. ASSUME NEW ahead \in Seq(SimAction), s \in Turns(tk, ahead, away)
      PROVE  t \in Turns(tk, ahead, away)
  <2>1. \A q \in Tankets : t.timedPlayers[q] > 0 => s.timedPlayers[q] > 0
    BY <1>1
  <2> QED
    BY <1>1, <1>2, <1>4, <2>1, TurnsClock
<1> QED
  BY <1>1, <1>3, <1>4 DEF TurnsKept

LEMMA KeptShotsStarted ==
    ASSUME NEW tk, NEW away, NEW s \in TurnsState, s.deserted = away,
           NEW t, t = ShotsStarted(s)
    PROVE  TurnsKept(s, t, tk, away)
<1>1. PICK state \in {"eShotsNone", "eShotsWaitingStart", "eShotsWaitingEnd"} :
        state = "eShotsWaitingEnd"
  OBVIOUS
<1>2. t = [s EXCEPT !.shotsState = state]
  BY <1>1 DEF ShotsStarted
<1>3. t \in TurnsState /\ Rest(t) = Rest(s)
  BY <1>2, ShotsStateIs
<1>4. ASSUME NEW ahead \in Seq(SimAction), s \in Turns(tk, ahead, away)
      PROVE  t \in Turns(tk, ahead, away)
  BY <1>2, <1>4, TurnsShotsState
<1>5. t.deserted = away
  BY <1>3 DEF Rest
<1> QED
  BY <1>3, <1>4, <1>5 DEF TurnsKept

\* What the server's own players do with a move.
Answered(w, a, answers, thinking) ==
    LET p == a.player
    IN  IF p \notin Alive(w.tank) \/ ~HasAI(w.turns, p) THEN w.turns
        ELSE IF answers[p] = "batteries" /\ ~a.again
        THEN AddSimulatorAction(w.turns, StartAgain(p, a.move))
        ELSE MoveFinished(w.turns, w.tank,
                          [player |-> p, move |-> a.move,
                           type |-> IF p \in Computer THEN "eShot" ELSE "eSkip"],
                          thinking[p])

\* Those that the server plays for think for some time.
Thinks(a, thinking, away) ==
    a.kind = "start" /\ a.player \in Computer \cup away => thinking[a.player] \in Nat

LEMMA KeptAnswered ==
    ASSUME NEW away, NEW w \in WorldsOf(away), NEW a \in SimAction, a.kind = "start",
           NEW answers, NEW thinking, Thinks(a, thinking, away)
    PROVE  TurnsKept(w.turns, Answered(w, a, answers, thinking), w.tank, away)
<1>1. PICK s \in TurnsState : s = w.turns /\ s.deserted = away
  <2>1. w \in WorldState /\ w.turns.deserted = away
    BY DEF WorldsOf
  <2>2. w.turns \in TurnsState
    BY <2>1, WorldFields
  <2> QED
    BY <2>1, <2>2
<1>2. PICK tk : tk = w.tank
  OBVIOUS
<1>3. PICK p \in Tankets : p = a.player
  BY StartFields
<1>4. PICK move \in MoveIds : move = a.move
  BY StartFields
<1>5. PICK t : t = Answered(w, a, answers, thinking)
  OBVIOUS
<1>6. CASE p \notin Alive(tk) \/ ~HasAI(s, p)
  <2>1. t = s
    BY <1>1, <1>2, <1>3, <1>5, <1>6 DEF Answered
  <2> QED
    BY <1>1, <1>2, <1>5, <2>1 DEF TurnsKept
<1>7. CASE p \in Alive(tk) /\ HasAI(s, p) /\ answers[p] = "batteries" /\ ~a.again
  <2>1. PICK b \in SimAction : b = StartAgain(p, move) /\ b.kind # "shots"
    <3>1. StartAgain(p, move) \in SimAction
      BY ActionTypes
    <3>2. StartAgain(p, move).kind # "shots"
      BY DEF StartAgain
    <3> QED
      BY <3>1, <3>2
  <2>2. t = AddSimulatorAction(s, b)
    BY <1>1, <1>2, <1>3, <1>4, <1>5, <1>7, <2>1 DEF Answered
  <2>3. TurnsKept(s, t, tk, away)
    BY <1>1, <2>1, <2>2, KeptAdd
  <2> QED
    BY <1>1, <1>2, <1>5, <2>3
<1>8. CASE p \in Alive(tk) /\ HasAI(s, p) /\ ~(answers[p] = "batteries" /\ ~a.again)
  <2>1. PICK time \in Nat : time = thinking[p]
    BY <1>1, <1>3, <1>8 DEF Thinks, HasAI
  <2>2. PICK type \in {"eShot", "eSkip"} : type = IF p \in Computer THEN "eShot" ELSE "eSkip"
    OBVIOUS
  <2>3. PICK m : m = [player |-> p, move |-> move, type |-> type]
    OBVIOUS
  <2>4. m \in Message /\ m.move # 0
    BY <2>3 DEF Message, MoveIds
  <2>5. t = MoveFinished(s, tk, m, time)
    BY <1>1, <1>2, <1>3, <1>4, <1>5, <1>8, <2>1, <2>2, <2>3 DEF Answered
  <2>6. TurnsKept(s, t, tk, away)
    BY <1>1, <2>4, <2>5, KeptFinished
  <2> QED
    BY <1>1, <1>2, <1>5, <2>6
<1> QED
  BY <1>6, <1>7, <1>8

LEMMA KeptStart ==
    ASSUME NEW away, NEW w \in WorldsOf(away), NEW a \in SimAction, a.kind = "start",
           NEW answers, NEW thinking, Thinks(a, thinking, away)
    PROVE  Kept(w, InvokeStart(w, a, answers, thinking), away)
<1>1. /\ w \in WorldState /\ w.turns \in TurnsState /\ w.turns.deserted = away
      /\ w.clientMove \in [Tankets -> Nat]
  BY WorldFields DEF WorldsOf
<1>2. PICK p \in Tankets : p = a.player
  BY StartFields
<1>3. PICK answered : answered = Answered(w, a, answers, thinking)
  OBVIOUS
<1>4. TurnsKept(w.turns, answered, w.tank, away)
  BY <1>3, KeptAnswered
<1>5. PICK started : started = MoveStarted(answered, p)
  OBVIOUS
<1>6. TurnsKept(answered, started, w.tank, away)
  <2>1. answered \in TurnsState /\ answered.deserted = away
    BY <1>4 DEF TurnsKept
  <2>2. PICK tk : tk = w.tank
    OBVIOUS
  <2>3. TurnsKept(answered, started, tk, away)
    BY <1>5, <2>1, KeptStarted
  <2> QED
    BY <2>2, <2>3
<1>7. TurnsKept(w.turns, started, w.tank, away)
  BY <1>4, <1>6, KeptTwice
<1>8. PICK t : t = IF a.timed THEN started ELSE answered
  OBVIOUS
<1>9. TurnsKept(w.turns, t, w.tank, away)
  BY <1>4, <1>7, <1>8
<1>10. PICK ids \in [Tankets -> Nat] :
         ids = [w.clientMove EXCEPT ![p] = IF clientTank[p] = "sNormal" THEN a.move ELSE @]
  <2>1. a.move \in Nat
    BY StartFields DEF MoveIds
  <2>2. PICK old \in [Tankets -> Nat] : old = w.clientMove
    BY <1>1
  <2>3. [old EXCEPT ![p] = IF clientTank[p] = "sNormal" THEN a.move ELSE @] \in [Tankets -> Nat]
    BY <2>1
  <2> QED
    BY <2>2, <2>3
<1>11. PICK u : u = [w EXCEPT !.turns = t, !.clientMove = ids]
  OBVIOUS
<1>12. InvokeStart(w, a, answers, thinking) = u
  BY <1>2, <1>3, <1>5, <1>8, <1>10, <1>11 DEF InvokeStart, Answered
<1>13. t \in TurnsState /\ t.deserted = away
  BY <1>9 DEF TurnsKept
<1>14. \A ahead \in Seq(SimAction) :
           w.turns \in Turns(w.tank, ahead, away) => t \in Turns(w.tank, ahead, away)
  BY <1>9 DEF TurnsKept
<1>15. Kept(w, u, away)
  BY <1>11, <1>13, <1>14, WorldKept
<1> QED
  BY <1>12, <1>15

LEMMA KeptStop ==
    ASSUME NEW away, NEW w \in WorldsOf(away), NEW a \in SimAction, a.kind = "stop"
    PROVE  Kept(w, InvokeStop(w, a), away)
<1>1. /\ w \in WorldState /\ w.turns \in TurnsState /\ w.turns.deserted = away
      /\ w.clientMove \in [Tankets -> Nat]
  BY WorldFields DEF WorldsOf
<1>2. PICK p \in Tankets : p = a.player
  <2>1. a.player \in Tankets
    BY DEF SimAction, NextTurn
  <2> QED
    BY <2>1
<1>3. PICK ids \in [Tankets -> Nat] :
         ids = [w.clientMove EXCEPT ![p] = IF clientTank[p] = "gone" THEN @ ELSE 0]
  <2>1. PICK old \in [Tankets -> Nat] : old = w.clientMove
    BY <1>1
  <2>2. [old EXCEPT ![p] = IF clientTank[p] = "gone" THEN @ ELSE 0] \in [Tankets -> Nat]
    OBVIOUS
  <2> QED
    BY <2>1, <2>2
<1>4. PICK t \in TurnsState : t = w.turns
  BY <1>1
<1>5. PICK u : u = [w EXCEPT !.turns = t, !.clientMove = ids]
  OBVIOUS
<1>6. InvokeStop(w, a) = u
  BY <1>1, <1>2, <1>3, <1>4, <1>5 DEF InvokeStop, WorldState
<1>7. \A ahead \in Seq(SimAction) :
           w.turns \in Turns(w.tank, ahead, away) => t \in Turns(w.tank, ahead, away)
  BY <1>4
<1>8. Kept(w, u, away)
  BY <1>1, <1>4, <1>5, <1>7, WorldKept
<1> QED
  BY <1>6, <1>8


\* A step that changes all but the clients' moves.
IsWorldOf(u, t, tk, lv, inFlight) ==
    u \in WorldState /\ u.turns = t /\ u.tank = tk /\ u.lives = lv /\ u.flying = inFlight

LEMMA WorldOf ==
    ASSUME NEW w \in WorldState, NEW t \in TurnsState, NEW tk \in [Tankets -> TankStates],
           NEW lv \in [Tankets -> 0 .. Lives], NEW missed \in [Tankets -> Nat],
           NEW inFlight \in SUBSET Flights,
           NEW u, u = [w EXCEPT !.flying = inFlight, !.missedMoves = missed, !.tank = tk,
                                !.lives = lv, !.turns = t]
    PROVE  IsWorldOf(u, t, tk, lv, inFlight)
BY DEF WorldState, IsWorldOf

\* The tanks that are out of the game for their missed moves were alive.
LEMMA OutAlive ==
    ASSUME NEW tk, NEW missed, NEW moves, \A m \in moves : m.player \in Alive(tk)
    PROVE  MissedTooMany(missed, moves) \subseteq Alive(tk)
BY DEF MissedTooMany

\* Those become spectators, and shots are fired.
AreOut(tk, lv, tk2, lv2, out) ==
    /\ out \subseteq Alive(tk)
    /\ tk2 = [p \in Tankets |-> IF p \in out THEN "sSpectator" ELSE tk[p]]
    /\ lv2 = [p \in Tankets |-> IF p \in out THEN 0 ELSE lv[p]]

NoRevival(inFlight, inFlight2) ==
    \A x \in Revivals, p \in Tankets : <<x, p>> \in inFlight2 => <<x, p>> \in inFlight

LEMMA LivesOut ==
    ASSUME NEW tk, NEW lv, NEW inFlight, LivesFit(tk, lv, inFlight),
           NEW tk2, NEW lv2, NEW out, AreOut(tk, lv, tk2, lv2, out),
           NEW inFlight2, NoRevival(inFlight, inFlight2)
    PROVE  LivesFit(tk2, lv2, inFlight2)
<1> USE DEF AreOut, NoRevival
<1>1. ASSUME NEW p \in Tankets, tk2[p] = "sNormal" PROVE lv2[p] > 0
  BY <1>1 DEF LivesFit
<1>2. ASSUME NEW p \in Tankets, NEW x \in Revivals, <<x, p>> \in inFlight2
      PROVE  tk2[p] # "sNormal" /\ (tk2[p] = "sDead" => lv2[p] > 0)
  <2>1. tk[p] # "sNormal" /\ (tk[p] = "sDead" => lv[p] > 0)
    BY <1>2 DEF LivesFit
  <2>2. p \notin out
    BY <2>1 DEF Alive
  <2> QED
    BY <2>1, <2>2
<1>3. ASSUME NEW p \in Tankets, NEW x \in Revivals, NEW y \in Revivals,
             <<x, p>> \in inFlight2, <<y, p>> \in inFlight2
      PROVE  x = y
  BY <1>3 DEF LivesFit
<1> QED
  BY <1>1, <1>2, <1>3 DEF LivesFit

LEMMA KeptShots ==
    ASSUME NEW away, NEW w \in WorldsOf(away), NEW a \in SimAction, a.kind = "shots"
    PROVE  Kept(w, InvokeShots(w, a), away)
<1>1. w \in WorldState /\ w.turns.deserted = away
  BY DEF WorldsOf
<1>2. /\ w.turns \in TurnsState /\ w.tank \in [Tankets -> TankStates]
      /\ w.lives \in [Tankets -> 0 .. Lives] /\ w.missedMoves \in [Tankets -> Nat]
      /\ w.flying \in SUBSET Flights
  BY <1>1, WorldFields
<1> DEFINE moves == {m \in a.moves : m.player \in Alive(w.tank)}
           out == IF a.timeOut THEN MissedTooMany(w.missedMoves, moves) ELSE {}
           missed(p) == \E m \in moves : m.player = p /\ m.type = "eTimeout" /\ a.timeOut
           answered(p) == ~missed(p) /\ \E m \in moves : m.player = p
           fired == {<<"shot", m.player>> :
                     m \in {n \in moves : n.type = "eShot" /\ a.referenced}}
           counted == [p \in Tankets |->
                IF missed(p) /\ AllowedMissed > 0 THEN w.missedMoves[p] + 1
                ELSE IF answered(p) THEN 0 ELSE w.missedMoves[p]]
<1>3. out \subseteq Alive(w.tank)
  BY OutAlive
<1>4. PICK inFlight \in SUBSET Flights : inFlight = w.flying \cup fired
  <2>1. \A m \in a.moves : m.player \in Tankets
    BY DEF SimAction, Message, NextTurn
  <2>2. fired \in SUBSET Flights
    BY <2>1 DEF Flights
  <2> QED
    BY <1>2, <2>2
<1>5. \A x \in Revivals, p \in Tankets : <<x, p>> \in inFlight => <<x, p>> \in w.flying
  BY <1>4 DEF Revivals, Reviving
<1> HIDE DEF missed, answered
<1>6. PICK mm \in [Tankets -> Nat] : mm = counted
  <2>1. PICK before \in [Tankets -> Nat] : before = w.missedMoves
    BY <1>2
  <2>2. \A p \in Tankets : before[p] + 1 \in Nat
    OBVIOUS
  <2>3. counted \in [Tankets -> Nat]
    BY <2>1, <2>2
  <2> QED
    BY <2>3
<1>7. PICK tk \in [Tankets -> TankStates] :
        tk = [p \in Tankets |-> IF p \in out THEN "sSpectator" ELSE w.tank[p]]
  BY <1>2 DEF TankStates
<1>8. PICK lv \in [Tankets -> 0 .. Lives] :
        lv = [p \in Tankets |-> IF p \in out THEN 0 ELSE w.lives[p]]
  <2>1. 0 \in 0 .. Lives
    BY OptionsAssumption
  <2> QED
    BY <1>2, <2>1
<1>9. PICK t : t = IF WaitForShots THEN ShotsStarted(w.turns) ELSE w.turns
  OBVIOUS
<1>10. TurnsKept(w.turns, t, w.tank, away)
  <2>1. CASE WaitForShots
    BY <1>1, <1>2, <1>9, <2>1, KeptShotsStarted
  <2>2. CASE ~WaitForShots
    BY <1>1, <1>2, <1>9, <2>2 DEF TurnsKept
  <2> QED
    BY <2>1, <2>2
<1>11. PICK u : u = [w EXCEPT !.flying = inFlight, !.missedMoves = mm, !.tank = tk,
                              !.lives = lv, !.turns = t]
  OBVIOUS
<1>12. InvokeShots(w, a) = u
  BY <1>4, <1>6, <1>7, <1>8, <1>9, <1>11 DEF InvokeShots, missed, answered
<1>13. t \in TurnsState /\ t.deserted = away
  BY <1>10 DEF TurnsKept
<1>14. /\ u \in WorldState /\ u.turns = t /\ u.tank = tk /\ u.lives = lv
       /\ u.flying = inFlight
  <2>1. IsWorldOf(u, t, tk, lv, inFlight)
    BY <1>1, <1>11, <1>13, WorldOf
  <2> QED
    BY <2>1 DEF IsWorldOf
<1>15. u \in WorldsOf(away)
  BY <1>13, <1>14 DEF WorldsOf
<1>16. TakeTurns(tk) \subseteq TakeTurns(w.tank)
  BY <1>3, <1>7 DEF TakeTurns, Present, Alive
<1> HIDE DEF out
<1>17. ASSUME NEW ahead \in Seq(SimAction), w \in Worlds(ahead, away)
       PROVE  u \in Worlds(ahead, away)
  <2>1. w.turns \in Turns(w.tank, ahead, away) /\ LivesFit(w.tank, w.lives, w.flying)
    BY <1>17 DEF Worlds
  <2>2. t \in Turns(w.tank, ahead, away)
    BY <1>10, <2>1 DEF TurnsKept
  <2>3. t \in Turns(tk, ahead, away)
    BY <1>16, <2>2, TurnsTank
  <2>4. LivesFit(tk, lv, inFlight)
    <3>1. AreOut(w.tank, w.lives, tk, lv, out)
      BY <1>3, <1>7, <1>8 DEF AreOut
    <3>2. NoRevival(w.flying, inFlight)
      BY <1>5 DEF NoRevival
    <3> QED
      BY <2>1, <3>1, <3>2, LivesOut
  <2> QED
    BY <1>14, <2>3, <2>4 DEF Worlds
<1> QED
  BY <1>12, <1>15, <1>17 DEF Kept

\* What is called back when an action is applied.
LEMMA KeptInvoke ==
    ASSUME NEW away, NEW w \in WorldsOf(away), NEW a \in SimAction,
           NEW answers, NEW thinking, Thinks(a, thinking, away)
    PROVE  Kept(w, Invoke(w, a, answers, thinking), away)
<1>1. CASE a.kind = "start"
  <2>1. Kept(w, InvokeStart(w, a, answers, thinking), away)
    BY <1>1, KeptStart
  <2> QED
    BY <1>1, <2>1 DEF Invoke
<1>2. CASE a.kind = "stop"
  <2>1. Kept(w, InvokeStop(w, a), away)
    BY <1>2, KeptStop
  <2> QED
    BY <1>2, <2>1 DEF Invoke
<1>3. CASE a.kind = "shots"
  <2>1. Kept(w, InvokeShots(w, a), away)
    BY <1>3, KeptShots
  <2> QED
    BY <1>3, <2>1 DEF Invoke
<1>4. CASE a.kind \notin {"start", "stop", "shots"}
  <2>1. Invoke(w, a, answers, thinking) = w
    BY <1>4 DEF Invoke
  <2>2. Kept(w, w, away)
    BY DEF Kept
  <2> QED
    BY <2>1, <2>2
<1> QED
  BY <1>1, <1>2, <1>3, <1>4


LEMMA WorldsOfAway ==
    ASSUME NEW ahead, NEW away, NEW w \in Worlds(ahead, away)
    PROVE  w \in WorldsOf(away)
BY DEF Worlds, WorldsOf, Turns

LEMMA WorldsTail ==
    ASSUME NEW away, NEW r \in Seq(SimAction), NEW i \in 1 .. Len(r),
           NEW k, IsLeft(k, r, i - 1), NEW l, IsLeft(l, r, i), NEW w \in Worlds(k, away)
    PROVE  w \in Worlds(l, away)
<1>1. w.turns \in Turns(w.tank, k, away)
  BY DEF Worlds
<1>2. w.turns \in Turns(w.tank, l, away)
  BY <1>1, TurnsTail
<1> QED
  BY <1>2 DEF Worlds

LEMMA LeftAtStart ==
    ASSUME NEW r \in Seq(SimAction), NEW l, IsLeft(l, r, 0)
    PROVE  l = r
<1>1. /\ l \in Seq(SimAction) /\ Len(l) \in Nat /\ Len(r) \in Nat /\ Len(l) = Len(r)
      /\ \A j \in 1 .. Len(l) : l[j] = r[j]
  BY DEF IsLeft
<1> QED
  BY <1>1, SeqEqual

LEMMA LeftAtEnd ==
    ASSUME NEW q \in Seq(SimAction), NEW more \in Seq(SimAction)
    PROVE  IsLeft(more, q \o more, Len(q))
<1>1. /\ Len(q \o more) = Len(q) + Len(more) /\ Len(q) \in Nat /\ Len(more) \in Nat
      /\ \A j \in 1 .. Len(more) : (q \o more)[Len(q) + j] = more[j]
  BY ConcatProperties
<1> QED
  BY <1>1 DEF IsLeft

\* What the actions of the queue q make of w, one after the other.
Applied(f, w, q, answers, thinking) ==
    f[0] = w /\ \A i \in 1 .. Len(q) : f[i] = Invoke(f[i - 1], q[i], answers, thinking)

LEMMA InvokeLoop ==
    ASSUME NEW away, NEW q \in Seq(SimAction), NEW w \in WorldsOf(away), NEW answers, NEW thinking,
           \A i \in 1 .. Len(q) : Thinks(q[i], thinking, away)
    PROVE  \E f : /\ Applied(f, w, q, answers, thinking)
                  /\ \A i \in 0 .. Len(q) : f[i] \in WorldsOf(away)
                  /\ InvokeAll(w, q, answers, thinking) = f[Len(q)]
<1> DEFINE step == [x \in WorldsOf(away) \X (1 .. Len(q)) |->
                     Invoke(x[1], q[x[2]], answers, thinking)]
<1>1. ASSUME NEW x \in WorldsOf(away), NEW i \in 1 .. Len(q)
      PROVE  Kept(x, Invoke(x, q[i], answers, thinking), away)
  <2>1. PICK a \in SimAction : a = q[i]
    OBVIOUS
  <2>2. Thinks(a, thinking, away)
    BY <2>1
  <2>3. Kept(x, Invoke(x, a, answers, thinking), away)
    BY <2>2, KeptInvoke
  <2> QED
    BY <2>1, <2>3
<1>2. \A x \in WorldsOf(away), i \in 1 .. Len(q) :
          Invoke(x, q[i], answers, thinking) \in WorldsOf(away)
  BY <1>1 DEF Kept
<1>3. step \in [WorldsOf(away) \X (1 .. Len(q)) -> WorldsOf(away)]
  BY <1>2
<1>4. \A x \in WorldsOf(away), i \in 1 .. Len(q) :
          step[<<x, i>>] = Invoke(x, q[i], answers, thinking)
  OBVIOUS
<1> HIDE DEF step
<1>5. Len(q) \in Nat
  OBVIOUS
<1>6. PICK f \in [0 .. Len(q) -> WorldsOf(away)] : IsLoop(f, Len(q), w, step)
  BY <1>3, <1>5, LoopDefined
<1>7. ASSUME NEW i \in 0 .. Len(q), i # 0
      PROVE  step[<<f[i - 1], i>>] = Invoke(f[i - 1], q[i], answers, thinking)
  <2>1. i \in 1 .. Len(q) /\ i - 1 \in 0 .. Len(q)
    BY <1>5, <1>7
  <2>2. f[i - 1] \in WorldsOf(away)
    BY <2>1
  <2> QED
    BY <1>4, <2>1, <2>2
<1>8. f = [i \in 0 .. Len(q) |->
            IF i = 0 THEN w ELSE Invoke(f[i - 1], q[i], answers, thinking)]
  BY <1>6, <1>7 DEF IsLoop
<1> DEFINE after == CHOOSE g : g = [i \in 0 .. Len(q) |->
            IF i = 0 THEN w ELSE Invoke(g[i - 1], q[i], answers, thinking)]
<1>9. after = [i \in 0 .. Len(q) |->
            IF i = 0 THEN w ELSE Invoke(after[i - 1], q[i], answers, thinking)]
  BY <1>8, Zenon
<1>10. InvokeAll(w, q, answers, thinking) = after[Len(q)]
  BY Zenon DEF InvokeAll
<1> HIDE DEF after
<1>11. /\ after[0] = w
       /\ \A i \in 1 .. Len(q) : after[i] = Invoke(after[i - 1], q[i], answers, thinking)
  <2>1. 0 \in 0 .. Len(q) /\ \A i \in 1 .. Len(q) : i \in 0 .. Len(q) /\ i # 0
    BY <1>5
  <2> QED
    BY <1>9, <2>1, Zenon
<1>12. \A i \in 1 .. Len(q) : after[i - 1] \in WorldsOf(away) => after[i] \in WorldsOf(away)
  BY <1>2, <1>11
<1>13. \A i \in 0 .. Len(q) : after[i] \in WorldsOf(away)
  BY <1>5, <1>11, <1>12, LoopKeeps
<1> QED
  BY <1>10, <1>11, <1>13 DEF Applied

\* The queue q is applied; what was appended to "more" and what the call backs
\* append are still to be applied.
LEMMA AppliedAll ==
    ASSUME NEW away, NEW q \in Seq(SimAction), NEW more \in Seq(SimAction),
           NEW w \in Worlds(q \o more, away), NEW answers, NEW thinking,
           \A i \in 1 .. Len(q) : Thinks(q[i], thinking, away)
    PROVE  InvokeAll(w, q, answers, thinking) \in Worlds(more, away)
<1>1. \A i \in 1 .. Len(q) : q[i] \in SimAction /\ Thinks(q[i], thinking, away)
  OBVIOUS
<1>2. Len(q) \in Nat /\ w \in WorldsOf(away)
  BY WorldsOfAway
<1>3. PICK after : /\ Applied(after, w, q, answers, thinking)
                   /\ \A i \in 0 .. Len(q) : after[i] \in WorldsOf(away)
                   /\ InvokeAll(w, q, answers, thinking) = after[Len(q)]
  BY <1>2, InvokeLoop
<1>4. ASSUME NEW x \in WorldsOf(away), NEW i \in 1 .. Len(q)
      PROVE  Kept(x, Invoke(x, q[i], answers, thinking), away)
  <2>1. PICK a \in SimAction : a = q[i] /\ Thinks(a, thinking, away)
    BY <1>1
  <2>2. Kept(x, Invoke(x, a, answers, thinking), away)
    BY <2>1, KeptInvoke
  <2> QED
    BY <2>1, <2>2
<1>5. /\ after[0] = w
      /\ \A i \in 1 .. Len(q) : after[i] = Invoke(after[i - 1], q[i], answers, thinking)
  BY <1>3 DEF Applied
<1>6. PICK r \in Seq(SimAction) : r = q \o more /\ Len(q) <= Len(r)
  <2>1. q \o more \in Seq(SimAction) /\ Len(q \o more) = Len(q) + Len(more) /\ Len(more) \in Nat
    BY ConcatProperties
  <2>2. Len(q) <= Len(q \o more)
    BY <1>2, <2>1
  <2> QED
    BY <2>1, <2>2
<1> DEFINE U == {i \in 0 .. Len(q) : /\ after[i] \in WorldsOf(away)
                                     /\ \A l : IsLeft(l, r, i) => after[i] \in Worlds(l, away)}
<1>7. 0 \in U
  <2>1. ASSUME NEW l, IsLeft(l, r, 0) PROVE after[0] \in Worlds(l, away)
    <3>1. l = r
      BY <2>1, LeftAtStart
    <3> QED
      BY <1>5, <1>6, <3>1
  <2>2. 0 \in 0 .. Len(q) /\ after[0] \in WorldsOf(away)
    BY <1>2, <1>5
  <2> QED
    BY <2>1, <2>2
<1>8. ASSUME NEW i \in 1 .. Len(q), i - 1 \in U PROVE i \in U
  <2>1. i \in 1 .. Len(r) /\ i - 1 \in 0 .. Len(r) /\ i \in 0 .. Len(q)
    BY <1>2, <1>6
  <2>2. PICK x \in WorldsOf(away) : x = after[i - 1]
    BY <1>8
  <2>3. PICK y : y = after[i]
    OBVIOUS
  <2>4. Kept(x, y, away)
    BY <1>4, <1>5, <2>2, <2>3
  <2>5. PICK k : IsLeft(k, r, i - 1)
    BY <2>1, LeftExists
  <2>6. x \in Worlds(k, away) /\ k \in Seq(SimAction)
    BY <1>8, <2>2, <2>5 DEF IsLeft
  <2>7. y \in Worlds(k, away) /\ y \in WorldsOf(away)
    BY <2>4, <2>6 DEF Kept
  <2>8. ASSUME NEW l, IsLeft(l, r, i) PROVE y \in Worlds(l, away)
    BY <2>1, <2>5, <2>7, <2>8, WorldsTail
  <2> QED
    BY <2>1, <2>3, <2>7, <2>8
<1> HIDE DEF U
<1>9. \A i \in 0 .. Len(q) : i \in U
  BY <1>2, <1>7, <1>8, UpTo
<1>10. Len(q) \in U
  BY <1>2, <1>9
<1>11. IsLeft(more, r, Len(q))
  BY <1>6, LeftAtEnd
<1> QED
  BY <1>3, <1>10, <1>11 DEF U


-----------------------------------------------------------------------------
(* The invariant of the turns.                                              *)

TurnsInv == turns \in Turns(tank, sent, turns.deserted)

IInv == TypeOK /\ TurnsInv /\ LivesFit(tank, lives, flying)

LEMMA TurnsAre ==
    ASSUME NEW tk, NEW ahead, NEW away, NEW s \in Turns(tk, ahead, away)
    PROVE  s \in TurnsState /\ s.deserted = away
BY DEF Turns

\* The actions of the interval are sent.
LEMMA TurnsSent ==
    ASSUME NEW tk, NEW ahead \in Seq(SimAction), NEW away, NEW s \in Turns(tk, ahead, away),
           NEW t, t = [s EXCEPT !.sendActions = <<>>]
    PROVE  t \in Turns(tk, ahead \o s.sendActions, away)
<1>1. s \in TurnsState
  BY DEF Turns
<1>2. /\ t \in TurnsState /\ t.sendActions = <<>>
      /\ t.playingPlayers = s.playingPlayers /\ t.timedPlayers = s.timedPlayers
      /\ t.moveId = s.moveId /\ t.nextMoveId = s.nextMoveId
      /\ Rest(t) = Rest(s)
  <2>1. PICK none \in Seq(SimAction) : none = <<>>
    <3>1. <<>> \in Seq(SimAction)
      OBVIOUS
    <3> QED
      BY <3>1
  <2>2. t = [s EXCEPT !.sendActions = none]
    BY <2>1
  <2> QED
    BY <1>1, <2>1, <2>2 DEF TurnsState, Rest
<1>3. PICK q \in Seq(SimAction) : q = ahead \o s.sendActions
  <2>1. s.sendActions \in Seq(SimAction)
    BY <1>1, StateFields
  <2>2. ahead \o s.sendActions \in Seq(SimAction)
    BY <2>1, ConcatProperties
  <2> QED
    BY <2>2
<1>4. q \o <<>> = q
  OBVIOUS
<1>5. Common(s, ahead)
  BY DEF Turns
<1>6. Ids(s, q)
  BY <1>3, <1>5 DEF Common
<1>7. Ids(t, q)
  BY <1>2, <1>6 DEF Ids, Before, Rest
<1>8. Timers(t)
  BY <1>2, <1>5 DEF Common, Timers
<1>9. Common(t, q)
  BY <1>2, <1>4, <1>7, <1>8 DEF Common
<1>10. OnlyPlaying(t, tk) /\ Waits(t) /\ OneEach(t, tk) /\ Collects(t) /\ t.deserted = away
  BY <1>2 DEF Turns, OnlyPlaying, Waits, OneEach, Collects, DestinationOf, Rest
<1> QED
  BY <1>2, <1>3, <1>9, <1>10 DEF Turns

\* A player left.
LEMMA TurnsLeave ==
    ASSUME NEW tk, NEW ahead \in Seq(SimAction), NEW away, NEW s \in Turns(tk, ahead, away),
           NEW gone \in SUBSET Tankets, s.deserted \subseteq gone,
           NEW t, t = [s EXCEPT !.deserted = gone]
    PROVE  t \in Turns(tk, ahead, gone)
<1>1. s \in TurnsState
  BY DEF Turns
<1>2. /\ t \in TurnsState /\ t.deserted = gone
      /\ t.playingPlayers = s.playingPlayers /\ t.timedPlayers = s.timedPlayers
      /\ t.moveId = s.moveId /\ t.nextMoveId = s.nextMoveId /\ t.moves = s.moves
      /\ t.sendActions = s.sendActions
      /\ t.playingPlayer = s.playingPlayer /\ t.waitingPlayers = s.waitingPlayers
  BY <1>1 DEF TurnsState
<1>3. Common(s, ahead)
  BY DEF Turns
<1>4. Ids(t, ahead \o t.sendActions)
  <2>1. PICK q : q = ahead \o s.sendActions
    OBVIOUS
  <2>2. Ids(s, q)
    BY <1>3, <2>1 DEF Common
  <2>3. Ids(t, q)
    BY <1>2, <2>2 DEF Ids, Before
  <2> QED
    BY <1>2, <2>1, <2>3
<1>5. Timers(t)
  BY <1>2, <1>3 DEF Common, Timers
<1>6. Common(t, ahead)
  BY <1>2, <1>4, <1>5 DEF Common
<1>7. OnlyPlaying(t, tk) /\ Waits(t) /\ Collects(t)
  BY <1>2 DEF Turns, OnlyPlaying, Waits, Collects
<1>8. \A q \in Tankets : DestinationOf(t, q) \in {0, DestinationOf(s, q)}
  BY <1>2 DEF DestinationOf
<1>9. TakeTurns(tk) \subseteq Tankets
  BY DEF TakeTurns, Present
<1>10. OneEach(t, tk)
  <2> SUFFICES ASSUME Discipline # "Sequential", NEW x \in TakeTurns(tk), NEW y \in TakeTurns(tk),
                      DestinationOf(t, x) = DestinationOf(t, y), DestinationOf(t, x) # 0,
                      t.moveId[x] # 0, t.moveId[y] # 0
               PROVE  x = y
    BY DEF OneEach
  <2>1. DestinationOf(s, x) = DestinationOf(s, y) /\ DestinationOf(s, x) # 0
    BY <1>8, <1>9
  <2>2. s.moveId[x] # 0 /\ s.moveId[y] # 0
    BY <1>2
  <2> QED
    BY <2>1, <2>2 DEF Turns, OneEach
<1> QED
  BY <1>2, <1>6, <1>7, <1>10 DEF Turns

LEMMA LivesLess ==
    ASSUME NEW tk, NEW lv, NEW inFlight, LivesFit(tk, lv, inFlight), NEW inFlight2,
           NoRevival(inFlight, inFlight2)
    PROVE  LivesFit(tk, lv, inFlight2)
BY DEF LivesFit, NoRevival

\* A Resurrection goes on.
LEMMA LivesInterval ==
    ASSUME NEW tk, NEW lv, NEW inFlight \in SUBSET Flights, LivesFit(tk, lv, inFlight)
    PROVE  LivesFit(tk, lv, {AfterInterval(f) : f \in inFlight})
<1>1. ASSUME NEW x \in Revivals, NEW p \in Tankets, <<x, p>> \in {AfterInterval(f) : f \in inFlight}
      PROVE  \E y \in Revivals : <<y, p>> \in inFlight /\ <<x, p>> = AfterInterval(<<y, p>>)
  <2>1. PICK f \in inFlight : <<x, p>> = AfterInterval(f)
    BY <1>1
  <2>2. PICK y \in {"shot", "rez"} \cup Reviving, q \in Tankets : f = <<y, q>>
    <3>1. f \in Flights
      OBVIOUS
    <3>2. f[1] \in {"shot", "rez"} \cup Reviving /\ f[2] \in Tankets /\ f = <<f[1], f[2]>>
      BY <3>1 DEF Flights
    <3> QED
      BY <3>2
  <2>3. q = p /\ y \in Revivals
    BY <2>1, <2>2 DEF AfterInterval, Revivals, Reviving
  <2> QED
    BY <2>1, <2>2, <2>3
<1>2. ASSUME NEW p \in Tankets, NEW x \in Revivals, <<x, p>> \in {AfterInterval(f) : f \in inFlight}
      PROVE  tk[p] # "sNormal" /\ (tk[p] = "sDead" => lv[p] > 0)
  BY <1>1, <1>2 DEF LivesFit
<1>3. ASSUME NEW p \in Tankets, NEW x \in Revivals, NEW y \in Revivals,
             <<x, p>> \in {AfterInterval(f) : f \in inFlight},
             <<y, p>> \in {AfterInterval(f) : f \in inFlight}
      PROVE  x = y
  <2>1. PICK i \in Revivals : <<i, p>> \in inFlight /\ <<x, p>> = AfterInterval(<<i, p>>)
    BY <1>1, <1>3
  <2>2. PICK j \in Revivals : <<j, p>> \in inFlight /\ <<y, p>> = AfterInterval(<<j, p>>)
    BY <1>1, <1>3
  <2>3. i = j
    BY <2>1, <2>2 DEF LivesFit
  <2>4. <<x, p>> = <<y, p>>
    BY <2>1, <2>2, <2>3
  <2> QED
    BY <2>4
<1>4. \A p \in Tankets : tk[p] = "sNormal" => lv[p] > 0
  BY DEF LivesFit
<1> QED
  BY <1>2, <1>3, <1>4 DEF LivesFit

LEMMA WorldFrom ==
    ASSUME NEW t \in TurnsState, NEW tk \in [Tankets -> TankStates],
           NEW lv \in [Tankets -> 0 .. Lives], NEW missed \in [Tankets -> Nat],
           NEW inFlight \in SUBSET Flights, NEW ids \in [Tankets -> Nat]
    PROVE  IsWorldOf([turns |-> t, tank |-> tk, lives |-> lv, missedMoves |-> missed,
                      flying |-> inFlight, clientMove |-> ids], t, tk, lv, inFlight)
BY DEF WorldState, IsWorldOf

\* What the next interval begins with.
LEMMA WorldSent ==
    ASSUME IInv,
           NEW w, w = [World EXCEPT !.turns.sendActions = <<>>,
                                    !.flying = {AfterInterval(f) : f \in flying}]
    PROVE  w \in Worlds(sent \o turns.sendActions, turns.deserted)
<1>1. PICK t : t = [turns EXCEPT !.sendActions = <<>>]
  OBVIOUS
<1>2. PICK away : away = turns.deserted
  OBVIOUS
<1>3. t \in Turns(tank, sent \o turns.sendActions, away)
  <2>1. turns \in Turns(tank, sent, away) /\ sent \in Seq(SimAction)
    BY <1>2 DEF IInv, TurnsInv, TypeOK
  <2>2. PICK s, tk, ahead : s = turns /\ tk = tank /\ ahead = sent
    OBVIOUS
  <2>3. t \in Turns(tk, ahead \o s.sendActions, away)
    BY <1>1, <2>1, <2>2, TurnsSent
  <2> QED
    BY <2>2, <2>3
<1>4. {AfterInterval(f) : f \in flying} \in SUBSET Flights
  <2>1. \A f \in Flights : AfterInterval(f) \in Flights
    BY DEF AfterInterval, Flights, Reviving
  <2> QED
    BY <2>1 DEF IInv, TypeOK, Flights
<1>5. PICK inFlight \in SUBSET Flights : inFlight = {AfterInterval(f) : f \in flying}
  BY <1>4
<1>6. LivesFit(tank, lives, inFlight)
  BY <1>5, LivesInterval DEF IInv, TypeOK, Flights
<1>7. World = [turns |-> turns, tank |-> tank, lives |-> lives,
               missedMoves |-> missedMoves, flying |-> flying, clientMove |-> clientMove]
  BY DEF World
<1>8. w = [World EXCEPT !.turns = t, !.flying = inFlight]
  BY <1>1, <1>5, <1>7
<1>9. w = [turns |-> t, tank |-> tank, lives |-> lives,
           missedMoves |-> missedMoves, flying |-> inFlight, clientMove |-> clientMove]
  BY <1>7, <1>8
<1>10. t \in TurnsState
  BY <1>3 DEF Turns
<1>11. IsWorldOf(w, t, tank, lives, inFlight)
  <2>1. /\ tank \in [Tankets -> TankStates] /\ lives \in [Tankets -> 0 .. Lives]
        /\ missedMoves \in [Tankets -> Nat] /\ clientMove \in [Tankets -> Nat]
    BY DEF IInv, TypeOK
  <2>2. IsWorldOf([turns |-> t, tank |-> tank, lives |-> lives, missedMoves |-> missedMoves,
                   flying |-> inFlight, clientMove |-> clientMove], t, tank, lives, inFlight)
    BY <1>10, <2>1, WorldFrom
  <2> QED
    BY <1>9, <2>2
<1> QED
  BY <1>2, <1>3, <1>6, <1>11 DEF Worlds, IsWorldOf


LEMMA InitHolds ==
    ASSUME Init
    PROVE  IInv
<1>1. PICK order \in DrawnOrders(tank) : turns = EnterTurns(NewTurns, tank, order)
  BY DEF Init
<1>2. IsOrder(order)
  BY <1>1, OrdersAre
<1>3. NewTurns \in TurnsState
  <2>1. <<>> \in Seq(SimAction) /\ <<>> \in Seq(Tankets) /\ 0 \in 0 .. N
    BY TanketsAssumption
  <2>2. NoTimer \in Timer
    BY TimesAssumption DEF NoTimer, Timer
  <2> QED
    BY <2>1, <2>2 DEF NewTurns, TurnsState
<1>4. PICK s \in TurnsState : s = NewTurns
  BY <1>3
<1>5. /\ \A p \in Tankets \ NonNormal : s.moveId[p] <= s.nextMoveId
      /\ s.sendActions = <<>> /\ Collects(s) /\ s.deserted = {}
  BY <1>4 DEF NewTurns, Collects
<1>6. turns \in Turns(tank, <<>>, {})
  <2>1. turns = EnterTurns(s, tank, order)
    BY <1>1, <1>4
  <2>2. EnterTurns(s, tank, order) \in Turns(tank, <<>>, {})
    BY <1>2, <1>5, TurnsEnter
  <2> QED
    BY <2>1, <2>2
<1>7. turns \in TurnsState /\ turns.deserted = {}
  BY <1>6, TurnsAre
<1>8. TurnsInv
  BY <1>6, <1>7 DEF Init, TurnsInv
<1>9. LivesFit(tank, lives, flying)
  BY OptionsAssumption DEF Init, LivesFit
<1>10. TypeOK
  BY <1>7, OptionsAssumption, TurnBoundsAssumption DEF Init, TypeOK, TankStates
<1> QED
  BY <1>8, <1>9, <1>10 DEF IInv

\* A step that changes the turns, and what is told, only.
LEMMA TurnsStep ==
    ASSUME IInv, turns' \in Turns(tank, sent, turns'.deserted),
           UNCHANGED <<sent, tank, lives, missedMoves, flying, clientTank, clientMove, round>>,
           told' \in SUBSET (Humans \X MoveIds), elapsed' \in {0, 1}
    PROVE  IInv'
<1>1. turns' \in TurnsState
  BY TurnsAre
<1>2. TypeOK'
  BY <1>1 DEF IInv, TypeOK
<1>3. TurnsInv'
  BY DEF TurnsInv
<1>4. LivesFit(tank, lives, flying)'
  BY DEF IInv, LivesFit
<1> QED
  BY <1>2, <1>3, <1>4 DEF IInv

LEMMA TickHolds ==
    ASSUME IInv, Tick
    PROVE  IInv'
<1>1. PICK order \in OrdersNow : turns' = Simulate(turns, tank, flying, elapsed, order)
  BY DEF Tick
<1>2. IsOrder(order)
  <2>1. order \in DrawnOrders(tank) \cup {<<>>}
    BY <1>1 DEF OrdersNow
  <2> QED
    BY <2>1, OrdersAre
<1>3. PICK away : away = turns.deserted
  OBVIOUS
<1>4. turns \in Turns(tank, sent, away) /\ sent \in Seq(SimAction) /\ elapsed \in {0, 1}
  BY <1>3 DEF IInv, TurnsInv, TypeOK
<1>5. Simulate(turns, tank, flying, elapsed, order) \in Turns(tank, sent, away)
  BY <1>2, <1>4, TurnsSimulate
<1>6. turns' \in Turns(tank, sent, away)
  BY <1>1, <1>5
<1>7. turns'.deserted = away
  BY <1>6, TurnsAre
<1>8. turns' \in Turns(tank, sent, turns'.deserted)
  BY <1>6, <1>7
<1>9. told' \in SUBSET (Humans \X MoveIds) /\ elapsed' \in {0, 1}
  BY DEF IInv, TypeOK, Tick
<1> QED
  BY <1>8, <1>9, TurnsStep DEF Tick

LEMMA PlayedMoveHolds ==
    ASSUME IInv, NEW p \in Tankets, NEW move, NEW type \in {"eShot", "eSkip"},
           PlayedMove(p, move, type)
    PROVE  IInv'
<1>1. p \in Tankets /\ move \in MoveIds
  BY DEF PlayedMove, IInv, TypeOK
<1>2. PICK m : m = [player |-> p, move |-> move, type |-> type]
  OBVIOUS
<1>3. m \in Message /\ m.move # 0
  BY <1>1, <1>2 DEF Message, MoveIds
<1>4. PICK t : t = MoveFinished(turns, tank, m, 0)
  OBVIOUS
<1>5. PICK away : away = turns.deserted
  OBVIOUS
<1>6. turns \in Turns(tank, sent, away) /\ sent \in Seq(SimAction) /\ turns \in TurnsState
  BY <1>5 DEF IInv, TurnsInv, TypeOK
<1>7. TurnsKept(turns, t, tank, away)
  <2>1. 0 \in Nat
    OBVIOUS
  <2>2. PICK s \in TurnsState : s = turns
    BY <1>6
  <2>3. PICK tk : tk = tank
    OBVIOUS
  <2>4. PICK time \in Nat : time = 0
    BY <2>1
  <2>5. t = MoveFinished(s, tk, m, time) /\ s.deserted = away
    BY <1>4, <1>5, <2>2, <2>3, <2>4
  <2>6. TurnsKept(s, t, tk, away)
    BY <1>3, <2>5, KeptFinished
  <2> QED
    BY <2>2, <2>3, <2>6
<1>8. t \in Turns(tank, sent, away) /\ t.deserted = away
  BY <1>6, <1>7 DEF TurnsKept
<1>9. turns' = t
  BY <1>2, <1>4 DEF PlayedMove
<1>10. turns' \in Turns(tank, sent, turns'.deserted)
  BY <1>8, <1>9
<1>11. told' \in SUBSET (Humans \X MoveIds) /\ elapsed' \in {0, 1}
  BY DEF IInv, TypeOK, PlayedMove
<1> QED
  BY <1>10, <1>11, TurnsStep DEF PlayedMove

LEMMA LeaveHolds ==
    ASSUME IInv, NEW p \in Tankets, Leave(p)
    PROVE  IInv'
<1>1. turns \in TurnsState /\ sent \in Seq(SimAction)
  BY DEF IInv, TypeOK
<1>2. PICK s \in TurnsState, ahead \in Seq(SimAction) : s = turns /\ ahead = sent
  BY <1>1
<1>3. PICK away, tk : away = turns.deserted /\ tk = tank
  OBVIOUS
<1>4. s \in Turns(tk, ahead, away)
  BY <1>2, <1>3 DEF IInv, TurnsInv
<1>5. PICK gone \in SUBSET Tankets : gone = s.deserted \cup {p}
  BY StateFields
<1>6. PICK t : t = [s EXCEPT !.deserted = gone]
  OBVIOUS
<1>7. t \in Turns(tk, ahead, gone)
  <2>1. s.deserted \subseteq gone
    BY <1>5
  <2> QED
    BY <1>4, <1>6, <2>1, TurnsLeave
<1>8. turns' = t
  BY <1>2, <1>5, <1>6 DEF Leave
<1>9. turns' \in Turns(tank, sent, turns'.deserted)
  <2>1. t.deserted = gone
    BY <1>7, TurnsAre
  <2> QED
    BY <1>2, <1>3, <1>7, <1>8, <2>1
<1>10. told' \in SUBSET (Humans \X MoveIds) /\ elapsed' \in {0, 1}
  BY DEF IInv, TypeOK, Leave
<1> QED
  BY <1>9, <1>10, TurnsStep DEF Leave

\* A step of a tanket that leaves the turns alone.
LEMMA TanketStep ==
    ASSUME IInv, UNCHANGED <<turns, sent, missedMoves, told, clientMove, elapsed, round>>,
           tank' \in [Tankets -> TankStates], lives' \in [Tankets -> 0 .. Lives],
           flying' \in SUBSET Flights, clientTank' \in [Tankets -> TankStates],
           TakeTurns(tank') \subseteq TakeTurns(tank), LivesFit(tank', lives', flying')
    PROVE  IInv'
<1>1. TypeOK'
  BY DEF IInv, TypeOK, Flights
<1>2. PICK tk2 : tk2 = tank'
  OBVIOUS
<1>3. PICK away : away = turns.deserted
  OBVIOUS
<1>4. turns \in Turns(tank, sent, away)
  BY <1>3 DEF IInv, TurnsInv
<1>5. turns \in Turns(tk2, sent, away)
  BY <1>2, <1>4, TurnsTank
<1>6. TurnsInv'
  BY <1>2, <1>3, <1>5 DEF TurnsInv
<1>7. LivesFit(tank, lives, flying)'
  BY DEF LivesFit
<1> QED
  BY <1>1, <1>6, <1>7 DEF IInv

LEMMA ShotEndsHolds ==
    ASSUME IInv, NEW p \in Tankets, ShotEnds(p)
    PROVE  IInv'
<1>1. LivesFit(tank', lives', flying')
  <2>1. NoRevival(flying, flying')
    BY DEF NoRevival, ShotEnds
  <2>2. LivesFit(tank, lives, flying')
    BY <2>1, LivesLess DEF IInv
  <2> QED
    BY <2>2 DEF ShotEnds
<1>2. /\ tank' \in [Tankets -> TankStates] /\ lives' \in [Tankets -> 0 .. Lives]
      /\ flying' \in SUBSET Flights /\ clientTank' \in [Tankets -> TankStates]
      /\ TakeTurns(tank') \subseteq TakeTurns(tank)
  BY DEF ShotEnds, IInv, TypeOK, Flights
<1> QED
  BY <1>1, <1>2, TanketStep DEF ShotEnds

LEMMA TankDiesHolds ==
    ASSUME IInv, NEW p \in Tankets, TankDies(p)
    PROVE  IInv'
<1>1. /\ tank \in [Tankets -> TankStates] /\ lives \in [Tankets -> 0 .. Lives]
      /\ flying \in SUBSET Flights /\ clientTank \in [Tankets -> TankStates]
      /\ tank[p] = "sNormal" /\ lives[p] > 0 /\ LivesFit(tank, lives, flying)
  BY DEF IInv, TypeOK, Flights, LivesFit, TankDies, Alive
<1>2. /\ tank' = [tank EXCEPT ![p] = "sDead"]
      /\ lives' = [lives EXCEPT ![p] = lives[p] - 1]
      /\ clientTank' = [clientTank EXCEPT ![p] = "sDead"]
  BY DEF TankDies
<1>3. lives' \in [Tankets -> 0 .. Lives]
  <2>1. lives[p] \in 0 .. Lives
    BY <1>1
  <2>2. lives[p] - 1 \in 0 .. Lives
    BY <1>1, <2>1, OptionsAssumption
  <2> QED
    BY <1>1, <1>2, <2>2
<1>4. tank' \in [Tankets -> TankStates] /\ clientTank' \in [Tankets -> TankStates]
  BY <1>1, <1>2 DEF TankStates
<1>5. flying' = IF lives[p] > 1 /\ p \notin Turrets THEN flying \cup {<<"dead", p>>} ELSE flying
  BY DEF TankDies
<1>6. flying' \in SUBSET Flights
  BY <1>1, <1>5 DEF Flights, Reviving
<1>7. TakeTurns(tank') \subseteq TakeTurns(tank)
  BY <1>1, <1>2 DEF TakeTurns, Present
<1>8. ASSUME NEW x \in Revivals PROVE <<x, p>> \notin flying
  BY <1>1 DEF LivesFit
<1>9. \A q \in Tankets : q # p => tank'[q] = tank[q] /\ lives'[q] = lives[q]
  BY <1>1, <1>2
<1>10. tank'[p] = "sDead" /\ lives'[p] = lives[p] - 1
  BY <1>1, <1>2
<1>11. \A x \in Revivals, q \in Tankets :
           <<x, q>> \in flying' => \/ q # p /\ <<x, q>> \in flying
                                   \/ q = p /\ x = "dead" /\ lives[p] > 1
  BY <1>5, <1>8
<1>12. lives[p] > 1 => lives'[p] > 0
  <2>1. lives[p] \in Int
    BY <1>1
  <2> QED
    BY <1>10, <2>1
<1>13. LivesFit(tank', lives', flying')
  <2>1. ASSUME NEW q \in Tankets, tank'[q] = "sNormal" PROVE lives'[q] > 0
    BY <1>1, <1>9, <1>10, <2>1 DEF LivesFit
  <2>2. ASSUME NEW q \in Tankets, NEW x \in Revivals, <<x, q>> \in flying'
        PROVE  tank'[q] # "sNormal" /\ (tank'[q] = "sDead" => lives'[q] > 0)
    BY <1>1, <1>9, <1>10, <1>11, <1>12, <2>2 DEF LivesFit
  <2>3. ASSUME NEW q \in Tankets, NEW x \in Revivals, NEW y \in Revivals,
               <<x, q>> \in flying', <<y, q>> \in flying'
        PROVE  x = y
    BY <1>1, <1>11, <2>3 DEF LivesFit
  <2> QED
    BY <2>1, <2>2, <2>3 DEF LivesFit
<1> QED
  BY <1>3, <1>4, <1>6, <1>7, <1>13, TanketStep DEF TankDies


LEMMA ResurrectHolds ==
    ASSUME IInv, NEW p \in Tankets, Resurrect(p)
    PROVE  IInv'
<1>1. /\ tank \in [Tankets -> TankStates] /\ lives \in [Tankets -> 0 .. Lives]
      /\ flying \in SUBSET Flights /\ clientTank \in [Tankets -> TankStates]
      /\ LivesFit(tank, lives, flying)
  BY DEF IInv, TypeOK, Flights
<1>2. /\ tank' = [tank EXCEPT ![p] = Rezzed(tank[p])] /\ lives' = lives
      /\ clientTank' = [clientTank EXCEPT ![p] = Rezzed(clientTank[p])]
      /\ flying' = flying \ {<<"rez", p>>} /\ <<"rez", p>> \in flying
  BY DEF Resurrect
<1>3. \A state \in TankStates : Rezzed(state) \in TankStates
  BY DEF Rezzed, TankStates
<1>4. tank' \in [Tankets -> TankStates] /\ clientTank' \in [Tankets -> TankStates]
  BY <1>1, <1>2, <1>3
<1>5. tank'[p] = Rezzed(tank[p]) /\ \A q \in Tankets : q # p => tank'[q] = tank[q]
  BY <1>1, <1>2
<1>6. TakeTurns(tank') \subseteq TakeTurns(tank)
  <2>1. \A q \in Tankets : tank[q] = "gone" => tank'[q] = "gone"
    BY <1>5 DEF Rezzed
  <2> QED
    BY <2>1 DEF TakeTurns, Present
<1>7. tank[p] # "sNormal" /\ (tank[p] = "sDead" => lives[p] > 0)
  BY <1>1, <1>2 DEF LivesFit, Revivals
<1>8. \A x \in Revivals, q \in Tankets : <<x, q>> \in flying' => q # p /\ <<x, q>> \in flying
  BY <1>1, <1>2 DEF LivesFit, Revivals
<1>9. LivesFit(tank', lives', flying')
  <2>1. ASSUME NEW q \in Tankets, tank'[q] = "sNormal" PROVE lives'[q] > 0
    BY <1>1, <1>2, <1>5, <1>7, <2>1 DEF LivesFit, Rezzed
  <2>2. ASSUME NEW q \in Tankets, NEW x \in Revivals, <<x, q>> \in flying'
        PROVE  tank'[q] # "sNormal" /\ (tank'[q] = "sDead" => lives'[q] > 0)
    BY <1>1, <1>2, <1>5, <1>8, <2>2 DEF LivesFit
  <2>3. ASSUME NEW q \in Tankets, NEW x \in Revivals, NEW y \in Revivals,
               <<x, q>> \in flying', <<y, q>> \in flying'
        PROVE  x = y
    BY <1>1, <1>8, <2>3 DEF LivesFit
  <2> QED
    BY <2>1, <2>2, <2>3 DEF LivesFit
<1>10. lives' \in [Tankets -> 0 .. Lives] /\ flying' \in SUBSET Flights
  BY <1>1, <1>2
<1> QED
  BY <1>4, <1>6, <1>9, <1>10, TanketStep DEF Resurrect

LEMMA RemovedHolds ==
    ASSUME IInv, NEW p \in Tankets, Removed(p)
    PROVE  IInv'
<1>1. /\ tank \in [Tankets -> TankStates] /\ lives \in [Tankets -> 0 .. Lives]
      /\ flying \in SUBSET Flights /\ clientTank \in [Tankets -> TankStates]
      /\ LivesFit(tank, lives, flying)
  BY DEF IInv, TypeOK, Flights
<1>2. /\ tank' = [tank EXCEPT ![p] = "gone"] /\ lives' = lives /\ flying' = flying
      /\ clientTank' = [clientTank EXCEPT ![p] = "gone"]
  BY DEF Removed
<1>3. tank' \in [Tankets -> TankStates] /\ clientTank' \in [Tankets -> TankStates]
  BY <1>1, <1>2 DEF TankStates
<1>4. tank'[p] = "gone" /\ \A q \in Tankets : q # p => tank'[q] = tank[q]
  BY <1>1, <1>2
<1>5. TakeTurns(tank') \subseteq TakeTurns(tank)
  BY <1>4 DEF TakeTurns, Present
<1>6. LivesFit(tank', lives', flying')
  BY <1>1, <1>2, <1>4 DEF LivesFit
<1> QED
  BY <1>1, <1>2, <1>3, <1>5, <1>6, TanketStep DEF Removed

LEMMA EnterStateHolds ==
    ASSUME IInv, EnterState
    PROVE  IInv'
<1>1. /\ tank \in [Tankets -> TankStates] /\ lives \in [Tankets -> 0 .. Lives]
      /\ missedMoves \in [Tankets -> Nat] /\ round \in 1 .. MaxRounds
      /\ turns \in TurnsState
  BY DEF IInv, TypeOK
<1>2. PICK order \in DrawnOrders(tank') : turns' = EnterTurns(turns, tank', order)
  BY DEF EnterState
<1>3. PICK away : away = turns.deserted
  OBVIOUS
<1>4. turns \in Turns(tank, sent, away) /\ sent = <<>> /\ turns.sendActions = <<>>
  BY <1>3 DEF IInv, TurnsInv, EnterState
<1>5. /\ \A p \in Tankets \ NonNormal : turns.moveId[p] <= turns.nextMoveId
      /\ Collects(turns)
  BY <1>4 DEF Turns, Common, Ids
<1>6. PICK tk : tk = tank'
  OBVIOUS
<1>7. EnterTurns(turns, tk, order) \in Turns(tk, <<>>, away)
  <2>1. IsOrder(order)
    BY <1>2, <1>6, OrdersAre
  <2>2. PICK s \in TurnsState : s = turns
    BY <1>1
  <2>3. EnterTurns(s, tk, order) \in Turns(tk, <<>>, away)
    BY <1>3, <1>4, <1>5, <2>1, <2>2, TurnsEnter
  <2> QED
    BY <2>2, <2>3
<1>8. PICK t : t = turns'
  OBVIOUS
<1>9. t \in Turns(tk, <<>>, away)
  BY <1>2, <1>6, <1>7, <1>8
<1>10. t \in TurnsState /\ t.deserted = away
  BY <1>9, TurnsAre
<1>11. sent' = <<>>
  BY <1>4 DEF EnterState
<1>12. TurnsInv'
  BY <1>6, <1>8, <1>9, <1>10, <1>11 DEF TurnsInv
<1>13. tank' \in [Tankets -> TankStates] /\ clientTank' = tank'
  BY <1>1 DEF EnterState, Rezzed, TankStates
<1>14. lives' = [p \in Tankets |-> IF p \in Alive(tank') THEN Lives ELSE lives[p]]
  BY DEF EnterState
<1>15. lives' \in [Tankets -> 0 .. Lives]
  <2>1. Lives \in 0 .. Lives
    BY OptionsAssumption
  <2> QED
    BY <1>1, <1>14, <2>1
<1>16. missedMoves' \in [Tankets -> Nat] /\ clientMove' \in [Tankets -> Nat]
  BY <1>1 DEF EnterState
<1>17. flying' = {} /\ round' \in 1 .. MaxRounds /\ UNCHANGED <<sent, told, elapsed>>
  BY <1>1, TurnBoundsAssumption DEF EnterState
<1>18. TypeOK'
  BY <1>8, <1>10, <1>13, <1>15, <1>16, <1>17 DEF IInv, TypeOK
<1>19. \A p \in Tankets : tank'[p] = "sNormal" => lives'[p] > 0
  BY <1>14, OptionsAssumption DEF Alive
<1>20. LivesFit(tank, lives, flying)'
  BY <1>17, <1>19 DEF LivesFit
<1> QED
  BY <1>12, <1>18, <1>20 DEF IInv

\* The actions of a send interval are applied with their call backs.
LEMMA IntervalHolds ==
    ASSUME IInv, SimulateInterval
    PROVE  IInv'
<1>1. PICK answers \in Answers, thinking \in [Called -> Delays] :
        LET start == [World EXCEPT !.turns.sendActions = <<>>,
                                   !.flying = {AfterInterval(f) : f \in flying}]
            w == InvokeAll(start, sent, answers, thinking)
        IN  /\ turns' = w.turns
            /\ tank' = w.tank
            /\ lives' = w.lives
            /\ missedMoves' = w.missedMoves
            /\ flying' = w.flying
            /\ clientMove' = w.clientMove
  BY Zenon DEF SimulateInterval
<1>2. PICK start : start = [World EXCEPT !.turns.sendActions = <<>>,
                                         !.flying = {AfterInterval(f) : f \in flying}]
  OBVIOUS
<1>3. PICK w : w = InvokeAll(start, sent, answers, thinking)
  OBVIOUS
<1>4. /\ turns' = w.turns /\ tank' = w.tank /\ lives' = w.lives
      /\ missedMoves' = w.missedMoves /\ flying' = w.flying /\ clientMove' = w.clientMove
  BY <1>1, <1>2, <1>3, Zenon
<1>5. PICK away : away = turns.deserted
  OBVIOUS
<1>6. PICK q \in Seq(SimAction), more \in Seq(SimAction) : q = sent /\ more = turns.sendActions
  <2>1. sent \in Seq(SimAction) /\ turns \in TurnsState
    BY DEF IInv, TypeOK
  <2>2. turns.sendActions \in Seq(SimAction)
    BY <2>1, StateFields
  <2> QED
    BY <2>1, <2>2
<1>7. start \in Worlds(q \o more, away)
  <2>1. start \in Worlds(sent \o turns.sendActions, turns.deserted)
    BY <1>2, WorldSent
  <2> QED
    BY <1>5, <1>6, <2>1
<1>8. ASSUME NEW i \in 1 .. Len(q) PROVE Thinks(q[i], thinking, away)
  <2> SUFFICES ASSUME q[i].kind = "start", q[i].player \in Computer \cup away
               PROVE  thinking[q[i].player] \in Nat
    BY DEF Thinks
  <2>1. q[i] \in ToSet(sent)
    BY <1>6 DEF ToSet
  <2>2. q[i].player \in Called
    BY <1>5, <2>1 DEF Called
  <2> QED
    BY <2>2, TimesAssumption
<1>9. w \in Worlds(more, away)
  BY <1>3, <1>6, <1>7, <1>8, AppliedAll
<1>10. /\ w \in WorldState /\ w.turns \in Turns(w.tank, more, away)
       /\ LivesFit(w.tank, w.lives, w.flying)
  BY <1>9 DEF Worlds
<1>11. w.turns \in TurnsState /\ w.turns.deserted = away
  BY <1>10 DEF Turns
<1>12. sent' = more
  BY <1>6 DEF SimulateInterval
<1>13. TurnsInv'
  BY <1>4, <1>10, <1>11, <1>12 DEF TurnsInv
<1>14. told' \in SUBSET (Humans \X MoveIds)
  <2>1. \A b \in ToSet(turns.sendActions) : b \in SimAction
    BY <1>6 DEF ToSet
  <2>2. \A b \in SimAction : b.kind = "start" => b.move \in MoveIds
    BY StartFields
  <2> QED
    BY <2>1, <2>2 DEF IInv, TypeOK, SimulateInterval
<1>15. /\ w.tank \in [Tankets -> TankStates] /\ w.lives \in [Tankets -> 0 .. Lives]
       /\ w.missedMoves \in [Tankets -> Nat] /\ w.flying \in SUBSET Flights
       /\ w.clientMove \in [Tankets -> Nat]
  BY <1>10, WorldFields
<1>16. elapsed' = 1 /\ UNCHANGED <<clientTank, round>>
  BY DEF SimulateInterval
<1>17. TypeOK'
  BY <1>4, <1>11, <1>12, <1>14, <1>15, <1>16 DEF IInv, TypeOK, Flights
<1>18. LivesFit(tank, lives, flying)'
  BY <1>4, <1>10 DEF LivesFit
<1> QED
  BY <1>13, <1>17, <1>18 DEF IInv


LEMMA NextHolds ==
    ASSUME IInv, [Next]_vars
    PROVE  IInv'
<1>1. CASE UNCHANGED vars
  <2>1. TypeOK'
    BY <1>1 DEF vars, IInv, TypeOK
  <2>2. TurnsInv'
    BY <1>1 DEF vars, IInv, TurnsInv
  <2>3. LivesFit(tank, lives, flying)'
    BY <1>1 DEF vars, IInv, LivesFit
  <2> QED
    BY <2>1, <2>2, <2>3 DEF IInv
<1>2. CASE Tick
  BY <1>2, TickHolds
<1>3. CASE SimulateInterval
  BY <1>3, IntervalHolds
<1>4. CASE EnterState
  BY <1>4, EnterStateHolds
<1>5. ASSUME NEW p \in Tankets, Player(p) PROVE IInv'
  <2>1. ASSUME NEW o \in told, NEW type \in {"eShot", "eSkip"}, PlayedMove(p, o[2], type)
        PROVE  IInv'
    BY <2>1, PlayedMoveHolds
  <2>2. CASE ShotEnds(p)
    BY <2>2, ShotEndsHolds
  <2>3. CASE TankDies(p)
    BY <2>3, TankDiesHolds
  <2>4. CASE Resurrect(p)
    BY <2>4, ResurrectHolds
  <2>5. CASE Leave(p)
    BY <2>5, LeaveHolds
  <2>6. CASE Removed(p)
    BY <2>6, RemovedHolds
  <2> QED
    BY <1>5, <2>1, <2>2, <2>3, <2>4, <2>5, <2>6 DEF Player
<1> QED
  BY <1>1, <1>2, <1>3, <1>4, <1>5 DEF Next

-----------------------------------------------------------------------------
(* One by one in simultaneous turns: whoever has shots to come has no move. *)
(* The state of the shots tells where they are: on their way when it is     *)
(* eShotsWaitingStart, in the simulator when it is eShotsWaitingEnd.        *)

HasShots(q) == \E i \in 1 .. Len(q) : q[i].kind = "shots"

OneShots(q) ==
    \A i, j \in 1 .. Len(q) : q[i].kind = "shots" /\ q[j].kind = "shots" => i = j

\* Who chose a move has none.
Chosen(s, tk) == \A p \in Present(tk) : HasMove(s, p) => s.moveId[p] = 0

NoMoves(s, tk) == \A p \in Present(tk) : s.moveId[p] = 0

NoShot(inFlight) == \A p \in Tankets : <<"shot", p>> \notin inFlight

\* "coming" tells whether shots were sent that are not applied yet.
Phases(tk, coming, inFlight) ==
    {s \in TurnsState :
        /\ Chosen(s, tk)
        /\ s.shotsState # "eShotsNone" => NoMoves(s, tk)
        /\ s.shotsState # "eShotsWaitingStart" => ~coming /\ ~HasShots(s.sendActions)
        /\ OneShots(s.sendActions) /\ (coming => ~HasShots(s.sendActions))
        /\ s.shotsState # "eShotsWaitingEnd" => NoShot(inFlight)}

\* Where moves are given and chosen.
Choosing(tk) ==
    {s \in TurnsState :
        s.shotsState = "eShotsNone" /\ ~HasShots(s.sendActions) /\ Chosen(s, tk)}

LEMMA ShotsAppended ==
    ASSUME NEW q \in Seq(SimAction), NEW a \in SimAction
    PROVE  /\ a.kind # "shots" => /\ HasShots(Append(q, a)) <=> HasShots(q)
                                  /\ OneShots(q) => OneShots(Append(q, a))
           /\ ~HasShots(q) => OneShots(Append(q, a))
<1>1. /\ Len(q) \in Nat /\ Len(Append(q, a)) = Len(q) + 1
      /\ \A i \in 1 .. Len(q) : Append(q, a)[i] = q[i]
      /\ Append(q, a)[Len(q) + 1] = a
  BY Appended
<1>2. \A i \in 1 .. Len(Append(q, a)) : i \in 1 .. Len(q) \/ i = Len(q) + 1
  BY <1>1
<1>3. \A i \in 1 .. Len(q) : i \in 1 .. Len(Append(q, a))
  BY <1>1
<1>4. ASSUME a.kind # "shots" PROVE HasShots(Append(q, a)) <=> HasShots(q)
  BY <1>1, <1>2, <1>3, <1>4 DEF HasShots
<1>5. ASSUME a.kind # "shots", OneShots(q) PROVE OneShots(Append(q, a))
  BY <1>1, <1>2, <1>5 DEF OneShots
<1>6. ASSUME ~HasShots(q) PROVE OneShots(Append(q, a))
  BY <1>1, <1>2, <1>6 DEF HasShots, OneShots
<1> QED
  BY <1>4, <1>5, <1>6

\* A step that gives no move and sends no shots.
SameShots(s, t) ==
    /\ t \in TurnsState /\ t.shotsState = s.shotsState
    /\ HasShots(t.sendActions) <=> HasShots(s.sendActions)
    /\ OneShots(s.sendActions) => OneShots(t.sendActions)

LEMMA PhasesSame ==
    ASSUME NEW tk, NEW coming, NEW inFlight, NEW s \in Phases(tk, coming, inFlight),
           NEW t, SameShots(s, t), t.moveId = s.moveId, t.moves = s.moves
    PROVE  t \in Phases(tk, coming, inFlight)
BY DEF Phases, SameShots, Chosen, NoMoves, HasMove

LEMMA ChoosingSame ==
    ASSUME NEW tk, NEW s \in Choosing(tk), NEW t, SameShots(s, t), t.moves = s.moves,
           \A p \in Tankets : t.moveId[p] = s.moveId[p] \/ t.moveId[p] = 0
    PROVE  t \in Choosing(tk)
<1>1. Chosen(t, tk)
  BY DEF Choosing, Chosen, HasMove, Present
<1> QED
  BY <1>1 DEF Choosing, SameShots

\* An answer is taken only when it is to a move: never while shots are waited for.
ChoosesMove(s, t, m) ==
    /\ SameShots(s, t) /\ t.moves = s.moves \cup {m}
    /\ t.moveId[m.player] = 0 /\ SameBut(t.moveId, s.moveId, m.player)

LEMMA ChoosesMoveIs ==
    ASSUME NEW tk, NEW s \in TurnsState, NEW m \in Message,
           Discipline = "Simultaneous", NonNormal = {},
           NEW thinking, NEW t, t = MoveFinished(s, tk, m, thinking)
    PROVE  \/ t = s
           \/ m.player \in Present(tk) /\ s.moveId[m.player] = m.move /\ ChoosesMove(s, t, m)
<1>1. t = SimultaneousMoveFinished(s, tk, m)
  BY DEF MoveFinished, InternalMoveFinished
<1>2. PICK p \in Tankets : p = m.player
  BY DEF Message
<1>3. CASE p \in Present(tk) /\ s.moveId[p] = m.move /\ ~HasMove(s, p)
  <2>1. PICK u : u = PlayMoveFinished(s, p)
    OBVIOUS
  <2>2. Ended(s, u, p)
    BY <2>1, PlayMoveFinishedIs
  <2>3. u \in TurnsState /\ u.moves = s.moves
    BY <2>2 DEF Ended, Rest
  <2>4. PICK moves \in SUBSET Message : moves = u.moves \cup {m}
    <3>1. s.moves \in SUBSET Message
      BY StateFields
    <3> QED
      BY <2>3, <3>1
  <2>5. t = [u EXCEPT !.moves = moves]
    BY <1>1, <1>2, <1>3, <2>1, <2>4 DEF SimultaneousMoveFinished
  <2>6. WaitingMoves(u, t, moves)
    BY <2>3, <2>5, MovesAre
  <2>7. /\ t \in TurnsState /\ t.moves = s.moves \cup {m} /\ t.shotsState = s.shotsState
        /\ t.moveId = u.moveId /\ t.sendActions = Append(s.sendActions, Stop(p))
    BY <2>2, <2>3, <2>4, <2>6 DEF WaitingMoves, Queues, Ended
  <2>8. SameShots(s, t)
    <3>1. PICK a \in SimAction : a = Stop(p) /\ a.kind # "shots"
      BY ActionTypes
    <3>2. s.sendActions \in Seq(SimAction)
      BY StateFields
    <3> QED
      BY <2>7, <3>1, <3>2, ShotsAppended DEF SameShots
  <2>9. ChoosesMove(s, t, m)
    BY <1>2, <2>2, <2>7, <2>8 DEF ChoosesMove, Ended
  <2> QED
    BY <1>2, <1>3, <2>9
<1>4. CASE ~(p \in Present(tk) /\ s.moveId[p] = m.move /\ ~HasMove(s, p))
  BY <1>1, <1>2, <1>4 DEF SimultaneousMoveFinished
<1> QED
  BY <1>3, <1>4

LEMMA ChosenAnswer ==
    ASSUME NEW tk, NEW s \in TurnsState, NEW m \in Message, Chosen(s, tk),
           NEW t, ChoosesMove(s, t, m)
    PROVE  Chosen(t, tk)
<1> SUFFICES ASSUME NEW p \in Present(tk), HasMove(t, p) PROVE t.moveId[p] = 0
  BY DEF Chosen
<1>1. p \in Tankets
  BY DEF Present
<1>2. CASE p = m.player
  BY <1>2 DEF ChoosesMove
<1>3. CASE p # m.player
  <2>1. HasMove(s, p)
    BY <1>3 DEF HasMove, ChoosesMove
  <2> QED
    BY <1>1, <1>3, <2>1 DEF Chosen, ChoosesMove, SameBut
<1> QED
  BY <1>2, <1>3

LEMMA PhasesFinished ==
    ASSUME NEW tk, NEW coming, NEW inFlight, NEW s \in Phases(tk, coming, inFlight),
           NEW m \in Message, m.move # 0, Discipline = "Simultaneous", NonNormal = {},
           NEW thinking, NEW t, t = MoveFinished(s, tk, m, thinking)
    PROVE  t \in Phases(tk, coming, inFlight)
<1>1. s \in TurnsState /\ Chosen(s, tk)
  BY DEF Phases
<1>2. CASE t = s
  BY <1>2
<1>3. CASE m.player \in Present(tk) /\ s.moveId[m.player] = m.move /\ ChoosesMove(s, t, m)
  <2>1. s.shotsState = "eShotsNone"
    BY <1>3 DEF Phases, NoMoves
  <2>2. Chosen(t, tk)
    BY <1>1, <1>3, ChosenAnswer
  <2> QED
    BY <1>3, <2>1, <2>2 DEF Phases, ChoosesMove, SameShots
<1> QED
  BY <1>1, <1>2, <1>3, ChoosesMoveIs

LEMMA ChoosingFinished ==
    ASSUME NEW tk, NEW s \in Choosing(tk), NEW m \in Message,
           Discipline = "Simultaneous", NonNormal = {},
           NEW thinking, NEW t, t = MoveFinished(s, tk, m, thinking)
    PROVE  t \in Choosing(tk)
<1>1. s \in TurnsState /\ Chosen(s, tk)
  BY DEF Choosing
<1>2. CASE t = s
  BY <1>2
<1>3. CASE ChoosesMove(s, t, m)
  <2>1. Chosen(t, tk)
    BY <1>1, <1>3, ChosenAnswer
  <2> QED
    BY <1>3, <2>1 DEF Choosing, ChoosesMove, SameShots
<1> QED
  BY <1>1, <1>2, <1>3, ChoosesMoveIs

\* What leaves the queues and the moves alone.
LEMMA ChoosingQueues ==
    ASSUME NEW tk, NEW s \in Choosing(tk), NEW t \in TurnsState, t.shotsState = s.shotsState,
           Queues(t) = Queues(s), Rest(t) = Rest(s)
    PROVE  t \in Choosing(tk)
<1>1. t.sendActions = s.sendActions /\ t.moveId = s.moveId /\ t.moves = s.moves
  BY DEF Queues, Rest
<1>2. SameShots(s, t)
  BY <1>1 DEF SameShots
<1> QED
  BY <1>1, <1>2, ChoosingSame

LEMMA ChoosingTimeOut ==
    ASSUME NEW tk, NEW s \in Choosing(tk), Discipline = "Simultaneous", NonNormal = {}
    PROVE  TimeOut(s, tk) \in Choosing(tk)
<1>1. s \in TurnsState
  BY DEF Choosing
<1>2. PICK f : /\ f[0] = s
               /\ \A p \in 1 .. N : f[p] = IF p \in Over(s) THEN TimedOut(f[p - 1], tk, p) ELSE f[p - 1]
               /\ TimeOut(s, tk) = f[N]
  BY <1>1, TimeOutLoop
<1>3. ASSUME NEW p \in 1 .. N, f[p - 1] \in Choosing(tk) PROVE f[p] \in Choosing(tk)
  <2>1. PICK t \in Choosing(tk) : t = f[p - 1]
    BY <1>3
  <2>2. CASE p \in Over(s)
    <3>1. t \in TurnsState
      BY DEF Choosing
    <3>2. PICK m \in Message : m = [player |-> p, move |-> t.playingPlayers[p].move, type |-> "eTimeout"]
      BY <3>1, TimedOutMessage
    <3>3. PICK u : u = MoveFinished(t, tk, m, 0)
      OBVIOUS
    <3>4. u \in Choosing(tk)
      BY <3>3, ChoosingFinished
    <3>5. f[p] = u
      BY <1>2, <2>1, <2>2, <3>2, <3>3 DEF TimedOut
    <3> QED
      BY <3>4, <3>5
  <2>3. CASE p \notin Over(s)
    BY <1>2, <1>3, <2>3
  <2> QED
    BY <2>2, <2>3
<1>4. N \in Nat /\ N \in 0 .. N /\ f[0] \in Choosing(tk)
  BY <1>2, TanketsAssumption
<1>5. \A i \in 0 .. N : f[i] \in Choosing(tk)
  BY <1>3, <1>4, LoopKeeps
<1> QED
  BY <1>2, <1>4, <1>5

\* Nobody is outside the normal moves.
LEMMA NobodyOutside ==
    ASSUME NonNormal = {}, NEW s, NEW tk
    PROVE  GiveNonNormalMoves(s, tk) = s
<1> DEFINE f == [p \in 0 .. N |-> s]
<1>1. f = [p \in 0 .. N |->
            IF p = 0 THEN s
            ELSE IF p \in NonNormalPlayers(tk) THEN GiveToNonNormal(f[p - 1], p) ELSE f[p - 1]]
  <2>1. \A p \in 0 .. N : p \notin NonNormalPlayers(tk)
    BY DEF NonNormalPlayers
  <2>2. \A p \in 0 .. N : p # 0 => p - 1 \in 0 .. N
    BY TanketsAssumption
  <2> QED
    BY <2>1, <2>2
<1> HIDE DEF f
<1> DEFINE after == CHOOSE g : g = [p \in 0 .. N |->
            IF p = 0 THEN s
            ELSE IF p \in NonNormalPlayers(tk) THEN GiveToNonNormal(g[p - 1], p) ELSE g[p - 1]]
<1>2. after = [p \in 0 .. N |->
            IF p = 0 THEN s
            ELSE IF p \in NonNormalPlayers(tk) THEN GiveToNonNormal(after[p - 1], p) ELSE after[p - 1]]
  BY <1>1, Zenon
<1>3. GiveNonNormalMoves(s, tk) = after[N]
  BY Zenon DEF GiveNonNormalMoves, ForEach, GiveToNonNormal, NonNormalPlayers
<1> HIDE DEF after
<1>4. after[0] = s /\ \A p \in 1 .. N : after[p] = after[p - 1]
  BY <1>2, TanketsAssumption DEF NonNormalPlayers
<1>5. PICK only : only = {s}
  OBVIOUS
<1>6. \A p \in 1 .. N : after[p - 1] \in only => after[p] \in only
  BY <1>4
<1>7. N \in Nat /\ N \in 0 .. N /\ after[0] \in only
  BY <1>4, <1>5
<1>8. \A p \in 0 .. N : after[p] \in only
  BY <1>6, <1>7, LoopKeeps
<1> QED
  BY <1>3, <1>5, <1>7, <1>8

\* The moves of the dead end, and moves are given to who has not chosen.
LEMMA ChoosingEndDead ==
    ASSUME NEW tk, NEW ahead \in Seq(SimAction), NEW away,
           NEW s \in Turns(tk, ahead, away), s \in Choosing(tk)
    PROVE  EndMovesOfDead(s, tk) \in Choosing(tk) /\ EndMovesOfDead(s, tk).moves = s.moves
<1>1. PICK f : /\ f[0] = s
               /\ \A p \in 1 .. N : f[p] = IF p \in Fallen(tk) THEN EndIfAny(f[p - 1], p) ELSE f[p - 1]
               /\ EndMovesOfDead(s, tk) = f[N]
  BY EndLoop
<1> DEFINE D == {x \in Choosing(tk) : x.moves = s.moves}
<1>2. ASSUME NEW p \in 1 .. N, NEW t \in D PROVE EndIfAny(t, p) \in D
  <2>1. CASE t.moveId[p] = 0
    BY <2>1 DEF EndIfAny
  <2>2. CASE t.moveId[p] # 0
    <3>1. PICK u : u = PlayMoveFinished(t, p) /\ u = EndIfAny(t, p)
      BY <2>2 DEF EndIfAny
    <3>2. t \in TurnsState /\ t \in Choosing(tk)
      BY DEF Choosing
    <3>3. Ended(t, u, p)
      BY <3>1, <3>2, PlayMoveFinishedIs
    <3>4. u.moves = t.moves
      BY <3>3 DEF Ended, Rest
    <3>5. SameShots(t, u)
      <4>1. PICK a \in SimAction : a = Stop(p) /\ a.kind # "shots"
        BY ActionTypes
      <4>2. t.sendActions \in Seq(SimAction)
        BY <3>2, StateFields
      <4> QED
        BY <3>3, <4>1, <4>2, ShotsAppended DEF SameShots, Ended
    <3>6. \A q \in Tankets : u.moveId[q] = t.moveId[q] \/ u.moveId[q] = 0
      BY <3>3 DEF Ended, SameBut
    <3>7. u \in Choosing(tk)
      BY <3>2, <3>4, <3>5, <3>6, ChoosingSame
    <3> QED
      BY <3>1, <3>4, <3>7
  <2> QED
    BY <2>1, <2>2
<1>3. \A p \in 1 .. N : f[p - 1] \in D => f[p] \in D
  <2> HIDE DEF D
  <2> QED
    BY <1>1, <1>2
<1>4. N \in Nat /\ N \in 0 .. N /\ f[0] \in D
  BY <1>1, TanketsAssumption
<1>5. \A i \in 0 .. N : f[i] \in D
  <2> HIDE DEF D
  <2> QED
    BY <1>3, <1>4, LoopKeeps
<1> QED
  BY <1>1, <1>4, <1>5

LEMMA ChoosingGive ==
    ASSUME NEW tk, NEW s \in Choosing(tk), NEW p \in Tankets, NEW t, t = GiveIfFree(s, tk, p)
    PROVE  t \in Choosing(tk) /\ t.moves = s.moves
<1>1. CASE ~(s.moveId[p] = 0 /\ ~HasMove(s, p)
                /\ DestinationOf(s, p) \notin PlayingDestinations(s, tk))
  BY <1>1 DEF GiveIfFree
<1>2. CASE s.moveId[p] = 0 /\ ~HasMove(s, p)
              /\ DestinationOf(s, p) \notin PlayingDestinations(s, tk)
  <2>1. s \in TurnsState /\ Chosen(s, tk) /\ s.shotsState = "eShotsNone" /\ ~HasShots(s.sendActions)
    BY DEF Choosing
  <2>2. PICK time \in {0, MoveTime} : time = MoveTime
    OBVIOUS
  <2>3. t = GiveMove(s, p, time)
    BY <1>2, <2>2 DEF GiveIfFree
  <2>4. PICK next : next = s.nextMoveId + 1
    OBVIOUS
  <2>5. Given(s, t, p, next, time)
    BY <2>1, <2>3, <2>4, GiveMoveIs
  <2>6. PICK timed \in BOOLEAN : t.sendActions = Append(s.sendActions, Start(p, next, timed))
    BY <2>5 DEF Given
  <2>7. next \in MoveIds
    <3>1. s.nextMoveId \in Nat
      BY <2>1, StateFields
    <3> QED
      BY <2>4, <3>1 DEF MoveIds
  <2>8. PICK a \in SimAction : a = Start(p, next, timed) /\ a.kind # "shots"
    BY <2>7, ActionTypes, StartKind
  <2>9. ~HasShots(t.sendActions)
    <3>1. s.sendActions \in Seq(SimAction)
      BY <2>1, StateFields
    <3> QED
      BY <2>1, <2>6, <2>8, <3>1, ShotsAppended
  <2>10. /\ t \in TurnsState /\ t.shotsState = s.shotsState /\ t.moves = s.moves
         /\ SameBut(t.moveId, s.moveId, p)
    BY <2>5 DEF Given, Rest
  <2>11. Chosen(t, tk)
    BY <1>2, <2>1, <2>10 DEF Chosen, HasMove, SameBut, Present
  <2> QED
    BY <2>1, <2>9, <2>10, <2>11 DEF Choosing
<1> QED
  BY <1>1, <1>2

LEMMA ChoosingGiveMoves ==
    ASSUME NEW tk, NEW ahead \in Seq(SimAction), NEW away, Discipline = "Simultaneous",
           NEW s \in Cleared(tk, ahead, away), s \in Choosing(tk)
    PROVE  GiveMoves(s, tk) \in Choosing(tk) /\ GiveMoves(s, tk).moves = s.moves
<1>1. PICK f : /\ f[0] = s
               /\ \A p \in 1 .. N : f[p] = IF p \in Alive(tk) THEN GiveIfFree(f[p - 1], tk, p) ELSE f[p - 1]
               /\ GiveMoves(s, tk) = f[N]
  BY GiveLoop
<1> DEFINE D == {x \in Choosing(tk) : x.moves = s.moves}
<1>2. ASSUME NEW p \in 1 .. N, NEW t \in D PROVE GiveIfFree(t, tk, p) \in D
  <2>1. PICK u : u = GiveIfFree(t, tk, p)
    OBVIOUS
  <2>2. u \in Choosing(tk) /\ u.moves = t.moves
    BY <2>1, ChoosingGive
  <2> QED
    BY <2>1, <2>2
<1>3. \A p \in 1 .. N : f[p - 1] \in D => f[p] \in D
  <2> HIDE DEF D
  <2> QED
    BY <1>1, <1>2
<1>4. N \in Nat /\ N \in 0 .. N /\ f[0] \in D
  BY <1>1, TanketsAssumption
<1>5. \A i \in 0 .. N : f[i] \in D
  <2> HIDE DEF D
  <2> QED
    BY <1>3, <1>4, LoopKeeps
<1> QED
  BY <1>1, <1>4, <1>5

-----------------------------------------------------------------------------
(* Simulate in simultaneous turns goes from one phase to the next.          *)

LEMMA ChoosingPhases ==
    ASSUME NEW tk, NEW inFlight, NoShot(inFlight), NEW s \in Choosing(tk)
    PROVE  s \in Phases(tk, FALSE, inFlight)
<1>1. s.sendActions \in Seq(SimAction) /\ ~HasShots(s.sendActions)
  BY StateFields DEF Choosing
<1>2. OneShots(s.sendActions)
  BY <1>1 DEF HasShots, OneShots
<1> QED
  BY <1>1, <1>2 DEF Choosing, Phases

\* All moves are played at once.  Nobody is left with a move: who lives has chosen,
\* the moves of the others were ended.
LEMMA PhasesPlayAll ==
    ASSUME NEW tk, NEW inFlight, NoShot(inFlight), NEW s \in Choosing(tk),
           WaitForShots, NoMoves(s, tk), NEW t, t = PlayAllMoves(s, tk)
    PROVE  t \in Phases(tk, FALSE, inFlight)
<1>1. s \in TurnsState /\ ~HasShots(s.sendActions)
  BY DEF Choosing
<1>2. PICK none \in SUBSET Message : none = {}
  OBVIOUS
<1>3. PICK u : u = [s EXCEPT !.moves = none]
  OBVIOUS
<1>4. WaitingMoves(s, u, none)
  BY <1>1, <1>3, MovesAre
<1>5. /\ u \in TurnsState /\ u.moves = {} /\ u.moveId = s.moveId
      /\ u.sendActions = s.sendActions
  BY <1>2, <1>4 DEF WaitingMoves, Queues
<1>6. PICK moves \in SUBSET Message : moves = {m \in s.moves : m.player \in Alive(tk)}
  <2>1. s.moves \in SUBSET Message
    BY <1>1, StateFields
  <2> QED
    BY <2>1
<1>7. PICK yes \in BOOLEAN : yes = TRUE
  OBVIOUS
<1>8. t = PlayShots(u, moves, yes, yes)
  BY <1>2, <1>3, <1>6, <1>7 DEF PlayAllMoves
<1>9. Played(u, t, moves, yes, yes)
  BY <1>5, <1>8, PlayShotsIs
<1>10. /\ t \in TurnsState /\ t.shotsState = "eShotsWaitingStart"
       /\ t.moveId = s.moveId /\ t.moves = {}
       /\ t.sendActions = Append(s.sendActions, Shots(moves, yes, yes))
  BY <1>5, <1>9 DEF Played, Rest
<1>11. OneShots(t.sendActions)
  <2>1. PICK a \in SimAction : a = Shots(moves, yes, yes)
    BY ActionTypes
  <2>2. s.sendActions \in Seq(SimAction)
    BY <1>1, StateFields
  <2> QED
    BY <1>1, <1>10, <2>1, <2>2, ShotsAppended
<1>12. Chosen(t, tk) /\ NoMoves(t, tk)
  BY <1>10 DEF Chosen, HasMove, NoMoves
<1> QED
  BY <1>10, <1>11, <1>12 DEF Phases

LEMMA PhasesSimultaneous ==
    ASSUME NEW tk, NEW ahead \in Seq(SimAction), NEW away, NEW inFlight, NoShot(inFlight),
           NEW s \in Turns(tk, ahead, away), s \in Choosing(tk),
           Discipline = "Simultaneous", WaitForShots, NonNormal = {}, NEW time
    PROVE  SimultaneousSimulate(s, tk, time) \in Phases(tk, FALSE, inFlight)
<1>1. PICK ended : ended = EndMovesOfDead(s, tk)
  OBVIOUS
<1>2. ended \in Choosing(tk) /\ ended.moves = s.moves
  BY <1>1, ChoosingEndDead
<1>3. ended \in Cleared(tk, ahead, away)
  BY <1>1, TurnsEndDead
<1>4. PICK given : given = GiveMoves(ended, tk)
  OBVIOUS
<1>5. given \in Choosing(tk) /\ given.moves = s.moves
  BY <1>2, <1>3, <1>4, ChoosingGiveMoves
<1>6. given \in Cleared(tk, ahead, away)
  BY <1>3, <1>4, ClearedGiveMoves
<1>7. ASSUME AllChose(s, tk) PROVE NoMoves(given, tk)
  <2> SUFFICES ASSUME NEW p \in Present(tk) PROVE given.moveId[p] = 0
    BY DEF NoMoves
  <2>1. CASE p \in Alive(tk)
    <3>1. HasMove(given, p)
      BY <1>5, <1>7, <2>1 DEF AllChose, HasMove
    <3> QED
      BY <1>5, <3>1 DEF Choosing, Chosen
  <2>2. CASE p \notin Alive(tk)
    BY <1>6, <2>2 DEF Cleared, TakeTurns
  <2> QED
    BY <2>1, <2>2
<1>8. PICK played : played = PlayAllMoves(given, tk)
  OBVIOUS
<1>9. AllChose(s, tk) => played \in Phases(tk, FALSE, inFlight)
  BY <1>5, <1>7, <1>8, PhasesPlayAll
<1>10. given \in Phases(tk, FALSE, inFlight)
  BY <1>5, ChoosingPhases
<1>11. ~SlowedDown(s, tk)
  BY DEF SlowedDown
<1>12. SimultaneousSimulate(s, tk, time) = IF AllChose(s, tk) THEN played ELSE given
  BY <1>1, <1>4, <1>8, <1>11 DEF SimultaneousSimulate
<1> QED
  BY <1>9, <1>10, <1>12

\* The shots of the last turn are over, and nothing flies.
LEMMA PhasesWait ==
    ASSUME NEW tk, NEW coming \in BOOLEAN, NEW inFlight, NEW s \in Phases(tk, coming, inFlight),
           Discipline = "Simultaneous"
    PROVE  WaitForShotsToEnd(s, inFlight) \in Phases(tk, coming, inFlight)
<1>1. CASE ~(s.shotsState = "eShotsWaitingEnd" /\ inFlight = {})
  BY <1>1 DEF WaitForShotsToEnd
<1>2. CASE s.shotsState = "eShotsWaitingEnd" /\ inFlight = {}
  <2>1. s \in TurnsState /\ Chosen(s, tk) /\ ~coming /\ ~HasShots(s.sendActions)
    BY <1>2 DEF Phases
  <2>2. PICK u : u = IncrementTurn(s)
    OBVIOUS
  <2>3. PICK a \in SimAction : a = NextTurn /\ a.kind # "shots"
    BY ActionTypes
  <2>4. u = AddSimulatorAction(s, a)
    BY <2>2, <2>3 DEF IncrementTurn
  <2>5. /\ u \in TurnsState /\ u.sendActions = Append(s.sendActions, a)
        /\ u.moveId = s.moveId /\ Rest(u) = Rest(s)
    BY <2>1, <2>4, AddIs
  <2>6. PICK none \in {"eShotsNone", "eShotsWaitingStart", "eShotsWaitingEnd"} : none = "eShotsNone"
    OBVIOUS
  <2>7. PICK t : t = [u EXCEPT !.shotsState = none]
    OBVIOUS
  <2>8. t \in TurnsState /\ t.shotsState = none /\ Queues(t) = Queues(u) /\ Rest(t) = Rest(u)
    BY <2>5, <2>6, <2>7, ShotsStateIs
  <2>9. t.sendActions = u.sendActions /\ t.moveId = s.moveId /\ t.moves = s.moves
    BY <2>5, <2>8 DEF Queues, Rest
  <2>10. ~HasShots(t.sendActions) /\ OneShots(t.sendActions)
    <3>1. s.sendActions \in Seq(SimAction)
      BY <2>1, StateFields
    <3> QED
      BY <2>1, <2>3, <2>5, <2>9, <3>1, ShotsAppended
  <2>11. Chosen(t, tk)
    BY <2>1, <2>9 DEF Chosen, HasMove
  <2>12. NoShot(inFlight)
    BY <1>2 DEF NoShot
  <2>13. t \in Phases(tk, coming, inFlight)
    BY <2>1, <2>6, <2>8, <2>10, <2>11, <2>12 DEF Phases
  <2>14. WaitForShotsToEnd(s, inFlight) = t
    BY <1>2, <2>2, <2>6, <2>7
       DEF WaitForShotsToEnd, InternalShotsFinished, SimultaneousShotsFinished
  <2> QED
    BY <2>13, <2>14
<1> QED
  BY <1>1, <1>2

LEMMA PhasesSimulate ==
    ASSUME NEW tk, NEW ahead \in Seq(SimAction), NEW away, NEW coming \in BOOLEAN, NEW inFlight,
           NEW s \in Turns(tk, ahead, away), s \in Phases(tk, coming, inFlight),
           Discipline = "Simultaneous", WaitForShots, NonNormal = {},
           NEW time \in {0, 1}, NEW order
    PROVE  Simulate(s, tk, inFlight, time, order) \in Phases(tk, coming, inFlight)
<1>1. PICK t : t = WaitForShotsToEnd(s, inFlight)
  OBVIOUS
<1>2. t \in Turns(tk, ahead, away) /\ t \in Phases(tk, coming, inFlight)
  BY <1>1, TurnsWait, PhasesWait
<1>3. CASE t.shotsState # "eShotsNone"
  BY <1>1, <1>2, <1>3 DEF Simulate
<1>4. CASE t.shotsState = "eShotsNone"
  <2>1. t \in Choosing(tk) /\ NoShot(inFlight) /\ coming = FALSE /\ t \in TurnsState
    BY <1>2, <1>4 DEF Choosing, Phases
  <2>2. PICK u : u = RunTimers(t, time)
    OBVIOUS
  <2>3. u \in Turns(tk, ahead, away) /\ u \in Choosing(tk)
    <3>1. /\ u \in TurnsState /\ u.shotsState = t.shotsState
          /\ Queues(u) = Queues(t) /\ Rest(u) = Rest(t)
      BY <2>1, <2>2, RunTimersIs
    <3>2. u \in Choosing(tk)
      BY <2>1, <3>1, ChoosingQueues
    <3>3. u \in Turns(tk, ahead, away)
      BY <1>2, <2>2, TurnsTimers
    <3> QED
      BY <3>2, <3>3
  <2>4. PICK v : v = TimeOut(u, tk)
    OBVIOUS
  <2>5. v \in Turns(tk, ahead, away) /\ v \in Choosing(tk)
    BY <2>3, <2>4, TurnsTimeOut, ChoosingTimeOut
  <2>6. GiveNonNormalMoves(v, tk) = v
    BY NobodyOutside
  <2>7. PICK x : x = RunDelays(v, time)
    OBVIOUS
  <2>8. x \in Turns(tk, ahead, away) /\ x \in Choosing(tk)
    <3>1. v \in TurnsState
      BY <2>5 DEF Choosing
    <3>2. /\ x \in TurnsState /\ x.shotsState = v.shotsState
          /\ Queues(x) = Queues(v) /\ Rest(x) = Rest(v)
      BY <2>7, <3>1, RunDelaysIs
    <3>3. x \in Choosing(tk)
      BY <2>5, <3>2, ChoosingQueues
    <3>4. x \in Turns(tk, ahead, away)
      BY <2>5, <2>7, TurnsDelays
    <3> QED
      BY <3>3, <3>4
  <2>9. SimultaneousSimulate(x, tk, time) \in Phases(tk, coming, inFlight)
    BY <2>1, <2>8, PhasesSimultaneous
  <2>10. Simulate(s, tk, inFlight, time, order) = SimultaneousSimulate(x, tk, time)
    BY <1>1, <1>4, <2>2, <2>4, <2>6, <2>7 DEF Simulate, InternalSimulate
  <2> QED
    BY <2>9, <2>10
<1> QED
  BY <1>3, <1>4

-----------------------------------------------------------------------------
(* The actions of a queue: shots that are on their way reach the simulator. *)

\* The first i actions of q were applied: shots are still to come from q, or from
\* the actions that are sent next.
Coming(q, i, more) ==
    HasShots(more) \/ \E j \in 1 .. Len(q) : i < j /\ q[j].kind = "shots"

Phased(coming) == {w \in WorldState : w.turns \in Phases(w.tank, coming, w.flying)}

\* A step of the turns that leaves the tankets and what flies alone.
LEMMA PhasedTurns ==
    ASSUME NEW w \in WorldState, NEW t \in TurnsState, NEW ids \in [Tankets -> Nat],
           NEW coming, t \in Phases(w.tank, coming, w.flying),
           NEW u, u = [w EXCEPT !.turns = t, !.clientMove = ids]
    PROVE  u \in Phased(coming)
<1>1. IsWorld(w, u, t)
  BY WorldIs
<1> QED
  BY <1>1 DEF IsWorld, Phased

LEMMA PhasesAnswered ==
    ASSUME NEW away, NEW w \in WorldsOf(away), NEW coming, w \in Phased(coming),
           NEW a \in SimAction, a.kind = "start",
           Discipline = "Simultaneous", NonNormal = {}, NEW answers, NEW thinking
    PROVE  Answered(w, a, answers, thinking) \in Phases(w.tank, coming, w.flying)
<1>1. PICK tk, inFlight : tk = w.tank /\ inFlight = w.flying
  OBVIOUS
<1>2. PICK s \in Phases(tk, coming, inFlight) : s = w.turns
  BY <1>1 DEF Phased
<1>3. PICK p \in Tankets, move \in MoveIds : p = a.player /\ move = a.move
  BY StartFields
<1>4. PICK t : t = Answered(w, a, answers, thinking)
  OBVIOUS
<1>5. CASE p \notin Alive(tk) \/ ~HasAI(s, p)
  <2>1. t = s
    BY <1>1, <1>2, <1>3, <1>4, <1>5 DEF Answered
  <2> QED
    BY <1>1, <1>4, <2>1
<1>6. CASE p \in Alive(tk) /\ HasAI(s, p) /\ answers[p] = "batteries" /\ ~a.again
  <2>1. PICK b \in SimAction : b = StartAgain(p, move) /\ b.kind # "shots"
    <3>1. StartAgain(p, move) \in SimAction
      BY ActionTypes
    <3>2. StartAgain(p, move).kind # "shots"
      BY DEF StartAgain
    <3> QED
      BY <3>1, <3>2
  <2>2. t = AddSimulatorAction(s, b)
    BY <1>1, <1>2, <1>3, <1>4, <1>6, <2>1 DEF Answered
  <2>3. s \in TurnsState
    BY DEF Phases
  <2>4. /\ t \in TurnsState /\ t.sendActions = Append(s.sendActions, b)
        /\ t.moveId = s.moveId /\ t.shotsState = s.shotsState /\ Rest(t) = Rest(s)
    BY <2>2, <2>3, AddIs
  <2>5. SameShots(s, t)
    <3>1. s.sendActions \in Seq(SimAction)
      BY <2>3, StateFields
    <3> QED
      BY <2>1, <2>4, <3>1, ShotsAppended DEF SameShots
  <2>6. t.moves = s.moves
    BY <2>4 DEF Rest
  <2>7. t \in Phases(tk, coming, inFlight)
    BY <2>4, <2>5, <2>6, PhasesSame
  <2> QED
    BY <1>1, <1>4, <2>7
<1>7. CASE p \in Alive(tk) /\ HasAI(s, p) /\ ~(answers[p] = "batteries" /\ ~a.again)
  <2>1. PICK type \in {"eShot", "eSkip"} : type = IF p \in Computer THEN "eShot" ELSE "eSkip"
    OBVIOUS
  <2>2. PICK m : m = [player |-> p, move |-> move, type |-> type]
    OBVIOUS
  <2>3. m \in Message /\ m.move # 0
    BY <2>2 DEF Message, MoveIds
  <2>4. PICK time : time = thinking[p]
    OBVIOUS
  <2>5. t = MoveFinished(s, tk, m, time)
    BY <1>1, <1>2, <1>3, <1>4, <1>7, <2>1, <2>2, <2>4 DEF Answered
  <2>6. t \in Phases(tk, coming, inFlight)
    BY <2>3, <2>5, PhasesFinished
  <2> QED
    BY <1>1, <1>4, <2>6
<1> QED
  BY <1>5, <1>6, <1>7

LEMMA PhasesStart ==
    ASSUME NEW away, NEW w \in WorldsOf(away), NEW coming, w \in Phased(coming),
           NEW a \in SimAction, a.kind = "start",
           Discipline = "Simultaneous", NonNormal = {}, NEW answers, NEW thinking
    PROVE  InvokeStart(w, a, answers, thinking) \in Phased(coming)
<1>1. w \in WorldState /\ w.clientMove \in [Tankets -> Nat]
  BY WorldFields DEF WorldsOf
<1>2. PICK p \in Tankets : p = a.player
  BY StartFields
<1>3. PICK answered : answered = Answered(w, a, answers, thinking)
  OBVIOUS
<1>4. PICK tk, inFlight : tk = w.tank /\ inFlight = w.flying
  OBVIOUS
<1>5. answered \in Phases(tk, coming, inFlight) /\ answered \in TurnsState
  <2>1. answered \in Phases(tk, coming, inFlight)
    BY <1>3, <1>4, PhasesAnswered
  <2> QED
    BY <2>1 DEF Phases
<1>6. PICK started : started = MoveStarted(answered, p)
  OBVIOUS
<1>7. started \in Phases(tk, coming, inFlight)
  <2>1. /\ started \in TurnsState /\ started.shotsState = answered.shotsState
        /\ Queues(started) = Queues(answered) /\ Rest(started) = Rest(answered)
    BY <1>5, <1>6, MoveStartedIs
  <2>2. /\ started.sendActions = answered.sendActions /\ started.moveId = answered.moveId
        /\ started.moves = answered.moves
    BY <2>1 DEF Queues, Rest
  <2>3. SameShots(answered, started)
    BY <2>1, <2>2 DEF SameShots
  <2> QED
    BY <1>5, <2>2, <2>3, PhasesSame
<1>8. PICK t : t = IF a.timed THEN started ELSE answered
  OBVIOUS
<1>9. t \in Phases(w.tank, coming, w.flying) /\ t \in TurnsState
  BY <1>4, <1>5, <1>7, <1>8 DEF Phases
<1>10. PICK ids \in [Tankets -> Nat] :
         ids = [w.clientMove EXCEPT ![p] = IF clientTank[p] = "sNormal" THEN a.move ELSE @]
  <2>1. a.move \in Nat
    BY StartFields DEF MoveIds
  <2>2. PICK old \in [Tankets -> Nat] : old = w.clientMove
    BY <1>1
  <2>3. [old EXCEPT ![p] = IF clientTank[p] = "sNormal" THEN a.move ELSE @] \in [Tankets -> Nat]
    BY <2>1
  <2> QED
    BY <2>2, <2>3
<1>11. PICK u : u = [w EXCEPT !.turns = t, !.clientMove = ids]
  OBVIOUS
<1>12. InvokeStart(w, a, answers, thinking) = u
  BY <1>2, <1>3, <1>6, <1>8, <1>10, <1>11 DEF InvokeStart, Answered
<1>13. u \in Phased(coming)
  BY <1>1, <1>9, <1>11, PhasedTurns
<1> QED
  BY <1>12, <1>13

LEMMA PhasesStop ==
    ASSUME NEW away, NEW w \in WorldsOf(away), NEW coming, w \in Phased(coming),
           NEW a \in SimAction, a.kind = "stop"
    PROVE  InvokeStop(w, a) \in Phased(coming)
<1>1. w \in WorldState /\ w.turns \in TurnsState /\ w.clientMove \in [Tankets -> Nat]
  BY WorldFields DEF WorldsOf
<1>2. PICK p \in Tankets : p = a.player
  <2>1. a.player \in Tankets
    BY DEF SimAction, NextTurn
  <2> QED
    BY <2>1
<1>3. PICK ids \in [Tankets -> Nat] :
         ids = [w.clientMove EXCEPT ![p] = IF clientTank[p] = "gone" THEN @ ELSE 0]
  <2>1. PICK old \in [Tankets -> Nat] : old = w.clientMove
    BY <1>1
  <2>2. [old EXCEPT ![p] = IF clientTank[p] = "gone" THEN @ ELSE 0] \in [Tankets -> Nat]
    OBVIOUS
  <2> QED
    BY <2>1, <2>2
<1>4. PICK t \in TurnsState : t = w.turns
  BY <1>1
<1>5. PICK u : u = [w EXCEPT !.turns = t, !.clientMove = ids]
  OBVIOUS
<1>6. InvokeStop(w, a) = u
  BY <1>1, <1>2, <1>3, <1>4, <1>5 DEF InvokeStop, WorldState
<1>7. t \in Phases(w.tank, coming, w.flying)
  BY <1>4 DEF Phased
<1>8. u \in Phased(coming)
  BY <1>1, <1>4, <1>5, <1>7, PhasedTurns
<1> QED
  BY <1>6, <1>8

\* The shots that were waited for fly now, and no others are to come.
LEMMA PhasesShots ==
    ASSUME NEW w \in WorldState, w \in Phased(TRUE), WaitForShots,
           NEW a \in SimAction, a.kind = "shots", NEW u \in WorldState, u = InvokeShots(w, a)
    PROVE  u \in Phased(FALSE)
<1>1. /\ w.turns \in TurnsState /\ Chosen(w.turns, w.tank)
      /\ w.turns.shotsState = "eShotsWaitingStart" /\ NoMoves(w.turns, w.tank)
      /\ ~HasShots(w.turns.sendActions) /\ OneShots(w.turns.sendActions)
  BY DEF Phased, Phases
<1>2. PICK s \in TurnsState : s = w.turns
  BY <1>1
<1>3. PICK state \in {"eShotsNone", "eShotsWaitingStart", "eShotsWaitingEnd"} :
        state = "eShotsWaitingEnd"
  OBVIOUS
<1>4. PICK t : t = [s EXCEPT !.shotsState = state]
  OBVIOUS
<1>5. t \in TurnsState /\ t.shotsState = state /\ Queues(t) = Queues(s) /\ Rest(t) = Rest(s)
  BY <1>3, <1>4, ShotsStateIs
<1>6. t.sendActions = s.sendActions /\ t.moveId = s.moveId /\ t.moves = s.moves
  BY <1>5 DEF Queues, Rest
<1>7. u.turns = t
  <2>1. t = ShotsStarted(w.turns)
    BY <1>2, <1>3, <1>4 DEF ShotsStarted
  <2> QED
    BY <2>1 DEF InvokeShots, WorldState
<1>8. Present(u.tank) = Present(w.tank)
  <2>1. PICK moves : moves = {m \in a.moves : m.player \in Alive(w.tank)}
    OBVIOUS
  <2>2. PICK out : out = IF a.timeOut THEN MissedTooMany(w.missedMoves, moves) ELSE {}
    OBVIOUS
  <2>3. out \subseteq Alive(w.tank)
    BY <2>1, <2>2, OutAlive
  <2>4. u.tank = [p \in Tankets |-> IF p \in out THEN "sSpectator" ELSE w.tank[p]]
    BY <2>1, <2>2 DEF InvokeShots, WorldState
  <2> QED
    BY <2>3, <2>4 DEF Present, Alive
<1>9. Chosen(t, u.tank) /\ NoMoves(t, u.tank)
  BY <1>1, <1>2, <1>6, <1>8 DEF Chosen, NoMoves, HasMove
<1>10. t \in Phases(u.tank, FALSE, u.flying)
  BY <1>1, <1>2, <1>3, <1>5, <1>6, <1>9 DEF Phases
<1> QED
  BY <1>7, <1>10 DEF Phased

\* One action of the queue.
LEMMA PhasesInvoke ==
    ASSUME NEW away, NEW q \in Seq(SimAction), OneShots(q), NEW more,
           HasShots(q) => ~HasShots(more), NEW i \in 1 .. Len(q),
           NEW w \in WorldsOf(away), w \in Phased(Coming(q, i - 1, more)),
           Discipline = "Simultaneous", WaitForShots, NonNormal = {},
           NEW answers, NEW thinking,
           NEW u \in WorldsOf(away), u = Invoke(w, q[i], answers, thinking)
    PROVE  u \in Phased(Coming(q, i, more))
<1>1. w \in WorldState /\ u \in WorldState
  BY DEF WorldsOf
<1>2. PICK a \in SimAction : a = q[i]
  OBVIOUS
<1>3. CASE a.kind # "shots"
  <2>1. Coming(q, i - 1, more) = Coming(q, i, more)
    <3>1. \A j \in 1 .. Len(q) : q[j].kind = "shots" => j # i
      BY <1>2, <1>3
    <3>2. \A j \in 1 .. Len(q) : q[j].kind = "shots" => (i - 1 < j <=> i < j)
      BY <3>1
    <3> QED
      BY <3>2 DEF Coming
  <2>2. PICK coming : coming = Coming(q, i, more)
    OBVIOUS
  <2>3. w \in Phased(coming)
    BY <2>1, <2>2
  <2>4. u \in Phased(coming)
    <3>1. CASE a.kind = "start"
      <4>1. u = InvokeStart(w, a, answers, thinking)
        BY <1>2, <3>1 DEF Invoke
      <4> QED
        BY <2>3, <3>1, <4>1, PhasesStart
    <3>2. CASE a.kind = "stop"
      <4>1. u = InvokeStop(w, a)
        BY <1>2, <3>2 DEF Invoke
      <4> QED
        BY <2>3, <3>2, <4>1, PhasesStop
    <3>3. CASE a.kind \notin {"start", "stop"}
      <4>1. u = w
        BY <1>2, <1>3, <3>3 DEF Invoke
      <4> QED
        BY <2>3, <4>1
    <3> QED
      BY <3>1, <3>2, <3>3
  <2> QED
    BY <2>2, <2>4
<1>4. CASE a.kind = "shots"
  <2>1. Coming(q, i - 1, more) = TRUE
    <3>1. i - 1 < i
      OBVIOUS
    <3> QED
      BY <1>2, <1>4, <3>1 DEF Coming
  <2>2. Coming(q, i, more) = FALSE
    <3>1. HasShots(q)
      BY <1>2, <1>4 DEF HasShots
    <3>2. ~HasShots(more)
      BY <3>1
    <3>3. ASSUME NEW j \in 1 .. Len(q), i < j, q[j].kind = "shots" PROVE FALSE
      BY <1>2, <1>4, <3>3 DEF OneShots
    <3> QED
      BY <3>2, <3>3 DEF Coming
  <2>3. w \in Phased(TRUE)
    BY <2>1
  <2>4. u = InvokeShots(w, a)
    BY <1>2, <1>4 DEF Invoke
  <2>5. u \in Phased(FALSE)
    BY <1>1, <1>4, <2>3, <2>4, PhasesShots
  <2> QED
    BY <2>2, <2>5
<1> QED
  BY <1>3, <1>4

LEMMA PhasesAll ==
    ASSUME NEW away, NEW q \in Seq(SimAction), OneShots(q), NEW more,
           HasShots(q) => ~HasShots(more),
           NEW w \in WorldsOf(away), w \in Phased(Coming(q, 0, more)),
           Discipline = "Simultaneous", WaitForShots, NonNormal = {},
           NEW answers, NEW thinking,
           \A i \in 1 .. Len(q) : Thinks(q[i], thinking, away)
    PROVE  InvokeAll(w, q, answers, thinking) \in Phased(HasShots(more))
<1>1. PICK after : /\ Applied(after, w, q, answers, thinking)
                   /\ \A i \in 0 .. Len(q) : after[i] \in WorldsOf(away)
                   /\ InvokeAll(w, q, answers, thinking) = after[Len(q)]
  BY InvokeLoop
<1>2. Len(q) \in Nat
  OBVIOUS
<1> DEFINE U == {i \in 0 .. Len(q) : after[i] \in Phased(Coming(q, i, more))}
<1>3. 0 \in U
  BY <1>1, <1>2 DEF Applied
<1>4. ASSUME NEW i \in 1 .. Len(q), i - 1 \in U PROVE i \in U
  <2>1. i \in 0 .. Len(q) /\ i - 1 \in 0 .. Len(q)
    BY <1>2
  <2>2. PICK x \in WorldsOf(away) : x = after[i - 1]
    BY <1>1, <2>1
  <2>3. PICK y \in WorldsOf(away) : y = after[i]
    BY <1>1, <2>1
  <2>4. y = Invoke(x, q[i], answers, thinking)
    BY <1>1, <2>2, <2>3 DEF Applied
  <2>5. x \in Phased(Coming(q, i - 1, more))
    BY <1>4, <2>2
  <2>6. y \in Phased(Coming(q, i, more))
    BY <2>4, <2>5, PhasesInvoke
  <2> QED
    BY <2>1, <2>3, <2>6
<1> HIDE DEF U
<1>5. \A i \in 0 .. Len(q) : i \in U
  BY <1>2, <1>3, <1>4, UpTo
<1>6. Len(q) \in U
  BY <1>2, <1>5
<1>7. Coming(q, Len(q), more) = HasShots(more)
  <2>1. \A j \in 1 .. Len(q) : ~(Len(q) < j)
    BY <1>2
  <2>2. HasShots(more) \in BOOLEAN
    BY DEF HasShots
  <2> QED
    BY <2>1, <2>2 DEF Coming
<1> QED
  BY <1>1, <1>6, <1>7 DEF U

-----------------------------------------------------------------------------
(* Every step keeps the phases.                                             *)

PhasesInv == turns \in Phases(tank, HasShots(sent), flying) /\ OneShots(sent)

LEMMA NoneSent == ~HasShots(<<>>) /\ OneShots(<<>>)
BY DEF HasShots, OneShots

\* Who enters a round has neither moves nor shots.
LEMMA PhasesEnter ==
    ASSUME NEW tk, NEW s, Discipline = "Simultaneous", s.sendActions = <<>>,
           NEW order, NEW t \in TurnsState, t = EnterTurns(s, tk, order), s \in TurnsState
    PROVE  t \in Phases(tk, FALSE, {})
<1>1. /\ t.shotsState = "eShotsNone" /\ t.moves = {} /\ t.sendActions = <<>>
  BY DEF EnterTurns, InternalEnterState, SimultaneousEnterState, TurnsState
<1>2. Chosen(t, tk)
  BY <1>1 DEF Chosen, HasMove
<1>3. NoShot({})
  BY DEF NoShot
<1> QED
  BY <1>1, <1>2, <1>3, NoneSent DEF Phases

\* Fewer tankets, and no new shots.
LEMMA PhasesFewer ==
    ASSUME NEW tk, NEW tk2, NEW coming, NEW inFlight, NEW inFlight2,
           NEW s \in Phases(tk, coming, inFlight), Present(tk2) \subseteq Present(tk),
           \A p \in Tankets : <<"shot", p>> \in inFlight2 => <<"shot", p>> \in inFlight
    PROVE  s \in Phases(tk2, coming, inFlight2)
BY DEF Phases, Chosen, NoMoves, NoShot

LEMMA PhasesInterval ==
    ASSUME IInv, PhasesInv, SimulateInterval,
           Discipline = "Simultaneous", WaitForShots, NonNormal = {}
    PROVE  PhasesInv'
<1>1. PICK answers \in Answers, thinking \in [Called -> Delays] :
        LET start == [World EXCEPT !.turns.sendActions = <<>>,
                                   !.flying = {AfterInterval(f) : f \in flying}]
            w == InvokeAll(start, sent, answers, thinking)
        IN  /\ turns' = w.turns
            /\ tank' = w.tank
            /\ lives' = w.lives
            /\ missedMoves' = w.missedMoves
            /\ flying' = w.flying
            /\ clientMove' = w.clientMove
  BY Zenon DEF SimulateInterval
<1>2. PICK start : start = [World EXCEPT !.turns.sendActions = <<>>,
                                         !.flying = {AfterInterval(f) : f \in flying}]
  OBVIOUS
<1>3. PICK w : w = InvokeAll(start, sent, answers, thinking)
  OBVIOUS
<1>4. turns' = w.turns /\ tank' = w.tank /\ flying' = w.flying
  BY <1>1, <1>2, <1>3, Zenon
<1>5. PICK away : away = turns.deserted
  OBVIOUS
<1>6. PICK q \in Seq(SimAction), more \in Seq(SimAction) : q = sent /\ more = turns.sendActions
  <2>1. sent \in Seq(SimAction) /\ turns \in TurnsState
    BY DEF IInv, TypeOK
  <2>2. turns.sendActions \in Seq(SimAction)
    BY <2>1, StateFields
  <2> QED
    BY <2>1, <2>2
<1>7. start \in WorldsOf(away)
  <2>1. start \in Worlds(sent \o turns.sendActions, turns.deserted)
    BY <1>2, WorldSent
  <2> QED
    BY <1>5, <2>1, WorldsOfAway
<1>8. ASSUME NEW i \in 1 .. Len(q) PROVE Thinks(q[i], thinking, away)
  <2> SUFFICES ASSUME q[i].kind = "start", q[i].player \in Computer \cup away
               PROVE  thinking[q[i].player] \in Nat
    BY DEF Thinks
  <2>1. q[i] \in ToSet(sent)
    BY <1>6 DEF ToSet
  <2>2. q[i].player \in Called
    BY <1>5, <2>1 DEF Called
  <2> QED
    BY <2>2, TimesAssumption
<1>9. PICK t : t = [turns EXCEPT !.sendActions = <<>>]
  OBVIOUS
<1>10. PICK inFlight : inFlight = {AfterInterval(f) : f \in flying}
  OBVIOUS
<1>11. start.turns = t /\ start.tank = tank /\ start.flying = inFlight /\ start \in WorldState
  BY <1>2, <1>7, <1>9, <1>10 DEF World, WorldsOf
<1>12. /\ t \in TurnsState /\ t.shotsState = turns.shotsState /\ t.moveId = turns.moveId
       /\ t.moves = turns.moves /\ t.sendActions = <<>>
  <2>1. turns \in TurnsState /\ <<>> \in Seq(SimAction)
    BY DEF IInv, TypeOK
  <2> QED
    BY <1>9, <2>1 DEF TurnsState
<1>13. \A p \in Tankets : <<"shot", p>> \in inFlight => <<"shot", p>> \in flying
  <2> SUFFICES ASSUME NEW p \in Tankets, NEW f \in flying, <<"shot", p>> = AfterInterval(f)
               PROVE  f = <<"shot", p>>
    BY <1>10
  <2> QED
    BY DEF AfterInterval
<1>14. OneShots(q) /\ (HasShots(q) => ~HasShots(more))
  BY <1>6 DEF PhasesInv, Phases
<1>15. t \in Phases(tank, Coming(q, 0, more), inFlight)
  <2>1. Coming(q, 0, more) <=> HasShots(q) \/ HasShots(more)
    <3>1. \A j \in 1 .. Len(q) : 0 < j
      OBVIOUS
    <3> QED
      BY <3>1 DEF Coming, HasShots
  <2> QED
    BY <1>6, <1>12, <1>13, <2>1, NoneSent DEF PhasesInv, Phases, Chosen, HasMove, NoMoves, NoShot
<1>16. start \in Phased(Coming(q, 0, more))
  BY <1>11, <1>15 DEF Phased
<1>17. w \in Phased(HasShots(more))
  BY <1>3, <1>6, <1>7, <1>8, <1>14, <1>16, PhasesAll
<1>18. sent' = more
  BY <1>6 DEF SimulateInterval
<1>19. OneShots(more)
  BY <1>6 DEF PhasesInv, Phases
<1> QED
  BY <1>4, <1>17, <1>18, <1>19 DEF PhasesInv, Phased

LEMMA PhasesTick ==
    ASSUME IInv, PhasesInv, Tick,
           Discipline = "Simultaneous", WaitForShots, NonNormal = {}
    PROVE  PhasesInv'
<1>1. PICK order \in OrdersNow : turns' = Simulate(turns, tank, flying, elapsed, order)
  BY DEF Tick
<1>2. PICK away, tk, inFlight : away = turns.deserted /\ tk = tank /\ inFlight = flying
  OBVIOUS
<1>3. PICK s \in TurnsState, ahead \in Seq(SimAction), time \in {0, 1} : s = turns /\ ahead = sent /\ time = elapsed
  BY DEF IInv, TypeOK
<1>4. PICK coming \in BOOLEAN : coming = HasShots(sent)
  BY DEF HasShots
<1>5. s \in Turns(tk, ahead, away) /\ s \in Phases(tk, coming, inFlight)
  BY <1>2, <1>3, <1>4 DEF IInv, TurnsInv, PhasesInv
<1>6. Simulate(s, tk, inFlight, time, order) \in Phases(tk, coming, inFlight)
  BY <1>5, PhasesSimulate
<1>7. turns' \in Phases(tank, HasShots(sent), flying)
  BY <1>1, <1>2, <1>3, <1>4, <1>6
<1> QED
  BY <1>7 DEF PhasesInv, Tick

LEMMA PhasesPlayer ==
    ASSUME IInv, PhasesInv, NEW p \in Tankets, Player(p),
           Discipline = "Simultaneous", WaitForShots, NonNormal = {}
    PROVE  PhasesInv'
<1>1. PICK tk, inFlight, coming : tk = tank /\ inFlight = flying /\ coming = HasShots(sent)
  OBVIOUS
<1>2. PICK s \in Phases(tk, coming, inFlight) : s = turns
  BY <1>1 DEF PhasesInv
<1>3. ASSUME NEW o \in told, NEW type \in {"eShot", "eSkip"}, PlayedMove(p, o[2], type)
      PROVE  PhasesInv'
  <2>1. PICK move \in MoveIds : move = o[2]
    BY DEF IInv, TypeOK
  <2>2. PICK m : m = [player |-> p, move |-> move, type |-> type]
    OBVIOUS
  <2>3. m \in Message /\ m.move # 0
    BY <2>2 DEF Message, MoveIds
  <2>4. PICK t : t = MoveFinished(s, tk, m, 0)
    OBVIOUS
  <2>5. t \in Phases(tk, coming, inFlight)
    BY <2>3, <2>4, PhasesFinished
  <2>6. turns' = t /\ UNCHANGED <<sent, tank, flying>>
    BY <1>1, <1>2, <1>3, <2>1, <2>2, <2>4 DEF PlayedMove
  <2> QED
    BY <1>1, <2>5, <2>6 DEF PhasesInv
<1>4. CASE Leave(p)
  <2>1. PICK gone \in SUBSET Tankets : gone = s.deserted \cup {p}
    BY StateFields DEF Phases
  <2>2. PICK t : t = [s EXCEPT !.deserted = gone]
    OBVIOUS
  <2>3. /\ t \in TurnsState /\ t.shotsState = s.shotsState /\ t.sendActions = s.sendActions
        /\ t.moveId = s.moveId /\ t.moves = s.moves
    BY <2>2 DEF Phases, TurnsState
  <2>4. t \in Phases(tk, coming, inFlight)
    BY <2>3, PhasesSame DEF SameShots
  <2>5. turns' = t /\ UNCHANGED <<sent, tank, flying>>
    BY <1>2, <1>4, <2>1, <2>2 DEF Leave
  <2> QED
    BY <1>1, <2>4, <2>5 DEF PhasesInv
<1>5. CASE ShotEnds(p) \/ TankDies(p) \/ Resurrect(p) \/ Removed(p)
  <2>1. turns' = turns /\ sent' = sent
    BY <1>5 DEF ShotEnds, TankDies, Resurrect, Removed
  <2>2. PICK tk2, inFlight2 : tk2 = tank' /\ inFlight2 = flying'
    OBVIOUS
  <2>3. tank \in [Tankets -> TankStates]
    BY DEF IInv, TypeOK
  <2>4. Present(tank') \subseteq Present(tank)
    BY <1>5, <2>3 DEF ShotEnds, TankDies, Resurrect, Removed, Present, Alive, Rezzed
  <2>5. \A x \in Tankets : <<"shot", x>> \in flying' => <<"shot", x>> \in flying
    BY <1>5 DEF ShotEnds, TankDies, Resurrect, Removed
  <2>6. s \in Phases(tk2, coming, inFlight2)
    BY <1>1, <2>2, <2>4, <2>5, PhasesFewer
  <2> QED
    BY <1>1, <1>2, <2>1, <2>2, <2>6 DEF PhasesInv
<1> QED
  BY <1>3, <1>4, <1>5 DEF Player

LEMMA PhasesNext ==
    ASSUME IInv, IInv', PhasesInv, [Next]_vars,
           Discipline = "Simultaneous", WaitForShots, NonNormal = {}
    PROVE  PhasesInv'
<1>1. CASE UNCHANGED vars
  BY <1>1 DEF vars, PhasesInv
<1>2. CASE Tick
  BY <1>2, PhasesTick
<1>3. CASE SimulateInterval
  BY <1>3, PhasesInterval
<1>4. CASE EnterState
  <2>1. PICK order : turns' = EnterTurns(turns, tank', order)
    BY <1>4 DEF EnterState
  <2>2. PICK s, t, tk : s = turns /\ t = turns' /\ tk = tank' /\ s \in TurnsState /\ t \in TurnsState
    BY DEF IInv, TypeOK
  <2>3. s.sendActions = <<>> /\ sent' = <<>> /\ flying' = {}
    BY <1>4, <2>2 DEF EnterState
  <2>4. t \in Phases(tk, FALSE, {})
    BY <2>1, <2>2, <2>3, PhasesEnter
  <2>5. HasShots(sent') = FALSE /\ OneShots(sent')
    BY <2>3, NoneSent DEF HasShots
  <2> QED
    BY <2>2, <2>3, <2>4, <2>5 DEF PhasesInv
<1>5. ASSUME NEW p \in Tankets, Player(p) PROVE PhasesInv'
  BY <1>5, PhasesPlayer
<1> QED
  BY <1>1, <1>2, <1>3, <1>4, <1>5 DEF Next

LEMMA PhasesInit ==
    ASSUME Init, IInv, Discipline = "Simultaneous"
    PROVE  PhasesInv
<1>1. PICK order : turns = EnterTurns(NewTurns, tank, order)
  BY DEF Init
<1>2. PICK s, t, tk : s = NewTurns /\ t = turns /\ tk = tank /\ t \in TurnsState
  BY DEF IInv, TypeOK
<1>3. s \in TurnsState /\ s.sendActions = <<>>
  <2>1. <<>> \in Seq(SimAction) /\ <<>> \in Seq(Tankets) /\ 0 \in 0 .. N /\ NoTimer \in Timer
    BY DEF NoTimer, Timer
  <2> QED
    BY <1>2, <2>1 DEF NewTurns, TurnsState
<1>4. t \in Phases(tk, FALSE, {})
  BY <1>1, <1>2, <1>3, PhasesEnter
<1>5. HasShots(sent) = FALSE /\ OneShots(sent) /\ flying = {}
  BY NoneSent DEF Init, HasShots
<1> QED
  BY <1>2, <1>4, <1>5 DEF PhasesInv

-----------------------------------------------------------------------------
(* With one life the clients know the moves: what they show of a player     *)
(* when all actions on their way are applied is the move it has.            *)

Own(a, p) == a.kind \in {"start", "stop"} /\ a.player = p

Starts(a, p) == a.kind = "start" /\ a.player = p

Asks(a, p) == Starts(a, p) /\ ~a.again

Effect(a) == IF a.kind = "start" THEN a.move ELSE 0

\* A client that shows the move "id" of p shows "move" after the actions of q.
Shown(q, p, id, move) ==
    \/ move = id /\ \A i \in 1 .. Len(q) : ~Own(q[i], p)
    \/ \E i \in 1 .. Len(q) : /\ Own(q[i], p) /\ move = Effect(q[i])
                              /\ \A j \in i + 1 .. Len(q) : ~Own(q[j], p)

NotAsked(q, p) == \A i \in 1 .. Len(q) : ~Asks(q[i], p)

\* The highest id among the moves that p can have had.
Highest(s, p) == IF p \in NonNormal THEN s.nextNonNormalMoveId ELSE s.nextMoveId

\* A computer player is asked once for the move it has, which cannot time out before;
\* if it was asked again it is not asked any more.
AskedAt(s, q, p, i) ==
    /\ q[i].move <= Highest(s, p)
    /\ q[i].again => ~q[i].timed
    /\ ~q[i].again =>
          /\ q[i].move = s.moveId[p] /\ ~s.playingPlayers[p].started
          /\ \A j \in 1 .. Len(q) : Starts(q[j], p) /\ q[j].move = q[i].move => j = i

Asked(s, q, p) == \A i \in 1 .. Len(q) : Starts(q[i], p) => AskedAt(s, q, p, i)

Knows(s, q, p, id) ==
    Shown(q, p, id, s.moveId[p]) /\ (p \in Computer => Asked(s, q, p))

\* "ahead" is what is applied before the actions that wait to be sent, "ids" are the
\* moves that the clients show, and nobody of "free" is asked for a move.
Knowing(tk, ahead, ids, free) ==
    {s \in TurnsState : /\ \A p \in Alive(tk) : Knows(s, ahead \o s.sendActions, p, ids[p])
                        /\ \A p \in free : NotAsked(ahead \o s.sendActions, p)}

\* A step that tells the clients nothing of moves.
Quietly(s, t) ==
    /\ t \in TurnsState
    /\ t.moveId = s.moveId
    /\ \A p \in Tankets : t.playingPlayers[p].started => s.playingPlayers[p].started
    /\ s.nextMoveId <= t.nextMoveId /\ s.nextNonNormalMoveId <= t.nextNonNormalMoveId
    /\ \/ t.sendActions = s.sendActions
       \/ \E a \in SimAction : /\ a.kind \notin {"start", "stop"}
                               /\ t.sendActions = Append(s.sendActions, a)

LEMMA ActionFields ==
    ASSUME NEW a \in SimAction
    PROVE  /\ a.kind = "start" => /\ a.player \in Tankets /\ a.move \in MoveIds
                                  /\ a.timed \in BOOLEAN /\ a.again \in BOOLEAN
           /\ a.kind = "stop" => a.player \in Tankets
           /\ a.kind \in {"start", "stop", "shots", "turn"}
BY DEF SimAction, NextTurn

LEMMA ShownAppend ==
    ASSUME NEW q \in Seq(SimAction), NEW a \in SimAction, NEW p, NEW id, NEW move
    PROVE  /\ ~Own(a, p) /\ Shown(q, p, id, move) => Shown(Append(q, a), p, id, move)
           /\ Own(a, p) => Shown(Append(q, a), p, id, Effect(a))
<1> DEFINE r == Append(q, a)
<1>1. /\ Len(q) \in Nat /\ Len(r) = Len(q) + 1 /\ r[Len(q) + 1] = a
      /\ \A i \in 1 .. Len(q) : r[i] = q[i]
  BY Appended
<1> HIDE DEF r
<1>2. \A i \in 1 .. Len(r) : i \in 1 .. Len(q) \/ i = Len(q) + 1
  BY <1>1
<1>3. ASSUME ~Own(a, p), Shown(q, p, id, move) PROVE Shown(r, p, id, move)
  <2>1. CASE move = id /\ \A i \in 1 .. Len(q) : ~Own(q[i], p)
    <3>1. \A i \in 1 .. Len(r) : ~Own(r[i], p)
      BY <1>1, <1>2, <1>3, <2>1
    <3> QED
      BY <2>1, <3>1 DEF Shown
  <2>2. ASSUME NEW i \in 1 .. Len(q), Own(q[i], p), move = Effect(q[i]),
               \A j \in i + 1 .. Len(q) : ~Own(q[j], p)
        PROVE  Shown(r, p, id, move)
    <3>1. i \in 1 .. Len(r) /\ r[i] = q[i]
      BY <1>1
    <3>2. ASSUME NEW j \in i + 1 .. Len(r) PROVE ~Own(r[j], p)
      <4>1. CASE j \in i + 1 .. Len(q)
        BY <1>1, <2>2, <4>1
      <4>2. CASE j = Len(q) + 1
        BY <1>1, <1>3, <4>2
      <4> QED
        BY <1>1, <4>1, <4>2
    <3> QED
      BY <2>2, <3>1, <3>2 DEF Shown
  <2> QED
    BY <1>3, <2>1, <2>2 DEF Shown
<1>4. ASSUME Own(a, p) PROVE Shown(r, p, id, Effect(a))
  <2>1. Len(q) + 1 \in 1 .. Len(r) /\ \A j \in Len(q) + 1 + 1 .. Len(r) : ~Own(r[j], p)
    BY <1>1
  <2> QED
    BY <1>1, <1>4, <2>1 DEF Shown
<1> QED
  BY <1>3, <1>4 DEF r

LEMMA NotAskedAppend ==
    ASSUME NEW q \in Seq(SimAction), NEW a \in SimAction, NEW p, ~Asks(a, p), NotAsked(q, p)
    PROVE  NotAsked(Append(q, a), p)
<1> DEFINE r == Append(q, a)
<1>1. /\ Len(q) \in Nat /\ Len(r) = Len(q) + 1 /\ r[Len(q) + 1] = a
      /\ \A i \in 1 .. Len(q) : r[i] = q[i]
  BY Appended
<1> HIDE DEF r
<1>2. \A i \in 1 .. Len(r) : i \in 1 .. Len(q) \/ i = Len(q) + 1
  BY <1>1
<1>3. NotAsked(r, p)
  BY <1>1, <1>2 DEF NotAsked
<1> QED
  BY <1>3 DEF r

LEMMA HighestRises ==
    ASSUME NEW s \in TurnsState, NEW t \in TurnsState, NEW p,
           s.nextMoveId <= t.nextMoveId, s.nextNonNormalMoveId <= t.nextNonNormalMoveId
    PROVE  Highest(s, p) \in Nat /\ Highest(t, p) \in Nat /\ Highest(s, p) <= Highest(t, p)
BY StateFields DEF Highest

\* Who is asked before is asked after a step that keeps its move and does not start it.
LEMMA AskedSame ==
    ASSUME NEW s \in TurnsState, NEW t \in TurnsState, NEW q \in Seq(SimAction), NEW p \in Tankets,
           s.nextMoveId <= t.nextMoveId, s.nextNonNormalMoveId <= t.nextNonNormalMoveId,
           t.moveId[p] = s.moveId[p],
           t.playingPlayers[p].started => s.playingPlayers[p].started, Asked(s, q, p)
    PROVE  Asked(t, q, p)
<1>1. Highest(s, p) \in Nat /\ Highest(t, p) \in Nat /\ Highest(s, p) <= Highest(t, p)
  BY HighestRises
<1> SUFFICES ASSUME NEW i \in 1 .. Len(q), Starts(q[i], p) PROVE AskedAt(t, q, p, i)
  BY DEF Asked
<1>2. AskedAt(s, q, p, i)
  BY DEF Asked
<1>3. q[i].move <= Highest(t, p)
  <2>1. q[i] \in SimAction
    OBVIOUS
  <2>2. q[i].move \in Nat
    BY <2>1, ActionFields DEF Starts, MoveIds
  <2>3. q[i].move <= Highest(s, p)
    BY <1>2 DEF AskedAt
  <2> QED
    BY <1>1, <2>2, <2>3
<1> QED
  BY <1>2, <1>3 DEF AskedAt

LEMMA AskedOther ==
    ASSUME NEW s, NEW q \in Seq(SimAction), NEW a \in SimAction, NEW p,
           ~Starts(a, p), Asked(s, q, p)
    PROVE  Asked(s, Append(q, a), p)
<1> DEFINE r == Append(q, a)
<1>1. /\ Len(q) \in Nat /\ Len(r) = Len(q) + 1 /\ r[Len(q) + 1] = a
      /\ \A i \in 1 .. Len(q) : r[i] = q[i]
  BY Appended
<1> HIDE DEF r
<1>2. \A i \in 1 .. Len(r) : i \in 1 .. Len(q) \/ i = Len(q) + 1
  BY <1>1
<1>3. ASSUME NEW i \in 1 .. Len(r), Starts(r[i], p) PROVE AskedAt(s, r, p, i)
  <2>1. i \in 1 .. Len(q) /\ r[i] = q[i]
    BY <1>1, <1>2, <1>3
  <2>2. AskedAt(s, q, p, i)
    BY <1>3, <2>1 DEF Asked
  <2>3. \A j \in 1 .. Len(r) : Starts(r[j], p) => j \in 1 .. Len(q) /\ r[j] = q[j]
    BY <1>1, <1>2
  <2> QED
    BY <2>1, <2>2, <2>3 DEF AskedAt
<1>4. Asked(s, r, p)
  BY <1>3 DEF Asked
<1> QED
  BY <1>4 DEF r

\* The first ask for a new move.
LEMMA AskedNew ==
    ASSUME NEW s, NEW t, NEW q \in Seq(SimAction), NEW a \in SimAction, NEW p,
           Starts(a, p), ~a.again, Highest(s, p) \in Nat,
           a.move = Highest(s, p) + 1, Highest(t, p) = a.move, t.moveId[p] = a.move,
           ~t.playingPlayers[p].started, s.moveId[p] = 0, Asked(s, q, p)
    PROVE  Asked(t, Append(q, a), p)
<1> DEFINE r == Append(q, a)
<1>1. /\ Len(q) \in Nat /\ Len(r) = Len(q) + 1 /\ r[Len(q) + 1] = a
      /\ \A i \in 1 .. Len(q) : r[i] = q[i]
  BY Appended
<1> HIDE DEF r
<1>2. \A i \in 1 .. Len(r) : i \in 1 .. Len(q) \/ i = Len(q) + 1
  BY <1>1
<1>3. ASSUME NEW i \in 1 .. Len(q), Starts(q[i], p)
      PROVE  q[i].move \in Nat /\ q[i].move < a.move /\ q[i].again /\ ~q[i].timed
  <2>1. q[i] \in SimAction /\ AskedAt(s, q, p, i)
    BY <1>3 DEF Asked
  <2>2. q[i].move \in Nat /\ q[i].move # 0
    BY <1>3, <2>1, ActionFields DEF Starts, MoveIds
  <2> QED
    BY <2>1, <2>2 DEF AskedAt
<1>4. ASSUME NEW i \in 1 .. Len(r), Starts(r[i], p) PROVE AskedAt(t, r, p, i)
  <2>1. CASE i \in 1 .. Len(q)
    <3>1. r[i] = q[i] /\ r[i].move \in Nat /\ r[i].move < a.move /\ r[i].again /\ ~r[i].timed
      BY <1>1, <1>3, <1>4, <2>1
    <3> QED
      BY <3>1 DEF AskedAt
  <2>2. CASE i = Len(q) + 1
    <3>1. r[i] = a
      BY <1>1, <2>2
    <3>2. \A j \in 1 .. Len(r) : Starts(r[j], p) /\ r[j].move = a.move => j = i
      BY <1>1, <1>2, <1>3, <2>2
    <3> QED
      BY <3>1, <3>2 DEF AskedAt
  <2> QED
    BY <1>2, <2>1, <2>2
<1>5. Asked(t, r, p)
  BY <1>4 DEF Asked
<1> QED
  BY <1>5 DEF r

\* The move is asked for again, when it was asked for.
LEMMA AskedAgain ==
    ASSUME NEW s, NEW q \in Seq(SimAction), NEW a \in SimAction, NEW p,
           Starts(a, p), a.again, ~a.timed, a.move <= Highest(s, p), NotAsked(q, p), Asked(s, q, p)
    PROVE  Asked(s, Append(q, a), p)
<1> DEFINE r == Append(q, a)
<1>1. /\ Len(q) \in Nat /\ Len(r) = Len(q) + 1 /\ r[Len(q) + 1] = a
      /\ \A i \in 1 .. Len(q) : r[i] = q[i]
  BY Appended
<1> HIDE DEF r
<1>2. \A i \in 1 .. Len(r) : i \in 1 .. Len(q) \/ i = Len(q) + 1
  BY <1>1
<1>3. ASSUME NEW i \in 1 .. Len(r), Starts(r[i], p) PROVE AskedAt(s, r, p, i)
  <2>1. CASE i \in 1 .. Len(q)
    <3>1. r[i] = q[i] /\ Starts(q[i], p)
      BY <1>1, <1>3, <2>1
    <3>2. AskedAt(s, q, p, i) /\ q[i].again
      BY <2>1, <3>1 DEF Asked, NotAsked, Asks
    <3> QED
      BY <3>1, <3>2 DEF AskedAt
  <2>2. CASE i = Len(q) + 1
    <3>1. r[i] = a
      BY <1>1, <2>2
    <3> QED
      BY <3>1 DEF AskedAt
  <2> QED
    BY <1>2, <2>1, <2>2
<1>4. Asked(s, r, p)
  BY <1>3 DEF Asked
<1> QED
  BY <1>4 DEF r

\* The actions on their way, with those that wait to be sent.
LEMMA QueueOf ==
    ASSUME NEW ahead \in Seq(SimAction), NEW s \in TurnsState
    PROVE  ahead \o s.sendActions \in Seq(SimAction)
<1>1. s.sendActions \in Seq(SimAction)
  BY StateFields
<1> QED
  BY <1>1

LEMMA QueueAdds ==
    ASSUME NEW ahead \in Seq(SimAction), NEW s \in TurnsState, NEW t \in TurnsState,
           NEW a \in SimAction, t.sendActions = Append(s.sendActions, a)
    PROVE  ahead \o t.sendActions = Append(ahead \o s.sendActions, a)
<1>1. PICK y \in Seq(SimAction) : y = s.sendActions
  BY StateFields
<1>2. ahead \o Append(y, a) = Append(ahead \o y, a)
  BY QueueAppend
<1> QED
  BY <1>1, <1>2

LEMMA KnowingQuiet ==
    ASSUME NEW tk, NEW ahead \in Seq(SimAction), NEW ids, NEW free \in SUBSET Tankets,
           NEW s \in Knowing(tk, ahead, ids, free), NEW t, Quietly(s, t)
    PROVE  t \in Knowing(tk, ahead, ids, free)
<1>1. s \in TurnsState /\ t \in TurnsState
  BY DEF Knowing, Quietly
<1>2. PICK q \in Seq(SimAction) : q = ahead \o s.sendActions
  BY <1>1, QueueOf
<1>3. PICK r : r = ahead \o t.sendActions
  OBVIOUS
<1>4. r = q \/ \E a \in SimAction : a.kind \notin {"start", "stop"} /\ r = Append(q, a)
  <2>1. CASE t.sendActions = s.sendActions
    BY <1>2, <1>3, <2>1
  <2>2. ASSUME NEW a \in SimAction, a.kind \notin {"start", "stop"},
               t.sendActions = Append(s.sendActions, a)
        PROVE  \E b \in SimAction : b.kind \notin {"start", "stop"} /\ r = Append(q, b)
    <3>1. r = Append(q, a)
      BY <1>1, <1>2, <1>3, <2>2, QueueAdds
    <3> QED
      BY <2>2, <3>1
  <2> QED
    BY <2>1, <2>2 DEF Quietly
<1>5. ASSUME NEW p \in Tankets, Asked(s, q, p) PROVE Asked(t, q, p)
  <2>1. /\ s.nextMoveId <= t.nextMoveId /\ s.nextNonNormalMoveId <= t.nextNonNormalMoveId
        /\ t.moveId[p] = s.moveId[p]
        /\ t.playingPlayers[p].started => s.playingPlayers[p].started
    BY DEF Quietly
  <2> QED
    BY <1>1, <1>5, <2>1, AskedSame
<1>6. ASSUME NEW p \in Alive(tk) PROVE Knows(t, r, p, ids[p])
  <2>1. p \in Tankets /\ Knows(s, q, p, ids[p]) /\ t.moveId[p] = s.moveId[p]
    BY <1>2 DEF Knowing, Alive, Quietly
  <2>2. CASE r = q
    BY <1>5, <2>1, <2>2 DEF Knows
  <2>3. ASSUME NEW a \in SimAction, a.kind \notin {"start", "stop"}, r = Append(q, a)
        PROVE  Knows(t, r, p, ids[p])
    <3>1. ~Own(a, p) /\ ~Starts(a, p)
      BY <2>3 DEF Own, Starts
    <3>2. Shown(q, p, ids[p], s.moveId[p])
      BY <2>1 DEF Knows
    <3>3. Shown(r, p, ids[p], s.moveId[p])
      BY <2>3, <3>1, <3>2, ShownAppend
    <3>4. p \in Computer => Asked(t, r, p)
      BY <1>5, <2>1, <2>3, <3>1, AskedOther DEF Knows
    <3> QED
      BY <2>1, <3>3, <3>4 DEF Knows
  <2> QED
    BY <1>4, <2>2, <2>3
<1>7. ASSUME NEW p \in free PROVE NotAsked(r, p)
  <2>1. NotAsked(q, p)
    BY <1>2 DEF Knowing
  <2>2. ASSUME NEW a \in SimAction, a.kind \notin {"start", "stop"}, r = Append(q, a)
        PROVE  NotAsked(r, p)
    <3>1. ~Asks(a, p)
      BY <2>2 DEF Asks, Starts
    <3> QED
      BY <2>1, <2>2, <3>1, NotAskedAppend
  <2> QED
    BY <1>4, <2>1, <2>2
<1> QED
  BY <1>1, <1>3, <1>6, <1>7 DEF Knowing

\* The end of a move is told after all that was told of it before.
LEMMA KnowingEnded ==
    ASSUME NEW tk, NEW ahead \in Seq(SimAction), NEW ids, NEW free \in SUBSET Tankets,
           NEW s \in Knowing(tk, ahead, ids, free), NEW p \in Tankets, NEW t, Ended(s, t, p),
           p \in Alive(tk) \cap Computer => p \in free
    PROVE  t \in Knowing(tk, ahead, ids, free)
<1>1. s \in TurnsState /\ t \in TurnsState
  BY DEF Knowing, Ended
<1>2. PICK q \in Seq(SimAction) : q = ahead \o s.sendActions
  BY <1>1, QueueOf
<1>3. PICK r : r = ahead \o t.sendActions
  OBVIOUS
<1>4. PICK a \in SimAction : a = Stop(p) /\ a.kind = "stop" /\ a.player = p
  BY ActionTypes
<1>5. r = Append(q, a)
  <2>1. t.sendActions = Append(s.sendActions, a)
    BY <1>4 DEF Ended
  <2>2. ahead \o t.sendActions = Append(ahead \o s.sendActions, a)
    BY <1>1, <2>1, QueueAdds
  <2> QED
    BY <1>2, <1>3, <2>2
<1>6. s.nextMoveId <= t.nextMoveId /\ s.nextNonNormalMoveId <= t.nextNonNormalMoveId
  <2>1. s.nextMoveId \in Nat /\ s.nextNonNormalMoveId \in Nat
    BY <1>1, StateFields
  <2> QED
    BY <2>1 DEF Ended
<1>7. ASSUME NEW o \in Tankets PROVE ~Starts(a, o) /\ ~Asks(a, o)
  BY <1>4 DEF Asks, Starts
<1>8. ASSUME NEW o \in Alive(tk) PROVE Knows(t, r, o, ids[o])
  <2>1. o \in Tankets /\ Knows(s, q, o, ids[o])
    BY <1>2 DEF Knowing, Alive
  <2>2. CASE o = p
    <3>1. Shown(r, p, ids[p], t.moveId[p])
      <4>1. Own(a, p) /\ Effect(a) = 0 /\ t.moveId[p] = 0
        BY <1>4 DEF Own, Effect, Ended
      <4>2. Own(a, p) => Shown(Append(q, a), p, ids[p], Effect(a))
        BY ShownAppend
      <4> QED
        BY <1>5, <4>1, <4>2
    <3>2. ASSUME p \in Computer PROVE Asked(t, r, p)
      <4>1. NotAsked(q, p)
        BY <1>2, <2>2, <3>2 DEF Knowing
      <4>2. Asked(t, q, p)
        <5> SUFFICES ASSUME NEW i \in 1 .. Len(q), Starts(q[i], p) PROVE AskedAt(t, q, p, i)
          BY DEF Asked
        <5>1. AskedAt(s, q, p, i) /\ q[i].again
          BY <2>1, <2>2, <3>2, <4>1 DEF Knows, Asked, NotAsked, Asks
        <5>2. Highest(t, p) = Highest(s, p)
          BY DEF Highest, Ended
        <5> QED
          BY <5>1, <5>2 DEF AskedAt
      <4> QED
        BY <1>5, <1>7, <4>2, AskedOther
    <3> QED
      BY <2>2, <3>1, <3>2 DEF Knows
  <2>3. CASE o # p
    <3>1. t.moveId[o] = s.moveId[o] /\ t.playingPlayers[o] = s.playingPlayers[o]
      BY <2>1, <2>3 DEF Ended, SameBut
    <3>2. ~Own(a, o)
      BY <1>4, <2>3 DEF Own
    <3>3. Shown(r, o, ids[o], s.moveId[o])
      BY <1>5, <2>1, <3>2, ShownAppend DEF Knows
    <3>4. o \in Computer => Asked(t, q, o)
      BY <1>1, <1>6, <2>1, <3>1, AskedSame DEF Knows
    <3>5. o \in Computer => Asked(t, r, o)
      BY <1>5, <1>7, <2>1, <3>4, AskedOther
    <3> QED
      BY <3>1, <3>3, <3>5 DEF Knows
  <2> QED
    BY <2>2, <2>3
<1>9. ASSUME NEW o \in free PROVE NotAsked(r, o)
  BY <1>2, <1>5, <1>7, NotAskedAppend DEF Knowing
<1> QED
  BY <1>1, <1>3, <1>8, <1>9 DEF Knowing

\* The next id of a move is a new one for a computer player.
NewId(s, t, p, move) ==
    p \in Computer =>
        Highest(s, p) \in Nat /\ move = Highest(s, p) + 1 /\ Highest(t, p) = move

\* A move is given to who has none, and is asked for.
LEMMA KnowingGiven ==
    ASSUME NEW tk, NEW ahead \in Seq(SimAction), NEW ids, NEW free \in SUBSET Tankets,
           NEW s \in Knowing(tk, ahead, ids, free), Timers(s), NEW p \in Tankets, p \notin free,
           s.moveId[p] = 0, NEW move \in MoveIds, NEW time \in Nat,
           NEW t, Given(s, t, p, move, time),
           s.nextMoveId <= t.nextMoveId, s.nextNonNormalMoveId <= t.nextNonNormalMoveId,
           NewId(s, t, p, move)
    PROVE  t \in Knowing(tk, ahead, ids, free)
<1>1. s \in TurnsState /\ t \in TurnsState
  BY DEF Knowing, Given
<1>2. PICK q \in Seq(SimAction) : q = ahead \o s.sendActions
  BY <1>1, QueueOf
<1>3. PICK r : r = ahead \o t.sendActions
  OBVIOUS
<1>4. PICK timed \in BOOLEAN : t.sendActions = Append(s.sendActions, Start(p, move, timed))
  BY DEF Given
<1>5. PICK a \in SimAction : a = Start(p, move, timed)
  BY ActionTypes
<1>6. a.kind = "start" /\ a.player = p /\ a.move = move /\ ~a.again
  BY <1>5 DEF Start
<1>7. r = Append(q, a)
  <2>1. t.sendActions = Append(s.sendActions, a)
    BY <1>4, <1>5
  <2>2. ahead \o t.sendActions = Append(ahead \o s.sendActions, a)
    BY <1>1, <2>1, QueueAdds, SMTT(20)
  <2> QED
    BY <1>2, <1>3, <2>2
<1>8. ASSUME NEW o \in Alive(tk) PROVE Knows(t, r, o, ids[o])
  <2>1. o \in Tankets /\ Knows(s, q, o, ids[o])
    BY <1>2 DEF Knowing, Alive
  <2>2. CASE o = p
    <3>1. Shown(r, p, ids[p], t.moveId[p])
      <4>1. Own(a, p) /\ Effect(a) = move /\ t.moveId[p] = move
        BY <1>6 DEF Own, Effect, Given
      <4>2. Own(a, p) => Shown(Append(q, a), p, ids[p], Effect(a))
        BY ShownAppend
      <4> QED
        BY <1>7, <4>1, <4>2
    <3>2. ASSUME p \in Computer PROVE Asked(t, r, p)
      <4>1. Asked(s, q, p)
        BY <2>1, <2>2, <3>2 DEF Knows
      <4>2. ~t.playingPlayers[p].started
        <5>1. s.playingPlayers[p] = NoTimer
          BY DEF Timers
        <5>2. t.playingPlayers[p] \in {NoTimer, NewTimer(move, time)}
          BY <5>1 DEF Given
        <5> QED
          BY <5>2 DEF NoTimer, NewTimer
      <4>3. /\ Highest(s, p) \in Nat /\ a.move = Highest(s, p) + 1 /\ Highest(t, p) = a.move
            /\ t.moveId[p] = a.move /\ Starts(a, p)
        BY <1>6, <3>2 DEF NewId, Given, Starts
      <4>4. Asked(t, Append(q, a), p)
        BY <1>6, <4>1, <4>2, <4>3, AskedNew
      <4> QED
        BY <1>7, <4>4
    <3> QED
      BY <2>2, <3>1, <3>2 DEF Knows
  <2>3. CASE o # p
    <3>1. t.moveId[o] = s.moveId[o] /\ t.playingPlayers[o] = s.playingPlayers[o]
      BY <2>1, <2>3 DEF Given, SameBut
    <3>2. ~Own(a, o) /\ ~Starts(a, o)
      BY <1>6, <2>3 DEF Own, Starts
    <3>3. Shown(r, o, ids[o], s.moveId[o])
      BY <1>7, <2>1, <3>2, ShownAppend DEF Knows
    <3>4. o \in Computer => Asked(t, q, o)
      BY <1>1, <2>1, <3>1, AskedSame DEF Knows
    <3>5. o \in Computer => Asked(t, r, o)
      BY <1>7, <2>1, <3>2, <3>4, AskedOther
    <3> QED
      BY <3>1, <3>3, <3>5 DEF Knows
  <2> QED
    BY <2>2, <2>3
<1>9. ASSUME NEW o \in free PROVE NotAsked(r, o)
  <2>1. ~Asks(a, o)
    BY <1>6 DEF Asks, Starts
  <2> QED
    BY <1>2, <1>7, <2>1, NotAskedAppend DEF Knowing
<1> QED
  BY <1>1, <1>3, <1>8, <1>9 DEF Knowing

\* A computer player that used its batteries is asked again.
LEMMA KnowingAgain ==
    ASSUME NEW tk, NEW ahead \in Seq(SimAction), NEW ids, NEW free \in SUBSET Tankets,
           NEW s \in Knowing(tk, ahead, ids, free), NEW p \in free, NEW move \in MoveIds,
           move = s.moveId[p], move <= Highest(s, p),
           NEW t, t = AddSimulatorAction(s, StartAgain(p, move))
    PROVE  t \in Knowing(tk, ahead, ids, free)
<1>1. s \in TurnsState /\ p \in Tankets
  BY DEF Knowing
<1>2. PICK q \in Seq(SimAction) : q = ahead \o s.sendActions
  BY <1>1, QueueOf
<1>3. PICK r : r = ahead \o t.sendActions
  OBVIOUS
<1>4. StartAgain(p, move) \in SimAction
  BY <1>1, ActionTypes
<1>5. PICK a \in SimAction : a = StartAgain(p, move)
  BY <1>4
<1>6. a.kind = "start" /\ a.player = p /\ a.move = move /\ a.again /\ ~a.timed
  BY <1>5 DEF StartAgain
<1>7. /\ t \in TurnsState /\ t.sendActions = Append(s.sendActions, a)
      /\ t.moveId = s.moveId /\ t.playingPlayers = s.playingPlayers
      /\ t.nextMoveId = s.nextMoveId /\ t.nextNonNormalMoveId = s.nextNonNormalMoveId
  <2>1. t = AddSimulatorAction(s, a)
    BY <1>5
  <2> QED
    BY <1>1, <2>1, AddIs
<1>8. r = Append(q, a)
  <2>1. t.sendActions = Append(s.sendActions, a)
    BY <1>7
  <2>2. ahead \o t.sendActions = Append(ahead \o s.sendActions, a)
    BY <1>1, <2>1, QueueAdds
  <2> QED
    BY <1>2, <1>3, <2>2
<1>9. s.nextMoveId <= t.nextMoveId /\ s.nextNonNormalMoveId <= t.nextNonNormalMoveId
  <2>1. s.nextMoveId \in Nat /\ s.nextNonNormalMoveId \in Nat
    BY <1>1, StateFields
  <2> QED
    BY <1>7, <2>1
<1>10. ASSUME NEW o \in Alive(tk) PROVE Knows(t, r, o, ids[o])
  <2>1. o \in Tankets /\ Knows(s, q, o, ids[o])
    BY <1>2 DEF Knowing, Alive
  <2>2. o \in Computer => Asked(t, q, o)
    BY <1>1, <1>7, <1>9, <2>1, AskedSame DEF Knows
  <2>3. CASE o = p
    <3>1. Own(a, p) /\ Effect(a) = t.moveId[p]
      BY <1>6, <1>7 DEF Own, Effect
    <3>2. Shown(r, p, ids[p], t.moveId[p])
      <4>1. Own(a, p) => Shown(Append(q, a), p, ids[p], Effect(a))
        BY ShownAppend
      <4> QED
        BY <1>8, <3>1, <4>1
    <3>3. ASSUME p \in Computer PROVE Asked(t, r, p)
      <4>1. NotAsked(q, p) /\ Starts(a, p)
        BY <1>2, <1>6 DEF Knowing, Starts
      <4>2. a.move <= Highest(t, p)
        BY <1>6, <1>7 DEF Highest
      <4>3. Asked(t, q, p)
        BY <2>2, <2>3, <3>3
      <4> QED
        BY <1>6, <1>8, <4>1, <4>2, <4>3, AskedAgain
    <3> QED
      BY <2>3, <3>2, <3>3 DEF Knows
  <2>4. CASE o # p
    <3>1. ~Own(a, o) /\ ~Starts(a, o)
      BY <1>6, <2>4 DEF Own, Starts
    <3>2. Shown(r, o, ids[o], t.moveId[o])
      BY <1>7, <1>8, <2>1, <3>1, ShownAppend DEF Knows
    <3>3. o \in Computer => Asked(t, r, o)
      BY <1>8, <2>2, <3>1, AskedOther
    <3> QED
      BY <3>2, <3>3 DEF Knows
  <2> QED
    BY <2>3, <2>4
<1>11. ASSUME NEW o \in free PROVE NotAsked(r, o)
  <2>1. ~Asks(a, o)
    BY <1>6 DEF Asks, Starts
  <2> QED
    BY <1>2, <1>8, <2>1, NotAskedAppend DEF Knowing
<1> QED
  BY <1>3, <1>7, <1>10, <1>11 DEF Knowing

LEMMA QuietFields ==
    ASSUME NEW s \in TurnsState, NEW t \in TurnsState, Queues(t) = Queues(s),
           \A p \in Tankets : t.playingPlayers[p].started => s.playingPlayers[p].started
    PROVE  Quietly(s, t)
<1>1. s.nextMoveId \in Nat /\ s.nextNonNormalMoveId \in Nat
  BY StateFields
<1> QED
  BY <1>1 DEF Queues, Quietly

LEMMA QuietShots ==
    ASSUME NEW s \in TurnsState, NEW moves \in SUBSET Message, NEW timeOut \in BOOLEAN,
           NEW referenced \in BOOLEAN, NEW t, t = PlayShots(s, moves, timeOut, referenced)
    PROVE  Quietly(s, t)
<1>1. Played(s, t, moves, timeOut, referenced)
  BY PlayShotsIs
<1>2. PICK a \in SimAction : a = Shots(moves, timeOut, referenced) /\ a.kind = "shots"
  BY ActionTypes
<1>3. t.sendActions = Append(s.sendActions, a) /\ a.kind \notin {"start", "stop"}
  BY <1>1, <1>2 DEF Played
<1>4. s.nextMoveId \in Nat /\ s.nextNonNormalMoveId \in Nat
  BY StateFields
<1> QED
  BY <1>1, <1>3, <1>4 DEF Played, Quietly

LEMMA QuietTurn ==
    ASSUME NEW s \in TurnsState, NEW t, t = IncrementTurn(s)
    PROVE  Quietly(s, t)
<1>1. PICK a \in SimAction : a = NextTurn /\ a.kind = "turn"
  BY ActionTypes
<1>2. t = AddSimulatorAction(s, a)
  BY <1>1 DEF IncrementTurn
<1>3. /\ t \in TurnsState /\ t.sendActions = Append(s.sendActions, a)
      /\ t.moveId = s.moveId /\ t.playingPlayers = s.playingPlayers
      /\ t.nextMoveId = s.nextMoveId /\ t.nextNonNormalMoveId = s.nextNonNormalMoveId
  BY <1>2, AddIs
<1>4. s.nextMoveId \in Nat /\ s.nextNonNormalMoveId \in Nat
  BY StateFields
<1>5. a.kind \notin {"start", "stop"}
  BY <1>1
<1> QED
  BY <1>3, <1>4, <1>5 DEF Quietly

LEMMA QuietDelay ==
    ASSUME NEW s \in TurnsState, NEW p \in Tankets, NEW time \in Nat, NEW t, t = Delayed(s, p, time)
    PROVE  Quietly(s, t)
<1>1. DelayedFor(s, t, p)
  BY DelayedIs
<1> QED
  BY <1>1, QuietFields DEF DelayedFor

\* A move starts for who is not asked for it any more.
LEMMA KnowingStarted ==
    ASSUME NEW tk, NEW ahead \in Seq(SimAction), NEW ids, NEW free \in SUBSET Tankets,
           NEW s \in Knowing(tk, ahead, ids, free), NEW p \in Tankets,
           p \in Alive(tk) \cap Computer => p \in free, NEW t, t = MoveStarted(s, p)
    PROVE  t \in Knowing(tk, ahead, ids, free)
<1>1. s \in TurnsState
  BY DEF Knowing
<1>2. /\ t \in TurnsState /\ Queues(t) = Queues(s)
      /\ \A o \in Tankets : o # p => t.playingPlayers[o] = s.playingPlayers[o]
  BY <1>1, MoveStartedIs
<1>3. PICK q \in Seq(SimAction) : q = ahead \o s.sendActions
  BY <1>1, QueueOf
<1>4. /\ q = ahead \o t.sendActions /\ t.moveId = s.moveId
      /\ s.nextMoveId = t.nextMoveId /\ s.nextNonNormalMoveId = t.nextNonNormalMoveId
  BY <1>2, <1>3 DEF Queues
<1>5. ASSUME NEW o \in Alive(tk) PROVE Knows(t, q, o, ids[o])
  <2>1. o \in Tankets /\ Knows(s, q, o, ids[o])
    BY <1>3 DEF Knowing, Alive
  <2>2. ASSUME o \in Computer PROVE Asked(t, q, o)
    <3> SUFFICES ASSUME NEW i \in 1 .. Len(q), Starts(q[i], o) PROVE AskedAt(t, q, o, i)
      BY DEF Asked
    <3>1. AskedAt(s, q, o, i) /\ Highest(t, o) = Highest(s, o)
      BY <1>4, <2>1, <2>2 DEF Knows, Asked, Highest
    <3>2. CASE o = p
      <4>1. q[i].again
        BY <1>3, <2>2, <3>2 DEF Knowing, NotAsked, Asks
      <4> QED
        BY <3>1, <4>1 DEF AskedAt
    <3>3. CASE o # p
      BY <1>2, <1>4, <2>1, <3>1, <3>3 DEF AskedAt
    <3> QED
      BY <3>2, <3>3
  <2> QED
    BY <1>4, <2>1, <2>2 DEF Knows
<1> QED
  BY <1>2, <1>3, <1>4, <1>5 DEF Knowing

\* What the answers of an alive computer player need, and those of nobody else.
MayAnswer(s, tk, m, free) ==
    m.player \in Alive(tk) \cap Computer /\ s.moveId[m.player] = m.move => m.player \in free

LEMMA KnowingNonNormal ==
    ASSUME NEW tk, NEW ahead \in Seq(SimAction), NEW ids, NEW free \in SUBSET Tankets,
           NEW s \in Knowing(tk, ahead, ids, free), NEW m \in Message, MayAnswer(s, tk, m, free),
           NEW thinking \in Nat, NEW t, t = NonNormalMoveFinished(s, tk, m, thinking)
    PROVE  t \in Knowing(tk, ahead, ids, free)
<1>1. PICK p \in Tankets : p = m.player
  BY DEF Message
<1>2. CASE s.moveId[p] # m.move
  BY <1>1, <1>2 DEF NonNormalMoveFinished
<1>3. CASE s.moveId[p] = m.move
  <2>1. PICK e : e = PlayMoveFinished(s, p)
    OBVIOUS
  <2>2. s \in TurnsState
    BY DEF Knowing
  <2>3. Ended(s, e, p)
    BY <2>1, <2>2, PlayMoveFinishedIs
  <2>4. e \in Knowing(tk, ahead, ids, free)
    <3>1. p \in Alive(tk) \cap Computer => p \in free
      BY <1>1, <1>3 DEF MayAnswer
    <3> QED
      BY <2>3, <3>1, KnowingEnded
  <2>5. CASE p \in Alive(tk) \cap Computer
    <3>1. e \in TurnsState
      BY <2>3 DEF Ended
    <3>2. PICK next \in Nat : next = e.nextNonNormalMoveId + 1 /\ e.nextNonNormalMoveId <= next
      <4>1. e.nextNonNormalMoveId \in Nat
        BY <3>1, StateFields
      <4> QED
        BY <4>1
    <3>3. PICK u : u = [e EXCEPT !.nextNonNormalMoveId = next]
      OBVIOUS
    <3>4. u \in TurnsState /\ Quietly(e, u)
      <4>1. /\ u \in TurnsState /\ u.moveId = e.moveId /\ u.playingPlayers = e.playingPlayers
            /\ u.sendActions = e.sendActions /\ u.nextMoveId = e.nextMoveId
            /\ u.nextNonNormalMoveId = next
        BY <3>1, <3>3 DEF TurnsState
      <4>2. e.nextMoveId \in Nat
        BY <3>1, StateFields
      <4> QED
        BY <3>2, <4>1, <4>2 DEF Quietly
    <3>5. PICK no \in BOOLEAN, moves \in SUBSET Message : no = FALSE /\ moves = {m}
      OBVIOUS
    <3>6. PICK v : v = PlayShots(u, moves, no, no)
      OBVIOUS
    <3>7. v \in TurnsState /\ Quietly(u, v)
      <4>1. Quietly(u, v)
        BY <3>4, <3>6, QuietShots
      <4> QED
        BY <4>1 DEF Quietly
    <3>8. t = Delayed(v, p, thinking)
      BY <1>1, <1>3, <2>1, <2>5, <3>2, <3>3, <3>5, <3>6 DEF NonNormalMoveFinished
    <3>9. Quietly(v, t)
      BY <3>7, <3>8, QuietDelay
    <3>10. u \in Knowing(tk, ahead, ids, free)
      BY <2>4, <3>4, KnowingQuiet
    <3>11. v \in Knowing(tk, ahead, ids, free)
      BY <3>7, <3>10, KnowingQuiet
    <3> QED
      BY <3>9, <3>11, KnowingQuiet
  <2>6. CASE p \notin Alive(tk) \cap Computer
    <3>1. t = e
      BY <1>1, <1>3, <2>1, <2>6 DEF NonNormalMoveFinished
    <3> QED
      BY <2>4, <3>1
  <2> QED
    BY <2>5, <2>6
<1> QED
  BY <1>2, <1>3

LEMMA KnowingInternal ==
    ASSUME NEW tk, NEW ahead \in Seq(SimAction), NEW ids, NEW free \in SUBSET Tankets,
           NEW s \in Knowing(tk, ahead, ids, free), NEW m \in Message, MayAnswer(s, tk, m, free),
           NEW thinking \in Nat, NEW t, t = InternalMoveFinished(s, tk, m, thinking)
    PROVE  t \in Knowing(tk, ahead, ids, free)
<1>1. PICK p \in Tankets : p = m.player
  BY DEF Message
<1>2. PICK e : e = PlayMoveFinished(s, p)
  OBVIOUS
<1>3. s \in TurnsState
  BY DEF Knowing
<1>4. Ended(s, e, p) /\ e \in TurnsState
  <2>1. Ended(s, e, p)
    BY <1>2, <1>3, PlayMoveFinishedIs
  <2> QED
    BY <2>1 DEF Ended
<1>5. ASSUME s.moveId[p] = m.move PROVE e \in Knowing(tk, ahead, ids, free)
  <2>1. p \in Alive(tk) \cap Computer => p \in free
    BY <1>1, <1>5 DEF MayAnswer
  <2> QED
    BY <1>4, <2>1, KnowingEnded
<1>6. PICK no \in BOOLEAN, yes \in BOOLEAN, moves \in SUBSET Message :
          no = FALSE /\ yes = TRUE /\ moves = {m}
  OBVIOUS
<1>7. CASE Discipline = "Sequential"
  <2>1. t = SequentialMoveFinished(s, tk, m)
    BY <1>7 DEF InternalMoveFinished
  <2>2. PICK u : u = [e EXCEPT !.playingPlayer = 0]
    OBVIOUS
  <2>3. u \in TurnsState /\ Quietly(e, u)
    <3>1. PICK player \in 0 .. N : player = 0
      OBVIOUS
    <3>2. u = [e EXCEPT !.playingPlayer = player]
      BY <2>2, <3>1
    <3>3. u \in TurnsState /\ u.playingPlayers = e.playingPlayers /\ Queues(u) = Queues(e)
      BY <1>4, <3>2, PlayingPlayerIs
    <3> QED
      BY <1>4, <3>3, QuietFields
  <2>4. PICK v : v = PlayShots(u, moves, yes, yes)
    OBVIOUS
  <2>5. Quietly(u, v)
    BY <2>3, <2>4, QuietShots
  <2>6. t = s \/ (s.moveId[p] = m.move /\ t \in {u, v})
    BY <1>1, <1>2, <1>6, <2>1, <2>2, <2>4 DEF SequentialMoveFinished
  <2>7. ASSUME s.moveId[p] = m.move PROVE {u, v} \subseteq Knowing(tk, ahead, ids, free)
    <3>1. u \in Knowing(tk, ahead, ids, free)
      BY <1>5, <2>3, <2>7, KnowingQuiet
    <3>2. v \in Knowing(tk, ahead, ids, free)
      BY <2>5, <3>1, KnowingQuiet
    <3> QED
      BY <3>1, <3>2
  <2> QED
    BY <2>6, <2>7
<1>8. CASE Discipline = "Simultaneous"
  <2>1. t = SimultaneousMoveFinished(s, tk, m)
    BY <1>8 DEF InternalMoveFinished
  <2>2. PICK all \in SUBSET Message : all = e.moves \cup {m}
    <3>1. e.moves \in SUBSET Message
      BY <1>4, StateFields
    <3> QED
      BY <3>1
  <2>3. PICK u : u = [e EXCEPT !.moves = all]
    OBVIOUS
  <2>4. Quietly(e, u)
    <3>1. WaitingMoves(e, u, all)
      BY <1>4, <2>3, MovesAre
    <3> QED
      BY <1>4, <3>1, QuietFields DEF WaitingMoves
  <2>5. t = s \/ (s.moveId[p] = m.move /\ t = u)
    BY <1>1, <1>2, <2>1, <2>2, <2>3 DEF SimultaneousMoveFinished
  <2> QED
    BY <1>5, <2>4, <2>5, KnowingQuiet
<1>9. CASE Discipline = "Free"
  <2>1. t = FreeMoveFinished(s, tk, m, thinking)
    BY <1>9 DEF InternalMoveFinished
  <2>2. PICK v : v = PlayShots(e, moves, no, yes)
    OBVIOUS
  <2>3. v \in TurnsState /\ Quietly(e, v)
    <3>1. Quietly(e, v)
      BY <1>4, <2>2, QuietShots
    <3> QED
      BY <3>1 DEF Quietly
  <2>4. PICK delay \in Nat :
            delay = (IF FreeTimed THEN MoveTime ELSE 0) + (IF HasAI(s, p) THEN thinking ELSE 0)
    <3>1. (IF FreeTimed THEN MoveTime ELSE 0) \in Nat /\ (IF HasAI(s, p) THEN thinking ELSE 0) \in Nat
      OBVIOUS
    <3> QED
      BY <3>1
  <2>5. PICK u : u = Delayed(v, p, delay)
    OBVIOUS
  <2>6. Quietly(v, u)
    BY <2>3, <2>5, QuietDelay
  <2>7. t = s \/ (s.moveId[p] = m.move /\ t \in {e, u})
    <3>1. CASE p \notin Present(tk) \/ s.moveId[p] # m.move
      BY <1>1, <2>1, <3>1 DEF FreeMoveFinished
    <3>2. CASE ~(p \notin Present(tk) \/ s.moveId[p] # m.move) /\ p \in Alive(tk)
      <4>1. v = PlayShots(e, {m}, FALSE, TRUE)
        BY <1>6, <2>2
      <4>2. t = u
        BY <1>1, <1>2, <2>1, <2>4, <2>5, <3>2, <4>1, Zenon DEF FreeMoveFinished
      <4> QED
        BY <3>2, <4>2
    <3>3. CASE ~(p \notin Present(tk) \/ s.moveId[p] # m.move) /\ p \notin Alive(tk)
      BY <1>1, <1>2, <2>1, <3>3 DEF FreeMoveFinished
    <3> QED
      BY <3>1, <3>2, <3>3
  <2>8. ASSUME s.moveId[p] = m.move PROVE {e, u} \subseteq Knowing(tk, ahead, ids, free)
    <3>1. v \in Knowing(tk, ahead, ids, free)
      BY <1>5, <2>3, <2>8, KnowingQuiet
    <3>2. u \in Knowing(tk, ahead, ids, free)
      BY <2>6, <3>1, KnowingQuiet
    <3> QED
      BY <1>5, <2>8, <3>2
  <2> QED
    BY <2>7, <2>8
<1> QED
  BY <1>7, <1>8, <1>9, DisciplineAssumption

LEMMA KnowingFinished ==
    ASSUME NEW tk, NEW ahead \in Seq(SimAction), NEW ids, NEW free \in SUBSET Tankets,
           NEW s \in Knowing(tk, ahead, ids, free), NEW m \in Message, MayAnswer(s, tk, m, free),
           NEW thinking \in Nat, NEW t, t = MoveFinished(s, tk, m, thinking)
    PROVE  t \in Knowing(tk, ahead, ids, free)
<1>1. CASE m.player \in Present(tk) \cap NonNormal
  <2>1. t = NonNormalMoveFinished(s, tk, m, thinking)
    BY <1>1 DEF MoveFinished
  <2> QED
    BY <2>1, KnowingNonNormal
<1>2. CASE m.player \notin Present(tk) \cap NonNormal
  <2>1. t = InternalMoveFinished(s, tk, m, thinking)
    BY <1>2 DEF MoveFinished
  <2> QED
    BY <2>1, KnowingInternal
<1> QED
  BY <1>1, <1>2

\* A step that changes no queue and no timer.
LEMMA KnowingSame ==
    ASSUME NEW tk, NEW ahead \in Seq(SimAction), NEW ids, NEW free \in SUBSET Tankets,
           NEW s \in Knowing(tk, ahead, ids, free), NEW t \in TurnsState, Queues(t) = Queues(s),
           t.playingPlayers = s.playingPlayers
    PROVE  t \in Knowing(tk, ahead, ids, free)
<1>1. s \in TurnsState
  BY DEF Knowing
<1>2. Quietly(s, t)
  BY <1>1, QuietFields
<1> QED
  BY <1>2, KnowingQuiet

LEMMA KnowingTimers ==
    ASSUME NEW tk, NEW ahead \in Seq(SimAction), NEW ids, NEW free \in SUBSET Tankets,
           NEW s \in Knowing(tk, ahead, ids, free), NEW time \in {0, 1}, NEW t, t = RunTimers(s, time)
    PROVE  t \in Knowing(tk, ahead, ids, free)
<1>1. s \in TurnsState
  BY DEF Knowing
<1>2. /\ t \in TurnsState /\ Queues(t) = Queues(s)
      /\ \A q \in Tankets :
            t.playingPlayers[q] = s.playingPlayers[q] \/ s.playingPlayers[q].started
  BY <1>1, RunTimersIs
<1>3. \A q \in Tankets : t.playingPlayers[q].started => s.playingPlayers[q].started
  BY <1>2
<1>4. Quietly(s, t)
  BY <1>1, <1>2, <1>3, QuietFields
<1> QED
  BY <1>4, KnowingQuiet

LEMMA KnowingDelays ==
    ASSUME NEW tk, NEW ahead \in Seq(SimAction), NEW ids, NEW free \in SUBSET Tankets,
           NEW s \in Knowing(tk, ahead, ids, free), NEW time \in {0, 1}, NEW t, t = RunDelays(s, time)
    PROVE  t \in Knowing(tk, ahead, ids, free)
<1>1. s \in TurnsState
  BY DEF Knowing
<1>2. t \in TurnsState /\ Queues(t) = Queues(s) /\ t.playingPlayers = s.playingPlayers
  BY <1>1, RunDelaysIs
<1> QED
  BY <1>2, KnowingSame

LEMMA KnowingShotsState ==
    ASSUME NEW tk, NEW ahead \in Seq(SimAction), NEW ids, NEW free \in SUBSET Tankets,
           NEW s \in Knowing(tk, ahead, ids, free),
           NEW state \in {"eShotsNone", "eShotsWaitingStart", "eShotsWaitingEnd"},
           NEW t, t = [s EXCEPT !.shotsState = state]
    PROVE  t \in Knowing(tk, ahead, ids, free)
<1>1. s \in TurnsState
  BY DEF Knowing
<1>2. t \in TurnsState /\ Queues(t) = Queues(s) /\ t.playingPlayers = s.playingPlayers
  BY <1>1, ShotsStateIs
<1> QED
  BY <1>2, KnowingSame

LEMMA KnowingTurn ==
    ASSUME NEW tk, NEW ahead \in Seq(SimAction), NEW ids, NEW free \in SUBSET Tankets,
           NEW s \in Knowing(tk, ahead, ids, free), NEW t, t = IncrementTurn(s)
    PROVE  t \in Knowing(tk, ahead, ids, free)
<1>1. s \in TurnsState
  BY DEF Knowing
<1>2. Quietly(s, t)
  BY <1>1, QuietTurn
<1> QED
  BY <1>2, KnowingQuiet

LEMMA KnowingWait ==
    ASSUME NEW tk, NEW ahead \in Seq(SimAction), NEW ids, NEW free \in SUBSET Tankets,
           NEW s \in Knowing(tk, ahead, ids, free), NEW inFlight,
           NEW t, t = WaitForShotsToEnd(s, inFlight)
    PROVE  t \in Knowing(tk, ahead, ids, free)
<1>1. CASE s.shotsState = "eShotsWaitingEnd" /\ inFlight = {}
  <2>1. PICK u : u = InternalShotsFinished(s)
    OBVIOUS
  <2>2. u \in Knowing(tk, ahead, ids, free)
    <3>1. CASE Discipline = "Simultaneous"
      <4>1. u = IncrementTurn(s)
        BY <2>1, <3>1 DEF InternalShotsFinished, SimultaneousShotsFinished
      <4> QED
        BY <4>1, KnowingTurn
    <3>2. CASE Discipline # "Simultaneous"
      BY <2>1, <3>2 DEF InternalShotsFinished
    <3> QED
      BY <3>1, <3>2
  <2>3. PICK state \in {"eShotsNone", "eShotsWaitingStart", "eShotsWaitingEnd"} : state = "eShotsNone"
    OBVIOUS
  <2>4. PICK v : v = [u EXCEPT !.shotsState = state]
    OBVIOUS
  <2>5. v \in Knowing(tk, ahead, ids, free)
    BY <2>2, <2>4, KnowingShotsState
  <2>6. v = t
    BY <1>1, <2>1, <2>3, <2>4 DEF WaitForShotsToEnd
  <2> QED
    BY <2>5, <2>6
<1>2. CASE ~(s.shotsState = "eShotsWaitingEnd" /\ inFlight = {})
  BY <1>2 DEF WaitForShotsToEnd
<1> QED
  BY <1>1, <1>2

LEMMA KnowingFewer ==
    ASSUME NEW tk, NEW ahead, NEW ids, NEW free, NEW fewer, fewer \subseteq free,
           NEW s \in Knowing(tk, ahead, ids, free)
    PROVE  s \in Knowing(tk, ahead, ids, fewer)
BY DEF Knowing

\* The moves that time out had started: nobody is asked for them.
LEMMA KnowingTimeOut ==
    ASSUME NEW tk, NEW ahead \in Seq(SimAction), NEW ids, NEW s \in Knowing(tk, ahead, ids, {}),
           NEW t, t = TimeOut(s, tk)
    PROVE  t \in Knowing(tk, ahead, ids, {})
<1>1. s \in TurnsState
  BY DEF Knowing
<1>2. PICK free \in SUBSET Tankets : free = Over(s) \cap Computer \cap Alive(tk)
  BY DEF Alive
<1>3. s \in Knowing(tk, ahead, ids, free)
  <2>1. PICK q : q = ahead \o s.sendActions
    OBVIOUS
  <2>2. ASSUME NEW p \in free PROVE NotAsked(q, p)
    <3>1. Asked(s, q, p)
      BY <1>2, <2>1 DEF Knowing, Knows
    <3>2. s.playingPlayers[p].started
      BY <1>2 DEF Over
    <3> QED
      BY <3>1, <3>2 DEF Asked, AskedAt, NotAsked, Asks
  <2> QED
    BY <2>1, <2>2 DEF Knowing
<1>4. PICK f : /\ f[0] = s
               /\ \A p \in 1 .. N : f[p] = IF p \in Over(s) THEN TimedOut(f[p - 1], tk, p) ELSE f[p - 1]
               /\ t = f[N]
  BY <1>1, TimeOutLoop
<1>5. ASSUME NEW p \in 1 .. N, f[p - 1] \in Knowing(tk, ahead, ids, free)
      PROVE  f[p] \in Knowing(tk, ahead, ids, free)
  <2>1. PICK u : u = f[p - 1]
    OBVIOUS
  <2>2. u \in Knowing(tk, ahead, ids, free) /\ u \in TurnsState
    BY <1>5, <2>1 DEF Knowing
  <2>3. CASE p \in Over(s)
    <3>1. f[p] = TimedOut(u, tk, p)
      BY <1>4, <2>1, <2>3
    <3>2. PICK m \in Message : m = [player |-> p, move |-> u.playingPlayers[p].move, type |-> "eTimeout"]
      BY <2>2, TimedOutMessage
    <3>3. PICK thinking \in Nat : thinking = 0
      OBVIOUS
    <3>4. f[p] = MoveFinished(u, tk, m, thinking)
      BY <3>1, <3>2, <3>3 DEF TimedOut
    <3>5. MayAnswer(u, tk, m, free)
      <4>1. m.player = p
        BY <3>2
      <4>2. p \in Alive(tk) \cap Computer => p \in free
        BY <1>2, <2>3
      <4> QED
        BY <4>1, <4>2 DEF MayAnswer
    <3> QED
      BY <2>2, <3>4, <3>5, KnowingFinished
  <2>4. CASE p \notin Over(s)
    BY <1>4, <1>5, <2>4
  <2> QED
    BY <2>3, <2>4
<1>6. N \in Nat /\ N \in 0 .. N /\ f[0] \in Knowing(tk, ahead, ids, free)
  BY <1>3, <1>4
<1>7. \A i \in 0 .. N : f[i] \in Knowing(tk, ahead, ids, free)
  BY <1>5, <1>6, LoopKeeps
<1>8. t \in Knowing(tk, ahead, ids, free)
  BY <1>4, <1>6, <1>7
<1> QED
  BY <1>8, KnowingFewer

LEMMA KnowingNonNormals ==
    ASSUME NEW tk, NEW ahead \in Seq(SimAction), NEW ids, NEW away,
           NEW s \in Knowing(tk, ahead, ids, {}), s \in Turns(tk, ahead, away),
           NEW t, t = GiveNonNormalMoves(s, tk)
    PROVE  t \in Knowing(tk, ahead, ids, {})
<1> DEFINE D == Turns(tk, ahead, away) \cap Knowing(tk, ahead, ids, {})
<1>1. PICK f : IsGiving(f, s, tk, Turns(tk, ahead, away))
  BY NonNormalLoop
<1>2. ASSUME NEW p \in 1 .. N, f[p - 1] \in D PROVE f[p] \in D
  <2>1. PICK u \in D : u = f[p - 1]
    BY <1>2
  <2>2. PICK v : v = f[p]
    OBVIOUS
  <2>3. v \in Turns(tk, ahead, away)
    BY <1>1, <2>1, <2>2 DEF IsGiving
  <2>4. CASE p \in NonNormalPlayers(tk) /\ u.moveId[p] = 0 /\ u.timedPlayers[p] = 0
    <3>1. v = GiveNonNormalMove(u, p)
      BY <1>1, <2>1, <2>2, <2>4 DEF IsGiving, GiveToNonNormal
    <3>2. u \in TurnsState /\ Timers(u)
      BY DEF Turns, Common
    <3>3. PICK next \in MoveIds : next = u.nextNonNormalMoveId + 1
      <4>1. u.nextNonNormalMoveId \in Nat
        BY <3>2, StateFields
      <4> QED
        BY <4>1 DEF MoveIds
    <3>4. PICK time \in Nat : time = 0
      OBVIOUS
    <3>5. /\ Given(u, v, p, next, time)
          /\ v.nextMoveId = u.nextMoveId /\ v.nextNonNormalMoveId = next
      BY <3>1, <3>2, <3>3, <3>4, GiveNonNormalMoveIs
    <3>6. /\ u.nextMoveId <= v.nextMoveId /\ u.nextNonNormalMoveId <= v.nextNonNormalMoveId
          /\ u.nextNonNormalMoveId \in Nat
      <4>1. u.nextMoveId \in Nat /\ u.nextNonNormalMoveId \in Nat
        BY <3>2, StateFields
      <4> QED
        BY <3>3, <3>5, <4>1
    <3>7. NewId(u, v, p, next)
      <4>1. p \in NonNormal
        BY <2>4 DEF NonNormalPlayers
      <4> QED
        BY <3>3, <3>5, <3>6, <4>1 DEF NewId, Highest
    <3>8. v \in Knowing(tk, ahead, ids, {})
      BY <2>1, <2>4, <3>2, <3>5, <3>6, <3>7, KnowingGiven
    <3> QED
      BY <2>2, <2>3, <3>8
  <2>5. CASE ~(p \in NonNormalPlayers(tk) /\ u.moveId[p] = 0 /\ u.timedPlayers[p] = 0)
    <3>1. v = u
      BY <1>1, <2>1, <2>2, <2>5 DEF IsGiving, GiveToNonNormal
    <3> QED
      BY <2>2, <3>1
  <2> QED
    BY <2>4, <2>5
<1>3. N \in Nat /\ N \in 0 .. N /\ f[0] \in D
  BY <1>1 DEF IsGiving
<1> HIDE DEF D
<1>4. \A i \in 0 .. N : f[i] \in D
  BY <1>2, <1>3, LoopKeeps
<1> QED
  BY <1>1, <1>3, <1>4 DEF D, IsGiving

\* A move of the turn, for who may be given one.
LEMMA KnowingGive ==
    ASSUME NEW tk, NEW ahead \in Seq(SimAction), NEW ids, NEW s \in Knowing(tk, ahead, ids, {}),
           Timers(s), NEW p \in Tankets, s.moveId[p] = 0, p \in Computer => p \notin NonNormal,
           NEW time \in {0, MoveTime}, NEW t, t = GiveMove(s, p, time)
    PROVE  t \in Knowing(tk, ahead, ids, {})
<1>1. s \in TurnsState
  BY DEF Knowing
<1>2. s.nextMoveId \in Nat /\ s.nextNonNormalMoveId \in Nat
  BY <1>1, StateFields
<1>3. PICK next \in MoveIds : next = s.nextMoveId + 1
  BY <1>2 DEF MoveIds
<1>4. /\ Given(s, t, p, next, time)
      /\ t.nextMoveId = next /\ t.nextNonNormalMoveId = s.nextNonNormalMoveId
  BY <1>1, <1>3, GiveMoveIs
<1>5. s.nextMoveId <= t.nextMoveId /\ s.nextNonNormalMoveId <= t.nextNonNormalMoveId
  BY <1>2, <1>3, <1>4
<1>6. NewId(s, t, p, next)
  BY <1>2, <1>3, <1>4 DEF NewId, Highest
<1>7. time \in Nat
  OBVIOUS
<1> QED
  BY <1>4, <1>5, <1>6, <1>7, KnowingGiven

LEMMA KnowingPlace ==
    ASSUME NEW tk, NEW ahead \in Seq(SimAction), NEW ids, NEW s \in Knowing(tk, ahead, ids, {}),
           NEW waiting \in Seq(Tankets), NEW player \in 0 .. N,
           NEW t, t = [s EXCEPT !.playingPlayer = player, !.waitingPlayers = waiting]
    PROVE  t \in Knowing(tk, ahead, ids, {})
<1>1. s \in TurnsState
  BY DEF Knowing
<1>2. t \in TurnsState /\ Queues(t) = Queues(s) /\ t.playingPlayers = s.playingPlayers
  BY <1>1 DEF TurnsState, Queues
<1> QED
  BY <1>2, KnowingSame

LEMMA KnowingPlays ==
    ASSUME NEW tk, NEW ahead \in Seq(SimAction), NEW ids, NEW s \in Knowing(tk, ahead, ids, {}),
           NEW player \in 0 .. N, NEW t, t = [s EXCEPT !.playingPlayer = player]
    PROVE  t \in Knowing(tk, ahead, ids, {})
<1>1. s \in TurnsState
  BY DEF Knowing
<1>2. t \in TurnsState /\ Queues(t) = Queues(s) /\ t.playingPlayers = s.playingPlayers
  BY <1>1, PlayingPlayerIs
<1> QED
  BY <1>2, KnowingSame

LEMMA KnowingWaits ==
    ASSUME NEW tk, NEW ahead \in Seq(SimAction), NEW ids, NEW s \in Knowing(tk, ahead, ids, {}),
           NEW waiting \in Seq(Tankets), NEW t, t = [s EXCEPT !.waitingPlayers = waiting]
    PROVE  t \in Knowing(tk, ahead, ids, {})
<1>1. s \in TurnsState
  BY DEF Knowing
<1>2. t \in TurnsState /\ Queues(t) = Queues(s) /\ t.playingPlayers = s.playingPlayers
  BY <1>1 DEF TurnsState, Queues
<1> QED
  BY <1>2, KnowingSame

LEMMA KnowingNewTurn ==
    ASSUME NEW tk, NEW ahead \in Seq(SimAction), NEW ids, NEW away,
           NEW s \in Knowing(tk, ahead, ids, {}), s \in Turns(tk, ahead, away),
           Discipline = "Sequential", NEW order, IsOrder(order),
           NEW t, t = NewTurnIfAllMoved(s, tk, order)
    PROVE  t \in Knowing(tk, ahead, ids, {})
<1>1. CASE s.waitingPlayers = <<>> /\ s.playingPlayer = 0
  <2>1. s \in TurnsState /\ s.moveId \in [Tankets -> Nat]
    BY StateFields DEF Turns
  <2>2. \A p \in TakeTurns(tk) : s.moveId[p] = 0
    <3>1. 0 \notin TakeTurns(tk)
      BY DEF TakeTurns, Present
    <3> QED
      BY <1>1, <3>1, NobodyMoves
  <2>3. [p \in Tankets |-> IF p \in TakeTurns(tk) THEN 0 ELSE s.moveId[p]] = s.moveId
    BY <2>1, <2>2
  <2>4. PICK player \in 0 .. N : player = 0
    OBVIOUS
  <2>5. PICK v : v = [s EXCEPT !.playingPlayer = player, !.waitingPlayers = order]
    OBVIOUS
  <2>6. v \in Knowing(tk, ahead, ids, {})
    <3>1. order \in Seq(Tankets)
      BY DEF IsOrder
    <3> QED
      BY <2>5, <3>1, KnowingPlace
  <2>7. SequentialEnterState(s, tk, order) = v
    BY <2>1, <2>3, <2>4, <2>5 DEF SequentialEnterState, TurnsState
  <2>8. t = IncrementTurn(v)
    BY <1>1, <2>7 DEF NewTurnIfAllMoved
  <2> QED
    BY <2>6, <2>8, KnowingTurn
<1>2. CASE ~(s.waitingPlayers = <<>> /\ s.playingPlayer = 0)
  BY <1>2 DEF NewTurnIfAllMoved
<1> QED
  BY <1>1, <1>2

LEMMA KnowingDropDead ==
    ASSUME NEW tk, NEW ahead \in Seq(SimAction), NEW ids, NEW s \in Knowing(tk, ahead, ids, {}),
           NEW t, t = DropDeadPlayer(s, tk)
    PROVE  t \in Knowing(tk, ahead, ids, {})
<1>1. PICK p : p = s.playingPlayer
  OBVIOUS
<1>2. CASE p \in Alive(tk)
  BY <1>1, <1>2 DEF DropDeadPlayer
<1>3. CASE p \notin Alive(tk)
  <2>1. PICK e : e = IF p \in Present(tk) /\ s.moveId[p] # 0 THEN PlayMoveFinished(s, p) ELSE s
    OBVIOUS
  <2>2. e \in Knowing(tk, ahead, ids, {})
    <3>1. CASE p \in Present(tk) /\ s.moveId[p] # 0
      <4>1. p \in Tankets /\ s \in TurnsState /\ e = PlayMoveFinished(s, p)
        BY <2>1, <3>1 DEF Present, Knowing
      <4>2. Ended(s, e, p)
        BY <4>1, PlayMoveFinishedIs
      <4> QED
        BY <1>3, <4>1, <4>2, KnowingEnded
    <3>2. CASE ~(p \in Present(tk) /\ s.moveId[p] # 0)
      BY <2>1, <3>2
    <3> QED
      BY <3>1, <3>2
  <2>3. PICK player \in 0 .. N : player = 0
    OBVIOUS
  <2>4. t = [e EXCEPT !.playingPlayer = player]
    BY <1>1, <1>3, <2>1, <2>3 DEF DropDeadPlayer
  <2> QED
    BY <2>2, <2>4, KnowingPlays
<1> QED
  BY <1>2, <1>3

LEMMA KnowingNextPlayer ==
    ASSUME NEW tk, NEW ahead \in Seq(SimAction), NEW ids, NEW away,
           NEW s \in Knowing(tk, ahead, ids, {}), s \in Turns(tk, ahead, away),
           Discipline = "Sequential", NEW t, t = NextPlayer(s, tk)
    PROVE  t \in Knowing(tk, ahead, ids, {})
<1>1. PICK waiting : waiting = s.waitingPlayers
  OBVIOUS
<1>2. /\ s \in TurnsState /\ Timers(s) /\ Waits(s) /\ waiting \in Seq(Tankets)
  BY <1>1, StateFields DEF Turns, Common
<1>3. \A i \in 1 .. Len(waiting) : waiting[i] \notin NonNormal
  BY <1>1, <1>2 DEF Waits
<1>4. CASE s.playingPlayer # 0
  BY <1>4 DEF NextPlayer
<1>5. CASE s.playingPlayer = 0
  <2>1. \A p \in TakeTurns(tk) : s.moveId[p] = 0
    <3>1. 0 \notin TakeTurns(tk)
      BY DEF TakeTurns, Present
    <3> QED
      BY <1>5, <3>1, NobodyMoves
  <2>2. CASE Living(s, tk) = {}
    <3>1. t = WithWaiting(s, <<>>)
      BY <1>5, <2>2, NobodyNext
    <3>2. PICK order \in Seq(Tankets) : order = <<>>
      <4>1. <<>> \in Seq(Tankets)
        OBVIOUS
      <4> QED
        BY <4>1
    <3>3. t = [s EXCEPT !.waitingPlayers = order]
      BY <3>1, <3>2 DEF WithWaiting
    <3> QED
      BY <3>3, KnowingWaits
  <2>3. CASE Living(s, tk) # {}
    <3>1. PICK n \in Nat : n = FirstLiving(s, tk)
      BY <2>3, FirstLivingIs DEF Living
    <3>2. n \in 1 .. Len(waiting) /\ waiting[n] \in Alive(tk)
      BY <1>1, <2>3, <3>1, FirstLivingIs DEF Living
    <3>3. PICK p \in Tankets : p = waiting[n] /\ p \in TakeTurns(tk)
      BY <1>2, <1>3, <3>2 DEF TakeTurns, Alive, Present
    <3>4. PICK later \in Seq(Tankets) : later = SubSeq(waiting, n + 1, Len(waiting))
      <4>1. PICK later : later = SubSeq(waiting, n + 1, Len(waiting))
        OBVIOUS
      <4>2. IsLater(later, waiting, n, Tankets)
        BY <1>2, <3>2, <4>1, LaterIs
      <4> QED
        BY <4>1, <4>2 DEF IsLater
    <3>5. PICK time \in {0, MoveTime} : time = MoveTime
      OBVIOUS
    <3>6. PICK g : g = GiveMove(s, p, time)
      OBVIOUS
    <3>7. g \in Knowing(tk, ahead, ids, {})
      <4>1. p \notin NonNormal /\ s.moveId[p] = 0
        BY <2>1, <3>3 DEF TakeTurns
      <4> QED
        BY <1>2, <3>6, <4>1, KnowingGive
    <3>8. g.waitingPlayers = waiting
      <4>1. PICK next : next = s.nextMoveId + 1
        OBVIOUS
      <4>2. Given(s, g, p, next, time)
        BY <1>2, <3>6, <4>1, GiveMoveIs
      <4>3. Rest(g) = Rest(s)
        BY <4>2 DEF Given
      <4> QED
        BY <1>1, <4>3 DEF Rest
    <3>9. t = [g EXCEPT !.playingPlayer = p, !.waitingPlayers = later]
      <4>1. later = SubSeq(g.waitingPlayers, n + 1, Len(g.waitingPlayers))
        BY <3>4, <3>8
      <4>2. p = s.waitingPlayers[n] /\ g = GiveMove(s, p, MoveTime)
        BY <1>1, <3>3, <3>5, <3>6
      <4>3. IsNext(s, tk, n, p, g, later)
        BY <1>5, <2>3, <3>1, <4>1, <4>2 DEF IsNext
      <4>4. t = WithTurn(g, p, later)
        BY <4>3, NextPlayerIs
      <4> QED
        BY <4>4 DEF WithTurn
    <3>10. p \in 0 .. N
      OBVIOUS
    <3> QED
      BY <3>7, <3>9, <3>10, KnowingPlace
  <2> QED
    BY <2>2, <2>3
<1> QED
  BY <1>4, <1>5

LEMMA KnowingSequential ==
    ASSUME NEW tk, NEW ahead \in Seq(SimAction), NEW ids, NEW away,
           NEW s \in Knowing(tk, ahead, ids, {}), s \in Turns(tk, ahead, away),
           Discipline = "Sequential", NEW order, IsOrder(order),
           NEW t, t = SequentialSimulate(s, tk, order)
    PROVE  t \in Knowing(tk, ahead, ids, {})
<1>1. PICK u : u = NewTurnIfAllMoved(s, tk, order)
  OBVIOUS
<1>2. u \in Knowing(tk, ahead, ids, {})
  BY <1>1, KnowingNewTurn
<1>3. u \in Turns(tk, ahead, away)
  <2>1. s \in Turns(tk, ahead, away) /\ NewTurnIfAllMoved(s, tk, order) = u
    BY <1>1
  <2> QED
    BY <2>1, TurnsNewTurn
<1>4. PICK v : v = DropDeadPlayer(u, tk)
  OBVIOUS
<1>5. v \in Knowing(tk, ahead, ids, {})
  BY <1>2, <1>4, KnowingDropDead
<1>6. v \in Turns(tk, ahead, away)
  BY <1>3, <1>4, TurnsDropDead
<1>7. t = NextPlayer(v, tk)
  BY <1>1, <1>4 DEF SequentialSimulate
<1> QED
  BY <1>5, <1>6, <1>7, KnowingNextPlayer

LEMMA KnowingEndDead ==
    ASSUME NEW tk, NEW ahead \in Seq(SimAction), NEW ids, NEW away,
           NEW s \in Knowing(tk, ahead, ids, {}), s \in Turns(tk, ahead, away),
           NEW t, t = EndMovesOfDead(s, tk)
    PROVE  t \in Knowing(tk, ahead, ids, {})
<1>1. PICK f : /\ f[0] = s
               /\ \A p \in 1 .. N : f[p] = IF p \in Fallen(tk) THEN EndIfAny(f[p - 1], p) ELSE f[p - 1]
               /\ EndMovesOfDead(s, tk) = f[N]
  <2>1. EndMovesOfDead(s, tk) = t /\ s \in Turns(tk, ahead, away)
    OBVIOUS
  <2> QED
    BY <2>1, EndLoop
<1>2. ASSUME NEW p \in 1 .. N, f[p - 1] \in Knowing(tk, ahead, ids, {})
      PROVE  f[p] \in Knowing(tk, ahead, ids, {})
  <2>1. PICK u \in Knowing(tk, ahead, ids, {}) : u = f[p - 1]
    BY <1>2
  <2>2. CASE p \in Fallen(tk) /\ u.moveId[p] # 0
    <3>1. PICK v : v = PlayMoveFinished(u, p)
      OBVIOUS
    <3>2. f[p] = v
      BY <1>1, <2>1, <2>2, <3>1 DEF EndIfAny
    <3>3. Ended(u, v, p)
      BY <3>1, PlayMoveFinishedIs DEF Knowing
    <3>4. p \notin Alive(tk)
      BY <2>2 DEF Fallen
    <3> QED
      BY <3>2, <3>3, <3>4, KnowingEnded
  <2>3. CASE ~(p \in Fallen(tk) /\ u.moveId[p] # 0)
    BY <1>1, <2>1, <2>3 DEF EndIfAny
  <2> QED
    BY <2>2, <2>3
<1>3. N \in Nat /\ N \in 0 .. N /\ f[0] \in Knowing(tk, ahead, ids, {})
  BY <1>1
<1>4. \A i \in 0 .. N : f[i] \in Knowing(tk, ahead, ids, {})
  BY <1>2, <1>3, LoopKeeps
<1> QED
  BY <1>1, <1>3, <1>4

LEMMA KnowingGiveMoves ==
    ASSUME NEW tk, NEW ahead \in Seq(SimAction), NEW ids, NEW away,
           NEW s \in Knowing(tk, ahead, ids, {}), s \in Cleared(tk, ahead, away),
           Discipline = "Simultaneous", NonNormal = {}, NEW t, t = GiveMoves(s, tk)
    PROVE  t \in Knowing(tk, ahead, ids, {})
<1> DEFINE D == Cleared(tk, ahead, away) \cap Knowing(tk, ahead, ids, {})
<1>1. PICK f : /\ f[0] = s
               /\ \A p \in 1 .. N : f[p] = IF p \in Alive(tk) THEN GiveIfFree(f[p - 1], tk, p) ELSE f[p - 1]
               /\ GiveMoves(s, tk) = f[N]
  <2>1. s \in Cleared(tk, ahead, away) /\ GiveMoves(s, tk) = t
    OBVIOUS
  <2> QED
    BY <2>1, GiveLoop
<1>2. ASSUME NEW p \in 1 .. N, f[p - 1] \in D PROVE f[p] \in D
  <2>1. PICK u \in D : u = f[p - 1]
    BY <1>2
  <2>2. CASE p \in Alive(tk)
    <3>1. f[p] = GiveIfFree(u, tk, p)
      BY <1>1, <2>1, <2>2
    <3>2. GiveIfFree(u, tk, p) \in Cleared(tk, ahead, away)
      BY <2>2, ClearedGive
    <3>3. PICK time \in {0, MoveTime} : time = MoveTime
      OBVIOUS
    <3>4. PICK v : v = GiveMove(u, p, time)
      OBVIOUS
    <3>5. ASSUME u.moveId[p] = 0 PROVE v \in Knowing(tk, ahead, ids, {})
      <4>1. Timers(u)
        BY DEF Cleared, Turns, Common
      <4> QED
        BY <3>4, <3>5, <4>1, KnowingGive
    <3>6. GiveIfFree(u, tk, p) = u \/ (u.moveId[p] = 0 /\ GiveIfFree(u, tk, p) = v)
      BY <3>3, <3>4 DEF GiveIfFree
    <3>7. GiveIfFree(u, tk, p) \in Knowing(tk, ahead, ids, {})
      BY <3>5, <3>6
    <3> QED
      BY <3>1, <3>2, <3>7
  <2>3. CASE p \notin Alive(tk)
    BY <1>1, <1>2, <2>3
  <2> QED
    BY <2>2, <2>3
<1>3. N \in Nat /\ N \in 0 .. N /\ f[0] \in D
  BY <1>1
<1> HIDE DEF D
<1>4. \A i \in 0 .. N : f[i] \in D
  BY <1>2, <1>3, LoopKeeps
<1> QED
  BY <1>1, <1>3, <1>4 DEF D

LEMMA KnowingPlayAll ==
    ASSUME NEW tk, NEW ahead \in Seq(SimAction), NEW ids,
           NEW s \in Knowing(tk, ahead, ids, {}), NEW t, t = PlayAllMoves(s, tk)
    PROVE  t \in Knowing(tk, ahead, ids, {})
<1>1. s \in TurnsState /\ s.moves \in SUBSET Message
  BY StateFields DEF Knowing
<1>2. PICK none \in SUBSET Message : none = {}
  OBVIOUS
<1>3. PICK u : u = [s EXCEPT !.moves = none]
  OBVIOUS
<1>4. PICK moves \in SUBSET Message : moves = {m \in s.moves : m.player \in Alive(tk)}
  BY <1>1
<1>5. u \in Knowing(tk, ahead, ids, {}) /\ u \in TurnsState
  <2>1. WaitingMoves(s, u, none)
    BY <1>1, <1>3, MovesAre
  <2>2. u \in TurnsState /\ Queues(u) = Queues(s) /\ u.playingPlayers = s.playingPlayers
    BY <2>1 DEF WaitingMoves
  <2>3. u \in Knowing(tk, ahead, ids, {})
    BY <2>2, KnowingSame
  <2> QED
    BY <2>2, <2>3
<1>6. PICK yes \in BOOLEAN : yes = TRUE
  OBVIOUS
<1>7. PICK v : v = PlayShots(u, moves, yes, yes)
  OBVIOUS
<1>8. v \in Knowing(tk, ahead, ids, {})
  <2>1. Quietly(u, v)
    BY <1>5, <1>7, QuietShots
  <2> QED
    BY <1>5, <2>1, KnowingQuiet
<1>9. PICK w : w = IncrementTurn(v)
  OBVIOUS
<1>10. w \in Knowing(tk, ahead, ids, {})
  BY <1>8, <1>9, KnowingTurn
<1>11. t = IF WaitForShots THEN v ELSE w
  BY <1>2, <1>3, <1>4, <1>6, <1>7, <1>9 DEF PlayAllMoves
<1> QED
  BY <1>8, <1>10, <1>11

LEMMA KnowingWaitingTime ==
    ASSUME NEW tk, NEW ahead \in Seq(SimAction), NEW ids, NEW s \in Knowing(tk, ahead, ids, {}),
           NEW time \in Int, NEW t, t = [s EXCEPT !.waitingTime = time]
    PROVE  t \in Knowing(tk, ahead, ids, {})
<1>1. s \in TurnsState
  BY DEF Knowing
<1>2. t \in TurnsState /\ Queues(t) = Queues(s) /\ t.playingPlayers = s.playingPlayers
  BY <1>1 DEF TurnsState, Queues
<1> QED
  BY <1>2, KnowingSame

LEMMA KnowingSimultaneous ==
    ASSUME NEW tk, NEW ahead \in Seq(SimAction), NEW ids, NEW away,
           NEW s \in Knowing(tk, ahead, ids, {}), s \in Turns(tk, ahead, away),
           Discipline = "Simultaneous", NonNormal = {}, NEW time \in {0, 1},
           NEW t, t = SimultaneousSimulate(s, tk, time)
    PROVE  t \in Knowing(tk, ahead, ids, {})
<1> DEFINE D == Cleared(tk, ahead, away) \cap Knowing(tk, ahead, ids, {})
<1>1. PICK ended \in D : ended = EndMovesOfDead(s, tk)
  <2>1. PICK u : u = EndMovesOfDead(s, tk)
    OBVIOUS
  <2>2. u \in Cleared(tk, ahead, away)
    <3>1. s \in Turns(tk, ahead, away) /\ EndMovesOfDead(s, tk) = u
      BY <2>1
    <3> QED
      BY <3>1, TurnsEndDead
  <2>3. u \in Knowing(tk, ahead, ids, {})
    BY <2>1, KnowingEndDead
  <2> QED
    BY <2>1, <2>2, <2>3
<1>2. PICK slowed : slowed = SlowedDown(s, tk)
  OBVIOUS
<1>3. PICK left \in Int : left = ended.waitingTime - time
  <2>1. ended.waitingTime \in Int
    BY StateFields DEF Knowing
  <2>2. ended.waitingTime - time \in Int
    BY <2>1
  <2> QED
    BY <2>2
<1>4. PICK half \in Int : half = AIShotTime \div 2
  <2>1. AIShotTime \div 2 \in Int
    BY AIShotTimeAssumption
  <2> QED
    BY <2>1
<1>5. PICK waited : waited = IF slowed THEN [ended EXCEPT !.waitingTime = left] ELSE ended
  OBVIOUS
<1>6. waited \in D
  <2>1. CASE slowed
    BY <1>5, <2>1, ClearedWaitingTime, KnowingWaitingTime
  <2>2. CASE ~slowed
    BY <1>5, <2>2
  <2> QED
    BY <2>1, <2>2
<1>7. PICK ready : ready = IF slowed THEN [waited EXCEPT !.waitingTime = half] ELSE waited
  OBVIOUS
<1>8. ready \in D
  <2>1. CASE slowed
    BY <1>6, <1>7, <2>1, ClearedWaitingTime, KnowingWaitingTime
  <2>2. CASE ~slowed
    BY <1>6, <1>7, <2>2
  <2> QED
    BY <2>1, <2>2
<1>9. PICK given : given = GiveMoves(ready, tk)
  OBVIOUS
<1>10. given \in Knowing(tk, ahead, ids, {})
  BY <1>8, <1>9, KnowingGiveMoves
<1>11. PICK played : played = PlayAllMoves(given, tk)
  OBVIOUS
<1>12. played \in Knowing(tk, ahead, ids, {})
  BY <1>10, <1>11, KnowingPlayAll
<1> HIDE DEF D
<1>13. t = IF slowed /\ waited.waitingTime > 0 THEN waited
           ELSE IF AllChose(s, tk) THEN played ELSE given
  BY <1>1, <1>2, <1>3, <1>4, <1>5, <1>7, <1>9, <1>11 DEF SimultaneousSimulate
<1> QED
  BY <1>6, <1>10, <1>12, <1>13 DEF D

LEMMA KnowingVisit ==
    ASSUME NEW tk, NEW ahead \in Seq(SimAction), NEW ids, NEW s \in Knowing(tk, ahead, ids, {}),
           Timers(s), NEW p \in TakeTurns(tk), NEW t, t = Visited(s, tk, p)
    PROVE  t \in Knowing(tk, ahead, ids, {})
<1>1. s \in TurnsState /\ p \in Tankets /\ p \notin NonNormal
  BY DEF Knowing, TakeTurns, Present
<1>2. CASE s.moveId[p] # 0 /\ p \notin Alive(tk)
  <2>1. t = PlayMoveFinished(s, p)
    BY <1>2 DEF Visited
  <2>2. Ended(s, t, p)
    BY <1>1, <2>1, PlayMoveFinishedIs
  <2> QED
    BY <1>1, <1>2, <2>2, KnowingEnded
<1>3. CASE s.moveId[p] = 0 /\ HasAI(s, p) /\ s.timedPlayers[p] = 0
  <2>1. PICK time \in {0, MoveTime} : time = 0
    OBVIOUS
  <2>2. t = GiveMove(s, p, time)
    BY <1>3, <2>1 DEF Visited
  <2> QED
    BY <1>1, <1>3, <2>2, KnowingGive
<1>4. CASE ~(s.moveId[p] # 0 /\ p \notin Alive(tk)) /\ ~(s.moveId[p] = 0 /\ HasAI(s, p) /\ s.timedPlayers[p] = 0)
  BY <1>4 DEF Visited
<1> QED
  BY <1>2, <1>3, <1>4

LEMMA KnowingVisitAll ==
    ASSUME NEW tk, NEW ahead \in Seq(SimAction), NEW ids, NEW away,
           NEW s \in Knowing(tk, ahead, ids, {}), s \in Turns(tk, ahead, away),
           Discipline = "Free"
    PROVE  EndAndGiveComputerMoves(s, tk) \in Knowing(tk, ahead, ids, {})
<1> DEFINE D == Turns(tk, ahead, away) \cap Knowing(tk, ahead, ids, {})
<1>1. PICK f : /\ f[0] = s
               /\ \A p \in 1 .. N :
                    f[p] = IF p \in TakeTurns(tk) THEN Visited(f[p - 1], tk, p) ELSE f[p - 1]
               /\ EndAndGiveComputerMoves(s, tk) = f[N]
  <2>1. /\ EndAndGiveComputerMoves(s, tk) = EndAndGiveComputerMoves(s, tk)
        /\ s \in Turns(tk, ahead, away)
    OBVIOUS
  <2> QED
    BY <2>1, VisitLoop
<1>2. ASSUME NEW p \in 1 .. N, f[p - 1] \in D PROVE f[p] \in D
  <2>1. PICK u \in D : u = f[p - 1]
    BY <1>2
  <2>2. CASE p \in TakeTurns(tk)
    <3>1. PICK v : v = Visited(u, tk, p)
      OBVIOUS
    <3>2. f[p] = v
      BY <1>1, <2>1, <2>2, <3>1
    <3>3. v \in Turns(tk, ahead, away)
      <4>1. u \in Turns(tk, ahead, away) /\ p \in Tankets
        OBVIOUS
      <4> QED
        BY <3>1, <4>1, TurnsVisit
    <3>4. v \in Knowing(tk, ahead, ids, {})
      <4>1. u \in Knowing(tk, ahead, ids, {}) /\ Timers(u)
        BY DEF Turns, Common
      <4> QED
        BY <2>2, <3>1, <4>1, KnowingVisit
    <3> QED
      BY <3>2, <3>3, <3>4
  <2>3. CASE p \notin TakeTurns(tk)
    BY <1>1, <1>2, <2>3
  <2> QED
    BY <2>2, <2>3
<1>3. N \in Nat /\ N \in 0 .. N /\ f[0] \in D
  BY <1>1
<1> HIDE DEF D
<1>4. \A i \in 0 .. N : f[i] \in D
  BY <1>2, <1>3, LoopKeeps
<1> QED
  BY <1>1, <1>3, <1>4 DEF D

\* A player that may get a move is one of a client: it is not asked.
LEMMA KnowingGiveReady ==
    ASSUME NEW tk, NEW ahead \in Seq(SimAction), NEW ids, NEW s \in Knowing(tk, ahead, ids, {}),
           Timers(s), NEW t, t = GiveReady(s, tk)
    PROVE  t \in Knowing(tk, ahead, ids, {})
<1>1. s \in TurnsState /\ s.waitingPlayers \in Seq(Tankets)
  BY StateFields DEF Knowing
<1>2. CASE Ready(s, tk) = {}
  BY <1>2 DEF GiveReady
<1>3. CASE Ready(s, tk) # {}
  <2>1. PICK n : n = FirstReady(s, tk)
    OBVIOUS
  <2>2. n \in Ready(s, tk)
    BY <1>3, <2>1, FirstReadyIs
  <2>3. PICK p : p = s.waitingPlayers[n]
    OBVIOUS
  <2>4. /\ n \in 1 .. Len(s.waitingPlayers) /\ p \in Alive(tk) /\ s.moveId[p] = 0
        /\ DestinationOf(s, p) # 0
    BY <2>2, <2>3 DEF Ready
  <2>5. p \in Tankets
    BY <2>4 DEF Alive
  <2>6. p \notin Computer
    <3>1. \A q \in Computer : Owner[q] = 0
      OBVIOUS
    <3> QED
      BY <2>4, <3>1 DEF DestinationOf
  <2>7. PICK time \in {0, MoveTime} : time = 0
    OBVIOUS
  <2>8. PICK g : g = GiveMove(s, p, time)
    OBVIOUS
  <2>9. g \in Knowing(tk, ahead, ids, {})
    BY <2>4, <2>5, <2>6, <2>8, KnowingGive
  <2>10. g.waitingPlayers = s.waitingPlayers
    <3>1. PICK next : next = s.nextMoveId + 1
      OBVIOUS
    <3>2. Given(s, g, p, next, time)
      BY <1>1, <2>5, <2>8, <3>1, GiveMoveIs
    <3>3. Rest(g) = Rest(s)
      BY <3>2 DEF Given
    <3> QED
      BY <3>3 DEF Rest
  <2>11. PICK waiting \in Seq(Tankets) :
            waiting = Append(RemoveAt(s.waitingPlayers, n), s.waitingPlayers[n])
    <3>1. PICK q \in Seq(Tankets) : q = s.waitingPlayers
      BY <1>1
    <3>2. n \in 1 .. Len(q)
      BY <2>4, <3>1
    <3>3. Append(RemoveAt(q, n), q[n]) \in Seq(Tankets)
      BY <3>2, BehindIs
    <3> QED
      BY <3>1, <3>3
  <2>12. t = [g EXCEPT !.waitingPlayers = waiting]
    <3>1. t = [g EXCEPT !.waitingPlayers = Append(RemoveAt(g.waitingPlayers, n), g.waitingPlayers[n])]
      BY <1>3, <2>1, <2>3, <2>7, <2>8 DEF GiveReady
    <3> QED
      BY <2>10, <2>11, <3>1
  <2> QED
    BY <2>9, <2>12, KnowingWaits
<1> QED
  BY <1>2, <1>3

LEMMA KnowingSimulate ==
    ASSUME Discipline # "Simultaneous" \/ NonNormal = {},
           NEW tk, NEW ahead \in Seq(SimAction), NEW ids, NEW away,
           NEW s \in Knowing(tk, ahead, ids, {}), s \in Turns(tk, ahead, away),
           NEW inFlight, NEW time \in {0, 1}, NEW order, IsOrder(order),
           NEW t, t = Simulate(s, tk, inFlight, time, order)
    PROVE  t \in Knowing(tk, ahead, ids, {})
<1> DEFINE D == Turns(tk, ahead, away) \cap Knowing(tk, ahead, ids, {})
<1>1. PICK a \in D : a = WaitForShotsToEnd(s, inFlight)
  <2>1. PICK u : u = WaitForShotsToEnd(s, inFlight)
    OBVIOUS
  <2>2. u \in Turns(tk, ahead, away)
    <3>1. s \in Turns(tk, ahead, away) /\ WaitForShotsToEnd(s, inFlight) = u
      BY <2>1
    <3> QED
      BY <3>1, TurnsWait
  <2>3. u \in Knowing(tk, ahead, ids, {})
    BY <2>1, KnowingWait
  <2> QED
    BY <2>1, <2>2, <2>3
<1>2. PICK b : b = RunTimers(a, time)
  OBVIOUS
<1>3. b \in D
  BY <1>2, TurnsTimers, KnowingTimers
<1>4. PICK c : c = TimeOut(b, tk)
  OBVIOUS
<1>5. c \in D
  BY <1>3, <1>4, TurnsTimeOut, KnowingTimeOut
<1>6. PICK d : d = GiveNonNormalMoves(c, tk)
  OBVIOUS
<1>7. d \in D
  BY <1>5, <1>6, TurnsNonNormal, KnowingNonNormals
<1>8. PICK e : e = RunDelays(d, time)
  OBVIOUS
<1>9. e \in Turns(tk, ahead, away) /\ e \in Knowing(tk, ahead, ids, {})
  BY <1>7, <1>8, TurnsDelays, KnowingDelays
<1>10. PICK f : f = InternalSimulate(e, tk, time, order)
  OBVIOUS
<1>11. f \in Knowing(tk, ahead, ids, {})
  <2>1. CASE Discipline = "Sequential"
    <3>1. f = SequentialSimulate(e, tk, order)
      BY <1>10, <2>1 DEF InternalSimulate
    <3> QED
      BY <1>9, <2>1, <3>1, KnowingSequential
  <2>2. CASE Discipline = "Simultaneous"
    <3>1. f = SimultaneousSimulate(e, tk, time)
      BY <1>10, <2>2 DEF InternalSimulate
    <3> QED
      BY <1>9, <2>2, <3>1, KnowingSimultaneous
  <2>3. CASE Discipline = "Free"
    <3>1. PICK u : u = EndAndGiveComputerMoves(e, tk)
      OBVIOUS
    <3>2. u \in Knowing(tk, ahead, ids, {})
      BY <1>9, <2>3, <3>1, KnowingVisitAll
    <3>3. Timers(u)
      <4>1. u \in Visits(tk, ahead, away)
        BY <1>9, <2>3, <3>1, TurnsVisitAll
      <4> QED
        BY <4>1 DEF Visits, Turns, Common
    <3>4. f = GiveReady(u, tk)
      BY <1>10, <2>3, <3>1, FreeSimulateIs DEF InternalSimulate
    <3> QED
      BY <3>2, <3>3, <3>4, KnowingGiveReady
  <2> QED
    BY <2>1, <2>2, <2>3, DisciplineAssumption
<1>12. t = IF a.shotsState # "eShotsNone" THEN a ELSE f
  BY <1>1, <1>2, <1>4, <1>6, <1>8, <1>10 DEF Simulate
<1> QED
  BY <1>11, <1>12

-----------------------------------------------------------------------------
(* What is known when the actions of the queue are applied one by one.      *)

\* r is what is left of the actions q when the first was applied.
IsTail(r, q) ==
    /\ r \in Seq(SimAction) /\ q \in Seq(SimAction) /\ Len(q) = Len(r) + 1
    /\ \A j \in 1 .. Len(r) : r[j] = q[j + 1]

LEMMA ShownTail ==
    ASSUME NEW q, NEW r, IsTail(r, q), NEW p, NEW id, NEW move, Shown(q, p, id, move)
    PROVE  Shown(r, p, IF Own(q[1], p) THEN Effect(q[1]) ELSE id, move)
<1>1. PICK n \in Nat, m \in Nat : n = Len(r) /\ m = Len(q) /\ m = n + 1
  BY DEF IsTail
<1>2. \A j \in 1 .. n : r[j] = q[j + 1]
  BY <1>1 DEF IsTail
<1>3. PICK shows : shows = IF Own(q[1], p) THEN Effect(q[1]) ELSE id
  OBVIOUS
<1>4. CASE move = id /\ \A i \in 1 .. m : ~Own(q[i], p)
  <2>1. 1 \in 1 .. m /\ \A j \in 1 .. n : j + 1 \in 1 .. m
    BY <1>1
  <2>2. move = shows /\ \A j \in 1 .. n : ~Own(r[j], p)
    BY <1>2, <1>3, <1>4, <2>1
  <2> QED
    BY <1>1, <1>3, <2>2 DEF Shown
<1>5. ASSUME NEW i \in 1 .. m, Own(q[i], p), move = Effect(q[i]),
             \A j \in i + 1 .. m : ~Own(q[j], p)
      PROVE  Shown(r, p, shows, move)
  <2>1. CASE i = 1
    <3>1. \A j \in 1 .. n : j + 1 \in i + 1 .. m
      BY <1>1, <2>1
    <3>2. move = shows /\ \A j \in 1 .. n : ~Own(r[j], p)
      BY <1>2, <1>3, <1>5, <2>1, <3>1
    <3> QED
      BY <1>1, <3>2 DEF Shown
  <2>2. CASE i # 1
    <3>1. i - 1 \in 1 .. n /\ i - 1 + 1 = i
      BY <1>1, <2>2
    <3>2. r[i - 1] = q[i]
      BY <1>2, <3>1
    <3>3. ASSUME NEW j \in i - 1 + 1 .. n PROVE ~Own(r[j], p)
      <4>1. j \in 1 .. n /\ j + 1 \in i + 1 .. m
        BY <1>1, <3>1
      <4> QED
        BY <1>2, <1>5, <4>1
    <3>4. Own(r[i - 1], p) /\ move = Effect(r[i - 1])
      BY <1>5, <3>2
    <3> QED
      BY <1>1, <3>1, <3>3, <3>4 DEF Shown
  <2> QED
    BY <2>1, <2>2
<1> QED
  BY <1>1, <1>3, <1>4, <1>5 DEF Shown

LEMMA AskedTail ==
    ASSUME NEW s, NEW q, NEW r, IsTail(r, q), NEW p, Asked(s, q, p)
    PROVE  /\ Asked(s, r, p)
           /\ Starts(q[1], p) => AskedAt(s, q, p, 1)
           /\ Starts(q[1], p) /\ q[1].move = s.moveId[p] => NotAsked(r, p)
<1>1. PICK n \in Nat, m \in Nat : n = Len(r) /\ m = Len(q) /\ m = n + 1
  BY DEF IsTail
<1>2. \A j \in 1 .. n : r[j] = q[j + 1] /\ j + 1 \in 1 .. m /\ j + 1 # 1
  BY <1>1 DEF IsTail
<1>3. ASSUME NEW i \in 1 .. n, Starts(r[i], p) PROVE AskedAt(s, r, p, i)
  <2>1. AskedAt(s, q, p, i + 1)
    BY <1>1, <1>2, <1>3 DEF Asked
  <2>2. ASSUME NEW j \in 1 .. n, Starts(r[j], p), r[j].move = r[i].move,
               \A k \in 1 .. m : Starts(q[k], p) /\ q[k].move = q[i + 1].move => k = i + 1
        PROVE  j = i
    <3>1. j + 1 = i + 1
      BY <1>2, <2>2
    <3> QED
      BY <3>1
  <2> QED
    BY <1>1, <1>2, <2>1, <2>2 DEF AskedAt
<1>4. Starts(q[1], p) => AskedAt(s, q, p, 1)
  <2>1. 1 \in 1 .. m
    BY <1>1
  <2> QED
    BY <1>1, <2>1 DEF Asked
<1>5. ASSUME Starts(q[1], p), q[1].move = s.moveId[p], NEW i \in 1 .. n, Asks(r[i], p)
      PROVE  FALSE
  <2>1. AskedAt(s, q, p, i + 1) /\ ~q[i + 1].again /\ 1 \in 1 .. m
    BY <1>1, <1>2, <1>5 DEF Asked, Asks
  <2>2. /\ q[i + 1].move = s.moveId[p]
        /\ \A j \in 1 .. m : Starts(q[j], p) /\ q[j].move = q[i + 1].move => j = i + 1
    BY <1>1, <2>1 DEF AskedAt
  <2>3. 1 = i + 1
    BY <1>5, <2>1, <2>2
  <2> QED
    BY <2>3
<1> QED
  BY <1>1, <1>3, <1>4, <1>5 DEF Asked, NotAsked

\* An action of those ahead was applied.
LEMMA LeftTail ==
    ASSUME NEW r \in Seq(SimAction), NEW i \in 1 .. Len(r), NEW k, IsLeft(k, r, i - 1),
           NEW l, IsLeft(l, r, i)
    PROVE  IsTail(l, k) /\ k[1] = r[i]
<1>1. k \in Seq(SimAction) /\ l \in Seq(SimAction)
  BY DEF IsLeft
<1>2. /\ Len(r) \in Nat /\ Len(k) = Len(r) - (i - 1) /\ Len(l) = Len(r) - i
  BY DEF IsLeft
<1>3. Len(k) = Len(l) + 1 /\ 1 \in 1 .. Len(k)
  BY <1>2
<1>4. ASSUME NEW j \in 1 .. Len(l) PROVE l[j] = k[j + 1]
  <2>1. j + 1 \in 1 .. Len(k)
    BY <1>2
  <2>2. l[j] = r[i + j] /\ k[j + 1] = r[i - 1 + (j + 1)]
    BY <2>1 DEF IsLeft
  <2>3. i - 1 + (j + 1) = i + j
    BY <1>2
  <2> QED
    BY <2>2, <2>3
<1>5. k[1] = r[i]
  <2>1. \A j \in 1 .. Len(k) : k[j] = r[i - 1 + j]
    BY DEF IsLeft
  <2>2. k[1] = r[i - 1 + 1]
    BY <1>3, <2>1
  <2>3. i - 1 + 1 = i
    OBVIOUS
  <2> QED
    BY <2>2, <2>3
<1> QED
  BY <1>1, <1>3, <1>4, <1>5 DEF IsTail

LEMMA TailAnd ==
    ASSUME NEW k, NEW l, IsTail(l, k), NEW m \in Seq(SimAction), NEW q, q = k \o m,
           NEW v, v = l \o m
    PROVE  IsTail(v, q) /\ q[1] = k[1]
<1>1. /\ k \in Seq(SimAction) /\ l \in Seq(SimAction) /\ Len(k) = Len(l) + 1
      /\ \A j \in 1 .. Len(l) : l[j] = k[j + 1]
  BY DEF IsTail
<1>2. (k \o m)[1] = k[1]
  <2>1. 1 \in 1 .. Len(k)
    BY <1>1
  <2> QED
    BY <1>1, <2>1
<1>3. /\ Len(k \o m) = Len(l \o m) + 1
      /\ \A j \in 1 .. Len(l \o m) : (l \o m)[j] = (k \o m)[j + 1]
  BY <1>1, TailOf, Zenon
<1>4. k \o m \in Seq(SimAction) /\ l \o m \in Seq(SimAction)
  BY <1>1
<1> QED
  BY <1>2, <1>3, <1>4 DEF IsTail

\* A computer player that can answer the action a, and what is known of a.
Answering(s, tk, a) ==
    {p \in Alive(tk) \cap Computer : Starts(a, p) /\ a.move = s.moveId[p]}

RightlyAsked(s, tk, a) ==
    \A p \in Alive(tk) \cap Computer :
        Starts(a, p) => /\ a.move <= Highest(s, p)
                        /\ a.again => ~a.timed
                        /\ ~a.again => a.move = s.moveId[p]

\* What the clients show when a was applied.
Showing(tk, a, ids, ids2) ==
    \A p \in Alive(tk) : ids2[p] = IF Own(a, p) THEN Effect(a) ELSE ids[p]

LEMMA KnowingTail ==
    ASSUME NEW tk, NEW k, NEW l, IsTail(l, k), NEW a, a = k[1],
           NEW ids, NEW ids2, Showing(tk, a, ids, ids2), NEW s \in Knowing(tk, k, ids, {})
    PROVE  /\ s \in Knowing(tk, l, ids2, Answering(s, tk, a))
           /\ RightlyAsked(s, tk, a)
<1>1. s \in TurnsState
  BY DEF Knowing
<1>2. PICK m \in Seq(SimAction) : m = s.sendActions
  BY <1>1, StateFields
<1>3. PICK q : q = k \o m
  OBVIOUS
<1>4. PICK v : v = l \o m
  OBVIOUS
<1>5. IsTail(v, q) /\ q[1] = a
  BY <1>3, <1>4, TailAnd
<1>7. \A p \in Alive(tk) : Knows(s, q, p, ids[p])
  BY <1>2, <1>3 DEF Knowing
<1>8. ASSUME NEW p \in Alive(tk) PROVE Knows(s, v, p, ids2[p])
  <2>1. Shown(q, p, ids[p], s.moveId[p])
    BY <1>7 DEF Knows
  <2>2. Shown(v, p, IF Own(q[1], p) THEN Effect(q[1]) ELSE ids[p], s.moveId[p])
    BY <1>5, <2>1, ShownTail
  <2>3. ids2[p] = IF Own(q[1], p) THEN Effect(q[1]) ELSE ids[p]
    BY <1>5 DEF Showing
  <2>4. p \in Computer => Asked(s, v, p)
    BY <1>5, <1>7, AskedTail DEF Knows
  <2> QED
    BY <2>2, <2>3, <2>4 DEF Knows
<1>9. ASSUME NEW p \in Answering(s, tk, a) PROVE NotAsked(v, p)
  <2>1. p \in Alive(tk) /\ p \in Computer /\ Starts(q[1], p) /\ q[1].move = s.moveId[p]
    BY <1>5 DEF Answering
  <2>2. Asked(s, q, p)
    BY <1>7, <2>1 DEF Knows
  <2> QED
    BY <1>5, <2>1, <2>2, AskedTail
<1>10. RightlyAsked(s, tk, a)
  <2> SUFFICES ASSUME NEW p \in Alive(tk) \cap Computer, Starts(a, p)
               PROVE  /\ a.move <= Highest(s, p)
                      /\ a.again => ~a.timed
                      /\ ~a.again => a.move = s.moveId[p]
    BY DEF RightlyAsked
  <2>1. Asked(s, q, p) /\ Starts(q[1], p)
    BY <1>5, <1>7 DEF Knows
  <2>2. AskedAt(s, q, p, 1)
    BY <1>5, <2>1, AskedTail
  <2> QED
    BY <1>5, <2>2 DEF AskedAt
<1>11. s \in Knowing(tk, l, ids2, Answering(s, tk, a))
  BY <1>1, <1>2, <1>4, <1>8, <1>9 DEF Knowing
<1> QED
  BY <1>10, <1>11

\* Only a computer player has batteries.
Uses(a, answers, away) ==
    a.kind = "start" /\ a.player \in away \ Computer => answers[a.player] # "batteries"

LEMMA KnowingAnswered ==
    ASSUME NEW away, NEW w \in WorldsOf(away), NEW tk, tk = w.tank, NEW s, s = w.turns,
           NEW a \in SimAction, a.kind = "start",
           NEW ahead \in Seq(SimAction), NEW ids, NEW free, free = Answering(s, tk, a),
           s \in Knowing(tk, ahead, ids, free), RightlyAsked(s, tk, a),
           NEW answers, Uses(a, answers, away), NEW thinking, Thinks(a, thinking, away),
           NEW t, t = Answered(w, a, answers, thinking)
    PROVE  t \in Knowing(tk, ahead, ids, free)
<1>1. s \in TurnsState /\ s.deserted = away
  BY DEF Knowing, WorldsOf
<1>2. PICK p \in Tankets : p = a.player
  BY StartFields
<1>3. PICK move \in MoveIds : move = a.move
  BY StartFields
<1>4. free \in SUBSET Tankets
  BY DEF Answering
<1>5. CASE p \notin Alive(tk) \/ ~HasAI(s, p)
  <2>1. t = s
    BY <1>2, <1>5 DEF Answered
  <2> QED
    BY <2>1
<1>6. CASE p \in Alive(tk) /\ HasAI(s, p) /\ answers[p] = "batteries" /\ ~a.again
  <2>1. p \in Computer
    BY <1>1, <1>2, <1>6 DEF Uses, HasAI
  <2>2. Starts(a, p)
    BY <1>2 DEF Starts
  <2>3. move = s.moveId[p] /\ move <= Highest(s, p)
    BY <1>3, <1>6, <2>1, <2>2 DEF RightlyAsked
  <2>4. p \in free
    BY <1>3, <1>6, <2>1, <2>2, <2>3 DEF Answering
  <2>5. t = AddSimulatorAction(s, StartAgain(p, move))
    BY <1>2, <1>3, <1>6 DEF Answered
  <2> QED
    BY <1>4, <2>3, <2>4, <2>5, KnowingAgain
<1>7. CASE p \in Alive(tk) /\ HasAI(s, p) /\ ~(answers[p] = "batteries" /\ ~a.again)
  <2>1. PICK time \in Nat : time = thinking[p]
    BY <1>1, <1>2, <1>7 DEF Thinks, HasAI
  <2>2. PICK type \in {"eShot", "eSkip"} : type = IF p \in Computer THEN "eShot" ELSE "eSkip"
    OBVIOUS
  <2>3. PICK m : m = [player |-> p, move |-> move, type |-> type]
    OBVIOUS
  <2>4. m \in Message /\ m.player = p /\ m.move = move
    BY <2>3 DEF Message, MoveIds
  <2>5. MayAnswer(s, tk, m, free)
    <3>1. Starts(a, p)
      BY <1>2 DEF Starts
    <3> QED
      BY <1>3, <2>4, <3>1 DEF MayAnswer, Answering
  <2>6. t = MoveFinished(s, tk, m, time)
    BY <1>2, <1>3, <1>7, <2>1, <2>2, <2>3 DEF Answered
  <2> QED
    BY <1>4, <2>4, <2>5, <2>6, KnowingFinished
<1> QED
  BY <1>5, <1>6, <1>7

\* No tank comes back to life.
Unrevived(inFlight) == \A x \in Revivals, p \in Tankets : <<x, p>> \notin inFlight

KnownTanks(tk) == \A p \in Alive(tk) : clientTank[p] = "sNormal"

Knowers(ahead) ==
    {w \in WorldState : /\ w.turns \in Knowing(w.tank, ahead, w.clientMove, {})
                        /\ KnownTanks(w.tank) /\ Unrevived(w.flying)}

\* A step of the turns that leaves the tankets and what flies alone.
LEMMA KnowersTurns ==
    ASSUME NEW ahead, NEW w \in WorldState, KnownTanks(w.tank), Unrevived(w.flying),
           NEW t \in TurnsState, NEW ids \in [Tankets -> Nat],
           t \in Knowing(w.tank, ahead, ids, {}),
           NEW u, u = [w EXCEPT !.turns = t, !.clientMove = ids]
    PROVE  u \in Knowers(ahead)
<1>1. IsWorld(w, u, t)
  BY WorldIs
<1>2. u.clientMove = ids
  BY DEF WorldState
<1> QED
  BY <1>1, <1>2 DEF IsWorld, Knowers

LEMMA KnowersStart ==
    ASSUME NEW away, NEW w \in WorldsOf(away), NEW k, NEW l, IsTail(l, k), w \in Knowers(k),
           NEW a \in SimAction, a = k[1], a.kind = "start",
           NEW answers, Uses(a, answers, away), NEW thinking, Thinks(a, thinking, away)
    PROVE  InvokeStart(w, a, answers, thinking) \in Knowers(l)
<1>1. w \in WorldState /\ w.clientMove \in [Tankets -> Nat] /\ l \in Seq(SimAction)
  BY WorldFields DEF WorldsOf, IsTail
<1>2. PICK p \in Tankets : p = a.player
  BY StartFields
<1>3. PICK tk : tk = w.tank
  OBVIOUS
<1>4. PICK s : s = w.turns
  OBVIOUS
<1>5. PICK old \in [Tankets -> Nat] : old = w.clientMove
  BY <1>1
<1>6. PICK ids \in [Tankets -> Nat] :
         ids = [old EXCEPT ![p] = IF clientTank[p] = "sNormal" THEN a.move ELSE @]
  <2>1. a.move \in Nat
    BY StartFields DEF MoveIds
  <2>2. [old EXCEPT ![p] = IF clientTank[p] = "sNormal" THEN a.move ELSE @] \in [Tankets -> Nat]
    BY <2>1
  <2> QED
    BY <2>2
<1>7. s \in Knowing(tk, k, old, {}) /\ KnownTanks(tk)
  BY <1>3, <1>4, <1>5 DEF Knowers
<1>8. Showing(tk, a, old, ids)
  <2> SUFFICES ASSUME NEW o \in Alive(tk)
               PROVE  ids[o] = IF Own(a, o) THEN Effect(a) ELSE old[o]
    BY DEF Showing
  <2>1. o \in Tankets /\ clientTank[o] = "sNormal"
    BY <1>7 DEF Alive, KnownTanks
  <2>2. Effect(a) = a.move /\ (Own(a, o) <=> o = p)
    BY <1>2 DEF Effect, Own
  <2> QED
    BY <1>6, <2>1, <2>2
<1>9. PICK free : free = Answering(s, tk, a)
  OBVIOUS
<1>10. s \in Knowing(tk, l, ids, free) /\ RightlyAsked(s, tk, a)
  BY <1>7, <1>8, <1>9, KnowingTail
<1>11. PICK answered : answered = Answered(w, a, answers, thinking)
  OBVIOUS
<1>12. answered \in Knowing(tk, l, ids, free)
  BY <1>1, <1>3, <1>4, <1>9, <1>10, <1>11, KnowingAnswered
<1>13. PICK t : t = IF a.timed THEN MoveStarted(answered, p) ELSE answered
  OBVIOUS
<1>14. t \in Knowing(tk, l, ids, free)
  <2>1. CASE a.timed
    <3>1. Starts(a, p)
      BY <1>2 DEF Starts
    <3>2. p \in Alive(tk) \cap Computer => p \in free
      BY <1>9, <1>10, <2>1, <3>1 DEF RightlyAsked, Answering
    <3>3. t = MoveStarted(answered, p)
      BY <1>13, <2>1
    <3>4. free \in SUBSET Tankets
      BY <1>9 DEF Answering
    <3> QED
      BY <1>1, <1>12, <3>2, <3>3, <3>4, KnowingStarted
  <2>2. CASE ~a.timed
    BY <1>12, <1>13, <2>2
  <2> QED
    BY <2>1, <2>2
<1>15. t \in TurnsState /\ t \in Knowing(tk, l, ids, {})
  BY <1>14, KnowingFewer DEF Knowing
<1>16. PICK u : u = [w EXCEPT !.turns = t, !.clientMove = ids]
  OBVIOUS
<1>17. InvokeStart(w, a, answers, thinking) = u
  BY <1>2, <1>5, <1>6, <1>11, <1>13, <1>16 DEF InvokeStart, Answered
<1>18. u \in Knowers(l)
  BY <1>1, <1>3, <1>15, <1>16, KnowersTurns DEF Knowers
<1> QED
  BY <1>17, <1>18

LEMMA KnowersStop ==
    ASSUME NEW away, NEW w \in WorldsOf(away), NEW k, NEW l, IsTail(l, k), w \in Knowers(k),
           NEW a \in SimAction, a = k[1], a.kind = "stop"
    PROVE  InvokeStop(w, a) \in Knowers(l)
<1>1. w \in WorldState /\ w.clientMove \in [Tankets -> Nat]
  BY WorldFields DEF WorldsOf
<1>2. PICK p \in Tankets : p = a.player
  BY ActionFields
<1>3. PICK tk : tk = w.tank
  OBVIOUS
<1>4. PICK t : t = w.turns
  OBVIOUS
<1>5. PICK old \in [Tankets -> Nat] : old = w.clientMove
  BY <1>1
<1>6. PICK ids \in [Tankets -> Nat] :
         ids = [old EXCEPT ![p] = IF clientTank[p] = "gone" THEN @ ELSE 0]
  <2>1. [old EXCEPT ![p] = IF clientTank[p] = "gone" THEN @ ELSE 0] \in [Tankets -> Nat]
    OBVIOUS
  <2> QED
    BY <2>1
<1>7. t \in Knowing(tk, k, old, {}) /\ KnownTanks(tk)
  BY <1>3, <1>4, <1>5 DEF Knowers
<1>8. Showing(tk, a, old, ids)
  <2> SUFFICES ASSUME NEW o \in Alive(tk)
               PROVE  ids[o] = IF Own(a, o) THEN Effect(a) ELSE old[o]
    BY DEF Showing
  <2>1. o \in Tankets /\ clientTank[o] = "sNormal"
    BY <1>7 DEF Alive, KnownTanks
  <2>2. Effect(a) = 0 /\ (Own(a, o) <=> o = p)
    BY <1>2 DEF Effect, Own
  <2> QED
    BY <1>6, <2>1, <2>2
<1>9. t \in Knowing(tk, l, ids, Answering(t, tk, a))
  BY <1>7, <1>8, KnowingTail
<1>10. t \in TurnsState /\ t \in Knowing(tk, l, ids, {})
  BY <1>9, KnowingFewer DEF Knowing
<1>11. PICK u : u = [w EXCEPT !.turns = t, !.clientMove = ids]
  OBVIOUS
<1>12. InvokeStop(w, a) = u
  BY <1>1, <1>2, <1>4, <1>5, <1>6, <1>11 DEF InvokeStop, WorldState
<1>13. u \in Knowers(l)
  BY <1>1, <1>3, <1>10, <1>11, KnowersTurns DEF Knowers
<1> QED
  BY <1>12, <1>13

\* Who is no longer alive need not know a move.
LEMMA KnowingAlive ==
    ASSUME NEW tk, NEW tk2, Alive(tk2) \subseteq Alive(tk), NEW ahead, NEW ids,
           NEW s \in Knowing(tk, ahead, ids, {})
    PROVE  s \in Knowing(tk2, ahead, ids, {})
BY DEF Knowing

\* The actions that are not about a move.
LEMMA KnowersOther ==
    ASSUME NEW k, NEW l, IsTail(l, k), NEW w \in Knowers(k), NEW a \in SimAction, a = k[1],
           a.kind \notin {"start", "stop"}
    PROVE  w \in Knowers(l)
<1>1. PICK tk : tk = w.tank
  OBVIOUS
<1>2. PICK s : s = w.turns
  OBVIOUS
<1>3. PICK ids : ids = w.clientMove
  OBVIOUS
<1>4. s \in Knowing(tk, k, ids, {})
  BY <1>1, <1>2, <1>3 DEF Knowers
<1>5. Showing(tk, a, ids, ids)
  BY DEF Showing, Own
<1>6. s \in Knowing(tk, l, ids, Answering(s, tk, a))
  BY <1>4, <1>5, KnowingTail
<1>7. s \in Knowing(tk, l, ids, {})
  BY <1>6, KnowingFewer
<1> QED
  BY <1>1, <1>2, <1>3, <1>7 DEF Knowers

\* The shots that are fired leave the moves alone, whoever is out of the game.
LEMMA KnowersShots ==
    ASSUME NEW ahead \in Seq(SimAction), NEW w \in WorldState, w \in Knowers(ahead),
           NEW a \in SimAction, a.kind = "shots", NEW u \in WorldState, u = InvokeShots(w, a)
    PROVE  u \in Knowers(ahead)
<1>1. PICK tk : tk = w.tank
  OBVIOUS
<1>2. PICK s : s = w.turns
  OBVIOUS
<1>3. PICK ids : ids = w.clientMove
  OBVIOUS
<1>4. s \in Knowing(tk, ahead, ids, {})
  BY <1>1, <1>2, <1>3 DEF Knowers
<1>5. PICK t : t = IF WaitForShots THEN ShotsStarted(s) ELSE s
  OBVIOUS
<1>6. t \in Knowing(tk, ahead, ids, {})
  <2>1. PICK state \in {"eShotsNone", "eShotsWaitingStart", "eShotsWaitingEnd"} :
          state = "eShotsWaitingEnd"
    OBVIOUS
  <2>2. PICK v : v = [s EXCEPT !.shotsState = state]
    OBVIOUS
  <2>3. v \in Knowing(tk, ahead, ids, {})
    BY <1>4, <2>2, KnowingShotsState
  <2>4. v = ShotsStarted(s)
    BY <2>1, <2>2 DEF ShotsStarted
  <2> QED
    BY <1>4, <1>5, <2>3, <2>4
<1>7. u.turns = t /\ u.clientMove = ids
  BY <1>2, <1>3, <1>5 DEF InvokeShots, WorldState
<1>8. PICK moves : moves = {m \in a.moves : m.player \in Alive(w.tank)}
  OBVIOUS
<1>9. Alive(u.tank) \subseteq Alive(tk)
  <2>1. PICK out : out = IF a.timeOut THEN MissedTooMany(w.missedMoves, moves) ELSE {}
    OBVIOUS
  <2>2. u.tank = [p \in Tankets |-> IF p \in out THEN "sSpectator" ELSE tk[p]]
    BY <1>1, <1>8, <2>1 DEF InvokeShots, WorldState
  <2> QED
    BY <2>2 DEF Alive
<1>10. u.flying = w.flying \cup {<<"shot", m.player>> :
                                 m \in {n \in moves : n.type = "eShot" /\ a.referenced}}
  BY <1>8 DEF InvokeShots, WorldState
<1>11. Unrevived(w.flying)
  BY DEF Knowers
<1>12. Unrevived(u.flying)
  BY <1>10, <1>11 DEF Unrevived, Revivals, Reviving
<1>13. KnownTanks(u.tank)
  BY <1>1, <1>9 DEF Knowers, KnownTanks
<1>14. PICK tk2 : tk2 = u.tank
  OBVIOUS
<1>15. t \in Knowing(tk2, ahead, ids, {})
  BY <1>6, <1>9, <1>14, KnowingAlive
<1> QED
  BY <1>7, <1>12, <1>13, <1>14, <1>15 DEF Knowers

LEMMA KnowersInvoke ==
    ASSUME NEW away, NEW k, NEW l, IsTail(l, k),
           NEW w \in WorldsOf(away), w \in Knowers(k), NEW a \in SimAction, a = k[1],
           NEW answers, Uses(a, answers, away), NEW thinking, Thinks(a, thinking, away),
           NEW u \in WorldsOf(away), u = Invoke(w, a, answers, thinking)
    PROVE  u \in Knowers(l)
<1>1. CASE a.kind = "start"
  <2>1. u = InvokeStart(w, a, answers, thinking)
    BY <1>1 DEF Invoke
  <2>2. InvokeStart(w, a, answers, thinking) \in Knowers(l)
    BY <1>1, KnowersStart
  <2> QED
    BY <2>1, <2>2
<1>2. CASE a.kind = "stop"
  <2>1. u = InvokeStop(w, a)
    BY <1>2 DEF Invoke
  <2> QED
    BY <1>2, <2>1, KnowersStop
<1>3. CASE a.kind \notin {"start", "stop"}
  <2>1. w \in Knowers(l)
    BY <1>3, KnowersOther
  <2>2. w \in WorldState /\ u \in WorldState /\ l \in Seq(SimAction)
    BY DEF WorldsOf, IsTail
  <2>3. CASE a.kind = "shots"
    <3>1. u = InvokeShots(w, a)
      BY <2>3 DEF Invoke
    <3> QED
      BY <2>1, <2>2, <2>3, <3>1, KnowersShots
  <2>4. CASE a.kind # "shots"
    <3>1. u = w
      BY <1>3, <2>4 DEF Invoke
    <3> QED
      BY <2>1, <3>1
  <2> QED
    BY <2>3, <2>4
<1> QED
  BY <1>1, <1>2, <1>3

LEMMA KnowersAll ==
    ASSUME NEW away, NEW q \in Seq(SimAction), NEW more \in Seq(SimAction),
           NEW w \in WorldsOf(away), w \in Knowers(q \o more), NEW answers, NEW thinking,
           \A i \in 1 .. Len(q) : Thinks(q[i], thinking, away),
           \A i \in 1 .. Len(q) : Uses(q[i], answers, away)
    PROVE  InvokeAll(w, q, answers, thinking) \in Knowers(more)
<1>1. Len(q) \in Nat
  OBVIOUS
<1>2. PICK after : /\ Applied(after, w, q, answers, thinking)
                   /\ \A i \in 0 .. Len(q) : after[i] \in WorldsOf(away)
                   /\ InvokeAll(w, q, answers, thinking) = after[Len(q)]
  BY InvokeLoop
<1>3. /\ after[0] = w
      /\ \A i \in 1 .. Len(q) : after[i] = Invoke(after[i - 1], q[i], answers, thinking)
  BY <1>2 DEF Applied
<1>4. PICK r \in Seq(SimAction) : /\ r = q \o more /\ Len(q) <= Len(r)
                                  /\ \A i \in 1 .. Len(q) : r[i] = q[i]
  <2>1. /\ q \o more \in Seq(SimAction) /\ Len(q \o more) = Len(q) + Len(more)
        /\ Len(more) \in Nat /\ \A i \in 1 .. Len(q) : (q \o more)[i] = q[i]
    BY ConcatProperties
  <2>2. Len(q) <= Len(q \o more)
    BY <1>1, <2>1
  <2> QED
    BY <2>1, <2>2
<1> DEFINE U == {i \in 0 .. Len(q) : \A l : IsLeft(l, r, i) => after[i] \in Knowers(l)}
<1>5. 0 \in U
  <2>1. ASSUME NEW l, IsLeft(l, r, 0) PROVE after[0] \in Knowers(l)
    <3>1. l = r
      BY <2>1, LeftAtStart
    <3> QED
      BY <1>3, <1>4, <3>1
  <2> QED
    BY <1>1, <2>1
<1>6. ASSUME NEW i \in 1 .. Len(q), i - 1 \in U PROVE i \in U
  <2>1. i \in 1 .. Len(r) /\ i - 1 \in 0 .. Len(r) /\ i \in 0 .. Len(q) /\ i - 1 \in 0 .. Len(q)
    BY <1>1, <1>4
  <2>2. PICK x \in WorldsOf(away) : x = after[i - 1]
    BY <1>2, <2>1
  <2>3. PICK y \in WorldsOf(away) : y = after[i]
    BY <1>2, <2>1
  <2>4. PICK a \in SimAction : a = q[i] /\ a = r[i]
    BY <1>4
  <2>5. y = Invoke(x, a, answers, thinking)
    BY <1>3, <2>2, <2>3, <2>4
  <2>6. PICK k : IsLeft(k, r, i - 1)
    BY <2>1, LeftExists
  <2>7. x \in Knowers(k)
    BY <1>6, <2>2, <2>6
  <2>8. Uses(a, answers, away) /\ Thinks(a, thinking, away)
    BY <2>4
  <2>9. ASSUME NEW l, IsLeft(l, r, i) PROVE y \in Knowers(l)
    <3>1. IsTail(l, k) /\ a = k[1]
      BY <2>1, <2>4, <2>6, <2>9, LeftTail
    <3> QED
      BY <2>5, <2>7, <2>8, <3>1, KnowersInvoke
  <2> QED
    BY <2>1, <2>3, <2>9
<1> HIDE DEF U
<1>7. \A i \in 0 .. Len(q) : i \in U
  BY <1>1, <1>5, <1>6, UpTo
<1>8. Len(q) \in U
  BY <1>1, <1>7
<1>9. IsLeft(more, r, Len(q))
  BY <1>4, LeftAtEnd
<1> QED
  BY <1>2, <1>8, <1>9 DEF U

-----------------------------------------------------------------------------
(* Every step keeps what the clients know.                                  *)

KnowInv ==
    /\ turns \in Knowing(tank, sent, clientMove, {})
    /\ KnownTanks(tank) /\ Unrevived(flying)

\* Nobody is shown a move before the first tick of a round, and nobody has one.
LEMMA KnowingEnter ==
    ASSUME NEW tk, NEW s \in TurnsState, s.sendActions = <<>>,
           NEW order, NEW t \in TurnsState, t = EnterTurns(s, tk, order)
    PROVE  t \in Knowing(tk, <<>>, [p \in Tankets |-> 0], {})
<1>1. PICK e : e = [s EXCEPT !.shotsState = "eShotsNone",
                             !.playingPlayers = [p \in Tankets |-> NoTimer],
                             !.timedPlayers = [p \in Tankets |-> 0],
                             !.moveId = [p \in Tankets |-> IF p \in Present(tk) THEN 0 ELSE @[p]]]
  OBVIOUS
<1>2. /\ e.sendActions = <<>>
      /\ e.moveId = [p \in Tankets |-> IF p \in Present(tk) THEN 0 ELSE s.moveId[p]]
  BY <1>1 DEF TurnsState
<1>3. t = InternalEnterState(e, tk, order)
  BY <1>1 DEF EnterTurns
<1>4. /\ t.sendActions = <<>>
      /\ \/ t.moveId = [p \in Tankets |-> IF p \in Present(tk) THEN 0 ELSE e.moveId[p]]
         \/ t.moveId = [p \in Tankets |-> IF p \in TakeTurns(tk) THEN 0 ELSE e.moveId[p]]
  <2>1. CASE Discipline = "Sequential"
    <3>1. t = SequentialEnterState(e, tk, order)
      BY <1>3, <2>1 DEF InternalEnterState
    <3> QED
      BY <1>1, <1>2, <3>1 DEF SequentialEnterState, TurnsState
  <2>2. CASE Discipline = "Simultaneous"
    <3>1. t = SimultaneousEnterState(e, tk)
      BY <1>3, <2>2 DEF InternalEnterState
    <3> QED
      BY <1>1, <1>2, <3>1 DEF SimultaneousEnterState, TurnsState
  <2>3. CASE Discipline = "Free"
    <3>1. t = FreeEnterState(e, tk)
      BY <1>3, <2>3 DEF InternalEnterState
    <3> QED
      BY <1>1, <1>2, <3>1 DEF FreeEnterState, TurnsState
  <2> QED
    BY <2>1, <2>2, <2>3, DisciplineAssumption
<1>5. ASSUME NEW p \in Alive(tk) PROVE p \in Tankets /\ t.moveId[p] = 0
  BY <1>2, <1>4 DEF Alive, Present, TakeTurns
<1>6. PICK none \in Seq(SimAction) : none = <<>> /\ Len(none) = 0
  <2>1. <<>> \in Seq(SimAction) /\ Len(<<>>) = 0
    OBVIOUS
  <2> QED
    BY <2>1
<1>7. none \o t.sendActions = none
  BY <1>4, <1>6
<1>8. PICK ids : ids = [p \in Tankets |-> 0]
  OBVIOUS
<1>9. ASSUME NEW p \in Alive(tk) PROVE Knows(t, none, p, ids[p])
  BY <1>5, <1>6, <1>8 DEF Knows, Shown, Asked
<1>10. t \in Knowing(tk, none, ids, {})
  BY <1>7, <1>9 DEF Knowing
<1> QED
  BY <1>6, <1>8, <1>10

LEMMA KnowEntered ==
    ASSUME NEW tk, NEW s \in TurnsState, s.sendActions = <<>>, NEW order,
           turns' \in TurnsState, turns' = EnterTurns(s, tk, order), tk = tank', sent' = <<>>,
           clientMove' = [p \in Tankets |-> 0], clientTank' = tank', flying' = {}
    PROVE  KnowInv'
<1>1. PICK t \in TurnsState : t = turns'
  OBVIOUS
<1>2. t \in Knowing(tk, <<>>, [p \in Tankets |-> 0], {})
  BY <1>1, KnowingEnter
<1>3. KnownTanks(tank)'
  BY DEF KnownTanks, Alive
<1>4. Unrevived(flying)'
  BY DEF Unrevived
<1> QED
  BY <1>1, <1>2, <1>3, <1>4 DEF KnowInv

LEMMA KnowInit ==
    ASSUME Init, IInv
    PROVE  KnowInv
<1>1. PICK order : turns = EnterTurns(NewTurns, tank, order)
  BY DEF Init
<1>2. PICK s, t, tk : s = NewTurns /\ t = turns /\ tk = tank /\ t \in TurnsState
  BY DEF IInv, TypeOK
<1>3. s \in TurnsState /\ s.sendActions = <<>>
  <2>1. <<>> \in Seq(SimAction) /\ <<>> \in Seq(Tankets) /\ 0 \in 0 .. N /\ NoTimer \in Timer
    BY DEF NoTimer, Timer
  <2> QED
    BY <1>2, <2>1 DEF NewTurns, TurnsState
<1>4. t \in Knowing(tk, <<>>, [p \in Tankets |-> 0], {})
  BY <1>1, <1>2, <1>3, KnowingEnter
<1>5. KnownTanks(tank) /\ Unrevived(flying)
  BY DEF Init, KnownTanks, Unrevived, Alive
<1> QED
  BY <1>2, <1>4, <1>5 DEF Init, KnowInv

LEMMA KnowTick ==
    ASSUME IInv, KnowInv, Tick, Discipline # "Simultaneous" \/ NonNormal = {}
    PROVE  KnowInv'
<1>1. PICK order \in OrdersNow : turns' = Simulate(turns, tank, flying, elapsed, order)
  BY DEF Tick
<1>2. IsOrder(order)
  <2>1. order \in DrawnOrders(tank) \cup {<<>>}
    BY <1>1 DEF OrdersNow
  <2> QED
    BY <2>1, OrdersAre
<1>3. PICK away, tk, inFlight, ids : /\ away = turns.deserted /\ tk = tank
                                     /\ inFlight = flying /\ ids = clientMove
  OBVIOUS
<1>4. PICK s \in TurnsState, ahead \in Seq(SimAction), time \in {0, 1} :
         s = turns /\ ahead = sent /\ time = elapsed
  BY DEF IInv, TypeOK
<1>5. s \in Turns(tk, ahead, away) /\ s \in Knowing(tk, ahead, ids, {})
  BY <1>3, <1>4 DEF IInv, TurnsInv, KnowInv
<1>6. PICK t : t = Simulate(s, tk, inFlight, time, order)
  OBVIOUS
<1>7. t \in Knowing(tk, ahead, ids, {})
  BY <1>2, <1>5, <1>6, KnowingSimulate
<1>8. turns' \in Knowing(tank, sent, clientMove, {})
  BY <1>1, <1>3, <1>4, <1>6, <1>7
<1>9. UNCHANGED <<sent, tank, flying, clientTank, clientMove>>
  BY DEF Tick
<1> QED
  BY <1>8, <1>9 DEF KnowInv, KnownTanks, Unrevived

LEMMA KnowInterval ==
    ASSUME IInv, KnowInv, SimulateInterval
    PROVE  KnowInv'
<1>1. PICK answers \in Answers, thinking \in [Called -> Delays] :
        LET start == [World EXCEPT !.turns.sendActions = <<>>,
                                   !.flying = {AfterInterval(f) : f \in flying}]
            w == InvokeAll(start, sent, answers, thinking)
        IN  /\ turns' = w.turns
            /\ tank' = w.tank
            /\ lives' = w.lives
            /\ missedMoves' = w.missedMoves
            /\ flying' = w.flying
            /\ clientMove' = w.clientMove
  BY Zenon DEF SimulateInterval
<1>2. PICK start : start = [World EXCEPT !.turns.sendActions = <<>>,
                                         !.flying = {AfterInterval(f) : f \in flying}]
  OBVIOUS
<1>3. PICK w : w = InvokeAll(start, sent, answers, thinking)
  OBVIOUS
<1>4. turns' = w.turns /\ tank' = w.tank /\ flying' = w.flying /\ clientMove' = w.clientMove
  BY <1>1, <1>2, <1>3, Zenon
<1>5. PICK away : away = turns.deserted
  OBVIOUS
<1>6. PICK q \in Seq(SimAction), more \in Seq(SimAction) : q = sent /\ more = turns.sendActions
  <2>1. sent \in Seq(SimAction) /\ turns \in TurnsState
    BY DEF IInv, TypeOK
  <2>2. turns.sendActions \in Seq(SimAction)
    BY <2>1, StateFields
  <2> QED
    BY <2>1, <2>2
<1>7. start \in WorldsOf(away)
  <2>1. start \in Worlds(sent \o turns.sendActions, turns.deserted)
    BY <1>2, WorldSent
  <2> QED
    BY <1>5, <2>1, WorldsOfAway
<1>8. ASSUME NEW i \in 1 .. Len(q)
      PROVE  Thinks(q[i], thinking, away) /\ Uses(q[i], answers, away)
  <2>1. q[i] \in ToSet(sent)
    BY <1>6 DEF ToSet
  <2>2. ASSUME q[i].kind = "start", q[i].player \in Computer \cup away
        PROVE  q[i].player \in Called
    BY <1>5, <2>1, <2>2 DEF Called
  <2>3. Thinks(q[i], thinking, away)
    BY <2>2, TimesAssumption DEF Thinks
  <2>4. Uses(q[i], answers, away)
    <3>1. ASSUME q[i].kind = "start", q[i].player \in away \ Computer
          PROVE  answers[q[i].player] = "answer"
      BY <2>2, <3>1 DEF Answers
    <3> QED
      BY <3>1 DEF Uses
  <2> QED
    BY <2>3, <2>4
<1>9. PICK t : t = [turns EXCEPT !.sendActions = <<>>]
  OBVIOUS
<1>10. PICK inFlight : inFlight = {AfterInterval(f) : f \in flying}
  OBVIOUS
<1>11. /\ start.turns = t /\ start.tank = tank /\ start.flying = inFlight
       /\ start.clientMove = clientMove /\ start \in WorldState
  BY <1>2, <1>7, <1>9, <1>10 DEF World, WorldsOf
<1>12. /\ t \in TurnsState /\ t.playingPlayers = turns.playingPlayers /\ t.moveId = turns.moveId
       /\ t.nextMoveId = turns.nextMoveId /\ t.nextNonNormalMoveId = turns.nextNonNormalMoveId
       /\ t.sendActions = <<>>
  <2>1. turns \in TurnsState /\ <<>> \in Seq(SimAction)
    BY DEF IInv, TypeOK
  <2> QED
    BY <1>9, <2>1 DEF TurnsState
<1>13. Unrevived(inFlight)
  <2> SUFFICES ASSUME NEW x \in Revivals, NEW p \in Tankets, NEW f \in flying,
                      <<x, p>> = AfterInterval(f)
               PROVE  FALSE
    BY <1>10 DEF Unrevived
  <2>1. f \in Flights
    BY DEF IInv, TypeOK, Flights
  <2>2. f[1] \notin Revivals
    BY <2>1 DEF KnowInv, Unrevived, Flights
  <2>3. AfterInterval(f) = f
    BY <2>2 DEF AfterInterval, Revivals, Reviving
  <2>4. x = f[1]
    BY <2>1, <2>3 DEF Flights
  <2> QED
    BY <2>2, <2>4
<1>14. PICK coming \in Seq(SimAction) : coming = q \o more
  <2>1. q \o more \in Seq(SimAction)
    BY ConcatProperties
  <2> QED
    BY <2>1
<1>15. t \in Knowing(tank, coming, clientMove, {})
  <2>1. coming \o t.sendActions = coming
    BY <1>12
  <2>2. \A p \in Alive(tank) : Knows(turns, coming, p, clientMove[p])
    BY <1>6, <1>14 DEF KnowInv, Knowing
  <2>3. ASSUME NEW p PROVE Asked(turns, coming, p) => Asked(t, coming, p)
    BY <1>12 DEF Asked, AskedAt, Highest
  <2>4. \A p \in Alive(tank) : Knows(t, coming, p, clientMove[p])
    BY <1>12, <2>2, <2>3 DEF Knows
  <2> QED
    BY <1>12, <2>1, <2>4 DEF Knowing
<1>16. start \in Knowers(q \o more)
  BY <1>11, <1>13, <1>14, <1>15 DEF Knowers, KnowInv
<1>17. w \in Knowers(more)
  BY <1>3, <1>6, <1>7, <1>8, <1>16, KnowersAll
<1>18. sent' = more /\ clientTank' = clientTank
  BY <1>6 DEF SimulateInterval
<1> QED
  BY <1>4, <1>17, <1>18 DEF KnowInv, Knowers, KnownTanks

\* A step that leaves the turns alone, and after which no other tanket is alive.
LEMMA KnowTanket ==
    ASSUME KnowInv, UNCHANGED <<turns, sent, clientMove>>, Alive(tank') \subseteq Alive(tank),
           \A p \in Alive(tank') : clientTank'[p] = clientTank[p], Unrevived(flying')
    PROVE  KnowInv'
<1>1. PICK tk, tk2, ahead, ids : tk = tank /\ tk2 = tank' /\ ahead = sent /\ ids = clientMove
  OBVIOUS
<1>2. PICK s : s = turns
  OBVIOUS
<1>3. s \in Knowing(tk, ahead, ids, {})
  BY <1>1, <1>2 DEF KnowInv
<1>4. s \in Knowing(tk2, ahead, ids, {})
  BY <1>1, <1>3, KnowingAlive
<1> QED
  BY <1>1, <1>2, <1>4 DEF KnowInv, KnownTanks, Unrevived

LEMMA KnowPlayer ==
    ASSUME Lives = 1, IInv, KnowInv, NEW p \in Tankets, Player(p)
    PROVE  KnowInv'
<1>1. PICK tk : tk = tank
  OBVIOUS
<1>2. PICK s \in TurnsState, ahead \in Seq(SimAction) : s = turns /\ ahead = sent
  BY DEF IInv, TypeOK
<1>3. PICK ids : ids = clientMove
  OBVIOUS
<1>4. s \in Knowing(tk, ahead, ids, {})
  BY <1>1, <1>2, <1>3 DEF KnowInv
<1>5. /\ tank \in [Tankets -> TankStates] /\ clientTank \in [Tankets -> TankStates]
      /\ lives \in [Tankets -> 0 .. Lives] /\ told \subseteq Humans \X MoveIds
  BY DEF IInv, TypeOK
<1>6. ASSUME NEW o \in told, NEW type \in {"eShot", "eSkip"}, PlayedMove(p, o[2], type)
      PROVE  KnowInv'
  <2>1. PICK move \in MoveIds : move = o[2]
    BY <1>5
  <2>2. PICK m : m = [player |-> p, move |-> move, type |-> type]
    OBVIOUS
  <2>3. m \in Message /\ m.player = p
    BY <2>2 DEF Message, MoveIds
  <2>4. p \notin Computer
    BY <1>5, <1>6 DEF PlayedMove, Humans
  <2>5. PICK t : t = MoveFinished(s, tk, m, 0)
    OBVIOUS
  <2>6. PICK none \in SUBSET Tankets : none = {}
    OBVIOUS
  <2>7. MayAnswer(s, tk, m, none)
    BY <2>3, <2>4 DEF MayAnswer
  <2>8. PICK time \in Nat : time = 0
    OBVIOUS
  <2>9. t \in Knowing(tk, ahead, ids, none)
    BY <1>4, <2>3, <2>5, <2>6, <2>7, <2>8, KnowingFinished
  <2>10. turns' = t /\ UNCHANGED <<sent, tank, flying, clientTank, clientMove>>
    BY <1>1, <1>2, <1>6, <2>1, <2>2, <2>5 DEF PlayedMove
  <2> QED
    BY <1>1, <1>2, <1>3, <2>6, <2>9, <2>10 DEF KnowInv, KnownTanks, Unrevived
<1>7. CASE Leave(p)
  <2>1. PICK gone \in SUBSET Tankets : gone = s.deserted \cup {p}
    BY StateFields
  <2>2. PICK t : t = [s EXCEPT !.deserted = gone]
    OBVIOUS
  <2>3. /\ t \in TurnsState /\ t.sendActions = s.sendActions /\ t.moveId = s.moveId
        /\ t.playingPlayers = s.playingPlayers /\ t.nextMoveId = s.nextMoveId
        /\ t.nextNonNormalMoveId = s.nextNonNormalMoveId
    BY <2>2 DEF TurnsState
  <2>4. Queues(t) = Queues(s)
    BY <2>2 DEF Queues, TurnsState
  <2>5. Quietly(s, t)
    BY <2>3, <2>4, QuietFields
  <2>6. PICK none \in SUBSET Tankets : none = {}
    OBVIOUS
  <2>7. t \in Knowing(tk, ahead, ids, none)
    BY <1>4, <2>5, <2>6, KnowingQuiet
  <2>8. turns' = t /\ UNCHANGED <<sent, tank, flying, clientTank, clientMove>>
    BY <1>2, <1>7, <2>1, <2>2 DEF Leave
  <2> QED
    BY <1>1, <1>2, <1>3, <2>6, <2>7, <2>8 DEF KnowInv, KnownTanks, Unrevived
<1>8. CASE ShotEnds(p)
  BY <1>8, KnowTanket DEF ShotEnds, KnowInv, Unrevived
<1>9. CASE TankDies(p)
  <2>1. lives[p] \in 0 .. 1
    BY <1>5
  <2>2. flying' = flying
    BY <1>9, <2>1 DEF TankDies
  <2>3. /\ tank' = [tank EXCEPT ![p] = "sDead"]
        /\ clientTank' = [clientTank EXCEPT ![p] = "sDead"]
        /\ UNCHANGED <<turns, sent, clientMove>>
    BY <1>9 DEF TankDies
  <2>4. Alive(tank') \subseteq Alive(tank) /\ p \notin Alive(tank')
    BY <1>5, <2>3 DEF Alive
  <2>5. \A o \in Alive(tank') : clientTank'[o] = clientTank[o]
    BY <1>5, <2>3, <2>4 DEF Alive
  <2> QED
    BY <2>2, <2>3, <2>4, <2>5, KnowTanket DEF KnowInv
<1>10. CASE Resurrect(p)
  <2>1. <<"rez", p>> \notin flying
    BY DEF KnowInv, Unrevived, Revivals
  <2> QED
    BY <1>10, <2>1 DEF Resurrect
<1>11. CASE Removed(p)
  <2>1. /\ tank' = [tank EXCEPT ![p] = "gone"]
        /\ clientTank' = [clientTank EXCEPT ![p] = "gone"]
        /\ UNCHANGED <<turns, sent, clientMove, flying>>
    BY <1>11 DEF Removed
  <2>2. Alive(tank') \subseteq Alive(tank) /\ p \notin Alive(tank')
    BY <1>5, <2>1 DEF Alive
  <2>3. \A o \in Alive(tank') : clientTank'[o] = clientTank[o]
    BY <1>5, <2>1, <2>2 DEF Alive
  <2> QED
    BY <2>1, <2>2, <2>3, KnowTanket DEF KnowInv
<1> QED
  BY <1>6, <1>7, <1>8, <1>9, <1>10, <1>11 DEF Player

LEMMA KnowNext ==
    ASSUME Lives = 1, Discipline # "Simultaneous" \/ NonNormal = {},
           IInv, IInv', KnowInv, [Next]_vars
    PROVE  KnowInv'
<1>1. CASE UNCHANGED vars
  BY <1>1 DEF vars, KnowInv, KnownTanks, Unrevived
<1>2. CASE Tick
  BY <1>2, KnowTick
<1>3. CASE SimulateInterval
  BY <1>3, KnowInterval
<1>4. CASE EnterState
  <2>1. PICK order : turns' = EnterTurns(turns, tank', order)
    BY <1>4 DEF EnterState
  <2>2. PICK s, tk : s = turns /\ tk = tank' /\ s \in TurnsState
    BY DEF IInv, TypeOK
  <2>3. turns' \in TurnsState
    BY DEF IInv, TypeOK
  <2>4. /\ s.sendActions = <<>> /\ sent' = <<>> /\ flying' = {} /\ clientTank' = tank'
        /\ clientMove' = [p \in Tankets |-> 0]
    BY <1>4, <2>2 DEF EnterState
  <2> QED
    BY <2>1, <2>2, <2>3, <2>4, KnowEntered
<1>5. ASSUME NEW p \in Tankets, Player(p) PROVE KnowInv'
  BY <1>5, KnowPlayer
<1> QED
  BY <1>1, <1>2, <1>3, <1>4, <1>5 DEF Next

-----------------------------------------------------------------------------
(* The theorems.                                                            *)

THEOREM TurnsInvariance == Spec => []IInv
<1>1. Init => IInv
  BY InitHolds
<1>2. IInv /\ [Next]_vars => IInv'
  BY NextHolds
<1> QED
  BY <1>1, <1>2, PTL DEF Spec

\* Every variable has its type: a record of the turns that the handlers build is
\* one again, whatever loops they run.
THEOREM TypeCorrect == Spec => []TypeOK
<1>1. IInv => TypeOK
  BY DEF IInv
<1> QED
  BY <1>1, TurnsInvariance, PTL

\* A time out never ends another move than the one whose time ran.
THEOREM TimersCorrect == Spec => []TimerOfCurrentMove
<1>1. ASSUME IInv PROVE TimerOfCurrentMove
  <2>1. Timers(turns)
    BY <1>1 DEF IInv, TurnsInv, Turns, Common
  <2> QED
    BY <2>1 DEF TimerOfCurrentMove, Timers, Present
<1> QED
  BY <1>1, TurnsInvariance, PTL

\* Each move is played once at most and in its order, whatever the discipline:
\* among what is on its way, what waits for others and what the players have,
\* the moves of a player rise.
THEOREM EachMoveOnceCorrect == Spec => []EachMoveOnce
<1>1. ASSUME IInv PROVE EachMoveOnce
  <2>1. turns \in TurnsState /\ sent \in Seq(SimAction)
    BY <1>1 DEF IInv, TypeOK
  <2>2. PICK s \in TurnsState : s = turns
    BY <2>1
  <2>3. PICK q \in Seq(SimAction) : q = Pending
    <3>1. turns.sendActions \in Seq(SimAction)
      BY <2>1, StateFields
    <3>2. sent \o turns.sendActions \in Seq(SimAction)
      BY <2>1, <3>1, ConcatProperties
    <3> QED
      BY <3>2 DEF Pending
  <2>4. Ids(s, q)
    BY <1>1, <2>2, <2>3 DEF IInv, TurnsInv, Turns, Common, Pending
  <2>5. InOrder(s, q)
    BY <2>4, IdsInOrder
  <2> QED
    BY <2>2, <2>3, <2>5 DEF EachMoveOnce
<1> QED
  BY <1>1, TurnsInvariance, PTL

\* In sequential turns only the playing player has a move.
THEOREM OnlyPlayingCorrect ==
    ASSUME Discipline = "Sequential" PROVE Spec => []OnlyPlayingPlayerMoves
<1>1. ASSUME IInv PROVE OnlyPlayingPlayerMoves
  <2>1. OnlyPlaying(turns, tank)
    BY <1>1 DEF IInv, TurnsInv, Turns
  <2> QED
    BY <2>1 DEF OnlyPlayingPlayerMoves, OnlyPlaying, TakeTurns
<1> QED
  BY <1>1, TurnsInvariance, PTL

\* A destination that owns several tankets has one move at a time, in every
\* discipline, also when a player leaves and the server plays for it.
THEOREM OneMoveCorrect == Spec => []OneMovePerDestination
<1>1. ASSUME IInv PROVE OneMovePerDestination
  <2>1. OnlyPlaying(turns, tank) /\ OneEach(turns, tank)
    BY <1>1 DEF IInv, TurnsInv, Turns
  <2>2. Alive(tank) \ NonNormal \subseteq TakeTurns(tank)
    BY DEF Alive, TakeTurns, Present
  <2> QED
    BY <2>1, <2>2 DEF OneMovePerDestination, OnlyPlaying, OneEach
<1> QED
  BY <1>1, TurnsInvariance, PTL

\* A player waits for the end of its delay before it has a move.  In simultaneous
\* turns this needs that all tankets use the normal moves.
THEOREM DelayCorrect ==
    ASSUME Discipline # "Simultaneous" \/ NonNormal = {} PROVE Spec => []DelayIsOver
<1>1. ASSUME IInv PROVE DelayIsOver
  <2>1. Waits(turns)
    BY <1>1 DEF IInv, TurnsInv, Turns
  <2> QED
    BY <2>1 DEF DelayIsOver, Waits, Alive
<1> QED
  BY <1>1, TurnsInvariance, PTL

\* In simultaneous turns that wait for the shots the players move one by one: who
\* has a shot to come, on its way or in the simulator, is waited for.  All tankets
\* use the normal moves; the run turns_onebyone shows what happens otherwise.
THEOREM OneByOneCorrect ==
    ASSUME Discipline = "Simultaneous", WaitForShots, NonNormal = {}
    PROVE  Spec => []OneByOne
<1>1. Init /\ IInv => PhasesInv
  BY PhasesInit
<1>2. PhasesInv /\ IInv /\ IInv' /\ [Next]_vars => PhasesInv'
  BY PhasesNext
<1>3. ASSUME PhasesInv, IInv PROVE OneByOne
  <2>1. turns \in Phases(tank, HasShots(sent), flying)
    BY <1>3 DEF PhasesInv
  <2> SUFFICES ASSUME NEW r \in ShotsToEnd PROVE NoMoves(turns, tank)
    BY DEF OneByOne, NoMoves, Alive, Present
  <2>3. CASE \E f \in flying : f[1] = "shot" /\ r = f[2]
    <3>1. PICK f \in flying : f[1] = "shot" /\ r = f[2]
      BY <2>3
    <3>2. f = <<"shot", f[2]>> /\ f[2] \in Tankets
      BY <1>3, <3>1 DEF IInv, TypeOK
    <3>3. turns.shotsState = "eShotsWaitingEnd"
      BY <2>1, <3>2 DEF Phases, NoShot
    <3> QED
      BY <2>1, <3>3 DEF Phases
  <2>4. CASE \E i \in 1 .. Len(Pending) : Pending[i].kind = "shots"
    <3>1. PICK i \in 1 .. Len(Pending) : Pending[i].kind = "shots"
      BY <2>4
    <3>2. sent \in Seq(SimAction) /\ turns.sendActions \in Seq(SimAction)
      BY <1>3, StateFields DEF IInv, TypeOK
    <3>3. HasShots(sent) \/ HasShots(turns.sendActions)
      <4>1. CASE i <= Len(sent)
        BY <3>1, <3>2, <4>1 DEF Pending, HasShots
      <4>2. CASE i > Len(sent)
        <5>1. i - Len(sent) \in 1 .. Len(turns.sendActions)
          BY <3>1, <3>2, <4>2 DEF Pending
        <5>2. Pending[i] = turns.sendActions[i - Len(sent)]
          BY <3>1, <3>2, <4>2 DEF Pending
        <5> QED
          BY <3>1, <5>1, <5>2 DEF HasShots
      <4> QED
        BY <3>1, <3>2, <4>1, <4>2
    <3>4. turns.shotsState = "eShotsWaitingStart"
      BY <2>1, <3>3 DEF Phases
    <3> QED
      BY <2>1, <3>4 DEF Phases
  <2> QED
    BY <2>3, <2>4 DEF ShotsToEnd, MovesAt
<1> QED
  BY <1>1, <1>2, <1>3, TurnsInvariance, PTL DEF Spec

\* The clients know which move a player has, or that it has none, whatever the
\* discipline, when who dies stays dead: each end of a move is told after its
\* start, whoever answers late, leaves, runs out of time or uses its batteries.
\* In simultaneous turns all tankets use the normal moves.
THEOREM ClientsKnowMovesCorrect ==
    ASSUME Lives = 1, Discipline # "Simultaneous" \/ NonNormal = {}
    PROVE  Spec => []ClientsKnowMoves
<1>1. Init /\ IInv => KnowInv
  BY KnowInit
<1>2. KnowInv /\ IInv /\ IInv' /\ [Next]_vars => KnowInv'
  BY KnowNext
<1>3. ASSUME KnowInv, IInv PROVE ClientsKnowMoves
  <2> SUFFICES ASSUME NEW p \in Alive(tank) PROVE MoveAtClients(p) = turns.moveId[p]
    BY DEF ClientsKnowMoves
  <2>1. PICK q \in Seq(SimAction) : q = Pending
    <3>1. sent \in Seq(SimAction) /\ turns.sendActions \in Seq(SimAction)
      BY <1>3, StateFields DEF IInv, TypeOK
    <3>2. sent \o turns.sendActions \in Seq(SimAction)
      BY <3>1, ConcatProperties
    <3> QED
      BY <3>2 DEF Pending
  <2>2. PICK own : own = {i \in 1 .. Len(q) : Own(q[i], p)}
    OBVIOUS
  <2>3. PICK last : last = CHOOSE i \in own : \A j \in own : j <= i
    OBVIOUS
  <2>4. MoveAtClients(p) = IF own = {} THEN clientMove[p] ELSE Effect(q[last])
    BY <2>1, <2>2, <2>3 DEF MoveAtClients, Own, Effect
  <2>5. Shown(q, p, clientMove[p], turns.moveId[p])
    BY <1>3, <2>1 DEF KnowInv, Knowing, Knows, Pending
  <2>6. CASE turns.moveId[p] = clientMove[p] /\ \A i \in 1 .. Len(q) : ~Own(q[i], p)
    BY <2>2, <2>4, <2>6
  <2>7. ASSUME NEW i \in 1 .. Len(q), Own(q[i], p), turns.moveId[p] = Effect(q[i]),
               \A j \in i + 1 .. Len(q) : ~Own(q[j], p)
        PROVE  MoveAtClients(p) = turns.moveId[p]
    <3>1. i \in own /\ \A j \in own : j <= i
      BY <2>2, <2>7
    <3>2. last \in own /\ \A j \in own : j <= last
      BY <2>3, <3>1
    <3>3. last = i
      BY <2>2, <3>1, <3>2
    <3> QED
      BY <2>4, <2>7, <3>1, <3>3
  <2> QED
    BY <2>5, <2>6, <2>7 DEF Shown
<1> QED
  BY <1>1, <1>2, <1>3, TurnsInvariance, PTL DEF Spec
=============================================================================
