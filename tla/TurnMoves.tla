------------------------------ MODULE TurnMoves ------------------------------
(***************************************************************************)
(* The part of ServerTurns that the three turn disciplines share: giving a *)
(* move to a tanket, ending it, sending shots.  A handler is an operator   *)
(* from the record s of the turns' state (see TurnsState) to the next one. *)
(* The methods of a tick and of an answer are built from these operators   *)
(* in ServerTurns and in the module of each discipline.                    *)
(*                                                                         *)
(* Tankets are numbered in the order of the maps of the code.  Time is     *)
(* counted in send intervals of the simulator.                             *)
(***************************************************************************)
EXTENDS Integers, Sequences, FiniteSets, SequencesExt

CONSTANTS
    N,              \* number of tankets of the level, tanks included
    Owner,          \* destination of each tanket, 0 for the server's own
    Computer,       \* tankets that have a TankAI
    Turrets,        \* tankets that are no tanks
    NonNormal,      \* tankets that do not use the normal moves
    WaitForShots,   \* waitForShots_
    MoveTime,       \* time for a move, two send intervals included
    Delays          \* thinking times of the computer players

Tankets == 1 .. N

ASSUME TanketsAssumption ==
    /\ N \in Nat
    /\ Owner \in [Tankets -> Nat]
    /\ Computer \subseteq Tankets
    /\ Turrets \subseteq Tankets
    /\ \A p \in Turrets \cup Computer : Owner[p] = 0
    /\ NonNormal \subseteq Turrets
\* A move has a time limit: the option ShotTime is not 0, its default, with which
\* no timer starts.
ASSUME TimesAssumption ==
    WaitForShots \in BOOLEAN /\ MoveTime \in Nat \ {0, 1} /\ Delays \subseteq Nat

(***************************************************************************)
(* Data.                                                                   *)
(***************************************************************************)
\* The ids of moves; 0 stands for none.
MoveIds == Nat \ {0}

\* ComsPlayedMoveMessage.  A resignation is an action in flight like a shot.
Message == [player : Tankets, move : Nat, type : {"eShot", "eSkip", "eTimeout"}]

\* Simulation actions.  "timed" tells whether moveStarted is called back, "again"
\* that a computer player has used its batteries before it answers.
Start(p, move, timed) ==
    [kind |-> "start", player |-> p, move |-> move, timed |-> timed, again |-> FALSE]
StartAgain(p, move) ==
    [kind |-> "start", player |-> p, move |-> move, timed |-> FALSE, again |-> TRUE]
Stop(p) == [kind |-> "stop", player |-> p]
Shots(moves, timeOut, referenced) ==
    [kind |-> "shots", moves |-> moves, timeOut |-> timeOut, referenced |-> referenced]
NextTurn == [kind |-> "turn"]

SimAction ==
    [kind : {"start"}, player : Tankets, move : MoveIds, timed : BOOLEAN, again : BOOLEAN]
    \cup [kind : {"stop"}, player : Tankets]
    \cup [kind : {"shots"}, moves : SUBSET Message, timeOut : BOOLEAN, referenced : BOOLEAN]
    \cup {NextTurn}

\* PlayingPlayer: the time out of a move.
NoTimer == [started |-> FALSE, move |-> 0, time |-> 0]
Timer == [started : BOOLEAN, move : Nat, time : -1 .. MoveTime]

\* States of a tank, and "gone" when it was removed from the game.
TankStates == {"sNormal", "sDead", "sSpectator", "gone"}

\* Where each message in a set is the only one of its player.
OnePerPlayer(moves) == \A m, n \in moves : m.player = n.player => m = n

TurnsState ==
    [shotsState : {"eShotsNone", "eShotsWaitingStart", "eShotsWaitingEnd"},
     playingPlayers : [Tankets -> Timer],
     timedPlayers : [Tankets -> Nat],       \* 0: no entry
     moveId : [Tankets -> Nat],             \* TanketShotInfo, on the server
     nextMoveId : Nat, nextNonNormalMoveId : Nat,
     sendActions : Seq(SimAction),
     playingPlayer : 0 .. N,                \* ServerTurnsSequential
     waitingPlayers : Seq(Tankets),         \* and ServerTurnsFree
     moves : SUBSET Message,                \* ServerTurnsSimultaneous
     waitingTime : Int,
     deserted : SUBSET Tankets]             \* those whose player left

NewTurns ==
    [shotsState |-> "eShotsNone", playingPlayers |-> [p \in Tankets |-> NoTimer],
     timedPlayers |-> [p \in Tankets |-> 0], moveId |-> [p \in Tankets |-> 0],
     nextMoveId |-> 0, nextNonNormalMoveId |-> 0, sendActions |-> <<>>,
     playingPlayer |-> 0, waitingPlayers |-> <<>>, moves |-> {}, waitingTime |-> 0, deserted |-> {}]

Present(tank) == {p \in Tankets : tank[p] # "gone"}
Alive(tank)   == {p \in Tankets : tank[p] = "sNormal"}

\* The server plays for those whose player left (TankAINone), until they are
\* removed.
HasAI(s, p) == p \in Computer \cup s.deserted
DestinationOf(s, p) == IF p \in s.deserted THEN 0 ELSE Owner[p]

\* The destinations of the tankets that have a move, the server's own aside.
PlayingDestinations(s, tank) ==
    {DestinationOf(s, p) : p \in {q \in Alive(tank) \ NonNormal : s.moveId[q] # 0}} \ {0}

\* A loop over the tankets in the order of their ids; the others are left out.
ForEach(S, Op(_, _), s) ==
    LET after[p \in 0 .. N] ==
            IF p = 0 THEN s
            ELSE IF p \in S THEN Op(after[p - 1], p) ELSE after[p - 1]
    IN  after[N]
-----------------------------------------------------------------------------
AddSimulatorAction(s, action) == [s EXCEPT !.sendActions = Append(@, action)]

\* Mutant: the timer is not removed from playingPlayers_.
TimerKept(s, p) == AddSimulatorAction([s EXCEPT !.moveId[p] = 0], Stop(p))

\* Mutant: nobody tells the clients.
NoStop(s, p) == [s EXCEPT !.moveId[p] = 0, !.playingPlayers[p] = NoTimer]

\* playMove
PlayMove(s, p, move, time) ==
    AddSimulatorAction(
        [s EXCEPT !.moveId[p] = move,
                  !.playingPlayers[p] =
                      IF time > 0 THEN [started |-> FALSE, move |-> move, time |-> time]
                                  ELSE @],
        Start(p, move, time > 0))

\* A move of the turn: it has the next id.
GiveMove(s, p, time) ==
    PlayMove([s EXCEPT !.nextMoveId = @ + 1], p, s.nextMoveId + 1, time)

\* playMoveFinished
PlayMoveFinished(s, p) ==
    AddSimulatorAction(
        [s EXCEPT !.moveId[p] = 0, !.playingPlayers[p] = NoTimer], Stop(p))

\* Mutant: moves go on while the shots are played.
NotWaiting(s, moves, timeOut, referenced) ==
    AddSimulatorAction(s, Shots(moves, timeOut, referenced))

\* playShots
PlayShots(s, moves, timeOut, referenced) ==
    AddSimulatorAction(
        [s EXCEPT !.shotsState = IF WaitForShots THEN "eShotsWaitingStart" ELSE @],
        Shots(moves, timeOut, referenced))

\* incrementTurn
IncrementTurn(s) == AddSimulatorAction(s, NextTurn)

\* A player is not given another move for some time, if that is positive.
Delayed(s, p, time) ==
    IF time > 0 THEN [s EXCEPT !.timedPlayers[p] = time] ELSE s

\* shotsStarted
ShotsStarted(s) == [s EXCEPT !.shotsState = "eShotsWaitingEnd"]

\* moveStarted: the timer is found by the player, whatever its move.
MoveStarted(s, p) ==
    IF s.playingPlayers[p] = NoTimer THEN s
    ELSE [s EXCEPT !.playingPlayers[p].started = TRUE]
=============================================================================
