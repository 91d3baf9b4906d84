----------------------- MODULE ServerTurnsSimultaneous -----------------------
(* All tankets choose a move, then all moves are played together; a        *)
(* destination with several tankets chooses one at a time                  *)
(* (ServerTurnsSimultaneous).                                              *)
EXTENDS TurnMoves

CONSTANT AIShotTime     \* option AIShotTime

ASSUME AIShotTimeAssumption == AIShotTime \in Nat

\* internalEnterState
SimultaneousEnterState(s, tank) ==
    [s EXCEPT !.nextMoveId = @ + 1,
              !.moves = {},
              !.moveId = [p \in Tankets |-> IF p \in Present(tank) THEN 0 ELSE @[p]],
              !.waitingTime = AIShotTime]

HasMove(s, p) == \E m \in s.moves : m.player = p

\* The tankets that died or are spectators lose their move.
EndMovesOfDead(s, tank) ==
    LET End(t, p) == IF t.moveId[p] # 0 THEN PlayMoveFinished(t, p) ELSE t
    IN  ForEach(Present(tank) \ (Alive(tank) \cup NonNormal), End, s)

\* Mutant: a destination is given moves for all of its tankets at once.
GiveAllMoves(s, tank) ==
    LET Give(t, p) ==
            IF t.moveId[p] = 0 /\ ~HasMove(t, p) THEN GiveMove(t, p, MoveTime) ELSE t
    IN  ForEach(Alive(tank), Give, s)

\* The second loop of internalSimulate.  It has no exception for the tankets
\* that do not use the normal moves.
GiveMoves(s, tank) ==
    LET Give(t, p) ==
            IF /\ t.moveId[p] = 0 /\ ~HasMove(t, p)
               /\ DestinationOf(t, p) \notin PlayingDestinations(t, tank)
            THEN GiveMove(t, p, MoveTime) ELSE t
    IN  ForEach(Alive(tank), Give, s)

\* All moves are there: those of the living are played.
PlayAllMoves(s, tank) ==
    LET played == PlayShots([s EXCEPT !.moves = {}],
                            {m \in s.moves : m.player \in Alive(tank)}, TRUE, TRUE)
    IN  IF WaitForShots THEN played ELSE IncrementTurn(played)

\* Without waiting, computer players alone are slowed down.
SlowedDown(s, tank) ==
    ~WaitForShots /\ \A p \in Alive(tank) \ NonNormal : HasAI(s, p)

\* Mutant: the moves of the dead are waited for.
EverybodyChose(s, tank) == \A p \in Present(tank) \ NonNormal : HasMove(s, p)

AllChose(s, tank) == \A p \in Alive(tank) \ NonNormal : HasMove(s, p)

\* internalSimulate
SimultaneousSimulate(s, tank, elapsed) ==
    LET slowed == SlowedDown(s, tank)
        ended  == EndMovesOfDead(s, tank)
        waited == IF slowed THEN [ended EXCEPT !.waitingTime = @ - elapsed] ELSE ended
        ready  == IF slowed THEN [waited EXCEPT !.waitingTime = AIShotTime \div 2] ELSE waited
        given  == GiveMoves(ready, tank)
    IN  IF slowed /\ waited.waitingTime > 0 THEN waited
        ELSE IF AllChose(s, tank) THEN PlayAllMoves(given, tank)
        ELSE given

\* Mutant: an answer for an earlier move is taken.
AnyMoveChosen(s, tank, m) ==
    IF m.player \notin Present(tank) \/ HasMove(s, m.player) THEN s
    ELSE [PlayMoveFinished(s, m.player) EXCEPT !.moves = @ \cup {m}]

\* internalMoveFinished
SimultaneousMoveFinished(s, tank, m) ==
    IF m.player \notin Present(tank) \/ s.moveId[m.player] # m.move \/ HasMove(s, m.player)
    THEN s
    ELSE [PlayMoveFinished(s, m.player) EXCEPT !.moves = @ \cup {m}]

\* internalShotsFinished
SimultaneousShotsFinished(s) == IncrementTurn(s)
=============================================================================
