--------------------------- MODULE ServerTurnsFree ---------------------------
(* Tankets move as soon as they may, without waiting for one another       *)
(* (ServerTurnsFree).                                                      *)
EXTENDS TurnMoves

CONSTANT FreeTimed      \* the turn type is TurnFreeTimed

ASSUME FreeTimedAssumption == FreeTimed \in BOOLEAN

\* internalEnterState
FreeEnterState(s, tank) ==
    [s EXCEPT !.nextMoveId = @ + 1,
              !.moveId = [p \in Tankets |-> IF p \in Present(tank) THEN 0 ELSE @[p]],
              !.waitingPlayers =
                  ForEach({p \in Alive(tank) : ~HasAI(s, p)}, Append, <<>>)]

\* The first loop of internalSimulate: moves of the dead end, and computer
\* players, dead or alive, get a move unless they are delayed.
EndAndGiveComputerMoves(s, tank) ==
    LET Visit(t, p) ==
            IF t.moveId[p] # 0
            THEN IF p \in Alive(tank) THEN t ELSE PlayMoveFinished(t, p)
            ELSE IF HasAI(t, p) /\ t.timedPlayers[p] = 0 THEN GiveMove(t, p, 0) ELSE t
    IN  ForEach(Present(tank) \ NonNormal, Visit, s)

\* Mutant: delayed players are not left out.
ReadyDelayed(s, tank) ==
    {i \in 1 .. Len(s.waitingPlayers) :
        LET p == s.waitingPlayers[i] IN
            /\ p \in Alive(tank)
            /\ s.moveId[p] = 0
            /\ DestinationOf(s, p) \notin PlayingDestinations(s, tank) \cup {0}}

\* Mutant: a destination plays all of its tankets at once.
ReadyAll(s, tank) ==
    {i \in 1 .. Len(s.waitingPlayers) :
        LET p == s.waitingPlayers[i] IN
            /\ p \in Alive(tank)
            /\ s.moveId[p] = 0
            /\ s.timedPlayers[p] = 0}

\* The players that wait and may get a move now, by their places.
Ready(s, tank) ==
    {i \in 1 .. Len(s.waitingPlayers) :
        LET p == s.waitingPlayers[i] IN
            /\ p \in Alive(tank)
            /\ s.moveId[p] = 0
            /\ DestinationOf(s, p) \notin PlayingDestinations(s, tank) \cup {0}
            /\ s.timedPlayers[p] = 0}

\* internalSimulate
FreeSimulate(s, tank) ==
    LET t     == EndAndGiveComputerMoves(s, tank)
        ready == Ready(t, tank)
        first == CHOOSE i \in ready : \A j \in ready : i <= j
    IN  IF ready = {} THEN t
        ELSE [GiveMove(t, t.waitingPlayers[first], 0) EXCEPT
                !.waitingPlayers = Append(RemoveAt(@, first), @[first])]

\* Mutant: an answer for an earlier move is taken.
AnyFreeMoveFinished(s, tank, m, thinking) ==
    LET p == m.player
    IN  IF p \notin Present(tank) THEN s
        ELSE IF p \in Alive(tank)
        THEN Delayed(PlayShots(PlayMoveFinished(s, p), {m}, FALSE, TRUE), p, MoveTime)
        ELSE PlayMoveFinished(s, p)

\* internalMoveFinished
FreeMoveFinished(s, tank, m, thinking) ==
    LET p == m.player
        delay == (IF FreeTimed THEN MoveTime ELSE 0) + (IF HasAI(s, p) THEN thinking ELSE 0)
        ended == PlayMoveFinished(s, p)
    IN  IF p \notin Present(tank) \/ s.moveId[p] # m.move THEN s
        ELSE IF p \in Alive(tank)
        THEN Delayed(PlayShots(ended, {m}, FALSE, TRUE), p, delay)
        ELSE ended
=============================================================================
