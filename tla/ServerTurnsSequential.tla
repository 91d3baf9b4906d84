------------------------ MODULE ServerTurnsSequential ------------------------
(* The tankets move one after another (ServerTurnsSequential).             *)
EXTENDS TurnMoves

\* Those that take a turn.
TakeTurns(tank) == Present(tank) \ NonNormal

\* The orders that getSortedTanksIds, or chance, can put them in.
Orders(tank) ==
    {q \in [1 .. Cardinality(TakeTurns(tank)) -> TakeTurns(tank)] :
        \A i, j \in DOMAIN q : q[i] = q[j] => i = j}

\* internalEnterState
SequentialEnterState(s, tank, order) ==
    [s EXCEPT !.playingPlayer = 0,
              !.waitingPlayers = order,
              !.moveId = [p \in Tankets |-> IF p \in TakeTurns(tank) THEN 0 ELSE @[p]]]

\* When all have moved the next turn begins.
NewTurnIfAllMoved(s, tank, order) ==
    IF s.waitingPlayers = <<>> /\ s.playingPlayer = 0
    THEN IncrementTurn(SequentialEnterState(s, tank, order))
    ELSE s

\* Mutant: the move of a tanket that died is not ended.
DeadKeepsMove(s, tank) ==
    IF s.playingPlayer \in Alive(tank) THEN s ELSE [s EXCEPT !.playingPlayer = 0]

\* A tanket that died or left does not play on.
DropDeadPlayer(s, tank) ==
    LET p == s.playingPlayer
        ended == IF p \in Present(tank) /\ s.moveId[p] # 0
                 THEN PlayMoveFinished(s, p) ELSE s
    IN  IF p \in Alive(tank) THEN s ELSE [ended EXCEPT !.playingPlayer = 0]

\* The first in the list that lives gets the move; those before it are dropped.
NextPlayer(s, tank) ==
    LET waiting == s.waitingPlayers
        living  == {i \in 1 .. Len(waiting) : waiting[i] \in Alive(tank)}
        first   == CHOOSE i \in living : \A j \in living : i <= j
    IN  IF s.playingPlayer # 0 THEN s
        ELSE IF living = {} THEN [s EXCEPT !.waitingPlayers = <<>>]
        ELSE [GiveMove(s, waiting[first], MoveTime) EXCEPT
                !.playingPlayer = waiting[first],
                !.waitingPlayers = SubSeq(@, first + 1, Len(@))]

\* internalSimulate
SequentialSimulate(s, tank, order) ==
    NextPlayer(DropDeadPlayer(NewTurnIfAllMoved(s, tank, order), tank), tank)

\* Mutant: an answer for an earlier move is taken.
AnyMoveFinished(s, tank, m) ==
    LET p == m.player
        ended == [PlayMoveFinished(s, p) EXCEPT !.playingPlayer = 0]
    IN  IF p # s.playingPlayer \/ p \notin Present(tank) THEN s
        ELSE IF p \in Alive(tank) THEN PlayShots(ended, {m}, TRUE, TRUE) ELSE ended

\* internalMoveFinished
SequentialMoveFinished(s, tank, m) ==
    LET p == m.player
        ended == [PlayMoveFinished(s, p) EXCEPT !.playingPlayer = 0]
    IN  IF p # s.playingPlayer \/ p \notin Present(tank) \/ s.moveId[p] # m.move THEN s
        ELSE IF p \in Alive(tank) THEN PlayShots(ended, {m}, TRUE, TRUE) ELSE ended
=============================================================================
