SPECIFICATION Spec
CONSTANTS
    N = 4
    Owner <- TwoOfOneComputerAndTurret
    Computer = {3, 4}
    Turrets = {4}
    NonNormal = {4}
    WaitForShots = FALSE
    MoveTime = 2
    Delays = {0, 1}
    AIShotTime = 2
    FreeTimed = TRUE
    Discipline = "Free"
    AllowedMissed = 0
    Lives = 1
    MaxMoves = 4
    MaxQueue = 4
    MaxRounds = 1
    Mortal = {1, 3}
    Leaving = {1}
INVARIANTS
    EachMoveOnce
    OneMovePerDestination
    ClientsKnowMoves
    DelayIsOver
CHECK_DEADLOCK FALSE
