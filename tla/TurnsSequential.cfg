SPECIFICATION FairSpec
CONSTANTS
    N = 3
    Owner <- TwoAndComputer
    Computer = {3}
    Turrets = {}
    NonNormal = {}
    WaitForShots = TRUE
    MoveTime = 2
    Delays = {0}
    AIShotTime = 0
    FreeTimed = FALSE
    Discipline = "Sequential"
    AllowedMissed = 2
    Lives = 1
    MaxMoves = 3
    MaxQueue = 8
    MaxRounds = 2
    Mortal = {1, 2, 3}
    Leaving = {1, 2}
INVARIANTS
    TypeOK
    EachMoveOnce
    OnlyPlayingPlayerMoves
    TimerOfCurrentMove
    ClientsKnowMoves
PROPERTIES
    TurnsGoOn
CHECK_DEADLOCK FALSE
