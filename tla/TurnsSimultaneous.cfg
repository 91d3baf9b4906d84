SPECIFICATION FairSpec
CONSTANTS
    N = 3
    Owner <- OneOwnsTwo
    Computer = {}
    Turrets = {}
    NonNormal = {}
    WaitForShots = TRUE
    MoveTime = 2
    Delays = {0}
    AIShotTime = 2
    FreeTimed = FALSE
    Discipline = "Simultaneous"
    AllowedMissed = 0
    Lives = 2
    MaxMoves = 5
    MaxQueue = 8
    MaxRounds = 1
    Mortal = {1}
    Leaving = {1, 2}
INVARIANTS
    EachMoveOnce
    OneMovePerDestination
    OneByOne
PROPERTIES
    TurnsGoOn
CHECK_DEADLOCK FALSE
