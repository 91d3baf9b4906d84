SPECIFICATION Spec
CONSTANTS
    N = 3
    Owner <- TwoAndComputer
    Computer = {3}
    Turrets = {3}
    NonNormal = {3}
    WaitForShots = TRUE
    MoveTime = 2
    Delays = {1}
    AIShotTime = 0
    FreeTimed = FALSE
    Discipline = "Sequential"
    AllowedMissed = 0
    Lives = 1
    MaxMoves = 4
    MaxQueue = 8
    MaxRounds = 1
    Mortal = {1, 2, 3}
    Leaving = {1, 2}
INVARIANTS
    OneByOne
CHECK_DEADLOCK FALSE
