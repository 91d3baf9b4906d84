SPECIFICATION Spec
CONSTANTS
    N = 3
    Owner <- TwoAndComputer
    Computer = {3}
    Turrets = {}
    NonNormal = {}
    WaitForShots = TRUE
    MoveTime = 2
    Delays = {0}
    AIShotTime = 0
    FreeTimed = FALSE
    Discipline = "Sequential"
    AllowedMissed = 1
    Lives = 1
    MaxMoves = 4
    MaxQueue = 8
    MaxRounds = 1
    Mortal = {1, 2, 3}
    Leaving = {1, 2}
INVARIANTS
    ClientsKnowTanks
CHECK_DEADLOCK FALSE
