SPECIFICATION Spec
CONSTANTS
    Dests = {d1, d2}
    Bot = bot
    StepSizes = {1}
    MaxLevel = 2
    MaxTime = 2
    MaxActions = 0
INVARIANTS
    FinishedUsesCurrentLevel
SYMMETRY DestSymmetry
CHECK_DEADLOCK FALSE
