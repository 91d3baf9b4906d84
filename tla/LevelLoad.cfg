SPECIFICATION FairSpec
CONSTANTS
    Dests = {d1, d2}
    Bot = bot
    StepSizes = {1}
    MaxLevel = 3
    MaxTime = 1
    MaxActions = 0
INVARIANTS
    OneLoadAtATime
    NoTankForgotten
PROPERTIES
    NewGameRetells
    LoadingFinishes
CHECK_DEADLOCK FALSE
