SPECIFICATION Spec
CONSTANTS
    Dests = {d1}
    Bot = bot
    StepSizes = {1, 2}
    MaxLevel = 2
    MaxTime = 5
    MaxActions = 1
INVARIANTS
    TypeOK
    ServerOnSchedule
    ClientsInLockStep
    RecordingComplete
PROPERTIES
    LateOnlyBeforeFirstBatch
    ImplementsReplicated
CHECK_DEADLOCK FALSE
