SPECIFICATION FairSpec
CONSTANTS
    N = 2
    Owner <- TwoClients
    NoMinPlayers = 1
    NoRounds = 2
    BuyOnRound = 1
    BuyingTime = 1
    StartTime = 0
    RoundTime = 1
    RoundScoreTime = 1
    ScoreTimes = {1, 4}
    ReferencedTime = 2
    WaitForShots = TRUE
    MaxLevels = 3
    MaxLag = 1
    MaxChanges = 2
    ChangeStates = {"Buying"}
    MayChange = {1}
    MayLeave = {2}
    MayJoin = {2}
INVARIANTS
    TypeOK
    BoughtBeforeRound
PROPERTIES
    EveryStateEnds
CHECK_DEADLOCK FALSE
