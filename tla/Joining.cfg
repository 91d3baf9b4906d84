SPECIFICATION FairSpec
CONSTANTS
    Destinations <- Three
    NoPlayers <- TwoOfThird
    AllowSameUniqueId = FALSE
    NoId = NoId
    Unique <- UniqueIds
    SUI <- Machines
    Refused <- Third
    MayLeave <- First
    NoMaxPlayers = 3
    MaxKicks = 1
INVARIANTS
    TypeOK
    NotTooMany
    NoDuplicates
    NobodyForgotten
PROPERTIES
    LeaversGo
CHECK_DEADLOCK FALSE
