SPECIFICATION Spec
CONSTANTS
    Destinations <- Three
    NoPlayers <- OneEach
    AllowSameUniqueId = TRUE
    NoId = NoId
    Unique <- UniqueIds
    SUI <- Machines
    Refused <- Third
    MayLeave <- First
    NoMaxPlayers = 2
    MaxKicks = 1
INVARIANT RecordedIsKept
CHECK_DEADLOCK FALSE
