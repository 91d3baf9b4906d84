SPECIFICATION FairSpec
CONSTANTS
    MaxConnections = 2
    MaxSent <- TwoToFirst
    MaxReceived <- OneOfFirst
    MaxMessages = 2
    MaxOutgoing = 2
    MayKick <- First
    MayLeave <- First
    MayStall <- First
INVARIANTS
    TypeOK
    GameHearsOfLeaving
    NoGhostConnection
    DeletedIsOver
    DeliveredInOrder
PROPERTIES
    LeavingIsNoticed
    ClosingIsDeleted
    StopReturns
CHECK_DEADLOCK FALSE
