SPECIFICATION Spec
CONSTANTS
    x = x
    y = y
    Value = {x, y}
    Lists <- MCLists
    Capacity = 1
    MaxEvents = 2
INVARIANT
    TypeOK
PROPERTIES
    ImplementsStream
    NextReturns
    LoopEnds
    CloseReturnsToClient
    FailureIsReported
    WatchedEventsArrive
CHECK_DEADLOCK FALSE
