CONSTANTS
    Messages <- Msgs
    LogEvents <- SomeEvents
    References <- AllTimes
    PreambleSize = 2
    EventSizes <- Sizes
    MaxTime = 1
    MaxItems = 4
SPECIFICATION Spec
INVARIANTS TypeOK BytesOnce StreamMeansLog ClosedIsFinal
CHECK_DEADLOCK FALSE
