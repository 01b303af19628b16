CONSTANTS
    Messages <- Msgs
    LogEvents <- Extremes
    References <- NearEnd
    PreambleSize = 2
    EventSizes <- TwoBytes
    MaxTime = 3
    MaxItems = 5
SPECIFICATION FairPipe
PROPERTIES ImplementsLog ClosedIsSeen
CHECK_DEADLOCK FALSE
