CONSTANTS
    Messages <- Msgs
    Streams <- LiveStreams
    InitialSize = 1
    Filters <- OneFilter
    Chars <- QueryChars
    Clean <- MCClean
    Matches <- MCMatches
    QueryLists <- OneQuery
    Intervals <- OneInterval
    MaxTime = 7
SPECIFICATION ReadingSpec
PROPERTIES CallReturns ReachesEnd
CHECK_DEADLOCK FALSE
