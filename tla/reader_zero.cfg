CONSTANTS
    Messages <- Msgs
    Streams <- LiveStreams
    InitialSize = 0
    Filters <- None
    Chars <- QueryChars
    Clean <- MCClean
    Matches <- MCMatches
    QueryLists <- None
    Intervals <- None
    MaxTime = 7
SPECIFICATION FairSpec
PROPERTY CallReturns
CHECK_DEADLOCK FALSE
