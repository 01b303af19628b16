CONSTANTS
    Messages <- Msgs
    Streams <- Truncated
    InitialSize = 2
    Filters <- None
    Chars <- QueryChars
    Clean <- MCClean
    Matches <- MCMatches
    QueryLists <- None
    Intervals <- None
    MaxTime = 7
SPECIFICATION FairSpec
PROPERTY CallReturns
CHECK_DEADLOCK FALSE
