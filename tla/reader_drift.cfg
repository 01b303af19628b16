CONSTANTS
    Messages <- Msgs
    Streams <- FourStream
    InitialSize = 3
    Filters <- None
    Chars <- QueryChars
    Clean <- MCClean
    Matches <- MCMatches
    QueryLists <- MCQueryLists
    Intervals <- MCIntervals
    MaxTime = 7
SPECIFICATION Spec
INVARIANT TimestampExact
CHECK_DEADLOCK FALSE
