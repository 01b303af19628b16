CONSTANTS
    Messages <- Msgs
    Streams <- Refused
    InitialSize = 2
    Filters <- None
    Chars <- QueryChars
    Clean <- MCClean
    Matches <- MCMatches
    QueryLists <- None
    Intervals <- None
    MaxTime = 7
SPECIFICATION Spec
INVARIANT NothingLeaks
CHECK_DEADLOCK FALSE
