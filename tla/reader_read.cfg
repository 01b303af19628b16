CONSTANTS
    Messages <- Msgs
    Streams <- AllStreams
    InitialSize = 1
    Filters <- MCFilters
    Chars <- QueryChars
    Clean <- MCClean
    Matches <- MCMatches
    QueryLists <- None
    Intervals <- None
    MaxTime = 7
SPECIFICATION Spec
INVARIANTS TypeOK WindowIsStream OnItemBoundary TimestampExact FirstWanted HonestError BufferFitsItems RefillHasRoom
PROPERTY EventsInOrder
CHECK_DEADLOCK FALSE
