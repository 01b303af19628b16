CONSTANTS
    Messages <- Msgs
    Streams <- ScanStreams
    InitialSize = 3
    Filters <- MCFilters
    Chars <- QueryChars
    Clean <- MCClean
    Matches <- MCMatches
    QueryLists <- MCQueryLists
    Intervals <- MCIntervals
    MaxTime = 7
SPECIFICATION Spec
INVARIANTS TimestampExactWhenTrusted FirstWanted HonestError BufferFitsStream NeverReadsPastEnd BufferTransparent
PROPERTY EventsInOrder
CHECK_DEADLOCK FALSE
