CONSTANTS
    a = a
    b = b
    first = first
    second = second
    n1 = n1
    n2 = n2
    Caller = {first, second}
    Root = {a, b}
    Node = {n1, n2}
    nodes <- InOrder
    Requests <- SomeRequests
    Segments <- TwoAndOne
    StartSegment <- FirstIsOdd
    Configs <- OfTwo
    MaxCalls <- TwiceAndOnce
    MaxCrashes = 1
SPECIFICATION FairSpec
INVARIANTS
    TypeOK
    SuccessIsWhole
    NoTemporaryLeft
    GivenUpIsMissing
PROPERTIES
    EveryDownloadEnds
CHECK_DEADLOCK FALSE
