\* Two replicas, tasks of two segments; a node may answer a config that is none.
CONSTANTS
    MaxShards = 2
    Node = {n1, n2, n3}
    Indexed <- OfTwo
    Live <- OrBroken
    Fragments <- SomeFragments
    ExpectedReplica = 2
    TaskSize = 2
    TooManyDataRetries = 2
    Options <- SomeOptions
SPECIFICATION FairSpec
INVARIANTS
    TypeOK
    SentOnlyIfCovered
    OwnSegmentsOnly
    OkTaskIsStored
    EvenUploadIsComplete
PROPERTY
    EveryUploadEnds
CHECK_DEADLOCK FALSE
