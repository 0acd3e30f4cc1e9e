\* The defaults of the backend's uploads: one replica, tasks of one segment.
CONSTANTS
    MaxShards = 2
    Node = {n1, n2}
    Indexed <- OfTwo
    Live <- OfTwo
    Fragments <- OneFragment
    ExpectedReplica = 1
    TaskSize = 1
    TooManyDataRetries = 3
    Options <- DefaultOptions
SPECIFICATION Spec
INVARIANT
    CleanUploadIsComplete
CHECK_DEADLOCK FALSE
