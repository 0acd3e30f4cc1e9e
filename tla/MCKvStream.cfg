\* Two keys and one value of two pieces beside one of a single byte; a batch
\* may be too large when both keys are set under both spellings of the id.
CONSTANTS
    StreamId = {"0xab", "0xAB"}
    Key = {1, 2}
    Data <- MCData
    MAX_QUERY_SIZE = 2
    MAX_SET_SIZE = 2
    MaxSets = 3
    MaxLog = 2
SPECIFICATION Spec
INVARIANTS
    TypeOK
    ReadIsWhole
    ScanIsSnapshot
PROPERTY
    BatchIsAsked
