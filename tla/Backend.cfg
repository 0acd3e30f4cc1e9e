\* A game daemon, an endpoint that settles on the chain and one page: does every
\* run end, and does the page get everything, in order and once?  Each side may
\* lose a connection and the process ends once.
CONSTANTS
    Depin = {}
    Game = {g1}
    Social = {s1}
    Nobody = nobody
    TurboAttempts = 1
    StandardAttempts = 0
    InferAttempts = 1
    WeatherKey = FALSE
    EnvToken = TRUE
    MaxRuns = 1
    MaxCrashes = 1
    Daemon = {g1}
    Page = {p1}
    NoMessage = null
    LogLines = 1
    MaxConnects = 2
SPECIFICATION FairBackendSpec
INVARIANTS
    NothingSkipped
    SuccessIsTrue
PROPERTIES
    ImplementsFeed
    EveryRunEnds
    PageCatchesUp
CHECK_DEADLOCK FALSE
