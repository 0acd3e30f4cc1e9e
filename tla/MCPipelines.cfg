\* One sensor run and two audits compete for the loop, for the account's nonce
\* and for the hot state; the process ends once.  The upload has a tier of
\* two attempts and one of one.
CONSTANTS
    Depin = {d1}
    Game = {}
    Social = {s1, s2}
    Nobody = nobody
    TurboAttempts = 2
    StandardAttempts = 1
    InferAttempts = 2
    WeatherKey = TRUE
    EnvToken = FALSE
    MaxRuns = 1
    MaxCrashes = 1
SYMMETRY Alike
SPECIFICATION Spec
INVARIANTS
    TypeOK
    CommitsFollowPuts
    DepinIsLogged
    NothingSkippedIntoVoid
CHECK_DEADLOCK FALSE
