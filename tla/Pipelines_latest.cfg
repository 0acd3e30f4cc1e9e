\* Three audits in a row: the run that shows which put is not read.
CONSTANTS
    Depin = {}
    Game = {}
    Social = {s1}
    Nobody = nobody
    TurboAttempts = 2
    StandardAttempts = 0
    InferAttempts = 2
    WeatherKey = TRUE
    EnvToken = FALSE
    MaxRuns = 3
    MaxCrashes = 0
SPECIFICATION Spec
INVARIANT
    LastPutIsRead
CHECK_DEADLOCK FALSE
