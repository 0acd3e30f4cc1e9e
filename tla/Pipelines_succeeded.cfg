\* The run that shows a reverted transaction being reported as settled.
CONSTANTS
    Depin = {d1}
    Game = {}
    Social = {s1}
    Nobody = nobody
    TurboAttempts = 2
    StandardAttempts = 0
    InferAttempts = 2
    WeatherKey = TRUE
    EnvToken = FALSE
    MaxRuns = 1
    MaxCrashes = 0
SPECIFICATION Spec
INVARIANT
    ReportedSucceeded
CHECK_DEADLOCK FALSE
