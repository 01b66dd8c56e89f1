\* A worker dies; the next round submits to the broken pool.
SPECIFICATION Spec
CONSTANTS
    Candidates = {1, 2, 3}
    InFlight = 2
    Workers = 2
    MaxRetries = 1
    TimeLimited = TRUE
    MayDie = TRUE
    MayInterrupt = FALSE
    MayStopEarly = FALSE
INVARIANT SearchSurvivesDeadWorker
