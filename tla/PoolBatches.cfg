\* Two workers, two tasks in flight, time limits, deaths, Ctrl-C and an early stop:
\* every answer is true, every batch and every run ends.
SPECIFICATION Spec
CONSTANTS
    Candidates = {1, 2, 3}
    InFlight = 2
    Workers = 2
    MaxRetries = 1
    TimeLimited = TRUE
    MayDie = TRUE
    MayInterrupt = TRUE
    MayStopEarly = TRUE
INVARIANTS
    VerdictsAreEarned
    QuietWhenFinalised
PROPERTIES
    KeepsContract
    RunEnds
