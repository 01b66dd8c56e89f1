\* One candidate at a time, rejected proposals, Ctrl-C and errors, a time limit;
\* every loop that is entered ends.
SPECIFICATION FairSpec
CONSTANTS
    k1 = k1
    k2 = k2
    k3 = k3
    k4 = k4
    Keys = {k1, k2, k3}
    OverBudget = {k2}
    Malformed = {k3}
    MaxEvaluations = 2
    MaxRetries = 1
    InFlight = 1
    CheckpointEvery = 1
    KeepCheckpoints = 2
    Outcomes = {"OK", "TRANSIENT", "TIMEOUT"}
    RetryOnTimeout = FALSE
    TimeLimited = TRUE
    Aborts = {"INTERRUPTED", "ERROR"}
    MayCrash = TRUE
    MaxResumes = 1
PROPERTIES
    KeepsLedger
    LoopEnds
