\* Four candidates for a budget of two, two in flight, a crash at any moment, two
\* resumes.
SPECIFICATION Spec
CONSTANTS
    k1 = k1
    k2 = k2
    k3 = k3
    k4 = k4
    Keys = {k1, k2, k3, k4}
    OverBudget = {}
    Malformed = {}
    MaxEvaluations = 2
    MaxRetries = 1
    InFlight = 2
    CheckpointEvery = 2
    KeepCheckpoints = 1
    Outcomes = {"OK", "TRANSIENT"}
    RetryOnTimeout = TRUE
    TimeLimited = FALSE
    Aborts = {}
    MayCrash = TRUE
    MaxResumes = 2
SYMMETRY SymFour
INVARIANTS
    TypeOK
    AttemptIsFresh
    RetryBound
    NoOrphans
    BudgetHolds
    CheckpointNeverAhead
    HearsOutcomes
