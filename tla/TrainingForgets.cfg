\* A run is killed after a checkpoint and resumed: is the best epoch reported?
SPECIFICATION Spec
CONSTANTS
    Epochs = 3
    StepsPerEpoch = 2
    Scores = {0, 1, 2}
    MaxAttempts = 2
    AllSettings <- MCSettings
    MayCrash = TRUE
    MayOverlap = FALSE
\* A candidate that is evaluated stops.
CHECK_DEADLOCK FALSE
INVARIANT ReportsBestEpoch
