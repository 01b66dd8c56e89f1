SPECIFICATION FairSpec
CONSTANTS
    Epochs = 3
    StepsPerEpoch = 2
    Scores = {0, 1, 2}
    MaxAttempts = 2
    AllSettings <- MCSettings
    MayCrash = TRUE
    MayOverlap = TRUE
CHECK_DEADLOCK FALSE
INVARIANTS
    ContinuesOneRun
    TornOnlyByTwins
    WeightsAreTheResult
    FreshReportsBest
PROPERTIES
    AttemptsEnd
