\* A bracket of three and two candidates with retries, Ctrl-C, a crash and a
\* resume.
SPECIFICATION FairSpec
CONSTANTS
    Archs = {1, 2, 3, 4}
    NumRungs = 2
    Sizes <- ThreeTwo
    Scores = {0, 1}
    Streams <- SomeDraws
    InFlight = 2
    MaxEvaluations = 5
    MaxRetries = 1
    CheckpointEvery = 2
    MaySuspend = TRUE
    MayCrash = TRUE
    MaxResumes = 1
\* A stopped search that is not resumed again stops.
CHECK_DEADLOCK FALSE
INVARIANTS
    EntersByMerit
    RowsFormABracket
    StopsForAReason
PROPERTIES
    LoopEnds
