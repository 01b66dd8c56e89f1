\* Random search and evolution resumed from a checkpoint older than the rows.
SPECIFICATION Spec
CONSTANTS
    Archs = {1, 2, 3, 4}
    Scores = {1}
    Children <- Neighbours
    PopulationSize = 2
    TournamentSize = 2
    MaxEvaluations = 4
    MaxMisses = 3
    Streams <- Plenty
    InFlight = 1
    MaxRetries = 0
    CheckpointEvery = 3
    MaxResumes = 1
    Depths = {2, 1000}
CHECK_DEADLOCK FALSE
INVARIANT
    ExhaustedWhenNothingProposed
