\* Four evaluations of four architectures, two at a time, with a retry and a
\* crash between two checkpoints.
SPECIFICATION FairSpec
CONSTANTS
    Archs = {1, 2, 3, 4}
    Scores = {1}
    Children <- Neighbours
    PopulationSize = 2
    TournamentSize = 2
    MaxEvaluations = 4
    MaxMisses = 3
    Streams <- Scarce
    InFlight = 2
    MaxRetries = 1
    CheckpointEvery = 2
    MaxResumes = 1
    Depths = {2, 1000}
\* A stopped search stops.
CHECK_DEADLOCK FALSE
INVARIANTS
    OldestRetires
    ProposalsAccounted
    LineageRooted
    ExhaustedWhenDry
PROPERTIES
    SearchEnds
