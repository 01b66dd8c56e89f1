\* The ladder of a bracket and the ranking of up to three completed rows.
SPECIFICATION Spec
CONSTANTS
    Ladders <- MCLadders
    Evaluations <- MCEvaluations
    Scale <- MCScale
    Closeness = 10
    Log10Of <- MCLog10Of
    Candidates <- MCCandidates
    ObjectiveSets <- MCObjectiveSets
    ConstraintSets <- MCConstraintSets
    MetricValues <- MCMetricValues
\* Both loops end.
CHECK_DEADLOCK FALSE
INVARIANTS
    LadderHolds
    RankingRespectsDominance
    ScoresRespectDominance
    OnlineAgreesWithFinal
