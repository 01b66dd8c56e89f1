\* Three configurations and three builds on one file, up to three commands.
SPECIFICATION Spec
CONSTANTS
    Configs <- MCConfigs
    Builds <- MCBuilds
    Tables = {1, 2}
    Rows = {1, 2}
    MaxRetries = 1
    MaxSearches = 2
    MaxLaunches = 3
\* The commands of the model run out.
CHECK_DEADLOCK FALSE
INVARIANTS
    SchemaTellsTables
    ChargedOncePerDeath
    OneStrategyPerSearch
    MeasuredAsProposed
