\* A preset cut to three blocks, a varied space, and seven small ones, each of
\* them for one corner of the code.  A step is a twentieth, the coarsest with
\* which the ends of the accepted ranges are exact, and has four grains, so
\* that a float may be rounded up, down, and from the middle.
SPECIFICATION Spec
CONSTANTS
    Precision = 20
    Grain = 4
    Spaces <- MCSpaces
\* An architecture may have no acceptable child.
CHECK_DEADLOCK FALSE
INVARIANTS
    RepairSuffices
    LeavesOnlyByInheritance
    EstimateMatchesNetwork
    SpaceSpeaksTrue
PROPERTIES
    OperationsOnlyDescend
