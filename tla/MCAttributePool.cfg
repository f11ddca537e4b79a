SPECIFICATION FairSpec
CONSTANTS
    NRows = 4
    NCols = 3
    AttributeCounts <- MCAttributeCounts
    EmptySets <- MCEmptySets
INVARIANTS
    TypeOK
    NoUseAfterFree
    DisjointChunks
    BoundedConcurrency
    SuccessIsComplete
    ErrorsAreReported
PROPERTIES
    Termination
    ImplementsAttributeMaps
CHECK_DEADLOCK FALSE
