SPECIFICATION Spec
CONSTANTS
    Requests <- MCRequests
    Fences <- MCFences
    Unit = 4
    IntMin <- MCIntMin
    IntMax <- MCIntMax
INVARIANTS
    TypeOK
    RefusedExactlyAsDocumented
    IntersectionIsExact
    SameLinesAreCombined
    CornersAreEndsOfAxes
    FenceIsAsAsked
CHECK_DEADLOCK FALSE
