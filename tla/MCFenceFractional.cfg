SPECIFICATION Spec
CONSTANTS
    Requests <- MCFractional
    Fences <- MCFences
    Unit = 4
    IntMin <- MCIntMin
    IntMax <- MCIntMax
INVARIANT
    IntersectionIsExact
CHECK_DEADLOCK FALSE
