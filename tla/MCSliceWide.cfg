SPECIFICATION Spec
CONSTANTS
    Axes <- MCAxes
    Verticals <- MCOneVertical
    Directions = {"inline", "depth"}
    Numbers <- MCWideNumbers
    MaxBounds = 1
    Width = 4
INVARIANTS
    BoundsOutsideAreRefused
CHECK_DEADLOCK FALSE
