SPECIFICATION Spec
CONSTANTS
    Axes <- MCAxes
    Verticals <- MCVerticals
    Directions = {"i", "inline", "Inline", "crossline", "depth", "time", "sample", "lateral"}
    Numbers <- MCNumbers
    MaxBounds = 2
    Width = 4
INVARIANTS
    TypeOK
    SliceIsAsPromised
    NamedDomainIsRespected
CHECK_DEADLOCK FALSE
