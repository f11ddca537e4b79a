SPECIFICATION Spec
CONSTANTS
    Request = {r1, r2}
    Blob = {"a", "b"}
    Token = {"wide", "scoped", "poor"}
    Allowed = {"a", "b"}
    PoorSrt = {"poor"}
    BlobScoped = {"scoped"}
    Granted <- MCGranted
    Inputs <- MCFewInputs
    MaxVersion <- MCNoOverwrite
INVARIANTS
    NoLeakedHandles
CHECK_DEADLOCK FALSE
SYMMETRY RequestSymmetry
