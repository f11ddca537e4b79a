SPECIFICATION FairSpec
CONSTANTS
    Request = {r1, r2}
    Blob = {"a", "b"}
    Token = {"wide", "scoped", "poor"}
    Allowed = {"a", "b"}
    PoorSrt = {"poor"}
    BlobScoped = {"scoped"}
    Granted <- MCFewGranted
    Inputs <- MCFewInputs
    MaxVersion <- MCNoOverwrite
PROPERTIES
    EveryRequestAnswered
CHECK_DEADLOCK FALSE
