SPECIFICATION FairSpec
CONSTANTS
    r1 = r1
    r2 = r2
    near = near
    far = far
    Request <- MCRequest
    Context = {c1, c2}
    Account <- MCAccount
    VdsOf <- MCVdsOf
INVARIANTS
    TypeOK
    ReportedFailuresCarryErrorResponse
    CountedOncePerAccount
    SampledAsAnswered
PROPERTIES
    FinishedRequestsAreSampled
CHECK_DEADLOCK FALSE
