SPECIFICATION Spec
CONSTANTS
    r1 = r1
    r2 = r2
    near = near
    far = far
    Request <- MCRequest
    Context = {c1, c2}
    Account <- MCAccount
    VdsOf <- MCVdsOf
INVARIANTS
    FailuresCarryErrorResponse
SYMMETRY ContextSymmetry
CHECK_DEADLOCK FALSE
