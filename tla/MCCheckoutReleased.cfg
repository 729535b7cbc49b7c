SPECIFICATION Spec
CONSTANTS
    Requests = {r1, r2}
    LockIds = {i1, i2, i3, i4}
    None = None
    Faults = TRUE
SYMMETRY Symmetry
INVARIANT
    SuccessMeansReleased
