SPECIFICATION Spec
CONSTANTS
    c1 = c1
    c2 = c2
    Conns = {c1, c2}
    None = None
    Iqs = {}
    MaxRetries = 1
    MaxRefs = 1
    MaxTimers = 1
SYMMETRY ConnSymmetry
INVARIANT EndIsFinal
CHECK_DEADLOCK FALSE
