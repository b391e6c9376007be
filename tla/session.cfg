SPECIFICATION Spec
CONSTANTS
    Parties = {a, b}
    Window = 2
    HealAt = 2
    MaxInits = 2
    MaxAsks = 2
    MaxKeys = 5
    MaxSent = 4
SYMMETRY Sym
INVARIANTS
    TypeOK
    OneUsableSession
    FreshMessageKeys
    AtMostOnce
    HeldSessionsOpen
CHECK_DEADLOCK FALSE
