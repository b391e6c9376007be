SPECIFICATION Spec
CONSTANTS
    Parties = {a, b}
    Window = 2
    HealAt = 2
    MaxInits = 2
    MaxAsks = 2
    MaxKeys = 5
    MaxSent = 4
INVARIANT LateMessagesOpen
CHECK_DEADLOCK FALSE
