SPECIFICATION FairSpec
CONSTANTS
    Conns = {c1, c2, c3}
    None = None
    Iqs = {q1}
    MaxRetries = 2
    MaxRefs = 2
    MaxTimers = 2
INVARIANTS
    TypeOK
    NeverStranded
    OneLink
    NothingOutlivesLink
    StoppedIsQuiet
    RestartLogsIn
PROPERTIES
    LinkOrEnd
CHECK_DEADLOCK FALSE
