SPECIFICATION Spec
CONSTANTS
    Keys = {creds, k1, k2}
    Creds = creds
    Vals = {v1}
    None = None
    Magic = Magic
    Stub = Stub
    Torn = Torn
    Lost = Lost
    Fsync = TRUE
    MaxBatch = 2
    CompactAt = 4
    Factor = 1
    MaxLen = 4
INVARIANTS
    TypeOK
    MemIsDisk
    TearsAreTails
    ShortKeyLocksNothing
PROPERTIES
    CredsNeverVanish
    ImplementsMap
CHECK_DEADLOCK FALSE
