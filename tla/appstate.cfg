SPECIFICATION Spec
CONSTANTS
    NCols = 2
    Pushed = {1}
    NIdx = 1
    Tasks = {t1, t2}
    Page = 1
    MaxKeys = 2
    MaxMacs = 3
    MaxFaults = 1
INVARIANTS HashOfMap StateIsHistory SyncedWhenQuiet ViewFollows
CHECK_DEADLOCK FALSE
SYMMETRY TaskSymmetry
