SPECIFICATION Spec
CONSTANTS
    Sends <- MCSends
    MaxFaults = 1
INVARIANTS NonceOnce
PROPERTIES IsChannel ConnectSettles
CHECK_DEADLOCK FALSE
