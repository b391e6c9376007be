SPECIFICATION Spec
CONSTANTS
    Msgs = {m1, h1, p1}
    FromPeer = {p1}
    Old = {h1}
    Voters = {v1}
    MaxEvents = 5
    MaxFaults = 2
INVARIANTS
    StoreFollows
CHECK_DEADLOCK FALSE
