SPECIFICATION Spec
CONSTANTS
    Devices = {d1}
    Calls = {c1, c2}
    MaxStates = 2
    Jump = 1
    Keep = 1
    MaxGens = 2
    MaxMsgs = 3
    MaxFaults = 2
    MaxChanges = 1
INVARIANTS MarkedReached ReadOnce FreshKeys UnreadableForAReason ChainMoves
SYMMETRY CallSymmetry
CHECK_DEADLOCK FALSE
