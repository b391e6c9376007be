SPECIFICATION FairSpec
CONSTANTS
    Batch = 2
    Low = 1
    MaxId = 5
    MaxGen = 2
    MaxPeers = 1
INVARIANTS
    TypeOK
    HeldKeysAnswerable
    RetryKeysAnswerable
    StockBounded
PROPERTY TopUpEnds
CHECK_DEADLOCK FALSE
