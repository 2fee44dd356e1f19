SPECIFICATION FairSpec
CONSTANTS
    c1 = c1
    Clients = {c1}
    RingCap = 1
    HistoryCap = 2
    ChanCap = 1
    MaxBatch = 2
    MaxEvents = 3
    MaxLives = 2
INVARIANTS OnceInOrder NoGap
PROPERTY Delivered
CHECK_DEADLOCK FALSE
