CONSTANTS
    t1 = t1
    t2 = t2
    t3 = t3
    Task <- MCTask
    Capacity = 2
    Period = 2
    Threshold = 2
    Reset = 3
    MaxAttempts = 3
    InitialBackoff = 1
    RateBackoff = 2
    MaxBackoff = 2
    None = None
SPECIFICATION FairSpec
INVARIANTS
    TypeOK
    RateKept
    BurnBounded
PROPERTIES
    BreakerLetsGo
