CONSTANTS
    LastDay = 7
    SlotsPerDay = 4
    Weekdays <- MCWeekdays
    Registry <- MCRegistry
    JobSlot <- MCJobSlot
    Cadence = 1
    MaxAttempts = 2
    None = None
    Session <- MCSession
    Oldest <- MCOldest
    Disputed <- MCDisputed
    Closed = 1
    Legs = 2
    Hold = 2
    FloorDay = 4
    Prices <- MCPrices
    Listed <- MCListed
    Troubles = 2
SPECIFICATION FairSpec
INVARIANTS
    TypeOK
    AttemptsBounded
    OutcomeFaithful
    LateRowCounts
PROPERTIES
    PositionSettles
CHECK_DEADLOCK FALSE
