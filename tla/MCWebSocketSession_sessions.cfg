SPECIFICATION SessionSpec
CONSTANTS
    ws = ws
    c1 = c1
    TierCallers <- Both
    Session = ws
    CatalogTTL = 1
    ErrorTTL = 1
    MaxClock = 1
    MinCooldown = 2
    MaxCooldown = 10
    EpochFloor = 90
    Boot = 100
    Defaults <- Bench
    Evidence <- Limits
    MaxTurns = 2
    MaxAsks = 1
INVARIANTS SessionInv CancelStaysPrivate AnsweredByOwn BenchedAsTold
PROPERTIES SessionEnds EveryLookupReturns
CHECK_DEADLOCK FALSE
