SPECIFICATION Spec
CONSTANTS
    MaxBar = 3
    Prices <- MCPrices
    SeedQty = 2
    Targets <- MCTargets
    MinTrade = 1
    MaxTrade = 4
    MaxPosition = 4
    KillPercent = 40
    MaxCrash = 2
    EphemeralDisk = FALSE
    Reruns = "never"
    VisibilityLag = FALSE
INVARIANTS
    TypeOK
    NoOrphanOrder
    BookedOnce
    PositionMatchesVenue
    OwnerCoinsUntouched
    TradeLogCoversBooks
PROPERTIES
    ImplementsLedger
CHECK_DEADLOCK FALSE
