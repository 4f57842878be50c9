SPECIFICATION FairSpec
CONSTANTS
    MaxBar = 2
    Prices <- MCPrices1
    SeedQty = 2
    Targets <- MCTargets1
    MinTrade = 1
    MaxTrade = 4
    MaxPosition = 4
    KillPercent = 40
    MaxCrash = 1
    EphemeralDisk = TRUE
    Reruns = "retry"
    VisibilityLag = TRUE
PROPERTIES
    IntentResolved
CHECK_DEADLOCK FALSE
