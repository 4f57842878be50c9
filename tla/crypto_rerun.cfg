SPECIFICATION Spec
CONSTANTS
    MaxBar = 1
    Prices <- MCPrices
    SeedQty = 2
    Targets <- MCTargets
    MinTrade = 1
    MaxTrade = 4
    MaxPosition = 4
    KillPercent = 40
    MaxCrash = 0
    EphemeralDisk = FALSE
    Reruns = "any"
    VisibilityLag = FALSE
INVARIANTS
    BookedOnce
CHECK_DEADLOCK FALSE
