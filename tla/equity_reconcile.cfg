SPECIFICATION Spec
CONSTANTS
    Symbols = {"a", "b"}
    Prices <- MCPrices
    MaxShares = 3
    InitCash = 3
    MinOrder = 1
    BandPercent = 15
    KillPercent = 50
    MaxDay = 3
    MaxDie = 0
    MaxDeposit = 0
    Reconciling = "morning"
INVARIANTS
    BooksMatchVenue
CHECK_DEADLOCK FALSE
