SPECIFICATION LiveSpec
CONSTANTS
    Assets = {"btc", "eth"}
    Cap = 2
    MaxWeek = 2
    MaxCrash = 1
INVARIANTS
    ExposureBounded
    KillStopsOrders
PROPERTIES
    MismatchSticks
    DivergenceNoticed
CHECK_DEADLOCK FALSE
