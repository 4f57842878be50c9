SPECIFICATION Spec
CONSTANTS
    Driver = "agent"
    t1 = t1
    t2 = t2
    gold = gold
    silver = silver
    Engines = {"e1", "e2"}
    Tickers = {t1, t2}
    Metals = {gold, silver}
    MetalOf <- MCOneMetal
    Lots = {1}
    Bankroll0 = 2
    StopLoss = 1
    Adapters = {"shadow"}
    MaxSessions = 2
    MaxCrash = 1
    DistinctKeys = TRUE
    AtomicSaves = TRUE
    OrderErrors = FALSE
INVARIANTS
    PositionAccounted
CHECK_DEADLOCK FALSE
