SPECIFICATION LiveSpec
CONSTANTS
    Driver = "run"
    t1 = t1
    t2 = t2
    gold = gold
    silver = silver
    Engines = {"e1"}
    Tickers = {t1}
    Metals = {gold, silver}
    MetalOf <- MCOneMetal
    Lots = {1}
    Bankroll0 = 2
    StopLoss = 1
    Adapters = {"shadow", "maker", "live"}
    MaxSessions = 3
    MaxCrash = 0
    DistinctKeys = TRUE
    AtomicSaves = TRUE
    OrderErrors = FALSE
INVARIANTS
    RowsOnce
    CashMatchesBook
    
PROPERTY
    EventuallySettled
CHECK_DEADLOCK FALSE
