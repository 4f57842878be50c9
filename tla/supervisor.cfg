SPECIFICATION FairSpec
CONSTANTS
    Pids = {1, 2, 3}
    CheckIns = {"c1"}
    WarmUp = 1
    StaleAfter = 2
    PidReuse = FALSE
    ReapsChild = TRUE
    MaxKill = 1
    MaxBoot = 1
    MaxRow = 1
    MaxStray = 1

    
    
PROPERTIES
    LoopReturns
