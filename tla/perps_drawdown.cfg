SPECIFICATION LiveSpec
CONSTANTS
    Assets = {"btc", "eth"}
    Cap = 2
    MaxWeek = 1
    MaxCrash = 0
PROPERTIES
    DrawdownFlattens
CHECK_DEADLOCK FALSE
