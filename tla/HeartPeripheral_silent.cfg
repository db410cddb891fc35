SPECIFICATION HeartFairSpec
CONSTANTS
    Clients = {k1, k2}
    FullBattery = 4
    MaxCalls = 3
    MaxSignals = 2
    NULL = NULL
PROPERTIES
    HeartBeats
CHECK_DEADLOCK FALSE
