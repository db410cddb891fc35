SPECIFICATION ConnFairSpec
CONSTANTS
    Conns = {c1, c2, c3}
    Sensors = {s1, s2}
    Phones = {p1, p2}
    NULL = NULL
    MayFail = {"enable", "filter", "adv", "create"}
INVARIANTS
    ConnTypeOK
    RefAccounting
    CentralSlot
    ScanExclusive
    
    LedsTruthful
PROPERTIES
    LostSensorSought
    GivesUpOnlyOnConnectingError
CHECK_DEADLOCK FALSE
