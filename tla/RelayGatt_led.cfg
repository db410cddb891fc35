SPECIFICATION GattSpec
CONSTANTS
    Conns = {c1, c2}
    Sensors = {s1}
    Phones = {p1}
    NULL = NULL
    MayFail = {}
    Offers = {"temp", "led"}
    Temps = {20}
    ReqSlots = 3
INVARIANTS
    LedReportCurrent
