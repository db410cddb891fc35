SPECIFICATION HomeSpec
CONSTANTS
    Conns = {c1, c2}
    Sensors = {s1}
    Phones = {p1}
    NULL = NULL
    MayFail = {}
    Offers = {"temp", "led"}
    Temps = {20}
    ReqSlots = 2
    Handles = {h1}
    Vals = {0, 1, 2}
    DeviceMayFail = {"temp"}
SYMMETRY Symmetry
INVARIANTS
    SubscriptionsAgree
    PhoneKnowsLamp
PROPERTIES
    SensorAsAssumed
