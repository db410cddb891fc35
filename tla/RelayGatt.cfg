SPECIFICATION GattFairSpec
CONSTANTS
    Conns = {c1, c2}
    Sensors = {s1}
    Phones = {p1}
    NULL = NULL
    MayFail = {"scan"}
    Offers = {"temp", "led"}
    Temps = {20}
    ReqSlots = 3
INVARIANTS
    GattTypeOK
    DiscoveryInOrder
    DiscoveryNeverDropped
    NothingOutlivesLink
    CacheFollowsLamp
    PhonesFollowCache
PROPERTIES
    RelayKeepsLedContract
    SubscribesEventually
    WriteTakesEffect
