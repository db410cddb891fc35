SPECIFICATION SensorFairSpec
CONSTANTS
    Handles = {h1, h2, h3}
    Vals = {0, 1, 2, 255}
    NULL = NULL
    MayFail = {"connect", "notify", "temp"}
INVARIANTS
    SensorTypeOK
    ConnectionView
PROPERTIES
    KeepsLedContract
    InvisibleOnlyOnFailure
    ComesBack
