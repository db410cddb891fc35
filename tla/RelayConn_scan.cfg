SPECIFICATION ConnFairSpec
CONSTANTS
    Conns = {c1, c2}
    Sensors = {s1}
    Phones = {p1}
    NULL = NULL
    MayFail = {"create"}
PROPERTIES
    KeepsCentralRole
