SPECIFICATION VoiceSpec
CONSTANTS
    Devices = {d1, d2, d3}
    MaxDepth = 4
    NULL = NULL
    MayFail = {"connect", "chrc", "disconnect", "discovery", "mic"}
SYMMETRY Symmetry
INVARIANTS
    VoiceTypeOK
    ConnectedAreListed
    HeardAreListed
PROPERTIES
    DiesOnlyOf
CHECK_DEADLOCK FALSE
