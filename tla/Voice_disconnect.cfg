SPECIFICATION VoiceSpec
CONSTANTS
    Devices = {d1, d2}
    MaxDepth = 4
    NULL = NULL
    MayFail = {}
PROPERTIES
    DisconnectsAll
CHECK_DEADLOCK FALSE
