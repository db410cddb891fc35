SPECIFICATION StripSpec
CONSTANTS
    Lens = {1}
    Colors = {}
    Whites = {}
    Hsvs <- MCHsv360
    MemSymbols = 48
    NULL = NULL
    MayFail = {}
INVARIANTS
    HueAsDocumented
