SPECIFICATION StripFairSpec
CONSTANTS
    Lens = {0, 1, 2}
    Colors <- MCColors
    Whites = {7}
    Hsvs <- MCHsvs
    MemSymbols = 48
    NULL = NULL
    MayFail = {"create", "enable", "transmit", "disable", "delete"}
INVARIANTS
    StripTypeOK
    HeldByHandle
    WireInOrder
    ShowsWanted
    FailsOnlyAfterFailure
PROPERTIES
    RefreshReturns
