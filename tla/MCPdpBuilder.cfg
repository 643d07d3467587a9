SPECIFICATION Spec
CONSTANTS
    SymbolTime = 20
    Tolerance = 11
    MaxBatch = 2
    Starts = {0, 7}
    Gaps = {20, 25, 31, 32, 40, 51}
    Responses <- MCResponses
INVARIANTS
    TypeOK
    NeverFatal
    TapCountAsserted
    PdpTracksResponse
    OnlyLastArrivalLost
    PdpSpansResponse
