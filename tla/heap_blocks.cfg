SPECIFICATION Spec
CONSTANTS
    PageSize = 2
    Start = 64
    End = 92
    IndexSize = 8
    WordMod = 1073741824
    Requests <- PlainRequests
    Words = {1}
    MaxLive = 3
    Discipline = "guarded"
CHECK_DEADLOCK FALSE
INVARIANT TypeOK Tiled Coalesced NeverStops DataPreserved IndexOrdered
