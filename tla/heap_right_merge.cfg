SPECIFICATION Spec
CONSTANTS
    PageSize = 2
    Start = 64
    End = 104
    IndexSize = 8
    WordMod = 1073741824
    Requests <- SmallRequests
    Words = {}
    MaxLive = 4
    Discipline = "any"
CHECK_DEADLOCK FALSE
INVARIANT RightMergeFound
