SPECIFICATION Spec
CONSTANTS
    Readers = {p1}
    ArgLists <- AllNames
    Contents <- MCContents
    NameLen = 5
    FileNodesNum = 3
    BufSize = 2
    Location = 7
    Junk = Junk
CHECK_DEADLOCK FALSE
INVARIANT PackedWhole
