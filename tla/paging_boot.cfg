SPECIFICATION FairBootSpec
CONSTANTS
    PageSize = 2
    TableSize = 4
    SlotNumber = 10
    InitrdEnd = 2
    BitmapSize = 1
    DirectorySize = 5
    HeapStart = 16
    HeapPages = 16
    HeapIndexPages = 1
    StackTop = 36
    StackPages = 2
    Blank = 0
    FrameNumber = 16
    WordBits = 4
    Garbage <- MCGarbage
    DataPages <- MCDataPages
    Freeable <- NoPages
    Values = {0, 1}
    MaxSpaces = 3
    AddressMod = 1073741824
    initialEsp = 16
    LoaderSize = 16
    newStartAddr = 288
    newSize = 16
    Starts <- MCStarts
    PageWords = 8
CHECK_DEADLOCK FALSE
INVARIANT TypeOK IdentityMapped TablesShared WalkAgrees NoFrameLost FramesFollow StackInPages
PROPERTY MappingsStable BootCompletes ProcessesIsolated
