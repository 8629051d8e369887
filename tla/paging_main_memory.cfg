SPECIFICATION Spec
CONSTANTS
    PageSize = 2
    TableSize = 4
    SlotNumber = 10
    InitrdEnd = 1
    BitmapSize = 1
    DirectorySize = 5
    HeapStart = 16
    HeapPages = 16
    HeapIndexPages = 1
    StackTop = 36
    StackPages = 2
    Blank = 0
    FrameNumber = 16
    WordBits = 4
    Garbage <- NoGarbage
    DataPages <- MCDataPages
    Freeable <- NoPages
    Values = {0, 1}
    MaxSpaces = 2
CHECK_DEADLOCK FALSE
INVARIANT MainMemory
