SPECIFICATION Spec
CONSTANTS
    PageSize = 2
    TableSize = 4
    SlotNumber = 10
    InitrdEnd = 1
    BitmapSize = 1
    DirectorySize = 5
    HeapStart = 16
    HeapPages = 16
    HeapIndexPages = 1
    StackTop = 36
    StackPages = 2
    Blank = 0
    FrameNumber = 12
    WordBits = 3
    Garbage <- NoGarbage
    DataPages <- MCDataPages
    Freeable <- MCFreeable
    Values = {0, 1}
    MaxSpaces = 3
CHECK_DEADLOCK FALSE
INVARIANT MappedFramesBusy FrameIsolation FrameZeroLast
