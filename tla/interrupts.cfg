SPECIFICATION FairSpec
CONSTANTS
    N = 3
    Devices = {6, 8, 14}
    Faults = {0, 14, 31, 128}
    Stub <- MCStub
    MaxRaises = 2
    MaxEarly = 2
INVARIANTS
    TypeOK
    NumberIsVector
    MasterAcknowledged
    OnlyTicksNest
PROPERTY TicksReachAll
CHECK_DEADLOCK FALSE
