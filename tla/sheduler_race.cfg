SPECIFICATION Spec
CONSTANTS
    MaxProcesses = 2
    MaxNested = 1
    MaxUsers = 0
    Switching = {"timer", "program"}
    Racing = TRUE
CHECK_DEADLOCK FALSE
INVARIANT ChildStarts
