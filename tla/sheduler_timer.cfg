SPECIFICATION FairSpec
CONSTANTS
    MaxProcesses = 3
    MaxNested = 1
    MaxUsers = 1
    Switching = {"timer", "program"}
    Racing = FALSE
CHECK_DEADLOCK FALSE
INVARIANT TypeOK Resumable RunningIsCurrent
PROPERTY StacksPrivate ImplementsProcesses TurnsTaken
