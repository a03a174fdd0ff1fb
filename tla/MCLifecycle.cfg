\* Three windows of two processes.
CONSTANTS
    MaxWindow = 3
    ProcessOf <- TwoProcesses
    MaxChanges = 4
SPECIFICATION FairSpec
INVARIANTS TypeOK TrackedConsistently TitleNotLost
PROPERTIES TitleFollows
