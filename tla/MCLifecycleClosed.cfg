\* As MCLifecycle.
CONSTANTS
    MaxWindow = 3
    ProcessOf <- TwoProcesses
    MaxChanges = 4
SPECIFICATION FairSpec
PROPERTY ClosedIsNoticed
