\* One control whose receipt is saved, but not the failure of its observer.
CONSTANTS
    c1 = c1
    Controls = {c1}
    NoControl = NoControl
    MaxAttempts = 1
    MaxEmits = 0
    MaxFaults = 2
SPECIFICATION FairSpec
INVARIANTS SettledOnce
CHECK_DEADLOCK FALSE
