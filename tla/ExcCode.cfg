CONSTANTS
    Lines = {0}
    Faults = {0, 14}
    MaxRaises = 1
SPECIFICATION IntSpec
INVARIANT ErrorCodeShown
CHECK_DEADLOCK FALSE
