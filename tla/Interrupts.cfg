CONSTANTS
    Lines = {0, 1, 6, 8, 12}
    Faults = {0, 9, 14, 17}
    MaxRaises = 4
SPECIFICATION IntSpec
INVARIANTS HandlersInPlace ServiceMatches FaultReported
PROPERTY RequestsAnswered
CHECK_DEADLOCK FALSE
