CONSTANTS
    BufferSize = 3
    InitialDelay = 2
    Interval = 1
    Word = 8
    Keys = {30}
    Shifts = {42}
    Printable = {30}
    MaxPresses = 2
SPECIFICATION Spec
INVARIANT RepeatOnlyAfterDelay
