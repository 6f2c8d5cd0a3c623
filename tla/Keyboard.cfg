CONSTANTS
    BufferSize = 3
    InitialDelay = 1
    Interval = 1
    Word = 2
    Keys = {30, 32}
    Shifts = {42, 54}
    Printable = {30}
    MaxPresses = 3
SPECIFICATION Spec
INVARIANTS RingHoldsRest DeliveredAsTyped HeldKeyExact RepeatAfterDelayUnlessRaced ShiftFollowsKeys
PROPERTY ImplementsQueue
