CONSTANTS
    MaxPages = 3
    ReservedPages = 1
    PageSize = 12
    Word = 128
    HeaderSize = 3
    HeapMaxSize = 36
    Sizes = {1, 5}
    MaxFrees = 1
SPECIFICATION HeapFairSpec
PROPERTY MallocReturns
