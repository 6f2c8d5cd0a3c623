CONSTANTS
    MaxPages = 392
    ReservedPages = 384
    PageSize = 4096
    Word = 1073741824
    HeaderSize = 12
    HeapMaxSize = 268435456
    Sizes = {4096, 32}
    MaxFrees = 0
SPECIFICATION HeapSpec
INVARIANT BlocksDisjoint
