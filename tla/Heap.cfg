CONSTANTS
    MaxPages = 4
    ReservedPages = 1
    PageSize = 12
    Word = 128
    HeaderSize = 3
    HeapMaxSize = 24
    Sizes = {1, 7, 9, 12}
    MaxFrees = 2
SPECIFICATION HeapFairSpec
INVARIANTS UsedPagesIsBitmap PagesAccountedFor DisjointUntilStray StatsBalance HeapWithinLimit FreeBlocksLinked
PROPERTIES ImplementsAllocator MallocReturnsBeforeFree
