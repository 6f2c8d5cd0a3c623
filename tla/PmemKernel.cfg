CONSTANTS
    MaxPages = 520
    ReservedPages = 384
    PageSize = 4096
    Word = 4194304
SPECIFICATION Spec
INVARIANT KernelPagesNeverAllocated
