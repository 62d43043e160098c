SPECIFICATION BootSpec
CONSTANTS
    Word = 64
    Limit = 24
    PageSize = 4
    LowLimit = 4
    KernelStart = 4
    KernelEnd = 10
    Maps <- TwoEntries
INVARIANTS
    ReservedNeverReleased
PROPERTY MemoryAfterKernelReleased
CHECK_DEADLOCK FALSE
