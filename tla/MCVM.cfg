CONSTANTS
    p1 = p1
    p2 = p2
    TaskSeq <- MCTaskSeq
    SwapLoc <- MCSwapLoc
    SwapSize <- MCSwapSize
    PAGEABLE_PAGES = 14
    N_KERNEL_PTS = 1
    SECTORS_PER_PAGE = 2
    DiskSize = 8
    Vals = {0, 1}

SPECIFICATION Spec

INVARIANTS
    TypeOK
    MemoryCoherent
    MemoryLockFreeBetweenFaults

\* The machine halts after the last process exits.
CHECK_DEADLOCK FALSE
