SPECIFICATION ASpec

CONSTANTS
    NULL = NULL
    max = 2
    Size <- MC_Size
    PathCnt <- MC_PathCnt
    MAX_ALLOC = 2
    MAX_ALLOC_PER_SE = 3
    MAX_TRANSITION_CNT = 3
    TRANS_LO = 2
    TRANS_HI = 3
    FILE_RATIO = 2
    PAGE_WRAP = 4
    MAX_LIMIT = 3
    FILE_MAX = 8
    RLIMIT_DEFAULT = 5
    LimitArgs = {1}
    PerPhaseArgs = {3, 4, 5}
    SpeedArgs = {0, 2}

INVARIANTS
    ATypeOK
    FilesUsedOnce
    FilledMeansFull
    Accounting
    PhaseBudget
    FullOnlyWhenAsked
    DescriptorsSuffice
