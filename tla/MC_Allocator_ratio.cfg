SPECIFICATION ASpec

CONSTANTS
    NULL = NULL
    max = 1
    Size <- MC_OneSize
    PathCnt <- MC_ManyPaths
    MAX_ALLOC = 2
    MAX_ALLOC_PER_SE = 6
    MAX_TRANSITION_CNT = 5
    TRANS_LO = 5
    TRANS_HI = 6
    FILE_RATIO = 4
    PAGE_WRAP = 16
    MAX_LIMIT = 3
    FILE_MAX = 15
    RLIMIT_DEFAULT = 15
    LimitArgs = {}
    PerPhaseArgs = {5, 6}
    SpeedArgs = {}

INVARIANT
    RatioKept
