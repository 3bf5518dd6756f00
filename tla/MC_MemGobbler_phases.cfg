SPECIFICATION Spec

CONSTANTS
    NULL = NULL
    max = 1
    Size <- MC_OneSize
    PathCnt <- MC_ThreePaths
    MAX_ALLOC = 2
    MAX_ALLOC_PER_SE = 3
    MAX_TRANSITION_CNT = 3
    TRANS_LO = 2
    TRANS_HI = 3
    FILE_RATIO = 2
    PAGE_WRAP = 8
    MAX_LIMIT = 4
    FILE_MAX = 8
    RLIMIT_DEFAULT = 5
    LimitArgs = {}
    PerPhaseArgs = {1}
    SpeedArgs = {}
    MAX_LOOP = 2
    DEFAULT_WCET = 2
    MAX_LAG = 1
    PhaseArgs = {4}
    ExecArgs = {}
    TotalArgs = {}
    Vectors = {}

INVARIANT
    PhasesWithinTracker
