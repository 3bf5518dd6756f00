SPECIFICATION FairSpec

CONSTANTS
    NULL = NULL
    max = 1
    Size <- MC_OneSize
    PathCnt <- MC_ThreePaths
    MAX_ALLOC = 2
    MAX_ALLOC_PER_SE = 3
    MAX_TRANSITION_CNT = 3
    TRANS_LO = 2
    TRANS_HI = 3
    FILE_RATIO = 2
    PAGE_WRAP = 8
    MAX_LIMIT = 4
    FILE_MAX = 8
    RLIMIT_DEFAULT = 5
    LimitArgs = {1}
    PerPhaseArgs = {0, 1, 2, 4}
    SpeedArgs = {0}
    MAX_LOOP = 2
    DEFAULT_WCET = 2
    MAX_LAG = 1
    PhaseArgs = {3, 4}
    ExecArgs <- MC_ExecArgs
    TotalArgs = {1}
    Vectors <- MC_Vectors

INVARIANTS
    TypeOK
    PhasesFit
    OvershootByOnePhase
    TraceInStep

PROPERTIES
    ImplementsAllocator
    ImplementsLocality
    WorkingSetCovered
    Terminates
