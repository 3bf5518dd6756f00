SPECIFICATION FairSpec

CONSTANTS
    NULL = NULL
    max = 2
    Size <- MC_Sizes
    PathCnt <- MC_Paths
    U64 = 16
    KERNEL_MAX = 7
    OLD_LENGTHS <- MC_OldLengths
    LengthArgs = {1, 5, 8}
    MAX_ALLOC = 5
    FILE_RATIO = 4
    PAGE_WRAP = 4
    FILE_MAX = 9
    RLIMIT_DEFAULT = 6
    Vectors <- MC_Vectors
    Junk <- MC_Junk

INVARIANTS
    TypeOK
    KernelAsAsked
    TraceReplayed
    TraceFits
    FilesUsedOnce
    RatioExact

PROPERTIES
    ImplementsLocality
    Terminates
