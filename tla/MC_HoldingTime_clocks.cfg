SPECIFICATION FairSpec

CONSTANTS
    KILO = 2
    NANOS_STEP = 4
    SECS_STEP = 4
    LAST_SET = 20
    ExecTimes <- MC_ExecTimes
    WallSteps <- MC_WallSteps
    MAX_TURN = 3
    LAST_START = 8
    END_OF_TIME = 36

INVARIANTS
    TypeOK
    HeldAsAsked

PROPERTIES
    SkipsOnlyLate
    HoldingEnds
