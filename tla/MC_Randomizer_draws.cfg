SPECIFICATION FairSpec

CONSTANTS
    KILO = 2
    NANOS_STEP = 2
    RAND_MAX = 7
    PERIOD = 2
    SEED_WRAP = 2
    Generators <- MC_Generators
    UPPER = 2
    TRIES = 3
    speed = 2
    Limits <- MC_Limits
    Intervals <- MC_Intervals
    END_OF_TIME = 17

INVARIANTS
    TypeOK
    DrawInRange

PROPERTIES
    DrawsEnd
