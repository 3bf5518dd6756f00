SPECIFICATION Spec

CONSTANTS
    m1 = m1
    m2 = m2
    m3 = m3
    Mapping = {m1, m2, m3}
    Length <- MC_Small
    Patterns = {"random"}
    PAGE = 16
    STRIDE_CUT = 10
    MAX_DIST = 6
    MIN_CNT = 2
    MAX_CNT = 5
    FIX_MARGIN = 12
    TAIL = 3
    MARGIN = 3
    RUN = 2
    MAX_ATT = 3
    SLICES = 3

INVARIANT
    EveryPageVisited
