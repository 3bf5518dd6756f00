SPECIFICATION FairSpec

CONSTANTS
    m1 = m1
    m2 = m2
    m3 = m3
    Mapping = {m1, m2, m3}
    Length <- MC_Small
    Patterns = {"fix", "stride", "seq", "repeat", "random"}
    PAGE = 16
    STRIDE_CUT = 20
    MAX_DIST = 6
    MIN_CNT = 2
    MAX_CNT = 5
    FIX_MARGIN = 15
    TAIL = 3
    MARGIN = 3
    RUN = 2
    MAX_ATT = 3
    SLICES = 3

INVARIANTS
    TypeOK
    InBounds
    FixNodeUnique

PROPERTIES
    FixStays
    BothHalves
    Returns
