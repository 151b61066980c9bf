SPECIFICATION Spec
CONSTANTS
    t1 = t1
    t2 = t2
    Rx = {t1, t2}
    Intervals = {1, 2}
    Factors = {1, 2}
    HELLO_INTERVAL = 1
    PDR_TRACKING_FACTOR = 2
    MinTracking = 3
    PurgeFactor = 2
    CountMod = 4
    HelloMod = 5
    Answers = {2}
    SeqMod = 8
    MaxMetric = 12
    MoreIsBetter = TRUE
    EtxOne = 3
    MaxSwitches = 1
CHECK_DEADLOCK FALSE
INVARIANTS
    TypeOK
    CountIsListed
    LosslessIsFull
    RatesAreBounded
    PathNeverImproves
PROPERTIES
    SilentIsForgotten
