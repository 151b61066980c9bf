SPECIFICATION Spec
CONSTANTS
    t1 = t1
    t2 = t2
    Rx = {t1}
    Intervals = {1}
    Factors = {5}
    HELLO_INTERVAL = 1
    PDR_TRACKING_FACTOR = 5
    MinTracking = 1
    PurgeFactor = 2
    CountMod = 4
    HelloMod = 8
    Answers = {0, 2}
    SeqMod = 8
    MaxMetric = 12
    MoreIsBetter = TRUE
    EtxOne = 3
    MaxSwitches = 0
INVARIANT
    AnyFactorIsFull
