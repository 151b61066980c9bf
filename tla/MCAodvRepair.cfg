SPECIFICATION Spec
CONSTANTS
    a = a
    b = b
    c = c
    d = d
    Node = {a, b, c}
    NoNode = none
    SeqMod = 8
    MaxMetric = 3
    MoreIsBetter = FALSE
    MetricStep = 0
    dest_only = FALSE
    RreqTtl = {3}
    MAX_MAC_SEQ_PER_EXT = 1
    Link <- Line
    Flow <- AtoC
    MaxSeqNum = 2
    MaxFaults = 1
CHECK_DEADLOCK FALSE
PROPERTY
    ReplierHasRoute
