SPECIFICATION Spec
CONSTANTS
    a = a
    b = b
    c = c
    o = o
    t1 = t1
    t2 = t2
    Node = {a, b, c, o}
    NoNode = none
    Hop = {a, b}
    Rx = {t1, t2}
    SeqMod = 8
    MaxMetric = 1
    MoreIsBetter = FALSE
    Rreqs <- MCRreqs
    Rreps <- MCRreps
    Rerrs <- MCRerrs
    Wanted = {c}
    dest_only = FALSE
SYMMETRY Threads
CHECK_DEADLOCK FALSE
INVARIANTS
    TypeOK
    OnlyRreqsUnmirror
    BreakIsComplete
    ReportIsLost
    RepairIsNotOutdated
PROPERTIES
    SeqNeverOlder
