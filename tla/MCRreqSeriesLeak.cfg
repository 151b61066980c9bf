SPECIFICATION Spec
CONSTANTS
    Thread = {rx, sys, per}
    RxThread = {rx}
    PeriodicThread = per
    Key = {k1, k2}
    Address = {a1, a2}
    RREQ_RETRIES = 1
    RREQ_RATELIMIT = 1
    MaxStarts = 3
INVARIANT
    EverySeriesIsOwned
