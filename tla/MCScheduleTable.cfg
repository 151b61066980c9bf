SPECIFICATION Spec
CONSTANTS
    Key = {k1, k2, k3, k4}
    NULL = null
    MaxTime = 3
INVARIANT
    ListIsHash
PROPERTY
    IsDueMap
