SPECIFICATION Spec
CONSTANTS
    Object = {o1, o2, o3, o4}
    NULL = null
    MaxTime = 4
    Lifetimes = {1, 2}
INVARIANT
    WellFormed
PROPERTY
    IsDueMap
