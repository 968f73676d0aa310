SPECIFICATION FairSpec
CONSTANTS
    o1 = o1
    o2 = o2
    w1 = w1
    w2 = w2
    Object = {o1, o2}
    Worker = {w1, w2}
    Limits = {1, 2}
    Freed = {o1}
    Late = 1
    MaxIdle = 1
    Up = 1
    Linger = 1
    Down = 2
CHECK_DEADLOCK FALSE
INVARIANTS
    TypeOK KeepAlive FoldedAlone
PROPERTIES
    Served EndsOrStrands
