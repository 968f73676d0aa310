SPECIFICATION FairSpec
CONSTANTS
    a = a
    b = b
    c = c
    t1 = t1
    t2 = t2
    t3 = t3
    Object = {a, b, c}
    Threaded = {a, c}
    Thread = {t1, t2, t3}
    Roles <- PairAndRing
    MaxReg = 3
    MaxDepth = 2
    NoObj = NoObj
    NoThread = NoThread
CHECK_DEADLOCK FALSE
INVARIANT
    EndsAgree
PROPERTIES
    HearsTheEnd ListenReturns
