SPECIFICATION Spec
CONSTANTS
    a = a
    b = b
    ini = ini
    act = act
    thr = thr
    zom = zom
    Obj = {a}
    Caller = {main}
    Worker = {w1}
    TsState = {ini, act}
    TsThread = {thr}
    Ini = ini
    Zom = zom
    Moves <- Classes
    Asks = {"call"}
    Once = {TSE_WAKEUP}
    Many = {}
    DepthCap = 2
    MaxDepth = 3
    QueCap = 1
    GcCap = 1
    Torn = TRUE
    NoObj = NoObj
    NoThread = NoThread
CHECK_DEADLOCK FALSE
INVARIANT SingleRunner
