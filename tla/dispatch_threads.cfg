SPECIFICATION Spec
CONSTANTS
    a = a
    b = b
    ini = ini
    act = act
    thr = thr
    zom = zom
    Obj = {a}
    Caller = {main, gc}
    Worker = {w1, w2}
    TsState = {ini, act}
    TsThread = {thr}
    Ini = ini
    Zom = zom
    Moves <- Classes
    Asks = {"call", "destroy", "later", "ref"}
    Once = {TSE_WAKEUP}
    Many = {}
    DepthCap = 2
    MaxDepth = 3
    QueCap = 1
    GcCap = 1
    Torn = FALSE
    NoObj = NoObj
    NoThread = NoThread
CHECK_DEADLOCK FALSE
SYMMETRY Threads
INVARIANTS
    SingleRunner NoStrandedEvent RunsWhereItShould
    OneClaim NotifiedLast
PROPERTY
    ServesSerially
