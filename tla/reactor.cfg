SPECIFICATION FairSpec
CONSTANTS
    a = a
    b = b
    f = f
    Obj = {a, b}
    Channel = {f}
    MaxTime = 1
    MaxReg = 2
    MaxRefio = 1
CHECK_DEADLOCK FALSE
INVARIANTS
    TypeOK SleepsForAll
PROPERTIES
    TellsWhatItTakes ReturnsWhenDone Answered
