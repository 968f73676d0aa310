SPECIFICATION FairSpec
CONSTANTS
    x = x
    y = y
    z = z
    t1 = t1
    t2 = t2
    Object = {x, y, z}
    Thread = {t1, t2}
    Member <- Members
    Armed = {x, z}
    Buckets = 5
    Home <- Homes
CHECK_DEADLOCK FALSE
INVARIANTS
    CountsHandles WorkIsKnown
PROPERTIES
    Reclaimed SleepersReturn
