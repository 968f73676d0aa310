SPECIFICATION FairSpec
CONSTANTS
    j1 = j1
    j2 = j2
    j3 = j3
    j4 = j4
    j5 = j5
    Job = {j1, j2, j3, j4, j5}
    NoJob = NoJob
    Caller = {s, u, g}
    Locked = {s}
    Late = {g}
    Priority <- Mixed
    Budgets = {0}
    MaxSpent = 1
CHECK_DEADLOCK FALSE
INVARIANT TypeOK
PROPERTIES
    ImplementsJobQueue DeliveredAtLast LoopGetsItsTurn GcEnds
