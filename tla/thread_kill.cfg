SPECIFICATION KillFairSpec
CONSTANTS
    k1 = k1
    k2 = k2
    p1 = p1
    p2 = p2
    Killer = {k1, k2}
    Bare = {k1}
    Poller = {p1, p2}
CHECK_DEADLOCK FALSE
INVARIANT HandsOff
PROPERTIES
    Interrupted PollersEnd
