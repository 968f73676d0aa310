SPECIFICATION FairSpec
CONSTANTS
    x = x
    y = y
    z = z
    Client = {x, y, z}
    Kinds = {"sem", "limit"}
    Limits = {1, 2, 3}
    Priority <- Priorities
    MaxKey = 9
    Disturb = {"event", "leave"}
CHECK_DEADLOCK FALSE
INVARIANT NoLostPermit
PROPERTIES
    GrantsWithinLimit WakesInTurn PermitsTaken
