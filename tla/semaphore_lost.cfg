SPECIFICATION Spec
CONSTANTS
    x = x
    y = y
    z = z
    Client = {x, y, z}
    Kinds = {"sem"}
    Limits = {1, 2, 3}
    Priority <- Priorities
    MaxKey = 9
    Disturb = {"event"}
CHECK_DEADLOCK FALSE
INVARIANT ReleaseRestarts
