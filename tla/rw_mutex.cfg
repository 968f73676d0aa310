SPECIFICATION FairSpec
CONSTANTS
    x = x
    y = y
    z = z
    Client = {x, y, z}
    Disturb = {"event", "leave"}
CHECK_DEADLOCK FALSE
PROPERTIES
    ImplementsRwLock FreeLockTaken
