SPECIFICATION FairSpec
CONSTANTS
    p = p
    s = s
    t = t
    None = None
    Nodes = {p, s}
    Primary = p
    InitLogId = 3
    Chunk = 0
    ElectAt = 2
    MayElect = FALSE
    MayLose = FALSE
    MayCrash = FALSE
    MayFail = FALSE
    MaxLogId = 4
    MaxTs = 4

PROPERTY SlaveServes
CHECK_DEADLOCK FALSE
