SPECIFICATION FairSpec
CONSTANTS
    p = p
    s = s
    t = t
    None = None
    Nodes = {p, s, t}
    Primary = p
    InitLogId = 3
    Chunk = 0
    ElectAt = 2
    MayElect = FALSE
    MayLose = FALSE
    MayCrash = FALSE
    MayFail = FALSE
    MaxLogId = 5
    MaxTs = 5

PROPERTY SlaveCatchesUp
