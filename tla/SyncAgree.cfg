SPECIFICATION Spec
CONSTANTS
    p = p
    s = s
    t = t
    None = None
    Nodes = {p, s, t}
    Primary = p
    InitLogId = 3
    Chunk = 2
    ElectAt = 2
    MayElect = TRUE
    MayLose = TRUE
    MayCrash = TRUE
    MayFail = TRUE
    MaxLogId = 5
    MaxTs = 5
SYMMETRY SlaveSymmetry
INVARIANTS
    TypeOK
    LogAgreement
    SlaveNotAhead
    SlaveHasNoGap
PROPERTIES
    LogImmutable
    ImplementsReplicatedLog
