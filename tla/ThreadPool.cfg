SPECIFICATION FairSpec
CONSTANTS
    r = r
    q = q
    k1 = k1
    k2 = k2
    k3 = k3
    w1 = w1
    w2 = w2
    None = None
    Threads = {w1, w2}
    Tasks <- MCTasks
    Kids <- MCKids
    Roots = {r, q}
    ArraySize = 1
INVARIANTS
    TypeOK
    JoinedIsDrained
    PublicTaskIsSeen
PROPERTIES
    ImplementsWorkPool
    TasksEnd
    ShutdownJoins
CHECK_DEADLOCK FALSE
