SPECIFICATION FairSpec
CONSTANTS
    p = p
    s = s
    t = t
    r1 = r1
    None = None
    Nodes = {p, s, t}
    Primary = p
    Reqs = {r1}
    Threads = 1
    Mortal = {p}
    Flaky = {t}
INVARIANTS
    TypeOK
    TablesAreTrue
    FollowsAMaster
PROPERTIES
    ImplementsClientCalls
    NothingHangs
CHECK_DEADLOCK FALSE
