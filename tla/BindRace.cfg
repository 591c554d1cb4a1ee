SPECIFICATION Spec
CONSTANTS
    w1 = w1
    w2 = w2
    m1 = m1
    m2 = m2
    Workers = {w1, w2}
    Addrs <- TwoAddrs
    Mxids = {m1, m2}
    Begins <- Prefixed
    Rank <- LongerFirst
    Opaque = {1}
    MaxId = 7
INVARIANTS
    TypeOK
    PairsAgree
    InvitesWaitForBind
    LookupsAgree
    InviteDelivered
