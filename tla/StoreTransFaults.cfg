SPECIFICATION Spec
CONSTANTS
    w1 = w1
    w2 = w2
    assoc = assoc
    uniq = uniq
    mail = mail
    a = a
    b = b
    s1 = s1
    Absent = Absent
    Workers = {w1, w2}
    Keys = {assoc, uniq, mail}
    Vals = {a, b}
    Assocs = {assoc}
    Opaque = {uniq}
    Batches <- AllBatches
    Slaves = {s1}
    MayFail = TRUE
    MayCrash = TRUE
    UsesLocal = TRUE
    MaxLogId = 4
INVARIANTS
    TypeOK
    WriteAhead
    PushedIsLogged
PROPERTIES
    LogImmutable
    GapsAreAbandoned
