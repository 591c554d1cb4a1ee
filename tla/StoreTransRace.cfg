SPECIFICATION Spec
CONSTANTS
    w1 = w1
    w2 = w2
    assoc = assoc
    uniq = uniq
    mail = mail
    a = a
    b = b
    s1 = s1
    Absent = Absent
    Workers = {w1, w2}
    Keys = {assoc, uniq, mail}
    Vals = {a, b}
    Assocs = {assoc}
    Opaque = {}
    Batches <- TwoValues
    Slaves = {s1}
    MayFail = FALSE
    MayCrash = FALSE
    UsesLocal = FALSE
    MaxLogId = 4
INVARIANTS
    DataIsReplay

