SPECIFICATION Spec
CONSTANTS
    w1 = w1
    w2 = w2
    k1 = k1
    k2 = k2
    v1 = v1
    v2 = v2
    Workers = {w1, w2}
    Keys = {k1, k2}
    Vals = {v1}
    MayCrash = TRUE
    MayPromote = TRUE
    MaxId = 5
INVARIANTS
    TypeOK
    SecondaryKeysSound
    RowsAreIndexed

