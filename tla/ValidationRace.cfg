SPECIFICATION Spec
CONSTANTS
    w1 = w1
    w2 = w2
    k1 = k1
    k2 = k2
    Workers = {w1, w2}
    Keys = {k1, k2}
    Attempts = {1, 2}
    Lifetime = 1
    Word = 16
    MaxTime = 2
    MaxId = 3
INVARIANTS
    TypeOK
    LatestMailWorks
    ValidationIsEarned
    SessionsCanBeValidated
PROPERTIES
    ValidatedStays
    ExpiredIsExpired
SYMMETRY Symmetry
VIEW AllButAnswers
