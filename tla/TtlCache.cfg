SPECIFICATION Spec
CONSTANTS
    Keys = {k1, k2}
    NoKey = NoKey
    Readers = {r1, r2}
    Writers = {w1}
    Generational = TRUE
    CacheMisses = FALSE
    Ttl = 1
    MaxEntries = 1
    MaxAge = 1
    MaxWrites = 1
SYMMETRY Symmetry
INVARIANTS TypeOK ForgetIsFinal StaleBounded WithinBound
