SPECIFICATION Spec
CONSTANTS
    r1 = r1  r2 = r2  r3 = r3  a1 = a1  a2 = a2
    ordersLimiter = ordersLimiter  publicLimiter = publicLimiter
    Request = {r1, r2, r3}
    Address = {a1, a2}
    Limiter = {ordersLimiter, publicLimiter}
    Guarded = {ordersLimiter}
    Window = 2
    NULL = NULL
    RedisFaults = TRUE
    MaxTime = 4
    Limit <- OneAndTwo
SYMMETRY RequestSymmetry
INVARIANTS
    AdmittedWithinLimit
    CountersExpire
\* Every request is made once.
CHECK_DEADLOCK FALSE
