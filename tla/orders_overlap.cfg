SPECIFICATION Spec
CONSTANTS
    o1 = o1  o2 = o2  t1 = t1  t2 = t2  h1 = h1  h2 = h2  c1 = c1  c2 = c2  A = A  B = B
    NULL = NULL
    Sweeper = Sweeper
    Order = {o1, o2}
    Tx = {t1}
    Chain = {A}
    Handler = {h1, h2}
    Creator = {c1, c2}
    BaseAmounts = {10}
    MinOrder = 1
    MaxOrder = 20
    OffsetMin = 1
    OffsetMax = 4
    MaxRetries = 2
    Expiry = 1
    Tolerance = 0
    MaxGapPercent = 20
    MaxConfirmations = 0
    MaxTime = 2
    StatementFaults = TRUE
    AuditFaults = FALSE
    Required <- RequiredTwo
    TxChain <- OnChainA
    HandlerChain <- ServesA
    TxAmount <- OneAmount
SYMMETRY ActorSymmetry
INVARIANTS
    TxClaimedOnce
    PendingAmountsDistinct
    LocksBelongToTransactions
PROPERTIES
    UnderpaysClosest
