SPECIFICATION Spec
CONSTANTS
    o1 = o1  o2 = o2  t1 = t1  t2 = t2  h1 = h1  h2 = h2  c1 = c1  c2 = c2  A = A  B = B
    NULL = NULL
    Sweeper = Sweeper
    Order = {o1, o2}
    Tx = {t1, t2}
    Chain = {A}
    Handler = {h1}
    Creator = {c1}
    BaseAmounts = {10}
    MinOrder = 1
    MaxOrder = 20
    OffsetMin = 1
    OffsetMax = 2
    MaxRetries = 2
    Expiry = 1
    Tolerance = 1
    MaxGapPercent = 50
    MaxConfirmations = 2
    MaxTime = 2
    StatementFaults = FALSE
    AuditFaults = FALSE
    Required <- RequiredTwo
    TxChain <- OnChainA
    HandlerChain <- ServesA
    TxAmount <- MatchTwice
SYMMETRY OrderSymmetry
PROPERTIES
    AmountIdentifiesOrder
