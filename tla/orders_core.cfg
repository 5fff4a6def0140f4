SPECIFICATION Spec
CONSTANTS
    o1 = o1  o2 = o2  t1 = t1  t2 = t2  h1 = h1  h2 = h2  c1 = c1  c2 = c2  A = A  B = B
    NULL = NULL
    Sweeper = Sweeper
    Order = {o1, o2}
    Tx = {t1, t2}
    Chain = {A, B}
    Handler = {h1}
    Creator = {c1}
    BaseAmounts = {10}
    MinOrder = 1
    MaxOrder = 20
    OffsetMin = 1
    OffsetMax = 2
    MaxRetries = 1
    Expiry = 0
    Tolerance = 0
    MaxGapPercent = 30
    MaxConfirmations = 2
    MaxTime = 1
    StatementFaults = TRUE
    AuditFaults = FALSE
    Required <- RequiredTwo
    TxChain <- OnChainA
    HandlerChain <- ServesA
    TxAmount <- MatchAndShort
SYMMETRY OrderSymmetry
INVARIANTS
    TypeOK
    CreditSound
    ShortfallSound
    ConfirmedAtThreshold
    UnpaidHoldNothing
    ReviewNamesOrder
    
PROPERTIES
    FinalRowsFrozen
    ProgressNeverRegresses
    AmountIdentifiesOrder
    Settles
