SPECIFICATION GSpec
CONSTANTS
    o1 = o1  o2 = o2  t1 = t1  t2 = t2  h1 = h1  c1 = c1  A = A
    NULL = NULL
    Sweeper = Sweeper
    Order = {o1}
    Tx = {t1}
    Chain = {A}
    Handler = {h1}
    Creator = {c1}
    Watched = A
    Worker = h1
    BaseAmounts = {10}
    MinOrder = 1
    MaxOrder = 20
    OffsetMin = 1
    OffsetMax = 1
    MaxRetries = 1
    Expiry = 0
    Tolerance = 1
    MaxGapPercent = 50
    MaxConfirmations = 0
    MaxTime = 1
    StatementFaults = TRUE
    AuditFaults = FALSE
    BatchBlocks = 1
    Lookback = 5
    Lag = 0
    ReorgDepth = 0
    RpcFaults = FALSE
    CursorFaults = FALSE
    MaxHead = 3
    MaxCrashes = 0
    Required <- RequiredTwo
    TxChain <- OneTxChain
    HandlerChain <- OneHandler
    TxAmount <- ExactAmount
INVARIANTS
    ConfirmingIsPending
