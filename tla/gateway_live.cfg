SPECIFICATION GFairSpec
CONSTANTS
    o1 = o1  o2 = o2  t1 = t1  t2 = t2  h1 = h1  c1 = c1  A = A
    NULL = NULL
    Sweeper = Sweeper
    Order = {o1}
    Tx = {t1}
    Chain = {A}
    Handler = {h1}
    Creator = {c1}
    Watched = A
    Worker = h1
    BaseAmounts = {10}
    MinOrder = 1
    MaxOrder = 20
    OffsetMin = 1
    OffsetMax = 1
    MaxRetries = 1
    Expiry = 1
    Tolerance = 1
    MaxGapPercent = 50
    MaxConfirmations = 0
    MaxTime = 2
    StatementFaults = FALSE
    AuditFaults = FALSE
    BatchBlocks = 1
    Lookback = 5
    Lag = 0
    ReorgDepth = 0
    RpcFaults = TRUE
    CursorFaults = FALSE
    MaxHead = 3
    MaxCrashes = 1
    Required <- RequiredTwo
    TxChain <- OneTxChain
    HandlerChain <- OneHandler
    TxAmount <- ExactAmount
PROPERTIES
    Watches
    TransferIsAccounted
    ConfirmingCompletes
    PastDueLeavesPending
