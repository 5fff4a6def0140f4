SPECIFICATION FairSpec
CONSTANTS
    NULL = NULL
    Thresholds = {1, 2}
    PageLimit = 1
    MaxPages = 2
    BlockSize = 2
    Together = 2
    Lookback = 9
    Lag = 1
    Steady = TRUE
    Skew = 0
    Lowers = FALSE
    RpcFaults = TRUE
    CursorFaults = TRUE
    SinkFaults = {"early"}
    MaxCrashes = 1
    Kind = "tron"
    Entries = 4
    Ours = {2, 3}
    BlockTime = 1
    MaxTime = 4
INVARIANTS
    TypeOK
PROPERTIES
    Watches
    TransferIsReported
    ConfirmingCompletes
