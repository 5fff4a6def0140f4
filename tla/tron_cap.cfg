SPECIFICATION FairSpec
CONSTANTS
    NULL = NULL
    Thresholds = {2}
    PageLimit = 1
    MaxPages = 2
    BlockSize = 2
    Together = 1
    Lookback = 9
    Lag = 0
    Steady = TRUE
    Skew = 0
    Lowers = FALSE
    RpcFaults = FALSE
    CursorFaults = FALSE
    SinkFaults = {}
    MaxCrashes = 0
    Kind = "tron"
    Entries = 3
    Ours = {1, 3}
    BlockTime = 1
    MaxTime = 4
PROPERTIES
    TransferIsReported
