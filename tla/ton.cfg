SPECIFICATION FairSpec
CONSTANTS
    NULL = NULL
    Thresholds = {1, 2}
    PageLimit = 1
    MaxPages = 2
    BlockSize = 2
    Together = 1
    Lookback = 9
    Lag = 1
    Steady = FALSE
    Skew = 1
    Lowers = TRUE
    RpcFaults = TRUE
    CursorFaults = TRUE
    SinkFaults = {"early"}
    MaxCrashes = 1
    Kind = "ton"
    Entries = 2
    Ours = {2}
    BlockTime = 2
    MaxTime = 5
PROPERTIES
    LoneTransferIsReported
    ConfirmingCompletes
