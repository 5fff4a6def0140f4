SPECIFICATION FairSpec
CONSTANTS
    Chain = {"a", "b"}
    OnByDefault = {"a"}
    Focus = "a"
    Failing = {"b"}
    Clients = {"evm", "indexer"}
    Endpoints = 2
    MaxAttempts = 2
INVARIANTS
    TypeOK
    ReadyBeforeServing
    PoolOutlivesUsers
    ExhaustedEndpoints
    CancelIsPrompt
PROPERTIES
    ShutsDown
    SiblingsKeepPolling
\* The process ends.
CHECK_DEADLOCK FALSE
