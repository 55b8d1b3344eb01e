SPECIFICATION ReconcileSpec
CONSTANTS
    dels = dels
    cand = cand
    EntitySeq <- MCEntitySeq
    Sub = dels
    StoreKinds = {"file", "keyvault"}
    CfgStore = "keyvault"
    EnvStore = "file"
    EnvToken = 0
    MaxBatch = 1
    FirstEvents = 1
    PageSize = 1
    MaxRecords = 3
    MaxEvents = 3
    MaxTokens = 4
    MaxFaults = 0
    MaxLoadFaults = 1
INVARIANT
    MissedDeletesRecorded
CHECK_DEADLOCK FALSE
