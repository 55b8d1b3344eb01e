SPECIFICATION ReconcileSpec
CONSTANTS
    dels = dels
    cand = cand
    EntitySeq <- MCEntitySeq
    Sub = dels
    StoreKinds = {"file", "keyvault"}
    CfgStore = "keyvault"
    EnvStore = "file"
    EnvToken = 0
    MaxBatch = 1
    FirstEvents = 1
    PageSize = 2
    MaxRecords = 5
    MaxEvents = 3
    MaxTokens = 4
    MaxFaults = 3
    MaxLoadFaults = 1
INVARIANTS
    ReconcileTypeOK
    TokenDurableBeforeUse
    CrashLosesNoEvent
    GapsAreFound
CHECK_DEADLOCK FALSE
