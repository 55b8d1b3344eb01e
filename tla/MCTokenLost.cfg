SPECIFICATION Spec
CONSTANTS
    dels = dels
    cand = cand
    EntitySeq <- MCEntitySeq
    Sub = dels
    StoreKinds = {"file", "keyvault"}
    CfgStore = "file"
    EnvStore = "file"
    EnvToken = 0
    MaxBatch = 1
    FirstEvents = 1
    MaxEvents = 3
    MaxTokens = 4
    MaxFaults = 0
    MaxLoadFaults = 0
INVARIANT
    RotatedTokenPickedUp
CHECK_DEADLOCK FALSE
