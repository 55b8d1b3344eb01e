SPECIFICATION FairSpec
CONSTANTS
    big = big
    small = small
    orders = orders
    items = items
    Tables <- MCTables
    LateTables = {items}
    Keyless = {}
    Txs <- MCTxs
    Wals <- MCWals
    Chunk = 1
    Threshold = 2
    Capacity = 2
    MaxCrashes = 1
INVARIANTS
    TypeOK
    NothingSkipped
    TokenCoversEmitted
    AbortedNeverEmitted
PROPERTIES
    RowsArrive
    SlotCatchesUp
CHECK_DEADLOCK FALSE
