SPECIFICATION Spec
CONSTANTS
    big = big
    small = small
    orders = orders
    items = items
    Tables <- MCTables
    LateTables = {items}
    Keyless = {items}
    Txs <- MCTxs
    Wals <- MCWals
    Chunk = 1
    Threshold = 2
    Capacity = 2
    MaxCrashes = 1
INVARIANT
    NothingSkipped
CHECK_DEADLOCK FALSE
