SPECIFICATION FairSpec
CONSTANTS
    a = a
    m = m
    n = n
    e = e
    f = f
    k1 = k1
    k2 = k2
    Writers = {a, m, n, e, f}
    Kind <- MCKind
    KeysOf <- MCKeys
    MaxAttempts = 3
    Groups <- MCGroups
    MaxFaults = 2
INVARIANTS
    TypeOK
    Contiguous
    NoDanglingFile
    UniqueKeys
    NoRowTwice
PROPERTIES
    ImplementsTable
    EveryWriteEnds
CHECK_DEADLOCK FALSE
