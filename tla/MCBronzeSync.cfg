SPECIFICATION SyncFairSpec
CONSTANTS
    r1 = r1
    cand = cand
    Runners = {r1}
    NoLock = NoLock
    EntitySeq <- MCOne
    Critical = {cand}
    Selections <- MCSelOne
    MonthLen = 100
    HourLen = 1
    Limit = 1
    FracNum = 1
    FracDen = 1
    MaxTime = 4
    MaxCalls = 0
    MaxFaults = 1
    QueryTables = {}
    Daily = {cand}
    Overlap = 1
    SecondLen = 2
    MaxLag = 1
    ReplicaLag = 1
    DayLen = 2
    AllowReseed = FALSE
INVARIANTS
    SyncTypeOK
    NoGap
PROPERTIES
    ChangeReachesBronze
    EveryRunEnds
CHECK_DEADLOCK FALSE
