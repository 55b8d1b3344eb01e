SPECIFICATION Spec
CONSTANTS
    r1 = r1
    r2 = r2
    cand = cand
    note = note
    Runners = {r1, r2}
    NoLock = NoLock
    EntitySeq <- MCEntitySeq
    Critical <- MCCritical
    Selections <- MCSelections
    MonthLen = 2
    HourLen = 1
    Limit = 1
    FracNum = 1
    FracDen = 1
    MaxTime = 2
    MaxCalls = 1
    MaxFaults = 1
SYMMETRY MCSymmetry
INVARIANTS
    TypeOK
    OneRunAtATime
    WatermarkNeverAhead
    CallsCountedOnce
    ExitCodeHonest
CHECK_DEADLOCK FALSE
