SPECIFICATION FairSpec
CONSTANTS
    p1 = p1
    p2 = p2
    Procs = {p1, p2}
    Kinds = {TRUE, FALSE}
    MaxPos = 2
    PruneThreshold = 2
    MaxAttempts = 2
    MaxFaults = 1
    MaxReplacements = 1
INVARIANTS
    TypeOK
    ResumeSafe
PROPERTIES
    OvertakenRunIsInert
    PruneKeepsAnswer
    Converges
CHECK_DEADLOCK FALSE
