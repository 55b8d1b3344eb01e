SPECIFICATION FairSpec
CONSTANTS
    orders = orders
    events = events
    Tables <- MCTables
    Keyless = {events}
    Logs <- MCLogs
    FlushRecords = 2
    ChanSize = 2
    MaxFaults = 2
INVARIANTS
    TypeOK
    ResumeRestores
    DoubledOnlyIfLoose
    StopLeavesNothing
PROPERTIES
    TablesFollowLog
CHECK_DEADLOCK FALSE
