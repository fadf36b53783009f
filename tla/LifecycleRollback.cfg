SPECIFICATION FairSpec
CONSTANTS
    Sandbox = {s1}
    IP = {a1}
    NoIP = NoIP
    Deleter = {d1, d2}
    Fault <- AnyFault
    SessionExec = FALSE
    HealthEnabled = TRUE
    MaxRestart = 0
INVARIANTS
    TypeOK
    NothingLeftBehind
    DeletedStaysDeleted
PROPERTIES
    CreateEnds
    DeadBecomesStopped
CHECK_DEADLOCK FALSE
