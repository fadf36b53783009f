SPECIFICATION Spec
CONSTANTS
    Sandbox = {s1, s2}
    IP = {a1, a2}
    NoIP = NoIP
    Deleter = {d1}
    Fault = {"insertlost"}
    SessionExec = TRUE
    HealthEnabled = FALSE
    MaxRestart = 1
INVARIANTS
    UniqueIPInEpoch
    NothingLeftBehind
    DeletedStaysDeleted
PROPERTIES
    ContractKept
SYMMETRY Symmetry
CHECK_DEADLOCK FALSE
