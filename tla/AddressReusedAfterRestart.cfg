SPECIFICATION Spec
CONSTANTS
    Sandbox = {s1, s2}
    IP = {a1, a2}
    NoIP = NoIP
    Deleter = {d1}
    Fault = {}
    SessionExec = FALSE
    HealthEnabled = FALSE
    MaxRestart = 1
INVARIANTS
    UniqueStoredIP
SYMMETRY Symmetry
CHECK_DEADLOCK FALSE
