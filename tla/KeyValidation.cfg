SPECIFICATION Spec
CONSTANTS
    Key = {k1}
    NoKey = NoKey
    Request = {r1, r2, r3}
    TTL = 2
    MaxLatency = 1
    Never = Never
    MaxTime = 5
    MaxRestart = 1
SYMMETRY Symmetry
INVARIANTS
    TypeOK
    RevokedKeyExpires
    LiveKeyAccepted
