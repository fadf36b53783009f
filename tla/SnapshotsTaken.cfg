SPECIFICATION FairSpec
CONSTANTS
    Request = {r1, r2}
    MaxTime = 1
    MaxWrite = 1
    MaxCalls = 3
    Fault <- AllFaults
INVARIANTS
    TypeOK
    NeverLeftPaused
    LoneSnapshotSound
    DeletedLeavesNoData
    RestoredVMWhole
PROPERTIES
    PauseIsShort
