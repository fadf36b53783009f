SPECIFICATION FairSpec
CONSTANTS
    Kind <- AllKinds
    MaxMsg = 3
    Window = 1
INVARIANTS
    TypeOK
    InOrder
    HonestEnd
    LastOutputArrives
PROPERTIES
    BothGoneEnds
    RequestStreamEnds
    StreamContractKept
CHECK_DEADLOCK FALSE
