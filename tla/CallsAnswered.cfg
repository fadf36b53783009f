SPECIFICATION FairSpec
CONSTANTS
    Request = {r1, r2}
    Proc = {1}
    MaxSession = 2
    Asked <- AskedTimeouts
    DefaultTimeout = 1
    MaxTimeout = 2
    HeaderTimeout = 1
    ResizeTimeout = 1
    SessionTimeout = 1
    AgentFails = TRUE
INVARIANTS
    TypeOK
    ExecBounded
    CreateAnswersNewest
PROPERTIES
    CallsEnd
