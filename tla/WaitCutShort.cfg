SPECIFICATION Spec
CONSTANTS
    Request = {r1, r2}
    Proc = {1}
    MaxSession = 1
    Asked <- AskedTimeouts
    DefaultTimeout = 1
    MaxTimeout = 10
    HeaderTimeout = 1
    ResizeTimeout = 1
    SessionTimeout = 1
    AgentFails = FALSE
INVARIANTS
    WaitBlocks
