SPECIFICATION FairSpec
CONSTANTS
    Sandbox = {s1, s2}
    Caller = {c1}
    Concurrency = 1
INVARIANTS
    TypeOK
    TotalIsSum
    SeriesGoWithSandbox
PROPERTY EachIsReported
