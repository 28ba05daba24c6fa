SPECIFICATION LiveSpec
CONSTANTS
    GrpcCalls = {g1}
    HttpCalls = {h1, h2}
    Workers = {w1, w2}
CHECK_DEADLOCK FALSE
INVARIANTS
    TypeOK
    IngressEndsBeforeRunner
    StopReleasesLocks
PROPERTIES
    ProcessExits
