SPECIFICATION LiveSpec
CONSTANTS
    p1 = p1
    p2 = p2
    Nobody = Nobody
    Orphan = Orphan
    Procs = {p1}
    HasDeadline = {}
    TTL = 6
    Latency = 1
    RetryInterval = 1
PROPERTIES
    WithSagaLockReturns
