SPECIFICATION Spec
CONSTANTS
    p1 = p1
    p2 = p2
    Nobody = Nobody
    Orphan = Orphan
    Procs = {p1, p2}
    HasDeadline = {p2}
    TTL = 6
    Latency = 1
    RetryInterval = 1
INVARIANTS
    TypeOK
    HolderKeepsKey
    UnawareIsBounded
    ContentionIsNoError
    ContendedMeansHeld
PROPERTY
    ImplementsLock
