SPECIFICATION Spec
CONSTANTS
    s1 = s1
    s2 = s2
    n1 = n1
    n2 = n2
    w1 = w1
    w2 = w2
    c1 = c1
    c2 = c2
    NoClaim = NoClaim
    NoOwner = NoOwner
    Orphan = Orphan
    Sagas = {s1}
    StepCount <- TwoSteps
    Instances = {n1, n2}
    Workers = {w1, w2}
    Cancels = {c1}
    Home <- TwoInstances
    Postgres = TRUE
    LockCanBeLost = FALSE
    MaxFaults = 1
CHECK_DEADLOCK FALSE
INVARIANT CompensatedWasAcknowledged
