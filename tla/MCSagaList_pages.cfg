SPECIFICATION Spec
CONSTANTS
    Ids = {1, 2}
    Times = {2, 3, 4}
    Microsecond = 2
    Statuses = {"CREATED", "RUNNING"}
    defaultPageLimit = 2
    maxPageLimit = 3
    MaxInt32 = 3
    MaxSagaContextBytes = 13
    Contexts = {1, 2}
    Limits <- LimitRange
    Offsets <- OffsetRange
CHECK_DEADLOCK FALSE
INVARIANTS
    TypeOK
    WalkMissesNothing
    PagesMatch
