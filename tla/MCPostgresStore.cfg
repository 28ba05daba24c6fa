SPECIFICATION Spec
CONSTANTS
    Conns = {c1, c2, c3}
    N = 2
    MaxAttempts = 2
SYMMETRY AnyConn
CHECK_DEADLOCK FALSE
INVARIANTS
    TypeOK
    RowsAgree
    ReadsAreConsistent
PROPERTIES
    AttemptsOnlyGrow
    ImplementsLifecycle
