SPECIFICATION Spec
CONSTANTS
    c1 = c1
    c2 = c2
    c3 = c3
    Calls = {c1, c2, c3}
    Transport <- OneOfEach
    Keys = {k1}
    NoKey = NoKey
    Payloads = {a, b}
    Invalid = Invalid
    StepCount <- OneStep
SYMMETRY Alike
CHECK_DEADLOCK FALSE
INVARIANTS
    TypeOK
    KeyStartsOneSaga
    StartedSagaIsFound
    AcceptedCancelSticks
    RefusedChangesNothing
