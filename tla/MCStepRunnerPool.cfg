SPECIFICATION LiveSpec
CONSTANTS
    Workers = {w1, w2}
    MaxClaims = 7
INVARIANTS
    TypeOK
    NothingStranded
    NoSendOnClosedResults
PROPERTY
    RunEnds
