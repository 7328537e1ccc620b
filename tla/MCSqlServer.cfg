SPECIFICATION MCSpec
CONSTANTS
    Call = {1, 2, 3}
    Statement <- MCStatement
    MaxRows = 2
    PoolSize = 1
    Pools = 2
    NoPool = 0
INVARIANT ResultsAreWhole
PROPERTY CallsEnd
CHECK_DEADLOCK FALSE
