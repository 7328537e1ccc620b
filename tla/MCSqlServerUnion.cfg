SPECIFICATION MCSpec
CONSTANTS
    Call = {1, 2, 3}
    Statement <- MCStatement
    MaxRows = 2
    PoolSize = 1
    Pools = 2
    NoPool = 0
INVARIANT SetOperationsAreWhole
CHECK_DEADLOCK FALSE
