SPECIFICATION Spec
CONSTANTS
    Introspection = {1}
    Table = {t1, t2}
    Term = {g1}
    MaxRestarts = 0
    NoTask = NoTask
INVARIANT IntrospectedIsEmbedded
CHECK_DEADLOCK FALSE
