SPECIFICATION Spec
CONSTANTS
    Introspection = {1}
    Table = {t1}
    Term = {g1}
    MaxRestarts = 1
    NoTask = NoTask
PROPERTY NulledRegenerates
CHECK_DEADLOCK FALSE
