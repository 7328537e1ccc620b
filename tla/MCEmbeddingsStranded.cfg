SPECIFICATION Spec
CONSTANTS
    Introspection = {1}
    Table = {t1}
    Term = {g1}
    MaxRestarts = 0
    NoTask = NoTask
PROPERTY BannerHides
CHECK_DEADLOCK FALSE
