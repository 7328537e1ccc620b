SPECIFICATION MCSpec
CONSTANTS
    Introspection = {1, 2, 3, 4}
    Table = {t1}
    Term = {g1}
    MaxRestarts = 1
    NoTask = NoTask
INVARIANT TypeOK CountedIsEmbedded SchemaIsNeverLost QuietIntrospectionReplaces QuietJobEmbedsAll
PROPERTY OnlyLostRollbackStrands TasksEnd
CHECK_DEADLOCK FALSE
