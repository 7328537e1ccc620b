SPECIFICATION Spec
CONSTANTS
    Entry = {e1, e2, e3}
    Request = {r1, r2, r3}
    Startup = startup
    NoTask = NoTask
    NoEntry = NoEntry
INVARIANT CatalogServes
PROPERTY RequestsEnd
CHECK_DEADLOCK FALSE
