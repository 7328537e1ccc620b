SPECIFICATION MCSpec
CONSTANTS
    ConnId = {i1}
    Request = {1, 2, 3}
    Connector = {c1, c2, c3}
    MaxUses = 2
    NoConnector = NoConnector
    NoRequest = NoRequest
INVARIANT UpdateInvalidates
