CONSTANTS
    CosmosTokens = {c1, c2}
    EthTokens = {e1, e2}
    Symbols = {s1}
    None = None
    Requests = {r1, r2}
    DocIds = {d1}
    MaxFails = 1
    MaxRemovals = 1
SPECIFICATION Spec
CHECK_DEADLOCK FALSE
PROPERTY
    PairIsAdded
