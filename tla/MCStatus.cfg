CONSTANTS
    Payload = {p1, p2}
    Zero = Zero
    Capacity = 4
    Batch = 1
    MaxDeposits = 2
    AllowEmptyBatch = FALSE
    RootHistorySize = 2
    MaxClaims = 2
    Requests = {r1}
    Kinds <- QueryAndUpdate
    MaxCalls = 2
    MaxFails = 1
    NoProof = NoProof
    NoRequest = NoRequest
SPECIFICATION StatusSpec
SYMMETRY Symmetry
INVARIANTS
    ToldIsTrue
PROPERTY
    StatusNeverGoesBack
