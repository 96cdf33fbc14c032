CONSTANTS
    Payload = {p1, p2}
    Zero = Zero
    Capacity = 5
    Batch = 2
    MaxDeposits = 3
    AllowEmptyBatch = FALSE
    RootHistorySize = 2
    MaxClaims = 0
    Requests = {r1}
    Kinds <- QueryAndUpdate
    MaxCalls = 3
    MaxFails = 2
    NoProof = NoProof
    NoRequest = NoRequest
SPECIFICATION Spec
SYMMETRY Symmetry
INVARIANTS
    RowsExact
    FreshProofAccepted
PROPERTY
    TreeDocMonotone
