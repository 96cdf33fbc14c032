CONSTANTS
    Payload = {p1, p2}
    Zero = Zero
    Capacity = 5
    Batch = 2
    MaxDeposits = 3
    AllowEmptyBatch = FALSE
    RootHistorySize = 2
    MaxClaims = 0
    Requests = {r1}
    Kinds <- QueryAndUpdate
    MaxCalls = 1
    MaxFails = 0
    NoProof = NoProof
    NoRequest = NoRequest
SPECIFICATION Spec
SYMMETRY Symmetry
INVARIANT
    StatusFollowsRoot
