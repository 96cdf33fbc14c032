CONSTANTS
    Payload = {p1, p2}
    Zero = Zero
    Capacity = 4
    Batch = 2
    MaxDeposits = 2
    AllowEmptyBatch = FALSE
    RootHistorySize = 2
    MaxClaims = 0
    Requests = {r1, r2}
    Importer = r1
    Kinds <- TwoImporters
    MaxCalls = 2
    MaxFails = 0
    NoProof = NoProof
    NoRequest = NoRequest
SPECIFICATION Spec
SYMMETRY Symmetry
INVARIANTS
    GivenBacked
