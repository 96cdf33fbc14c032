CONSTANTS
    Payload = {p1, p2}
    Zero = Zero
    Capacity = 4
    Batch = 1
    MaxDeposits = 2
    AllowEmptyBatch = FALSE
    RootHistorySize = 2
    MaxClaims = 0
    Requests = {r1, r2, r3}
    Importer = r1
    Kinds <- OneImporter
    MaxCalls = 4
    MaxFails = 0
    NoProof = NoProof
    NoRequest = NoRequest
SPECIFICATION Spec
SYMMETRY Symmetry
INVARIANTS
    GivenForAskedKey
    GivenUnderPrefix
