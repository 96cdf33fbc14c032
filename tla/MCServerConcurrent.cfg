CONSTANTS
    Payload = {p1, p2}
    Zero = Zero
    Capacity = 5
    Batch = 2
    MaxDeposits = 3
    AllowEmptyBatch = TRUE
    RootHistorySize = 2
    MaxClaims = 2
    Requests = {r1, r2}
    Kinds <- UpdateAndDelete
    MaxCalls = 2
    MaxFails = 1
    NoProof = NoProof
    NoRequest = NoRequest
SPECIFICATION Spec
SYMMETRY Symmetry
INVARIANTS
    TypeOK
    EthRootsAreCosmosRoots
    ClaimsBacked
    RowsMatchChain
    TreeDocNeverAhead
PROPERTY
    RelaysItsOwnRoot
    ImplementsBridge
