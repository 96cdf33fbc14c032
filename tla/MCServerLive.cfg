CONSTANTS
    Payload = {p1, p2}
    Zero = Zero
    Capacity = 3
    Batch = 1
    MaxDeposits = 2
    AllowEmptyBatch = TRUE
    RootHistorySize = 2
    MaxClaims = 0
    Requests = {r1}
    Kinds <- OnlyUpdate
    MaxCalls = 9
    MaxFails = 2
    NoProof = NoProof
    NoRequest = NoRequest
SPECIFICATION FairSpec
PROPERTY
    EventuallyBridged
