CONSTANTS
    Payload = {p1, p2}
    p1 = p1
    Zero = Zero
    Capacity = 5
    Batch = 2
    MaxDeposits = 3
    AllowEmptyBatch = FALSE
    RootHistorySize = 2
    MaxClaims = 2
    Shipped <- OneShipped
    MaxServerUpdates = 1
    NoProof = NoProof
CHECK_DEADLOCK FALSE
SPECIFICATION Spec
INVARIANTS
    TypeOK
    PaidWasDeposited
    CurrentFilesProve
PROPERTY
    RightFilesStay
