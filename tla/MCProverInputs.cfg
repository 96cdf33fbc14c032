SPECIFICATION Spec
CONSTANTS
    Base = 3
    HashDigits = 4
    Hashes <- FewHashes
    Heights <- FewHeights
    Numbers <- FewNumbers
    Paths <- FewPaths
    Depth = 2
    Signatures = {27}
    Absent = Absent
    Times <- FewTimes
    MaxSafe = 64
    ChunkBase = 5
    Points <- FewPoints
    Prime = 1000003
    N32 = 2
    BodySize = 5
    AuthSize = 2
    SigSize = 2
    Bodies = {4, 5, 6}
    Auths = {1, 2, 3}
    MaxTxs = 6
    Holds <- FewHold
INVARIANTS
    PointsArrive
    FileReadsBack
    SentIsMeant
    FailsForKnownReason
