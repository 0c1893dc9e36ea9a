SPECIFICATION Spec
CONSTANTS
    a1 = a1
    a2 = a2
    b1 = b1
    Procs <- MCProcs
    Owners <- MCOwners
    OwnerOf <- MCOwnerOf
    NoOwner = NoOwner
    NoProc = NoProc
    Times <- MCTimes
    TTL = 1
    MaxFence = 3
    MaxWrites = 2
    MaxRejected = 1
SYMMETRY MCSymmetry
INVARIANTS
    TypeOK
    TokensUnique
    LedgerOrdered
    HighWaterMark
    OwnershipGapless
    AuditTrail
PROPERTY
    ImplementsFencedLog
CHECK_DEADLOCK FALSE
