SPECIFICATION Spec
CONSTANTS
    MAX = 5
    MTU = 2
    Requests <- FittingRequests
    TotalBytes = 14
INVARIANTS
    TypeOK
    NothingLost
    ChunkInOrder
    ClampIsSafe
    QueueInvariant
PROPERTIES
    ImplementsFifo
