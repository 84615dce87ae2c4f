SPECIFICATION Spec
CONSTANTS
    MTU = 2
    CWND = 2
    MODULUS = 64
    FirstSeq = 1
    Writes <- AnyWrites
    StreamBytes = 7
    Stale = 8
    MaxCuts = 1
    EarlyAcks = TRUE
INVARIANTS
    TypeOK
    InFlightAccounting
    PermitsCoverBatch
    SocketInvariant
    WindowBound
    CountsOnlyDelivered
    DeliveryInvariant
PROPERTIES
    ImplementsWindow
