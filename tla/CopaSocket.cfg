SPECIFICATION Spec
CONSTANTS
    MTU = 2
    MODULUS = 22
    FirstSeq = 16
    Writes <- OddWrites
    StreamBytes = 15
    Probes = 3
    Targets = {2, 9}
    Steps = {0, 4}
    MaxWindow = 4
    Stale = 3
    EarlyAcks = TRUE
INVARIANTS
    TypeOK
    LeftoversExact
    CountsOnlyDelivered
    SamplesTimely
    NeverShut
    CopaInvariant
PROPERTIES
    ImplementsWindow
