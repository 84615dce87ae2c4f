SPECIFICATION Spec
CONSTANTS
    MTU = 2
    FirstSeq = 1
    Writes <- AnyWrites
    StreamBytes = 4
    Windows = {2}
    Delays = {1, 3}
    Knots = 2
    Ratio = 2
    MaxPermits = 1
    MaxRestarts = 1
    Stale = 4
    EarlyAcks = TRUE
INVARIANTS
    TypeOK
    InFlightExact
    CountsOnlyDelivered
    SamplesTimely
    SlowStartBound
    RecordsOrdered
    VerusInvariant
