SPECIFICATION FairSpec
CONSTANTS
    MTU = 2
    FirstSeq = 3
    Writes <- FullWrites
    StreamBytes = 4
    Windows = {2}
    Delays = {1, 3}
    Knots = 2
    Ratio = 2
    MaxPermits = 0
    MaxRestarts = 2
    Stale = 0
    EarlyAcks = FALSE
PROPERTIES
    CurveComputed
