SPECIFICATION FairSpec
CONSTANTS
    MTU = 2
    CWND = 2
    MODULUS = 64
    FirstSeq = 1
    Writes <- AnyWrites
    StreamBytes = 6
    Stale = 0
    MaxCuts = 0
    EarlyAcks = FALSE
PROPERTIES
    StreamSent
