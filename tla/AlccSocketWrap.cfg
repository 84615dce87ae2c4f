SPECIFICATION FairSpec
CONSTANTS
    MTU = 2
    CWND = 2
    MODULUS = 22
    FirstSeq = 15
    Writes <- FullWrites
    StreamBytes = 12
    Stale = 4
    MaxCuts = 1
    EarlyAcks = FALSE
INVARIANTS
    CountsExactly
    DiesOnlyAtZero
PROPERTIES
    Progress
