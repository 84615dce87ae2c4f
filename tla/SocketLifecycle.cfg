SPECIFICATION Spec
CONSTANTS
    Connections = 2
    FileLen = 3
    Fds = {fd1, fd2}
    Commands = {"RETR", "RETR_PORT", "LIST", "REFUSED"}
    MaxPermits = 2
    Deletes = {TRUE, FALSE}
INVARIANTS
    TypeOK
    NothingDuplicated
    AtMostOneMissing
    LifecycleInvariant
PROPERTIES
    WaitsOnlyForPermits
