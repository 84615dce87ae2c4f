SPECIFICATION Spec
CONSTANTS
    Connections = 2
    FileLen = 2
    Fds = {fd1, fd2}
    Commands = {"RETR", "LIST"}
    MaxPermits = 2
    Deletes = {FALSE}
INVARIANTS
    OwnStream
