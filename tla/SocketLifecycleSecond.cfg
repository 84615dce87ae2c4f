SPECIFICATION Spec
CONSTANTS
    Connections = 2
    FileLen = 2
    Fds = {fd1, fd2}
    Commands = {"RETR"}
    MaxPermits = 2
    Deletes = {FALSE}
PROPERTIES
    EveryTransferEnds
