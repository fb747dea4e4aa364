CONSTANTS
    MAX_THREADS = 3
    Text = {2, 3}
    DataBase = 4
    DataEnd = 7
    StackBase = 14
    AddrSpace = 16
    Page = 4
    StackArg = 0
    Locks = {6}
    MaxFd = 4
    Errnos = {1, 3}
    ENOMEM = 3
    OpenFlags = {1}
    IoctlRequests = {7}
    Programs <- AllPrograms
SPECIFICATION Spec
INVARIANTS TypeOK StdStreamsOpen LockHasOneHolder
PROPERTIES OnlyNamedMemory BreakCoversRequest
CHECK_DEADLOCK FALSE
