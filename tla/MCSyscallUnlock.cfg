CONSTANTS
    MAX_THREADS = 1
    Text = {2, 3}
    DataBase = 4
    DataEnd = 7
    StackBase = 14
    AddrSpace = 16
    Page = 4
    StackArg = 0
    Locks = {6}
    MaxFd = 4
    Errnos = {1, 3}
    ENOMEM = 3
    OpenFlags = {1}
    IoctlRequests = {7}
    Programs <- LockPrograms
SPECIFICATION Spec
PROPERTY UnlockReleases
CHECK_DEADLOCK FALSE
