CONSTANTS
    Byte = 16
    BLOCK_SIZE = 16
    TABLE_SIZE = 7
    INST_SIZE = 2
    TEXT_BASE = 16
    DATA_BASE = 48
    STACK_BASE = 112
    MAX_ENVIRON = 24
    PAGE_SIZE = 8
    SLACK = 2
    mask2op <- MCmask2op
    Inputs <- MCInputs
    Images <- MCImages
    CkptFile = 101
    LI = 1
    PTR = 2
    SB = 3
    LB = 4
    TRAP = 5
    ExitCode = 1
    ReadCode = 3
    HostBytes = {1, 3}
    PortAddrs = {56, 64}
    PortBytes = {11}
    FetchPCs = {8, 20, 25, 32, 34}
    MaxInsn = 10
    MaxOps = 3
SPECIFICATION Spec
INVARIANTS TypeOK TextsAgree ReplayFollowsRecording ArgumentsInPlace
PROPERTIES PortsAreFlat StartsUp
