SPECIFICATION FairSpec
CONSTANTS
    SIZE_PHYSICAL_TABLE = 5
    SIZE_RMT = 2
    DISPATCH_WIDTH = 2
    COMMIT_WIDTH = 2
    SIZE_ACTIVELIST = 3
    N_REPAIR_PACKETS = 1
    N_REPAIR_CYCLES = 2
INVARIANTS
    TypeOK
    RegistersConserved
    InFlightBehindHead
    SpeculativeMapIsOverlay
    QuietWhileRepairing
    IInv
PROPERTIES
    ImplementsRenaming
    FreeListRefills
