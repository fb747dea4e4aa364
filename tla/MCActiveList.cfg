SPECIFICATION Spec
CONSTANTS
    SIZE_ACTIVELIST = 3
    DISPATCH_WIDTH = 2
    COMMIT_WIDTH = 3
    ISSUE_WIDTH = 2
INVARIANTS
    TypeOK
    NoStaleBits
    OneFlag
PROPERTIES
    ReadyHeadLeaves
    ImplementsInOrderRetire
