SPECIFICATION Spec
CONSTANTS
    SIZE_LSQ = 3
    DISPATCH_WIDTH = 2
    COMMIT_WIDTH = 2
    Values = {v1, v2}
    zero = zero
PROPERTY
    WritesOldestRetired
