SPECIFICATION Spec
CONSTANTS
    SIZE_CTI_QUEUE = 4
    FETCH_WIDTH = 2
    COMMIT_WIDTH = 2
INVARIANT
    CommittedUpdatesPredictor
