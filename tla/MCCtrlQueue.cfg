SPECIFICATION FairSpec
CONSTANTS
    SIZE_CTI_QUEUE = 4
    FETCH_WIDTH = 2
    COMMIT_WIDTH = 2
INVARIANTS
    TypeOK
    QueueAgrees
PROPERTIES
    FetchResumes
    UpdatesUntilException
