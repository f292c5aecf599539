SPECIFICATION FairSpec
CONSTANTS
    dp_size = 2
    sync_interval = 1
    MaxRequests = 1
    Steps = 1
    Abortable <- NoRequests
    PauseModes <- DefaultMode
CHECK_DEADLOCK FALSE
PROPERTIES
    ServedAfterPause
