SPECIFICATION FairSpec
CONSTANTS
    dp_size = 2
    sync_interval = 2
    MaxRequests = 2
    Steps = 2
    Abortable <- NoRequests
    PauseModes <- NoPause
CHECK_DEADLOCK FALSE
INVARIANTS
    TypeOK
    WavesAgree
    NeverAhead
PROPERTIES
    RequestsServed
