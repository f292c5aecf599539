SPECIFICATION FairSpec
CONSTANTS
    dp_size = 2
    sync_interval = 1
    MaxRequests = 1
    Steps = 3
    Abortable <- FirstRequest
    PauseModes <- WaitOrKeep
CHECK_DEADLOCK FALSE
INVARIANTS
    CollectivesMatch
    NoEngineStranded
    ResumeHonoured
    PausedEnginesStop
PROPERTIES
    PauseCompletes
