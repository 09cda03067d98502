SPECIFICATION FairSpec
CONSTANTS
    Attempts = 2
    Threshold = 2
    QueueAll = TRUE
    Discard = {"boot", "heartbeat"}
    ResumeDelay = TRUE
    ExternalNotify = {"event"}
    Pushed <- MCPushed
    MaxPush = 3
    MaxTries = 2
    MaxFaults = 1
INVARIANTS
    TableMatchesQueue
PROPERTIES
    OneCallOutstanding
    ImplementsOutbox
    QueueDrains
CHECK_DEADLOCK FALSE
