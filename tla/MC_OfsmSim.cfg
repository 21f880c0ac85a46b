CONSTANTS
    QueueSize = 2
    EventCode = {0, 1}
    MaxDelay = 2
    MaxSessions = 1
SPECIFICATION FairSpec
INVARIANT TypeOK
PROPERTIES RescuedByHeartbeat NotifiedIsTaken
