CONSTANTS
    QueueSize = 2
    EventCode = {0, 1}
    MaxDelay = 1
    MaxSessions = 1
SPECIFICATION FairSpec
PROPERTY QueuedIsTaken
