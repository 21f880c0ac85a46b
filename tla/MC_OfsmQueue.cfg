CONSTANTS
    QueueSize = 3
    EventCode = {0, 1, 2}
    EventData = {0, 1}
    NoData = 0
SPECIFICATION Spec
INVARIANTS TypeOK PendingIsSignalled 
PROPERTIES ImplementsWeakFifo CallsArePutsUnlessMissed OldestIsTaken
