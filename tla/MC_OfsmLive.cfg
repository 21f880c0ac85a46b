CONSTANTS
    Modulus = 32
    Fsm = {"a", "b", "c"}
    GroupFsms <- MC_GroupFsms
    QueueSize <- Live_QueueSize
    QueueAfter <- MC_QueueAfter
    State = {"s0", "s1"}
    EventCode = {0, 1, 2}
    EventData = {0}
    NoData = 0
    NoSkip = 255
    NullHandler = "null"
    NopHandler = "nop"
    Table <- MC_Table
    InitialState <- MC_InitialState
    Effects <- Live_Effects
    DefaultDelay = 1
    InterruptEvents <- MC_InterruptEvents
    MaxInterrupts = 2
    MaxTick = 1
    Horizon = 3
SPECIFICATION FairSpec
PROPERTIES DueIsServed QueuesDrain
