CONSTANTS
    Modulus = 64
    Fsm = {"d", "m"}
    GroupFsms <- MC_GroupFsms
    QueueSize <- MC_QueueSize
    QueueAfter <- MC_QueueAfter
    State = {"s0"}
    EventCode = {0, 1}
    EventData = {0}
    NoData = 0
    NoSkip = 255
    NullHandler = "null"
    NopHandler = "nop"
    Table <- MC_Table
    InitialState <- MC_InitialState
    Effects <- MC_Effects
    DefaultDelay = 0
    InterruptEvents <- MC_InterruptEvents
    MaxInterrupts = 2
    MaxTick = 10
    Horizon = 10
    TickUs = 2
    FarTicks = 9
    OverflowUs = 3
    MaxSleepMask = 2
    WatchdogUs <- MC_WatchdogUs
SPECIFICATION McuSpec
INVARIANT DeepSleepMeansNoEvent
