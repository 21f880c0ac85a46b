CONSTANTS
    Modulus = 4
    Fsm = {"slow"}
    GroupFsms <- Wrap_GroupFsms
    QueueSize <- MC_QueueSize
    QueueAfter <- MC_QueueAfter
    State = {"s0"}
    EventCode = {0, 1}
    EventData = {0}
    NoData = 0
    NoSkip = 255
    NullHandler = "null"
    NopHandler = "nop"
    Table <- Wrap_Table
    InitialState <- MC_InitialState
    Effects <- Wrap_Effects
    DefaultDelay = 0
    InterruptEvents <- MC_InterruptEvents
    MaxInterrupts = 2
    MaxTick = 8
    Horizon = 8
    TickUs = 1
    FarTicks = 3
    OverflowUs = 1
    MaxSleepMask = 2
    WatchdogUs <- MC_WatchdogUs
SPECIFICATION McuSpec
INVARIANT NeverSpins
