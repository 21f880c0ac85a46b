CONSTANTS
    GREEN_LIGHT_TIMEOUT = 2
    CLEAR_INTERSECTION_TIMEOUT = 1
    Modulus = 32
    Fsm <- MC_Fsm
    GroupFsms <- Members
    QueueSize <- MC_QueueSize
    QueueAfter <- MC_QueueAfter
    State <- States
    EventCode = {0, 1, 2, 3}
    EventData = {0}
    NoData = 0
    NoSkip = 255
    NullHandler = "none"
    NopHandler = "NOP"
    Table <- Tables
    InitialState <- InitialStates
    Effects <- HandlerEffects
    DefaultDelay = 0
    InterruptEvents <- MC_InterruptEvents
    MaxInterrupts = 8
    MaxTick = 1
    Horizon = 16
SPECIFICATION CalmSpec
INVARIANTS NeverTwoGreens ButtonFollowsLights
PROPERTIES LightsAlternate
