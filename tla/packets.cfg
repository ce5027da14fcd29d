CONSTANTS
    a = a
    Fd = a
    NoFd = NoFd
    Capacity = 2
    BlockNum = 3
    MaxPackets = 2
    Patient = TRUE
    PollsReactive = FALSE
SPECIFICATION PacketFairSpec
INVARIANTS BlocksOwned RingInStep
CHECK_DEADLOCK FALSE
PROPERTY PacketsDelivered
