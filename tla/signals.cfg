CONSTANTS
    a = a
    b = b
    s1 = s1
    s2 = s2
    Fds = {a}
    NoFd = NoFd
    Capacity = 2
    OneThread = FALSE
    Signals = {s1, s2}
    MaxPosted = 2
    CancelsAgain = FALSE
    Observed = a
SPECIFICATION SignalSetFairSpec
INVARIANTS NoEmptyHandler WaitsAccounted
CHECK_DEADLOCK FALSE
PROPERTY SignalsDelivered
