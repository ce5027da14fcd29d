CONSTANTS
    f1 = f1
    f2 = f2
    f3 = f3
    s1 = s1
    s2 = s2
    acceptor = acceptor
    NoSocket = NoSocket
    Fds = {f1, f2}
    NoFd = f3
    Capacity = 2
    JobBound = 0
    OneThread = TRUE
    Sockets = {s1, s2}
    ListensFirst = TRUE
    Bursts = FALSE
    MaxBacklog = 1
    CloseInCallback = FALSE
    Reopen = FALSE
SPECIFICATION AcceptorFairSpec
CHECK_DEADLOCK FALSE
INVARIANTS OpenMeansRegistered DescriptorsOwned AcceptCallbacksAccounted
 
