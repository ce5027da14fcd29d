CONSTANTS
    f1 = f1
    f2 = f2
    Fds = {f1}
    NoFd = f2
    Capacity = 1
    JobBound = 0
    Sizes = {1, 2}
    MaxBytes = 2
    Room = 1
    MaxPosted = 1
    Patient = TRUE
    EndsEarly = FALSE
SPECIFICATION SocketFairSpec
INVARIANTS CallbacksAccounted ExhaustiveIsComplete ConnectedIsEstablished
PROPERTIES ClosedIsSilent ReactorSpec 
