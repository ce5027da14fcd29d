SPECIFICATION Spec
CONSTANTS
    a = a
    b = b
    Fds = {a, b}
    NoFd = NoFd
    Capacity = 2
    Directions = {"read"}
    OneThread = FALSE
    RegisterInLoop = FALSE
    Unblocks = TRUE
    Level = {}
    JobBound = 0
SYMMETRY Symmetry
INVARIANTS
    
    
    CleanedUp
    UnusedBeyondEnd
