SPECIFICATION StrongFairSpec
CONSTANTS
    w1 = w1
    w2 = w2
    c1 = c1
    j1 = j1
    j2 = j2
    j3 = j3
    Workers = {w1, w2}
    Clients = {c1}
    Jobs = {j1}
    TimerTicks = {}
    NullTask = NullTask
    NoThread = NoThread
    NoJob = NoJob
    single_thread_ = FALSE
    JobCountMod = 16
    ReactorAtConstruction = TRUE
    LateReactor = FALSE
    ReactorMayFail = FALSE
    StopAllowed = TRUE
    RunOneAllowed = FALSE
    MaxGuards = 0
PROPERTIES
    StopReleasesWorkers
