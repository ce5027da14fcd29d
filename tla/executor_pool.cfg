SPECIFICATION FairSpec
CONSTANTS
    w1 = w1
    w2 = w2
    c1 = c1
    j1 = j1
    j2 = j2
    j3 = j3
    Workers = {w1, w2}
    Clients = {c1}
    Jobs = {j1, j2, j3}
    TimerTicks = {j3}
    NullTask = NullTask
    NoThread = NoThread
    NoJob = NoJob
    single_thread_ = TRUE
    JobCountMod = 16
    ReactorAtConstruction = FALSE
    LateReactor = TRUE
    ReactorMayFail = FALSE
    StopAllowed = TRUE
    RunOneAllowed = FALSE
    MaxGuards = 1
INVARIANTS
    NoStrandedWork
PROPERTIES
    SubmittedJobsRun
