CONSTANTS
    d = d
    p = p
    s = s
    r = r
    w1 = w1
    w2 = w2
    Deferred = {d}
    Periodic = {p}
    OneShot = {s}
    Recurring = {r}
    NoTimer = NoTimer
    Workers = {w1}
    Sync = Sync
    kMaxTimerCount = 2
    MaxTags = 2
    MaxNow = 2
    MaxDelay = 1
    OneThread = TRUE
    CancelRunning = FALSE
    JobBound = 0
    Observed = r
SPECIFICATION FairSpec
CHECK_DEADLOCK FALSE
INVARIANTS TagsPartition HandlerStaysValid TimerFdCovers OneShotRunsOnce
PROPERTY TimersFire
