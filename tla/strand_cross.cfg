SPECIFICATION Spec
CONSTANTS
    w1 = w1
    w2 = w2
    c1 = c1
    s1 = s1
    s2 = s2
    j1 = j1
    j2 = j2
    j3 = j3
    j4 = j4
    Workers = {w1, w2}
    Clients = {c1}
    Strands = {s1, s2}
    Jobs = {j1, j2, j3}
    NoStrand = NoStrand
    Observed = s1
    CrossDispatch = TRUE
INVARIANTS
    NoTwoJobsAtOnce
