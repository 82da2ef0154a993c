CONSTANTS
    j1 = j1
    j2 = j2
    c1 = c1
    c2 = c2
    c3 = c3
    Jobs = {j2}
    Cids = {c2, c3}
    NoCid = NoCid
    NoJob = NoJob
    Tasks = {t1, t2}
    Size <- MCSize
    Budget <- MCBudget
    JobOf <- MCJobOf
    QueueMax = 2
    U32Max = 7
    Faults = {"create", "disconnect", "age"}
    PullAttempts = 2
    MaxPosts = 2
    MaxCrashes = 1
SPECIFICATION Spec
SYMMETRY TaskSymmetry
CHECK_DEADLOCK FALSE
INVARIANTS
  OneLife
  NoGhostEntry
