CONSTANTS
    j1 = j1
    j2 = j2
    c1 = c1
    c2 = c2
    c3 = c3
    Jobs = {j1, j2}
    Cids = {c1, c2}
    NoCid = NoCid
    NoJob = NoJob
    Tasks = {t1, t2}
    Size <- MCSize
    Budget <- MCBudget
    JobOf <- MCJobOf
    QueueMax = 2
    U32Max = 7
    Faults = {"create", "disconnect"}
    PullAttempts = 2
    MaxPosts = 1
    MaxCrashes = 0
SPECIFICATION ReapSpec
SYMMETRY BothSymmetries
CHECK_DEADLOCK FALSE
INVARIANTS
  TypeOK
  NoOvercommit
  BooksBalance
PROPERTIES
  ReapIsFinal
