SPECIFICATION MCSpec
CONSTANTS
  Targets = {1, 2}
  Names = {"a", "b"}
  MaxWork = 2
  MaxMishaps = 1
  Runners = {"r1", "r2"}
  Jobs = {"j1", "j2", "j3"}
  RunnerOf <- MCRunnerOf
  Repos = {"acme", "beta"}
  RepoOf <- MCRepoOf
  NoRepo = "none"
  DirNames <- MCDirNames
  Faults = {"save", "build", "dirs", "remove", "own_read", "gc_read", "crash"}
  MaxFaults = 1
  MaxSweeps = 2
CHECK_DEADLOCK FALSE
INVARIANTS
  SetupIsTrue
  WorkspacesAreSafe
PROPERTIES
  OthersAreKept
