SPECIFICATION Spec
CONSTANTS
  Chunks = {"c1", "c2"}
  ChunkLen <- MCChunkLen
  Archives <- MCArchives
  Keys = {"k1"}
  Queries <- MCQueries
  Ranges <- MCRanges
  Specs <- MCSpecs
  Scopes = {"main", "topic"}
  Protected <- MCProtected
  MaxBytes = 2
  Ttl = 0
  Clients = {x, y}
  MaxJobs = 2
  MaxOps = 2
  MaxTime = 1
  MaxLosses = 1
CHECK_DEADLOCK FALSE
SYMMETRY ClientSymmetry
INVARIANTS
  RestoresAreSound
  NoPoisoning
  StoreIsSound
