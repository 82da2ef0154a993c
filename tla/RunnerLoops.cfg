SPECIFICATION Spec
CONSTANTS
  Users = {"l1", "l2", "fg", "rm"}
  MaxMints = 2
  MaxTrouble = 1
  Overlap = FALSE
  LeftBehind = TRUE
CHECK_DEADLOCK FALSE
INVARIANTS
  OneDriver
  RecordsAreTrue
PROPERTIES
  StopsEnd
