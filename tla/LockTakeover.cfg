SPECIFICATION Spec
CONSTANTS
  Users = {"l1", "fg", "rm"}
  MaxMints = 2
  MaxTrouble = 1
  Overlap = TRUE
  LeftBehind = TRUE
INVARIANT OneDriver
CHECK_DEADLOCK FALSE
