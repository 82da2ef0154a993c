SPECIFICATION Spec
CONSTANTS
  MaxTokens = 2
  MaxFaults = 2
  Jobs = {1}
  MaxClaims = 2
  MaxStarts = 1
  Attempts = 2
CHECK_DEADLOCK FALSE
INVARIANTS
  ClaimsAreTrue
PROPERTIES
  RemoveRevokesFirst
  MachineEnds
