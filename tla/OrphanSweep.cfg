SPECIFICATION Spec
CONSTANTS
  Pids = {1, 2}
  MaxSteps = 2
  MaxSpawns = 4
  MaxChanges = 1
  MaxClock = 2
  Slack = 0
CHECK_DEADLOCK FALSE
INVARIANTS
  SweepIsSafe
PROPERTIES
  NothingHangs
