\* A close that fails.
SPECIFICATION Spec
CONSTANTS
  MaxSources = 2
  MaxOptions = 3
CHECK_DEADLOCK FALSE
INVARIANTS
  ExitZeroMeansDone
