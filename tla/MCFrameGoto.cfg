\* A goto over a declaration.
SPECIFICATION Spec
CONSTANTS
  Labels = {l}
  StackBytes = {0}
  MaxParams = 0
  MaxCode = 8
  MaxUser = 8
  MaxLeaving = 0
  MaxFrame = 16
CHECK_DEADLOCK FALSE
INVARIANTS
  GotoSafe
