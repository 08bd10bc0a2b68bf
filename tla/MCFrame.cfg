\* Functions of about ten instructions; goto and label only in the first ones.
SPECIFICATION Spec
CONSTANTS
  Labels = {l}
  StackBytes = {0, 4}
  MaxParams = 1
  MaxCode = 10
  MaxUser = 8
  MaxLeaving = 1
  MaxFrame = 16
CHECK_DEADLOCK FALSE
INVARIANTS
  TypeOK
  InnermostLoop
  LabelsResolve
  StructuredSafe
  RspExact
