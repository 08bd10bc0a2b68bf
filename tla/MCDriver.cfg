\* Every option set of up to three options, up to two sources.
SPECIFICATION Spec
CONSTANTS
  MaxSources = 2
  MaxOptions = 3
CHECK_DEADLOCK FALSE
INVARIANTS
  DoneUnlessLost
  NoTempsLeft
  NoPartialOutput
  GccInputsReady
PROPERTIES
  OutputsStay
  Ends
