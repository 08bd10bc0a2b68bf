\* One argument register, so that a call with two arguments has one on the stack.
SPECIFICATION Spec
CONSTANTS
  Exps <- MCExps
  Height <- MCHeight
  Result <- MCResult
  After <- MCAfter
  Stores <- MCStores
  CallRegs <- OneReg
  VoidFuncs = {"v"}
  Changed = "x"
  Bits = 3
  Junk = 1
  Size = 5
  Constants = {2}
  Names = {"x"}
  UnaryOps = {"-"}
  BinaryOps = {"-"}
  Funcs = {"f"}
  MaxArgs = 2
CHECK_DEADLOCK FALSE
INVARIANTS
  Right
