\* Words of three bits.  Two argument registers, so that a third argument is on the
\* stack; a call that has one is never the left operand of another operator (see
\* MCExpressionStackArgs.cfg).
SPECIFICATION Spec
CONSTANTS
  Exps <- MCExps
  Height <- MCHeight
  Result <- MCResult
  After <- MCAfter
  Stores <- MCStores
  CallRegs <- TwoRegs
  VoidFuncs = {"v"}
  Changed = "x"
  Bits = 3
  Junk = 1
  Size = 5
  Constants = {2}
  Names = {"x"}
  UnaryOps = {"-"}
  BinaryOps = {"-", "/", "&&", "||", ","}
  Funcs = {"f", "v"}
  MaxArgs = 3
CHECK_DEADLOCK FALSE
INVARIANTS
  TypeOK
  Right
  IndexIsRsp
  VoidChecked
