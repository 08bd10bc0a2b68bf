\* Two identifiers; the arguments of every call fit the registers.
SPECIFICATION Spec
CONSTANTS
  Names = {x, y}
  NrCallRegs = 2
  MaxArgs = 2
  MaxScope = 3
  MaxIndex = 12
CHECK_DEADLOCK FALSE
SYMMETRY NameSymmetry
INVARIANTS
  TypeOK
  SlotsDisjoint
  InnermostWins
  NoBug
  GlobalsOnce
  FrameBytes
PROPERTIES
  DeclarationsKept
  ImplementsScopes
