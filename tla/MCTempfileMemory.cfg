\* A signal between a free and the assignment behind it.
SPECIFICATION Spec
CONSTANTS
  Objs = {o1, o2}
  Paths = {p1, p2}
  Signals = {s1, s2}
  Slacks = {16}
  NoObj = NoObj
  NoPath = NoPath
CHECK_DEADLOCK FALSE
INVARIANTS
  HandlersSafe
