\* A small array, so that the second file makes it grow, and one of the size the code
\* allocates, which is halved when files go.
SPECIFICATION Spec
CONSTANTS
  Objs = {o1, o2, o3}
  Paths = {p1, p2}
  Signals = {s1, s2}
  Slacks = {1, 16}
  NoObj = NoObj
  NoPath = NoPath
CHECK_DEADLOCK FALSE
INVARIANTS
  TypeOK
  ListConsistent
  KeptSurvive
  NoneForgotten
PROPERTIES
  OnlyTempsRemoved
  CleanupEnds
