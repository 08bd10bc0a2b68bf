SPECIFICATION Spec
CONSTANTS
  Structs = {"m1", "m2"}
  Strings = {s1, s2, s3, s4}
  Values = {"a", "b", "copy of a"}
  Meaning <- MCMeaning
  Copiers <- MCCopiers
  Sizes = {0, 1, 3}
  Slots <- MCSlots
  Slack = 0
  MaxTable = 4
CONSTRAINT MCFewKeys
SYMMETRY MCSymmetry
INVARIANTS
  Consistent
  RoomUnlessZero
PROPERTIES
  ImplementsStringMap
