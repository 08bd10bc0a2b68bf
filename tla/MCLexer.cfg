\* Integers of 6 bits, longs of 10.
SPECIFICATION Spec
CONSTANTS
  Texts <- MCTexts
  Junk <- MCJunk
  IntRange = 64
  LongMax = 511
INVARIANTS
  LongestMatch
  Located
  Rejected
