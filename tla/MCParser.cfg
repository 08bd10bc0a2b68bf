\* One name and one number: a tree tells its shape, not which name stands where.
SPECIFICATION Spec
CONSTANTS
  Names = {"a"}
  Numbers = {"1"}
  Vocabularies <- MCVocabularies
CHECK_DEADLOCK FALSE
INVARIANTS
  TypeOK
  OnlyTheLanguage
  WholeLanguage
  Released
  Drawn
