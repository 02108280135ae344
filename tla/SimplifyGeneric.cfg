SPECIFICATION MCSpec
CONSTANTS
  vnumber = 4
  Modulus = 4
INVARIANTS
  TypeOK
  CombinationsExact
  ReturnedExact
PROPERTIES
  ImplementsDecomposition
  Returns
CHECK_DEADLOCK FALSE
