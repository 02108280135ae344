SPECIFICATION Spec
CONSTANTS
  vnumber = 3
  Modulus = 8
  Inputs <- PartlySymmetric
INVARIANTS
  RefinementFaithful
CHECK_DEADLOCK FALSE
