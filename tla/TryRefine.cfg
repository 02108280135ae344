SPECIFICATION Spec
CONSTANTS
  vnumber = 3
  Modulus = 8
  Inputs <- SomeVectors
INVARIANTS
  TypeOK
  FaithfulUnlessApart
  NeverLonger
CHECK_DEADLOCK FALSE
