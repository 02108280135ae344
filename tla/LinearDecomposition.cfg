SPECIFICATION Spec
CONSTANTS
  Variables = {x, y, z}
  Modulus = 2
INVARIANTS
  TypeOK
  Accounted
  Equivalent
CHECK_DEADLOCK FALSE
