SPECIFICATION Spec
CONSTANTS
  NumEntries = 16
  Concurrency = {0, 1, 2, 4}
INVARIANTS
  TypeOK
  WindowBounded
PROPERTIES
  ImplementsSerial
CHECK_DEADLOCK FALSE
