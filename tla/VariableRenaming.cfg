SPECIFICATION Spec
CONSTANTS
  Names <- NestedNames
  Inputs <- UpToFive
INVARIANTS
  TypeOK
  RenamingExactIfApart
  NamesRestoredIfApart
CHECK_DEADLOCK FALSE
