SPECIFICATION Spec
CONSTANTS
  Processes <- MCProcesses
  MinASTSize = 2
  MaxVarCount = 2
  Replacements <- MCReplacements
  MaxContexts = 3
INVARIANTS
  TypeOK
  NothingDangles
  ValuesKeptButByPatterns
  MarkedGone
  SolverBelongs
PROPERTIES
  GrowsByUncounted
CHECK_DEADLOCK FALSE
