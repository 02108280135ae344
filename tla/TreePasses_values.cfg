CONSTANTS
    Width = 4
    NumVars = 2
    MAX_IT = 10
    maxIt = 100
    Deadline = 1
    simplifyLinearMba <- MCSimplifyLinear
    Calls <- MCKnown
    Known <- MCKnown
SPECIFICATION Spec
PROPERTY KeepsValues
CHECK_DEADLOCK FALSE
