CONSTANTS
    Width = 4
    NumVars = 2
    MAX_IT = 10
    maxIt = 100
    Deadline = 1
    simplifyLinearMba <- MCSimplifyLinear
    Calls <- MCCalls
    Known <- MCKnown
SPECIFICATION Spec
PROPERTIES StaysWellFormed KeepsValuesUnlessKnown Settles
CHECK_DEADLOCK FALSE
