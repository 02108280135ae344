CONSTANTS
    Width = 4
    NumVars = 2
    MAX_IT = 10
    maxIt = 100
    Deadline = 1
    simplifyLinearMba <- MCSimplifyLinear
    Calls <- PowerInProduct
    Known <- MCKnown
SPECIFICATION Spec
PROPERTY StaysDefined
CHECK_DEADLOCK FALSE
