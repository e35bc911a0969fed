CONSTANTS
    b1 = b1
    b2 = b2
    Builders <- MCBuilders
    NCallerObjects = 1
    NCallerArrays = 1
    MaxArrays = 6
    MaxObjects = 4
    Values <- MCValues
    MaxLen = 2
    MaxCalls = 7
SPECIFICATION Spec
SYMMETRY BuilderSymmetry
CHECK_DEADLOCK FALSE
INVARIANT OutputsPassedValidation
