CONSTANTS
    BASE_RELAY_FEE = 10
    MARGINAL_FEE = 5
    MEMO_OUTPUT_SIZE = 34
    InputValues = {60}
    OutputValues <- MCOutputValues
    Thresholds <- MCThresholds
    MaxInputs = 1
    MaxOutputs = 2
SPECIFICATION Spec
INVARIANT TypeOK
