CONSTANTS
    BASE_RELAY_FEE = 10
    MARGINAL_FEE = 5
    MEMO_OUTPUT_SIZE = 34
    BITCOIN_DUST = 2
    MaxCandidates = 3
    u1 = u1
    u2 = u2
    u3 = u3
    u4 = u4
SPECIFICATION Spec
INVARIANTS TypeOK SelectionAccounting SelectionMinimal
PROPERTY SelectionRefinesPromise
