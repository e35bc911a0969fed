CONSTANTS
    c1 = c1
    c2 = c2
    Calls <- MCCalls
    NodeUtxoCounts = {0, 1}
SPECIFICATION Spec
INVARIANT UtxoFailuresSurfaced
CHECK_DEADLOCK FALSE
