CONSTANTS
    BASE_RELAY_FEE = 10
    MARGINAL_FEE = 5
    MEMO_OUTPUT_SIZE = 34
    ua = ua
    ub = ub
    UtxoIds <- MCUtxoIds
    UtxoLists <- MCUtxoLists
    LegacyOutputLists <- MCLegacyOutputLists
    ConfigNetworks <- MCConfigNetworks
    BlockHeights = {100}
    ExpiryArgs = {0, 150}
    NetworkArgsTried <- MCNetworkArgs
SPECIFICATION Spec
INVARIANT LegacyAmountsPositive
