CONSTANTS
    BASE_RELAY_FEE = 10
    MARGINAL_FEE = 5
    MEMO_OUTPUT_SIZE = 34
    BITCOIN_DUST = 2
    ua = ua
    ub = ub
    uc = uc
    UtxoIds <- MCUtxoIds
    Utxos <- MCUtxos
    CandidateLists <- MCCandidateLists
    Addrs <- MCAddrs
    OutputValues <- MCOutputValues
    Memos <- MCMemos
    FeeRates <- MCFeeRates
    Thresholds <- MCThresholds
    BlockHeights = {100}
    BuilderNetwork <- MCBuilderNetwork
    SignNetworks <- MCSignNetworks
    PrivateKeys = {"wif", "bad"}
    MaxInputs = 2
    MaxOutputs = 2
SPECIFICATION Spec
INVARIANT BuiltInputsCarryOwnScripts

