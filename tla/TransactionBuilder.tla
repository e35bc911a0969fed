------------------------- MODULE TransactionBuilder -------------------------
(***************************************************************************)
(* class TransactionBuilder of src/chain/zec/ts/src/index.ts: one builder  *)
(* instance, its fields, and one action per public method.  build() hands  *)
(* its draft to buildTransaction, which calls the native engine's          *)
(* buildPartialTx; sign() is static and calls signSighashes, then          *)
(* signTransaction (the engine's applyTxSignatures), then hashes the raw   *)
(* transaction.  The engine is opaque: a call to it either returns or      *)
(* throws.                                                                 *)
(*                                                                         *)
(* A method that throws leaves the builder as it was.  result and          *)
(* signedTx are the BuildResult and SignedTransaction the caller holds:    *)
(* set by build() and sign(), and dropped at the caller's next builder     *)
(* call (sign() reads nothing but its arguments, and every property of a   *)
(* result is decided in the state the build produced).                     *)
(***************************************************************************)
EXTENDS UTXOSelector, AddressCodec

CONSTANTS
    UtxoIds,        \* outpoint identities of the UTXOs the caller holds
    Utxos,          \* the UTXOs the caller may pass in
    CandidateLists, \* the lists the caller may pass to addInputs/selectUTXOs
    Addrs,          \* the address strings the caller may pass
    OutputValues,   \* the values the caller may pass to addOutput
    Memos,          \* the memo lengths the caller may pass (0: no memo)
    FeeRates,       \* the arguments the caller may pass to setFeeRate
    Thresholds,     \* the arguments the caller may pass to setDustThreshold
    BlockHeights,   \* the heights the caller may pass to build
    BuilderNetwork, \* the network argument of the constructor
    SignNetworks,   \* the network arguments the caller may pass to sign
    PrivateKeys,    \* the private key arguments the caller may pass to sign
    MaxInputs,      \* bound on the length of the input list
    MaxOutputs      \* bound on the length of the output list

ASSUME BuilderAssumption ==
    /\ Utxos \subseteq UTXO(UtxoIds)
    /\ CandidateLists \subseteq Seq(Utxos)
    /\ Addrs \subseteq Addresses
    /\ OutputValues \subseteq Int
    /\ Memos \subseteq Nat
    /\ FeeRates \subseteq Int
    /\ Thresholds \subseteq Int
    /\ BlockHeights \subseteq Nat
    /\ BuilderNetwork \in NetworkArgs
    /\ SignNetworks \subseteq NetworkArgs
    /\ MaxInputs \in Nat
    /\ MaxOutputs \in Nat

\* The private key strings signSighashes accepts: WIF or 64 hex digits
ValidKeys == {"wif", "hex"}

\* changeAddress?: undefined
NoAddress == [none |-> "address"]

\* No BuildResult / SignedTransaction has been returned yet
NoResult == [none |-> "result"]

\* The value selectUTXOs passes as changeAddress: "dummy" or "" (the ternary
\* binds looser than ||); neither decodes to a network prefix, and the
\* builder discards the selection's outputs anyway.
DummyAddress == [prefix |-> OtherPrefix, base58 |-> TRUE, checksum |-> FALSE]

VARIABLES
    network,        \* this.network, lowercased by the constructor
    inputs,         \* this.inputs
    outputs,        \* this.outputs
    changeAddress,  \* this.changeAddress
    feeRate,        \* this.feeRate
    dustThreshold,  \* this.dustThreshold
    result,         \* the BuildResult the last successful build() returned
    signedTx,       \* the SignedTransaction the last successful sign() returned
    builtWith,      \* history: outputs, change address, threshold seen by that build
    selectedFor     \* history: [targets] the current inputs were selected for

builderVars == <<network, inputs, outputs, changeAddress, feeRate, dustThreshold>>
vars == <<network, inputs, outputs, changeAddress, feeRate, dustThreshold,
          result, signedTx, builtWith, selectedFor>>

-----------------------------------------------------------------------------
(* What build() computes from the builder's fields, index.ts 607-643.     *)

TotalInput == ValueSum(inputs)

TotalOutput == ValueSum(outputs)

\* outputs counted for the fee: one more when a change address is set
OutputCount ==
    IF changeAddress # NoAddress THEN Len(outputs) + 1 ELSE Len(outputs)

\* calculateFee(this.inputs.length, outputCount): no memo bytes charged
EstimatedFee == GetFee(Len(inputs), OutputCount, 0)

Change == TotalInput - TotalOutput - EstimatedFee

\* Mutant: a change equal to the threshold is kept as an output
AddsChangeAtThreshold == Change >= dustThreshold /\ changeAddress # NoAddress

\* Mutant: the selector's fixed 546 is used instead of the configured threshold
AddsChangeDefaultDust == Change > BITCOIN_DUST /\ changeAddress # NoAddress

\* change > this.dustThreshold && this.changeAddress
AddsChange == Change > dustThreshold /\ changeAddress # NoAddress

FinalOutputs ==
    IF AddsChange
    THEN Append(outputs, [address |-> changeAddress, value |-> Change, memo |-> 0])
    ELSE outputs

FinalFee == TotalInput - ValueSum(FinalOutputs)

\* buildTransaction({..., expiryHeight}): the draft handed to the engine and
\* the UnsignedTransaction returned (inputs as the engine echoes them)
BuildTransaction(txInputs, txOutputs, blockHeight, expiryHeight) ==
    [inputs       |-> txInputs,
     outputs      |-> txOutputs,
     height       |-> blockHeight,
     expiryHeight |-> expiryHeight]

-----------------------------------------------------------------------------
Init ==
    /\ network = ToLower(BuilderNetwork)
    /\ inputs = <<>>
    /\ outputs = <<>>
    /\ changeAddress = NoAddress
    /\ feeRate = 10
    /\ dustThreshold = BITCOIN_DUST
    /\ result = NoResult
    /\ signedTx = NoResult
    /\ builtWith = NoResult
    /\ selectedFor = NoResult

\* A call on the builder other than build(): whatever it returns, the
\* caller holds no BuildResult or SignedTransaction afterwards
Returns ==
    /\ result' = NoResult
    /\ builtWith' = NoResult
    /\ signedTx' = NoResult

\* A builder method that throws: the builder is left as it was
Throws == Returns /\ UNCHANGED <<builderVars, selectedFor>>

\* addInput(utxo)
AddInput(u) ==
    /\ Len(inputs) < MaxInputs
    /\ inputs' = Append(inputs, u)
    /\ selectedFor' = NoResult
    /\ Returns
    /\ UNCHANGED <<network, outputs, changeAddress, feeRate, dustThreshold>>

\* addInputs(utxos): this.inputs.push(...utxos)
AddInputs(us) ==
    /\ Len(inputs) + Len(us) <= MaxInputs
    /\ inputs' = inputs \o us
    /\ selectedFor' = NoResult
    /\ Returns
    /\ UNCHANGED <<network, outputs, changeAddress, feeRate, dustThreshold>>

\* addOutput(address, value, memo?); throws for an address invalid for the
\* network, a negative value, and a zero value without a memo
AddOutput(a, v, m) ==
    /\ Len(outputs) < MaxOutputs
    /\ \/ ~IsValidAddr(a, network) /\ Throws
       \/ IsValidAddr(a, network) /\ v < 0 /\ Throws
       \/ IsValidAddr(a, network) /\ v = 0 /\ m = 0 /\ Throws
       \/ /\ IsValidAddr(a, network)
          /\ v >= 0
          /\ ~(v = 0 /\ m = 0)
          /\ outputs' = Append(outputs, [address |-> a, value |-> v, memo |-> m])
          /\ Returns
          /\ UNCHANGED <<network, inputs, changeAddress, feeRate, dustThreshold,
                         selectedFor>>

\* setChangeAddress(address)
SetChangeAddress(a) ==
    \/ ~IsValidAddr(a, network) /\ Throws
    \/ /\ IsValidAddr(a, network)
       /\ changeAddress' = a
       /\ Returns
       /\ UNCHANGED <<network, inputs, outputs, feeRate, dustThreshold, selectedFor>>

\* setFeeRate(zatoshisPerByte)
SetFeeRate(r) ==
    \/ r <= 0 /\ Throws
    \/ /\ r > 0
       /\ feeRate' = r
       /\ Returns
       /\ UNCHANGED <<network, inputs, outputs, changeAddress, dustThreshold, selectedFor>>

\* setDustThreshold(threshold)
SetDustThreshold(t) ==
    \/ t < 0 /\ Throws
    \/ /\ t >= 0
       /\ dustThreshold' = t
       /\ Returns
       /\ UNCHANGED <<network, inputs, outputs, changeAddress, feeRate, selectedFor>>

\* selectUTXOs(availableUTXOs, "all"): this.inputs = [...availableUTXOs]
SelectAll(cands) ==
    /\ inputs' = cands
    /\ selectedFor' = NoResult
    /\ Returns
    /\ UNCHANGED <<network, outputs, changeAddress, feeRate, dustThreshold>>

\* selectUTXOs(availableUTXOs, "accumulative"): throws "Insufficient funds"
\* on a null selection; otherwise the inputs are replaced by the
\* selection's, and its outputs and fee are dropped
SelectAccumulative(cands) ==
    LET selection == SelectUTXOs(cands, outputs, DummyAddress)
    IN  \/ selection = NoSelection /\ Throws
        \/ /\ selection # NoSelection
           /\ inputs' = selection.inputs
           /\ selectedFor' = [targets |-> outputs]
           /\ Returns
           /\ UNCHANGED <<network, outputs, changeAddress, feeRate, dustThreshold>>

\* build(blockHeight, pubkey), with expiryHeight 0 (never expires).  It
\* throws "No inputs provided", "No outputs provided", "missing script",
\* "Insufficient funds", normalizeNetwork's "Unknown network", or an error
\* of the engine's buildPartialTx; it never changes the builder.
Build(h) ==
    \/ Len(inputs) = 0 /\ Throws
    \/ Len(inputs) > 0 /\ Len(outputs) = 0 /\ Throws
    \/ /\ Len(inputs) > 0 /\ Len(outputs) > 0
       /\ \E i \in DOMAIN inputs : inputs[i].script = NoScript
       /\ Throws
    \/ /\ Len(inputs) > 0 /\ Len(outputs) > 0
       /\ \A i \in DOMAIN inputs : inputs[i].script # NoScript
       /\ \/ FinalFee < 0 /\ Throws
          \/ FinalFee >= 0 /\ ~IsKnownNetwork(network) /\ Throws
          \/ FinalFee >= 0 /\ IsKnownNetwork(network) /\ Throws
          \/ /\ FinalFee >= 0 /\ IsKnownNetwork(network)
             /\ result' = [unsignedTx   |-> BuildTransaction(inputs, FinalOutputs, h, 0),
                           fee          |-> FinalFee,
                           totalInput   |-> TotalInput,
                           totalOutput  |-> ValueSum(FinalOutputs),
                           changeAmount |-> IF AddsChange THEN Change ELSE 0]
             /\ builtWith' = [outputs       |-> outputs,
                              changeAddress |-> changeAddress,
                              dustThreshold |-> dustThreshold]
             /\ signedTx' = NoResult
             /\ UNCHANGED <<builderVars, selectedFor>>

\* clear(): inputs and outputs only; configuration is kept
Clear ==
    /\ inputs' = <<>>
    /\ outputs' = <<>>
    /\ selectedFor' = NoResult
    /\ Returns
    /\ UNCHANGED <<network, changeAddress, feeRate, dustThreshold>>

\* TransactionBuilder.sign(buildResult, privateKey, network, pubkey) on the
\* BuildResult the caller holds.  It throws "Invalid private key format"
\* (signSighashes), "Unknown network" (normalizeNetwork) or an error of the
\* engine's applyTxSignatures; the caller keeps its BuildResult either way.
Sign(key, net) ==
    /\ result # NoResult
    /\ \/ key \notin ValidKeys /\ signedTx' = NoResult
       \/ key \in ValidKeys /\ ~IsKnownNetwork(net) /\ signedTx' = NoResult
       \/ key \in ValidKeys /\ IsKnownNetwork(net) /\ signedTx' = NoResult
       \/ /\ key \in ValidKeys /\ IsKnownNetwork(net)
          /\ signedTx' = [tx           |-> result.unsignedTx,
                          network      |-> NormalizeNetwork(net),
                          fee          |-> result.fee,
                          totalInput   |-> result.totalInput,
                          totalOutput  |-> result.totalOutput,
                          changeAmount |-> result.changeAmount]
    /\ UNCHANGED <<builderVars, result, builtWith, selectedFor>>

Next ==
    \/ \E u \in Utxos : AddInput(u)
    \/ \E us \in CandidateLists : AddInputs(us)
    \/ \E a \in Addrs, v \in OutputValues, m \in Memos : AddOutput(a, v, m)
    \/ \E a \in Addrs : SetChangeAddress(a)
    \/ \E r \in FeeRates : SetFeeRate(r)
    \/ \E t \in Thresholds : SetDustThreshold(t)
    \/ \E cs \in CandidateLists : SelectAll(cs)
    \/ \E cs \in CandidateLists : SelectAccumulative(cs)
    \/ \E h \in BlockHeights : Build(h)
    \/ Clear
    \/ \E k \in PrivateKeys, n \in SignNetworks : Sign(k, n)

Spec == Init /\ [][Next]_vars

-----------------------------------------------------------------------------
(***************************************************************************)
(* Types                                                                   *)
(***************************************************************************)
Outputs == TxOutput(Addresses)

UnsignedTransactions ==
    [inputs : Seq(UTXO(UtxoIds)), outputs : Seq(Outputs),
     height : Nat, expiryHeight : Nat]

BuildResults ==
    [unsignedTx : UnsignedTransactions, fee : Int, totalInput : Int,
     totalOutput : Int, changeAmount : Int]

SignedTransactions ==
    [tx : UnsignedTransactions, network : {"Main", "Test", "Regtest"}, fee : Int,
     totalInput : Int, totalOutput : Int, changeAmount : Int]

\* Type invariant: the builder's fields and the caller's BuildResult and
\* SignedTransaction keep their types through every method; in particular
\* sign() reports one of the engine's three network names (normalizeNetwork)
TypeOK ==
    /\ network \in NetworkArgs
    /\ inputs \in Seq(UTXO(UtxoIds))
    /\ outputs \in Seq(Outputs)
    /\ changeAddress \in Addresses \cup {NoAddress}
    /\ feeRate \in Nat
    /\ dustThreshold \in Nat
    /\ result \in BuildResults \cup {NoResult}
    /\ signedTx \in SignedTransactions \cup {NoResult}
    /\ builtWith \in [outputs : Seq(Outputs),
                      changeAddress : Addresses \cup {NoAddress},
                      dustThreshold : Nat] \cup {NoResult}
    /\ selectedFor \in [targets : Seq(Outputs)] \cup {NoResult}

(***************************************************************************)
(* Every output of a built transaction, the change output included, pays   *)
(* an address valid for the builder's network and carries either a        *)
(* positive value or a memo (spec 3: zero-value outputs carry a memo).     *)
(* The outputs come from addOutput's checks; the change output from the   *)
(* change > dustThreshold test in build() and setChangeAddress's check.   *)
(***************************************************************************)
BuiltOutputsPayable ==
    result # NoResult =>
        \A i \in DOMAIN result.unsignedTx.outputs :
            LET o == result.unsignedTx.outputs[i]
            IN  /\ IsValidAddr(o.address, network)
                /\ o.value > 0 \/ (o.value = 0 /\ o.memo > 0)

(***************************************************************************)
(* Spec 8, dust policy, for the builder state the build saw: the outputs   *)
(* are those of the builder followed by at most one change output; there   *)
(* is one exactly when changeAmount > 0, it pays the change address the    *)
(* changeAmount, which exceeds the threshold; and with a change address    *)
(* set the fee never exceeds the estimate by more than the threshold (the  *)
(* folded dust).                                                           *)
(***************************************************************************)
DustPolicy ==
    result # NoResult =>
        LET tx  == result.unsignedTx
            ctx == builtWith
            n   == Len(ctx.outputs)
        IN  /\ SubSeq(tx.outputs, 1, n) = ctx.outputs
            /\ Len(tx.outputs) = IF result.changeAmount > 0 THEN n + 1 ELSE n
            /\ result.changeAmount > 0 =>
                   /\ tx.outputs[n + 1] = [address |-> ctx.changeAddress,
                                           value   |-> result.changeAmount,
                                           memo    |-> 0]
                   /\ result.changeAmount > ctx.dustThreshold
            /\ ctx.changeAddress # NoAddress =>
                   result.fee <= GetFee(Len(tx.inputs), n + 1, 0) + ctx.dustThreshold

(***************************************************************************)
(* Inputs picked by selectUTXOs("accumulative") pay for what build()       *)
(* charges, as long as the outputs are those they were selected for: the  *)
(* selector budgets one extra output and the memo bytes, build() at most   *)
(* one extra output and no memo bytes, so a change address set or a       *)
(* threshold changed after the selection cannot make build() short.        *)
(***************************************************************************)
SelectionCoversBuild ==
    selectedFor = [targets |-> outputs] => TotalInput >= TotalOutput + EstimatedFee

(***************************************************************************)
(* Spec 4.5: build() fails with InsufficientFunds when the inputs do not   *)
(* cover the outputs plus the fee.  The code only refuses a negative final *)
(* fee, so a build whose inputs exceed the outputs by less than the        *)
(* estimated fee succeeds with a fee below the estimate.                   *)
(***************************************************************************)
BuildChargesEstimatedFee ==
    result # NoResult =>
        result.fee >= GetFee(Len(result.unsignedTx.inputs),
                             IF builtWith.changeAddress # NoAddress
                             THEN Len(builtWith.outputs) + 1
                             ELSE Len(builtWith.outputs), 0)

(***************************************************************************)
(* Spec 4.1: isValid returns false on any decode failure, a bad checksum   *)
(* included.  isValidAddr decodes with plain bs58, so addOutput and        *)
(* setChangeAddress accept an address whose checksum does not verify.      *)
(***************************************************************************)
AcceptedAddressesVerify ==
    /\ \A i \in DOMAIN outputs : DecodesWithChecksum(outputs[i].address)
    /\ changeAddress # NoAddress => DecodesWithChecksum(changeAddress)

(***************************************************************************)
(* Spec 4.5 and 9: build() fails with MissingScript for an input without a *)
(* script, and the placeholder script is a legacy-path default only.       *)
(* selectUTXOs("accumulative") runs every candidate through               *)
(* ensureValidUTXO, so an input without a script reaches the engine with   *)
(* the all-zero placeholder script.                                        *)
(***************************************************************************)
BuiltInputsCarryOwnScripts ==
    result # NoResult =>
        \A i \in DOMAIN result.unsignedTx.inputs :
            result.unsignedTx.inputs[i].script = OwnScript

(***************************************************************************)
(* Spec 3: no value is created: totalInput is the value of the distinct   *)
(* outpoints the transaction spends.  addInput/addInputs/selectUTXOs("all")*)
(* never check for an outpoint already in the list, so one UTXO added      *)
(* twice is counted twice.                                                 *)
(***************************************************************************)
BuiltInputsDistinct ==
    result # NoResult =>
        \A i, j \in DOMAIN result.unsignedTx.inputs :
            i # j => result.unsignedTx.inputs[i].txid # result.unsignedTx.inputs[j].txid
=============================================================================
