----------------------------- MODULE StandaloneTx -----------------------------
(***************************************************************************)
(* The free transaction functions of src/chain/zec/ts/src/index.ts, which  *)
(* a caller uses without a TransactionBuilder: the legacy one-shot         *)
(* buildTx(config, utxos, outputs, height) with its own getFee(utxos,      *)
(* outputs), and buildTransaction(params), which the builder's build()     *)
(* also calls to hand the draft to the native engine.                      *)
(*                                                                         *)
(* Every function is stateless; the state is the caller's last call and    *)
(* what it returned, so that a property can relate the two.  A throw is    *)
(* the error it raises.  The native engine is opaque: it returns the       *)
(* draft it was given or throws.                                           *)
(***************************************************************************)
EXTENDS Integers, Sequences, Bitwise, TxTypes, FeeModel, AddressCodec

LOCAL INSTANCE Functions

CONSTANTS
    UtxoIds,        \* outpoint identities (txid:vout)
    UtxoLists,      \* utxos / params.inputs arguments tried
    LegacyOutputLists, \* outputs arguments of buildTx (OutputPKH | OutputMemo)
    ConfigNetworks, \* config.network values (the Config type's spellings)
    BlockHeights,   \* blockHeight / height arguments
    ExpiryArgs,     \* explicit params.expiryHeight values
    NetworkArgsTried \* params.network arguments of buildTransaction

\* params.expiryHeight: omitted (undefined), or a height given
Omitted == [given |-> FALSE]
Given(x) == [given |-> TRUE, height |-> x]

\* interface OutputPKH { type: "pkh"; address; amount } and
\* interface OutputMemo { type: "memo"; memo } (the memo as its length)
OutputPKH == [type : {"pkh"}, address : Addresses, amount : Int]
OutputMemo == [type : {"memo"}, memo : Nat]

Errors == {"No inputs provided", "No outputs provided", "Insufficient funds",
           "Invalid address", "Unknown network", "Engine error"}

\* A call's outcome when the function throws
Throw(e) == [kind |-> "error", error |-> e]

VARIABLES call, result
vars == <<call, result>>

-----------------------------------------------------------------------------
(* buildTx and its helpers                                                 *)

\* Array.reduce with + over a list of integers (amounts may be negative)
IntSum(f) == SumFunction(f)

\* getFee(utxos, outputs): the memo lengths of the memo outputs summed
LegacyMemoLength(outputs) ==
    IntSum([i \in DOMAIN outputs |->
              IF outputs[i].type = "memo" THEN outputs[i].memo ELSE 0])

LegacyGetFee(utxos, outputs) ==
    GetFee(Len(utxos), Len(outputs), LegacyMemoLength(outputs))

\* buildTx's totalOutput: the amounts of the "pkh" outputs only
LegacyTotalOutput(outputs) ==
    IntSum([i \in DOMAIN outputs |->
              IF outputs[i].type = "pkh" THEN outputs[i].amount ELSE 0])

\* Mutant: the missing script left missing
WithScriptsKeepsMissing(utxos) == utxos

\* utxos.map((utxo) => ({...utxo, script: utxo.script || placeholder}))
WithScripts(utxos) ==
    [i \in DOMAIN utxos |->
        IF utxos[i].script = NoScript
        THEN [utxos[i] EXCEPT !.script = PlaceholderScript]
        ELSE utxos[i]]

(***************************************************************************)
(* OVERWINTER_FLAG | VERSION_5.  JavaScript's | converts both operands     *)
(* with ToInt32 and ORs their 32-bit patterns.  ToInt32(0x80000000) is     *)
(* -2^31; the literal itself is beyond TLC's integers, so the flag is      *)
(* written as that ToInt32 value.  An int32 is its sign bit and its low    *)
(* 31 bits.                                                                *)
(***************************************************************************)
MinInt32 == -2147483647 - 1
Low31(x) == IF x < 0 THEN x - MinInt32 ELSE x
Int32Or(a, b) ==
    IF a < 0 \/ b < 0 THEN MinInt32 + (Low31(a) | Low31(b)) ELSE Low31(a) | Low31(b)

OVERWINTER_FLAG == MinInt32   \* 0x80000000, as ToInt32 reads it
VERSION_5 == 5

LegacyVersion == Int32Or(OVERWINTER_FLAG, VERSION_5)

\* The regtest network buildTx validates every address against
Regtest == [name |-> "regtest", upper |-> FALSE]

(***************************************************************************)
(* buildTx(_config, utxos, outputs, _height): the checks in the code's     *)
(* order, then the Tx.  The config and the height are never read.          *)
(***************************************************************************)
BuildTx(utxos, outputs) ==
    LET fee == LegacyGetFee(utxos, outputs)
    IN  IF Len(utxos) = 0 THEN Throw("No inputs provided")
        ELSE IF Len(outputs) = 0 THEN Throw("No outputs provided")
        ELSE IF ValueSum(utxos) < LegacyTotalOutput(outputs) + fee
        THEN Throw("Insufficient funds")
        ELSE IF \E i \in DOMAIN outputs :
                   outputs[i].type = "pkh" /\ ~IsValidAddr(outputs[i].address, Regtest)
        THEN Throw("Invalid address")
        ELSE [kind |-> "tx", version |-> LegacyVersion,
              inputs |-> WithScripts(utxos), outputs |-> outputs, fee |-> fee]

\* A caller calls buildTx
LegacyBuildTx ==
    \E config \in ConfigNetworks, utxos \in UtxoLists,
       outputs \in LegacyOutputLists :
        /\ call' = [fn |-> "buildTx", network |-> config, utxos |-> utxos,
                    outputs |-> outputs]
        /\ result' = BuildTx(utxos, outputs)

-----------------------------------------------------------------------------
(* buildTransaction(params)                                                *)

\* params.expiryHeight !== undefined ? params.expiryHeight : blockHeight + 40
ExpiryHeight(h, exp) == IF exp.given THEN exp.height ELSE h + 40

(***************************************************************************)
(* buildTransaction: the inputs get the placeholder script, the expiry is  *)
(* defaulted, the network normalized (which throws on an unknown name),    *)
(* and the engine's buildPartialTx either returns or throws.  The outputs  *)
(* are passed on and are not modelled here.                                *)
(***************************************************************************)
BuildTransaction(inputs, n, h, exp) ==
    /\ result' \in
         IF ~IsKnownNetwork(n) THEN {Throw("Unknown network")}
         ELSE {[kind |-> "draft", height |-> h,
                expiryHeight |-> ExpiryHeight(h, exp),
                inputs |-> WithScripts(inputs), network |-> NormalizeNetwork(n)],
               Throw("Engine error")}

\* A caller calls buildTransaction, with or without an expiry height
CallBuildTransaction ==
    \E inputs \in UtxoLists, n \in NetworkArgsTried, h \in BlockHeights,
       exp \in {Given(x) : x \in ExpiryArgs} \cup {Omitted} :
        /\ call' = [fn |-> "buildTransaction", expiryGiven |-> exp.given]
        /\ BuildTransaction(inputs, n, h, exp)

\* TransactionBuilder.build(blockHeight, pubkey), once its checks pass
\* (every input has a script), calls buildTransaction with its inputs and
\* expiryHeight: 0; build's own caller has no way to give an expiry
BuilderBuild ==
    \E inputs \in {l \in UtxoLists :
                      Len(l) > 0 /\ \A i \in DOMAIN l : l[i].script # NoScript},
       n \in NetworkArgsTried, h \in BlockHeights :
        /\ call' = [fn |-> "build", expiryGiven |-> FALSE]
        /\ BuildTransaction(inputs, n, h, Given(0))

Init ==
    /\ call = [fn |-> "none"]
    /\ result = [kind |-> "none"]

Next == LegacyBuildTx \/ CallBuildTransaction \/ BuilderBuild

Spec == Init /\ [][Next]_vars

-----------------------------------------------------------------------------
\* A Tx, a draft, or an error with one of the messages the code throws
TypeOK ==
    /\ result.kind \in {"none", "tx", "draft", "error"}
    /\ result.kind = "error" => result.error \in Errors
    /\ result.kind = "tx" =>
          /\ result.inputs \in Seq(ValidUTXO(UtxoIds))
          /\ result.fee \in Nat
          /\ result.version \in MinInt32..2147483647
    /\ result.kind = "draft" =>
          /\ result.inputs \in Seq(ValidUTXO(UtxoIds))
          /\ result.network \in {"Main", "Test", "Regtest"}

(***************************************************************************)
(* Spec 3: totalInput = totalOutput + fee for any accepted build.  buildTx *)
(* reports getFee's estimate as the fee and adds no change output, so the  *)
(* inputs' excess is spent as an unreported fee.                           *)
(***************************************************************************)
LegacyFeeIsResidual ==
    result.kind = "tx" =>
        ValueSum(result.inputs) = LegacyTotalOutput(result.outputs) + result.fee

(***************************************************************************)
(* Spec 3: every output other than a memo-only one has a positive value.   *)
(* buildTx never looks at the sign of a payment's amount.                  *)
(***************************************************************************)
LegacyAmountsPositive ==
    result.kind = "tx" =>
        \A i \in DOMAIN result.outputs :
            result.outputs[i].type = "pkh" => result.outputs[i].amount > 0

(***************************************************************************)
(* Spec 4.5: when the caller gives no expiry height the draft handed to    *)
(* the engine expires at blockHeight + 40.  TransactionBuilder.build()     *)
(* gives its caller no expiry parameter and always passes expiryHeight 0,  *)
(* "never expires".                                                        *)
(***************************************************************************)
DefaultExpiry ==
    (result.kind = "draft" /\ ~call.expiryGiven) =>
        result.expiryHeight = result.height + 40
=============================================================================
