---------------------------- MODULE BuilderNumbers ----------------------------
(***************************************************************************)
(* The amounts of TransactionBuilder (src/chain/zec/ts/src/index.ts) as    *)
(* the JavaScript numbers they are.  addOutput and setDustThreshold only   *)
(* test value < 0, value === 0 and threshold < 0, and build() only         *)
(* finalFee < 0; every comparison with NaN is false, and Infinity passes   *)
(* the sign tests.  Module TransactionBuilder models the same methods over *)
(* integers; this one keeps only what the numbers decide: addresses are    *)
(* valid, inputs have scripts, and the engine returns.                     *)
(*                                                                         *)
(* A number is a finite integer, NaN, or an infinity of either sign.       *)
(* Double rounding of finite sums (above 2^53) is not modelled.            *)
(***************************************************************************)
EXTENDS Integers, Sequences, FeeModel

CONSTANTS
    InputValues,    \* utxo.value of the UTXOs a caller adds (the node's integers)
    OutputValues,   \* value arguments of addOutput, as numbers
    Thresholds,     \* arguments of setDustThreshold, as numbers
    MaxInputs,      \* calls bound: inputs a caller adds
    MaxOutputs      \* calls bound: outputs a caller adds

Fin(n) == [k |-> "fin", v |-> n]
NaN == [k |-> "nan"]
Inf(s) == [k |-> "inf", s |-> s]

IsFinite(x) == x.k = "fin"

\* The abstract relation x < y of ECMAScript on numbers
JsLt(x, y) ==
    IF x.k = "nan" \/ y.k = "nan" THEN FALSE
    ELSE IF x.k = "inf" /\ y.k = "inf" THEN x.s < y.s
    ELSE IF x.k = "inf" THEN x.s = -1
    ELSE IF y.k = "inf" THEN y.s = 1
    ELSE x.v < y.v

\* x === y on numbers (NaN is unequal to itself)
JsEq(x, y) ==
    \/ IsFinite(x) /\ IsFinite(y) /\ x.v = y.v
    \/ x.k = "inf" /\ y.k = "inf" /\ x.s = y.s

\* x + y and x - y
JsAdd(x, y) ==
    IF x.k = "nan" \/ y.k = "nan" THEN NaN
    ELSE IF x.k = "inf" /\ y.k = "inf" /\ x.s # y.s THEN NaN
    ELSE IF x.k = "inf" THEN x
    ELSE IF y.k = "inf" THEN y
    ELSE Fin(x.v + y.v)

JsNeg(x) == CASE x.k = "fin" -> Fin(-x.v) [] x.k = "inf" -> Inf(-x.s) [] OTHER -> x

JsSub(x, y) == JsAdd(x, JsNeg(y))

\* xs.reduce((sum, x) => sum + x.value, 0), left to right
RECURSIVE JsSumTo(_, _)
JsSumTo(xs, n) == IF n = 0 THEN Fin(0) ELSE JsAdd(JsSumTo(xs, n - 1), xs[n])
JsSum(xs) == JsSumTo(xs, Len(xs))

VARIABLES inputs, outputs, hasChange, dustThreshold, result
vars == <<inputs, outputs, hasChange, dustThreshold, result>>

Init ==
    /\ inputs = <<>>
    /\ outputs = <<>>
    /\ hasChange = FALSE
    /\ dustThreshold = Fin(546)
    /\ result = [kind |-> "none"]

\* addInput(utxo), with the node's integer value
AddInput(v) ==
    /\ Len(inputs) < MaxInputs
    /\ inputs' = Append(inputs, Fin(v))
    /\ UNCHANGED <<outputs, hasChange, dustThreshold, result>>

\* Mutant: the value < 0 check dropped
AddOutputNoSignCheck(v, memo) ==
    /\ Len(outputs) < MaxOutputs
    /\ IF JsEq(v, Fin(0)) /\ ~memo THEN UNCHANGED outputs ELSE outputs' = Append(outputs, v)
    /\ UNCHANGED <<inputs, hasChange, dustThreshold, result>>

\* addOutput(address, value, memo): value < 0 throws, value === 0 && !memo
\* throws; a throw changes nothing
AddOutput(v, memo) ==
    /\ Len(outputs) < MaxOutputs
    /\ IF JsLt(v, Fin(0)) \/ (JsEq(v, Fin(0)) /\ ~memo)
       THEN UNCHANGED outputs
       ELSE outputs' = Append(outputs, v)
    /\ UNCHANGED <<inputs, hasChange, dustThreshold, result>>

\* setChangeAddress(address) with a valid address
SetChangeAddress ==
    /\ hasChange' = TRUE
    /\ UNCHANGED <<inputs, outputs, dustThreshold, result>>

\* setDustThreshold(threshold): threshold < 0 throws
SetDustThreshold(t) ==
    /\ dustThreshold' = IF JsLt(t, Fin(0)) THEN dustThreshold ELSE t
    /\ UNCHANGED <<inputs, outputs, hasChange, result>>

(***************************************************************************)
(* build(): the totals, calculateFee(inputs, outputCount), change, the     *)
(* change output when change > dustThreshold and a change address is set, *)
(* finalFee = totalInput - finalTotalOutput, and finalFee < 0 throws.      *)
(***************************************************************************)
Build ==
    /\ Len(inputs) > 0 /\ Len(outputs) > 0
    /\ LET totalInput  == JsSum(inputs)
           outputCount == IF hasChange THEN Len(outputs) + 1 ELSE Len(outputs)
           fee         == Fin(GetFee(Len(inputs), outputCount, 0))
           change      == JsSub(JsSub(totalInput, JsSum(outputs)), fee)
           final       == IF JsLt(dustThreshold, change) /\ hasChange
                          THEN Append(outputs, change) ELSE outputs
           finalFee    == JsSub(totalInput, JsSum(final))
       IN  result' = IF JsLt(finalFee, Fin(0))
                     THEN [kind |-> "error"]
                     ELSE [kind |-> "built", totalInput |-> totalInput,
                           outputs |-> final, fee |-> finalFee]
    /\ UNCHANGED <<inputs, outputs, hasChange, dustThreshold>>

Next ==
    \/ \E v \in InputValues : AddInput(v)
    \/ \E v \in OutputValues, memo \in BOOLEAN : AddOutput(v, memo)
    \/ SetChangeAddress
    \/ \E t \in Thresholds : SetDustThreshold(t)
    \/ Build

Spec == Init /\ [][Next]_vars

-----------------------------------------------------------------------------
\* Type invariant: inputs are the node's integers, and no stored output or
\* threshold is a negative finite number or minus infinity
TypeOK ==
    /\ inputs \in Seq({Fin(v) : v \in InputValues})
    /\ \A i \in DOMAIN outputs : ~JsLt(outputs[i], Fin(0))
    /\ ~JsLt(dustThreshold, Fin(0))
    /\ result.kind \in {"none", "error", "built"}

(***************************************************************************)
(* Spec 3: every accepted output value is a non-negative integer, and an   *)
(* accepted build has totalInput = totalOutput + fee exactly.  A NaN value *)
(* passes addOutput's two checks, an infinite one passes as well, and      *)
(* build()'s finalFee < 0 is false for a NaN fee.                          *)
(***************************************************************************)
BuiltAmountsAreIntegers ==
    result.kind = "built" =>
        /\ \A i \in DOMAIN result.outputs : IsFinite(result.outputs[i])
        /\ IsFinite(result.fee)
        /\ result.totalInput = JsAdd(JsSum(result.outputs), result.fee)
=============================================================================
