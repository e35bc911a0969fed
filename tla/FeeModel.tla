------------------------------ MODULE FeeModel ------------------------------
(***************************************************************************)
(* The fee and size estimates of src/chain/zec/ts/src/builder.ts: a fixed  *)
(* base fee plus a marginal fee per input and per output, with at least    *)
(* one input and two outputs charged, and memo bytes charged in            *)
(* MEMO_OUTPUT_SIZE-byte chunks.                                           *)
(***************************************************************************)
EXTENDS Integers

CONSTANTS
    BASE_RELAY_FEE,     \* 10000 zatoshis in the code
    MARGINAL_FEE,       \* 5000 zatoshis per input and per output
    MEMO_OUTPUT_SIZE    \* 34 bytes per memo chunk

ASSUME FeeConstantsAssumption ==
    /\ BASE_RELAY_FEE \in Nat
    /\ MARGINAL_FEE \in Nat
    /\ MEMO_OUTPUT_SIZE \in Nat \ {0}

\* Math.max on integers
MaxInt(a, b) == IF a >= b THEN a ELSE b

\* Math.ceil(a / b) for a >= 0 and b > 0
CeilDiv(a, b) == (a + b - 1) \div b

\* Math.ceil((memoLength + 2) / MEMO_OUTPUT_SIZE), charged only for a memo
MemoOutputs(memoLength) ==
    IF memoLength > 0 THEN CeilDiv(memoLength + 2, MEMO_OUTPUT_SIZE) ELSE 0

\* getFee(inputCount, outputCount, memoLength = 0)
GetFee(inputCount, outputCount, memoLength) ==
    LET totalInputs  == MaxInt(inputCount, 1)
        totalOutputs == MaxInt(outputCount, 2) + MemoOutputs(memoLength)
    IN  totalInputs * MARGINAL_FEE + totalOutputs * MARGINAL_FEE + BASE_RELAY_FEE

\* estimateTransactionSize(inputCount, outputCount, memoLength = 0)
EstimateTransactionSize(inputCount, outputCount, memoLength) ==
    40 + inputCount * 150 + (outputCount + MemoOutputs(memoLength)) * 34
=============================================================================
