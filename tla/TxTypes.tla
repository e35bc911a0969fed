------------------------------ MODULE TxTypes ------------------------------
(***************************************************************************)
(* The data records of src/chain/zec/ts/src/types.ts and the value sums    *)
(* the code takes over them (lodash sumBy and Array.reduce).               *)
(*                                                                         *)
(* A UTXO is a record of its outpoint identity, its value in zatoshis and  *)
(* its locking script.  The script is abstracted to what the code tells    *)
(* apart: the UTXO's own script, no script (undefined or "", both falsy)   *)
(* and the all-zero P2PKH placeholder "76a914" ++ "00"*20 ++ "88ac" that   *)
(* ensureValidUTXO and buildTransaction substitute for a missing one.      *)
(*                                                                         *)
(* A memo is abstracted to its length: the code only tests it for          *)
(* emptiness (!memo) and reads memo.length; an absent memo and "" both     *)
(* have length 0.                                                          *)
(***************************************************************************)
EXTENDS Integers, Sequences, FiniteSets

OwnScript         == "own"
NoScript          == "none"
PlaceholderScript == "placeholder"
Scripts == {OwnScript, NoScript, PlaceholderScript}

\* interface UTXO { txid; vout; value; height; script? } (txid:vout as one id)
UTXO(Ids) == [txid : Ids, value : Nat, script : Scripts]

\* interface ValidUTXO extends UTXO { script: string }
ValidUTXO(Ids) == {u \in UTXO(Ids) : u.script # NoScript}

\* interface TxOutput { address; value; memo? }
TxOutput(Addrs) == [address : Addrs, value : Int, memo : Nat]

(***************************************************************************)
(* Sum of a sequence of naturals.  The code folds with +; the model counts *)
(* the units of every entry, which is the same number and keeps the        *)
(* definition free of recursion, so that the proofs can reason about it    *)
(* with the finite-set theorems.                                           *)
(***************************************************************************)
Units(s) == UNION {{<<i, k>> : k \in 1..s[i]} : i \in DOMAIN s}
SeqSum(s) == Cardinality(Units(s))

\* sumBy(xs, "value") and xs.reduce((sum, x) => sum + x.value, 0)
ValueSum(xs) == SeqSum([i \in DOMAIN xs |-> xs[i].value])

\* sumBy(targets, (t) => t.memo?.length || 0)
MemoSum(xs) == SeqSum([i \in DOMAIN xs |-> xs[i].memo])
=============================================================================
