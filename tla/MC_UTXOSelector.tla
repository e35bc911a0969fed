--------------------------- MODULE MC_UTXOSelector ---------------------------
(***************************************************************************)
(* A caller invoking selectUTXOs over and over with candidate lists and    *)
(* target lists drawn from small sets, and the properties of one call.     *)
(***************************************************************************)
EXTENDS UTXOSelector, AddressCodec

CONSTANTS
    u1, u2, u3, u4, \* outpoint identities (txid:vout) of the candidates
    MaxCandidates   \* longest candidate list tried

TxIds == {u1, u2, u3, u4}

\* Two candidates of equal value, and one without a script
Pool == {[txid |-> u1, value |-> 30, script |-> OwnScript],
         [txid |-> u2, value |-> 20, script |-> OwnScript],
         [txid |-> u3, value |-> 20, script |-> OwnScript],
         [txid |-> u4, value |-> 12, script |-> NoScript]}

Dest == [prefix |-> TestPrefix, base58 |-> TRUE, checksum |-> TRUE]

\* One payment, a larger one, a memo-only output, and a payment with a memo
TargetLists ==
    {<<[address |-> Dest, value |-> 10, memo |-> 0]>>,
     <<[address |-> Dest, value |-> 25, memo |-> 0]>>,
     <<[address |-> Dest, value |-> 0, memo |-> 40]>>,
     <<[address |-> Dest, value |-> 10, memo |-> 0], [address |-> Dest, value |-> 0, memo |-> 40]>>}

\* Candidate lists: every list of distinct pool UTXOs up to MaxCandidates
CandidateLists ==
    UNION {{s \in [1..n -> Pool] : \A i, j \in 1..n : i # j => s[i].txid # s[j].txid}
             : n \in 0..MaxCandidates}

ChangeAddr == [prefix |-> TestPrefix, base58 |-> TRUE, checksum |-> TRUE]

VARIABLES utxos, targets, selection
vars == <<utxos, targets, selection>>

Init ==
    /\ utxos \in CandidateLists
    /\ targets \in TargetLists
    /\ selection = SelectUTXOs(utxos, targets, ChangeAddr)

\* One call of selectUTXOs with new arguments
Select ==
    \E u \in CandidateLists, t \in TargetLists :
        /\ utxos' = u
        /\ targets' = t
        /\ selection' = SelectUTXOs(u, t, ChangeAddr)

Next == Select

Spec == Init /\ [][Next]_vars

-----------------------------------------------------------------------------
\* Type invariant: a non-null selection of selectUTXOs spends UTXOs that all
\* carry a script (ensureValidUTXO has run on every candidate it takes)
TypeOK ==
    /\ utxos \in CandidateLists
    /\ targets \in TargetLists
    /\ selection = NoSelection
       \/ /\ selection.inputs \in Seq(ValidUTXO(TxIds))
          /\ selection.fee \in Nat

\* Sum of the candidates at a set of list positions
IndexSetValue(I) == SeqSum([i \in I |-> utxos[i].value])

(***************************************************************************)
(* The refinement mapping onto SelectionSpec: the arguments are the same,  *)
(* and a selection is seen with its inputs as a set.                       *)
(***************************************************************************)
AbsChosen ==
    IF selection = NoSelection THEN [null |-> TRUE]
    ELSE [inputs  |-> {selection.inputs[i] : i \in DOMAIN selection.inputs},
          outputs |-> selection.outputs,
          fee     |-> selection.fee]

Abs == INSTANCE SelectionSpec WITH cands <- utxos, tgts <- targets, chosen <- AbsChosen

(***************************************************************************)
(* selectUTXOs implements the declarative promise: its sortBy, reverse and *)
(* first-stop loop return a largest-first set of the fewest candidates     *)
(* that covers targets plus fee, with the fee and change of that set, and  *)
(* null exactly when the targets sum to zero or no such set exists.        *)
(***************************************************************************)
SelectionRefinesPromise == Abs!AbsSpec

Selected(u) == \E k \in DOMAIN selection.inputs : selection.inputs[k].txid = u.txid

(***************************************************************************)
(* Accounting of a selection: the chosen inputs cover the targets plus the *)
(* fee charged for that many inputs, and everything they carry beyond the  *)
(* targets and the fee goes to the change output, except a leftover of at  *)
(* most 546 that is silently added to the miner's fee (selectUTXOs, the    *)
(* change test after the accumulation loop).                               *)
(***************************************************************************)
SelectionAccounting ==
    selection # NoSelection =>
        LET inSum    == ValueSum(selection.inputs)
            leftover == inSum - ValueSum(selection.outputs) - selection.fee
        IN  /\ selection.fee = SelectionFee(Len(selection.inputs), targets)
            /\ inSum >= ValueSum(targets) + selection.fee
            /\ leftover \in 0..BITCOIN_DUST

(***************************************************************************)
(* The largest-first loop uses the fewest inputs possible: no set of fewer *)
(* candidates covers the targets plus the fee for that many inputs.  This  *)
(* depends on the descending order produced by sortBy(...).reverse().     *)
(***************************************************************************)
SelectionMinimal ==
    selection # NoSelection =>
        \A I \in SUBSET DOMAIN utxos :
            Cardinality(I) < Len(selection.inputs) =>
                IndexSetValue(I) < ValueSum(targets) + SelectionFee(Cardinality(I), targets)

(***************************************************************************)
(* Spec 4.4: equal-value UTXOs keep their relative input order, so of two  *)
(* candidates of the same value the earlier one is taken first.            *)
(* sortBy is stable but the .reverse() after it flips ties.                *)
(***************************************************************************)
TiesKeepInputOrder ==
    selection # NoSelection =>
        \A i, j \in DOMAIN utxos :
            (i < j /\ utxos[i].value = utxos[j].value /\ Selected(utxos[j]))
                => Selected(utxos[i])

(***************************************************************************)
(* Spec 4.4 / 8: selection never fails when the whole candidate list       *)
(* covers the targets plus the fee for all of it.  selectUTXOs returns     *)
(* null up front when the targets sum to zero (memo-only outputs).         *)
(***************************************************************************)
SelectionComplete ==
    (Len(utxos) > 0 /\ ValueSum(utxos) >= ValueSum(targets) + SelectionFee(Len(utxos), targets))
        => selection # NoSelection
=============================================================================
