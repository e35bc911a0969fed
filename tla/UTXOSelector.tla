---------------------------- MODULE UTXOSelector ----------------------------
(***************************************************************************)
(* selectUTXOs of src/chain/zec/ts/src/builder.ts: the accumulative,       *)
(* largest-first coin selection.  The candidates are given a script        *)
(* (ensureValidUTXO), sorted with lodash sortBy(.., ["value"]) (stable,    *)
(* ascending) and reversed; the loop then takes candidates one by one and  *)
(* stops at the first count whose accumulated value covers the targets     *)
(* plus the fee for that count.                                            *)
(***************************************************************************)
EXTENDS TxTypes, FeeModel

CONSTANT BITCOIN_DUST   \* the literal 546 of the change test in selectUTXOs

ASSUME DustConstantAssumption == BITCOIN_DUST \in Nat

\* selectUTXOs returns null
NoSelection == [null |-> TRUE]

\* Mutant: a missing script is passed through instead of defaulted
EnsureValidUTXOKeepsMissing(u) == u

\* ensureValidUTXO(utxo)
EnsureValidUTXO(u) ==
    [u EXCEPT !.script = IF @ = NoScript THEN PlaceholderScript ELSE @]

\* Position of s[i] in the stable ascending sort by value: one more than
\* the number of entries with a smaller value or an equal value before it.
SortRank(s, i) ==
    Cardinality({j \in DOMAIN s : \/ s[j].value < s[i].value
                                  \/ s[j].value = s[i].value /\ j < i}) + 1

\* sortBy(s, ["value"])
SortByValue(s) ==
    [k \in 1..Len(s) |-> s[CHOOSE i \in DOMAIN s : SortRank(s, i) = k]]

\* Array.prototype.reverse
ReverseSeq(s) == [k \in 1..Len(s) |-> s[Len(s) + 1 - k]]

\* Mutant: the .reverse() is dropped, so the smallest candidates come first
SortedCandidatesAscending(utxos) ==
    SortByValue([i \in DOMAIN utxos |-> EnsureValidUTXO(utxos[i])])

\* sortBy(validUtxos, ["value"]).reverse()
SortedCandidates(utxos) ==
    ReverseSeq(SortByValue([i \in DOMAIN utxos |-> EnsureValidUTXO(utxos[i])]))

\* The fee the loop charges after taking k inputs: targets.length + 1
\* outputs, reserving one for the change, and all target memo bytes.
\* Mutant: no output slot is reserved for the change
SelectionFeeNoChangeSlot(k, targets) == GetFee(k, Len(targets), MemoSum(targets))

SelectionFee(k, targets) == GetFee(k, Len(targets) + 1, MemoSum(targets))

\* Mutant: the change is taken before the fee is paid
SelectionChangeNoFee(inputs, targets) == ValueSum(inputs) - ValueSum(targets)

\* change = accumulated - totalNeeded, for the inputs taken so far
SelectionChange(inputs, targets) ==
    ValueSum(inputs) - (ValueSum(targets) + SelectionFee(Len(inputs), targets))

\* The counts k at which the loop's test accumulated >= totalNeeded holds
StopCounts(utxos, targets) ==
    LET sorted == SortedCandidates(utxos)
    IN  {k \in 1..Len(sorted) :
            ValueSum(SubSeq(sorted, 1, k)) >= ValueSum(targets) + SelectionFee(k, targets)}

(***************************************************************************)
(* selectUTXOs({utxos, targets, changeAddress}).  It returns null when the *)
(* targets sum to zero or less, and when no prefix of the sorted           *)
(* candidates covers its own fee (the loop runs out).  Otherwise the first *)
(* stopping count decides the inputs; the leftover becomes a change output *)
(* when it exceeds 546 and is left to the miner otherwise.                 *)
(***************************************************************************)
SelectUTXOs(utxos, targets, changeAddress) ==
    LET sorted == SortedCandidates(utxos)
        stops  == StopCounts(utxos, targets)
        k      == CHOOSE k \in stops : \A j \in stops : k <= j
        inputs == SubSeq(sorted, 1, k)
        change == SelectionChange(inputs, targets)
    IN  IF ValueSum(targets) <= 0 \/ stops = {}
        THEN NoSelection
        ELSE [inputs  |-> inputs,
              outputs |-> IF change > BITCOIN_DUST
                          THEN Append(targets, [address |-> changeAddress,
                                                value   |-> change,
                                                memo    |-> 0])
                          ELSE targets,
              fee     |-> SelectionFee(k, targets)]
=============================================================================
