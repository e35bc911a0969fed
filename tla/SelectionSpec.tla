---------------------------- MODULE SelectionSpec ----------------------------
(***************************************************************************)
(* What selectUTXOs (src/chain/zec/ts/src/builder.ts) promises, stated     *)
(* without its sort, its reverse or its loop: the inputs are a SET of      *)
(* candidates, "largest first" means no candidate left out is worth more   *)
(* than one taken, and the set is one of the fewest candidates that covers *)
(* the targets plus the fee for that many inputs (with a slot reserved for *)
(* the change).  Among equal values any choice is allowed, and the inputs  *)
(* are unordered.                                                          *)
(*                                                                         *)
(* A caller asks for selections over and over: cands and tgts are its      *)
(* arguments, chosen the promised answer.                                  *)
(***************************************************************************)
EXTENDS TxTypes, FeeModel

CONSTANTS
    CandidateLists, \* candidate UTXO lists a caller may pass
    TargetLists,    \* target output lists a caller may pass
    ChangeAddr,     \* the change address passed with them
    BITCOIN_DUST    \* the change test's dust limit

VARIABLES cands, tgts, chosen
absvars == <<cands, tgts, chosen>>

NoChoice == [null |-> TRUE]

\* Sum of the candidates at a set of positions
SetValue(u, S) == SeqSum([i \in S |-> u[i].value])

\* The fee for k inputs, the targets and one change slot
FeeFor(k, t) == GetFee(k, Len(t) + 1, MemoSum(t))

\* No candidate outside S is worth more than a candidate in S
LargestFirst(u, S) ==
    \A i \in S, j \in DOMAIN u \ S : u[j].value <= u[i].value

Covers(u, t, S) ==
    S # {} /\ SetValue(u, S) >= ValueSum(t) + FeeFor(Cardinality(S), t)

\* Largest-first sets that cover, of the least size any of them has
Answers(u, t) ==
    LET C == {S \in SUBSET DOMAIN u : LargestFirst(u, S) /\ Covers(u, t, S)}
    IN  {S \in C : \A T \in C : Cardinality(S) <= Cardinality(T)}

\* A candidate as it is spent: with a script, the placeholder if it had none
Spendable(x) == IF x.script = NoScript THEN [x EXCEPT !.script = PlaceholderScript] ELSE x

\* The outputs: the targets, and a change output for a leftover above dust
OutputsFor(u, t, S) ==
    LET change == SetValue(u, S) - (ValueSum(t) + FeeFor(Cardinality(S), t))
    IN  IF change > BITCOIN_DUST
        THEN Append(t, [address |-> ChangeAddr, value |-> change, memo |-> 0])
        ELSE t

\* The promised answers: none when the targets sum to zero or nothing covers
Promised(u, t) ==
    IF ValueSum(t) <= 0 \/ Answers(u, t) = {}
    THEN {NoChoice}
    ELSE {[inputs  |-> {Spendable(u[i]) : i \in S},
           outputs |-> OutputsFor(u, t, S),
           fee     |-> FeeFor(Cardinality(S), t)] : S \in Answers(u, t)}

AbsInit ==
    /\ cands \in CandidateLists
    /\ tgts \in TargetLists
    /\ chosen \in Promised(cands, tgts)

AbsNext ==
    \E u \in CandidateLists, t \in TargetLists :
        /\ cands' = u
        /\ tgts' = t
        /\ chosen' \in Promised(u, t)

AbsSpec == AbsInit /\ [][AbsNext]_absvars
=============================================================================
