------------------------ MODULE MC_TransactionBuilder ------------------------
(***************************************************************************)
(* A small instance of TransactionBuilder: three UTXOs (one without a      *)
(* script), a testnet builder constructed as "Testnet", and values chosen  *)
(* so that every branch of build() is met: change above the threshold,     *)
(* change folded as dust, change below zero with the outputs still         *)
(* covered, and outputs not covered.                                       *)
(***************************************************************************)
EXTENDS TransactionBuilder

CONSTANTS ua, ub, uc

MCUtxoIds == {ua, ub, uc}

UA == [txid |-> ua, value |-> 30, script |-> OwnScript]
UB == [txid |-> ub, value |-> 20, script |-> OwnScript]
UC == [txid |-> uc, value |-> 25, script |-> NoScript]

MCUtxos == {UA, UB, UC}

\* addInputs / selectUTXOs arguments: one or two distinct UTXOs, and one
\* list naming a UTXO twice
MCCandidateLists == {<<UA>>, <<UC>>, <<UA, UB>>, <<UB, UC>>, <<UB, UB>>}

TmGood   == [prefix |-> TestPrefix, base58 |-> TRUE, checksum |-> TRUE]
TmBadSum == [prefix |-> TestPrefix, base58 |-> TRUE, checksum |-> FALSE]
T1Good   == [prefix |-> MainPrefix, base58 |-> TRUE, checksum |-> TRUE]

MCAddrs == {TmGood, T1Good}
MCAddrsBadSum == {TmGood, TmBadSum}

MCOutputValues == {-1, 0, 5, 10, 17}
MCMemos == {0, 40}
MCFeeRates == {0, 20}
MCThresholds == {-1, 0, 5}

MCBuilderNetwork == [name |-> "testnet", upper |-> TRUE]
MCSignNetworks == {[name |-> "testnet", upper |-> FALSE], [name |-> "other", upper |-> FALSE]}
=============================================================================
