---------------------------- MODULE MC_StandaloneTx ----------------------------
(***************************************************************************)
(* Small arguments for buildTx and buildTransaction: two UTXOs (one        *)
(* without a script), payments to a testnet and a mainnet address, a       *)
(* negative and a zero amount, a memo-only output, and the fee constants   *)
(* scaled down as in the other instances (one input and two outputs cost   *)
(* 25, a 40-character memo two chunks of 34 more).                         *)
(***************************************************************************)
EXTENDS StandaloneTx

CONSTANTS ua, ub

MCUtxoIds == {ua, ub}

UA == [txid |-> ua, value |-> 60, script |-> OwnScript]
UB == [txid |-> ub, value |-> 20, script |-> NoScript]

MCUtxoLists == {<<>>, <<UA>>, <<UB>>, <<UA, UB>>}

Tm == [prefix |-> TestPrefix, base58 |-> TRUE, checksum |-> TRUE]
T1 == [prefix |-> MainPrefix, base58 |-> TRUE, checksum |-> TRUE]

PayTm(x) == [type |-> "pkh", address |-> Tm, amount |-> x]
PayT1(x) == [type |-> "pkh", address |-> T1, amount |-> x]
Memo(n)  == [type |-> "memo", memo |-> n]

\* no outputs; one payment of each kind; a payment with a memo
MCLegacyOutputLists ==
    {<<>>, <<PayTm(10)>>, <<PayT1(10)>>, <<PayTm(-5)>>, <<PayTm(0)>>,
     <<Memo(40)>>, <<PayTm(10), Memo(40)>>}

MCConfigNetworks == {"mainnet", "testnet", "regtest"}

MCNetworkArgs ==
    {[name |-> "testnet", upper |-> FALSE], [name |-> "main", upper |-> TRUE],
     [name |-> "other", upper |-> FALSE]}
=============================================================================
