----------------------------- MODULE MC_RpcClient -----------------------------
(***************************************************************************)
(* Two concurrent calls on one client, and a node holding no UTXO or one. *)
(***************************************************************************)
EXTENDS RpcClient

CONSTANTS c1, c2

MCCalls == {c1, c2}
=============================================================================
