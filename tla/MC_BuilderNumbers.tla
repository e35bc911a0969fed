--------------------------- MODULE MC_BuilderNumbers ---------------------------
(***************************************************************************)
(* One UTXO of 60, outputs of -1, 0, 10, NaN and Infinity, thresholds 0 and *)
(* NaN, and the fee constants scaled as in the other instances.            *)
(***************************************************************************)
EXTENDS BuilderNumbers

MCOutputValues == {Fin(-1), Fin(0), Fin(10), NaN, Inf(1)}

MCThresholds == {Fin(0), NaN}
=============================================================================
