------------------------- MODULE MC_BuilderAliasing -------------------------
(***************************************************************************)
(* Two builders, one UTXO object and one UTXO array of the caller's, and  *)
(* room for every builder to be constructed, cleared, cloned and to take  *)
(* a selection.                                                            *)
(***************************************************************************)
EXTENDS BuilderAliasing, TLC

CONSTANTS b1, b2

MCBuilders == {b1, b2}

\* a negative value, which addOutput refuses, and one it accepts
MCValues == {-1, 1}

\* The two builders are interchangeable names
BuilderSymmetry == Permutations(MCBuilders)
=============================================================================
