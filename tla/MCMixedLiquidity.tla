--------------------------- MODULE MCMixedLiquidity ---------------------------
(* One holder among swaps of others; two nonces in each namespace. *)
EXTENDS MixedLiquidity
=============================================================================
