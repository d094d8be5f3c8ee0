--------------------------- MODULE MCChainService ---------------------------
(***************************************************************************)
(* Small instances of ChainService for TLC.                                *)
(***************************************************************************)
EXTENDS ChainService, TLC

Symmetry == Permutations(Procs) \cup Permutations(Puts)
=============================================================================
