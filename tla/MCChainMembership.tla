------------------------- MODULE MCChainMembership --------------------------
(***************************************************************************)
(* Small instances of ChainMembership for TLC.                             *)
(***************************************************************************)
EXTENDS ChainMembership, TLC

Symmetry == Permutations(Procs)
=============================================================================
