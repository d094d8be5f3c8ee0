------------------------- MODULE MCChainReplication -------------------------
(***************************************************************************)
(* Small instances of ChainReplication for TLC.  Keys and values may be    *)
(* exchanged for one another: no property tells them apart.                *)
(***************************************************************************)
EXTENDS ChainReplication, TLC

Symmetry == Permutations(Keys) \cup Permutations(Values) \cup Permutations(Clients)
=============================================================================
