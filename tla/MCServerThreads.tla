--------------------------- MODULE MCServerThreads ---------------------------
(***************************************************************************)
(* Small instances of ServerThreads for TLC.                               *)
(***************************************************************************)
EXTENDS ServerThreads, TLC

Descriptors == 4 .. 5 + Cardinality(Conns)
Symmetry    == Permutations(Conns)
=============================================================================
