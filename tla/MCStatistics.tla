---------------------------- MODULE MCStatistics ----------------------------
(***************************************************************************)
(* A small instance of Statistics for TLC: an int from -5 to 4, which both *)
(* the operations and their time outgrow.                                  *)
(***************************************************************************)
EXTENDS Statistics, TLC

Times    == {-1, 2}
Symmetry == Permutations(Threads)
=============================================================================
