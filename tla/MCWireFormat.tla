---------------------------- MODULE MCWireFormat ----------------------------
(***************************************************************************)
(* Instances of WireFormat for TLC: lengths of four bits.                 *)
(***************************************************************************)
EXTENDS WireFormat

SmallRequests == 1 .. 5
SmallAnswers  == 1 .. 20
=============================================================================
