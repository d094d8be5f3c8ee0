--------------------------- MODULE MCClientSession ---------------------------
(***************************************************************************)
(* The client for TLC: its session, and beside it the loops of ChainScan   *)
(* that HeadAndTail of the session and Later of ChainMembership stand for, *)
(* over all lists of up to four out of five numbers.  The two share        *)
(* nothing; the session runs beside the one search with nothing to do.     *)
(***************************************************************************)
EXTENDS ClientSession, ChainScan

FiveNumbers == 0 .. 4

NoSearch == count = 0 /\ mine = 0
Session  == NoSearch /\ Next /\ UNCHANGED scanVars
Search   == ScanNext /\ UNCHANGED vars

ClientInit == Init /\ ScanInit

ClientSpec ==
  /\ ClientInit
  /\ [][Session \/ Search]_<<vars, scanVars>>
  /\ NoSearch => Fairness
=============================================================================
