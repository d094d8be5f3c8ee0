------------------------------ MODULE ChainScan ------------------------------
(***************************************************************************)
(* The loops that look for a server in the children of /chain, a list in   *)
(* no order: get_head_and_tail_ids of the client, the search for the next  *)
(* server in chain_watcher of the server, and the search for the tail in   *)
(* insert_node_sync_table.  ClientSession and ChainMembership use what     *)
(* they return as minimum, maximum and next larger number; here it is      *)
(* shown that they do return that.  ClientSessionProofs extends this       *)
(* module and ClientSession, hence the prefix of the usual names.          *)
(*                                                                         *)
(* The names of the children differ in a number of ten digits only, so     *)
(* that strcmp compares the numbers.                                       *)
(***************************************************************************)
EXTENDS Integers

CONSTANTS
  Numbers,   \* the numbers of nodes
  MaxCount   \* the longest list

ASSUME ScanAssumption == Numbers \subseteq Nat /\ MaxCount \in Nat

VARIABLES
  loop,    \* which loop it is: "ends", "next" or "last"
  list,    \* children_list->data
  count,   \* children_list->count
  mine,    \* the number in my_node
  i, head_index, tail_index, next

scanVars == <<loop, list, count, mine, i, head_index, tail_index, next>>

(* Only the search for the next server looks at an empty list.             *)
ScanInit ==
  /\ loop \in {"ends", "next", "last"}
  /\ count \in (IF loop = "next" THEN 0 ELSE 1) .. MaxCount
  /\ list \in [0 .. count - 1 -> Numbers]
  /\ mine \in Numbers
  /\ i = (IF loop = "next" THEN 0 ELSE 1)
  /\ head_index = 0 /\ tail_index = 0 /\ next = -1

-----------------------------------------------------------------------------
(* One turn of a loop.                                                     *)
In(name) ==
  /\ loop = name /\ i < count
  /\ i' = i + 1
  /\ UNCHANGED <<loop, list, count, mine>>

(* Slip: the tail is compared with the head.                               *)
EndsTurnAgainstHead ==
  /\ In("ends")
  /\ head_index' = IF list[i] < list[head_index] THEN i ELSE head_index
  /\ tail_index' = IF list[i] > list[head_index] THEN i ELSE tail_index
  /\ UNCHANGED next

EndsTurn ==
  /\ In("ends")
  /\ head_index' = IF list[i] < list[head_index] THEN i ELSE head_index
  /\ tail_index' = IF ~(list[i] < list[head_index]) /\ list[i] > list[tail_index] THEN i ELSE tail_index
  /\ UNCHANGED next

(* Slip: the first child after the own one is taken.                       *)
NextTurnFirst ==
  /\ In("next")
  /\ next' = IF list[i] > mine /\ next = -1 THEN i ELSE next
  /\ UNCHANGED <<head_index, tail_index>>

NextTurn ==
  /\ In("next")
  /\ next' = IF list[i] > mine /\ (next = -1 \/ list[i] < list[next]) THEN i ELSE next
  /\ UNCHANGED <<head_index, tail_index>>

LastTurn ==
  /\ In("last")
  /\ tail_index' = IF list[i] > list[tail_index] THEN i ELSE tail_index
  /\ UNCHANGED <<head_index, next>>

ScanNext == EndsTurn \/ NextTurn \/ LastTurn

ScanSpec == ScanInit /\ [][ScanNext]_scanVars

-----------------------------------------------------------------------------
Seen == 0 .. i - 1

ScanTypeOK ==
  /\ loop \in {"ends", "next", "last"}
  /\ count \in Nat /\ list \in [0 .. count - 1 -> Numbers] /\ mine \in Numbers
  /\ i \in 0 .. count
  /\ loop = "next" => next \in Seen \cup {-1}
  /\ loop # "next" => head_index \in Seen /\ tail_index \in Seen

(* After each turn, and so after the last one: the two ends are the least  *)
(* and the greatest of what was looked at, although a number that is less  *)
(* than the head is not compared with the tail.                            *)
EndsFound ==
  loop = "ends" => \A j \in Seen : list[head_index] <= list[j] /\ list[j] <= list[tail_index]

(* The next server is the least of those after the own one, and -1 only    *)
(* when there is none.                                                     *)
NextFound ==
  loop = "next" =>
    /\ next # -1 => list[next] > mine
    /\ \A j \in Seen : list[j] > mine => next # -1 /\ list[next] <= list[j]

(* The server a new one copies its table from is the last one.             *)
LastFound ==
  loop = "last" => \A j \in Seen : list[j] <= list[tail_index]

(* The servers a server picks for itself, the one to connect to and the    *)
(* one to copy from, are right.                                            *)
ServerFound == NextFound /\ LastFound
=============================================================================
