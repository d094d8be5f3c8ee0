---------------------------- MODULE KeyValueMap -----------------------------
(***************************************************************************)
(* What the service promises its users (README.txt: a store of key-value   *)
(* pairs with the interface of java.util.Map): one map, on which every     *)
(* operation a client has called takes effect at one instant between the   *)
(* call and the return.  The chain of replicas is shown to implement it.   *)
(***************************************************************************)
EXTENDS Table

CONSTANT Clients

VARIABLES
  store,   \* the map
  phase,   \* phase[c]: "idle", "called" or "done"
  req,     \* req[c]: the request of the operation c has called
  res      \* res[c]: its answer, once it has taken effect

kvVars == <<store, phase, req, res>>

(* The answer of an operation on the map, from the map alone.              *)
Outcome(t, r) ==
  CASE r.op = "put"      -> Answer(TRUE, None)
    [] r.op = "del"      -> Answer(t[r.key] # None, None)
    [] r.op = "get"      -> Answer(t[r.key] # None, t[r.key])
    [] r.op = "size"     -> Answer(TRUE, table_size(t))
    [] r.op = "getkeys"  -> Answer(TRUE, Listing(table_size(t), table_get_keys(t)))
    [] r.op = "gettable" -> Answer(TRUE, Listing(table_size(t),
                                                 [k \in table_get_keys(t) |-> t[k]]))

Init ==
  /\ store = EmptyTable
  /\ phase = [c \in Clients |-> "idle"]
  /\ req   = [c \in Clients |-> Whole(None)]
  /\ res   = [c \in Clients |-> NoAnswer]

Call(c, r) ==
  /\ phase[c] = "idle"
  /\ phase' = [phase EXCEPT ![c] = "called"]
  /\ req'   = [req EXCEPT ![c] = r]
  /\ UNCHANGED <<store, res>>

Perform(c) ==
  /\ phase[c] = "called"
  /\ phase' = [phase EXCEPT ![c] = "done"]
  /\ res'   = [res EXCEPT ![c] = Outcome(store, req[c])]
  /\ store' = IF req[c].op \in Writes THEN Effect(store, req[c]) ELSE store
  /\ UNCHANGED req

Return(c) ==
  /\ phase[c] = "done"
  /\ phase' = [phase EXCEPT ![c] = "idle"]
  /\ req'   = [req EXCEPT ![c] = Whole(None)]
  /\ res'   = [res EXCEPT ![c] = NoAnswer]
  /\ UNCHANGED store

Next == \E c \in Clients :
          \/ \E r \in Requests : Call(c, r)
          \/ Perform(c)
          \/ Return(c)

Spec == Init /\ [][Next]_kvVars
=============================================================================
