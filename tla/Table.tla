------------------------------- MODULE Table --------------------------------
(***************************************************************************)
(* The key-value table every server keeps (libtable: table_put, table_get, *)
(* table_remove, table_size, table_get_keys) and the requests the client   *)
(* stub can send about it.  The table library is linked as object code, so *)
(* its operations are modelled from how invoke() in server_skeleton.c uses *)
(* them: keys and values are opaque, and the hash lists that hold them are *)
(* not visible in any answer.                                              *)
(***************************************************************************)
EXTENDS FiniteSets, Integers

CONSTANTS
  Keys,     \* the keys the clients use
  Values,   \* the values the clients put
  None      \* the absence of a key, a value or an owner (NULL)

ASSUME KeysAssumption == IsFiniteSet(Keys)
ASSUME NoneAssumption == None \notin Values /\ None \notin Keys

Tables == [Keys -> Values \cup {None}]

EmptyTable == [k \in Keys |-> None]

table_get_keys(t) == {k \in Keys : t[k] # None}

table_size(t) == Cardinality(table_get_keys(t))

table_get(t, k) == t[k]

table_put(t, k, v) == [t EXCEPT ![k] = v]

table_remove(t, k) == [t EXCEPT ![k] = None]

-----------------------------------------------------------------------------
(***************************************************************************)
(* The requests of the stub: rtable_put, rtable_del, rtable_get,           *)
(* rtable_size, rtable_get_keys and rtable_get_table.                      *)
(***************************************************************************)
Writes == {"put", "del"}
Reads  == {"get", "size", "getkeys", "gettable"}

Put(k, v)   == [op |-> "put", key |-> k, val |-> v]
Del(k)      == [op |-> "del", key |-> k, val |-> None]
Get(k)      == [op |-> "get", key |-> k, val |-> None]
Whole(op)   == [op |-> op, key |-> None, val |-> None]

WriteRequests == {Put(k, v) : k \in Keys, v \in Values} \cup {Del(k) : k \in Keys}
ReadRequests  == {Get(k) : k \in Keys}
                   \cup {Whole(op) : op \in Reads \ {"get"}}
Requests == WriteRequests \cup ReadRequests

(* What a write does to a table, whatever the table held before.           *)
Effect(t, r) == IF r.op = "put" THEN table_put(t, r.key, r.val)
                                ELSE table_remove(t, r.key)

(* An answer tells whether the opcode is the request's plus one or         *)
(* OP_ERROR, and carries the content that belongs to the opcode.           *)
Answer(ok, val) == [ok |-> ok, val |-> val]
NoAnswer        == Answer(FALSE, None)

(* A listing is what GETKEYS and GETTABLE return: the announced number of  *)
(* items and the items.                                                    *)
Listing(n, items) == [n |-> n, items |-> items]
=============================================================================
