-------------------------- MODULE ChainReplication --------------------------
(***************************************************************************)
(* The data path of the service while the chain does not change: servers   *)
(* 1 .. N, each with a table, a reader-writer lock over it and one thread  *)
(* per connection (thread_for_client).  A client writes through its        *)
(* connection to the head (server 1) and reads through its connection to   *)
(* the tail (server N); every server but the tail holds one connection to  *)
(* its next_server, on which it repeats each write before it answers.      *)
(*                                                                         *)
(* A connection carries one remote call at a time (network_send_receive    *)
(* blocks its caller), so the state of a connection, of the thread that    *)
(* serves it and of the message on it is one record of where the call is:  *)
(*                                                                         *)
(*   idle      nothing on the connection, the thread is in network_receive *)
(*   sent      the request is on the wire or waits for the table lock      *)
(*   write     the thread holds the write lock, the table is untouched     *)
(*   await     the write is repeated on next_server, no answer yet         *)
(*   read, keys, entries    the thread reads under the read lock           *)
(*   unlock    the work on the table is done, the lock is still held       *)
(*   send      the lock is released, the answer not yet sent               *)
(*   answered  the answer is on the wire                                   *)
(***************************************************************************)
EXTENDS Table

CONSTANTS
  Clients,  \* the client processes
  N         \* the number of servers in the chain

ASSUME NAssumption == N \in Nat \ {0}

Servers == 1 .. N

(* Connections.  Link(s) is the one server s - 1 opened to server s.       *)
HeadConn(c) == <<"head", c>>
TailConn(c) == <<"tail", c>>
Link(s)     == <<"link", s>>

HeadConns == {HeadConn(c) : c \in Clients}
TailConns == {TailConn(c) : c \in Clients}
Links     == {Link(s) : s \in 2 .. N}
Conns     == HeadConns \cup TailConns \cup Links

ASSUME NoneIsNoConn == None \notin Conns

(* The server whose thread serves a connection.                            *)
Host(x) == CASE x[1] = "head" -> 1
             [] x[1] = "tail" -> N
             [] x[1] = "link" -> x[2]

VARIABLES
  table,    \* table[s]: the table of server s
  writer,   \* writer[s]: the connection whose thread write-locks rwlock_table
  readers,  \* readers[s]: the connections whose threads read-lock it
  pc,       \* pc[x]: where the call on connection x is
  msg,      \* msg[x]: the request being served
  ans,      \* ans[x]: the answer, once the thread has computed it
  listing   \* listing[x]: the count and the keys GETKEYS and GETTABLE collect

vars == <<table, writer, readers, pc, msg, ans, listing>>

NoRequest == Whole(None)
NoListing == Listing(0, {})

Init ==
  /\ table   = [s \in Servers |-> EmptyTable]
  /\ writer  = [s \in Servers |-> None]
  /\ readers = [s \in Servers |-> {}]
  /\ pc      = [x \in Conns |-> "idle"]
  /\ msg     = [x \in Conns |-> NoRequest]
  /\ ans     = [x \in Conns |-> NoAnswer]
  /\ listing = [x \in Conns |-> NoListing]

Goto(x, label) == pc' = [pc EXCEPT ![x] = label]

(* The request that network_send_receive puts on a connection.             *)
SendRequest(x, r) ==
  /\ pc'  = [pc  EXCEPT ![x] = "sent"]
  /\ msg' = [msg EXCEPT ![x] = r]

-----------------------------------------------------------------------------
(***************************************************************************)
(* The client: command_cicle runs one command at a time and blocks in the  *)
(* stub until the answer is there.                                         *)
(***************************************************************************)
Route(c, r) == IF r.op \in Writes THEN HeadConn(c) ELSE TailConn(c)

ClientCall(c, r) ==
  /\ pc[HeadConn(c)] = "idle" /\ pc[TailConn(c)] = "idle"
  /\ SendRequest(Route(c, r), r)
  /\ UNCHANGED <<table, writer, readers, ans, listing>>

(* The caller takes the answer off the wire and frees the message.         *)
TakeAnswer(x) ==
  /\ pc[x] = "answered"
  /\ msg' = [msg EXCEPT ![x] = NoRequest]
  /\ ans' = [ans EXCEPT ![x] = NoAnswer]

ClientReturn(c) ==
  \E x \in {HeadConn(c), TailConn(c)} :
    /\ TakeAnswer(x)
    /\ Goto(x, "idle")
    /\ UNCHANGED <<table, writer, readers, listing>>

-----------------------------------------------------------------------------
(***************************************************************************)
(* invoke(), OP_PUT and OP_DEL.                                            *)
(***************************************************************************)
LockWriter(x) ==
  LET s == Host(x) IN
  /\ pc[x] = "sent" /\ msg[x].op \in Writes
  /\ writer[s] = None /\ readers[s] = {}
  /\ writer' = [writer EXCEPT ![s] = x]
  /\ Goto(x, "write")
  /\ UNCHANGED <<table, readers, msg, ans, listing>>

(* Slip: a key that is there already keeps its value.                      *)
ApplyPutKeepsOld(x) ==
  LET s == Host(x) IN
  /\ msg[x].op = "put"
  /\ table' = [table EXCEPT ![s] =
                 IF table_get(@, msg[x].key) = None THEN table_put(@, msg[x].key, msg[x].val)
                                                    ELSE @]
  /\ ans'   = [ans EXCEPT ![x] = Answer(TRUE, None)]

(* The write on the own table, and the answer it calls for.                *)
ApplyPut(x) ==
  LET s == Host(x) IN
  /\ msg[x].op = "put"
  /\ table' = [table EXCEPT ![s] = table_put(@, msg[x].key, msg[x].val)]
  /\ ans'   = [ans EXCEPT ![x] = Answer(TRUE, None)]

ApplyDel(x) ==
  LET s == Host(x) IN
  /\ msg[x].op = "del"
  /\ table' = [table EXCEPT ![s] = table_remove(@, msg[x].key)]
  /\ ans'   = [ans EXCEPT ![x] = Answer(table_get(table[s], msg[x].key) # None, None)]

(* Slip: the answer of next_server is not waited for.                      *)
WriteTableNoWait(x) ==
  LET s == Host(x) IN
  /\ pc[x] = "write"
  /\ ApplyPut(x) \/ ApplyDel(x)
  /\ IF s < N
       THEN /\ pc'  = [pc  EXCEPT ![x] = "unlock", ![Link(s + 1)] = "sent"]
            /\ msg' = [msg EXCEPT ![Link(s + 1)] = msg[x]]
       ELSE /\ Goto(x, "unlock")
            /\ UNCHANGED msg
  /\ UNCHANGED <<writer, readers, listing>>

(* Slip: only OP_PUT is repeated.                                          *)
WriteTablePutsOnly(x) ==
  LET s == Host(x) IN
  /\ pc[x] = "write"
  /\ ApplyPut(x) \/ ApplyDel(x)
  /\ IF s < N /\ msg[x].op = "put"
       THEN /\ pc'  = [pc  EXCEPT ![x] = "await", ![Link(s + 1)] = "sent"]
            /\ msg' = [msg EXCEPT ![Link(s + 1)] = msg[x]]
       ELSE /\ Goto(x, "unlock")
            /\ UNCHANGED msg
  /\ UNCHANGED <<writer, readers, listing>>

(* The write is repeated on next_server whatever its outcome here was; a   *)
(* server without one, the tail, goes on to unlock.                        *)
WriteTable(x) ==
  LET s == Host(x) IN
  /\ pc[x] = "write"
  /\ ApplyPut(x) \/ ApplyDel(x)
  /\ IF s < N
       THEN /\ pc'  = [pc  EXCEPT ![x] = "await", ![Link(s + 1)] = "sent"]
            /\ msg' = [msg EXCEPT ![Link(s + 1)] = msg[x]]
       ELSE /\ Goto(x, "unlock")
            /\ UNCHANGED msg
  /\ UNCHANGED <<writer, readers, listing>>

(* Slip: an error from next_server makes the server ask again.             *)
ForwardRetries(x) ==
  LET link == Link(Host(x) + 1) IN
  /\ pc[x] = "await" /\ pc[link] = "answered"
  /\ ans' = [ans EXCEPT ![link] = NoAnswer]
  /\ IF ans[link].ok
       THEN /\ msg' = [msg EXCEPT ![link] = NoRequest]
            /\ pc'  = [pc EXCEPT ![x] = "unlock", ![link] = "idle"]
       ELSE /\ pc'  = [pc EXCEPT ![link] = "sent"]
            /\ UNCHANGED msg
  /\ UNCHANGED <<table, writer, readers, listing>>

(* rtable_put or rtable_del on next_server returns.  Its result is not     *)
(* looked at: the answer of this server stands.                            *)
ForwardReturns(x) ==
  LET s == Host(x) IN
  /\ pc[x] = "await"
  /\ TakeAnswer(Link(s + 1))
  /\ pc' = [pc EXCEPT ![x] = "unlock", ![Link(s + 1)] = "idle"]
  /\ UNCHANGED <<table, writer, readers, listing>>

UnlockWriter(x) ==
  LET s == Host(x) IN
  /\ pc[x] = "unlock" /\ msg[x].op \in Writes
  /\ writer' = [writer EXCEPT ![s] = None]
  /\ Goto(x, "send")
  /\ UNCHANGED <<table, readers, msg, ans, listing>>

-----------------------------------------------------------------------------
(***************************************************************************)
(* invoke(), OP_GET, OP_SIZE, OP_GETKEYS and OP_GETTABLE.                  *)
(***************************************************************************)
(* Slip: the table is read without the lock.                               *)
LockReaderAnyway(x) ==
  LET s == Host(x) IN
  /\ pc[x] = "sent" /\ msg[x].op \in Reads
  /\ readers' = [readers EXCEPT ![s] = @ \cup {x}]
  /\ Goto(x, "read")
  /\ UNCHANGED <<table, writer, msg, ans, listing>>

LockReader(x) ==
  LET s == Host(x) IN
  /\ pc[x] = "sent" /\ msg[x].op \in Reads
  /\ writer[s] = None
  /\ readers' = [readers EXCEPT ![s] = @ \cup {x}]
  /\ Goto(x, "read")
  /\ UNCHANGED <<table, writer, msg, ans, listing>>

ReadValue(x) ==
  LET val == table_get(table[Host(x)], msg[x].key) IN
  /\ pc[x] = "read" /\ msg[x].op = "get"
  /\ ans' = [ans EXCEPT ![x] = Answer(val # None, val)]
  /\ Goto(x, "unlock")
  /\ UNCHANGED <<table, writer, readers, msg, listing>>

ReadSize(x) ==
  /\ pc[x] = "read" /\ msg[x].op = "size"
  /\ ans' = [ans EXCEPT ![x] = Answer(TRUE, table_size(table[Host(x)]))]
  /\ Goto(x, "unlock")
  /\ UNCHANGED <<table, writer, readers, msg, listing>>

(* GETKEYS and GETTABLE ask for the size first and for the keys after it.  *)
CountKeys(x) ==
  /\ pc[x] = "read" /\ msg[x].op \in {"getkeys", "gettable"}
  /\ listing' = [listing EXCEPT ![x] = Listing(table_size(table[Host(x)]), {})]
  /\ Goto(x, "keys")
  /\ UNCHANGED <<table, writer, readers, msg, ans>>

(* Slip: without its break, GETKEYS goes on as GETTABLE.                    *)
ReadKeysFallsThrough(x) ==
  /\ pc[x] = "keys"
  /\ listing' = [listing EXCEPT ![x].items = table_get_keys(table[Host(x)])]
  /\ Goto(x, "entries")
  /\ UNCHANGED <<table, writer, readers, msg, ans>>

ReadKeys(x) ==
  LET keys == table_get_keys(table[Host(x)]) IN
  /\ pc[x] = "keys"
  /\ listing' = [listing EXCEPT ![x].items = keys]
  /\ IF msg[x].op = "getkeys"
       THEN /\ ans' = [ans EXCEPT ![x] = Answer(TRUE, Listing(listing[x].n, keys))]
            /\ Goto(x, "unlock")
       ELSE /\ UNCHANGED ans
            /\ Goto(x, "entries")
  /\ UNCHANGED <<table, writer, readers, msg>>

(* GETTABLE looks every key up again.  A key that is gone, or a count that *)
(* is not the number of keys, is the error branch.  Its break leaves only  *)
(* the loop over the keys and the code goes on with freed memory: no       *)
(* answer stands for all that, and ListingIsCurrent says it is not reached.*)
ReadEntries(x) ==
  LET t     == table[Host(x)]
      keys  == listing[x].items
      found == /\ \A k \in keys : table_get(t, k) # None
               /\ listing[x].n = Cardinality(keys)
      copy  == Listing(listing[x].n, [k \in keys |-> table_get(t, k)])
  IN
  /\ pc[x] = "entries"
  /\ ans' = [ans EXCEPT ![x] = IF found THEN Answer(TRUE, copy) ELSE NoAnswer]
  /\ Goto(x, "unlock")
  /\ UNCHANGED <<table, writer, readers, msg, listing>>

(* Slip: a branch that leaves without unlock_table.                        *)
UnlockReaderForgotten(x) ==
  /\ pc[x] = "unlock" /\ msg[x].op \in Reads
  /\ listing' = [listing EXCEPT ![x] = NoListing]
  /\ Goto(x, "send")
  /\ UNCHANGED <<table, writer, readers, msg, ans>>

UnlockReader(x) ==
  LET s == Host(x) IN
  /\ pc[x] = "unlock" /\ msg[x].op \in Reads
  /\ readers' = [readers EXCEPT ![s] = @ \ {x}]
  /\ listing' = [listing EXCEPT ![x] = NoListing]
  /\ Goto(x, "send")
  /\ UNCHANGED <<table, writer, msg, ans>>

(* Slip: an operation that failed is served again.                         *)
SendAnswerOrServeAgain(x) ==
  /\ pc[x] = "send"
  /\ Goto(x, IF ans[x].ok THEN "answered" ELSE "sent")
  /\ UNCHANGED <<table, writer, readers, msg, ans, listing>>

(* network_send: the answer goes back on the connection.                   *)
SendAnswer(x) ==
  /\ pc[x] = "send"
  /\ Goto(x, "answered")
  /\ UNCHANGED <<table, writer, readers, msg, ans, listing>>

-----------------------------------------------------------------------------
ReadStep(x) == ReadValue(x) \/ ReadSize(x) \/ CountKeys(x) \/ ReadKeys(x) \/ ReadEntries(x)

Serve(x) ==
  \/ LockWriter(x) \/ WriteTable(x) \/ ForwardReturns(x) \/ UnlockWriter(x)
  \/ LockReader(x) \/ ReadStep(x) \/ UnlockReader(x)
  \/ SendAnswer(x)

Next ==
  \/ \E c \in Clients, r \in Requests : ClientCall(c, r)
  \/ \E c \in Clients : ClientReturn(c)
  \/ \E x \in Conns : Serve(x)

Spec == Init /\ [][Next]_vars

(***************************************************************************)
(* Threads are scheduled, so a step a thread can take it takes, and the    *)
(* client reads its answer.  A client need not call.  pthread_rwlock_t of  *)
(* the default kind prefers readers: a thread waiting to read gets the     *)
(* lock when a writer releases it.  A thread waiting to write is woken     *)
(* each time the lock becomes free, and is assumed to find it free at last *)
(* if that happens over and over.                                          *)
(***************************************************************************)
Fairness ==
  /\ \A x \in Conns   : WF_vars(Serve(x)) /\ SF_vars(LockReader(x)) /\ SF_vars(LockWriter(x))
  /\ \A c \in Clients : WF_vars(ClientReturn(c))

FairSpec == Spec /\ Fairness

-----------------------------------------------------------------------------
Labels == {"idle", "sent", "write", "await", "read", "keys", "entries",
           "unlock", "send", "answered"}

(* A count the server announces is never more than there are keys.         *)
Counts == 0 .. Cardinality(Keys)

(* What the server may answer to a request.                                *)
AnswersTo(r) ==
  CASE r.op \in Writes   -> [ok : BOOLEAN, val : {None}]
    [] r.op = "get"      -> [ok : {TRUE}, val : Values]
    [] r.op = "size"     -> [ok : {TRUE}, val : Counts]
    [] r.op = "getkeys"  -> [ok : {TRUE}, val : [n : Counts, items : SUBSET Keys]]
    [] r.op = "gettable" -> [ok : {TRUE},
                             val : [n : Counts, items : UNION {[K -> Values] : K \in SUBSET Keys}]]
    [] OTHER             -> {}

(* What a connection carries fits the stage of its call: nothing while it  *)
(* is idle, a request afterwards, an answer of the right kind only once    *)
(* the thread has one.  Writes never travel on a tail connection.          *)
StageOK(x) ==
  /\ pc[x] = "idle" => msg[x] = NoRequest
  /\ pc[x] # "idle" => msg[x] \in IF x \in TailConns THEN ReadRequests ELSE WriteRequests
  /\ pc[x] \in {"write", "await"} => msg[x] \in WriteRequests
  /\ pc[x] = "await" => Host(x) < N
  /\ pc[x] \in {"read", "keys", "entries"} => msg[x] \in ReadRequests
  /\ pc[x] = "keys" => msg[x].op \in {"getkeys", "gettable"}
  /\ pc[x] = "entries" => msg[x].op = "gettable"
  /\ IF pc[x] \in {"await", "unlock", "send", "answered"}
       THEN ans[x] = NoAnswer \/ ans[x] \in AnswersTo(msg[x])
       ELSE ans[x] = NoAnswer

(* Every variable keeps its type, every connection carries what its stage  *)
(* allows, and no count the server announces exceeds the number of keys.   *)
TypeOK ==
  /\ table   \in [Servers -> Tables]
  /\ writer  \in [Servers -> Conns \cup {None}]
  /\ readers \in [Servers -> SUBSET Conns]
  /\ pc      \in [Conns -> Labels]
  /\ msg     \in [Conns -> Requests \cup {NoRequest}]
  /\ ans     = [x \in Conns |-> ans[x]]
  /\ listing \in [Conns -> [n : Counts, items : SUBSET Keys]]
  /\ \A x \in Conns : StageOK(x)

(* Where a thread is tells which lock it holds.                            *)
HoldsWrite(x) == msg[x].op \in Writes /\ pc[x] \in {"write", "await", "unlock"}
HoldsRead(x)  == msg[x].op \in Reads  /\ pc[x] \in {"read", "keys", "entries", "unlock"}

OwnLock(x) ==
  /\ HoldsWrite(x) <=> writer[Host(x)] = x
  /\ HoldsRead(x)  <=> x \in readers[Host(x)]
  /\ HoldsWrite(x) => readers[Host(x)] = {}

(* rwlock_table: a thread in the write section is the only thread in any   *)
(* section of that server, and the lock knows exactly who is inside.       *)
LockOK ==
  /\ \A s \in Servers : /\ writer[s] # None => Host(writer[s]) = s
                        /\ \A x \in readers[s] : Host(x) = s
  /\ \A x \in Conns : OwnLock(x)

Nested(s) ==
  /\ pc[Link(s)] # "idle" <=> writer[s-1] # None /\ pc[writer[s-1]] = "await"
  /\ pc[Link(s)] # "idle" =>
       /\ writer[1] # None /\ pc[writer[1]] = "await"
       /\ msg[Link(s)] = msg[writer[1]]
       /\ \A u \in 2 .. (s-1) : pc[Link(u)] = "await"

(* Remote calls nest: a link is in use exactly while the thread that holds *)
(* the write lock of the server before it waits for the answer.  All the   *)
(* links before a link in use wait with it, back to a thread of the head,  *)
(* and carry that thread's request: no server has two writes under way, no *)
(* answer can be taken for that of another call.                           *)
CallsNest == \A s \in 2 .. N : Nested(s)

(* A write applied at server s has not reached server t while some link    *)
(* between them carries it to a thread that has not applied it.            *)
Lagging(s, t) == \E u \in (s+1) .. t : pc[Link(u)] \in {"sent", "write"}

(* Two replicas differ by at most one write: the one the head is working   *)
(* on.  Every replica applies the same writes in the same order.           *)
ReplicasLag ==
  \A s, t \in Servers : s < t =>
    table[s] = IF Lagging(s, t) THEN Effect(table[t], msg[writer[1]]) ELSE table[t]

(* Before the head releases its lock and answers a put or del, every       *)
(* replica, the tail included, holds the write.                            *)
AckedWriteReplicated ==
  \A c \in Clients :
    pc[HeadConn(c)] = "unlock" =>
      \A s \in Servers : table[s] = Effect(table[s], msg[HeadConn(c)])

(* The head itself holds the write from the moment it has made it.         *)
HeadHoldsWrite ==
  \A c \in Clients :
    pc[HeadConn(c)] \in {"await", "unlock"} =>
      table[1] = Effect(table[1], msg[HeadConn(c)])

Current(x) ==
  /\ pc[x] \in {"keys", "entries"} => listing[x].n = table_size(table[Host(x)])
  /\ pc[x] = "entries" => listing[x].items = table_get_keys(table[Host(x)])
  /\ pc[x] \in {"unlock", "send", "answered"} /\ msg[x].op \in {"getkeys", "gettable"}
       => ans[x].ok

(* What a listing under way has collected is what the table still holds:   *)
(* the lookups of GETTABLE after its count and its keys never miss, and    *)
(* GETKEYS and GETTABLE never fail, whatever the writers do meanwhile.     *)
ListingIsCurrent == \A x \in Conns : Current(x)

(* The invariant that the steps of the chain preserve.                     *)
IInv == TypeOK /\ LockOK /\ CallsNest /\ ReplicasLag /\ HeadHoldsWrite

-----------------------------------------------------------------------------
(***************************************************************************)
(* The chain implements the map.  The map is the tail's table; a write     *)
(* takes effect when the tail applies it, a read when it has read.         *)
(***************************************************************************)
Finished == {"unlock", "send", "answered"}

TailHasApplied == N > 1 /\ \E s \in 2 .. N : pc[Link(s)] \in Finished

ActiveConn(c) == IF pc[HeadConn(c)] # "idle" THEN HeadConn(c) ELSE TailConn(c)

HasEffect(x) == pc[x] \in Finished \/ (pc[x] = "await" /\ TailHasApplied)

PhaseOf(c) ==
  LET x == ActiveConn(c) IN
  IF pc[x] = "idle" THEN "idle" ELSE IF HasEffect(x) THEN "done" ELSE "called"

KV == INSTANCE KeyValueMap WITH
        store <- table[N],
        phase <- [c \in Clients |-> PhaseOf(c)],
        req   <- [c \in Clients |-> msg[ActiveConn(c)]],
        res   <- [c \in Clients |-> IF PhaseOf(c) = "done" THEN ans[ActiveConn(c)]
                                                         ELSE NoAnswer]

(* Every put, del, get, size, getkeys and gettable of every client looks   *)
(* as if it happened at one instant on one map between call and return.    *)
Linearizable == KV!Spec

(* A client that asks the tail gets an answer, whatever the writers do.    *)
ReadsAnswered == \A c \in Clients : pc[TailConn(c)] # "idle" ~> pc[TailConn(c)] = "idle"

(* A client that writes gets an answer, as long as the readers leave the   *)
(* lock of the tail free now and then: the lock prefers readers, and with  *)
(* two clients whose reads overlap for ever a put waits for ever.          *)
WritesAnswered ==
  []<>(readers[N] = {}) =>
    \A c \in Clients : pc[HeadConn(c)] # "idle" ~> pc[HeadConn(c)] = "idle"
=============================================================================
