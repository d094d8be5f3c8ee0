--------------------------- MODULE ChainMembership --------------------------
(***************************************************************************)
(* The control path of the service: how a server process joins the chain,  *)
(* learns of the others through ZooKeeper and keeps next_server, its       *)
(* connection to the server after it.                                      *)
(*                                                                         *)
(* Two threads of a process meet here.  The main thread runs               *)
(* insert_node_sync_table: it lists and watches the children of /chain,    *)
(* copies the table of the last one, creates its own ephemeral sequential  *)
(* node and only then learns that node's name (my_node).  The completion   *)
(* thread of the ZooKeeper client runs chain_watcher, one event at a time, *)
(* from the moment the watch is set.  A watch fires once and is set again  *)
(* by zoo_wget_children inside the callback.                               *)
(*                                                                         *)
(* ZooKeeper itself is external: a set of children, a counter for their    *)
(* names, and one-shot child watches.                                      *)
(***************************************************************************)
EXTENDS Naturals, FiniteSets, FiniteSetsExt

CONSTANTS
  Procs,        \* server processes, each started at most once
  Nobody,       \* next_server = NULL
  Freed,        \* next_server after rtable_disconnect freed it
  MaxFailures,  \* how many processes may crash or be interrupted
  MaxHiccups,   \* how many session events processes may see
  MaxRushed     \* how many processes start once a join has overlapped something

ASSUME ProcsAssumption ==
  /\ IsFiniteSet(Procs)
  /\ Nobody \notin Procs /\ Freed \notin Procs /\ Nobody # Freed
ASSUME BoundsAssumption == MaxFailures \in Nat /\ MaxHiccups \in Nat /\ MaxRushed \in Nat

VARIABLES
  (* ZooKeeper *)
  chain,         \* the processes whose node is a child of /chain
  number,        \* number[p]: the number in the name of p's node, 0 before it has one
  last,          \* the last number given out
  armed,         \* armed[p]: p's watch on the children of /chain is set
  event,         \* event[p]: a child event waits for p's completion thread
  (* the main thread of a server *)
  main,          \* main[p]: where it is
  tail_id,       \* tail_id[p]: the node whose table it copies, 0 for none
  my_node,       \* my_node[p]: the number in my_node, 0 for the empty string
  (* chain_watcher *)
  just_created,  \* just_created[p]
  cb,            \* cb[p]: "idle", "scan", "connect" or "exit"
  children,      \* children[p]: the children_list of the running callback
  next_id,       \* next_id[p]: next_server_id, 0 for the empty string
  next_server,   \* next_server[p]: the process it is connected to
  (* what has gone wrong *)
  aborted,       \* the processes that gave up because a connection failed
  failures, hiccups,
  calm           \* no join has overlapped another join, a failure or a session event

zkVars   == <<chain, number, last, armed, event>>
mainVars == <<main, tail_id, my_node>>
cbVars   == <<just_created, cb, children, next_id, next_server>>
envVars  == <<aborted, failures, hiccups, calm>>
vars     == <<zkVars, mainVars, cbVars, envVars>>

Init ==
  /\ chain = {} /\ last = 0
  /\ number       = [p \in Procs |-> 0]
  /\ armed        = [p \in Procs |-> FALSE]
  /\ event        = [p \in Procs |-> FALSE]
  /\ main         = [p \in Procs |-> "off"]
  /\ tail_id      = [p \in Procs |-> 0]
  /\ my_node      = [p \in Procs |-> 0]
  /\ just_created = [p \in Procs |-> TRUE]
  /\ cb           = [p \in Procs |-> "idle"]
  /\ children     = [p \in Procs |-> {}]
  /\ next_id      = [p \in Procs |-> 0]
  /\ next_server  = [p \in Procs |-> Nobody]
  /\ aborted = {} /\ failures = 0 /\ hiccups = 0 /\ calm = TRUE

-----------------------------------------------------------------------------
Joining == {"watch", "sync", "create", "created"}
Up      == Joining \cup {"serving"}     \* the listening socket is open
Ending  == {"halting", "stopping"}      \* terminate() has closed the socket
Running == Up \cup Ending               \* the process exists, threads run
Gone    == Ending \cup {"closed", "dead"}

(* Slip: the socket is opened when the main loop is entered.               *)
ListeningWhenServing(p) == main[p] = "serving"

Listening(p) == main[p] \in Up

Children == {number[p] : p \in chain}

(* The address a node holds is that of the process that created it.        *)
Owner(n) == CHOOSE p \in Procs : number[p] = n
NodeExists(n) == n \in Children

(* Every watch that is set fires, once.                                    *)
FireWatches ==
  /\ armed' = [p \in Procs |-> FALSE]
  /\ event' = [p \in Procs |-> event[p] \/ armed[p]]

SomeJoin == \E p \in Procs : main[p] \in Joining

(* Nothing is on its way: no join, no event, no callback, no dying server. *)
AtRest ==
  \A p \in Procs :
    /\ main[p] \in {"off", "serving", "closed", "dead"}
    /\ main[p] = "serving" => ~event[p] /\ cb[p] = "idle"
    /\ main[p] # "serving" => p \notin chain

-----------------------------------------------------------------------------
(***************************************************************************)
(* The main thread: main() of server_hashtable.c and                       *)
(* insert_node_sync_table().                                               *)
(***************************************************************************)

Started == {p \in Procs : main[p] # "off"}

(* The process starts, connects to ZooKeeper and opens its socket.         *)
Start(p) ==
  /\ main[p] = "off"
  /\ calm' = (calm /\ AtRest)
  /\ calm' \/ Cardinality(Started) < MaxRushed
  /\ main' = [main EXCEPT ![p] = "watch"]
  /\ UNCHANGED <<zkVars, tail_id, my_node, cbVars, aborted, failures, hiccups>>

(* Slip: the tail is looked up one past the last child.                    *)
WatchChainPastTail(p) ==
  /\ main[p] = "watch"
  /\ armed'   = [armed EXCEPT ![p] = TRUE]
  /\ tail_id' = [tail_id EXCEPT ![p] = IF chain = {} THEN 0 ELSE Max(Children) + 1]
  /\ main'    = [main EXCEPT ![p] = IF chain = {} THEN "create" ELSE "sync"]
  /\ UNCHANGED <<chain, number, last, event, my_node, cbVars, envVars>>

(* zoo_wget_children: the watch is set and the tail picked, in one request.*)
WatchChain(p) ==
  /\ main[p] = "watch"
  /\ armed'   = [armed EXCEPT ![p] = TRUE]
  /\ tail_id' = [tail_id EXCEPT ![p] = IF chain = {} THEN 0 ELSE Max(Children)]
  /\ main'    = [main EXCEPT ![p] = IF chain = {} THEN "create" ELSE "sync"]
  /\ UNCHANGED <<chain, number, last, event, my_node, cbVars, envVars>>

(* rtable_connect to the tail and sync_local_table: answered once the tail *)
(* is in its main loop.                                                    *)
SyncTable(p) ==
  /\ main[p] = "sync"
  /\ NodeExists(tail_id[p]) /\ main[Owner(tail_id[p])] = "serving"
  /\ main' = [main EXCEPT ![p] = "create"]
  /\ UNCHANGED <<zkVars, tail_id, my_node, cbVars, envVars>>

(* terminate(): the threads and the socket go first, the session last.     *)
Terminate(p) == main' = [main EXCEPT ![p] = "stopping"]

(* terminate() on the callback's thread leaves the main thread running: it *)
(* may go on with a join that has not created the node yet ("halting").    *)
TerminateFromCallback(p) ==
  main' = [main EXCEPT ![p] = IF @ \in {"watch", "sync", "create"} THEN "halting" ELSE "stopping"]

(* A process disappears with what it had in memory.                        *)
Die(p) == main' = [main EXCEPT ![p] = "dead"]

(* The tail does not listen: the join fails and the process terminates.    *)
(* Where its node is gone too, get_node_content returned a buffer nobody   *)
(* wrote, and the process may also crash on it.                            *)
SyncFails(p) ==
  /\ main[p] = "sync"
  /\ \/ NodeExists(tail_id[p]) /\ ~Listening(Owner(tail_id[p])) /\ Terminate(p)
     \/ ~NodeExists(tail_id[p]) /\ (Terminate(p) \/ Die(p))
  /\ aborted' = aborted \cup {p}
  /\ UNCHANGED <<zkVars, tail_id, my_node, cbVars, failures, hiccups, calm>>

(* zoo_create takes effect: the node exists, but its name is still on its  *)
(* way to the main thread, which the callback may be about to end.         *)
CreateNode(p) ==
  /\ main[p] \in {"create", "halting"}
  /\ last'   = last + 1
  /\ number' = [number EXCEPT ![p] = last + 1]
  /\ chain'  = chain \cup {p}
  /\ FireWatches
  /\ main'   = [main EXCEPT ![p] = IF @ = "create" THEN "created" ELSE "stopping"]
  /\ UNCHANGED <<tail_id, my_node, cbVars, envVars>>

(* zoo_create returns and has written my_node; the main loop accepts.      *)
CreateReturns(p) ==
  /\ main[p] = "created"
  /\ my_node' = [my_node EXCEPT ![p] = number[p]]
  /\ main'    = [main EXCEPT ![p] = "serving"]
  /\ UNCHANGED <<zkVars, tail_id, cbVars, envVars>>

-----------------------------------------------------------------------------
(***************************************************************************)
(* The completion thread: chain_watcher().                                 *)
(***************************************************************************)
Callback(p) == main[p] \in Running /\ cb[p] = "idle" /\ event[p]

TakeEvent(p) ==
  /\ event' = [event EXCEPT ![p] = FALSE]
  /\ armed' = [armed EXCEPT ![p] = TRUE]

(* Slip: the first event is dropped without setting the watch again.       *)
FirstEventNoWatch(p) ==
  /\ Callback(p) /\ just_created[p]
  /\ event' = [event EXCEPT ![p] = FALSE]
  /\ just_created' = [just_created EXCEPT ![p] = FALSE]
  /\ UNCHANGED <<chain, number, last, armed, mainVars, cb, children, next_id, next_server, envVars>>

(* The first event is taken for the creation of the own node: the watch is *)
(* set again and the children are not looked at.                           *)
FirstEvent(p) ==
  /\ Callback(p) /\ just_created[p]
  /\ TakeEvent(p)
  /\ just_created' = [just_created EXCEPT ![p] = FALSE]
  /\ UNCHANGED <<chain, number, last, mainVars, cb, children, next_id, next_server, envVars>>

ChildEvent(p) ==
  /\ Callback(p) /\ ~just_created[p]
  /\ TakeEvent(p)
  /\ children' = [children EXCEPT ![p] = Children]
  /\ cb'       = [cb EXCEPT ![p] = "scan"]
  /\ UNCHANGED <<chain, number, last, mainVars, just_created, next_id, next_server, envVars>>

(* Slips: the own node counts, or the comparison is the wrong way round.    *)
LaterOrSame(p) == {n \in children[p] : n >= my_node[p]}
Earlier(p)     == {n \in children[p] : n < my_node[p]}

(* The children after the own node, as the callback compares the names.    *)
Later(p) == {n \in children[p] : n > my_node[p]}

(* Slip: the connection is closed but next_server keeps its value.         *)
NoNextKeepsPointer(p) ==
  /\ Later(p) = {}
  /\ next_server' = [next_server EXCEPT ![p] = IF @ = Nobody THEN Nobody ELSE Freed]
  /\ next_id'     = [next_id EXCEPT ![p] = IF next_server[p] = Nobody THEN @ ELSE 0]
  /\ cb'          = [cb EXCEPT ![p] = "idle"]

(* No child after the own node: next_server is closed and forgotten.       *)
NoNext(p) ==
  /\ Later(p) = {}
  /\ next_server' = [next_server EXCEPT ![p] = Nobody]
  /\ next_id'     = [next_id EXCEPT ![p] = IF next_server[p] = Nobody THEN @ ELSE 0]
  /\ cb'          = [cb EXCEPT ![p] = "idle"]

(* The server is connected to the child after its own node already.        *)
SameNext(p) ==
  /\ Later(p) # {}
  /\ next_server[p] # Nobody /\ next_id[p] = Min(Later(p))
  /\ cb' = [cb EXCEPT ![p] = "idle"]
  /\ UNCHANGED <<next_id, next_server>>

(* The old connection is freed, the new one is still to be opened.         *)
NewNext(p) ==
  /\ Later(p) # {}
  /\ next_server[p] = Nobody \/ next_id[p] # Min(Later(p))
  /\ next_server' = [next_server EXCEPT ![p] = IF @ = Nobody THEN Nobody ELSE Freed]
  /\ next_id'     = [next_id EXCEPT ![p] = Min(Later(p))]
  /\ cb'          = [cb EXCEPT ![p] = "connect"]

ScanChildren(p) ==
  /\ main[p] \in Running /\ cb[p] = "scan"
  /\ NoNext(p) \/ SameNext(p) \/ NewNext(p)
  /\ children' = [children EXCEPT ![p] = {}]
  /\ UNCHANGED <<zkVars, mainVars, just_created, envVars>>

Connect(p) ==
  /\ main[p] \in Running /\ cb[p] = "connect"
  /\ NodeExists(next_id[p]) /\ Listening(Owner(next_id[p]))
  /\ next_server' = [next_server EXCEPT ![p] = Owner(next_id[p])]
  /\ cb'          = [cb EXCEPT ![p] = "idle"]
  /\ UNCHANGED <<zkVars, mainVars, just_created, children, next_id, envVars>>

(* The next server does not listen, or its node is gone (see SyncFails):   *)
(* the callback terminates the server.  The thread stays inside            *)
(* terminate() and takes no further event.                                 *)
ConnectFails(p) ==
  /\ main[p] \in Running /\ cb[p] = "connect"
  /\ \/ NodeExists(next_id[p]) /\ ~Listening(Owner(next_id[p])) /\ TerminateFromCallback(p)
     \/ ~NodeExists(next_id[p]) /\ (TerminateFromCallback(p) \/ Die(p))
  /\ aborted' = aborted \cup {p}
  /\ cb'      = [cb EXCEPT ![p] = "exit"]
  /\ next_server' = [next_server EXCEPT ![p] = Nobody]
  /\ UNCHANGED <<zkVars, tail_id, my_node, just_created, children, next_id, failures, hiccups, calm>>

(* A session event reaches chain_watcher as well.  The first event of a    *)
(* process is used up by it; later ones free a children_list that was      *)
(* never filled in, which the process may or may not survive.              *)
SessionEvent(p) ==
  /\ main[p] \in Running /\ cb[p] = "idle" /\ armed[p] /\ hiccups < MaxHiccups
  /\ hiccups' = hiccups + 1
  /\ calm'    = (calm /\ ~SomeJoin)
  /\ IF just_created[p]
       THEN /\ just_created' = [just_created EXCEPT ![p] = FALSE]
            /\ UNCHANGED main
       ELSE /\ UNCHANGED main \/ Die(p)
            /\ UNCHANGED just_created
  /\ UNCHANGED <<zkVars, tail_id, my_node, cb, children, next_id, next_server, aborted, failures>>

-----------------------------------------------------------------------------
(***************************************************************************)
(* Failures.                                                               *)
(***************************************************************************)
Fail == /\ failures < MaxFailures
        /\ failures' = failures + 1
        /\ calm'     = (calm /\ ~SomeJoin)

Crash(p) ==
  /\ main[p] \in Running
  /\ Fail
  /\ Die(p)
  /\ UNCHANGED <<zkVars, tail_id, my_node, cbVars, aborted, hiccups>>

(* SIGINT in the main loop.                                                *)
Interrupt(p) ==
  /\ main[p] = "serving"
  /\ Fail
  /\ Terminate(p)
  /\ UNCHANGED <<zkVars, tail_id, my_node, cbVars, aborted, hiccups>>

LeaveChain(p) ==
  /\ chain' = chain \ {p}
  /\ IF p \in chain THEN FireWatches ELSE UNCHANGED <<armed, event>>
  /\ UNCHANGED <<number, last>>

(* zookeeper_close() at the end of terminate() removes the node at once.   *)
CloseSession(p) ==
  /\ main[p] \in Ending
  /\ main' = [main EXCEPT ![p] = "closed"]
  /\ LeaveChain(p)
  /\ UNCHANGED <<tail_id, my_node, cbVars, envVars>>

(* The node of a crashed process lasts until its session times out.        *)
ExpireSession(p) ==
  /\ main[p] = "dead" /\ p \in chain
  /\ LeaveChain(p)
  /\ UNCHANGED <<mainVars, cbVars, envVars>>

-----------------------------------------------------------------------------
MainStep(p) == \/ WatchChain(p) \/ SyncTable(p) \/ SyncFails(p)
               \/ CreateNode(p) \/ CreateReturns(p)

CallbackStep(p) == \/ FirstEvent(p) \/ ChildEvent(p) \/ ScanChildren(p)
                   \/ Connect(p) \/ ConnectFails(p)

SessionEnds(p) == CloseSession(p) \/ ExpireSession(p)

Next == \E p \in Procs :
          \/ Start(p) \/ MainStep(p) \/ CallbackStep(p) \/ SessionEnds(p)
          \/ SessionEvent(p) \/ Crash(p) \/ Interrupt(p)

Spec == Init /\ [][Next]_vars

-----------------------------------------------------------------------------
TypeOK ==
  /\ chain \subseteq Procs /\ last \in 0 .. Cardinality(Procs)
  /\ number       \in [Procs -> 0 .. last]
  /\ armed        \in [Procs -> BOOLEAN]
  /\ event        \in [Procs -> BOOLEAN]
  /\ main         \in [Procs -> {"off"} \cup Running \cup Gone]
  /\ tail_id      \in [Procs -> 0 .. last]
  /\ my_node      \in [Procs -> 0 .. last]
  /\ just_created \in [Procs -> BOOLEAN]
  /\ cb           \in [Procs -> {"idle", "scan", "connect", "exit"}]
  /\ children     \in [Procs -> SUBSET (1 .. last)]
  /\ next_id      \in [Procs -> 0 .. last]
  /\ next_server  \in [Procs -> Procs \cup {Nobody, Freed}]
  /\ aborted \subseteq Procs
  /\ failures \in 0 .. MaxFailures /\ hiccups \in 0 .. MaxHiccups /\ calm \in BOOLEAN

(* The child after p's node, as ZooKeeper has it.                          *)
After(p) == {q \in chain : number[q] > number[p]}

ConnectedToSuccessor(p) ==
  IF After(p) = {} THEN next_server[p] = Nobody
  ELSE /\ next_server[p] \in After(p)
       /\ \A q \in After(p) : number[next_server[p]] <= number[q]

ChainFormed == \A p \in Procs : main[p] = "serving" => ConnectedToSuccessor(p)

(* As long as joins overlap nothing: when nothing is on its way, every     *)
(* server is connected to the server after it and the last one to none.    *)
ChainAgreesAtRest == calm /\ AtRest => ChainFormed

(* A server in its main loop forwards only to a server later in the chain: *)
(* as long as joins overlap nothing the connections never form a ring.     *)
NextIsLater ==
  calm => \A p \in Procs : main[p] = "serving" /\ next_id[p] # 0 => next_id[p] > my_node[p]

(* No server gives up unless some process failed before: joins alone never *)
(* take a server down.                                                     *)
OnlyFailuresStopServers ==
  failures = 0 /\ hiccups = 0 => \A p \in Procs : main[p] \notin Gone

(* A server that gives up does so because of a failed process later in the *)
(* chain: as long as joins overlap nothing, failures spread towards the    *)
(* head and never towards the tail.                                        *)
FailureSpreadsUpstream ==
  calm => \A p \in aborted : \E q \in Procs \ {p} : main[q] \in Gone /\ number[q] > my_node[p]
=============================================================================
