----------------------------- MODULE Statistics -----------------------------
(***************************************************************************)
(* The statistics of a server: three int fields under rwlock_stats, which  *)
(* the threads of the clients increase, decrease and read.  An increment   *)
(* is a load and a store, and reading the three takes three loads.         *)
(*                                                                         *)
(* A thread is off before and after its life, ready between two requests,  *)
(* and on its way through a critical section for a purpose of its own:     *)
(*                                                                         *)
(*   inc, dec   wait -> load -> store  -> unlock                           *)
(*   count      wait -> load -> store  -> store2 -> unlock                 *)
(*   stats      wait -> read -> read2  -> read3  -> answer                 *)
(*                                                                         *)
(* "inc" and "dec" are for connected_clients, "count" is the end of        *)
(* invoke(), "stats" is OP_STATS, which is not counted itself.             *)
(***************************************************************************)
EXTENDS Integers, FiniteSets

CONSTANTS
  Threads,
  Nobody,
  Elapsed,   \* how long an operation may take by gettimeofday, which can go back
  Half,      \* 2^31: the fields are int
  MaxOps     \* bound: no operation begins when so many are counted

ASSUME StatisticsAssumption ==
  /\ IsFiniteSet(Threads) /\ Nobody \notin Threads
  /\ Elapsed \subseteq Int /\ Half \in Nat \ {0} /\ MaxOps \in Nat
  /\ Cardinality(Threads) < Half   \* connected_clients cannot wrap

VARIABLES
  connected_clients, operations_counter, processing_time,  \* stats
  pc,        \* pc[t]: where thread t is
  purpose,   \* purpose[t]: what it takes the lock for
  elapsed,   \* elapsed[t]: the time its operation took
  loaded,    \* loaded[t]: what it has loaded
  writer,    \* the thread that holds rwlock_stats for writing, or Nobody
  readers,   \* the threads that hold it for reading
  clients,   \* the threads that have counted and not yet discounted a client
  counted,   \* the operations that were counted
  total      \* the time they took together

stats     == <<connected_clients, operations_counter, processing_time>>
lockVars  == <<writer, readers>>
ghostVars == <<clients, counted, total>>
vars      == <<stats, pc, purpose, elapsed, loaded, lockVars, ghostVars>>

Zero == [connected |-> 0, operations |-> 0, time |-> 0]

Init ==
  /\ connected_clients = 0 /\ operations_counter = 0 /\ processing_time = 0
  /\ pc      = [t \in Threads |-> "off"]
  /\ purpose = [t \in Threads |-> "inc"]
  /\ elapsed = [t \in Threads |-> 0]
  /\ loaded  = [t \in Threads |-> Zero]
  /\ writer  = Nobody
  /\ readers = {}
  /\ clients = {} /\ counted = 0 /\ total = 0

(* The conversion of long to int, for processing_time, and what the build  *)
(* makes of an int that is increased too often, for operations_counter:    *)
(* the value modulo 2^32, with its sign.                                   *)
Wrap(n) == ((n + Half) % (2 * Half)) - Half

From(t, here, there) == pc[t] = here /\ pc' = [pc EXCEPT ![t] = there]

-----------------------------------------------------------------------------
(***************************************************************************)
(* What a thread comes for.                                                *)
(***************************************************************************)
Want(t, here, what) ==
  /\ From(t, here, "wait")
  /\ purpose' = [purpose EXCEPT ![t] = what]
  /\ UNCHANGED <<stats, loaded, lockVars, ghostVars>>

Arrive(t)   == Want(t, "off", "inc") /\ UNCHANGED elapsed
Depart(t)   == Want(t, "ready", "dec") /\ UNCHANGED elapsed
AskStats(t) == Want(t, "ready", "stats") /\ UNCHANGED elapsed

Operation(t) ==
  /\ counted < MaxOps
  /\ Want(t, "ready", "count")
  /\ \E e \in Elapsed : elapsed' = [elapsed EXCEPT ![t] = e]

-----------------------------------------------------------------------------
(***************************************************************************)
(* Under the lock for writing.                                             *)
(***************************************************************************)
(* Slip: the lock is taken for reading.                                    *)
LockShared(t) ==
  /\ writer = Nobody
  /\ purpose[t] # "stats" /\ From(t, "wait", "load")
  /\ readers' = readers
  /\ UNCHANGED <<stats, purpose, elapsed, loaded, writer, ghostVars>>

LockWriter(t) ==
  /\ writer = Nobody /\ readers = {}
  /\ purpose[t] # "stats" /\ From(t, "wait", "load")
  /\ writer' = t
  /\ UNCHANGED <<stats, purpose, elapsed, loaded, readers, ghostVars>>

Load(t) ==
  /\ From(t, "load", "store")
  /\ loaded' = [loaded EXCEPT ![t] = [connected  |-> connected_clients,
                                      operations |-> operations_counter,
                                      time       |-> processing_time]]
  /\ UNCHANGED <<stats, purpose, elapsed, lockVars, ghostVars>>

Increase(t) ==
  /\ purpose[t] = "inc" /\ From(t, "store", "unlock")
  /\ connected_clients' = loaded[t].connected + 1
  /\ clients' = clients \cup {t}
  /\ UNCHANGED <<operations_counter, processing_time, purpose, elapsed, loaded, lockVars, counted, total>>

Decrease(t) ==
  /\ purpose[t] = "dec" /\ From(t, "store", "unlock")
  /\ connected_clients' = loaded[t].connected - 1
  /\ clients' = clients \ {t}
  /\ UNCHANGED <<operations_counter, processing_time, purpose, elapsed, loaded, lockVars, counted, total>>

AddTime(t) ==
  /\ purpose[t] = "count" /\ From(t, "store", "store2")
  /\ processing_time' = Wrap(loaded[t].time + elapsed[t])
  /\ total' = total + elapsed[t]
  /\ UNCHANGED <<connected_clients, operations_counter, purpose, elapsed, loaded, lockVars, clients, counted>>

CountOperation(t) ==
  /\ From(t, "store2", "unlock")
  /\ operations_counter' = Wrap(loaded[t].operations + 1)
  /\ counted' = counted + 1
  /\ UNCHANGED <<connected_clients, processing_time, purpose, elapsed, loaded, lockVars, clients, total>>

UnlockWriter(t) ==
  /\ From(t, "unlock", IF purpose[t] = "dec" THEN "off" ELSE "ready")
  /\ writer'  = Nobody
  /\ loaded'  = [loaded EXCEPT ![t] = Zero]
  /\ elapsed' = [elapsed EXCEPT ![t] = 0]
  /\ UNCHANGED <<stats, purpose, readers, ghostVars>>

-----------------------------------------------------------------------------
(***************************************************************************)
(* OP_STATS, under the lock for reading.                                   *)
(***************************************************************************)
(* Slip: a reader does not wait for the writer.                            *)
LockReaderAnyway(t) ==
  /\ purpose[t] = "stats" /\ From(t, "wait", "read")
  /\ readers' = readers \cup {t}
  /\ UNCHANGED <<stats, purpose, elapsed, loaded, writer, ghostVars>>

LockReader(t) ==
  /\ writer = Nobody
  /\ purpose[t] = "stats" /\ From(t, "wait", "read")
  /\ readers' = readers \cup {t}
  /\ UNCHANGED <<stats, purpose, elapsed, loaded, writer, ghostVars>>

Read(t, here, there, field, value) ==
  /\ From(t, here, there)
  /\ loaded' = [loaded EXCEPT ![t] = [@ EXCEPT ![field] = value]]
  /\ UNCHANGED <<stats, purpose, elapsed, lockVars, ghostVars>>

ReadClients(t)    == Read(t, "read",  "read2",  "connected",  connected_clients)
ReadOperations(t) == Read(t, "read2", "read3",  "operations", operations_counter)
ReadTime(t)       == Read(t, "read3", "answer", "time",       processing_time)

UnlockReader(t) ==
  /\ From(t, "answer", "ready")
  /\ readers' = readers \ {t}
  /\ loaded'  = [loaded EXCEPT ![t] = Zero]
  /\ UNCHANGED <<stats, purpose, elapsed, writer, ghostVars>>

-----------------------------------------------------------------------------
Next == \E t \in Threads :
  \/ Arrive(t) \/ Depart(t) \/ AskStats(t) \/ Operation(t)
  \/ LockWriter(t) \/ Load(t) \/ Increase(t) \/ Decrease(t)
  \/ AddTime(t) \/ CountOperation(t) \/ UnlockWriter(t)
  \/ LockReader(t) \/ ReadClients(t) \/ ReadOperations(t) \/ ReadTime(t) \/ UnlockReader(t)

Spec == Init /\ [][Next]_vars

-----------------------------------------------------------------------------
Writing == {"load", "store", "store2", "unlock"}
Reading == {"read", "read2", "read3", "answer"}
Labels  == {"off", "ready", "wait"} \cup Writing \cup Reading
Record  == [connected : Int, operations : Int, time : Int]

(* Types; the lock is held by the threads that are in its sections.        *)
TypeOK ==
  /\ connected_clients \in Int /\ operations_counter \in Int /\ processing_time \in Int
  /\ pc      \in [Threads -> Labels]
  /\ purpose \in [Threads -> {"inc", "dec", "count", "stats"}]
  /\ elapsed \in [Threads -> Elapsed \cup {0}]
  /\ loaded  \in [Threads -> Record]
  /\ writer  \in Threads \cup {Nobody}
  /\ readers \subseteq Threads
  /\ clients \subseteq Threads /\ counted \in Nat /\ total \in Int
  /\ \A t \in Threads : /\ pc[t] \in Writing <=> writer = t
                        /\ pc[t] \in Reading <=> t \in readers

(* No update is lost, in any order of the threads: whenever nobody writes, *)
(* the fields are the clients there are, the operations that were counted  *)
(* and the time they took, both wrapped as an int is.                      *)
StatsExact ==
  writer = Nobody =>
    /\ connected_clients  = Cardinality(clients)
    /\ operations_counter = Wrap(counted)
    /\ processing_time    = Wrap(total)

(* The three numbers of an answer are those of one instant: the time is    *)
(* that of just the operations that are counted with it.                   *)
AnswerIsSnapshot ==
  \A t \in Threads : pc[t] = "answer" =>
    loaded[t] = [connected |-> Cardinality(clients), operations |-> Wrap(counted), time |-> Wrap(total)]
=============================================================================
