---------------------------- MODULE ServerThreads ----------------------------
(***************************************************************************)
(* The threads and descriptors of one server process: the main thread that *)
(* accepts connections and creates a thread for each, those threads, the   *)
(* callback of ZooKeeper that opens the connection to the next server, and *)
(* terminate(), which ends them all.                                       *)
(*                                                                         *)
(* A descriptor is a number; the kernel gives the lowest one that is free. *)
(* A thread keeps the number, in its slot of all_parameters, and uses it   *)
(* again at every call: what the number stands for may have changed.       *)
(*                                                                         *)
(*   create                                             thread             *)
(*     |                                                                   *)
(*   start -> receive -> reading -> invoke -> send -> receive              *)
(*               |          |                   |                          *)
(*               +----------+------> close <----+  (twice, thrice)         *)
(*                                     |                                   *)
(*                                   leave -> done                         *)
(*                                                                         *)
(* A request arrives and is answered as a whole; WireFormat has its bytes. *)
(* invoke() is one step here; ChainReplication has its steps.              *)
(***************************************************************************)
EXTENDS Integers, FiniteSets, FiniteSetsExt

CONSTANTS
  Conns,       \* connections of clients, each used once
  Link,        \* the connection to the next server
  Nobody,
  Fds,         \* descriptors beside those of the sockets that are never closed
  MaxThreads,  \* MAX_THREADS: the length of threads[] and all_parameters[]
  MaxDisorder, \* how often a client leaves during a call or sends what is no request
  Enders,      \* who may run terminate(): "main" (SIGINT), "callback"
  MaxLinks     \* how often the callback opens a connection to a next server

ASSUME ThreadsAssumption ==
  /\ IsFiniteSet(Conns) /\ Link \notin Conns /\ Nobody \notin Conns \cup {Link} \cup Fds
  /\ Fds \subseteq Nat /\ Cardinality(Fds) > Cardinality(Conns)
  /\ MaxThreads \in Nat \ {0} /\ MaxLinks \in Nat
  /\ MaxDisorder \in Nat /\ Enders \subseteq {"main", "callback"}

VARIABLES
  client,     \* client[c]: the client's end of c
  request,    \* request[c]: what the client has sent and nobody has read
  answer,     \* answer[c]: the connection whose request the answer on c is for
  disorder,   \* how often a client has left during a call or sent what is no request
  backlog,    \* connections that wait for accept
  desc,       \* desc[f]: the connection descriptor f stands for
  shut,       \* connections that were shut down
  linkfd,     \* next_server->sockfd, Nobody while next_server is NULL
  links,      \* how many connections the callback has opened
  main,       \* where the main thread is in network_main_loop
  new,        \* client_socket of network_main_loop
  counter,    \* thread_counter
  slot,       \* slot[i]: all_parameters[i].client_socket
  thread,     \* thread[i]: where threads[i] is
  reading,    \* reading[i]: the connection its read() is blocked on
  got,        \* got[i]: the connection it has its request from
  connected,  \* stats.connected_clients
  term,       \* where terminate() is
  idx,        \* the loop variable of teminate_threads
  table       \* the table: "there" or "freed"

clientVars == <<client, request, answer, disorder>>
mainVars   == <<backlog, main, new, counter, slot>>
threadVars == <<thread, reading, got, connected>>
termVars   == <<term, idx, table>>
linkVars   == <<linkfd, links>>
vars == <<clientVars, mainVars, threadVars, termVars, linkVars, desc, shut>>

Slots == 0 .. MaxThreads - 1

Init ==
  /\ client  = [c \in Conns |-> "off"]
  /\ request = [c \in Conns |-> "none"]
  /\ answer  = [c \in Conns |-> Nobody]
  /\ disorder = 0
  /\ backlog = {}
  /\ desc    = [f \in Fds |-> Nobody]
  /\ shut    = {}
  /\ linkfd  = Nobody
  /\ links   = 0
  /\ main    = "accept"
  /\ new     = Min(Fds)
  /\ counter = 0
  /\ slot    = [i \in Slots |-> Min(Fds)]
  /\ thread  = [i \in Slots |-> "none"]
  /\ reading = [i \in Slots |-> Nobody]
  /\ got     = [i \in Slots |-> Nobody]
  /\ connected = 0
  /\ term    = "no"
  /\ idx     = 0
  /\ table   = "there"

Running == term # "exit"
FreeFds == {f \in Fds : desc[f] = Nobody}

-----------------------------------------------------------------------------
(***************************************************************************)
(* Clients: the stub's call, its return, and the end of a connection.      *)
(***************************************************************************)
Connect(c) ==
  /\ client[c] = "off" /\ term \notin {"closed", "exit"}
  /\ client'  = [client EXCEPT ![c] = "idle"]
  /\ backlog' = backlog \cup {c}
  /\ UNCHANGED <<request, answer, disorder, main, new, counter, slot, threadVars, termVars, desc, shut, linkVars>>

(* A garbled request: the message went out without its length, because the *)
(* caller's own watcher replaced the connection in between.                *)
Call(c) ==
  /\ client[c] = "idle"
  /\ client' = [client EXCEPT ![c] = "calling"]
  /\ \E r \in {"whole", "garbled"} :
       /\ request' = [request EXCEPT ![c] = r]
       /\ disorder' = disorder + (IF r = "whole" THEN 0 ELSE 1)
  /\ disorder' <= MaxDisorder
  /\ UNCHANGED <<answer, mainVars, threadVars, termVars, desc, shut, linkVars>>

Return(c) ==
  /\ client[c] = "calling" /\ answer[c] # Nobody
  /\ client' = [client EXCEPT ![c] = "idle"]
  /\ answer' = [answer EXCEPT ![c] = Nobody]
  /\ UNCHANGED <<request, disorder, mainVars, threadVars, termVars, desc, shut, linkVars>>

(* The server's end is open: accepted, waiting for it, or held by a read.  *)
Open(c) ==
  /\ Running
  /\ c \in backlog \/ (\E f \in Fds : desc[f] = c) \/ (\E i \in Slots : reading[i] = c)

CallFails(c) ==
  /\ client[c] = "calling" /\ answer[c] = Nobody
  /\ ~Open(c) \/ c \in shut
  /\ client' = [client EXCEPT ![c] = "left"]
  /\ UNCHANGED <<request, answer, disorder, mainVars, threadVars, termVars, desc, shut, linkVars>>

Leave(c) ==
  /\ client[c] \in {"idle", "calling"}
  /\ disorder' = disorder + (IF client[c] = "idle" THEN 0 ELSE 1)
  /\ disorder' <= MaxDisorder
  /\ client'  = [client EXCEPT ![c] = "left"]
  /\ UNCHANGED <<request, answer, mainVars, threadVars, termVars, desc, shut, linkVars>>

-----------------------------------------------------------------------------
(***************************************************************************)
(* network_main_loop.  The signal handler runs on the main thread and does *)
(* not return to it.                                                       *)
(***************************************************************************)
InMain(label) == main = label /\ Running

Accept ==
  /\ InMain("accept") /\ term # "closed"
  /\ \E c \in backlog :
       /\ backlog' = backlog \ {c}
       /\ new'     = Min(FreeFds)
       /\ desc'    = [desc EXCEPT ![new'] = c]
  /\ main' = "store"
  /\ UNCHANGED <<clientVars, counter, slot, threadVars, termVars, shut, linkVars>>

(* Slip: the counter is incremented too early.                             *)
StoreAndCount ==
  /\ InMain("store")
  /\ slot' = [slot EXCEPT ![counter] = new]
  /\ main' = "create"
  /\ counter' = counter + 1
  /\ UNCHANGED <<clientVars, backlog, new, threadVars, termVars, desc, shut, linkVars>>

(* Beyond the last slot the two assignments write outside the array.       *)
StoreParameters ==
  /\ InMain("store")
  /\ IF counter \in Slots THEN /\ slot' = [slot EXCEPT ![counter] = new]
                               /\ main' = "create"
                          ELSE main' = "overrun" /\ UNCHANGED slot
  /\ UNCHANGED <<clientVars, backlog, new, counter, threadVars, termVars, desc, shut, linkVars>>

CreateThread ==
  /\ InMain("create")
  /\ thread' = [thread EXCEPT ![counter] = "start"]
  /\ main'   = "count"
  /\ UNCHANGED <<clientVars, backlog, new, counter, slot, reading, got, connected, termVars, desc, shut, linkVars>>

CountThread ==
  /\ InMain("count")
  /\ counter' = counter + 1
  /\ main'    = "accept"
  /\ UNCHANGED <<clientVars, backlog, new, slot, threadVars, termVars, desc, shut, linkVars>>

-----------------------------------------------------------------------------
(***************************************************************************)
(* thread_for_client.                                                      *)
(***************************************************************************)
At(i, label)    == Running /\ thread[i] = label
Go(i, label)    == thread' = [thread EXCEPT ![i] = label]
On(i)           == desc[slot[i]]
Over(c)         == c \in shut \/ (c \in Conns /\ client[c] = "left")

StartThread(i) ==
  /\ At(i, "start")
  /\ connected' = connected + 1
  /\ Go(i, "receive")
  /\ UNCHANGED <<clientVars, mainVars, reading, got, termVars, desc, shut, linkVars>>

(* read() takes hold of the connection the descriptor stands for.          *)
BeginRead(i) ==
  /\ At(i, "receive")
  /\ reading' = [reading EXCEPT ![i] = On(i)]
  /\ Go(i, IF On(i) = Nobody THEN "close" ELSE "reading")
  /\ UNCHANGED <<clientVars, mainVars, got, connected, termVars, desc, shut, linkVars>>

(* Slip: network_receive closes the socket at the end of the connection    *)
(* too, and thread_for_client once more.                                   *)
EndReadCloses(i) ==
  LET c == reading[i] IN
  /\ At(i, "reading") /\ c \in Conns
  /\ \/ request[c] = "whole" /\ Go(i, "invoke") /\ got' = [got EXCEPT ![i] = c]
     \/ request[c] = "none" /\ Over(c) /\ Go(i, "twice") /\ UNCHANGED got
  /\ request' = [request EXCEPT ![c] = "none"]
  /\ reading' = [reading EXCEPT ![i] = Nobody]
  /\ UNCHANGED <<client, answer, disorder, mainVars, connected, termVars, desc, shut, linkVars>>

(* The end of network_receive: a request, something that cannot be         *)
(* unpacked, or the end of the connection.                                 *)
EndRead(i) ==
  LET c == reading[i] IN
  /\ At(i, "reading")
  /\ \/ /\ c \in Conns /\ request[c] = "whole"
        /\ got' = [got EXCEPT ![i] = c]
        /\ Go(i, "invoke")
     \/ c \in Conns /\ request[c] = "garbled" /\ Go(i, "thrice") /\ UNCHANGED got
     \/ c \in Conns /\ request[c] = "none" /\ Over(c) /\ Go(i, "close") /\ UNCHANGED got
     \/ c = Link /\ Over(c) /\ Go(i, "close") /\ UNCHANGED got
  /\ request' = IF c \in Conns THEN [request EXCEPT ![c] = "none"] ELSE request
  /\ reading' = [reading EXCEPT ![i] = Nobody]
  /\ UNCHANGED <<client, answer, disorder, mainVars, connected, termVars, desc, shut, linkVars>>

Invoke(i) ==
  /\ At(i, "invoke")
  /\ Go(i, "send")
  /\ UNCHANGED <<clientVars, mainVars, reading, got, connected, termVars, desc, shut, linkVars>>

SendWorks(i) ==
  /\ On(i) \notin shut \cup {Nobody}
  /\ Go(i, "receive")
  /\ answer' = IF On(i) \in Conns THEN [answer EXCEPT ![On(i)] = got[i]] ELSE answer

(* Slip: a failure to send leaves the socket open.                         *)
SendFailsOpen(i) ==
  /\ On(i) = Nobody \/ Over(On(i))
  /\ Go(i, "leave")
  /\ UNCHANGED answer

(* network_send closes the socket when it fails.  A client that has left   *)
(* may still let the writes succeed.                                       *)
SendFails(i) ==
  /\ On(i) = Nobody \/ Over(On(i))
  /\ Go(i, "twice")
  /\ UNCHANGED answer

Send(i) ==
  /\ At(i, "send")
  /\ SendWorks(i) \/ SendFails(i)
  /\ got' = [got EXCEPT ![i] = Nobody]
  /\ UNCHANGED <<client, request, disorder, mainVars, reading, connected, termVars, desc, shut, linkVars>>

(* How often the socket is still closed from here.                         *)
Closing == [thrice |-> "twice", twice |-> "close", close |-> "leave"]

Close(i) ==
  /\ \E label \in DOMAIN Closing : At(i, label) /\ Go(i, Closing[label])
  /\ desc' = [desc EXCEPT ![slot[i]] = Nobody]
  /\ UNCHANGED <<clientVars, mainVars, reading, got, connected, termVars, shut, linkVars>>

EndThread(i) ==
  /\ At(i, "leave")
  /\ connected' = connected - 1
  /\ Go(i, "done")
  /\ UNCHANGED <<clientVars, mainVars, reading, got, termVars, desc, shut, linkVars>>

-----------------------------------------------------------------------------
(***************************************************************************)
(* The callback's connection to the next server.                           *)
(***************************************************************************)
(* It is busy for good when it runs terminate().                           *)
CallbackFree == term = "no" \/ (main = "handler" /\ Running)

OpenLink ==
  /\ CallbackFree /\ links < MaxLinks /\ linkfd = Nobody
  /\ linkfd' = Min(FreeFds)
  /\ desc'   = [desc EXCEPT ![linkfd'] = Link]
  /\ links'  = links + 1
  /\ UNCHANGED <<clientVars, mainVars, threadVars, termVars, shut>>

(* rtable_disconnect closes the number it has kept.                        *)
CloseLink ==
  /\ CallbackFree /\ linkfd # Nobody
  /\ linkfd' = Nobody
  /\ desc'   = [desc EXCEPT ![linkfd] = Nobody]
  /\ UNCHANGED <<clientVars, mainVars, threadVars, termVars, shut, links>>

-----------------------------------------------------------------------------
(***************************************************************************)
(* terminate(): by SIGINT on the main thread, wherever that is, or by the  *)
(* callback that cannot connect to its next server, beside the main loop.  *)
(* That both run it is left out.                                           *)
(***************************************************************************)
Interrupt ==
  /\ "main" \in Enders /\ term = "no" /\ main # "overrun"
  /\ term' = "shut"
  /\ main' = "handler"
  /\ UNCHANGED <<clientVars, backlog, new, counter, slot, threadVars, idx, table, desc, shut, linkVars>>

GiveUp ==
  /\ "callback" \in Enders /\ term = "no" /\ linkfd = Nobody
  /\ term' = "shut"
  /\ UNCHANGED <<clientVars, mainVars, threadVars, idx, table, desc, shut, linkVars>>

(* Slip: the loop leaves out the last slot.                                *)
ShutDownButLast ==
  /\ term = "shut"
  /\ IF idx < counter - 1
       THEN shut' = shut \cup ({desc[slot[idx]]} \ {Nobody}) /\ idx' = idx + 1 /\ UNCHANGED term
       ELSE term' = "join" /\ idx' = 0 /\ UNCHANGED shut
  /\ UNCHANGED <<clientVars, mainVars, threadVars, table, desc, linkVars>>

(* shutdown() of the descriptor in each slot, whatever it stands for now.  *)
ShutDown ==
  /\ term = "shut"
  /\ IF idx < counter
       THEN shut' = shut \cup ({desc[slot[idx]]} \ {Nobody}) /\ idx' = idx + 1 /\ UNCHANGED term
       ELSE term' = "join" /\ idx' = 0 /\ UNCHANGED shut
  /\ UNCHANGED <<clientVars, mainVars, threadVars, table, desc, linkVars>>

(* Slip: the join loop is left one too early.                              *)
JoinButLast ==
  /\ term = "join"
  /\ IF idx < counter - 1 THEN thread[idx] = "done" /\ idx' = idx + 1 /\ UNCHANGED term
                          ELSE term' = "destroy" /\ UNCHANGED idx
  /\ UNCHANGED <<clientVars, mainVars, threadVars, table, desc, shut, linkVars>>

Join ==
  /\ term = "join"
  /\ IF idx < counter THEN thread[idx] = "done" /\ idx' = idx + 1 /\ UNCHANGED term
                      ELSE term' = "destroy" /\ UNCHANGED idx
  /\ UNCHANGED <<clientVars, mainVars, threadVars, table, desc, shut, linkVars>>

(* destroy_locks and server_skeleton_destroy.                              *)
Destroy ==
  /\ term = "destroy"
  /\ table' = "freed"
  /\ term'  = "close"
  /\ UNCHANGED <<clientVars, mainVars, threadVars, idx, desc, shut, linkVars>>

(* The listening socket, and with it the connections in its backlog; then  *)
(* zookeeper_close and exit: all that is left is closed.                   *)
CloseListening ==
  /\ term = "close"
  /\ term'    = "closed"
  /\ backlog' = {}
  /\ UNCHANGED <<clientVars, main, new, counter, slot, threadVars, idx, table, desc, shut, linkVars>>

Exit ==
  /\ term = "closed"
  /\ term' = "exit"
  /\ desc' = [f \in Fds |-> Nobody]
  /\ UNCHANGED <<clientVars, mainVars, threadVars, idx, table, shut, linkVars>>

-----------------------------------------------------------------------------
MainStep == Accept \/ StoreParameters \/ CreateThread \/ CountThread

ThreadStep(i) ==
  StartThread(i) \/ BeginRead(i) \/ EndRead(i) \/ Invoke(i) \/ Send(i) \/ Close(i) \/ EndThread(i)

TermStep == ShutDown \/ Join \/ Destroy \/ CloseListening \/ Exit

Next ==
  \/ \E c \in Conns : Connect(c) \/ Call(c) \/ Return(c) \/ CallFails(c) \/ Leave(c)
  \/ MainStep \/ (\E i \in Slots : ThreadStep(i))
  \/ OpenLink \/ CloseLink
  \/ Interrupt \/ GiveUp \/ TermStep

Spec == Init /\ [][Next]_vars

-----------------------------------------------------------------------------
Working == {"invoke", "send"}

(* Types; a thread holds a connection exactly while it reads, and a        *)
(* request exactly while it works on it; every thread before the counter   *)
(* was created, and none after it but the one about to be counted.         *)
TypeOK ==
  /\ client  \in [Conns -> {"off", "idle", "calling", "left"}]
  /\ request \in [Conns -> {"none", "whole", "garbled"}]
  /\ answer  \in [Conns -> Conns \cup {Nobody}]
  /\ backlog \subseteq Conns
  /\ desc    \in [Fds -> Conns \cup {Link, Nobody}]
  /\ shut \subseteq Conns \cup {Link}
  /\ slot    \in [Slots -> Fds] /\ new \in Fds /\ linkfd \in Fds \cup {Nobody}
  /\ counter \in 0 .. MaxThreads /\ idx \in 0 .. MaxThreads
  /\ \A i \in Slots :
       /\ thread[i] = "reading" <=> reading[i] # Nobody
       /\ thread[i] \in Working <=> got[i] # Nobody
       /\ thread[i] = "none" => i >= counter
       /\ i > counter => thread[i] = "none"

(* Nothing has made a call fail in the middle: no client, and no shutdown  *)
(* while main goes on accepting.                                           *)
Orderly == disorder = 0 /\ (term = "no" \/ main = "handler")

(* As long as no call fails: whatever is answered on a connection is the   *)
(* answer to the request that came on it, although descriptors are used    *)
(* again.                                                                  *)
OwnAnswers == Orderly => \A c \in Conns : answer[c] \in {c, Nobody}

Waits(i) == thread[i] = "reading" /\ ~Over(reading[i]) /\ \A c \in Conns : reading[i] = c => request[c] = "none"

AtRest ==
  /\ main = "accept" /\ term = "no" /\ backlog = {}
  /\ \A i \in Slots : thread[i] \in {"none", "done"} \/ Waits(i)

(* At rest, also when descriptors were closed twice under other threads:   *)
(* no connection stays open without a thread that would notice its end,    *)
(* and connected_clients is the number of those threads.  As long as no    *)
(* call fails they are the threads of the clients that are connected.      *)
OpenIsServed ==
  LET here   == {c \in Conns : client[c] \in {"idle", "calling"}}
      served == {reading[i] : i \in Slots} \ {Nobody}
  IN AtRest => /\ \A f \in Fds : desc[f] \in Conns => desc[f] \in served
               /\ connected = Cardinality({i \in Slots : thread[i] = "reading"})
               /\ Orderly => served = here

(* Once terminate() has freed the table and the locks after SIGINT, no     *)
(* thread works that was counted: only one that the signal caught main     *)
(* about to count can.  It says nothing of terminate() on the callback's   *)
(* thread, beside which main goes on to accept and to count.               *)
TableOutlivesCounted ==
  table = "freed" /\ main = "handler" => \A i \in Slots : thread[i] \notin {"none", "done"} => i = counter

(* After SIGINT, if no client has broken off, terminate() does not join a  *)
(* thread that nothing will wake: every thread before the counter is past  *)
(* its loop, or its connection is shut down or at its end, or it still has *)
(* a request to finish.  Of terminate() on the callback's thread it says   *)
(* nothing: there it does join such threads.                               *)
JoinedIsWoken ==
  Orderly /\ term = "join" => \A i \in Slots : i < counter => ~Waits(i)
=============================================================================
