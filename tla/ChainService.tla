---------------------------- MODULE ChainService ----------------------------
(***************************************************************************)
(* The service as a whole: the chain of ChainMembership, whose servers     *)
(* join, fail and replace next_server, and the puts that run along it at   *)
(* the same time.  The membership's variables and actions are those of     *)
(* that module.  Here every server also has its table, the holder of the   *)
(* write lock and the stage of the call on next_server it makes under it.  *)
(*                                                                         *)
(* Each put has a key of its own: a table is the set of the puts it holds. *)
(* ChainReplication has the reads, the removals and puts of the same key.  *)
(*                                                                         *)
(* invoke() uses the pointer next_server and the descriptor in it without  *)
(* any lock against chain_watcher, which frees and replaces both:          *)
(*                                                                         *)
(*   idle      nobody holds the write lock                                 *)
(*   look      the put is in the own table; next_server is looked at       *)
(*   send      the descriptor of the connection to callee is known         *)
(*   half      the length is on its way                                    *)
(*   sent      the whole request is on its way                             *)
(*   await     blocked in the read of the answer's length                  *)
(*   body      the length is read, the answer itself is not                *)
(*   lost      blocked on a connection on which no answer will come        *)
(*   unlock    the call is over, its result is dropped                     *)
(***************************************************************************)
EXTENDS Naturals, FiniteSets, FiniteSetsExt

CONSTANTS
  Procs, Nobody, Freed, MaxFailures, MaxHiccups, MaxRushed,  \* see ChainMembership
  Puts          \* the puts of the clients

ASSUME PutsAssumption == IsFiniteSet(Puts) /\ Nobody \notin Puts

VARIABLES
  chain, number, last, armed, event, main, tail_id, my_node,
  just_created, cb, children, next_id, next_server, aborted, failures, hiccups, calm,
  table,    \* table[p]: the puts in the table of p
  writer,   \* writer[p]: the put whose thread holds the write lock of p, or Nobody
  stage,    \* stage[p]: where that thread is
  callee,   \* callee[p]: the process its descriptor is connected to
  inbox,    \* inbox[p]: the puts that have arrived at p and wait for the lock
  entry,    \* entry[w]: the server a client sent put w to, Nobody before
  acked,    \* the puts whose clients have been answered
  seen,     \* the puts clients have read at the last server, since there is a server
  behind,   \* those they have read at a server that was not the last one any more
  apart     \* no put has overlapped a join

Chain == INSTANCE ChainMembership

ASSUME ChainAssumption == Chain!ProcsAssumption /\ Chain!BoundsAssumption

chainVars == <<chain, number, last, armed, event, main, tail_id, my_node, just_created,
               cb, children, next_id, next_server, aborted, failures, hiccups, calm>>
dataVars  == <<table, writer, stage, callee, inbox, entry, acked, seen, behind, apart>>
vars      == <<chainVars, dataVars>>

Init ==
  /\ Chain!Init
  /\ table  = [p \in Procs |-> {}]
  /\ writer = [p \in Procs |-> Nobody]
  /\ stage  = [p \in Procs |-> "idle"]
  /\ callee = [p \in Procs |-> Nobody]
  /\ inbox  = [p \in Procs |-> {}]
  /\ entry  = [w \in Puts |-> Nobody]
  /\ acked  = {}
  /\ seen   = {}
  /\ behind = {}
  /\ apart  = TRUE

Idle(p)    == writer[p] = Nobody
NoPutAtWork == \A p \in Procs : Idle(p) /\ inbox[p] = {}
Gone(p)    == main[p] \in Chain!Gone

-----------------------------------------------------------------------------
(***************************************************************************)
(* Membership, and what it does to the data.                               *)
(***************************************************************************)
(* Joins overlap neither joins nor failures here, but puts.                *)
Start(p) ==
  /\ Chain!Start(p) /\ calm'
  /\ apart' = (apart /\ NoPutAtWork)
  /\ UNCHANGED <<table, writer, stage, callee, inbox, entry, acked, seen, behind>>

(* Slip: the table of the first server is copied.                          *)
CopyTableOfHead(p) ==
  /\ Chain!SyncTable(p)
  /\ LET head == Chain!Owner(Min(Chain!Children)) IN
     /\ Idle(head)
     /\ table' = [table EXCEPT ![p] = table[head]]
  /\ UNCHANGED <<writer, stage, callee, inbox, entry, acked, seen, behind, apart>>

(* Slip: the loop over the entries leaves one out.                         *)
CopyTableButOne(p) ==
  /\ Chain!SyncTable(p)
  /\ Idle(Chain!Owner(tail_id[p]))
  /\ \E w \in Puts :
       table' = [table EXCEPT ![p] = table[Chain!Owner(tail_id[p])] \ {w}]
  /\ UNCHANGED <<writer, stage, callee, inbox, entry, acked, seen, behind, apart>>

(* sync_local_table: the tail answers GETTABLE under its read lock, and    *)
(* the entries are put into the empty table of p.                          *)
CopyTable(p) ==
  /\ Chain!SyncTable(p)
  /\ Idle(Chain!Owner(tail_id[p]))
  /\ table' = [table EXCEPT ![p] = table[Chain!Owner(tail_id[p])]]
  /\ UNCHANGED <<writer, stage, callee, inbox, entry, acked, seen, behind, apart>>

Join(p) ==
  /\ Chain!WatchChain(p) \/ Chain!SyncFails(p) \/ Chain!CreateNode(p) \/ Chain!CreateReturns(p)
  /\ UNCHANGED dataVars

Watch(p) ==
  /\ Chain!FirstEvent(p) \/ Chain!ChildEvent(p) \/ Chain!ScanChildren(p) \/ Chain!Connect(p)
  /\ UNCHANGED dataVars

Up(p) == main[p] \in Chain!Up

(* What a process had in memory is gone with it; with the last server of   *)
(* the chain all that was ever stored is.                                  *)
Forget(p) ==
  /\ table'  = [table  EXCEPT ![p] = {}]
  /\ writer' = [writer EXCEPT ![p] = Nobody]
  /\ stage'  = [stage  EXCEPT ![p] = "idle"]
  /\ callee' = [callee EXCEPT ![p] = Nobody]
  /\ inbox'  = [inbox  EXCEPT ![p] = {}]
  /\ IF \E q \in chain \ {p} : Up(q) THEN UNCHANGED <<seen, behind>> ELSE seen' = {} /\ behind' = {}
  /\ UNCHANGED <<entry, acked, apart>>

(* Slip: terminate() does not join the threads.                            *)
StopAtOnce(p) ==
  /\ Chain!ConnectFails(p) \/ Chain!Interrupt(p)
  /\ calm'
  /\ UNCHANGED dataVars

(* terminate() joins the threads before anything is closed: a put under    *)
(* way is finished first.                                                  *)
Stop(p) ==
  /\ Idle(p)
  /\ Chain!ConnectFails(p) \/ Chain!Interrupt(p)
  /\ calm'
  /\ Forget(p)

Crash(p) == Chain!Crash(p) /\ calm' /\ Forget(p)

EndSession(p) == Chain!SessionEnds(p) /\ UNCHANGED dataVars

-----------------------------------------------------------------------------
(***************************************************************************)
(* Puts: the client's, and invoke() with its call on next_server.          *)
(***************************************************************************)
IsHead(p) == p \in chain /\ number[p] = Min(Chain!Children)

(* The server that joined last is part of the chain: some server before it *)
(* has opened a connection to it.                                          *)
JoinsComplete ==
  /\ ~Chain!SomeJoin
  /\ \A q \in chain : number[q] = last => chain = {q} \/ \E p \in Procs : next_server[p] = q

ClientPut(w, p) ==
  /\ entry[w] = Nobody
  /\ IsHead(p) /\ main[p] = "serving"
  /\ apart' = (apart /\ JoinsComplete)
  /\ entry' = [entry EXCEPT ![w] = p]
  /\ inbox' = [inbox EXCEPT ![p] = @ \cup {w}]
  /\ UNCHANGED <<chainVars, table, writer, stage, callee, acked, seen, behind>>

Goto(p, label) == stage' = [stage EXCEPT ![p] = label]

(* lock_writer_table and table_put.                                        *)
ApplyPut(p, w) ==
  /\ main[p] = "serving" /\ Idle(p) /\ w \in inbox[p]
  /\ inbox'  = [inbox EXCEPT ![p] = @ \ {w}]
  /\ writer' = [writer EXCEPT ![p] = w]
  /\ table'  = [table EXCEPT ![p] = @ \cup {w}]
  /\ Goto(p, "look")
  /\ UNCHANGED <<chainVars, callee, entry, acked, seen, behind, apart>>

Working(p, label) == main[p] = "serving" /\ stage[p] = label

(* The connection was closed, and maybe another one opened, since the      *)
(* descriptor was read.                                                    *)
Replaced(p) == next_server[p] # callee[p]

(* Writing to a descriptor that is closed by now fails; or the main loop   *)
(* has accepted a client on it, and what is written goes there.            *)
ClosedUnder(p) == next_server[p] \in {Nobody, Freed} /\ (Goto(p, "unlock") \/ Goto(p, "lost"))

(* next_server is tested and used.  When it has just been freed the call   *)
(* fails on what is left in the structure, or goes to a descriptor that is *)
(* no connection of the chain.                                             *)
LookAtNext(p) ==
  /\ Working(p, "look")
  /\ \/ next_server[p] = Nobody /\ Goto(p, "unlock") /\ UNCHANGED callee
     \/ next_server[p] = Freed /\ (Goto(p, "unlock") \/ Goto(p, "lost")) /\ UNCHANGED callee
     \/ /\ next_server[p] \in Procs
        /\ callee' = [callee EXCEPT ![p] = next_server[p]]
        /\ Goto(p, "send")
  /\ UNCHANGED <<chainVars, table, writer, inbox, entry, acked, seen, behind, apart>>

(* The length of the request: to the connection the descriptor is of now.  *)
(* A server that is gone has closed it, and the write may fail.            *)
SendLength(p) ==
  /\ Working(p, "send")
  /\ \/ ClosedUnder(p) /\ UNCHANGED callee
     \/ /\ next_server[p] \in Procs
        /\ callee' = [callee EXCEPT ![p] = next_server[p]]
        /\ Goto(p, "half") \/ (Gone(next_server[p]) /\ Goto(p, "unlock"))
  /\ UNCHANGED <<chainVars, table, writer, inbox, entry, acked, seen, behind, apart>>

(* The message.  Without its length, on a connection opened in between, it *)
(* is no request.                                                          *)
SendMessage(p) ==
  /\ Working(p, "half")
  /\ \/ ClosedUnder(p) /\ UNCHANGED inbox
     \/ /\ next_server[p] \in Procs /\ Replaced(p)
        /\ Goto(p, "lost")
        /\ UNCHANGED inbox
     \/ /\ next_server[p] \in Procs /\ ~Replaced(p)
        /\ \/ Goto(p, "sent")
              /\ inbox' = IF Gone(callee[p]) THEN inbox
                          ELSE [inbox EXCEPT ![callee[p]] = @ \cup {writer[p]}]
           \/ Gone(callee[p]) /\ Goto(p, "unlock") /\ UNCHANGED inbox
  /\ UNCHANGED <<chainVars, table, writer, callee, entry, acked, seen, behind, apart>>

(* read_all is entered: on the connection the request went to, or on the   *)
(* one that has taken its descriptor.                                      *)
BeginRead(p) ==
  /\ Working(p, "sent")
  /\ \/ ~Replaced(p) /\ Goto(p, "await")
     \/ Replaced(p) /\ next_server[p] \in Procs /\ Goto(p, "lost")
     \/ Replaced(p) /\ ClosedUnder(p)
  /\ UNCHANGED <<chainVars, table, writer, callee, inbox, entry, acked, seen, behind, apart>>

Answered(p) ==
  LET q == callee[p] IN writer[p] \in table[q] /\ writer[p] \notin inbox[q] /\ writer[q] # writer[p]

(* Slip: the server does not wait for the answer of next_server.           *)
ReadLengthAtOnce(p) ==
  /\ Working(p, "await")
  /\ Goto(p, "unlock")
  /\ UNCHANGED <<chainVars, table, writer, callee, inbox, entry, acked, seen, behind, apart>>

(* Slip: the end of the connection does not end the read.                  *)
ReadLengthAnswered(p) ==
  /\ Working(p, "await")
  /\ Answered(p) /\ Goto(p, "body")
  /\ UNCHANGED <<chainVars, table, writer, callee, inbox, entry, acked, seen, behind, apart>>

(* The answer is there, or the connection is at its end.                   *)
ReadLength(p) ==
  /\ Working(p, "await")
  /\ (Answered(p) /\ Goto(p, "body")) \/ (Gone(callee[p]) /\ Goto(p, "unlock"))
  /\ UNCHANGED <<chainVars, table, writer, callee, inbox, entry, acked, seen, behind, apart>>

(* The second read_all: the answer, or its end; or it is made on what has  *)
(* taken the descriptor.                                                   *)
CallReturns(p) ==
  /\ Working(p, "body")
  /\ \/ ~Replaced(p) /\ Goto(p, "unlock")
     \/ Replaced(p) /\ next_server[p] \in Procs /\ Goto(p, "lost")
     \/ Replaced(p) /\ ClosedUnder(p)
  /\ UNCHANGED <<chainVars, table, writer, callee, inbox, entry, acked, seen, behind, apart>>

(* Whoever is at the other end of a lost call may close the connection.    *)
LostCallEnds(p) ==
  /\ Working(p, "lost")
  /\ Goto(p, "unlock")
  /\ UNCHANGED <<chainVars, table, writer, callee, inbox, entry, acked, seen, behind, apart>>

(* unlock_table and network_send: success, whatever next_server said.      *)
Answer(p) ==
  /\ Working(p, "unlock")
  /\ writer' = [writer EXCEPT ![p] = Nobody]
  /\ callee' = [callee EXCEPT ![p] = Nobody]
  /\ Goto(p, "idle")
  /\ acked'  = IF entry[writer[p]] = p THEN acked \cup {writer[p]} ELSE acked
  /\ UNCHANGED <<chainVars, table, inbox, entry, seen, behind, apart>>

IsTail(p) == p \in chain /\ number[p] = Max(Chain!Children)

ReadAt(p) ==
  /\ IF IsTail(p) THEN seen' = seen \cup table[p] /\ UNCHANGED behind
                  ELSE behind' = behind \cup table[p] /\ UNCHANGED seen
  /\ UNCHANGED <<chainVars, table, writer, stage, callee, inbox, entry, acked, apart>>

(* Slip: the table is read without its lock.                               *)
ClientReadUnlocked(p) == main[p] = "serving" /\ ReadAt(p)

(* A client reads the table of the server its tail_rtable is connected to, *)
(* under the read lock.  That was the last one when the client's callback  *)
(* ran; until it runs again, the client stays there while others join.     *)
(* Each server was the last one when it joined, so it can be any server.   *)
ClientRead(p) == main[p] = "serving" /\ Idle(p) /\ ReadAt(p)

-----------------------------------------------------------------------------
PutStep(p) ==
  \/ \E w \in Puts : ApplyPut(p, w)
  \/ LookAtNext(p) \/ SendLength(p) \/ SendMessage(p)
  \/ BeginRead(p) \/ ReadLength(p) \/ CallReturns(p) \/ Answer(p)

JoinStep(p) == CopyTable(p) \/ Join(p)

Next == \E p \in Procs :
  \/ Start(p) \/ JoinStep(p) \/ Watch(p) \/ Stop(p) \/ Crash(p) \/ EndSession(p)
  \/ PutStep(p) \/ LostCallEnds(p) \/ ClientRead(p)
  \/ \E w \in Puts : ClientPut(w, p)

Spec == Init /\ [][Next]_vars

(* Threads run; ZooKeeper delivers events and ends sessions.  Nobody must  *)
(* start, fail, put, or close the connection of a lost call; and terminate *)
(* need not end on the callback's thread (see ServerThreads).              *)
Fairness == \A p \in Procs :
  /\ WF_vars(JoinStep(p)) /\ WF_vars(Watch(p)) /\ WF_vars(EndSession(p)) /\ WF_vars(PutStep(p))

FairSpec == Spec /\ Fairness

-----------------------------------------------------------------------------
Stages == {"idle", "look", "send", "half", "sent", "await", "body", "lost", "unlock"}

(* Types; the lock is held exactly while a put is at work, by a put the    *)
(* own table has; a put that waits at a server came from a client or from  *)
(* a server that has it.                                                   *)
TypeOK ==
  /\ table  \in [Procs -> SUBSET Puts]
  /\ writer \in [Procs -> Puts \cup {Nobody}]
  /\ stage  \in [Procs -> Stages]
  /\ callee \in [Procs -> Procs \cup {Nobody}]
  /\ inbox  \in [Procs -> SUBSET Puts]
  /\ entry  \in [Puts -> Procs \cup {Nobody}]
  /\ acked \subseteq {w \in Puts : entry[w] # Nobody} /\ apart \in BOOLEAN
  /\ seen \subseteq Puts /\ behind \subseteq Puts
  /\ \A p \in Procs : /\ Idle(p) <=> stage[p] = "idle"
                      /\ ~Idle(p) => main[p] = "serving" /\ writer[p] \in table[p]

Before(p, q) == p \in chain /\ q \in chain /\ number[p] < number[q] /\ Up(p) /\ Up(q)

(* A server holds every put that a server after it holds, whoever joined   *)
(* or failed meanwhile: what a read has seen at the tail is in all the     *)
(* tables before it, and the failure of the tail does not lose it.         *)
UpstreamHoldsMore == \A p, q \in Procs : Before(p, q) => table[q] \subseteq table[p]

(* As long as puts overlap no joins: what a client has read at the server  *)
(* that was the last one then is in the table of every server of the       *)
(* chain, whoever joined or failed since: no later read goes back behind   *)
(* it.                                                                     *)
ReadsSurvive ==
  apart => \A p \in chain : main[p] \in {"created", "serving"} => seen \subseteq table[p]

(* A client that has not learned yet of the servers after its own reads    *)
(* there what they may never get, when one of them fails.  Without         *)
(* failures, and as long as puts overlap no joins, what it reads is on     *)
(* every server of the chain: the lock it reads under is not given back    *)
(* before they have it.                                                    *)
StaleReadsSurvive ==
  failures = 0 /\ apart => \A p \in chain : behind \subseteq table[p]

(* Without failures, and as long as puts overlap no joins, an acknowledged *)
(* put is on every server of the chain.                                    *)
AckedOnAll ==
  failures = 0 /\ apart =>
    \A w \in acked : \A p \in chain : w \in table[p]

(* When everything has come to rest all servers hold the same table: what  *)
(* server_skeleton-private.h says sync_local_table is for.                 *)
TablesAgreeAtRest ==
  Chain!AtRest /\ NoPutAtWork =>
    \A p, q \in chain : table[p] = table[q]

NoCallLost == \A p \in Procs : stage[p] # "lost"

Finished(w) == entry[w] # Nobody /\ (w \in acked \/ ~Up(entry[w]))

(* Every put at a server of the chain ends, with an answer or with the end *)
(* of the server, unless the callback has closed a connection under a call.*)
PutsEnd == []NoCallLost => \A w \in Puts : entry[w] # Nobody ~> Finished(w)

(* The callback cannot connect, has no put to wait for, and is to end the  *)
(* process.                                                                *)
HasToEnd(p) ==
  /\ Idle(p) /\ main[p] \in Chain!Running /\ cb[p] = "connect"
  /\ ~(Chain!NodeExists(next_id[p]) /\ Chain!Listening(Chain!Owner(next_id[p])))

(* Every terminate() on a callback's thread ends when no put is at work.   *)
TerminatesEnd == \A p \in Procs : []<>~HasToEnd(p)

(* Provided that terminate() ends, the chain settles into the order of     *)
(* /chain although servers forward puts, and finish them before they end.  *)
ChainSettles == []NoCallLost /\ TerminatesEnd => <>[](Chain!AtRest /\ Chain!ChainFormed)
=============================================================================
