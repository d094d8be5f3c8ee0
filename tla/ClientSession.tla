---------------------------- MODULE ClientSession ---------------------------
(***************************************************************************)
(* One client process.  Its main thread connects to head and tail of the   *)
(* chain and then runs command_cicle, one blocking stub call at a time.    *)
(* The completion thread of the ZooKeeper client runs chain_watcher, which *)
(* closes head_rtable or tail_rtable and connects it anew, without regard  *)
(* to a call the main thread has under way on it.                          *)
(*                                                                         *)
(* A connection is known to the process by its descriptor.  The descriptor *)
(* closed last is the one the next socket() gets, so head_rtable and       *)
(* tail_rtable each keep their own: a call that has read it from the       *)
(* structure goes on, on the new connection.  Only a read that blocks      *)
(* already stays with the old connection.                                  *)
(*                                                                         *)
(* The servers are external here: they join with rising numbers, stop, and *)
(* some time after that lose their node.  A serving server answers.        *)
(***************************************************************************)
EXTENDS Naturals, FiniteSets, FiniteSetsExt

CONSTANT MaxId   \* how many servers ever join the chain

ASSUME MaxIdAssumption == MaxId \in Nat \ {0}

Roles == {"head", "tail"}
Null  == 0              \* the pointer is NULL
Freed == MaxId + 1      \* the structure has been freed, its descriptor closed

VARIABLES
  (* servers and ZooKeeper *)
  chain,    \* the numbers of the children of /chain
  alive,    \* the servers that listen and answer
  last,     \* the last number given out
  armed,    \* the client's watch on /chain is set
  event,    \* a child event waits for the completion thread
  (* the main thread *)
  main,     \* where it is, see Stages
  found,    \* children_list of main()
  role,     \* which connection the call under way uses
  stale,    \* the pointer the call was given has been freed since
  (* what both threads use *)
  ids,      \* head_id and tail_id, 0 for the empty string
  conn,     \* head_rtable and tail_rtable: the server each is connected to
  wire,     \* what is on each connection
  old,      \* the connection a read still blocks on after it was closed
  (* chain_watcher *)
  cb,       \* "idle" or the role it looks at
  seen      \* children_list of the callback

envVars  == <<chain, alive, last, armed, event>>
mainVars == <<main, found, role, stale>>
netVars  == <<conn, wire, old>>
cbVars   == <<cb, seen>>
vars     == <<envVars, mainVars, ids, netVars, cbVars>>

(* watch .. tail    main(), up to the two connections                      *)
(* ready            between two commands                                   *)
(* enter            the stub has the pointer, not yet the descriptor       *)
(* header, body     about to write the length, the message                 *)
(* await, await2    about to read the length, the message                  *)
(* read, read2      blocked in that read                                   *)
(* lost             reads a descriptor that is no connection at all        *)
(* quit, exit       the process has ended, on command or by itself         *)
Starting == {"watch", "ids", "head", "tail"}
InCall   == {"enter", "header", "body", "await", "read", "await2", "read2", "lost"}
Loop     == {"ready"} \cup InCall
Stages   == Starting \cup Loop \cup {"quit", "exit"}
Running  == main \in Starting \cup Loop

(* clean, the length alone, the whole request, a message without length, answer *)
Wires == {"clean", "half", "asked", "garbled", "answered"}

NoConn == [server |-> Null, wire |-> "clean"]

Init ==
  /\ chain = {} /\ alive = {} /\ last = 0
  /\ armed = FALSE /\ event = FALSE
  /\ main = "watch" /\ found = {} /\ role = "head" /\ stale = FALSE
  /\ ids  = [r \in Roles |-> 0]
  /\ conn = [r \in Roles |-> Null]
  /\ wire = [r \in Roles |-> "clean"]
  /\ old  = NoConn
  /\ cb = "idle" /\ seen = {}

(* get_head_and_tail_ids                                                   *)
HeadAndTail(list) == [r \in Roles |-> IF r = "head" THEN Min(list) ELSE Max(list)]

FireWatch == armed' = FALSE /\ event' = (event \/ armed)

Goto(stage) == main' = stage

-----------------------------------------------------------------------------
(***************************************************************************)
(* Servers.                                                                *)
(***************************************************************************)
ServerJoins ==
  /\ last < MaxId
  /\ last' = last + 1 /\ alive' = alive \cup {last'} /\ chain' = chain \cup {last'}
  /\ FireWatch
  /\ UNCHANGED <<mainVars, ids, netVars, cbVars>>

ServerStops(n) ==
  /\ n \in alive
  /\ alive' = alive \ {n}
  /\ UNCHANGED <<chain, last, armed, event, mainVars, ids, netVars, cbVars>>

NodeGoes(n) ==
  /\ n \in chain \ alive
  /\ chain' = chain \ {n}
  /\ FireWatch
  /\ UNCHANGED <<alive, last, mainVars, ids, netVars, cbVars>>

(* A request that has arrived whole is answered on its connection.         *)
ServerAnswers ==
  /\ \/ \E r \in Roles : /\ conn[r] \in alive /\ wire[r] = "asked"
                         /\ wire' = [wire EXCEPT ![r] = "answered"]
                         /\ UNCHANGED old
     \/ /\ old.server \in alive /\ old.wire = "asked"
        /\ old' = [old EXCEPT !.wire = "answered"]
        /\ UNCHANGED wire
  /\ UNCHANGED <<envVars, mainVars, ids, conn, cbVars>>

-----------------------------------------------------------------------------
(***************************************************************************)
(* The main thread: main().                                                *)
(***************************************************************************)
WatchChain ==
  /\ main = "watch"
  /\ armed' = TRUE
  /\ found' = chain
  /\ Goto(IF chain = {} THEN "quit" ELSE "ids")
  /\ UNCHANGED <<chain, alive, last, event, role, stale, ids, netVars, cbVars>>

StoreIds ==
  /\ main = "ids"
  /\ ids' = HeadAndTail(found)
  /\ Goto("head")
  /\ UNCHANGED <<envVars, found, role, stale, netVars, cbVars>>

(* The address of a node is known as long as its server listens.  Later    *)
(* the node is gone or nobody listens: either way there is no connection.  *)
Reachable(n) == n \in alive

(* Slip: a head that is the tail as well is connected to once.             *)
ConnectEndOnce(r) ==
  /\ main = r
  /\ \/ /\ Reachable(HeadAndTail(found)[r])
        /\ conn' = [conn EXCEPT ![r] = IF r = "tail" /\ Min(found) = Max(found) THEN Null
                                       ELSE HeadAndTail(found)[r]]
        /\ Goto(IF r = "head" THEN "tail" ELSE "ready")
     \/ /\ ~Reachable(HeadAndTail(found)[r])
        /\ Goto("exit")
        /\ UNCHANGED conn
  /\ UNCHANGED <<envVars, found, role, stale, ids, wire, old, cbVars>>

ConnectEnd(r) ==
  /\ main = r
  /\ \/ /\ Reachable(HeadAndTail(found)[r])
        /\ conn' = [conn EXCEPT ![r] = HeadAndTail(found)[r]]
        /\ Goto(IF r = "head" THEN "tail" ELSE "ready")
     \/ /\ ~Reachable(HeadAndTail(found)[r])
        /\ Goto("exit")
        /\ UNCHANGED conn
  /\ UNCHANGED <<envVars, found, role, stale, ids, wire, old, cbVars>>

-----------------------------------------------------------------------------
(***************************************************************************)
(* The main thread: command_cicle() and a stub call.                       *)
(***************************************************************************)
Command(r) ==
  /\ main = "ready"
  /\ role' = r /\ stale' = (conn[r] = Freed)
  /\ Goto("enter")
  /\ UNCHANGED <<envVars, found, ids, netVars, cbVars>>

(* The command quit or the end of is_connected between two commands, or    *)
(* SIGINT at any time.                                                     *)
Quit ==
  /\ Running
  /\ Goto("quit")
  /\ UNCHANGED <<envVars, found, role, stale, ids, netVars, cbVars>>

(* The descriptor is read from the structure.  From one that was freed     *)
(* comes whatever the allocator left there: a check fails or the descriptor*)
(* is not open; it is the one of the new connection; or it is 0, standard  *)
(* input, where no server answers.                                         *)
TakeSocket ==
  /\ main = "enter"
  /\ IF stale THEN main' \in {"ready", "header", "lost"} ELSE Goto("header")
  /\ stale' = FALSE
  /\ UNCHANGED <<envVars, found, role, ids, netVars, cbVars>>

Here == conn[role]

(* write_all: fails on a closed descriptor and may fail when the server    *)
(* has closed its side; otherwise sends what turns the connection to w.    *)
Write(next, w) ==
  /\ \/ /\ Here \in alive
        /\ wire' = [wire EXCEPT ![role] = w]
        /\ Goto(next)
     \/ /\ Here \notin alive
        /\ UNCHANGED wire
        /\ \/ Here # Freed /\ Goto(next)
           \/ Goto("ready")
  /\ UNCHANGED <<envVars, found, role, stale, ids, conn, old, cbVars>>

WriteLength  == main = "header" /\ Write("body", "half")
WriteMessage == main = "body" /\ Write("await", IF wire[role] = "half" THEN "asked" ELSE "garbled")

(* read_all is entered: from now on the read belongs to this connection.   *)
BeginRead ==
  /\ main \in {"await", "await2"}
  /\ Goto(IF Here = Freed THEN "ready" ELSE IF main = "await" THEN "read" ELSE "read2")
  /\ UNCHANGED <<envVars, found, role, stale, ids, netVars, cbVars>>

(* The connection the blocked read belongs to.                             *)
Reading == IF old # NoConn THEN old ELSE [server |-> Here, wire |-> wire[role]]

(* The read is over: its connection is no longer needed, if it is an old one. *)
ReadEnds(stage, w) ==
  /\ Goto(stage)
  /\ IF old # NoConn THEN old' = NoConn /\ UNCHANGED wire
                     ELSE wire' = [wire EXCEPT ![role] = w] /\ UNCHANGED old

(* Slip: read_all goes on when read returns 0.                             *)
EndReadOnData ==
  /\ main \in {"read", "read2"}
  /\ Reading.wire = "answered"
  /\ IF main = "read" THEN ReadEnds("await2", "answered") ELSE ReadEnds("ready", "clean")
  /\ UNCHANGED <<envVars, found, role, stale, ids, conn, cbVars>>

(* Slip: a read with a timeout.                                            *)
EndReadOrGiveUp ==
  /\ main \in {"read", "read2"}
  /\ \/ /\ Reading.wire = "answered"
        /\ IF main = "read" THEN ReadEnds("await2", "answered") ELSE ReadEnds("ready", "clean")
     \/ /\ Reading.wire # "answered"
        /\ ReadEnds("ready", wire[role])
  /\ UNCHANGED <<envVars, found, role, stale, ids, conn, cbVars>>

(* The read returns: with the length, with the message, or with an error   *)
(* because the server has closed the connection.                           *)
EndRead ==
  /\ main \in {"read", "read2"}
  /\ \/ /\ Reading.wire = "answered"
        /\ IF main = "read" THEN ReadEnds("await2", "answered") ELSE ReadEnds("ready", "clean")
     \/ /\ Reading.wire # "answered" /\ Reading.server \notin alive
        /\ ReadEnds("ready", wire[role])
  /\ UNCHANGED <<envVars, found, role, stale, ids, conn, cbVars>>

-----------------------------------------------------------------------------
(***************************************************************************)
(* The completion thread: chain_watcher().                                 *)
(***************************************************************************)
ChildEvent ==
  /\ Running /\ cb = "idle" /\ event
  /\ event' = FALSE /\ armed' = TRUE
  /\ seen' = chain
  /\ IF chain = {} THEN Goto("exit") /\ UNCHANGED cb
                   ELSE cb' = "head" /\ UNCHANGED main
  /\ UNCHANGED <<chain, alive, last, found, role, stale, ids, netVars>>

(* Slip: the callback looks at the head only.                              *)
AfterHeadOnly(r) == "idle"

(* The head is looked at first, then the tail.                             *)
After(r) == IF r = "head" THEN "tail" ELSE "idle"

SameEnd(r) ==
  /\ Running /\ cb = r /\ conn[r] # Freed
  /\ ids[r] = HeadAndTail(seen)[r]
  /\ cb' = After(r)
  /\ UNCHANGED <<envVars, mainVars, ids, netVars, seen>>

(* The new name is kept and the old connection closed and freed.  There is *)
(* none while main() has not connected yet: rtable_disconnect(NULL) fails  *)
(* and the client terminates.                                              *)
CloseEnd(r) ==
  /\ Running /\ cb = r /\ conn[r] # Freed
  /\ ids[r] # HeadAndTail(seen)[r]
  /\ ids' = [ids EXCEPT ![r] = HeadAndTail(seen)[r]]
  /\ \/ /\ conn[r] = Null
        /\ Goto("exit")
        /\ UNCHANGED <<netVars, stale>>
     \/ /\ conn[r] # Null
        /\ conn'  = [conn EXCEPT ![r] = Freed]
        /\ wire'  = [wire EXCEPT ![r] = "clean"]
        /\ stale' = (stale \/ (main = "enter" /\ role = r))
        /\ old'   = IF main \in {"read", "read2"} /\ role = r /\ old = NoConn
                    THEN [server |-> conn[r], wire |-> wire[r]] ELSE old
        /\ UNCHANGED main
  /\ UNCHANGED <<envVars, found, role, cbVars>>

(* Slip: the callback goes on without the connection.                      *)
OpenEndGoesOn(r) ==
  /\ Running /\ cb = r /\ conn[r] = Freed
  /\ conn' = [conn EXCEPT ![r] = IF Reachable(ids[r]) THEN ids[r] ELSE Freed]
  /\ cb'   = After(r)
  /\ UNCHANGED <<envVars, mainVars, ids, wire, old, seen>>

OpenEnd(r) ==
  /\ Running /\ cb = r /\ conn[r] = Freed
  /\ \/ /\ Reachable(ids[r])
        /\ conn' = [conn EXCEPT ![r] = ids[r]]
        /\ cb'   = After(r)
        /\ UNCHANGED main
     \/ /\ ~Reachable(ids[r])
        /\ Goto("exit")
        /\ UNCHANGED <<conn, cb>>
  /\ UNCHANGED <<envVars, found, role, stale, ids, wire, old, seen>>

-----------------------------------------------------------------------------
Servers == \/ ServerJoins \/ ServerAnswers
           \/ \E n \in 1 .. MaxId : ServerStops(n) \/ NodeGoes(n)

Start    == WatchChain \/ StoreIds \/ \E r \in Roles : ConnectEnd(r)
CallStep == TakeSocket \/ WriteLength \/ WriteMessage \/ BeginRead \/ EndRead
Watcher  == ChildEvent \/ \E r \in Roles : SameEnd(r) \/ CloseEnd(r) \/ OpenEnd(r)

Next == Servers \/ Start \/ (\E r \in Roles : Command(r)) \/ Quit \/ CallStep \/ Watcher

Spec == Init /\ [][Next]_vars

(* Both threads run and a server that has a request answers it.  Nobody    *)
(* need start or stop a server or type a command.                          *)
Fairness == WF_vars(CallStep) /\ WF_vars(Watcher) /\ WF_vars(ServerAnswers)

FairSpec == Spec /\ Fairness

-----------------------------------------------------------------------------
(* Types; and a structure stays freed only while the callback works on it, *)
(* a read stays with a closed connection only inside a call.               *)
TypeOK ==
  /\ last \in 0 .. MaxId /\ alive \subseteq chain /\ chain \subseteq 1 .. last
  /\ armed \in BOOLEAN /\ event \in BOOLEAN
  /\ main \in Stages /\ found \subseteq 1 .. last /\ role \in Roles /\ stale \in BOOLEAN
  /\ ids \in [Roles -> 0 .. last] /\ conn \in [Roles -> (0 .. last) \cup {Freed}]
  /\ wire \in [Roles -> Wires] /\ old \in [server : 0 .. last, wire : Wires]
  /\ cb \in {"idle"} \cup Roles /\ seen \subseteq 1 .. last
  /\ \A r \in Roles : conn[r] = Freed => cb = r
  /\ old # NoConn => main \in {"read", "read2", "quit", "exit"}

(* Once it is in the command loop and no event is under way, the client is *)
(* connected to the first and to the last server of /chain, whatever order *)
(* the events, the start of main() and the callback came in.               *)
EndsAtRest ==
  main \in Loop /\ cb = "idle" /\ ~event => chain # {} /\ conn = HeadAndTail(chain)

(* No request and no answer is left over on a living connection between    *)
(* two commands, however the calls before ended, also those the callback   *)
(* closed the connection under: the next answer read by                    *)
(* network_send_receive is that of the next request.                       *)
NoStrayAnswer ==
  main = "ready" => \A r \in Roles : conn[r] \in alive => wire[r] = "clean"

(* A client in the command loop terminates by itself only after some       *)
(* server has stopped; chain_watcher survives every sequence of joins.     *)
OnlyStopsEndClient ==
  [][(main \in Loop /\ main' = "exit") => alive # 1 .. last]_vars

(* As long as the callback never closes a connection under a call, every   *)
(* call of network_send_receive returns: with the answer, or with NULL     *)
(* when its server has stopped.                                            *)
UndisturbedCallsReturn ==
  [](main \in InCall => conn[role] # Freed) => (main \in InCall ~> main \notin InCall)
=============================================================================
