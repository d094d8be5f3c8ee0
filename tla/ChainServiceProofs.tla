-------------------------- MODULE ChainServiceProofs --------------------------
(***************************************************************************)
(* The invariants of ChainService, for any finite sets of processes and    *)
(* puts and any number of failures.  The service implements                *)
(* ChainMembership, so what is proved of that module holds of its          *)
(* membership; the rest of the inductive invariant relates the tables and  *)
(* the puts under way to it.                                               *)
(***************************************************************************)
EXTENDS ChainService, TLAPS

M == INSTANCE ChainMembershipProofs

-----------------------------------------------------------------------------
(***************************************************************************)
(* The service implements the membership.                                  *)
(***************************************************************************)

(* Every step of the service is one of the membership or leaves it alone.  *)
THEOREM ImplementsMembership == Spec => Chain!Spec
<1>1. Init => Chain!Init
  BY DEF Init
<1>2. [Next]_vars => [Chain!Next]_(Chain!vars)
  <2>1. ASSUME NEW p \in Procs,
               \/ Start(p) \/ JoinStep(p) \/ Watch(p) \/ Stop(p) \/ Crash(p) \/ EndSession(p)
        PROVE  Chain!Next
    BY <2>1 DEF Start, JoinStep, CopyTable, Join, Watch, Stop, Crash, EndSession,
       Chain!Next, Chain!MainStep, Chain!CallbackStep
  <2>2. ASSUME NEW p \in Procs,
               \/ PutStep(p) \/ LostCallEnds(p) \/ ClientRead(p)
               \/ \E w \in Puts : ClientPut(w, p)
        PROVE  UNCHANGED chainVars
    BY <2>2 DEF PutStep, ApplyPut, LookAtNext, SendLength, SendMessage, BeginRead,
       ReadLength, CallReturns, Answer, LostCallEnds, ClientRead,
       ReadAt, ClientPut
  <2>3. UNCHANGED vars => UNCHANGED chainVars
    BY DEF vars
  <2>4. UNCHANGED chainVars => UNCHANGED Chain!vars
    BY DEF chainVars, Chain!vars, Chain!zkVars, Chain!mainVars, Chain!cbVars, Chain!envVars
  <2> QED
    BY <2>1, <2>2, <2>3, <2>4 DEF Next
<1> QED
  BY <1>1, <1>2, PTL DEF Spec, Chain!Spec

(* The definitions of ChainMembership are those its proofs are about.      *)
LEMMA SameAssumptions == M!ProcsAssumption /\ M!BoundsAssumption
<1>1. \A S : Chain!IsFiniteSet(S) <=> M!IsFiniteSet(S)
  BY DEF Chain!IsFiniteSet, M!IsFiniteSet
<1> QED
  BY <1>1, ChainAssumption DEF Chain!ProcsAssumption, Chain!BoundsAssumption,
     M!ProcsAssumption, M!BoundsAssumption

(* So are its steps, one by one.                                           *)
LEMMA SameSteps == Chain!Spec => M!Spec
<1> USE DEF Chain!Joining, M!Joining, Chain!Up, M!Up, Chain!Ending, M!Ending,
        Chain!Running, M!Running, Chain!Gone, M!Gone, Chain!zkVars, M!zkVars,
        Chain!mainVars, M!mainVars, Chain!cbVars, M!cbVars, Chain!envVars, M!envVars
<1>1. \A S : Chain!Cardinality(S) = M!Cardinality(S)
  BY DEF Chain!Cardinality, M!Cardinality, Chain!IsFiniteSet, M!IsFiniteSet
<1>2. \A S : Chain!Min(S) = M!Min(S) /\ Chain!Max(S) = M!Max(S)
  BY DEF Chain!Min, M!Min, Chain!Max, M!Max
<1>3. Chain!Children = M!Children
  BY DEF Chain!Children, M!Children
<1>4. \A n : (Chain!NodeExists(n) <=> M!NodeExists(n)) /\ Chain!Owner(n) = M!Owner(n)
  BY <1>3 DEF Chain!NodeExists, M!NodeExists, Chain!Owner, M!Owner
<1>5. \A p : (Chain!Listening(p) <=> M!Listening(p)) /\ Chain!Later(p) = M!Later(p)
  BY DEF Chain!Listening, M!Listening, Chain!Later, M!Later
<1>6. Chain!SomeJoin <=> M!SomeJoin
  BY DEF Chain!SomeJoin, M!SomeJoin
<1>7. ASSUME NEW p \in Procs PROVE Chain!Start(p) => M!Start(p)
  <2>1. Chain!AtRest <=> M!AtRest
    BY DEF Chain!AtRest, M!AtRest
  <2>2. Chain!Started = M!Started
    BY DEF Chain!Started, M!Started
  <2> QED
    BY <1>1, <2>1, <2>2 DEF Chain!Start, M!Start
<1>8. ASSUME NEW p \in Procs PROVE Chain!MainStep(p) => M!MainStep(p)
  <2>1. Chain!WatchChain(p) => M!WatchChain(p)
    BY <1>2, <1>3 DEF Chain!WatchChain, M!WatchChain
  <2>2. Chain!SyncTable(p) => M!SyncTable(p)
    BY <1>4 DEF Chain!SyncTable, M!SyncTable
  <2>3. Chain!SyncFails(p) => M!SyncFails(p)
    BY <1>4, <1>5 DEF Chain!SyncFails, M!SyncFails, Chain!Die, M!Die,
       Chain!Terminate, M!Terminate
  <2>4. Chain!CreateNode(p) => M!CreateNode(p)
    BY DEF Chain!CreateNode, M!CreateNode, Chain!FireWatches, M!FireWatches
  <2>5. Chain!CreateReturns(p) => M!CreateReturns(p)
    BY DEF Chain!CreateReturns, M!CreateReturns
  <2> QED
    BY <2>1, <2>2, <2>3, <2>4, <2>5 DEF Chain!MainStep, M!MainStep
<1>9. ASSUME NEW p \in Procs PROVE Chain!CallbackStep(p) => M!CallbackStep(p)
  <2>1. Chain!FirstEvent(p) => M!FirstEvent(p)
    BY DEF Chain!FirstEvent, M!FirstEvent, Chain!Callback, M!Callback, Chain!TakeEvent,
       M!TakeEvent
  <2>2. Chain!ChildEvent(p) => M!ChildEvent(p)
    BY <1>3 DEF Chain!ChildEvent, M!ChildEvent, Chain!Callback, M!Callback,
       Chain!TakeEvent, M!TakeEvent
  <2>3. Chain!ScanChildren(p) => M!ScanChildren(p)
    BY <1>2, <1>5 DEF Chain!ScanChildren, M!ScanChildren, Chain!NoNext, M!NoNext,
       Chain!SameNext, M!SameNext, Chain!NewNext, M!NewNext
  <2>4. Chain!Connect(p) => M!Connect(p)
    BY <1>4, <1>5 DEF Chain!Connect, M!Connect
  <2>5. Chain!ConnectFails(p) => M!ConnectFails(p)
    BY <1>4, <1>5 DEF Chain!ConnectFails, M!ConnectFails, Chain!TerminateFromCallback,
       M!TerminateFromCallback, Chain!Die, M!Die
  <2> QED
    BY <2>1, <2>2, <2>3, <2>4, <2>5 DEF Chain!CallbackStep, M!CallbackStep
<1>10. ASSUME NEW p \in Procs
       PROVE  /\ Chain!SessionEnds(p) => M!SessionEnds(p)
              /\ Chain!SessionEvent(p) => M!SessionEvent(p)
              /\ Chain!Crash(p) => M!Crash(p)
              /\ Chain!Interrupt(p) => M!Interrupt(p)
  <2>1. Chain!CloseSession(p) => M!CloseSession(p)
    BY DEF Chain!CloseSession, M!CloseSession, Chain!LeaveChain, M!LeaveChain,
       Chain!FireWatches, M!FireWatches
  <2>2. Chain!ExpireSession(p) => M!ExpireSession(p)
    BY DEF Chain!ExpireSession, M!ExpireSession, Chain!LeaveChain, M!LeaveChain,
       Chain!FireWatches, M!FireWatches
  <2>3. Chain!SessionEvent(p) => M!SessionEvent(p)
    BY <1>6 DEF Chain!SessionEvent, M!SessionEvent, Chain!Die, M!Die
  <2>4. Chain!Crash(p) => M!Crash(p)
    BY <1>6 DEF Chain!Crash, M!Crash, Chain!Die, M!Die, Chain!Fail, M!Fail
  <2>5. Chain!Interrupt(p) => M!Interrupt(p)
    BY <1>6 DEF Chain!Interrupt, M!Interrupt, Chain!Terminate, M!Terminate, Chain!Fail,
       M!Fail
  <2> QED
    BY <2>1, <2>2, <2>3, <2>4, <2>5 DEF Chain!SessionEnds, M!SessionEnds
<1>11. [Chain!Next]_(Chain!vars) => [M!Next]_(M!vars)
  BY <1>7, <1>8, <1>9, <1>10 DEF Chain!Next, M!Next, Chain!vars, M!vars
<1>12. Chain!Init => M!Init
  BY DEF Chain!Init, M!Init
<1> QED
  BY <1>11, <1>12, PTL DEF Chain!Spec, M!Spec

-----------------------------------------------------------------------------
(***************************************************************************)
(* What the puts need to know of the membership.                           *)
(***************************************************************************)

(* The last server of the chain.                                           *)
Last(q) == q \in chain /\ \A r \in chain : number[r] <= number[q]

(* Nodes bear distinct numbers; processes that have not created theirs are *)
(* not in the chain, those that have and live are.                         *)
Nodes ==
  /\ chain \subseteq Procs /\ last \in Nat /\ failures \in Nat
  /\ number \in [Procs -> 0 .. last] /\ next_server \in [Procs -> Procs \cup {Nobody, Freed}]
  /\ \A p, q \in chain : number[p] = number[q] => p = q
  /\ \A p \in chain : number[p] # 0
  /\ main \in [Procs -> {"off", "serving"} \cup Chain!Joining \cup (Chain!Gone \ {"halting"})]
  /\ \A p \in Procs :
       /\ main[p] \in {"off", "watch", "sync", "create"} => number[p] = 0
       /\ main[p] \in {"created", "serving"} => p \in chain

(* While a process joins nothing else changes the chain; it copies the     *)
(* table of the last server.                                               *)
Joiner(p) ==
  /\ main[p] \in Chain!Joining => \A q \in Procs \ {p} :
       /\ main[q] \in {"off", "serving", "closed", "dead"}
       /\ q \in chain => main[q] = "serving"
  /\ main[p] \in {"watch", "sync", "create"} => \A q \in Procs :
       main[q] \in Chain!Running => cb[q] = "idle"
  /\ main[p] = "sync" => Last(Chain!Owner(tail_id[p]))

(* Puts are forwarded to the next node of the chain.                       *)
Adjacent(p) ==
  main[p] = "serving" /\ next_server[p] \in Procs =>
    /\ number[p] < number[next_server[p]]
    /\ \A q \in chain : ~ (number[p] < number[q] /\ number[q] < number[next_server[p]])

(* What holds besides as long as nothing has failed.                       *)
Sound(p) ==
  failures = 0 =>
    /\ main[p] \in {"off", "serving"} \cup Chain!Joining
    /\ number[p] # 0 => p \in chain
    /\ next_server[p] # Freed
    /\ next_server[p] \in Procs => main[p] = "serving"
    /\ p \in chain /\ next_server[p] = Nobody =>
         \A q \in chain : number[q] > number[p] => number[q] = last

Membership == Nodes /\ \A p \in Procs : Joiner(p) /\ Adjacent(p) /\ Sound(p)

(* All this follows from the invariant of ChainMembership.                 *)
LEMMA MembershipKnown ==
  ASSUME M!IInv, M!Connections, calm, hiccups = 0
  PROVE  Membership
<1> USE SameAssumptions DEF M!ProcsAssumption, M!BoundsAssumption, M!IInv, M!Always, M!TypeOK
<1> USE DEF M!Joining, M!Up, M!Ending, M!Running, M!Gone, M!Numbered,
        Chain!Joining, Chain!Up, Chain!Ending, Chain!Running, Chain!Gone
<1>1. M!WhenCalm /\ \A p \in Procs : M!View(p) /\ M!Settled(p)
  BY DEF M!Connections
<1>2. Nodes
  <2>1. /\ chain \subseteq Procs /\ last \in Nat /\ failures \in Nat
        /\ number \in [Procs -> 0 .. last]
        /\ next_server \in [Procs -> Procs \cup {Nobody, Freed}]
    OBVIOUS
  <2>2. /\ \A p, q \in chain : number[p] = number[q] => p = q
        /\ \A p \in chain : number[p] # 0
    BY <2>1 DEF M!Numbers
  <2>3. ASSUME NEW p \in Procs
        PROVE  /\ main[p] \in {"off", "serving"} \cup Chain!Joining
                           \cup (Chain!Gone \ {"halting"})
               /\ main[p] \in {"off", "watch", "sync", "create"} => number[p] = 0
               /\ main[p] \in {"created", "serving"} => p \in chain
    <3>1. M!Named(p) /\ M!Stage(p) /\ M!Numbers
      BY <1>1 DEF M!WhenCalm
    <3>2. main[p] \in {"off", "serving"} \cup Chain!Joining \cup (Chain!Gone \ {"halting"})
      BY <3>1 DEF M!Named
    <3>3. main[p] \in {"off", "watch", "sync", "create"} => number[p] = 0
      BY <3>1 DEF M!Stage
    <3>4. main[p] \in {"created", "serving"} => p \in chain
      BY <3>1 DEF M!Stage, M!Numbers
    <3> QED
      BY <3>2, <3>3, <3>4
  <2>4. main \in [Procs -> {"off", "serving"} \cup Chain!Joining
                             \cup (Chain!Gone \ {"halting"})]
    BY <2>3
  <2> QED
    BY <2>1, <2>2, <2>3, <2>4 DEF Nodes
<1>3. ASSUME NEW p \in Procs PROVE Joiner(p)
  <2>1. M!Alone(p) /\ M!Joins(p) /\ M!Stage(p) /\ M!View(p) /\ M!Numbers
    BY <1>1 DEF M!WhenCalm
  <2>2. main[p] \in Chain!Joining => \A q \in Procs \ {p} :
          /\ main[q] \in {"off", "serving", "closed", "dead"}
          /\ q \in chain => main[q] = "serving"
    BY <2>1 DEF M!Alone
  <2>3. ASSUME main[p] \in {"watch", "sync", "create"}, NEW q \in Procs,
               main[q] \in Chain!Running
        PROVE  cb[q] = "idle"
    BY <2>1, <2>3 DEF M!Alone, M!Joins
  <2>4. ASSUME main[p] = "sync" PROVE Last(Chain!Owner(tail_id[p]))
    <3>1. PICK r \in chain : number[r] = tail_id[p]
      BY <2>1, <2>4 DEF M!Joins, M!NodeExists, M!Children
    <3>2. r \in Procs /\ tail_id[p] \in 1 .. last
      BY <3>1 DEF M!Numbers
    <3>3. M!Owner(tail_id[p]) = r
      BY <2>1, <3>1, <3>2, M!OwnerFacts
    <3>4. Chain!Owner(tail_id[p]) = r
      BY <3>3 DEF M!Owner, Chain!Owner
    <3> QED
      BY <2>1, <2>4, <3>1, <3>4 DEF M!View, Last
  <2> QED
    BY <2>2, <2>3, <2>4 DEF Joiner
<1>4. ASSUME NEW p \in Procs PROVE Adjacent(p)
  <2> SUFFICES ASSUME main[p] = "serving", next_server[p] \in Procs
               PROVE  /\ number[p] < number[next_server[p]]
                      /\ \A q \in chain :
                           ~ (number[p] < number[q] /\ number[q] < number[next_server[p]])
    BY DEF Adjacent
  <2>1. M!View(p) /\ M!Link(p) /\ M!Stage(p) /\ M!Named(p) /\ next_server[p] # Nobody
    BY <1>1 DEF M!WhenCalm
  <2>2. cb[p] \in {"idle", "scan"} /\ my_node[p] = number[p]
    BY <2>1 DEF M!View, M!Stage
  <2>3. number[next_server[p]] = next_id[p] /\ number[next_server[p]] # 0
    BY <2>1, <2>2 DEF M!Link
  <2> QED
    BY <2>1, <2>2, <2>3 DEF M!View, M!Named
<1>5. ASSUME NEW p \in Procs PROVE Sound(p)
  <2> SUFFICES ASSUME failures = 0 PROVE Sound(p)
    BY DEF Sound
  <2>1. /\ main[p] \in {"off", "serving"} \cup M!Joining
        /\ p \in M!Numbered => p \in chain
        /\ next_server[p] # Nobody => main[p] = "serving"
    BY M!AllServe
  <2>2. M!Settled(p)
    BY <1>1
  <2>3. next_server[p] # Freed
    BY <2>2 DEF M!Settled
  <2>4. p \in chain /\ next_server[p] = Nobody =>
          \A q \in chain : number[q] > number[p] => number[q] = last
    BY <2>2 DEF M!Settled, M!After
  <2> QED
    BY <2>1, <2>3, <2>4 DEF Sound
<1> QED
  BY <1>2, <1>3, <1>4, <1>5 DEF Membership

(* Joins overlap no joins and no failures, and sessions have no hiccups.   *)
LEMMA CalmHolds == Spec => [](calm /\ hiccups = 0)
<1> USE DEF Chain!zkVars, Chain!mainVars, Chain!cbVars, Chain!envVars
<1>1. Init => calm /\ hiccups = 0
  BY DEF Init, Chain!Init
<1>2. (calm /\ hiccups = 0) /\ [Next]_vars => (calm /\ hiccups = 0)'
  <2> SUFFICES ASSUME calm, hiccups = 0, [Next]_vars PROVE calm' /\ hiccups' = 0
    OBVIOUS
  <2>1. ASSUME NEW p \in Procs, Start(p) \/ Stop(p) \/ Crash(p) PROVE calm' /\ hiccups' = 0
    BY <2>1 DEF Start, Stop, Crash, Chain!Start, Chain!ConnectFails,
       Chain!Interrupt, Chain!Crash
  <2>2. ASSUME NEW p \in Procs, JoinStep(p) \/ Watch(p) \/ EndSession(p)
        PROVE  calm' /\ hiccups' = 0
    BY <2>2 DEF JoinStep, CopyTable, Join, Watch, EndSession, Chain!SyncTable,
       Chain!WatchChain, Chain!SyncFails, Chain!CreateNode, Chain!CreateReturns,
       Chain!FirstEvent, Chain!ChildEvent, Chain!ScanChildren, Chain!Connect,
       Chain!SessionEnds, Chain!CloseSession, Chain!ExpireSession
  <2>3. ASSUME NEW p \in Procs,
               \/ PutStep(p) \/ LostCallEnds(p) \/ ClientRead(p)
               \/ \E w \in Puts : ClientPut(w, p)
        PROVE  calm' /\ hiccups' = 0
    BY <2>3 DEF PutStep, ApplyPut, LookAtNext, SendLength, SendMessage, BeginRead,
       ReadLength, CallReturns, Answer, LostCallEnds, ClientRead,
       ReadAt, ClientPut, chainVars
  <2>4. CASE UNCHANGED vars
    BY <2>4 DEF vars, chainVars
  <2> QED
    BY <2>1, <2>2, <2>3, <2>4 DEF Next
<1> QED
  BY <1>1, <1>2, PTL DEF Spec

(* Without failures no step takes from a server the connection it has.     *)
Kept ==
  failures' = 0 =>
    \A p \in Procs : next_server[p] \in Procs => next_server'[p] = next_server[p]

(* What the puts need to know holds in every state and of every step.      *)
LEMMA MembershipHolds == Spec => []Membership /\ [][Kept]_vars
<1>1. Chain!Spec => []M!IInv /\ []M!Connections /\ [][M!NextKept]_(M!vars)
  <2>1. M!ProcsAssumption /\ M!BoundsAssumption
    BY SameAssumptions
  <2> QED
    BY <2>1, SameSteps, M!InvariantHolds, M!ConnectionsHold, M!NextKeptCorrect, PTL
<1>2. M!IInv /\ M!Connections /\ calm /\ hiccups = 0 => Membership
  BY MembershipKnown
<1>3. calm' /\ (hiccups = 0)' /\ [M!NextKept]_(M!vars) => Kept
  BY DEF M!NextKept, Kept, M!vars, M!cbVars
<1> QED
  BY <1>1, <1>2, <1>3, CalmHolds, ImplementsMembership, PTL

-----------------------------------------------------------------------------
(***************************************************************************)
(* The steps of the membership, as far as the puts notice them.            *)
(***************************************************************************)

(* The main thread of p gets from one place to another.                    *)
Moves(p, from, to) ==
  /\ main[p] = from /\ main' = [main EXCEPT ![p] = to]
  /\ UNCHANGED <<chain, number, last, next_server, failures>>

Creates(p) ==
  /\ main[p] = "create" /\ main' = [main EXCEPT ![p] = "created"]
  /\ last' = last + 1 /\ number' = [number EXCEPT ![p] = last + 1] /\ chain' = chain \cup {p}
  /\ UNCHANGED <<next_server, failures>>

(* A callback does something; next_server may change.                      *)
Rewires == UNCHANGED <<chain, number, last, main, failures>>

(* Process p ends while nobody is about to join.                           *)
Ends(p) ==
  /\ Forget(p)
  /\ \E to \in Chain!Gone : main' = [main EXCEPT ![p] = to]
  /\ failures' # 0 /\ \A q \in Procs : main[q] \notin {"watch", "sync", "create"}
  /\ UNCHANGED <<chain, number, last>>

(* The node of p, which has ended, is removed.                             *)
Leaves(p) ==
  /\ ~Up(p) /\ \E to \in Chain!Gone : main' = [main EXCEPT ![p] = to]
  /\ chain' = chain \ {p}
  /\ failures' # 0 /\ ~Chain!SomeJoin
  /\ UNCHANGED <<number, last, next_server, failures>>

Membershipwise(p) ==
  \/ Start(p) /\ Moves(p, "off", "watch")
  \/ CopyTable(p) /\ Moves(p, "sync", "create")
  \/ UNCHANGED dataVars /\
       \/ Moves(p, "watch", IF chain = {} THEN "create" ELSE "sync")
       \/ Moves(p, "sync", "stopping") \/ Moves(p, "sync", "dead")
       \/ Creates(p)
       \/ Moves(p, "created", "serving")
       \/ Rewires
       \/ Leaves(p)
  \/ Ends(p)

(* The steps of the membership are no more than these.                     *)
LEMMA StepsKnown ==
  ASSUME Membership, Membership', NEW p \in Procs,
         \/ Start(p) \/ JoinStep(p) \/ Watch(p) \/ Stop(p) \/ Crash(p) \/ EndSession(p)
  PROVE  Membershipwise(p)
<1> USE DEF Chain!zkVars, Chain!mainVars, Chain!cbVars, Chain!envVars, Chain!Joining, Chain!Up,
        Chain!Ending, Chain!Running, Chain!Gone
<1> USE DEF Membership
<1>1. CASE Start(p)
  BY <1>1 DEF Start, Chain!Start, Moves, Membershipwise
<1>2. CASE CopyTable(p)
  BY <1>2 DEF CopyTable, Chain!SyncTable, Moves, Membershipwise
<1>3. CASE Join(p)
  <2>1. CASE Chain!WatchChain(p)
    BY <1>3, <2>1 DEF Join, Chain!WatchChain, Moves, Membershipwise
  <2>2. CASE Chain!SyncFails(p)
    BY <1>3, <2>2 DEF Join, Chain!SyncFails, Chain!Die, Chain!Terminate, Moves,
       Membershipwise
  <2>3. CASE Chain!CreateNode(p)
    <3>1. main[p] = "create"
      BY <2>3 DEF Chain!CreateNode, Nodes
    <3> QED
      BY <1>3, <2>3, <3>1 DEF Join, Chain!CreateNode, Creates, Membershipwise
  <2>4. CASE Chain!CreateReturns(p)
    BY <1>3, <2>4 DEF Join, Chain!CreateReturns, Moves, Membershipwise
  <2> QED
    BY <1>3, <2>1, <2>2, <2>3, <2>4 DEF Join
<1>4. CASE Watch(p)
  <2>1. Rewires
    BY <1>4 DEF Watch, Chain!FirstEvent, Chain!ChildEvent, Chain!ScanChildren,
       Chain!Connect, Chain!TakeEvent, Rewires
  <2> QED
    BY <1>4, <2>1 DEF Watch, Membershipwise
<1>5. CASE Stop(p) \/ Crash(p)
  <2>1. \E to \in Chain!Gone : main' = [main EXCEPT ![p] = to]
    BY <1>5 DEF Stop, Crash, Chain!ConnectFails, Chain!Interrupt, Chain!Crash,
       Chain!TerminateFromCallback, Chain!Terminate, Chain!Die
  <2>2. /\ Forget(p) /\ UNCHANGED <<chain, number, last>>
    BY <1>5 DEF Stop, Crash, Chain!ConnectFails, Chain!Interrupt, Chain!Crash
  <2>3. main'[p] \in Chain!Gone
    BY <2>1 DEF Nodes
  <2>4. failures' # 0
    BY <2>3 DEF Sound
  <2>5. ASSUME NEW q \in Procs PROVE main[q] \notin {"watch", "sync", "create"}
    <3>1. CASE Chain!ConnectFails(p)
      <4>1. main[p] \in Chain!Running /\ cb[p] # "idle"
        BY <3>1 DEF Chain!ConnectFails
      <4> QED
        BY <4>1 DEF Joiner
    <3>2. CASE calm' /\ (Chain!Interrupt(p) \/ Chain!Crash(p))
      BY <3>2 DEF Chain!Interrupt, Chain!Crash, Chain!Fail, Chain!SomeJoin
    <3> QED
      BY <1>5, <3>1, <3>2 DEF Stop, Crash
  <2> QED
    BY <2>1, <2>2, <2>4, <2>5 DEF Ends, Membershipwise
<1>6. CASE EndSession(p)
  <2>1. \/ Chain!CloseSession(p) /\ main[p] \in Chain!Ending
        \/ Chain!ExpireSession(p) /\ main[p] = "dead" /\ p \in chain
    BY <1>6 DEF EndSession, Chain!SessionEnds, Chain!CloseSession, Chain!ExpireSession
  <2>2. \E to \in Chain!Gone : main' = [main EXCEPT ![p] = to]
    <3>1. CASE Chain!CloseSession(p)
      BY <3>1 DEF Chain!CloseSession
    <3>2. CASE Chain!ExpireSession(p) /\ main[p] = "dead"
      <4>1. main' = [main EXCEPT ![p] = "dead"]
        BY <3>2 DEF Chain!ExpireSession, Nodes
      <4> QED
        BY <4>1
    <3> QED
      BY <2>1, <3>1, <3>2
  <2>3. /\ UNCHANGED <<number, last, next_server, failures, dataVars>>
        /\ chain' = chain \ {p}
    BY <1>6, <2>1 DEF EndSession, Chain!CloseSession, Chain!ExpireSession, Chain!LeaveChain
  <2>4. ~Up(p) /\ failures' # 0
    BY <2>1, <2>3 DEF Sound, Up
  <2>5. ~Chain!SomeJoin
    BY <2>1 DEF Chain!SomeJoin, Joiner
  <2> QED
    BY <2>2, <2>3, <2>4, <2>5 DEF Leaves, Membershipwise
<1> QED
  BY <1>1, <1>2, <1>3, <1>4, <1>5, <1>6 DEF JoinStep

-----------------------------------------------------------------------------
(***************************************************************************)
(* The inductive invariant of the puts: what holds whatever fails and      *)
(* overlaps.                                                               *)
(***************************************************************************)

(* A put that waits at a server is in the tables of those before it; none  *)
(* waits at a process without a node.                                      *)
Waiting ==
  /\ \A p, q \in Procs : Before(p, q) => inbox[q] \subseteq table[p]
  /\ \A p \in Procs : number[p] = 0 => inbox[p] = {}

(* What a process has copied is in the tables of the chain.                *)
Copied ==
  \A p \in Procs : main[p] = "create" =>
    \A q \in chain : Up(q) => table[p] \subseteq table[q]

(* What has been read is stored somewhere.                                 *)
SeenStored == (\A q \in chain : ~Up(q)) => seen = {} /\ behind = {}

-----------------------------------------------------------------------------
(***************************************************************************)
(* What holds besides as long as puts overlap no joins.                    *)
(***************************************************************************)

Quiet == apart /\ Chain!SomeJoin => NoPutAtWork

(* What a process has copied is all there is to copy, and all that was     *)
(* ever read.                                                              *)
CopiedAll ==
  apart => \A p \in Procs : main[p] = "create" =>
    /\ seen \subseteq table[p]
    /\ \A q \in Procs : Last(q) => table[q] \subseteq table[p]

-----------------------------------------------------------------------------
(***************************************************************************)
(* What holds besides as long as nothing has failed.                       *)
(***************************************************************************)

Unharmed == failures = 0 /\ apart

(* Put w is in every table from p on.                                      *)
Stored(w, p) == \A q \in chain : number[p] <= number[q] => w \in table[q]

(* When a put is under way, the chain is complete.                         *)
Linked == Unharmed /\ ~NoPutAtWork => JoinsComplete

(* A call is made on the connection to the next server.                    *)
Calls ==
  Unharmed => \A p \in Procs :
    /\ stage[p] \in {"send", "half", "sent", "await", "body"} =>
         callee[p] = next_server[p] /\ next_server[p] \in Procs
    /\ stage[p] # "lost"

(* A put is done, or the thread that holds the lock has it.                *)
Forwarded ==
  Unharmed => \A p \in chain : \A w \in table[p] :
    Stored(w, p) \/ (writer[p] = w /\ stage[p] \notin {"body", "unlock"})

(* Clients have sent their puts to the first server.                       *)
Entered ==
  Unharmed => \A w \in Puts : entry[w] # Nobody =>
    entry[w] \in chain /\ \A q \in chain : number[entry[w]] <= number[q]

(* What a process has copied includes all that was acknowledged or read.   *)
CopiedAcked ==
  Unharmed => \A p \in Procs : main[p] = "create" =>
    acked \subseteq table[p] /\ behind \subseteq table[p]

IInv ==
  /\ TypeOK /\ Waiting /\ UpstreamHoldsMore /\ Copied /\ SeenStored
  /\ Quiet /\ CopiedAll /\ ReadsSurvive
  /\ Linked /\ Calls /\ Forwarded /\ Entered /\ CopiedAcked /\ AckedOnAll /\ StaleReadsSurvive

(* The steps that only move the thread of a put on.                        *)
Proceeds(p) == \/ LookAtNext(p) \/ SendLength(p) \/ BeginRead(p)
               \/ ReadLength(p) \/ CallReturns(p) \/ LostCallEnds(p)

(* The first and the last server are so in the chain.                      *)
LEMMA EndsKnown ==
  ASSUME Membership, NEW p \in Procs
  PROVE  /\ IsHead(p) => p \in chain /\ \A q \in chain : number[p] <= number[q]
         /\ IsTail(p) => Last(p)
         /\ chain # {} => \E q \in chain : Last(q)
<1>1. \A S : Min(S) = M!Min(S) /\ Max(S) = M!Max(S)
  BY DEF Min, M!Min, Max, M!Max
<1>2. /\ Chain!Children \in SUBSET (0 .. last) /\ last \in Nat
      /\ \A q \in chain : number[q] \in Chain!Children
  BY DEF Membership, Nodes, Chain!Children
<1>3. ASSUME NEW q \in chain
      PROVE  Min(Chain!Children) <= number[q] /\ number[q] <= Max(Chain!Children)
  <2>1. Chain!Children # {} /\ Chain!Children \in SUBSET Nat
    BY <1>2, <1>3
  <2>2. M!Min(Chain!Children) <= number[q]
    BY <1>2, <2>1, SameAssumptions, M!MinFacts
  <2>3. number[q] <= M!Max(Chain!Children)
    BY <1>2, <2>1, SameAssumptions, M!MaxFacts
  <2> QED
    BY <1>1, <2>2, <2>3
<1>4. ASSUME chain # {} PROVE \E q \in chain : Last(q)
  <2>1. Chain!Children # {} /\ Chain!Children \in SUBSET (0 .. last)
    BY <1>2, <1>4 DEF Chain!Children
  <2>2. M!Max(Chain!Children) \in Chain!Children
    BY <1>2, <2>1, SameAssumptions, M!MaxFacts
  <2>3. Max(Chain!Children) \in {number[q] : q \in chain}
    BY <1>1, <2>2 DEF Chain!Children
  <2>4. PICK q \in chain : number[q] = Max(Chain!Children)
    BY <2>3
  <2> QED
    BY <1>3, <2>4 DEF Last
<1> QED
  BY <1>3, <1>4 DEF IsHead, IsTail, Last

(* Types; the lock of a process that ends is given back with the process.  *)
LEMMA TypeOKStep ==
  ASSUME IInv, Membership, Membership', Kept, [Next]_vars
  PROVE  TypeOK'
<1> USE PutsAssumption, SameAssumptions DEF M!ProcsAssumption, chainVars, dataVars,
        Chain!Joining, Chain!Up, Chain!Ending, Chain!Running, Chain!Gone, Membership,
        Nodes, IInv
<1>1. ASSUME NEW p \in Procs, Start(p) /\ Moves(p, "off", "watch")
      PROVE  TypeOK'
  BY <1>1 DEF Start, Moves, TypeOK, Idle, Stages
<1>2. ASSUME NEW p \in Procs, CopyTable(p) /\ Moves(p, "sync", "create")
      PROVE  TypeOK'
  BY <1>2 DEF CopyTable, Moves, TypeOK, Idle, Stages, Joiner, Last
<1>3. ASSUME NEW p \in Procs, UNCHANGED dataVars
               /\ Moves(p, "watch", IF chain = {} THEN "create" ELSE "sync")
      PROVE  TypeOK'
  BY <1>3 DEF Moves, TypeOK, Idle, Stages
<1>4. ASSUME NEW p \in Procs, UNCHANGED dataVars,
             Moves(p, "sync", "stopping") \/ Moves(p, "sync", "dead")
      PROVE  TypeOK'
  BY <1>4 DEF Moves, TypeOK, Idle, Stages
<1>5. ASSUME NEW p \in Procs, UNCHANGED dataVars /\ Creates(p)
      PROVE  TypeOK'
  BY <1>5 DEF Creates, TypeOK, Idle, Stages
<1>6. ASSUME NEW p \in Procs, UNCHANGED dataVars /\ Moves(p, "created", "serving")
      PROVE  TypeOK'
  BY <1>6 DEF Moves, TypeOK, Idle, Stages
<1>7. CASE UNCHANGED dataVars /\ Rewires
  BY <1>7 DEF Rewires, TypeOK, Idle, Stages
<1>8. ASSUME NEW p \in Procs, UNCHANGED dataVars /\ Leaves(p)
      PROVE  TypeOK'
  BY <1>8 DEF Leaves, TypeOK, Idle, Stages, Up
<1>9. ASSUME NEW p \in Procs, Ends(p)
      PROVE  TypeOK'
  BY <1>9 DEF Ends, Forget, TypeOK, Idle, Stages
<1>10. ASSUME NEW p \in Procs, NEW w \in Puts, ApplyPut(p, w)
      PROVE  TypeOK'
  BY <1>10 DEF ApplyPut, Goto, TypeOK, Idle, Stages
<1>11. ASSUME NEW p \in Procs, LookAtNext(p)
      PROVE  TypeOK'
  BY <1>11 DEF LookAtNext, Goto, Working, ClosedUnder, Replaced, TypeOK, Idle, Stages
<1>12. ASSUME NEW p \in Procs, SendLength(p)
      PROVE  TypeOK'
  BY <1>12 DEF SendLength, Goto, Working, ClosedUnder, Replaced, TypeOK, Idle, Stages
<1>13. ASSUME NEW p \in Procs, BeginRead(p)
      PROVE  TypeOK'
  BY <1>13 DEF BeginRead, Goto, Working, ClosedUnder, Replaced, TypeOK, Idle, Stages
<1>14. ASSUME NEW p \in Procs, ReadLength(p) \/ CallReturns(p)
      PROVE  TypeOK'
  BY <1>14 DEF ReadLength, CallReturns, Goto, Working, ClosedUnder, Replaced, TypeOK, Idle,
     Stages
<1>15. ASSUME NEW p \in Procs, LostCallEnds(p)
      PROVE  TypeOK'
  BY <1>15 DEF LostCallEnds, Goto, Working, TypeOK, Idle, Stages
<1>16. ASSUME NEW p \in Procs, SendMessage(p)
      PROVE  TypeOK'
  BY <1>16 DEF SendMessage, Goto, Working, ClosedUnder, Replaced, TypeOK, Idle, Stages
<1>17. ASSUME NEW p \in Procs, Answer(p)
      PROVE  TypeOK'
  BY <1>17 DEF Answer, Goto, Working, TypeOK, Idle, Stages
<1>18. ASSUME NEW p \in Procs, ClientRead(p)
      PROVE  TypeOK'
  BY <1>18 DEF ClientRead, ReadAt, TypeOK, Idle, Stages
<1>19. ASSUME NEW p \in Procs, NEW w \in Puts, ClientPut(w, p)
      PROVE  TypeOK'
  BY <1>19 DEF ClientPut, TypeOK, Idle, Stages
<1>20. CASE UNCHANGED vars
  BY <1>20 DEF vars, TypeOK, Idle, Stages
<1> QED
  <2>1. ASSUME NEW p \in Procs, Membershipwise(p) PROVE TypeOK'
    BY <2>1, <1>1, <1>2, <1>3, <1>4, <1>5, <1>6, <1>7, <1>8, <1>9 DEF Membershipwise
  <2>2. ASSUME NEW p \in Procs,
               \/ Start(p) \/ JoinStep(p) \/ Watch(p) \/ Stop(p) \/ Crash(p) \/ EndSession(p)
        PROVE  TypeOK'
    BY <2>1, <2>2, StepsKnown
  <2> QED
    BY <2>2, <1>10, <1>11, <1>12, <1>13, <1>14, <1>15, <1>16, <1>17, <1>18, <1>19, <1>20
       DEF Next, PutStep

(* A put is sent on by a server that has it, and so have all before it.    *)
LEMMA WaitingStep ==
  ASSUME IInv, Membership, Membership', Kept, [Next]_vars
  PROVE  Waiting'
<1> USE PutsAssumption, SameAssumptions DEF M!ProcsAssumption, chainVars, dataVars,
        Chain!Joining, Chain!Up, Chain!Ending, Chain!Running, Chain!Gone, Membership,
        Nodes, IInv
<1>1. ASSUME NEW p \in Procs, Start(p) /\ Moves(p, "off", "watch")
      PROVE  Waiting'
  BY <1>1 DEF Start, Moves, Waiting, Before, Up
<1>2. ASSUME NEW p \in Procs, CopyTable(p) /\ Moves(p, "sync", "create")
      PROVE  Waiting'
  BY <1>2 DEF CopyTable, Moves, Waiting, Before, Up, TypeOK
<1>3. ASSUME NEW p \in Procs, UNCHANGED dataVars
               /\ Moves(p, "watch", IF chain = {} THEN "create" ELSE "sync")
      PROVE  Waiting'
  BY <1>3 DEF Moves, Waiting, Before, Up
<1>4. ASSUME NEW p \in Procs, UNCHANGED dataVars,
             Moves(p, "sync", "stopping") \/ Moves(p, "sync", "dead")
      PROVE  Waiting'
  BY <1>4 DEF Moves, Waiting, Before, Up
<1>5. ASSUME NEW p \in Procs, UNCHANGED dataVars /\ Creates(p)
      PROVE  Waiting'
  BY <1>5 DEF Creates, Waiting, Before, Up, TypeOK
<1>6. ASSUME NEW p \in Procs, UNCHANGED dataVars /\ Moves(p, "created", "serving")
      PROVE  Waiting'
  BY <1>6 DEF Moves, Waiting, Before, Up
<1>7. CASE UNCHANGED dataVars /\ Rewires
  BY <1>7 DEF Rewires, Waiting, Before, Up
<1>8. ASSUME NEW p \in Procs, UNCHANGED dataVars /\ Leaves(p)
      PROVE  Waiting'
  BY <1>8 DEF Leaves, Waiting, Before, Up
<1>9. ASSUME NEW p \in Procs, Ends(p)
      PROVE  Waiting'
  BY <1>9 DEF Ends, Forget, Waiting, Before, Up, TypeOK
<1>10. ASSUME NEW p \in Procs, NEW w \in Puts, ApplyPut(p, w)
      PROVE  Waiting'
  BY <1>10 DEF ApplyPut, Goto, Waiting, Before, Up, TypeOK
<1>11. ASSUME NEW p \in Procs, Proceeds(p)
      PROVE  Waiting'
  BY <1>11 DEF Proceeds, LookAtNext, SendLength, BeginRead, ReadLength, CallReturns,
     LostCallEnds, Goto, Working, ClosedUnder, Replaced, Waiting, Before, Up
<1>12. ASSUME NEW p \in Procs, SendMessage(p)
      PROVE  Waiting'
  <2>1. CASE inbox' = inbox
    BY <1>12, <2>1 DEF SendMessage, Goto, Working, Waiting, Before, Up
  <2>2. CASE /\ next_server[p] \in Procs /\ callee[p] = next_server[p]
             /\ inbox'[next_server[p]] = inbox[next_server[p]] \cup {writer[p]}
             /\ \A r \in Procs \ {next_server[p]} : inbox'[r] = inbox[r]
    <3> DEFINE q == next_server[p]
    <3>1. /\ main[p] = "serving" /\ p \in chain /\ writer[p] \in table[p]
          /\ number[p] < number[q] /\ number[q] # 0
      BY <1>12, <2>2 DEF SendMessage, Working, TypeOK, Adjacent
    <3>2. ASSUME NEW r \in Procs, Before(r, q) PROVE writer[p] \in table[r]
      <4>1. r \in chain /\ Up(r) /\ ~ (number[p] < number[r])
        BY <2>2, <3>1, <3>2 DEF Before, Adjacent
      <4>2. r = p \/ Before(r, p)
        BY <3>1, <4>1 DEF Before, Up
      <4> QED
        BY <3>1, <4>2 DEF UpstreamHoldsMore
    <3>3. UNCHANGED <<table, chain, number, main>>
      BY <1>12 DEF SendMessage
    <3>6. ASSUME NEW r \in Procs, NEW s \in Procs, Before(r, s)
          PROVE  inbox'[s] \subseteq table[r]
      <4>1. inbox[s] \subseteq table[r]
        BY <3>6 DEF Waiting
      <4> QED
        BY <2>2, <3>2, <3>6, <4>1
    <3>7. \A r \in Procs : number[r] = 0 => inbox'[r] = {}
      BY <2>2, <3>1 DEF Waiting
    <3> QED
      BY <3>3, <3>6, <3>7 DEF Waiting, Before, Up
  <2>3. CASE ~ (next_server[p] \in Procs /\ ~Replaced(p)) \/ Gone(callee[p])
    <3>1. inbox' = inbox
      BY <1>12, <2>3 DEF SendMessage
    <3> QED
      BY <2>1, <3>1
  <2>4. CASE next_server[p] \in Procs /\ ~Replaced(p) /\ ~Gone(callee[p])
    <3>1. inbox' = [inbox EXCEPT ![callee[p]] =
                                     inbox[callee[p]] \cup {writer[p]}]
      BY <1>12, <2>4 DEF SendMessage, ClosedUnder
    <3> QED
      BY <2>2, <2>4, <3>1 DEF Replaced, TypeOK
  <2> QED
    BY <2>3, <2>4
<1>13. ASSUME NEW p \in Procs, Answer(p)
      PROVE  Waiting'
  BY <1>13 DEF Answer, Goto, Working, Waiting, Before, Up
<1>14. ASSUME NEW p \in Procs, ClientRead(p)
      PROVE  Waiting'
  BY <1>14 DEF ClientRead, ReadAt, Waiting, Before, Up
<1>15. ASSUME NEW p \in Procs, NEW w \in Puts, ClientPut(w, p)
      PROVE  Waiting'
  BY <1>15, EndsKnown DEF ClientPut, Waiting, Before, Up, TypeOK
<1>16. CASE UNCHANGED vars
  BY <1>16 DEF vars, Waiting, Before, Up
<1> QED
  <2>1. ASSUME NEW p \in Procs, Membershipwise(p) PROVE Waiting'
    BY <2>1, <1>1, <1>2, <1>3, <1>4, <1>5, <1>6, <1>7, <1>8, <1>9 DEF Membershipwise
  <2>2. ASSUME NEW p \in Procs,
               \/ Start(p) \/ JoinStep(p) \/ Watch(p) \/ Stop(p) \/ Crash(p) \/ EndSession(p)
        PROVE  Waiting'
    BY <2>1, <2>2, StepsKnown
  <2> QED
    BY <2>2, <1>10, <1>11, <1>12, <1>13, <1>14, <1>15, <1>16 DEF Next, PutStep, Proceeds

(* A put reaches a table after it waited there; a table is copied from the *)
(* last server.                                                            *)
LEMMA UpstreamHoldsMoreStep ==
  ASSUME IInv, Membership, Membership', Kept, [Next]_vars
  PROVE  UpstreamHoldsMore'
<1> USE PutsAssumption, SameAssumptions DEF M!ProcsAssumption, chainVars, dataVars,
        Chain!Joining, Chain!Up, Chain!Ending, Chain!Running, Chain!Gone, Membership,
        Nodes, IInv
<1>1. ASSUME NEW p \in Procs, Start(p) /\ Moves(p, "off", "watch")
      PROVE  UpstreamHoldsMore'
  BY <1>1 DEF Start, Moves, UpstreamHoldsMore, Before, Up
<1>2. ASSUME NEW p \in Procs, CopyTable(p) /\ Moves(p, "sync", "create")
      PROVE  UpstreamHoldsMore'
  BY <1>2 DEF CopyTable, Moves, UpstreamHoldsMore, Before, Up, TypeOK
<1>3. ASSUME NEW p \in Procs, UNCHANGED dataVars
               /\ Moves(p, "watch", IF chain = {} THEN "create" ELSE "sync")
      PROVE  UpstreamHoldsMore'
  BY <1>3 DEF Moves, UpstreamHoldsMore, Before, Up
<1>4. ASSUME NEW p \in Procs, UNCHANGED dataVars,
             Moves(p, "sync", "stopping") \/ Moves(p, "sync", "dead")
      PROVE  UpstreamHoldsMore'
  BY <1>4 DEF Moves, UpstreamHoldsMore, Before, Up
<1>5. ASSUME NEW p \in Procs, UNCHANGED dataVars /\ Creates(p)
      PROVE  UpstreamHoldsMore'
  BY <1>5 DEF Creates, UpstreamHoldsMore, Before, Up, Copied, TypeOK
<1>6. ASSUME NEW p \in Procs, UNCHANGED dataVars /\ Moves(p, "created", "serving")
      PROVE  UpstreamHoldsMore'
  BY <1>6 DEF Moves, UpstreamHoldsMore, Before, Up
<1>7. CASE UNCHANGED dataVars /\ Rewires
  BY <1>7 DEF Rewires, UpstreamHoldsMore, Before, Up
<1>8. ASSUME NEW p \in Procs, UNCHANGED dataVars /\ Leaves(p)
      PROVE  UpstreamHoldsMore'
  BY <1>8 DEF Leaves, UpstreamHoldsMore, Before, Up
<1>9. ASSUME NEW p \in Procs, Ends(p)
      PROVE  UpstreamHoldsMore'
  BY <1>9 DEF Ends, Forget, UpstreamHoldsMore, Before, Up, TypeOK
<1>10. ASSUME NEW p \in Procs, NEW w \in Puts, ApplyPut(p, w)
      PROVE  UpstreamHoldsMore'
  BY <1>10 DEF ApplyPut, Goto, UpstreamHoldsMore, Before, Up, Waiting, TypeOK
<1>11. ASSUME NEW p \in Procs, Proceeds(p)
      PROVE  UpstreamHoldsMore'
  BY <1>11 DEF Proceeds, LookAtNext, SendLength, BeginRead, ReadLength, CallReturns,
     LostCallEnds, Goto, Working, ClosedUnder, Replaced, UpstreamHoldsMore, Before, Up
<1>12. ASSUME NEW p \in Procs, SendMessage(p)
      PROVE  UpstreamHoldsMore'
  BY <1>12 DEF SendMessage, Goto, Working, ClosedUnder, Replaced, UpstreamHoldsMore,
     Before, Up
<1>13. ASSUME NEW p \in Procs, Answer(p)
      PROVE  UpstreamHoldsMore'
  BY <1>13 DEF Answer, Goto, Working, UpstreamHoldsMore, Before, Up
<1>14. ASSUME NEW p \in Procs, ClientRead(p)
      PROVE  UpstreamHoldsMore'
  BY <1>14 DEF ClientRead, ReadAt, UpstreamHoldsMore, Before, Up
<1>15. ASSUME NEW p \in Procs, NEW w \in Puts, ClientPut(w, p)
      PROVE  UpstreamHoldsMore'
  BY <1>15 DEF ClientPut, UpstreamHoldsMore, Before, Up
<1>16. CASE UNCHANGED vars
  BY <1>16 DEF vars, UpstreamHoldsMore, Before, Up
<1> QED
  <2>1. ASSUME NEW p \in Procs, Membershipwise(p) PROVE UpstreamHoldsMore'
    BY <2>1, <1>1, <1>2, <1>3, <1>4, <1>5, <1>6, <1>7, <1>8, <1>9 DEF Membershipwise
  <2>2. ASSUME NEW p \in Procs,
               \/ Start(p) \/ JoinStep(p) \/ Watch(p) \/ Stop(p) \/ Crash(p) \/ EndSession(p)
        PROVE  UpstreamHoldsMore'
    BY <2>1, <2>2, StepsKnown
  <2> QED
    BY <2>2, <1>10, <1>11, <1>12, <1>13, <1>14, <1>15, <1>16 DEF Next, PutStep, Proceeds

(* The last server, whose table is copied, holds least.                    *)
LEMMA CopiedStep ==
  ASSUME IInv, Membership, Membership', Kept, [Next]_vars
  PROVE  Copied'
<1> USE PutsAssumption, SameAssumptions DEF M!ProcsAssumption, chainVars, dataVars,
        Chain!Joining, Chain!Up, Chain!Ending, Chain!Running, Chain!Gone, Membership,
        Nodes, IInv
<1>1. ASSUME NEW p \in Procs, Start(p) /\ Moves(p, "off", "watch")
      PROVE  Copied'
  BY <1>1 DEF Start, Moves, Copied, Up
<1>2. ASSUME NEW p \in Procs, CopyTable(p) /\ Moves(p, "sync", "create")
      PROVE  Copied'
  BY <1>2 DEF CopyTable, Moves, Copied, Up, Joiner, Last, UpstreamHoldsMore, Before,
     TypeOK
<1>3. ASSUME NEW p \in Procs, UNCHANGED dataVars
               /\ Moves(p, "watch", IF chain = {} THEN "create" ELSE "sync")
      PROVE  Copied'
  BY <1>3 DEF Moves, Copied, Up
<1>4. ASSUME NEW p \in Procs, UNCHANGED dataVars,
             Moves(p, "sync", "stopping") \/ Moves(p, "sync", "dead")
      PROVE  Copied'
  BY <1>4 DEF Moves, Copied, Up
<1>5. ASSUME NEW p \in Procs, UNCHANGED dataVars /\ Creates(p)
      PROVE  Copied'
  BY <1>5 DEF Creates, Copied, Up, Joiner, TypeOK
<1>6. ASSUME NEW p \in Procs, UNCHANGED dataVars /\ Moves(p, "created", "serving")
      PROVE  Copied'
  BY <1>6 DEF Moves, Copied, Up
<1>7. CASE UNCHANGED dataVars /\ Rewires
  BY <1>7 DEF Rewires, Copied, Up
<1>8. ASSUME NEW p \in Procs, UNCHANGED dataVars /\ Leaves(p)
      PROVE  Copied'
  BY <1>8 DEF Leaves, Copied, Up
<1>9. ASSUME NEW p \in Procs, Ends(p)
      PROVE  Copied'
  BY <1>9 DEF Ends, Forget, Copied, Up, TypeOK
<1>10. ASSUME NEW p \in Procs, NEW w \in Puts, ApplyPut(p, w)
      PROVE  Copied'
  BY <1>10 DEF ApplyPut, Goto, Copied, Up, TypeOK
<1>11. ASSUME NEW p \in Procs, Proceeds(p)
      PROVE  Copied'
  BY <1>11 DEF Proceeds, LookAtNext, SendLength, BeginRead, ReadLength, CallReturns,
     LostCallEnds, Goto, Working, ClosedUnder, Replaced, Copied, Up
<1>12. ASSUME NEW p \in Procs, SendMessage(p)
      PROVE  Copied'
  BY <1>12 DEF SendMessage, Goto, Working, ClosedUnder, Replaced, Copied, Up
<1>13. ASSUME NEW p \in Procs, Answer(p)
      PROVE  Copied'
  BY <1>13 DEF Answer, Goto, Working, Copied, Up
<1>14. ASSUME NEW p \in Procs, ClientRead(p)
      PROVE  Copied'
  BY <1>14 DEF ClientRead, ReadAt, Copied, Up
<1>15. ASSUME NEW p \in Procs, NEW w \in Puts, ClientPut(w, p)
      PROVE  Copied'
  BY <1>15 DEF ClientPut, Copied, Up
<1>16. CASE UNCHANGED vars
  BY <1>16 DEF vars, Copied, Up
<1> QED
  <2>1. ASSUME NEW p \in Procs, Membershipwise(p) PROVE Copied'
    BY <2>1, <1>1, <1>2, <1>3, <1>4, <1>5, <1>6, <1>7, <1>8, <1>9 DEF Membershipwise
  <2>2. ASSUME NEW p \in Procs,
               \/ Start(p) \/ JoinStep(p) \/ Watch(p) \/ Stop(p) \/ Crash(p) \/ EndSession(p)
        PROVE  Copied'
    BY <2>1, <2>2, StepsKnown
  <2> QED
    BY <2>2, <1>10, <1>11, <1>12, <1>13, <1>14, <1>15, <1>16 DEF Next, PutStep, Proceeds

(* What was read stays on the last server until the last server of all     *)
(* fails.                                                                  *)
LEMMA SeenStoredStep ==
  ASSUME IInv, Membership, Membership', Kept, [Next]_vars
  PROVE  SeenStored'
<1> USE PutsAssumption, SameAssumptions DEF M!ProcsAssumption, chainVars, dataVars,
        Chain!Joining, Chain!Up, Chain!Ending, Chain!Running, Chain!Gone, Membership,
        Nodes, IInv
<1>1. ASSUME NEW p \in Procs, Start(p) /\ Moves(p, "off", "watch")
      PROVE  SeenStored'
  BY <1>1 DEF Start, Moves, SeenStored, Up
<1>2. ASSUME NEW p \in Procs, CopyTable(p) /\ Moves(p, "sync", "create")
      PROVE  SeenStored'
  BY <1>2 DEF CopyTable, Moves, SeenStored, Up
<1>3. ASSUME NEW p \in Procs, UNCHANGED dataVars
               /\ Moves(p, "watch", IF chain = {} THEN "create" ELSE "sync")
      PROVE  SeenStored'
  BY <1>3 DEF Moves, SeenStored, Up
<1>4. ASSUME NEW p \in Procs, UNCHANGED dataVars,
             Moves(p, "sync", "stopping") \/ Moves(p, "sync", "dead")
      PROVE  SeenStored'
  BY <1>4 DEF Moves, SeenStored, Up
<1>5. ASSUME NEW p \in Procs, UNCHANGED dataVars /\ Creates(p)
      PROVE  SeenStored'
  BY <1>5 DEF Creates, SeenStored, Up
<1>6. ASSUME NEW p \in Procs, UNCHANGED dataVars /\ Moves(p, "created", "serving")
      PROVE  SeenStored'
  BY <1>6 DEF Moves, SeenStored, Up
<1>7. CASE UNCHANGED dataVars /\ Rewires
  BY <1>7 DEF Rewires, SeenStored, Up
<1>8. ASSUME NEW p \in Procs, UNCHANGED dataVars /\ Leaves(p)
      PROVE  SeenStored'
  BY <1>8 DEF Leaves, SeenStored, Up
<1>9. ASSUME NEW p \in Procs, Ends(p)
      PROVE  SeenStored'
  BY <1>9 DEF Ends, Forget, SeenStored, Up, TypeOK
<1>10. ASSUME NEW p \in Procs, NEW w \in Puts, ApplyPut(p, w)
      PROVE  SeenStored'
  BY <1>10 DEF ApplyPut, Goto, SeenStored, Up
<1>11. ASSUME NEW p \in Procs, Proceeds(p)
      PROVE  SeenStored'
  BY <1>11 DEF Proceeds, LookAtNext, SendLength, BeginRead, ReadLength, CallReturns,
     LostCallEnds, Goto, Working, ClosedUnder, Replaced, SeenStored, Up
<1>12. ASSUME NEW p \in Procs, SendMessage(p)
      PROVE  SeenStored'
  BY <1>12 DEF SendMessage, Goto, Working, ClosedUnder, Replaced, SeenStored, Up
<1>13. ASSUME NEW p \in Procs, Answer(p)
      PROVE  SeenStored'
  BY <1>13 DEF Answer, Goto, Working, SeenStored, Up
<1>14. ASSUME NEW p \in Procs, ClientRead(p)
      PROVE  SeenStored'
  BY <1>14, EndsKnown DEF ClientRead, ReadAt, SeenStored, Up, Last
<1>15. ASSUME NEW p \in Procs, NEW w \in Puts, ClientPut(w, p)
      PROVE  SeenStored'
  BY <1>15 DEF ClientPut, SeenStored, Up
<1>16. CASE UNCHANGED vars
  BY <1>16 DEF vars, SeenStored, Up
<1> QED
  <2>1. ASSUME NEW p \in Procs, Membershipwise(p) PROVE SeenStored'
    BY <2>1, <1>1, <1>2, <1>3, <1>4, <1>5, <1>6, <1>7, <1>8, <1>9 DEF Membershipwise
  <2>2. ASSUME NEW p \in Procs,
               \/ Start(p) \/ JoinStep(p) \/ Watch(p) \/ Stop(p) \/ Crash(p) \/ EndSession(p)
        PROVE  SeenStored'
    BY <2>1, <2>2, StepsKnown
  <2> QED
    BY <2>2, <1>10, <1>11, <1>12, <1>13, <1>14, <1>15, <1>16 DEF Next, PutStep, Proceeds

(* A put that comes while a process joins overlaps a join.                 *)
LEMMA QuietStep ==
  ASSUME IInv, Membership, Membership', Kept, [Next]_vars
  PROVE  Quiet'
<1> USE PutsAssumption, SameAssumptions DEF M!ProcsAssumption, chainVars, dataVars,
        Chain!Joining, Chain!Up, Chain!Ending, Chain!Running, Chain!Gone, Membership,
        Nodes, IInv
<1>1. ASSUME NEW p \in Procs, Start(p) /\ Moves(p, "off", "watch")
      PROVE  Quiet'
  BY <1>1 DEF Start, Moves, Quiet, NoPutAtWork, Idle, Chain!SomeJoin, TypeOK
<1>2. ASSUME NEW p \in Procs, CopyTable(p) /\ Moves(p, "sync", "create")
      PROVE  Quiet'
  BY <1>2 DEF CopyTable, Moves, Quiet, NoPutAtWork, Idle, Chain!SomeJoin
<1>3. ASSUME NEW p \in Procs, UNCHANGED dataVars
               /\ Moves(p, "watch", IF chain = {} THEN "create" ELSE "sync")
      PROVE  Quiet'
  BY <1>3 DEF Moves, Quiet, NoPutAtWork, Idle, Chain!SomeJoin
<1>4. ASSUME NEW p \in Procs, UNCHANGED dataVars,
             Moves(p, "sync", "stopping") \/ Moves(p, "sync", "dead")
      PROVE  Quiet'
  BY <1>4 DEF Moves, Quiet, NoPutAtWork, Idle, Chain!SomeJoin
<1>5. ASSUME NEW p \in Procs, UNCHANGED dataVars /\ Creates(p)
      PROVE  Quiet'
  BY <1>5 DEF Creates, Quiet, NoPutAtWork, Idle, Chain!SomeJoin
<1>6. ASSUME NEW p \in Procs, UNCHANGED dataVars /\ Moves(p, "created", "serving")
      PROVE  Quiet'
  BY <1>6 DEF Moves, Quiet, NoPutAtWork, Idle, Chain!SomeJoin
<1>7. CASE UNCHANGED dataVars /\ Rewires
  BY <1>7 DEF Rewires, Quiet, NoPutAtWork, Idle, Chain!SomeJoin
<1>8. ASSUME NEW p \in Procs, UNCHANGED dataVars /\ Leaves(p)
      PROVE  Quiet'
  BY <1>8 DEF Leaves, Quiet, NoPutAtWork, Idle, Chain!SomeJoin
<1>9. ASSUME NEW p \in Procs, Ends(p)
      PROVE  Quiet'
  BY <1>9 DEF Ends, Forget, Quiet, NoPutAtWork, Idle, Chain!SomeJoin, TypeOK
<1>10. ASSUME NEW p \in Procs, NEW w \in Puts, ApplyPut(p, w)
      PROVE  Quiet'
  BY <1>10 DEF ApplyPut, Goto, Quiet, NoPutAtWork, Idle, Chain!SomeJoin, TypeOK
<1>11. ASSUME NEW p \in Procs, Proceeds(p)
      PROVE  Quiet'
  BY <1>11 DEF Proceeds, LookAtNext, SendLength, BeginRead, ReadLength, CallReturns,
     LostCallEnds, Goto, Working, ClosedUnder, Replaced, Quiet, NoPutAtWork, Idle, Chain!SomeJoin
<1>12. ASSUME NEW p \in Procs, SendMessage(p)
      PROVE  Quiet'
  BY <1>12 DEF SendMessage, Goto, Working, ClosedUnder, Replaced, Quiet, NoPutAtWork,
     Idle, Chain!SomeJoin, TypeOK
<1>13. ASSUME NEW p \in Procs, Answer(p)
      PROVE  Quiet'
  BY <1>13 DEF Answer, Goto, Working, Quiet, NoPutAtWork, Idle, Chain!SomeJoin
<1>14. ASSUME NEW p \in Procs, ClientRead(p)
      PROVE  Quiet'
  BY <1>14 DEF ClientRead, ReadAt, Quiet, NoPutAtWork, Idle, Chain!SomeJoin
<1>15. ASSUME NEW p \in Procs, NEW w \in Puts, ClientPut(w, p)
      PROVE  Quiet'
  BY <1>15 DEF ClientPut, Quiet, NoPutAtWork, Idle, Chain!SomeJoin, JoinsComplete
<1>16. CASE UNCHANGED vars
  BY <1>16 DEF vars, Quiet, NoPutAtWork, Idle, Chain!SomeJoin
<1> QED
  <2>1. ASSUME NEW p \in Procs, Membershipwise(p) PROVE Quiet'
    BY <2>1, <1>1, <1>2, <1>3, <1>4, <1>5, <1>6, <1>7, <1>8, <1>9 DEF Membershipwise
  <2>2. ASSUME NEW p \in Procs,
               \/ Start(p) \/ JoinStep(p) \/ Watch(p) \/ Stop(p) \/ Crash(p) \/ EndSession(p)
        PROVE  Quiet'
    BY <2>1, <2>2, StepsKnown
  <2> QED
    BY <2>2, <1>10, <1>11, <1>12, <1>13, <1>14, <1>15, <1>16 DEF Next, PutStep, Proceeds

(* The table of the last server is copied, which holds all that was read;  *)
(* until the node is created no put reaches it.                            *)
LEMMA CopiedAllStep ==
  ASSUME IInv, Membership, Membership', Kept, [Next]_vars
  PROVE  CopiedAll'
<1> USE PutsAssumption, SameAssumptions DEF M!ProcsAssumption, chainVars, dataVars,
        Chain!Joining, Chain!Up, Chain!Ending, Chain!Running, Chain!Gone, Membership,
        Nodes, IInv
<1>1. ASSUME NEW p \in Procs, Start(p) /\ Moves(p, "off", "watch")
      PROVE  CopiedAll'
  BY <1>1 DEF Start, Moves, CopiedAll, Last
<1>2. ASSUME NEW p \in Procs, CopyTable(p) /\ Moves(p, "sync", "create")
      PROVE  CopiedAll'
  BY <1>2 DEF CopyTable, Moves, CopiedAll, Last, Joiner, ReadsSurvive, TypeOK
<1>3. ASSUME NEW p \in Procs, UNCHANGED dataVars
               /\ Moves(p, "watch", IF chain = {} THEN "create" ELSE "sync")
      PROVE  CopiedAll'
  BY <1>3 DEF Moves, CopiedAll, Last, SeenStored, TypeOK
<1>4. ASSUME NEW p \in Procs, UNCHANGED dataVars,
             Moves(p, "sync", "stopping") \/ Moves(p, "sync", "dead")
      PROVE  CopiedAll'
  BY <1>4 DEF Moves, CopiedAll, Last
<1>5. ASSUME NEW p \in Procs, UNCHANGED dataVars /\ Creates(p)
      PROVE  CopiedAll'
  BY <1>5 DEF Creates, CopiedAll, Last, Joiner, TypeOK
<1>6. ASSUME NEW p \in Procs, UNCHANGED dataVars /\ Moves(p, "created", "serving")
      PROVE  CopiedAll'
  BY <1>6 DEF Moves, CopiedAll, Last
<1>7. CASE UNCHANGED dataVars /\ Rewires
  BY <1>7 DEF Rewires, CopiedAll, Last
<1>8. ASSUME NEW p \in Procs, UNCHANGED dataVars /\ Leaves(p)
      PROVE  CopiedAll'
  BY <1>8 DEF Leaves, CopiedAll, Last, Chain!SomeJoin
<1>9. ASSUME NEW p \in Procs, Ends(p)
      PROVE  CopiedAll'
  BY <1>9 DEF Ends, Forget, CopiedAll, Last
<1>10. ASSUME NEW p \in Procs, NEW w \in Puts, ApplyPut(p, w)
      PROVE  CopiedAll'
  BY <1>10 DEF ApplyPut, Goto, CopiedAll, Last, TypeOK, Quiet, NoPutAtWork, Chain!SomeJoin
<1>11. ASSUME NEW p \in Procs, Proceeds(p)
      PROVE  CopiedAll'
  BY <1>11 DEF Proceeds, LookAtNext, SendLength, BeginRead, ReadLength, CallReturns,
     LostCallEnds, Goto, Working, ClosedUnder, Replaced, CopiedAll, Last
<1>12. ASSUME NEW p \in Procs, SendMessage(p)
      PROVE  CopiedAll'
  BY <1>12 DEF SendMessage, Goto, Working, ClosedUnder, Replaced, CopiedAll, Last
<1>13. ASSUME NEW p \in Procs, Answer(p)
      PROVE  CopiedAll'
  BY <1>13 DEF Answer, Goto, Working, CopiedAll, Last
<1>14. ASSUME NEW p \in Procs, ClientRead(p)
      PROVE  CopiedAll'
  BY <1>14, EndsKnown DEF ClientRead, ReadAt, CopiedAll, Last, TypeOK
<1>15. ASSUME NEW p \in Procs, NEW w \in Puts, ClientPut(w, p)
      PROVE  CopiedAll'
  BY <1>15 DEF ClientPut, CopiedAll, Last
<1>16. CASE UNCHANGED vars
  BY <1>16 DEF vars, CopiedAll, Last
<1> QED
  <2>1. ASSUME NEW p \in Procs, Membershipwise(p) PROVE CopiedAll'
    BY <2>1, <1>1, <1>2, <1>3, <1>4, <1>5, <1>6, <1>7, <1>8, <1>9 DEF Membershipwise
  <2>2. ASSUME NEW p \in Procs,
               \/ Start(p) \/ JoinStep(p) \/ Watch(p) \/ Stop(p) \/ Crash(p) \/ EndSession(p)
        PROVE  CopiedAll'
    BY <2>1, <2>2, StepsKnown
  <2> QED
    BY <2>2, <1>10, <1>11, <1>12, <1>13, <1>14, <1>15, <1>16 DEF Next, PutStep, Proceeds

(* A read is of the last server, and all before it hold more; a process    *)
(* that joins has copied what was read.                                    *)
LEMMA ReadsSurviveStep ==
  ASSUME IInv, Membership, Membership', Kept, [Next]_vars
  PROVE  ReadsSurvive'
<1> USE PutsAssumption, SameAssumptions DEF M!ProcsAssumption, chainVars, dataVars,
        Chain!Joining, Chain!Up, Chain!Ending, Chain!Running, Chain!Gone, Membership,
        Nodes, IInv
<1>1. ASSUME NEW p \in Procs, Start(p) /\ Moves(p, "off", "watch")
      PROVE  ReadsSurvive'
  BY <1>1 DEF Start, Moves, ReadsSurvive
<1>2. ASSUME NEW p \in Procs, CopyTable(p) /\ Moves(p, "sync", "create")
      PROVE  ReadsSurvive'
  BY <1>2 DEF CopyTable, Moves, ReadsSurvive, TypeOK
<1>3. ASSUME NEW p \in Procs, UNCHANGED dataVars
               /\ Moves(p, "watch", IF chain = {} THEN "create" ELSE "sync")
      PROVE  ReadsSurvive'
  BY <1>3 DEF Moves, ReadsSurvive
<1>4. ASSUME NEW p \in Procs, UNCHANGED dataVars,
             Moves(p, "sync", "stopping") \/ Moves(p, "sync", "dead")
      PROVE  ReadsSurvive'
  BY <1>4 DEF Moves, ReadsSurvive
<1>5. ASSUME NEW p \in Procs, UNCHANGED dataVars /\ Creates(p)
      PROVE  ReadsSurvive'
  BY <1>5 DEF Creates, ReadsSurvive, CopiedAll, TypeOK
<1>6. ASSUME NEW p \in Procs, UNCHANGED dataVars /\ Moves(p, "created", "serving")
      PROVE  ReadsSurvive'
  BY <1>6 DEF Moves, ReadsSurvive
<1>7. CASE UNCHANGED dataVars /\ Rewires
  BY <1>7 DEF Rewires, ReadsSurvive
<1>8. ASSUME NEW p \in Procs, UNCHANGED dataVars /\ Leaves(p)
      PROVE  ReadsSurvive'
  BY <1>8 DEF Leaves, ReadsSurvive
<1>9. ASSUME NEW p \in Procs, Ends(p)
      PROVE  ReadsSurvive'
  BY <1>9 DEF Ends, Forget, ReadsSurvive, TypeOK
<1>10. ASSUME NEW p \in Procs, NEW w \in Puts, ApplyPut(p, w)
      PROVE  ReadsSurvive'
  BY <1>10 DEF ApplyPut, Goto, ReadsSurvive, TypeOK
<1>11. ASSUME NEW p \in Procs, Proceeds(p)
      PROVE  ReadsSurvive'
  BY <1>11 DEF Proceeds, LookAtNext, SendLength, BeginRead, ReadLength, CallReturns,
     LostCallEnds, Goto, Working, ClosedUnder, Replaced, ReadsSurvive
<1>12. ASSUME NEW p \in Procs, SendMessage(p)
      PROVE  ReadsSurvive'
  BY <1>12 DEF SendMessage, Goto, Working, ClosedUnder, Replaced, ReadsSurvive
<1>13. ASSUME NEW p \in Procs, Answer(p)
      PROVE  ReadsSurvive'
  BY <1>13 DEF Answer, Goto, Working, ReadsSurvive
<1>14. ASSUME NEW p \in Procs, ClientRead(p)
      PROVE  ReadsSurvive'
  BY <1>14, EndsKnown DEF ClientRead, ReadAt, ReadsSurvive, Last, UpstreamHoldsMore, Before, Up,
     TypeOK
<1>15. ASSUME NEW p \in Procs, NEW w \in Puts, ClientPut(w, p)
      PROVE  ReadsSurvive'
  BY <1>15 DEF ClientPut, ReadsSurvive
<1>16. CASE UNCHANGED vars
  BY <1>16 DEF vars, ReadsSurvive
<1> QED
  <2>1. ASSUME NEW p \in Procs, Membershipwise(p) PROVE ReadsSurvive'
    BY <2>1, <1>1, <1>2, <1>3, <1>4, <1>5, <1>6, <1>7, <1>8, <1>9 DEF Membershipwise
  <2>2. ASSUME NEW p \in Procs,
               \/ Start(p) \/ JoinStep(p) \/ Watch(p) \/ Stop(p) \/ Crash(p) \/ EndSession(p)
        PROVE  ReadsSurvive'
    BY <2>1, <2>2, StepsKnown
  <2> QED
    BY <2>2, <1>10, <1>11, <1>12, <1>13, <1>14, <1>15, <1>16 DEF Next, PutStep, Proceeds

(* A put enters a complete chain, and no process joins until it is done.   *)
LEMMA LinkedStep ==
  ASSUME IInv, Membership, Membership', Kept, [Next]_vars
  PROVE  Linked'
<1> USE PutsAssumption, SameAssumptions DEF M!ProcsAssumption, chainVars, dataVars,
        Chain!Joining, Chain!Up, Chain!Ending, Chain!Running, Chain!Gone, Membership,
        Nodes, IInv
<1>1. ASSUME NEW p \in Procs, Start(p) /\ Moves(p, "off", "watch")
      PROVE  Linked'
  BY <1>1 DEF Start, Moves, Linked, Unharmed, NoPutAtWork, Idle, JoinsComplete,
     Chain!SomeJoin
<1>2. ASSUME NEW p \in Procs, CopyTable(p) /\ Moves(p, "sync", "create")
      PROVE  Linked'
  BY <1>2 DEF CopyTable, Moves, Linked, Unharmed, NoPutAtWork, Idle, JoinsComplete,
     Chain!SomeJoin
<1>3. ASSUME NEW p \in Procs, UNCHANGED dataVars
               /\ Moves(p, "watch", IF chain = {} THEN "create" ELSE "sync")
      PROVE  Linked'
  BY <1>3 DEF Moves, Linked, Unharmed, NoPutAtWork, Idle, JoinsComplete, Chain!SomeJoin
<1>4. ASSUME NEW p \in Procs, UNCHANGED dataVars,
             Moves(p, "sync", "stopping") \/ Moves(p, "sync", "dead")
      PROVE  Linked'
  BY <1>4 DEF Moves, Linked, Unharmed, NoPutAtWork, Idle, JoinsComplete, Chain!SomeJoin
<1>5. ASSUME NEW p \in Procs, UNCHANGED dataVars /\ Creates(p)
      PROVE  Linked'
  BY <1>5 DEF Creates, Linked, Unharmed, NoPutAtWork, Idle, JoinsComplete, Chain!SomeJoin
<1>6. ASSUME NEW p \in Procs, UNCHANGED dataVars /\ Moves(p, "created", "serving")
      PROVE  Linked'
  BY <1>6 DEF Moves, Linked, Unharmed, NoPutAtWork, Idle, JoinsComplete, Chain!SomeJoin
<1>7. CASE UNCHANGED dataVars /\ Rewires
  <2> SUFFICES ASSUME Unharmed', ~NoPutAtWork' PROVE JoinsComplete'
    BY DEF Linked
  <2>1. Unharmed /\ ~NoPutAtWork
    BY <1>7 DEF Rewires, Unharmed, NoPutAtWork, Idle
  <2>2. JoinsComplete /\ failures' = 0
    BY <2>1 DEF Linked, Unharmed
  <2>3. ~Chain!SomeJoin'
    BY <1>7, <2>2 DEF Rewires, JoinsComplete, Chain!SomeJoin
  <2>4. ASSUME NEW q \in chain', number'[q] = last'
        PROVE  chain' = {q} \/ \E p \in Procs : next_server'[p] = q
    <3>1. q \in Procs /\ (chain' = {q} \/ \E p \in Procs : next_server[p] = q)
      BY <1>7, <2>2, <2>4 DEF Rewires, JoinsComplete
    <3> QED
      BY <2>2, <3>1 DEF Kept
  <2> QED
    BY <2>3, <2>4 DEF JoinsComplete
<1>8. ASSUME NEW p \in Procs, UNCHANGED dataVars /\ Leaves(p)
      PROVE  Linked'
  BY <1>8 DEF Leaves, Linked, Unharmed, NoPutAtWork, Idle, JoinsComplete, Chain!SomeJoin
<1>9. ASSUME NEW p \in Procs, Ends(p)
      PROVE  Linked'
  BY <1>9 DEF Ends, Forget, Linked, Unharmed, NoPutAtWork, Idle, JoinsComplete,
     Chain!SomeJoin
<1>10. ASSUME NEW p \in Procs, NEW w \in Puts, ApplyPut(p, w)
      PROVE  Linked'
  BY <1>10, SMTT(60) DEF ApplyPut, Goto, Linked, Unharmed, NoPutAtWork, Idle, JoinsComplete,
     Chain!SomeJoin, TypeOK
<1>11. ASSUME NEW p \in Procs, Proceeds(p)
      PROVE  Linked'
  BY <1>11 DEF Proceeds, LookAtNext, SendLength, BeginRead, ReadLength, CallReturns,
     LostCallEnds, Goto, Working, ClosedUnder, Replaced, Linked, Unharmed, NoPutAtWork, Idle,
     JoinsComplete, Chain!SomeJoin
<1>12. ASSUME NEW p \in Procs, SendMessage(p)
      PROVE  Linked'
  BY <1>12 DEF SendMessage, Goto, Working, ClosedUnder, Replaced, Linked, Unharmed,
     NoPutAtWork, Idle, JoinsComplete, Chain!SomeJoin, TypeOK
<1>13. ASSUME NEW p \in Procs, Answer(p)
      PROVE  Linked'
  BY <1>13 DEF Answer, Goto, Working, Linked, Unharmed, NoPutAtWork, Idle, JoinsComplete,
     Chain!SomeJoin, TypeOK
<1>14. ASSUME NEW p \in Procs, ClientRead(p)
      PROVE  Linked'
  BY <1>14 DEF ClientRead, ReadAt, Linked, Unharmed, NoPutAtWork, Idle, JoinsComplete,
     Chain!SomeJoin
<1>15. ASSUME NEW p \in Procs, NEW w \in Puts, ClientPut(w, p)
      PROVE  Linked'
  BY <1>15 DEF ClientPut, Linked, Unharmed, NoPutAtWork, Idle, JoinsComplete,
     Chain!SomeJoin
<1>16. CASE UNCHANGED vars
  BY <1>16 DEF vars, Linked, Unharmed, NoPutAtWork, Idle, JoinsComplete, Chain!SomeJoin
<1> QED
  <2>1. ASSUME NEW p \in Procs, Membershipwise(p) PROVE Linked'
    BY <2>1, <1>1, <1>2, <1>3, <1>4, <1>5, <1>6, <1>7, <1>8, <1>9 DEF Membershipwise
  <2>2. ASSUME NEW p \in Procs,
               \/ Start(p) \/ JoinStep(p) \/ Watch(p) \/ Stop(p) \/ Crash(p) \/ EndSession(p)
        PROVE  Linked'
    BY <2>1, <2>2, StepsKnown
  <2> QED
    BY <2>2, <1>10, <1>11, <1>12, <1>13, <1>14, <1>15, <1>16 DEF Next, PutStep, Proceeds

(* Without failures the connection a call is made on is not replaced.      *)
LEMMA CallsStep ==
  ASSUME IInv, Membership, Membership', Kept, [Next]_vars
  PROVE  Calls'
<1> USE PutsAssumption, SameAssumptions DEF M!ProcsAssumption, chainVars, dataVars,
        Chain!Joining, Chain!Up, Chain!Ending, Chain!Running, Chain!Gone, Membership,
        Nodes, IInv
<1>1. ASSUME NEW p \in Procs, Start(p) /\ Moves(p, "off", "watch")
      PROVE  Calls'
  BY <1>1 DEF Start, Moves, Calls, Unharmed
<1>2. ASSUME NEW p \in Procs, CopyTable(p) /\ Moves(p, "sync", "create")
      PROVE  Calls'
  BY <1>2 DEF CopyTable, Moves, Calls, Unharmed
<1>3. ASSUME NEW p \in Procs, UNCHANGED dataVars
               /\ Moves(p, "watch", IF chain = {} THEN "create" ELSE "sync")
      PROVE  Calls'
  BY <1>3 DEF Moves, Calls, Unharmed
<1>4. ASSUME NEW p \in Procs, UNCHANGED dataVars,
             Moves(p, "sync", "stopping") \/ Moves(p, "sync", "dead")
      PROVE  Calls'
  BY <1>4 DEF Moves, Calls, Unharmed
<1>5. ASSUME NEW p \in Procs, UNCHANGED dataVars /\ Creates(p)
      PROVE  Calls'
  BY <1>5 DEF Creates, Calls, Unharmed
<1>6. ASSUME NEW p \in Procs, UNCHANGED dataVars /\ Moves(p, "created", "serving")
      PROVE  Calls'
  BY <1>6 DEF Moves, Calls, Unharmed
<1>7. CASE UNCHANGED dataVars /\ Rewires
  <2> SUFFICES ASSUME Unharmed', NEW p \in Procs
               PROVE  /\ stage'[p] \in {"send", "half", "sent", "await", "body"} =>
                           callee'[p] = next_server'[p] /\ next_server'[p] \in Procs
                      /\ stage'[p] # "lost"
    BY DEF Calls
  <2>1. Unharmed /\ failures' = 0
    BY <1>7 DEF Rewires, Unharmed
  <2>2. next_server[p] \in Procs => next_server'[p] = next_server[p]
    BY <2>1 DEF Kept
  <2> QED
    BY <1>7, <2>1, <2>2 DEF Calls
<1>8. ASSUME NEW p \in Procs, UNCHANGED dataVars /\ Leaves(p)
      PROVE  Calls'
  BY <1>8 DEF Leaves, Calls, Unharmed
<1>9. ASSUME NEW p \in Procs, Ends(p)
      PROVE  Calls'
  BY <1>9 DEF Ends, Forget, Calls, Unharmed
<1>10. ASSUME NEW p \in Procs, NEW w \in Puts, ApplyPut(p, w)
      PROVE  Calls'
  BY <1>10 DEF ApplyPut, Goto, Calls, Unharmed
<1>11. ASSUME NEW p \in Procs, LookAtNext(p)
      PROVE  Calls'
  BY <1>11 DEF LookAtNext, Goto, Working, ClosedUnder, Replaced, Calls, Unharmed, Sound,
     TypeOK
<1>12. ASSUME NEW p \in Procs, SendLength(p)
      PROVE  Calls'
  BY <1>12 DEF SendLength, Goto, Working, ClosedUnder, Replaced, Calls, Unharmed, TypeOK
<1>13. ASSUME NEW p \in Procs, BeginRead(p)
      PROVE  Calls'
  BY <1>13 DEF BeginRead, Goto, Working, ClosedUnder, Replaced, Calls, Unharmed, TypeOK
<1>14. ASSUME NEW p \in Procs, ReadLength(p) \/ CallReturns(p)
      PROVE  Calls'
  <2>1. CASE ReadLength(p)
    BY <2>1 DEF ReadLength, Goto, Working, Calls, Unharmed, TypeOK
  <2>2. CASE CallReturns(p)
    BY <2>2 DEF CallReturns, Goto, Working, ClosedUnder, Replaced, Calls, Unharmed, TypeOK
  <2> QED
    BY <1>14, <2>1, <2>2
<1>15. ASSUME NEW p \in Procs, LostCallEnds(p)
      PROVE  Calls'
  BY <1>15 DEF LostCallEnds, Goto, Working, Calls, Unharmed
<1>16. ASSUME NEW p \in Procs, SendMessage(p)
      PROVE  Calls'
  BY <1>16 DEF SendMessage, Goto, Working, ClosedUnder, Replaced, Calls, Unharmed, TypeOK
<1>17. ASSUME NEW p \in Procs, Answer(p)
      PROVE  Calls'
  BY <1>17 DEF Answer, Goto, Working, Calls, Unharmed
<1>18. ASSUME NEW p \in Procs, ClientRead(p)
      PROVE  Calls'
  BY <1>18 DEF ClientRead, ReadAt, Calls, Unharmed
<1>19. ASSUME NEW p \in Procs, NEW w \in Puts, ClientPut(w, p)
      PROVE  Calls'
  BY <1>19 DEF ClientPut, Calls, Unharmed
<1>20. CASE UNCHANGED vars
  BY <1>20 DEF vars, Calls, Unharmed
<1> QED
  <2>1. ASSUME NEW p \in Procs, Membershipwise(p) PROVE Calls'
    BY <2>1, <1>1, <1>2, <1>3, <1>4, <1>5, <1>6, <1>7, <1>8, <1>9 DEF Membershipwise
  <2>2. ASSUME NEW p \in Procs,
               \/ Start(p) \/ JoinStep(p) \/ Watch(p) \/ Stop(p) \/ Crash(p) \/ EndSession(p)
        PROVE  Calls'
    BY <2>1, <2>2, StepsKnown
  <2> QED
    BY <2>2, <1>10, <1>11, <1>12, <1>13, <1>14, <1>15, <1>16, <1>17, <1>18, <1>19, <1>20
       DEF Next, PutStep

(* A call returns when the next server is done with the put, or there is   *)
(* no next server.                                                         *)
LEMMA ForwardedStep ==
  ASSUME IInv, Membership, Membership', Kept, [Next]_vars
  PROVE  Forwarded'
<1> USE PutsAssumption, SameAssumptions DEF M!ProcsAssumption, chainVars, dataVars,
        Chain!Joining, Chain!Up, Chain!Ending, Chain!Running, Chain!Gone, Membership,
        Nodes, IInv
<1>1. ASSUME NEW p \in Procs, Start(p) /\ Moves(p, "off", "watch")
      PROVE  Forwarded'
  <2>1. UNCHANGED <<table, writer, stage, chain, number>> /\ (Unharmed' => Unharmed)
    BY <1>1 DEF Start, Moves, Unharmed
  <2> QED
    BY <2>1 DEF Forwarded, Stored
<1>2. ASSUME NEW p \in Procs, CopyTable(p) /\ Moves(p, "sync", "create")
      PROVE  Forwarded'
  BY <1>2 DEF CopyTable, Moves, Forwarded, Unharmed, Stored
<1>3. ASSUME NEW p \in Procs, UNCHANGED dataVars
               /\ Moves(p, "watch", IF chain = {} THEN "create" ELSE "sync")
      PROVE  Forwarded'
  BY <1>3 DEF Moves, Forwarded, Unharmed, Stored
<1>4. ASSUME NEW p \in Procs, UNCHANGED dataVars,
             Moves(p, "sync", "stopping") \/ Moves(p, "sync", "dead")
      PROVE  Forwarded'
  BY <1>4 DEF Moves, Forwarded, Unharmed, Stored
<1>5. ASSUME NEW p \in Procs, UNCHANGED dataVars /\ Creates(p)
      PROVE  Forwarded'
  <2> SUFFICES ASSUME Unharmed, NEW x \in chain', NEW v \in table[x], ~Stored(v, x)'
               PROVE  FALSE
    BY <1>5 DEF Creates, Forwarded, Unharmed, Stored
  <2>1. /\ number' = [number EXCEPT ![p] = last + 1] /\ chain' = chain \cup {p}
        /\ table' = table /\ p \notin chain /\ main[p] = "create"
    BY <1>5 DEF Creates
  <2>2. NoPutAtWork
    BY <2>1 DEF Quiet, Unharmed, Chain!SomeJoin
  <2>3. PICK q \in chain' : number'[x] <= number'[q] /\ v \notin table[q]
    BY <2>1 DEF Stored
  <2>4. \A r \in chain : number'[r] = number[r] /\ number[r] <= last /\ number[r] \in Nat
    BY <2>1
  <2>5. x # p
    BY <2>1, <2>3, <2>4
  <2>6. x \in chain /\ v \in Puts /\ Stored(v, x)
    BY <2>1, <2>2, <2>5 DEF Forwarded, NoPutAtWork, Idle, TypeOK
  <2>7. q = p
    BY <2>1, <2>3, <2>4, <2>6 DEF Stored
  <2>8. \A r \in Procs : Last(r) => v \in table[r]
    BY <2>6 DEF Last, Stored
  <2>9. \E r \in Procs : Last(r)
    BY <2>6, EndsKnown DEF Last
  <2> QED
    BY <2>1, <2>3, <2>7, <2>8, <2>9 DEF CopiedAll, Unharmed
<1>6. ASSUME NEW p \in Procs, UNCHANGED dataVars /\ Moves(p, "created", "serving")
      PROVE  Forwarded'
  BY <1>6 DEF Moves, Forwarded, Unharmed, Stored
<1>7. CASE UNCHANGED dataVars /\ Rewires
  BY <1>7 DEF Rewires, Forwarded, Unharmed, Stored
<1>8. ASSUME NEW p \in Procs, UNCHANGED dataVars /\ Leaves(p)
      PROVE  Forwarded'
  BY <1>8 DEF Leaves, Forwarded, Unharmed, Stored
<1>9. ASSUME NEW p \in Procs, Ends(p)
      PROVE  Forwarded'
  BY <1>9 DEF Ends, Forget, Forwarded, Unharmed, Stored
<1>10. ASSUME NEW p \in Procs, NEW w \in Puts, ApplyPut(p, w)
      PROVE  Forwarded'
  BY <1>10 DEF ApplyPut, Goto, Forwarded, Unharmed, Stored, TypeOK, Idle
<1>11. ASSUME NEW p \in Procs, LookAtNext(p)
      PROVE  Forwarded'
  <2> SUFFICES ASSUME Unharmed, NEW x \in chain, NEW v \in table[x]
               PROVE  Stored(v, x) \/ (writer[x] = v /\ stage'[x] \notin {"body", "unlock"})
    BY <1>11 DEF LookAtNext, Forwarded, Unharmed, Stored
  <2>1. Stored(v, x) \/ (writer[x] = v /\ stage[x] \notin {"body", "unlock"})
    BY DEF Forwarded
  <2>2. stage \in [Procs -> Stages] /\ x \in Procs
    BY DEF TypeOK
  <2>3. CASE x # p \/ stage'[p] = "send"
    <3>1. stage'[x] = stage[x] \/ stage'[x] = "send"
      BY <1>11, <2>2, <2>3 DEF LookAtNext, Goto
    <3> QED
      BY <2>1, <3>1
  <2>4. CASE x = p /\ stage'[p] # "send"
    <3>1. next_server[p] = Nobody /\ ~Idle(p)
      BY <1>11, <2>2, <2>4 DEF LookAtNext, Goto, Sound, Unharmed, Working, TypeOK
    <3>2. JoinsComplete
      BY <3>1 DEF Linked, NoPutAtWork
    <3>3. ASSUME NEW q \in chain, number[p] < number[q] PROVE FALSE
      <4>1. number[q] = last /\ chain # {q}
        BY <2>4, <3>1, <3>3 DEF Sound, Unharmed
      <4>2. PICK r \in Procs : next_server[r] = q
        BY <3>2, <4>1 DEF JoinsComplete
      <4>3. /\ main[r] = "serving" /\ r \in chain /\ r # p
            /\ number[r] < number[q] /\ ~ (number[r] < number[p])
        BY <2>4, <3>1, <3>3, <4>2 DEF Sound, Unharmed, Adjacent
      <4>4. number[p] < number[r]
        BY <2>4, <4>3
      <4>5. number[r] = last
        BY <2>4, <3>1, <4>3, <4>4 DEF Sound, Unharmed
      <4> QED
        BY <4>1, <4>3, <4>5
    <3>4. ASSUME NEW q \in chain, number[p] <= number[q] PROVE q = p
      <4>1. number[q] = number[p]
        BY <2>4, <3>3, <3>4
      <4> QED
        BY <2>4, <4>1
    <3> QED
      BY <2>4, <3>4 DEF Stored
  <2> QED
    BY <2>3, <2>4
<1>12. ASSUME NEW p \in Procs, SendLength(p)
      PROVE  Forwarded'
  BY <1>12 DEF SendLength, Goto, Working, ClosedUnder, Replaced, Forwarded, Unharmed,
     Stored, Calls, Sound, Gone, TypeOK
<1>13. ASSUME NEW p \in Procs, BeginRead(p)
      PROVE  Forwarded'
  BY <1>13 DEF BeginRead, Goto, Working, ClosedUnder, Replaced, Forwarded, Unharmed,
     Stored, Calls, Sound, Gone, TypeOK
<1>14. ASSUME NEW p \in Procs, ReadLength(p)
      PROVE  Forwarded'
  <2> SUFFICES ASSUME Unharmed, NEW x \in chain, NEW v \in table[x]
               PROVE  Stored(v, x) \/ (writer[x] = v /\ stage'[x] \notin {"body", "unlock"})
    BY <1>14 DEF ReadLength, Forwarded, Unharmed, Stored
  <2>1. Stored(v, x) \/ (writer[x] = v /\ stage[x] \notin {"body", "unlock"})
    BY DEF Forwarded
  <2>2. stage \in [Procs -> Stages] /\ x \in Procs
    BY DEF TypeOK
  <2>3. CASE x # p
    BY <1>14, <2>1, <2>2, <2>3 DEF ReadLength, Goto
  <2>4. CASE x = p /\ writer[p] = v
    <3> DEFINE q == callee[p]
    <3>1. q = next_server[p] /\ q \in Procs
      BY <1>14 DEF ReadLength, Working, Calls
    <3>2. ~Gone(q)
      BY <3>1 DEF Sound, Unharmed, Gone
    <3>3. v \in table[q] /\ writer[q] # v
      BY <1>14, <2>4, <3>2 DEF ReadLength, Answered
    <3>4. main[p] = "serving" /\ number[p] < number[q] /\ q \in chain
      BY <1>14, <3>1 DEF ReadLength, Working, Adjacent, Sound, Unharmed
    <3>5. Stored(v, q)
      BY <3>3, <3>4 DEF Forwarded
    <3>6. ASSUME NEW r \in chain, number[p] <= number[r] PROVE v \in table[r]
      <4>1. ~ (number[p] < number[r] /\ number[r] < number[q])
        BY <3>1, <3>4 DEF Adjacent
      <4>2. r = p \/ number[q] <= number[r]
        <5>1. number[r] \in Nat /\ number[p] \in Nat /\ number[q] \in Nat
          BY <2>4, <3>4
        <5>2. number[r] = number[p] \/ number[q] <= number[r]
          BY <3>6, <4>1, <5>1
        <5> QED
          BY <2>4, <5>2
      <4> QED
        BY <2>4, <3>5, <4>2 DEF Stored
    <3> QED
      BY <2>4, <3>6 DEF Stored
  <2> QED
    BY <2>1, <2>3, <2>4
<1>21. ASSUME NEW p \in Procs, CallReturns(p)
      PROVE  Forwarded'
  BY <1>21 DEF CallReturns, Goto, Working, ClosedUnder, Forwarded, Unharmed, Stored, TypeOK
<1>15. ASSUME NEW p \in Procs, LostCallEnds(p)
      PROVE  Forwarded'
  BY <1>15 DEF LostCallEnds, Goto, Working, Forwarded, Unharmed, Stored, Calls, Sound,
     Gone, TypeOK
<1>16. ASSUME NEW p \in Procs, SendMessage(p)
      PROVE  Forwarded'
  BY <1>16 DEF SendMessage, Goto, Working, ClosedUnder, Replaced, Forwarded, Unharmed,
     Stored, Calls, Sound, Gone, TypeOK
<1>17. ASSUME NEW p \in Procs, Answer(p)
      PROVE  Forwarded'
  BY <1>17 DEF Answer, Goto, Working, Forwarded, Unharmed, Stored, Calls, Sound, Gone,
     TypeOK
<1>18. ASSUME NEW p \in Procs, ClientRead(p)
      PROVE  Forwarded'
  BY <1>18 DEF ClientRead, ReadAt, Forwarded, Unharmed, Stored
<1>19. ASSUME NEW p \in Procs, NEW w \in Puts, ClientPut(w, p)
      PROVE  Forwarded'
  <2>1. UNCHANGED <<table, writer, stage, chain, number>> /\ (Unharmed' => Unharmed)
    BY <1>19 DEF ClientPut, Unharmed
  <2> QED
    BY <2>1 DEF Forwarded, Stored
<1>20. CASE UNCHANGED vars
  BY <1>20 DEF vars, Forwarded, Unharmed, Stored
<1> QED
  <2>1. ASSUME NEW p \in Procs, Membershipwise(p) PROVE Forwarded'
    BY <2>1, <1>1, <1>2, <1>3, <1>4, <1>5, <1>6, <1>7, <1>8, <1>9 DEF Membershipwise
  <2>2. ASSUME NEW p \in Procs,
               \/ Start(p) \/ JoinStep(p) \/ Watch(p) \/ Stop(p) \/ Crash(p) \/ EndSession(p)
        PROVE  Forwarded'
    BY <2>1, <2>2, StepsKnown
  <2> QED
    BY <2>2, <1>10, <1>11, <1>12, <1>13, <1>14, <1>15, <1>16, <1>17, <1>18, <1>19, <1>20,
       <1>21 DEF Next, PutStep

(* Puts go to the first server; without failures it stays the first.       *)
LEMMA EnteredStep ==
  ASSUME IInv, Membership, Membership', Kept, [Next]_vars
  PROVE  Entered'
<1> USE PutsAssumption, SameAssumptions DEF M!ProcsAssumption, chainVars, dataVars,
        Chain!Joining, Chain!Up, Chain!Ending, Chain!Running, Chain!Gone, Membership,
        Nodes, IInv
<1>1. ASSUME NEW p \in Procs, Start(p) /\ Moves(p, "off", "watch")
      PROVE  Entered'
  BY <1>1 DEF Start, Moves, Entered, Unharmed
<1>2. ASSUME NEW p \in Procs, CopyTable(p) /\ Moves(p, "sync", "create")
      PROVE  Entered'
  BY <1>2 DEF CopyTable, Moves, Entered, Unharmed
<1>3. ASSUME NEW p \in Procs, UNCHANGED dataVars
               /\ Moves(p, "watch", IF chain = {} THEN "create" ELSE "sync")
      PROVE  Entered'
  BY <1>3 DEF Moves, Entered, Unharmed
<1>4. ASSUME NEW p \in Procs, UNCHANGED dataVars,
             Moves(p, "sync", "stopping") \/ Moves(p, "sync", "dead")
      PROVE  Entered'
  BY <1>4 DEF Moves, Entered, Unharmed
<1>5. ASSUME NEW p \in Procs, UNCHANGED dataVars /\ Creates(p)
      PROVE  Entered'
  BY <1>5 DEF Creates, Entered, Unharmed, TypeOK
<1>6. ASSUME NEW p \in Procs, UNCHANGED dataVars /\ Moves(p, "created", "serving")
      PROVE  Entered'
  BY <1>6 DEF Moves, Entered, Unharmed
<1>7. CASE UNCHANGED dataVars /\ Rewires
  BY <1>7 DEF Rewires, Entered, Unharmed
<1>8. ASSUME NEW p \in Procs, UNCHANGED dataVars /\ Leaves(p)
      PROVE  Entered'
  BY <1>8 DEF Leaves, Entered, Unharmed
<1>9. ASSUME NEW p \in Procs, Ends(p)
      PROVE  Entered'
  BY <1>9 DEF Ends, Forget, Entered, Unharmed
<1>10. ASSUME NEW p \in Procs, NEW w \in Puts, ApplyPut(p, w)
      PROVE  Entered'
  BY <1>10 DEF ApplyPut, Goto, Entered, Unharmed
<1>11. ASSUME NEW p \in Procs, Proceeds(p)
      PROVE  Entered'
  BY <1>11 DEF Proceeds, LookAtNext, SendLength, BeginRead, ReadLength, CallReturns,
     LostCallEnds, Goto, Working, ClosedUnder, Replaced, Entered, Unharmed
<1>12. ASSUME NEW p \in Procs, SendMessage(p)
      PROVE  Entered'
  BY <1>12 DEF SendMessage, Goto, Working, ClosedUnder, Replaced, Entered, Unharmed
<1>13. ASSUME NEW p \in Procs, Answer(p)
      PROVE  Entered'
  BY <1>13 DEF Answer, Goto, Working, Entered, Unharmed
<1>14. ASSUME NEW p \in Procs, ClientRead(p)
      PROVE  Entered'
  BY <1>14 DEF ClientRead, ReadAt, Entered, Unharmed
<1>15. ASSUME NEW p \in Procs, NEW w \in Puts, ClientPut(w, p)
      PROVE  Entered'
  BY <1>15, EndsKnown DEF ClientPut, Entered, Unharmed, TypeOK
<1>16. CASE UNCHANGED vars
  BY <1>16 DEF vars, Entered, Unharmed
<1> QED
  <2>1. ASSUME NEW p \in Procs, Membershipwise(p) PROVE Entered'
    BY <2>1, <1>1, <1>2, <1>3, <1>4, <1>5, <1>6, <1>7, <1>8, <1>9 DEF Membershipwise
  <2>2. ASSUME NEW p \in Procs,
               \/ Start(p) \/ JoinStep(p) \/ Watch(p) \/ Stop(p) \/ Crash(p) \/ EndSession(p)
        PROVE  Entered'
    BY <2>1, <2>2, StepsKnown
  <2> QED
    BY <2>2, <1>10, <1>11, <1>12, <1>13, <1>14, <1>15, <1>16 DEF Next, PutStep, Proceeds

(* The table that is copied holds all that was acknowledged; until the     *)
(* node is created nothing is.  What is read meanwhile was stored before.  *)
LEMMA CopiedAckedStep ==
  ASSUME IInv, Membership, Membership', Kept, [Next]_vars
  PROVE  CopiedAcked'
<1> USE PutsAssumption, SameAssumptions DEF M!ProcsAssumption, chainVars, dataVars,
        Chain!Joining, Chain!Up, Chain!Ending, Chain!Running, Chain!Gone, Membership,
        Nodes, IInv
<1>1. ASSUME NEW p \in Procs, Start(p) /\ Moves(p, "off", "watch")
      PROVE  CopiedAcked'
  BY <1>1 DEF Start, Moves, CopiedAcked, Unharmed
<1>2. ASSUME NEW p \in Procs, CopyTable(p) /\ Moves(p, "sync", "create")
      PROVE  CopiedAcked'
  BY <1>2 DEF CopyTable, Moves, CopiedAcked, Unharmed, AckedOnAll, StaleReadsSurvive,
     Joiner, Last, TypeOK
<1>3. ASSUME NEW p \in Procs, UNCHANGED dataVars
               /\ Moves(p, "watch", IF chain = {} THEN "create" ELSE "sync")
      PROVE  CopiedAcked'
  BY <1>3 DEF Moves, CopiedAcked, Unharmed, Entered, SeenStored, TypeOK
<1>4. ASSUME NEW p \in Procs, UNCHANGED dataVars,
             Moves(p, "sync", "stopping") \/ Moves(p, "sync", "dead")
      PROVE  CopiedAcked'
  BY <1>4 DEF Moves, CopiedAcked, Unharmed
<1>5. ASSUME NEW p \in Procs, UNCHANGED dataVars /\ Creates(p)
      PROVE  CopiedAcked'
  BY <1>5 DEF Creates, CopiedAcked, Unharmed, TypeOK
<1>6. ASSUME NEW p \in Procs, UNCHANGED dataVars /\ Moves(p, "created", "serving")
      PROVE  CopiedAcked'
  BY <1>6 DEF Moves, CopiedAcked, Unharmed
<1>7. CASE UNCHANGED dataVars /\ Rewires
  BY <1>7 DEF Rewires, CopiedAcked, Unharmed
<1>8. ASSUME NEW p \in Procs, UNCHANGED dataVars /\ Leaves(p)
      PROVE  CopiedAcked'
  BY <1>8 DEF Leaves, CopiedAcked, Unharmed
<1>9. ASSUME NEW p \in Procs, Ends(p)
      PROVE  CopiedAcked'
  BY <1>9 DEF Ends, Forget, CopiedAcked, Unharmed, TypeOK
<1>10. ASSUME NEW p \in Procs, NEW w \in Puts, ApplyPut(p, w)
      PROVE  CopiedAcked'
  BY <1>10 DEF ApplyPut, Goto, CopiedAcked, Unharmed, TypeOK
<1>11. ASSUME NEW p \in Procs, Proceeds(p)
      PROVE  CopiedAcked'
  BY <1>11 DEF Proceeds, LookAtNext, SendLength, BeginRead, ReadLength, CallReturns,
     LostCallEnds, Goto, Working, ClosedUnder, Replaced, CopiedAcked, Unharmed
<1>12. ASSUME NEW p \in Procs, SendMessage(p)
      PROVE  CopiedAcked'
  BY <1>12 DEF SendMessage, Goto, Working, ClosedUnder, Replaced, CopiedAcked, Unharmed
<1>13. ASSUME NEW p \in Procs, Answer(p)
      PROVE  CopiedAcked'
  BY <1>13 DEF Answer, Goto, Working, CopiedAcked, Unharmed, TypeOK, Quiet, NoPutAtWork,
     Idle, Chain!SomeJoin
<1>14. ASSUME NEW p \in Procs, ClientRead(p)
      PROVE  CopiedAcked'
  <2> SUFFICES ASSUME Unharmed, ~IsTail(p), NEW r \in Procs, main[r] = "create",
                      NEW w \in table[p]
               PROVE  w \in table[r]
    BY <1>14 DEF ClientRead, ReadAt, CopiedAcked, Unharmed
  <2>1. p \in chain /\ w \in Puts /\ writer[p] = Nobody
    BY <1>14 DEF ClientRead, Idle, TypeOK
  <2>2. Stored(w, p)
    BY <2>1 DEF Forwarded
  <2>3. PICK q \in chain : Last(q)
    BY <2>1, EndsKnown
  <2>4. w \in table[q]
    BY <2>1, <2>2, <2>3 DEF Stored, Last
  <2> QED
    BY <2>3, <2>4 DEF CopiedAll, Unharmed
<1>15. ASSUME NEW p \in Procs, NEW w \in Puts, ClientPut(w, p)
      PROVE  CopiedAcked'
  BY <1>15 DEF ClientPut, CopiedAcked, Unharmed
<1>16. CASE UNCHANGED vars
  BY <1>16 DEF vars, CopiedAcked, Unharmed
<1> QED
  <2>1. ASSUME NEW p \in Procs, Membershipwise(p) PROVE CopiedAcked'
    BY <2>1, <1>1, <1>2, <1>3, <1>4, <1>5, <1>6, <1>7, <1>8, <1>9 DEF Membershipwise
  <2>2. ASSUME NEW p \in Procs,
               \/ Start(p) \/ JoinStep(p) \/ Watch(p) \/ Stop(p) \/ Crash(p) \/ EndSession(p)
        PROVE  CopiedAcked'
    BY <2>1, <2>2, StepsKnown
  <2> QED
    BY <2>2, <1>10, <1>11, <1>12, <1>13, <1>14, <1>15, <1>16 DEF Next, PutStep, Proceeds

(* The first server answers when the put is in every table from it on.     *)
LEMMA AckedOnAllStep ==
  ASSUME IInv, Membership, Membership', Kept, [Next]_vars
  PROVE  AckedOnAll'
<1> USE PutsAssumption, SameAssumptions DEF M!ProcsAssumption, chainVars, dataVars,
        Chain!Joining, Chain!Up, Chain!Ending, Chain!Running, Chain!Gone, Membership,
        Nodes, IInv
<1>1. ASSUME NEW p \in Procs, Start(p) /\ Moves(p, "off", "watch")
      PROVE  AckedOnAll'
  BY <1>1 DEF Start, Moves, AckedOnAll
<1>2. ASSUME NEW p \in Procs, CopyTable(p) /\ Moves(p, "sync", "create")
      PROVE  AckedOnAll'
  BY <1>2 DEF CopyTable, Moves, AckedOnAll, TypeOK
<1>3. ASSUME NEW p \in Procs, UNCHANGED dataVars
               /\ Moves(p, "watch", IF chain = {} THEN "create" ELSE "sync")
      PROVE  AckedOnAll'
  BY <1>3 DEF Moves, AckedOnAll
<1>4. ASSUME NEW p \in Procs, UNCHANGED dataVars,
             Moves(p, "sync", "stopping") \/ Moves(p, "sync", "dead")
      PROVE  AckedOnAll'
  BY <1>4 DEF Moves, AckedOnAll
<1>5. ASSUME NEW p \in Procs, UNCHANGED dataVars /\ Creates(p)
      PROVE  AckedOnAll'
  BY <1>5 DEF Creates, AckedOnAll, CopiedAcked, Unharmed, TypeOK
<1>6. ASSUME NEW p \in Procs, UNCHANGED dataVars /\ Moves(p, "created", "serving")
      PROVE  AckedOnAll'
  BY <1>6 DEF Moves, AckedOnAll
<1>7. CASE UNCHANGED dataVars /\ Rewires
  BY <1>7 DEF Rewires, AckedOnAll
<1>8. ASSUME NEW p \in Procs, UNCHANGED dataVars /\ Leaves(p)
      PROVE  AckedOnAll'
  BY <1>8 DEF Leaves, AckedOnAll
<1>9. ASSUME NEW p \in Procs, Ends(p)
      PROVE  AckedOnAll'
  BY <1>9 DEF Ends, Forget, AckedOnAll, TypeOK
<1>10. ASSUME NEW p \in Procs, NEW w \in Puts, ApplyPut(p, w)
      PROVE  AckedOnAll'
  BY <1>10 DEF ApplyPut, Goto, AckedOnAll, TypeOK
<1>11. ASSUME NEW p \in Procs, Proceeds(p)
      PROVE  AckedOnAll'
  BY <1>11 DEF Proceeds, LookAtNext, SendLength, BeginRead, ReadLength, CallReturns,
     LostCallEnds, Goto, Working, ClosedUnder, Replaced, AckedOnAll
<1>12. ASSUME NEW p \in Procs, SendMessage(p)
      PROVE  AckedOnAll'
  BY <1>12 DEF SendMessage, Goto, Working, ClosedUnder, Replaced, AckedOnAll
<1>13. ASSUME NEW p \in Procs, Answer(p)
      PROVE  AckedOnAll'
  BY <1>13 DEF Answer, Goto, Working, AckedOnAll, Forwarded, Entered, Unharmed, TypeOK,
     Stored
<1>14. ASSUME NEW p \in Procs, ClientRead(p)
      PROVE  AckedOnAll'
  BY <1>14 DEF ClientRead, ReadAt, AckedOnAll
<1>15. ASSUME NEW p \in Procs, NEW w \in Puts, ClientPut(w, p)
      PROVE  AckedOnAll'
  BY <1>15 DEF ClientPut, AckedOnAll
<1>16. CASE UNCHANGED vars
  BY <1>16 DEF vars, AckedOnAll
<1> QED
  <2>1. ASSUME NEW p \in Procs, Membershipwise(p) PROVE AckedOnAll'
    BY <2>1, <1>1, <1>2, <1>3, <1>4, <1>5, <1>6, <1>7, <1>8, <1>9 DEF Membershipwise
  <2>2. ASSUME NEW p \in Procs,
               \/ Start(p) \/ JoinStep(p) \/ Watch(p) \/ Stop(p) \/ Crash(p) \/ EndSession(p)
        PROVE  AckedOnAll'
    BY <2>1, <2>2, StepsKnown
  <2> QED
    BY <2>2, <1>10, <1>11, <1>12, <1>13, <1>14, <1>15, <1>16 DEF Next, PutStep, Proceeds

(* What a server that forwards no put holds is in every table from it on,  *)
(* and in those before it.                                                 *)
LEMMA StaleReadsSurviveStep ==
  ASSUME IInv, Membership, Membership', Kept, [Next]_vars
  PROVE  StaleReadsSurvive'
<1> USE PutsAssumption, SameAssumptions DEF M!ProcsAssumption, chainVars, dataVars,
        Chain!Joining, Chain!Up, Chain!Ending, Chain!Running, Chain!Gone, Membership,
        Nodes, IInv
<1>1. ASSUME NEW p \in Procs, Start(p) /\ Moves(p, "off", "watch")
      PROVE  StaleReadsSurvive'
  BY <1>1 DEF Start, Moves, StaleReadsSurvive
<1>2. ASSUME NEW p \in Procs, CopyTable(p) /\ Moves(p, "sync", "create")
      PROVE  StaleReadsSurvive'
  BY <1>2 DEF CopyTable, Moves, StaleReadsSurvive, TypeOK
<1>3. ASSUME NEW p \in Procs, UNCHANGED dataVars
               /\ Moves(p, "watch", IF chain = {} THEN "create" ELSE "sync")
      PROVE  StaleReadsSurvive'
  BY <1>3 DEF Moves, StaleReadsSurvive
<1>4. ASSUME NEW p \in Procs, UNCHANGED dataVars,
             Moves(p, "sync", "stopping") \/ Moves(p, "sync", "dead")
      PROVE  StaleReadsSurvive'
  BY <1>4 DEF Moves, StaleReadsSurvive
<1>5. ASSUME NEW p \in Procs, UNCHANGED dataVars /\ Creates(p)
      PROVE  StaleReadsSurvive'
  BY <1>5 DEF Creates, StaleReadsSurvive, CopiedAcked, Unharmed, TypeOK
<1>6. ASSUME NEW p \in Procs, UNCHANGED dataVars /\ Moves(p, "created", "serving")
      PROVE  StaleReadsSurvive'
  BY <1>6 DEF Moves, StaleReadsSurvive
<1>7. CASE UNCHANGED dataVars /\ Rewires
  BY <1>7 DEF Rewires, StaleReadsSurvive
<1>8. ASSUME NEW p \in Procs, UNCHANGED dataVars /\ Leaves(p)
      PROVE  StaleReadsSurvive'
  BY <1>8 DEF Leaves, StaleReadsSurvive
<1>9. ASSUME NEW p \in Procs, Ends(p)
      PROVE  StaleReadsSurvive'
  BY <1>9 DEF Ends, Forget, StaleReadsSurvive, TypeOK
<1>10. ASSUME NEW p \in Procs, NEW w \in Puts, ApplyPut(p, w)
      PROVE  StaleReadsSurvive'
  BY <1>10 DEF ApplyPut, Goto, StaleReadsSurvive, TypeOK
<1>11. ASSUME NEW p \in Procs, Proceeds(p)
      PROVE  StaleReadsSurvive'
  BY <1>11 DEF Proceeds, LookAtNext, SendLength, BeginRead, ReadLength, CallReturns,
     LostCallEnds, Goto, Working, ClosedUnder, Replaced, StaleReadsSurvive
<1>12. ASSUME NEW p \in Procs, SendMessage(p)
      PROVE  StaleReadsSurvive'
  BY <1>12 DEF SendMessage, Goto, Working, ClosedUnder, Replaced, StaleReadsSurvive
<1>13. ASSUME NEW p \in Procs, Answer(p)
      PROVE  StaleReadsSurvive'
  BY <1>13 DEF Answer, Goto, Working, StaleReadsSurvive
<1>14. ASSUME NEW p \in Procs, ClientRead(p)
      PROVE  StaleReadsSurvive'
  <2> SUFFICES ASSUME Unharmed, NEW q \in chain, NEW w \in table[p]
               PROVE  w \in table[q]
    BY <1>14 DEF ClientRead, ReadAt, StaleReadsSurvive, Unharmed
  <2>1. p \in chain /\ w \in Puts /\ writer[p] = Nobody /\ main[p] = "serving"
    BY <1>14 DEF ClientRead, Idle, TypeOK
  <2>2. Stored(w, p)
    BY <2>1 DEF Forwarded
  <2>3. CASE number[p] <= number[q]
    BY <2>2, <2>3 DEF Stored
  <2>4. CASE number[q] < number[p]
    <3>1. main[q] \in {"created", "serving"}
      BY DEF Sound, Unharmed
    <3>2. Before(q, p)
      BY <2>1, <2>4, <3>1 DEF Before, Up
    <3> QED
      BY <3>2 DEF UpstreamHoldsMore
  <2>5. number[p] \in Nat /\ number[q] \in Nat
    BY <2>1
  <2> QED
    BY <2>3, <2>4, <2>5
<1>15. ASSUME NEW p \in Procs, NEW w \in Puts, ClientPut(w, p)
      PROVE  StaleReadsSurvive'
  BY <1>15 DEF ClientPut, StaleReadsSurvive
<1>16. CASE UNCHANGED vars
  BY <1>16 DEF vars, StaleReadsSurvive
<1> QED
  <2>1. ASSUME NEW p \in Procs, Membershipwise(p) PROVE StaleReadsSurvive'
    BY <2>1, <1>1, <1>2, <1>3, <1>4, <1>5, <1>6, <1>7, <1>8, <1>9 DEF Membershipwise
  <2>2. ASSUME NEW p \in Procs,
               \/ Start(p) \/ JoinStep(p) \/ Watch(p) \/ Stop(p) \/ Crash(p) \/ EndSession(p)
        PROVE  StaleReadsSurvive'
    BY <2>1, <2>2, StepsKnown
  <2> QED
    BY <2>2, <1>10, <1>11, <1>12, <1>13, <1>14, <1>15, <1>16 DEF Next, PutStep, Proceeds

-----------------------------------------------------------------------------
(***************************************************************************)
(* The theorems.                                                           *)
(***************************************************************************)

(* The invariant holds when all processes are off and no put was sent.     *)
LEMMA InitInvariant == Init => IInv
<1> SUFFICES ASSUME Init PROVE IInv
  OBVIOUS
<1> USE PutsAssumption DEF Init, Chain!Init
<1>1. TypeOK
  BY SameAssumptions DEF TypeOK, Idle, Stages, M!ProcsAssumption
<1>2. Waiting /\ UpstreamHoldsMore /\ Copied /\ SeenStored
  BY DEF Waiting, UpstreamHoldsMore, Before, Copied, SeenStored
<1>3. Quiet /\ CopiedAll /\ ReadsSurvive
  BY DEF Quiet, NoPutAtWork, Idle, CopiedAll, ReadsSurvive
<1>4. /\ Linked /\ Calls /\ Forwarded /\ Entered
      /\ CopiedAcked /\ AckedOnAll /\ StaleReadsSurvive
  BY DEF Linked, NoPutAtWork, Idle, Calls, Forwarded, Entered, CopiedAcked, AckedOnAll,
     StaleReadsSurvive
<1> QED
  BY <1>1, <1>2, <1>3, <1>4 DEF IInv

(* Every step keeps it, of the membership or of a put.                     *)
LEMMA StepInvariant ==
  ASSUME IInv, Membership, Membership', Kept, [Next]_vars
  PROVE  IInv'
<1>1. TypeOK' /\ Waiting' /\ UpstreamHoldsMore' /\ Copied' /\ SeenStored'
  BY TypeOKStep, WaitingStep, UpstreamHoldsMoreStep, CopiedStep, SeenStoredStep
<1>2. Quiet' /\ CopiedAll' /\ ReadsSurvive'
  BY QuietStep, CopiedAllStep, ReadsSurviveStep
<1>3. /\ Linked' /\ Calls' /\ Forwarded' /\ Entered'
      /\ CopiedAcked' /\ AckedOnAll' /\ StaleReadsSurvive'
  BY LinkedStep, CallsStep, ForwardedStep, EnteredStep, CopiedAckedStep, AckedOnAllStep,
     StaleReadsSurviveStep
<1> QED
  BY <1>1, <1>2, <1>3 DEF IInv

(* The inductive invariant holds in every state of the service.            *)
THEOREM InvariantHolds == Spec => []IInv
<1>1. IInv /\ Membership /\ Membership' /\ [Kept]_vars /\ [Next]_vars => IInv'
  <2>1. UNCHANGED vars /\ Membership => Kept
    BY DEF vars, chainVars, Kept
  <2> QED
    BY <2>1, StepInvariant
<1> QED
  BY InitInvariant, MembershipHolds, <1>1, PTL DEF Spec

(* The lock of invoke() is held exactly while a put is at work, by a put   *)
(* the own table has.                                                      *)
THEOREM TypeCorrect == Spec => []TypeOK
<1>1. IInv => TypeOK
  BY DEF IInv
<1> QED
  BY <1>1, InvariantHolds, PTL

(* A server holds every put that a server after it holds, whatever joins   *)
(* and fails while puts are forwarded.                                     *)
THEOREM UpstreamHoldsMoreCorrect == Spec => []UpstreamHoldsMore
<1>1. IInv => UpstreamHoldsMore
  BY DEF IInv
<1> QED
  BY <1>1, InvariantHolds, PTL

(* What a client has read at a server that was the last one then stays in  *)
(* all tables, whatever fails, as long as puts overlap no joins.           *)
THEOREM ReadsSurviveCorrect == Spec => []ReadsSurvive
<1>1. IInv => ReadsSurvive
  BY DEF IInv
<1> QED
  BY <1>1, InvariantHolds, PTL

(* What a client reads at a server that is not the last one any more is on *)
(* every server, without failures and as long as puts overlap no joins.    *)
THEOREM StaleReadsSurviveCorrect == Spec => []StaleReadsSurvive
<1>1. IInv => StaleReadsSurvive
  BY DEF IInv
<1> QED
  BY <1>1, InvariantHolds, PTL

(* Without failures, and as long as puts overlap no joins, an acknowledged *)
(* put is on every server.                                                 *)
THEOREM AckedOnAllCorrect == Spec => []AckedOnAll
<1>1. IInv => AckedOnAll
  BY DEF IInv
<1> QED
  BY <1>1, InvariantHolds, PTL
==============================================================================
