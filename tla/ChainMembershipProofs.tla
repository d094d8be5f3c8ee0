------------------------ MODULE ChainMembershipProofs ------------------------
(***************************************************************************)
(* The invariants of ChainMembership, for any finite set of processes and  *)
(* any number of failures, session events and overlapping joins.  The      *)
(* inductive invariant has a part that holds always, about the numbers of  *)
(* the nodes and what one process knows, and a part that holds as long as  *)
(* no join has overlapped anything; one lemma per conjunct shows that no   *)
(* step breaks it.                                                         *)
(***************************************************************************)
EXTENDS ChainMembership, FiniteSetTheorems, TLAPS, WellFoundedInduction

(* The least element of a set of naturals is one of it.                    *)
LEMMA MinFacts ==
  ASSUME NEW S \in SUBSET Nat, S # {}
  PROVE  Min(S) \in S /\ \A n \in S : Min(S) <= n
<1> DEFINE R == {ss \in Nat \X Nat : ss[1] < ss[2]}
<1>0. IsWellFoundedOn(R, Nat)
  BY NatLessThanWellFounded, Zenon DEF OpToRel
<1>1. \E m \in S : \A n \in S : ~ (<<n, m>> \in R)
  <2> HIDE DEF R
  <2> QED BY <1>0, WFMin
<1>2. \A m, n \in Nat : <<m, n>> \in R <=> m < n
  OBVIOUS
<1>3. \E m \in S : \A n \in S : m <= n
  <2>1. PICK m \in S : \A n \in S : ~ (<<n, m>> \in R)
    BY <1>1
  <2>2. ASSUME NEW n \in S PROVE m <= n
    <3>1. m \in Nat /\ n \in Nat
      OBVIOUS
    <3>2. ~ (n < m)
      <4> HIDE DEF R
      <4> QED BY <1>2, <2>1, <3>1
    <3> QED
      BY <3>1, <3>2
  <2> QED
    BY <2>2
<1> QED
  BY <1>3 DEF Min

(* The greatest element of a bounded set of naturals is one of it.         *)
LEMMA MaxFacts ==
  ASSUME NEW b \in Nat, NEW S \in SUBSET (0 .. b), S # {}
  PROVE  Max(S) \in S /\ \A n \in S : n <= Max(S)
<1> DEFINE T == {b - n : n \in S}
<1>1. T \in SUBSET Nat /\ T # {}
  <2>1. ASSUME NEW n \in S PROVE b - n \in Nat
    OBVIOUS
  <2>2. T \subseteq Nat
    BY <2>1
  <2> QED
    BY <2>2
<1>2. Min(T) \in T /\ \A n \in T : Min(T) <= n
  BY <1>1, MinFacts
<1>3. \E m \in S : \A n \in S : m >= n
  <2>1. PICK m \in S : Min(T) = b - m
    BY <1>2
  <2>2. ASSUME NEW n \in S PROVE m >= n
    <3>1. b - m <= b - n
      BY <1>2, <2>1
    <3> QED
      BY <3>1
  <2> QED
    BY <2>2
<1> QED
  BY <1>3 DEF Max

-----------------------------------------------------------------------------
(***************************************************************************)
(* The inductive invariant: what holds however joins overlap.              *)
(***************************************************************************)

Numbered == {p \in Procs : number[p] # 0}

(* Every number up to last was given to one process, and a process whose   *)
(* node is missing although it has a number has ended.                     *)
Numbers ==
  /\ IsFiniteSet(Numbered) /\ Cardinality(Numbered) = last
  /\ \A n \in 1 .. last : \E p \in Procs : number[p] = n
  /\ \A p, q \in Numbered : number[p] = number[q] => p = q
  /\ chain \subseteq Numbered
  /\ \A p \in Numbered \ chain : main[p] \in {"closed", "dead"}

(* How far a process is in its main thread, and what it has by then.       *)
Stage(p) ==
  /\ main[p] \in {"off", "watch", "sync", "create", "halting"} => p \notin Numbered
  /\ main[p] \in {"created", "serving"} => p \in Numbered
  /\ main[p] \in {"off"} \cup Joining => my_node[p] = 0
  /\ main[p] = "serving" => my_node[p] = number[p]
  /\ main[p] = "sync" => tail_id[p] # 0
  /\ main[p] \in {"off", "watch"} =>
       /\ ~armed[p] /\ ~event[p] /\ just_created[p]
       /\ cb[p] = "idle" /\ next_id[p] = 0 /\ next_server[p] = Nobody
  /\ p \in aborted \/ cb[p] = "exit" => main[p] \in Gone

(* The watch is set or its event is to come; what chain_watcher keeps of   *)
(* the next server fits together.                                          *)
Link(p) ==
  /\ ~(armed[p] /\ event[p])
  /\ main[p] \in {"sync", "create", "created", "serving"} => armed[p] \/ event[p]
  /\ cb[p] \in {"idle", "scan"} /\ next_server[p] # Nobody =>
       /\ next_server[p] \in Numbered
       /\ number[next_server[p]] = next_id[p]
  /\ cb[p] = "connect" => next_id[p] # 0

Always == Numbers /\ \A p \in Procs : Stage(p) /\ Link(p)

-----------------------------------------------------------------------------
(***************************************************************************)
(* What holds in addition as long as no join has overlapped anything.      *)
(***************************************************************************)

(* The node of every process but the one that joins is that of a server in *)
(* its main loop; and until the new node is there nothing moves.           *)
Alone(p) ==
  main[p] \in Joining => \A q \in Procs \ {p} :
    /\ main[q] \in {"off", "serving", "closed", "dead"}
    /\ q \in chain => main[q] = "serving"
    /\ main[q] = "serving" =>
         /\ main[p] # "created" => ~event[q] /\ cb[q] = "idle"
         /\ cb[q] # "idle" => armed[q]

(* A process that joins has had no event but that of its own creation.     *)
Joins(p) == main[p] \in Joining =>
  /\ cb[p] = "idle" /\ next_id[p] = 0 /\ next_server[p] = Nobody
  /\ main[p] # "created" => just_created[p] /\ ~event[p]
  /\ main[p] = "created" => After(p) = {} /\ (just_created[p] <=> event[p])
  /\ main[p] = "sync" => NodeExists(tail_id[p])

(* A server that has not had its first event is the last of the chain.     *)
Newest(p) == main[p] = "serving" /\ just_created[p] =>
  /\ event[p] /\ After(p) = {}
  /\ cb[p] = "idle" /\ next_id[p] = 0 /\ next_server[p] = Nobody

(* While its watch is set, a server knows the chain as it is.              *)
Current(p) == main[p] = "serving" /\ ~just_created[p] /\ armed[p] =>
  /\ cb[p] = "idle" => ConnectedToSuccessor(p)
  /\ cb[p] = "scan" => children[p] = Children
  /\ cb[p] = "connect" =>
       /\ \E q \in After(p) : number[q] = next_id[p]
       /\ \A q \in After(p) : next_id[p] <= number[q]

(* Where the number a process compares with is that of its node.           *)
Named(p) ==
  /\ main[p] # "halting"
  /\ p \in Numbered /\ main[p] # "created" => my_node[p] = number[p]
  /\ next_id[p] # 0 => next_id[p] > my_node[p]

WhenCalm ==
  \A p \in Procs : Alone(p) /\ Joins(p) /\ Newest(p) /\ Current(p) /\ Named(p)

IInv ==
  /\ TypeOK /\ Always /\ (calm => WhenCalm)
  /\ OnlyFailuresStopServers /\ FailureSpreadsUpstream

(* Every number up to last has an owner, and nobody else has it.           *)
LEMMA OwnerFacts ==
  ASSUME TypeOK, Numbers, NEW n \in 1 .. last
  PROVE  /\ Owner(n) \in Numbered /\ number[Owner(n)] = n
         /\ \A p \in Procs : number[p] = n => p = Owner(n)
<1>1. PICK p \in Procs : number[p] = n
  BY DEF Numbers
<1>2. Owner(n) \in Procs /\ number[Owner(n)] = n
  BY <1>1 DEF Owner
<1>3. n # 0 /\ \A q \in Procs : number[q] = n => q \in Numbered
  BY DEF TypeOK, Numbered
<1> QED
  BY <1>2, <1>3 DEF Numbers

(* The children of /chain bear numbers given out.                          *)
LEMMA ChildrenFacts ==
  ASSUME TypeOK, Numbers
  PROVE  /\ Children \in SUBSET (1 .. last)
         /\ chain # {} => Max(Children) \in Children
<1>1. last \in Nat
  BY DEF TypeOK
<1>2. ASSUME NEW q \in chain PROVE number[q] \in 1 .. last
  BY <1>1, <1>2 DEF TypeOK, Numbers, Numbered
<1>3. Children \in SUBSET (1 .. last)
  BY <1>2 DEF Children
<1>4. ASSUME chain # {} PROVE Max(Children) \in Children
  <2>1. Children # {} /\ Children \in SUBSET (0 .. last)
    BY <1>1, <1>3, <1>4 DEF Children
  <2> QED
    BY <1>1, <2>1, MaxFacts
<1> QED
  BY <1>3, <1>4

(* What chain_watcher finds when it looks for the node after its own.      *)
LEMMA LaterFacts ==
  ASSUME TypeOK, NEW p \in Procs, Later(p) # {}
  PROVE  /\ Min(Later(p)) \in 1 .. last /\ Min(Later(p)) \in Later(p)
         /\ Min(Later(p)) > my_node[p]
         /\ \A n \in Later(p) : Min(Later(p)) <= n
<1>1. Later(p) \in SUBSET (1 .. last) /\ Later(p) \in SUBSET Nat
  BY DEF TypeOK, Later
<1>2. Min(Later(p)) \in Later(p) /\ \A n \in Later(p) : Min(Later(p)) <= n
  BY <1>1, MinFacts
<1>3. \A n \in Later(p) : n > my_node[p]
  BY DEF Later
<1> QED
  BY <1>1, <1>2, <1>3

(* A process that gets its number is one more of those that have one.      *)
LEMMA OneMore ==
  ASSUME TypeOK, Numbers, NEW p \in Procs, p \notin Numbered, CreateNode(p)
  PROVE  /\ Numbered' = Numbered \cup {p} /\ IsFiniteSet(Numbered')
         /\ last' = last + 1 /\ Cardinality(Numbered') = last'
         /\ last' \in 0 .. Cardinality(Procs)
<1>1. /\ last \in Nat /\ last + 1 # 0 /\ last' = last + 1
      /\ number' = [number EXCEPT ![p] = last + 1]
  BY DEF TypeOK, CreateNode
<1>2. Numbered' = Numbered \cup {p}
  BY <1>1 DEF TypeOK, Numbered
<1>3. IsFiniteSet(Numbered') /\ Cardinality(Numbered') = last + 1
  BY <1>2, FS_AddElement DEF Numbers
<1>4. Cardinality(Numbered') <= Cardinality(Procs)
  <2>1. Numbered' \subseteq Procs
    BY <1>2 DEF Numbered
  <2> QED
    BY <2>1, FS_Subset, ProcsAssumption
<1>5. Cardinality(Procs) \in Nat
  BY FS_CardinalityType, ProcsAssumption
<1> QED
  BY <1>1, <1>2, <1>3, <1>4, <1>5

(* The owner of the node a server is about to connect to, or copies the    *)
(* table from, listens, while another process joins and all is calm.       *)
LEMMA CalmOwner ==
  ASSUME TypeOK, Always, WhenCalm, NEW p \in Procs, NEW x \in Procs, main[x] \in Joining
  PROVE  /\ p # x /\ main[p] \in Running /\ cb[p] = "connect" =>
              NodeExists(next_id[p]) /\ Listening(Owner(next_id[p]))
         /\ main[x] = "sync" => NodeExists(tail_id[x]) /\ Listening(Owner(tail_id[x]))
<1> USE DEF Always, WhenCalm, Numbered
<1>1. ASSUME NEW q \in chain PROVE q \in Procs /\ Listening(q) /\ Owner(number[q]) = q
  <2>1. q \in Procs /\ q \in Numbered /\ number[q] \in 1 .. last
    BY <1>1 DEF TypeOK, Numbers
  <2>2. Owner(number[q]) = q
    BY <2>1, OwnerFacts
  <2>3. main[q] \in Up
    BY <1>1, <2>1 DEF Alone, Up
  <2> QED
    BY <2>1, <2>2, <2>3 DEF Listening
<1>2. ASSUME p # x, main[p] \in Running, cb[p] = "connect"
      PROVE  NodeExists(next_id[p]) /\ Listening(Owner(next_id[p]))
  <2>1. main[p] = "serving" /\ armed[p]
    BY <1>2 DEF Alone, Running, Up, Joining, Ending
  <2>2. ~just_created[p]
    BY <1>2, <2>1 DEF Newest
  <2>3. PICK q \in After(p) : number[q] = next_id[p]
    BY <1>2, <2>1, <2>2 DEF Current
  <2> QED
    BY <1>1, <2>3 DEF After, NodeExists, Children
<1>3. ASSUME main[x] = "sync" PROVE NodeExists(tail_id[x]) /\ Listening(Owner(tail_id[x]))
  <2>1. NodeExists(tail_id[x])
    BY <1>3 DEF Joins
  <2> QED
    BY <1>1, <2>1 DEF NodeExists, Children
<1> QED
  BY <1>2, <1>3

(* Types; numbers are given out only up to the number of processes.        *)
LEMMA TypeOKStep ==
  ASSUME IInv, [Next]_vars
  PROVE  TypeOK'
<1> USE ProcsAssumption, BoundsAssumption DEF zkVars, mainVars, cbVars, envVars, Joining,
        Up, Ending, Running, Gone, Listening, Numbered
<1> USE DEF IInv, TypeOK, Always
<1>1. ASSUME NEW p \in Procs, Start(p) PROVE TypeOK'
  BY <1>1 DEF Start
<1>2. ASSUME NEW p \in Procs, WatchChain(p) PROVE TypeOK'
  BY <1>2, ChildrenFacts DEF WatchChain
<1>3. ASSUME NEW p \in Procs, SyncTable(p) PROVE TypeOK'
  BY <1>3 DEF SyncTable
<1>4. ASSUME NEW p \in Procs, SyncFails(p) PROVE TypeOK'
  BY <1>4 DEF SyncFails, Die, Terminate
<1>5. ASSUME NEW p \in Procs, CreateNode(p) PROVE TypeOK'
  <2>1. p \notin Numbered
    BY <1>5 DEF CreateNode, Stage
  <2>2. last' = last + 1 /\ last' \in 0 .. Cardinality(Procs)
    BY <1>5, <2>1, OneMore
  <2>3. /\ last \in Nat /\ last' \in 0 .. last'
        /\ 0 .. last \subseteq 0 .. last' /\ 1 .. last \subseteq 1 .. last'
    BY <2>2
  <2>4. /\ number' \in [Procs -> 0 .. last'] /\ tail_id' \in [Procs -> 0 .. last']
        /\ my_node' \in [Procs -> 0 .. last'] /\ next_id' \in [Procs -> 0 .. last']
        /\ children' \in [Procs -> SUBSET (1 .. last')]
    BY <1>5, <2>2, <2>3 DEF CreateNode
  <2> QED
    BY <1>5, <2>2, <2>4 DEF CreateNode, FireWatches
<1>6. ASSUME NEW p \in Procs, CreateReturns(p) PROVE TypeOK'
  BY <1>6 DEF CreateReturns
<1>7. ASSUME NEW p \in Procs, FirstEvent(p) PROVE TypeOK'
  BY <1>7 DEF FirstEvent, Callback, TakeEvent
<1>8. ASSUME NEW p \in Procs, ChildEvent(p) PROVE TypeOK'
  BY <1>8, ChildrenFacts DEF ChildEvent, Callback, TakeEvent
<1>9. ASSUME NEW p \in Procs, ScanChildren(p) PROVE TypeOK'
  BY <1>9, LaterFacts DEF ScanChildren, NoNext, SameNext, NewNext
<1>10. ASSUME NEW p \in Procs, Connect(p) PROVE TypeOK'
  BY <1>10, OwnerFacts, ChildrenFacts DEF Connect, NodeExists
<1>11. ASSUME NEW p \in Procs, ConnectFails(p) PROVE TypeOK'
  BY <1>11 DEF ConnectFails, TerminateFromCallback, Die
<1>12. ASSUME NEW p \in Procs, CloseSession(p) PROVE TypeOK'
  BY <1>12 DEF CloseSession, LeaveChain, FireWatches
<1>13. ASSUME NEW p \in Procs, ExpireSession(p) PROVE TypeOK'
  BY <1>13 DEF ExpireSession, LeaveChain, FireWatches
<1>14. ASSUME NEW p \in Procs, SessionEvent(p) PROVE TypeOK'
  <2>1. hiccups' \in 0 .. MaxHiccups
    BY <1>14 DEF SessionEvent
  <2>2. calm' \in BOOLEAN /\ just_created' \in [Procs -> BOOLEAN]
    BY <1>14 DEF SessionEvent
  <2>3. main' \in [Procs -> {"off"} \cup Running \cup Gone]
    BY <1>14 DEF SessionEvent, Die
  <2> QED
    BY <1>14, <2>1, <2>2, <2>3 DEF SessionEvent
<1>15. ASSUME NEW p \in Procs, Crash(p) PROVE TypeOK'
  BY <1>15 DEF Crash, Fail, Die
<1>16. ASSUME NEW p \in Procs, Interrupt(p) PROVE TypeOK'
  BY <1>16 DEF Interrupt, Fail, Terminate
<1>17. CASE UNCHANGED vars
  BY <1>17 DEF vars
<1> QED
  BY <1>1, <1>2, <1>3, <1>4, <1>5, <1>6, <1>7, <1>8, <1>9, <1>10, <1>11, <1>12, <1>13,
     <1>14, <1>15, <1>16, <1>17 DEF Next, MainStep, CallbackStep, SessionEnds

(* Numbers are given out once each, and only the end of a process takes    *)
(* its node away.                                                          *)
LEMMA NumbersStep ==
  ASSUME IInv, [Next]_vars
  PROVE  Numbers'
<1> USE ProcsAssumption, BoundsAssumption DEF zkVars, mainVars, cbVars, envVars, Joining,
        Up, Ending, Running, Gone, Listening, Numbered
<1> USE DEF IInv, TypeOK, Always
<1>1. ASSUME NEW p \in Procs, Start(p) PROVE Numbers'
  BY <1>1 DEF Start, Numbers
<1>2. ASSUME NEW p \in Procs, WatchChain(p) PROVE Numbers'
  BY <1>2 DEF WatchChain, Numbers
<1>3. ASSUME NEW p \in Procs, SyncTable(p) PROVE Numbers'
  BY <1>3 DEF SyncTable, Numbers
<1>4. ASSUME NEW p \in Procs, SyncFails(p) PROVE Numbers'
  BY <1>4 DEF SyncFails, Die, Terminate, Numbers
<1>5. ASSUME NEW p \in Procs, CreateNode(p) PROVE Numbers'
  <2>1. p \notin Numbered
    BY <1>5 DEF CreateNode, Stage
  <2>2. /\ Numbered' = Numbered \cup {p} /\ IsFiniteSet(Numbered')
        /\ last' = last + 1 /\ Cardinality(Numbered') = last'
    BY <1>5, <2>1, OneMore
  <2> HIDE DEF Numbered
  <2>3. number' = [number EXCEPT ![p] = last + 1] /\ \A q \in Procs : number[q] <= last
    BY <1>5 DEF CreateNode
  <2>4. ASSUME NEW n \in 1 .. last' PROVE \E q \in Procs : number'[q] = n
    <3>1. CASE n = last'
      BY <2>2, <2>3, <3>1
    <3>2. CASE n # last'
      <4>1. n \in 1 .. last
        BY <2>2, <3>2
      <4>2. PICK q \in Procs : number[q] = n
        BY <4>1 DEF Numbers
      <4>3. q # p
        BY <2>1, <4>1, <4>2 DEF Numbered
      <4> QED
        BY <2>3, <4>2, <4>3
    <3> QED
      BY <3>1, <3>2
  <2>5. ASSUME NEW q \in Numbered', NEW r \in Numbered', number'[q] = number'[r] PROVE q = r
    <3>1. q \in Procs /\ r \in Procs
      BY <2>2 DEF Numbered
    <3>2. \A s \in Procs \ {p} : number'[s] = number[s] /\ number'[s] # number'[p]
      BY <2>3
    <3> QED
      BY <2>2, <2>5, <3>1, <3>2 DEF Numbers
  <2>6. chain' = chain \cup {p} /\ \A q \in Procs \ {p} : main'[q] = main[q]
    BY <1>5 DEF CreateNode
  <2> QED
    BY <2>2, <2>4, <2>5, <2>6 DEF Numbers, Numbered
<1>6. ASSUME NEW p \in Procs, CreateReturns(p) PROVE Numbers'
  BY <1>6 DEF CreateReturns, Numbers
<1>7. ASSUME NEW p \in Procs, FirstEvent(p) PROVE Numbers'
  BY <1>7 DEF FirstEvent, Callback, TakeEvent, Numbers
<1>8. ASSUME NEW p \in Procs, ChildEvent(p) PROVE Numbers'
  BY <1>8 DEF ChildEvent, Callback, TakeEvent, Numbers
<1>9. ASSUME NEW p \in Procs, ScanChildren(p) PROVE Numbers'
  BY <1>9 DEF ScanChildren, NoNext, SameNext, NewNext, Numbers
<1>10. ASSUME NEW p \in Procs, Connect(p) PROVE Numbers'
  BY <1>10 DEF Connect, Numbers
<1>11. ASSUME NEW p \in Procs, ConnectFails(p) PROVE Numbers'
  BY <1>11 DEF ConnectFails, TerminateFromCallback, Die, Numbers
<1>12. ASSUME NEW p \in Procs, CloseSession(p) PROVE Numbers'
  BY <1>12 DEF CloseSession, LeaveChain, FireWatches, Numbers
<1>13. ASSUME NEW p \in Procs, ExpireSession(p) PROVE Numbers'
  BY <1>13 DEF ExpireSession, LeaveChain, FireWatches, Numbers
<1>14. ASSUME NEW p \in Procs, SessionEvent(p) PROVE Numbers'
  BY <1>14 DEF SessionEvent, Die, Numbers
<1>15. ASSUME NEW p \in Procs, Crash(p) PROVE Numbers'
  BY <1>15 DEF Crash, Fail, Die, Numbers
<1>16. ASSUME NEW p \in Procs, Interrupt(p) PROVE Numbers'
  BY <1>16 DEF Interrupt, Fail, Terminate, Numbers
<1>17. CASE UNCHANGED vars
  BY <1>17 DEF vars, Numbers
<1> QED
  BY <1>1, <1>2, <1>3, <1>4, <1>5, <1>6, <1>7, <1>8, <1>9, <1>10, <1>11, <1>12, <1>13,
     <1>14, <1>15, <1>16, <1>17 DEF Next, MainStep, CallbackStep, SessionEnds

(* What a process has at each stage, whatever the others do.               *)
LEMMA StageStep ==
  ASSUME IInv, [Next]_vars, NEW x \in Procs
  PROVE  Stage(x)'
<1> USE ProcsAssumption, BoundsAssumption DEF zkVars, mainVars, cbVars, envVars, Joining,
        Up, Ending, Running, Gone, Listening, Numbered
<1> USE DEF IInv, TypeOK, Always
<1>1. ASSUME NEW p \in Procs, Start(p) PROVE Stage(x)'
  BY <1>1 DEF Start, Stage
<1>2. ASSUME NEW p \in Procs, WatchChain(p) PROVE Stage(x)'
  BY <1>2, ChildrenFacts DEF WatchChain, Stage
<1>3. ASSUME NEW p \in Procs, SyncTable(p) PROVE Stage(x)'
  BY <1>3 DEF SyncTable, Stage
<1>4. ASSUME NEW p \in Procs, SyncFails(p) PROVE Stage(x)'
  BY <1>4 DEF SyncFails, Die, Terminate, Stage
<1>5. ASSUME NEW p \in Procs, CreateNode(p) PROVE Stage(x)'
  BY <1>5 DEF CreateNode, FireWatches, Stage
<1>6. ASSUME NEW p \in Procs, CreateReturns(p) PROVE Stage(x)'
  BY <1>6 DEF CreateReturns, Stage
<1>7. ASSUME NEW p \in Procs, FirstEvent(p) PROVE Stage(x)'
  BY <1>7 DEF FirstEvent, Callback, TakeEvent, Stage
<1>8. ASSUME NEW p \in Procs, ChildEvent(p) PROVE Stage(x)'
  BY <1>8 DEF ChildEvent, Callback, TakeEvent, Stage
<1>9. ASSUME NEW p \in Procs, ScanChildren(p) PROVE Stage(x)'
  BY <1>9 DEF ScanChildren, NoNext, SameNext, NewNext, Stage
<1>10. ASSUME NEW p \in Procs, Connect(p) PROVE Stage(x)'
  BY <1>10 DEF Connect, Stage
<1>11. ASSUME NEW p \in Procs, ConnectFails(p) PROVE Stage(x)'
  BY <1>11 DEF ConnectFails, TerminateFromCallback, Die, Stage
<1>12. ASSUME NEW p \in Procs, CloseSession(p) PROVE Stage(x)'
  BY <1>12 DEF CloseSession, LeaveChain, FireWatches, Stage
<1>13. ASSUME NEW p \in Procs, ExpireSession(p) PROVE Stage(x)'
  BY <1>13 DEF ExpireSession, LeaveChain, FireWatches, Stage
<1>14. ASSUME NEW p \in Procs, SessionEvent(p) PROVE Stage(x)'
  BY <1>14 DEF SessionEvent, Die, Stage
<1>15. ASSUME NEW p \in Procs, Crash(p) PROVE Stage(x)'
  BY <1>15 DEF Crash, Fail, Die, Stage
<1>16. ASSUME NEW p \in Procs, Interrupt(p) PROVE Stage(x)'
  BY <1>16 DEF Interrupt, Fail, Terminate, Stage
<1>17. CASE UNCHANGED vars
  BY <1>17 DEF vars, Stage
<1> QED
  BY <1>1, <1>2, <1>3, <1>4, <1>5, <1>6, <1>7, <1>8, <1>9, <1>10, <1>11, <1>12, <1>13,
     <1>14, <1>15, <1>16, <1>17 DEF Next, MainStep, CallbackStep, SessionEnds

(* No step loses the watch and its event both, or breaks the tie between   *)
(* next_server and next_server_id.                                         *)
LEMMA LinkStep ==
  ASSUME IInv, [Next]_vars, NEW x \in Procs
  PROVE  Link(x)'
<1> USE ProcsAssumption, BoundsAssumption DEF zkVars, mainVars, cbVars, envVars, Joining,
        Up, Ending, Running, Gone, Listening, Numbered
<1> USE DEF IInv, TypeOK, Always
<1>1. ASSUME NEW p \in Procs, Start(p) PROVE Link(x)'
  BY <1>1 DEF Start, Link
<1>2. ASSUME NEW p \in Procs, WatchChain(p) PROVE Link(x)'
  BY <1>2 DEF WatchChain, Link, Stage
<1>3. ASSUME NEW p \in Procs, SyncTable(p) PROVE Link(x)'
  BY <1>3 DEF SyncTable, Link
<1>4. ASSUME NEW p \in Procs, SyncFails(p) PROVE Link(x)'
  BY <1>4 DEF SyncFails, Die, Terminate, Link
<1>5. ASSUME NEW p \in Procs, CreateNode(p) PROVE Link(x)'
  BY <1>5 DEF CreateNode, FireWatches, Link, Stage, Numbers
<1>6. ASSUME NEW p \in Procs, CreateReturns(p) PROVE Link(x)'
  BY <1>6 DEF CreateReturns, Link
<1>7. ASSUME NEW p \in Procs, FirstEvent(p) PROVE Link(x)'
  BY <1>7 DEF FirstEvent, Callback, TakeEvent, Link
<1>8. ASSUME NEW p \in Procs, ChildEvent(p) PROVE Link(x)'
  BY <1>8 DEF ChildEvent, Callback, TakeEvent, Link
<1>9. ASSUME NEW p \in Procs, ScanChildren(p) PROVE Link(x)'
  BY <1>9, LaterFacts DEF ScanChildren, NoNext, SameNext, NewNext, Link, Stage
<1>10. ASSUME NEW p \in Procs, Connect(p) PROVE Link(x)'
  BY <1>10, OwnerFacts, ChildrenFacts DEF Connect, Link, Stage, Numbers, NodeExists
<1>11. ASSUME NEW p \in Procs, ConnectFails(p) PROVE Link(x)'
  BY <1>11 DEF ConnectFails, TerminateFromCallback, Die, Link
<1>12. ASSUME NEW p \in Procs, CloseSession(p) PROVE Link(x)'
  BY <1>12 DEF CloseSession, LeaveChain, FireWatches, Link
<1>13. ASSUME NEW p \in Procs, ExpireSession(p) PROVE Link(x)'
  BY <1>13 DEF ExpireSession, LeaveChain, FireWatches, Link
<1>14. ASSUME NEW p \in Procs, SessionEvent(p) PROVE Link(x)'
  BY <1>14 DEF SessionEvent, Die, Link
<1>15. ASSUME NEW p \in Procs, Crash(p) PROVE Link(x)'
  BY <1>15 DEF Crash, Fail, Die, Link
<1>16. ASSUME NEW p \in Procs, Interrupt(p) PROVE Link(x)'
  BY <1>16 DEF Interrupt, Fail, Terminate, Link
<1>17. CASE UNCHANGED vars
  BY <1>17 DEF vars, Link
<1> QED
  BY <1>1, <1>2, <1>3, <1>4, <1>5, <1>6, <1>7, <1>8, <1>9, <1>10, <1>11, <1>12, <1>13,
     <1>14, <1>15, <1>16, <1>17 DEF Next, MainStep, CallbackStep, SessionEnds

(* While nothing has failed, the server a join or a callback connects to   *)
(* is there.                                                               *)
LEMMA OnlyFailuresStep ==
  ASSUME IInv, [Next]_vars
  PROVE  OnlyFailuresStopServers'
<1> USE ProcsAssumption, BoundsAssumption DEF zkVars, mainVars, cbVars, envVars, Joining,
        Up, Ending, Running, Gone, Listening, Numbered
<1> USE DEF IInv, TypeOK, Always
<1>1. ASSUME NEW p \in Procs, Start(p) PROVE OnlyFailuresStopServers'
  BY <1>1 DEF Start, OnlyFailuresStopServers
<1>2. ASSUME NEW p \in Procs, WatchChain(p) PROVE OnlyFailuresStopServers'
  BY <1>2 DEF WatchChain, OnlyFailuresStopServers
<1>3. ASSUME NEW p \in Procs, SyncTable(p) PROVE OnlyFailuresStopServers'
  BY <1>3 DEF SyncTable, OnlyFailuresStopServers
<1>4. ASSUME NEW p \in Procs, SyncFails(p) PROVE OnlyFailuresStopServers'
  BY <1>4, OwnerFacts DEF SyncFails, Die, Terminate, OnlyFailuresStopServers, Stage,
     Numbers, NodeExists, Children
<1>5. ASSUME NEW p \in Procs, CreateNode(p) PROVE OnlyFailuresStopServers'
  BY <1>5 DEF CreateNode, FireWatches, OnlyFailuresStopServers
<1>6. ASSUME NEW p \in Procs, CreateReturns(p) PROVE OnlyFailuresStopServers'
  BY <1>6 DEF CreateReturns, OnlyFailuresStopServers
<1>7. ASSUME NEW p \in Procs, FirstEvent(p) PROVE OnlyFailuresStopServers'
  BY <1>7 DEF FirstEvent, Callback, TakeEvent, OnlyFailuresStopServers
<1>8. ASSUME NEW p \in Procs, ChildEvent(p) PROVE OnlyFailuresStopServers'
  BY <1>8 DEF ChildEvent, Callback, TakeEvent, OnlyFailuresStopServers
<1>9. ASSUME NEW p \in Procs, ScanChildren(p) PROVE OnlyFailuresStopServers'
  BY <1>9 DEF ScanChildren, NoNext, SameNext, NewNext, OnlyFailuresStopServers
<1>10. ASSUME NEW p \in Procs, Connect(p) PROVE OnlyFailuresStopServers'
  BY <1>10 DEF Connect, OnlyFailuresStopServers
<1>11. ASSUME NEW p \in Procs, ConnectFails(p) PROVE OnlyFailuresStopServers'
  BY <1>11, OwnerFacts DEF ConnectFails, TerminateFromCallback, Die,
     OnlyFailuresStopServers, Stage, Link, Numbers, NodeExists, Children
<1>12. ASSUME NEW p \in Procs, CloseSession(p) PROVE OnlyFailuresStopServers'
  BY <1>12 DEF CloseSession, LeaveChain, FireWatches, OnlyFailuresStopServers
<1>13. ASSUME NEW p \in Procs, ExpireSession(p) PROVE OnlyFailuresStopServers'
  BY <1>13 DEF ExpireSession, LeaveChain, FireWatches, OnlyFailuresStopServers
<1>14. ASSUME NEW p \in Procs, SessionEvent(p) PROVE OnlyFailuresStopServers'
  BY <1>14 DEF SessionEvent, Die, OnlyFailuresStopServers
<1>15. ASSUME NEW p \in Procs, Crash(p) PROVE OnlyFailuresStopServers'
  BY <1>15 DEF Crash, Fail, Die, OnlyFailuresStopServers
<1>16. ASSUME NEW p \in Procs, Interrupt(p) PROVE OnlyFailuresStopServers'
  BY <1>16 DEF Interrupt, Fail, Terminate, OnlyFailuresStopServers
<1>17. CASE UNCHANGED vars
  BY <1>17 DEF vars, OnlyFailuresStopServers
<1> QED
  BY <1>1, <1>2, <1>3, <1>4, <1>5, <1>6, <1>7, <1>8, <1>9, <1>10, <1>11, <1>12, <1>13,
     <1>14, <1>15, <1>16, <1>17 DEF Next, MainStep, CallbackStep, SessionEnds

(* While a process joins calmly, no other step changes the chain.          *)
LEMMA AloneStep ==
  ASSUME IInv, [Next]_vars, calm', NEW x \in Procs
  PROVE  Alone(x)'
<1> USE ProcsAssumption, BoundsAssumption DEF zkVars, mainVars, cbVars, envVars, Joining,
        Up, Ending, Running, Gone, Listening, Numbered
<1> USE DEF IInv, TypeOK, Always
<1>0. calm /\ WhenCalm
  BY DEF Next, vars, MainStep, CallbackStep, SessionEnds, Start, WatchChain, SyncTable,
     SyncFails, Die, Terminate, CreateNode, FireWatches, CreateReturns, FirstEvent,
     Callback, TakeEvent, ChildEvent, Callback, TakeEvent, ScanChildren, NoNext, SameNext,
     NewNext, Connect, ConnectFails, TerminateFromCallback, Die, CloseSession, LeaveChain,
     FireWatches, ExpireSession, LeaveChain, FireWatches, SessionEvent, Die, Crash, Fail,
     Die, Interrupt, Fail, Terminate
<1>1. ASSUME NEW p \in Procs, Start(p) PROVE Alone(x)'
  BY <1>1, <1>0 DEF Start, Alone, AtRest, WhenCalm
<1>2. ASSUME NEW p \in Procs, WatchChain(p) PROVE Alone(x)'
  BY <1>2, <1>0 DEF WatchChain, Alone, WhenCalm
<1>3. ASSUME NEW p \in Procs, SyncTable(p) PROVE Alone(x)'
  BY <1>3, <1>0 DEF SyncTable, Alone, WhenCalm
<1>4. ASSUME NEW p \in Procs, SyncFails(p) PROVE Alone(x)'
  BY <1>4, <1>0 DEF SyncFails, Die, Terminate, Alone, WhenCalm
<1>5. ASSUME NEW p \in Procs, CreateNode(p) PROVE Alone(x)'
  BY <1>5, <1>0 DEF CreateNode, FireWatches, Alone, WhenCalm
<1>6. ASSUME NEW p \in Procs, CreateReturns(p) PROVE Alone(x)'
  BY <1>6, <1>0 DEF CreateReturns, Alone, WhenCalm
<1>7. ASSUME NEW p \in Procs, FirstEvent(p) PROVE Alone(x)'
  BY <1>7, <1>0 DEF FirstEvent, Callback, TakeEvent, Alone, WhenCalm
<1>8. ASSUME NEW p \in Procs, ChildEvent(p) PROVE Alone(x)'
  BY <1>8, <1>0 DEF ChildEvent, Callback, TakeEvent, Alone, WhenCalm
<1>9. ASSUME NEW p \in Procs, ScanChildren(p) PROVE Alone(x)'
  BY <1>9, <1>0 DEF ScanChildren, NoNext, SameNext, NewNext, Alone, WhenCalm
<1>10. ASSUME NEW p \in Procs, Connect(p) PROVE Alone(x)'
  BY <1>10, <1>0 DEF Connect, Alone, WhenCalm
<1>11. ASSUME NEW p \in Procs, ConnectFails(p) PROVE Alone(x)'
  <2> SUFFICES ASSUME main'[x] \in Joining PROVE FALSE
    BY DEF Alone
  <2>1. main[x] \in Joining
    BY <1>11 DEF ConnectFails, TerminateFromCallback, Die
  <2>2. p # x
    BY <1>0, <1>11, <2>1 DEF WhenCalm, Joins, ConnectFails
  <2>3. NodeExists(next_id[p]) /\ Listening(Owner(next_id[p]))
    BY <1>0, <1>11, <2>1, <2>2, CalmOwner DEF ConnectFails
  <2> QED
    BY <1>11, <2>3 DEF ConnectFails
<1>12. ASSUME NEW p \in Procs, CloseSession(p) PROVE Alone(x)'
  BY <1>12, <1>0 DEF CloseSession, LeaveChain, FireWatches, Alone, WhenCalm
<1>13. ASSUME NEW p \in Procs, ExpireSession(p) PROVE Alone(x)'
  BY <1>13, <1>0 DEF ExpireSession, LeaveChain, FireWatches, Alone, WhenCalm
<1>14. ASSUME NEW p \in Procs, SessionEvent(p) PROVE Alone(x)'
  BY <1>14, <1>0 DEF SessionEvent, Die, Alone, SomeJoin, WhenCalm
<1>15. ASSUME NEW p \in Procs, Crash(p) PROVE Alone(x)'
  BY <1>15, <1>0 DEF Crash, Fail, Die, Alone, SomeJoin, WhenCalm
<1>16. ASSUME NEW p \in Procs, Interrupt(p) PROVE Alone(x)'
  <2>1. main[x] \notin Joining /\ main'[x] \notin Joining
    BY <1>16 DEF Interrupt, Fail, SomeJoin, Terminate
  <2> QED
    BY <2>1 DEF Alone
<1>17. CASE UNCHANGED vars
  BY <1>17, <1>0 DEF vars, Alone, WhenCalm
<1> QED
  BY <1>1, <1>2, <1>3, <1>4, <1>5, <1>6, <1>7, <1>8, <1>9, <1>10, <1>11, <1>12, <1>13,
     <1>14, <1>15, <1>16, <1>17 DEF Next, MainStep, CallbackStep, SessionEnds

(* A calm join sees no event but that of its own node.                     *)
LEMMA JoinsStep ==
  ASSUME IInv, [Next]_vars, calm', NEW x \in Procs
  PROVE  Joins(x)'
<1> USE ProcsAssumption, BoundsAssumption DEF zkVars, mainVars, cbVars, envVars, Joining,
        Up, Ending, Running, Gone, Listening, Numbered
<1> USE DEF IInv, TypeOK, Always
<1>0. calm /\ WhenCalm
  BY DEF Next, vars, MainStep, CallbackStep, SessionEnds, Start, WatchChain, SyncTable,
     SyncFails, Die, Terminate, CreateNode, FireWatches, CreateReturns, FirstEvent,
     Callback, TakeEvent, ChildEvent, Callback, TakeEvent, ScanChildren, NoNext, SameNext,
     NewNext, Connect, ConnectFails, TerminateFromCallback, Die, CloseSession, LeaveChain,
     FireWatches, ExpireSession, LeaveChain, FireWatches, SessionEvent, Die, Crash, Fail,
     Die, Interrupt, Fail, Terminate
<1>1. ASSUME NEW p \in Procs, Start(p) PROVE Joins(x)'
  BY <1>1, <1>0 DEF Start, Joins, After, NodeExists, Children, Stage, AtRest, WhenCalm
<1>2. ASSUME NEW p \in Procs, WatchChain(p) PROVE Joins(x)'
  <2>1. CASE x = p
    <3>1. /\ main'[p] = (IF chain = {} THEN "create" ELSE "sync")
          /\ UNCHANGED <<chain, number, event, cbVars>>
      BY <1>2 DEF WatchChain
    <3>2. chain # {} => tail_id'[p] = Max(Children) /\ Max(Children) \in Children
      BY <1>2, ChildrenFacts DEF WatchChain
    <3>3. Joins(p) /\ main[p] = "watch"
      BY <1>0, <1>2 DEF WhenCalm, WatchChain
    <3> QED
      BY <2>1, <3>1, <3>2, <3>3 DEF Joins, NodeExists, Children
  <2>2. CASE x # p
    BY <1>0, <1>2, <2>2 DEF WatchChain, WhenCalm, Joins, After, NodeExists, Children
  <2> QED
    BY <2>1, <2>2
<1>3. ASSUME NEW p \in Procs, SyncTable(p) PROVE Joins(x)'
  BY <1>3, <1>0 DEF SyncTable, Joins, After, NodeExists, Children, WhenCalm
<1>4. ASSUME NEW p \in Procs, SyncFails(p) PROVE Joins(x)'
  BY <1>4, <1>0 DEF SyncFails, Die, Terminate, Joins, After, NodeExists, Children,
     WhenCalm
<1>5. ASSUME NEW p \in Procs, CreateNode(p) PROVE Joins(x)'
  <2>1. main[p] = "create" /\ Alone(p) /\ Joins(p) /\ Stage(p) /\ Link(p)
    BY <1>0, <1>5 DEF WhenCalm, Named, CreateNode
  <2>2. CASE x = p
    <3>1. /\ armed[p] /\ ~event[p] /\ just_created[p]
          /\ cb[p] = "idle" /\ next_id[p] = 0 /\ next_server[p] = Nobody
      BY <2>1 DEF Joins, Link
    <3>2. main'[p] = "created" /\ event'[p] /\ UNCHANGED cbVars
      BY <1>5, <2>1, <3>1 DEF CreateNode, FireWatches
    <3>3. \A q \in Procs \ {p} : number'[q] = number[q] /\ number[q] <= last
      BY <1>5 DEF CreateNode
    <3>4. number'[p] = last + 1 /\ chain' \subseteq Procs
      BY <1>5 DEF CreateNode
    <3>5. After(p)' = {}
      BY <3>3, <3>4 DEF After
    <3> QED
      BY <2>2, <3>1, <3>2, <3>5 DEF Joins
  <2>3. CASE x # p
    BY <1>5, <2>1, <2>3 DEF CreateNode, Alone, Joins
  <2> QED
    BY <2>2, <2>3
<1>6. ASSUME NEW p \in Procs, CreateReturns(p) PROVE Joins(x)'
  BY <1>6, <1>0 DEF CreateReturns, Joins, After, NodeExists, Children, WhenCalm
<1>7. ASSUME NEW p \in Procs, FirstEvent(p) PROVE Joins(x)'
  BY <1>7, <1>0 DEF FirstEvent, Callback, TakeEvent, Joins, After, NodeExists, Children,
     WhenCalm
<1>8. ASSUME NEW p \in Procs, ChildEvent(p) PROVE Joins(x)'
  BY <1>8, <1>0 DEF ChildEvent, Callback, TakeEvent, Joins, After, NodeExists, Children,
     WhenCalm
<1>9. ASSUME NEW p \in Procs, ScanChildren(p) PROVE Joins(x)'
  BY <1>9, <1>0 DEF ScanChildren, NoNext, SameNext, NewNext, Joins, After, NodeExists,
     Children, WhenCalm
<1>10. ASSUME NEW p \in Procs, Connect(p) PROVE Joins(x)'
  BY <1>10, <1>0 DEF Connect, Joins, After, NodeExists, Children, WhenCalm
<1>11. ASSUME NEW p \in Procs, ConnectFails(p) PROVE Joins(x)'
  BY <1>11, <1>0 DEF ConnectFails, TerminateFromCallback, Die, Joins, After, NodeExists,
     Children, WhenCalm
<1>12. ASSUME NEW p \in Procs, CloseSession(p) PROVE Joins(x)'
  BY <1>12, <1>0 DEF CloseSession, LeaveChain, FireWatches, Joins, After, NodeExists,
     Children, Alone, WhenCalm
<1>13. ASSUME NEW p \in Procs, ExpireSession(p) PROVE Joins(x)'
  BY <1>13, <1>0 DEF ExpireSession, LeaveChain, FireWatches, Joins, After, NodeExists,
     Children, Alone, WhenCalm
<1>14. ASSUME NEW p \in Procs, SessionEvent(p) PROVE Joins(x)'
  BY <1>14, <1>0, ZenonT(60) DEF SessionEvent, Die, Joins, After, NodeExists, Children,
     SomeJoin, WhenCalm
<1>15. ASSUME NEW p \in Procs, Crash(p) PROVE Joins(x)'
  BY <1>15, <1>0 DEF Crash, Fail, Die, Joins, After, NodeExists, Children, SomeJoin,
     WhenCalm
<1>16. ASSUME NEW p \in Procs, Interrupt(p) PROVE Joins(x)'
  BY <1>16, <1>0 DEF Interrupt, Fail, Terminate, Joins, After, NodeExists, Children,
     SomeJoin, WhenCalm
<1>17. CASE UNCHANGED vars
  BY <1>17, <1>0 DEF vars, Joins, After, NodeExists, Children, WhenCalm
<1> QED
  BY <1>1, <1>2, <1>3, <1>4, <1>5, <1>6, <1>7, <1>8, <1>9, <1>10, <1>11, <1>12, <1>13,
     <1>14, <1>15, <1>16, <1>17 DEF Next, MainStep, CallbackStep, SessionEnds

(* In a calm chain a server has its first event before the next one joins. *)
LEMMA NewestStep ==
  ASSUME IInv, [Next]_vars, calm', NEW x \in Procs
  PROVE  Newest(x)'
<1> USE ProcsAssumption, BoundsAssumption DEF zkVars, mainVars, cbVars, envVars, Joining,
        Up, Ending, Running, Gone, Listening, Numbered
<1> USE DEF IInv, TypeOK, Always
<1>0. calm /\ WhenCalm
  BY DEF Next, vars, MainStep, CallbackStep, SessionEnds, Start, WatchChain, SyncTable,
     SyncFails, Die, Terminate, CreateNode, FireWatches, CreateReturns, FirstEvent,
     Callback, TakeEvent, ChildEvent, Callback, TakeEvent, ScanChildren, NoNext, SameNext,
     NewNext, Connect, ConnectFails, TerminateFromCallback, Die, CloseSession, LeaveChain,
     FireWatches, ExpireSession, LeaveChain, FireWatches, SessionEvent, Die, Crash, Fail,
     Die, Interrupt, Fail, Terminate
<1>1. ASSUME NEW p \in Procs, Start(p) PROVE Newest(x)'
  BY <1>1, <1>0 DEF Start, Newest, After, WhenCalm
<1>2. ASSUME NEW p \in Procs, WatchChain(p) PROVE Newest(x)'
  BY <1>2, <1>0 DEF WatchChain, Newest, After, WhenCalm
<1>3. ASSUME NEW p \in Procs, SyncTable(p) PROVE Newest(x)'
  BY <1>3, <1>0 DEF SyncTable, Newest, After, WhenCalm
<1>4. ASSUME NEW p \in Procs, SyncFails(p) PROVE Newest(x)'
  BY <1>4, <1>0 DEF SyncFails, Die, Terminate, Newest, After, WhenCalm
<1>5. ASSUME NEW p \in Procs, CreateNode(p) PROVE Newest(x)'
  BY <1>5, <1>0 DEF CreateNode, FireWatches, Newest, After, Alone, Named, WhenCalm
<1>6. ASSUME NEW p \in Procs, CreateReturns(p) PROVE Newest(x)'
  BY <1>6, <1>0 DEF CreateReturns, Newest, After, Joins, WhenCalm
<1>7. ASSUME NEW p \in Procs, FirstEvent(p) PROVE Newest(x)'
  BY <1>7, <1>0 DEF FirstEvent, Callback, TakeEvent, Newest, After, WhenCalm
<1>8. ASSUME NEW p \in Procs, ChildEvent(p) PROVE Newest(x)'
  BY <1>8, <1>0 DEF ChildEvent, Callback, TakeEvent, Newest, After, WhenCalm
<1>9. ASSUME NEW p \in Procs, ScanChildren(p) PROVE Newest(x)'
  BY <1>9, <1>0 DEF ScanChildren, NoNext, SameNext, NewNext, Newest, After, WhenCalm
<1>10. ASSUME NEW p \in Procs, Connect(p) PROVE Newest(x)'
  BY <1>10, <1>0 DEF Connect, Newest, After, WhenCalm
<1>11. ASSUME NEW p \in Procs, ConnectFails(p) PROVE Newest(x)'
  BY <1>11, <1>0 DEF ConnectFails, TerminateFromCallback, Die, Newest, After, WhenCalm
<1>12. ASSUME NEW p \in Procs, CloseSession(p) PROVE Newest(x)'
  BY <1>12, <1>0 DEF CloseSession, LeaveChain, FireWatches, Newest, After, WhenCalm
<1>13. ASSUME NEW p \in Procs, ExpireSession(p) PROVE Newest(x)'
  BY <1>13, <1>0 DEF ExpireSession, LeaveChain, FireWatches, Newest, After, WhenCalm
<1>14. ASSUME NEW p \in Procs, SessionEvent(p) PROVE Newest(x)'
  BY <1>14, <1>0 DEF SessionEvent, Die, Newest, After, WhenCalm
<1>15. ASSUME NEW p \in Procs, Crash(p) PROVE Newest(x)'
  BY <1>15, <1>0 DEF Crash, Fail, Die, Newest, After, WhenCalm
<1>16. ASSUME NEW p \in Procs, Interrupt(p) PROVE Newest(x)'
  BY <1>16, <1>0 DEF Interrupt, Fail, Terminate, Newest, After, WhenCalm
<1>17. CASE UNCHANGED vars
  BY <1>17, <1>0 DEF vars, Newest, After, WhenCalm
<1> QED
  BY <1>1, <1>2, <1>3, <1>4, <1>5, <1>6, <1>7, <1>8, <1>9, <1>10, <1>11, <1>12, <1>13,
     <1>14, <1>15, <1>16, <1>17 DEF Next, MainStep, CallbackStep, SessionEnds

(* chain_watcher connects to the successor, and a change of the chain      *)
(* fires the watch.                                                        *)
LEMMA CurrentStep ==
  ASSUME IInv, [Next]_vars, calm', NEW x \in Procs
  PROVE  Current(x)'
<1> USE ProcsAssumption, BoundsAssumption DEF zkVars, mainVars, cbVars, envVars, Joining,
        Up, Ending, Running, Gone, Listening, Numbered
<1> USE DEF IInv, TypeOK, Always
<1>0. calm /\ WhenCalm
  BY DEF Next, vars, MainStep, CallbackStep, SessionEnds, Start, WatchChain, SyncTable,
     SyncFails, Die, Terminate, CreateNode, FireWatches, CreateReturns, FirstEvent,
     Callback, TakeEvent, ChildEvent, Callback, TakeEvent, ScanChildren, NoNext, SameNext,
     NewNext, Connect, ConnectFails, TerminateFromCallback, Die, CloseSession, LeaveChain,
     FireWatches, ExpireSession, LeaveChain, FireWatches, SessionEvent, Die, Crash, Fail,
     Die, Interrupt, Fail, Terminate
<1>1. ASSUME NEW p \in Procs, Start(p) PROVE Current(x)'
  BY <1>1, <1>0 DEF Start, Current, After, ConnectedToSuccessor, Children, WhenCalm
<1>2. ASSUME NEW p \in Procs, WatchChain(p) PROVE Current(x)'
  BY <1>2, <1>0 DEF WatchChain, Current, After, ConnectedToSuccessor, Children, WhenCalm
<1>3. ASSUME NEW p \in Procs, SyncTable(p) PROVE Current(x)'
  BY <1>3, <1>0 DEF SyncTable, Current, After, ConnectedToSuccessor, Children, WhenCalm
<1>4. ASSUME NEW p \in Procs, SyncFails(p) PROVE Current(x)'
  BY <1>4, <1>0 DEF SyncFails, Die, Terminate, Current, After, ConnectedToSuccessor,
     Children, WhenCalm
<1>5. ASSUME NEW p \in Procs, CreateNode(p) PROVE Current(x)'
  BY <1>5, <1>0 DEF CreateNode, FireWatches, Current, After, ConnectedToSuccessor,
     Children, WhenCalm
<1>6. ASSUME NEW p \in Procs, CreateReturns(p) PROVE Current(x)'
  BY <1>6, <1>0 DEF CreateReturns, Current, After, ConnectedToSuccessor, Children, Joins,
     WhenCalm
<1>7. ASSUME NEW p \in Procs, FirstEvent(p) PROVE Current(x)'
  BY <1>7, <1>0 DEF FirstEvent, Callback, TakeEvent, Current, After, ConnectedToSuccessor,
     Children, Newest, WhenCalm
<1>8. ASSUME NEW p \in Procs, ChildEvent(p) PROVE Current(x)'
  BY <1>8, <1>0 DEF ChildEvent, Callback, TakeEvent, Current, After, ConnectedToSuccessor,
     Children, WhenCalm
<1>9. ASSUME NEW p \in Procs, ScanChildren(p) PROVE Current(x)'
  <2> SUFFICES ASSUME x = p, main[p] = "serving", ~just_created[p], armed[p] PROVE Current(p)'
    BY <1>0, <1>9 DEF WhenCalm, Current, ScanChildren, NoNext, SameNext, NewNext,
       ConnectedToSuccessor, After, Children
  <2>1. Later(p) = {number[q] : q \in After(p)} /\ my_node[p] = number[p]
    <3>1. children[p] = Children /\ my_node[p] = number[p]
      BY <1>0, <1>9 DEF WhenCalm, Current, ScanChildren, Stage
    <3> QED
      BY <3>1 DEF Later, Children, After
  <2>0. \A q \in After(p) : number[q] \in Later(p)
    BY <2>1
  <2>2. After(p)' = After(p) /\ UNCHANGED number
    BY <1>9 DEF ScanChildren, After
  <2>3. CASE NoNext(p)
    <3>1. After(p) = {} /\ next_server'[p] = Nobody /\ cb'[p] = "idle"
      <4>1. Later(p) = {}
        BY <2>3 DEF NoNext
      <4>2. After(p) = {}
        BY <2>0, <4>1
      <4> QED
        BY <2>3, <4>2 DEF NoNext
    <3> QED
      BY <2>2, <3>1 DEF Current, ConnectedToSuccessor
  <2>4. CASE SameNext(p)
    <3>1. /\ next_server'[p] = next_server[p] /\ cb'[p] = "idle" /\ next_server[p] \in Numbered
          /\ number[next_server[p]] = Min(Later(p)) /\ Later(p) # {}
      BY <1>9, <2>4 DEF SameNext, ScanChildren, Link
    <3>2. PICK q \in After(p) : number[q] = Min(Later(p))
      BY <2>1, <3>1, LaterFacts
    <3>3. q \in Numbered
      BY <3>2 DEF After, Numbers
    <3>4. next_server[p] = q
      BY <3>1, <3>2, <3>3 DEF Numbers
    <3>5. \A r \in After(p) : number[q] <= number[r]
      <4>1. \A n \in Later(p) : Min(Later(p)) <= n
        BY <3>1, LaterFacts
      <4> QED
        BY <2>0, <3>2, <4>1
    <3> QED
      BY <2>2, <3>1, <3>2, <3>4, <3>5 DEF Current, ConnectedToSuccessor
  <2>5. CASE NewNext(p)
    <3>1. next_id'[p] = Min(Later(p)) /\ cb'[p] = "connect" /\ Later(p) # {}
      BY <2>5 DEF NewNext
    <3>2. Min(Later(p)) \in Later(p) /\ \A n \in Later(p) : Min(Later(p)) <= n
      BY <3>1, LaterFacts
    <3>3. \E q \in After(p) : number[q] = next_id'[p]
      <4>1. PICK q \in After(p) : number[q] = Min(Later(p))
        BY <2>1, <3>2
      <4> QED
        BY <3>1, <4>1
    <3>4. \A q \in After(p) : next_id'[p] <= number[q]
      BY <2>0, <3>1, <3>2
    <3> QED
      BY <2>2, <3>1, <3>3, <3>4 DEF Current
  <2> QED
    BY <1>9, <2>3, <2>4, <2>5 DEF ScanChildren
<1>10. ASSUME NEW p \in Procs, Connect(p) PROVE Current(x)'
  <2> SUFFICES ASSUME x = p, main[p] = "serving", ~just_created[p], armed[p] PROVE Current(p)'
    BY <1>0, <1>10 DEF WhenCalm, Current, Connect, ConnectedToSuccessor, After, Children
  <2>1. /\ After(p)' = After(p) /\ UNCHANGED number
        /\ cb'[p] = "idle" /\ next_server'[p] = Owner(next_id[p])
    BY <1>10 DEF Connect, After
  <2>2. /\ \E q \in After(p) : number[q] = next_id[p]
        /\ \A q \in After(p) : next_id[p] <= number[q]
    BY <1>0, <1>10 DEF WhenCalm, Current, Connect
  <2>3. PICK q \in After(p) : number[q] = next_id[p]
    BY <2>2
  <2>4. q \in Procs /\ next_id[p] \in 1 .. last
    BY <2>3 DEF After, Numbers
  <2>5. Owner(next_id[p]) = q
    BY <2>3, <2>4, OwnerFacts
  <2> QED
    BY <2>1, <2>2, <2>3, <2>5 DEF Current, ConnectedToSuccessor
<1>11. ASSUME NEW p \in Procs, ConnectFails(p) PROVE Current(x)'
  BY <1>11, <1>0 DEF ConnectFails, TerminateFromCallback, Die, Current, After,
     ConnectedToSuccessor, Children, WhenCalm
<1>12. ASSUME NEW p \in Procs, CloseSession(p) PROVE Current(x)'
  BY <1>12, <1>0 DEF CloseSession, LeaveChain, FireWatches, Current, After,
     ConnectedToSuccessor, Children, WhenCalm
<1>13. ASSUME NEW p \in Procs, ExpireSession(p) PROVE Current(x)'
  BY <1>13, <1>0 DEF ExpireSession, LeaveChain, FireWatches, Current, After,
     ConnectedToSuccessor, Children, WhenCalm
<1>14. ASSUME NEW p \in Procs, SessionEvent(p) PROVE Current(x)'
  BY <1>14, <1>0 DEF SessionEvent, Die, Current, After, ConnectedToSuccessor, Children,
     Newest, Link, WhenCalm
<1>15. ASSUME NEW p \in Procs, Crash(p) PROVE Current(x)'
  BY <1>15, <1>0 DEF Crash, Fail, Die, Current, After, ConnectedToSuccessor, Children,
     WhenCalm
<1>16. ASSUME NEW p \in Procs, Interrupt(p) PROVE Current(x)'
  BY <1>16, <1>0 DEF Interrupt, Fail, Terminate, Current, After, ConnectedToSuccessor,
     Children, WhenCalm
<1>17. CASE UNCHANGED vars
  BY <1>17, <1>0 DEF vars, Current, After, ConnectedToSuccessor, Children, WhenCalm
<1> QED
  BY <1>1, <1>2, <1>3, <1>4, <1>5, <1>6, <1>7, <1>8, <1>9, <1>10, <1>11, <1>12, <1>13,
     <1>14, <1>15, <1>16, <1>17 DEF Next, MainStep, CallbackStep, SessionEnds

(* In a calm chain no callback compares with a name not yet written.       *)
LEMMA NamedStep ==
  ASSUME IInv, [Next]_vars, calm', NEW x \in Procs
  PROVE  Named(x)'
<1> USE ProcsAssumption, BoundsAssumption DEF zkVars, mainVars, cbVars, envVars, Joining,
        Up, Ending, Running, Gone, Listening, Numbered
<1> USE DEF IInv, TypeOK, Always
<1>0. calm /\ WhenCalm
  BY DEF Next, vars, MainStep, CallbackStep, SessionEnds, Start, WatchChain, SyncTable,
     SyncFails, Die, Terminate, CreateNode, FireWatches, CreateReturns, FirstEvent,
     Callback, TakeEvent, ChildEvent, Callback, TakeEvent, ScanChildren, NoNext, SameNext,
     NewNext, Connect, ConnectFails, TerminateFromCallback, Die, CloseSession, LeaveChain,
     FireWatches, ExpireSession, LeaveChain, FireWatches, SessionEvent, Die, Crash, Fail,
     Die, Interrupt, Fail, Terminate
<1>1. ASSUME NEW p \in Procs, Start(p) PROVE Named(x)'
  BY <1>1, <1>0 DEF Start, Named, WhenCalm
<1>2. ASSUME NEW p \in Procs, WatchChain(p) PROVE Named(x)'
  BY <1>2, <1>0 DEF WatchChain, Named, WhenCalm
<1>3. ASSUME NEW p \in Procs, SyncTable(p) PROVE Named(x)'
  BY <1>3, <1>0 DEF SyncTable, Named, WhenCalm
<1>4. ASSUME NEW p \in Procs, SyncFails(p) PROVE Named(x)'
  BY <1>4, <1>0 DEF SyncFails, Die, Terminate, Named, WhenCalm
<1>5. ASSUME NEW p \in Procs, CreateNode(p) PROVE Named(x)'
  BY <1>5, <1>0 DEF CreateNode, FireWatches, Named, WhenCalm
<1>6. ASSUME NEW p \in Procs, CreateReturns(p) PROVE Named(x)'
  BY <1>6, <1>0 DEF CreateReturns, Named, Joins, Stage, WhenCalm
<1>7. ASSUME NEW p \in Procs, FirstEvent(p) PROVE Named(x)'
  BY <1>7, <1>0 DEF FirstEvent, Callback, TakeEvent, Named, WhenCalm
<1>8. ASSUME NEW p \in Procs, ChildEvent(p) PROVE Named(x)'
  BY <1>8, <1>0 DEF ChildEvent, Callback, TakeEvent, Named, WhenCalm
<1>9. ASSUME NEW p \in Procs, ScanChildren(p) PROVE Named(x)'
  BY <1>9, <1>0, LaterFacts DEF ScanChildren, NoNext, SameNext, NewNext, Named, Stage,
     WhenCalm
<1>10. ASSUME NEW p \in Procs, Connect(p) PROVE Named(x)'
  BY <1>10, <1>0 DEF Connect, Named, WhenCalm
<1>11. ASSUME NEW p \in Procs, ConnectFails(p) PROVE Named(x)'
  BY <1>11, <1>0 DEF ConnectFails, TerminateFromCallback, Die, Named, Stage, Joins, Alone,
     Current, WhenCalm
<1>12. ASSUME NEW p \in Procs, CloseSession(p) PROVE Named(x)'
  BY <1>12, <1>0 DEF CloseSession, LeaveChain, FireWatches, Named, WhenCalm
<1>13. ASSUME NEW p \in Procs, ExpireSession(p) PROVE Named(x)'
  BY <1>13, <1>0 DEF ExpireSession, LeaveChain, FireWatches, Named, WhenCalm
<1>14. ASSUME NEW p \in Procs, SessionEvent(p) PROVE Named(x)'
  BY <1>14, <1>0 DEF SessionEvent, Die, Named, SomeJoin, WhenCalm
<1>15. ASSUME NEW p \in Procs, Crash(p) PROVE Named(x)'
  BY <1>15, <1>0 DEF Crash, Fail, Die, Named, SomeJoin, WhenCalm
<1>16. ASSUME NEW p \in Procs, Interrupt(p) PROVE Named(x)'
  BY <1>16, <1>0 DEF Interrupt, Fail, Terminate, Named, SomeJoin, WhenCalm
<1>17. CASE UNCHANGED vars
  BY <1>17, <1>0 DEF vars, Named, WhenCalm
<1> QED
  BY <1>1, <1>2, <1>3, <1>4, <1>5, <1>6, <1>7, <1>8, <1>9, <1>10, <1>11, <1>12, <1>13,
     <1>14, <1>15, <1>16, <1>17 DEF Next, MainStep, CallbackStep, SessionEnds

(* A callback gives up only for a server after it that has failed.         *)
LEMMA FailureSpreadsStep ==
  ASSUME IInv, [Next]_vars
  PROVE  FailureSpreadsUpstream'
<1> USE ProcsAssumption, BoundsAssumption DEF zkVars, mainVars, cbVars, envVars, Joining,
        Up, Ending, Running, Gone, Listening, Numbered
<1> USE DEF IInv, TypeOK, Always
<1>1. ASSUME NEW p \in Procs, Start(p) PROVE FailureSpreadsUpstream'
  BY <1>1 DEF Start, FailureSpreadsUpstream
<1>2. ASSUME NEW p \in Procs, WatchChain(p) PROVE FailureSpreadsUpstream'
  BY <1>2 DEF WatchChain, FailureSpreadsUpstream
<1>3. ASSUME NEW p \in Procs, SyncTable(p) PROVE FailureSpreadsUpstream'
  BY <1>3 DEF SyncTable, FailureSpreadsUpstream
<1>4. ASSUME NEW p \in Procs, SyncFails(p) PROVE FailureSpreadsUpstream'
  <2>1. ASSUME calm PROVE FALSE
    <3>1. main[p] \in Joining /\ main[p] = "sync" /\ WhenCalm
      BY <1>4, <2>1 DEF SyncFails
    <3>2. NodeExists(tail_id[p]) /\ Listening(Owner(tail_id[p]))
      BY <3>1, CalmOwner
    <3> QED
      BY <1>4, <3>2 DEF SyncFails
  <2> QED
    BY <1>4, <2>1 DEF SyncFails, FailureSpreadsUpstream
<1>5. ASSUME NEW p \in Procs, CreateNode(p) PROVE FailureSpreadsUpstream'
  BY <1>5 DEF CreateNode, FireWatches, FailureSpreadsUpstream
<1>6. ASSUME NEW p \in Procs, CreateReturns(p) PROVE FailureSpreadsUpstream'
  BY <1>6 DEF CreateReturns, FailureSpreadsUpstream, Stage
<1>7. ASSUME NEW p \in Procs, FirstEvent(p) PROVE FailureSpreadsUpstream'
  BY <1>7 DEF FirstEvent, Callback, TakeEvent, FailureSpreadsUpstream
<1>8. ASSUME NEW p \in Procs, ChildEvent(p) PROVE FailureSpreadsUpstream'
  BY <1>8 DEF ChildEvent, Callback, TakeEvent, FailureSpreadsUpstream
<1>9. ASSUME NEW p \in Procs, ScanChildren(p) PROVE FailureSpreadsUpstream'
  BY <1>9 DEF ScanChildren, NoNext, SameNext, NewNext, FailureSpreadsUpstream
<1>10. ASSUME NEW p \in Procs, Connect(p) PROVE FailureSpreadsUpstream'
  BY <1>10 DEF Connect, FailureSpreadsUpstream
<1>11. ASSUME NEW p \in Procs, ConnectFails(p) PROVE FailureSpreadsUpstream'
  BY <1>11, OwnerFacts, SMTT(30) DEF ConnectFails, TerminateFromCallback, Die,
     FailureSpreadsUpstream, WhenCalm, Named, Stage, Link, Numbers, NodeExists, Children
<1>12. ASSUME NEW p \in Procs, CloseSession(p) PROVE FailureSpreadsUpstream'
  BY <1>12 DEF CloseSession, LeaveChain, FireWatches, FailureSpreadsUpstream
<1>13. ASSUME NEW p \in Procs, ExpireSession(p) PROVE FailureSpreadsUpstream'
  BY <1>13 DEF ExpireSession, LeaveChain, FireWatches, FailureSpreadsUpstream
<1>14. ASSUME NEW p \in Procs, SessionEvent(p) PROVE FailureSpreadsUpstream'
  BY <1>14 DEF SessionEvent, Die, FailureSpreadsUpstream
<1>15. ASSUME NEW p \in Procs, Crash(p) PROVE FailureSpreadsUpstream'
  BY <1>15 DEF Crash, Fail, Die, FailureSpreadsUpstream
<1>16. ASSUME NEW p \in Procs, Interrupt(p) PROVE FailureSpreadsUpstream'
  BY <1>16 DEF Interrupt, Fail, Terminate, FailureSpreadsUpstream
<1>17. CASE UNCHANGED vars
  BY <1>17 DEF vars, FailureSpreadsUpstream
<1> QED
  BY <1>1, <1>2, <1>3, <1>4, <1>5, <1>6, <1>7, <1>8, <1>9, <1>10, <1>11, <1>12, <1>13,
     <1>14, <1>15, <1>16, <1>17 DEF Next, MainStep, CallbackStep, SessionEnds

-----------------------------------------------------------------------------
(***************************************************************************)
(* What follows for every behaviour.                                       *)
(***************************************************************************)

(* Before the first server starts all is in order.                         *)
LEMMA InitInvariant == Init => IInv
<1> USE ProcsAssumption, BoundsAssumption DEF Joining, Up, Ending, Running, Gone, Numbered
<1> SUFFICES ASSUME Init PROVE IInv
  OBVIOUS
<1>1. TypeOK
  <2>1. Cardinality(Procs) \in Nat
    BY FS_CardinalityType
  <2> QED
    BY <2>1 DEF Init, TypeOK
<1>2. Numbers
  <2>1. Numbered = {} /\ last = 0 /\ chain = {}
    BY DEF Init
  <2>2. IsFiniteSet(Numbered) /\ Cardinality(Numbered) = 0
    BY <2>1, FS_EmptySet
  <2> QED
    BY <2>1, <2>2 DEF Numbers
<1>3. ASSUME NEW p \in Procs PROVE Stage(p) /\ Link(p)
  BY DEF Init, Stage, Link
<1>4. ASSUME NEW p \in Procs
      PROVE  Alone(p) /\ Joins(p) /\ Newest(p) /\ Current(p) /\ Named(p)
  BY DEF Init, Alone, Joins, Newest, Current, Named
<1>5. OnlyFailuresStopServers /\ FailureSpreadsUpstream
  BY DEF Init, OnlyFailuresStopServers, FailureSpreadsUpstream
<1> QED
  BY <1>1, <1>2, <1>3, <1>4, <1>5 DEF IInv, Always, WhenCalm

(* The inductive invariant holds in every reachable state.                 *)
THEOREM InvariantHolds == Spec => []IInv
<1>1. ASSUME IInv, [Next]_vars PROVE IInv'
  <2>1. TypeOK' /\ Always'
    BY <1>1, TypeOKStep, NumbersStep, StageStep, LinkStep DEF Always
  <2>2. calm' => WhenCalm'
    BY <1>1, AloneStep, JoinsStep, NewestStep, CurrentStep, NamedStep DEF WhenCalm
  <2>3. OnlyFailuresStopServers' /\ FailureSpreadsUpstream'
    BY <1>1, OnlyFailuresStep, FailureSpreadsStep
  <2> QED
    BY <2>1, <2>2, <2>3 DEF IInv
<1> QED
  BY <1>1, InitInvariant, PTL DEF Spec

(* Type correctness; a process gets one number at most.                    *)
THEOREM TypeCorrect == Spec => []TypeOK
<1>1. IInv => TypeOK
  BY DEF IInv
<1> QED
  BY <1>1, InvariantHolds, PTL

(* Joins alone never take a server down, however they overlap: the chain   *)
(* loses a server only after a crash, an interrupt or a session event.     *)
THEOREM OnlyFailuresStopServersCorrect == Spec => []OnlyFailuresStopServers
<1>1. IInv => OnlyFailuresStopServers
  BY DEF IInv
<1> QED
  BY <1>1, InvariantHolds, PTL

(* As long as joins overlap nothing, a server that gives up has a failed   *)
(* one after it in the chain, never only before it.                        *)
THEOREM FailureSpreadsUpstreamCorrect == Spec => []FailureSpreadsUpstream
<1>1. IInv => FailureSpreadsUpstream
  BY DEF IInv
<1> QED
  BY <1>1, InvariantHolds, PTL

(* As long as joins overlap nothing, a server in its main loop knows only  *)
(* servers after it: the connections never form a ring.                    *)
THEOREM NextIsLaterCorrect == Spec => []NextIsLater
<1>1. IInv => NextIsLater
  BY DEF IInv, WhenCalm, Named, NextIsLater
<1> QED
  BY <1>1, InvariantHolds, PTL

(* As long as joins overlap nothing, servers at rest form one chain in the *)
(* order of their nodes, whatever failed or was interrupted on the way.    *)
THEOREM ChainAgreesAtRestCorrect == Spec => []ChainAgreesAtRest
<1>1. IInv => ChainAgreesAtRest
  <2> SUFFICES ASSUME IInv, calm, AtRest, NEW p \in Procs, main[p] = "serving"
               PROVE  ConnectedToSuccessor(p)
    BY DEF ChainAgreesAtRest, ChainFormed
  <2>1. ~event[p] /\ cb[p] = "idle"
    BY DEF AtRest
  <2>2. armed[p] /\ ~just_created[p]
    BY <2>1 DEF IInv, Always, WhenCalm, Link, Newest
  <2> QED
    BY <2>1, <2>2 DEF IInv, WhenCalm, Current
<1> QED
  BY <1>1, InvariantHolds, PTL

-----------------------------------------------------------------------------
(***************************************************************************)
(* Whom a server connects to, as long as no join has overlapped anything:  *)
(* what those who forward along the connections need to know of them.      *)
(***************************************************************************)

(* The tail whose table is copied is the last server; no server of the     *)
(* chain lies between a process and the one it has found, or is connected  *)
(* to, and those it did not see when it looked have come after.            *)
View(p) ==
  /\ main[p] = "sync" => \A q \in chain : number[q] <= tail_id[p]
  /\ cb[p] = "scan" => \A q \in chain :
       number[q] \in children[p] \/ \A n \in children[p] : n < number[q]
  /\ cb[p] = "connect" =>
       /\ next_server[p] \in {Nobody, Freed}
       /\ \A q \in chain : ~ (my_node[p] < number[q] /\ number[q] < next_id[p])
  /\ cb[p] = "exit" => next_server[p] = Nobody
  /\ next_server[p] \in Procs => \A q \in chain :
       ~ (my_node[p] < number[q] /\ number[q] < number[next_server[p]])

(* As long as nothing has failed, a callback works on the list as it is,   *)
(* and a server without a next one lacks the newest at most.               *)
Settled(p) == failures = 0 /\ hiccups = 0 =>
  /\ cb[p] # "idle" => armed[p]
  /\ next_server[p] # Freed
  /\ p \in chain /\ next_server[p] = Nobody => \A q \in After(p) : number[q] = last

Connections == calm => \A p \in Procs : View(p) /\ Settled(p)

(* No number of the chain is above the greatest.                           *)
LEMMA MaxAbove ==
  ASSUME TypeOK, Numbers, NEW q \in chain
  PROVE  number[q] <= Max(Children)
<1>1. Children \in SUBSET (0 .. last) /\ number[q] \in Children /\ last \in Nat
  BY ChildrenFacts DEF Children, TypeOK
<1> QED
  BY <1>1, MaxFacts

(* Without failures everybody who has a number is in the chain and joining *)
(* or in the main loop, and in the callback only in the latter.            *)
LEMMA AllServe ==
  ASSUME IInv, calm, failures = 0, hiccups = 0, NEW p \in Procs
  PROVE  /\ main[p] \in {"off", "serving"} \cup Joining
         /\ p \in Numbered => p \in chain
         /\ cb[p] # "idle" => main[p] = "serving" /\ ~just_created[p]
         /\ next_server[p] # Nobody => main[p] = "serving"
<1> USE DEF IInv, TypeOK, Always
<1>1. main[p] \in {"off", "serving"} \cup Joining
  BY DEF OnlyFailuresStopServers, Gone, Running, Up, Ending
<1>2. p \in Numbered => p \in chain
  BY DEF Numbers, OnlyFailuresStopServers, Gone, Numbered
<1>3. Stage(p) /\ Joins(p) /\ Newest(p)
  BY DEF WhenCalm
<1> QED
  BY <1>1, <1>2, <1>3 DEF Stage, Joins, Newest

(* Without failures a callback that looks for the next server finds the    *)
(* one it is connected to, if it is connected to any.                      *)
LEMMA SameFound ==
  ASSUME IInv, Connections, calm, failures = 0, hiccups = 0, NEW p \in Procs,
         ScanChildren(p), next_server[p] \in Procs
  PROVE  SameNext(p)
<1> USE DEF IInv, TypeOK, Always
<1>1. cb[p] = "scan" /\ main[p] = "serving" /\ ~just_created[p]
  BY AllServe DEF ScanChildren
<1>2. View(p) /\ Settled(p) /\ Current(p) /\ Named(p) /\ Link(p) /\ Stage(p) /\ Numbers
  BY DEF Connections, WhenCalm
<1>3. children[p] = Children
  BY <1>1, <1>2 DEF Settled, Current
<1> DEFINE s == next_server[p]
<1>4. s # Nobody /\ s \in Numbered /\ number[s] = next_id[p]
  BY <1>1, <1>2, ProcsAssumption DEF Link
<1>5. s \in chain /\ number[s] > my_node[p]
  BY <1>2, <1>4, AllServe DEF Named, Numbered
<1>6. number[s] \in Later(p)
  BY <1>3, <1>5 DEF Later, Children
<1>7. /\ Min(Later(p)) \in Later(p) /\ Min(Later(p)) > my_node[p]
      /\ Min(Later(p)) <= number[s] /\ Min(Later(p)) \in 1 .. last
  BY <1>6, LaterFacts
<1>8. PICK r \in chain : number[r] = Min(Later(p))
  BY <1>3, <1>7 DEF Later, Children
<1>9. ~ (my_node[p] < number[r] /\ number[r] < number[s])
  BY <1>2, <1>8 DEF View
<1>10. number[s] \in Nat /\ number[r] \in Nat /\ my_node[p] \in Nat /\ last \in Nat
  BY <1>8
<1>11. next_id[p] = Min(Later(p))
  BY <1>4, <1>7, <1>8, <1>9, <1>10
<1> QED
  BY <1>4, <1>6, <1>11 DEF ScanChildren, NoNext, SameNext, NewNext

(* No server of the chain lies between a process and the one it connects  *)
(* to, or is about to.                                                     *)
LEMMA ViewStep ==
  ASSUME IInv, Connections, [Next]_vars, calm', NEW x \in Procs
  PROVE  View(x)'
<1> USE ProcsAssumption, BoundsAssumption DEF zkVars, mainVars, cbVars, envVars, Joining,
        Up, Ending, Running, Gone, Listening, Numbered
<1> USE DEF IInv, TypeOK, Always, Connections
<1>0. calm /\ WhenCalm
  BY DEF Next, vars, MainStep, CallbackStep, SessionEnds, Start, WatchChain, SyncTable,
     SyncFails, Die, Terminate, CreateNode, FireWatches, CreateReturns, FirstEvent,
     Callback, TakeEvent, ChildEvent, Callback, TakeEvent, ScanChildren, NoNext, SameNext,
     NewNext, Connect, ConnectFails, TerminateFromCallback, Die, CloseSession, LeaveChain,
     FireWatches, ExpireSession, LeaveChain, FireWatches, SessionEvent, Die, Crash, Fail,
     Die, Interrupt, Fail, Terminate
<1>1. ASSUME NEW p \in Procs, Start(p) PROVE View(x)'
  BY <1>1, <1>0 DEF Start, View, WhenCalm
<1>2. ASSUME NEW p \in Procs, WatchChain(p) PROVE View(x)'
  BY <1>2, <1>0, ChildrenFacts, MaxAbove DEF WatchChain, View, Joins, WhenCalm
<1>3. ASSUME NEW p \in Procs, SyncTable(p) PROVE View(x)'
  BY <1>3, <1>0 DEF SyncTable, View, WhenCalm
<1>4. ASSUME NEW p \in Procs, SyncFails(p) PROVE View(x)'
  BY <1>4, <1>0 DEF SyncFails, Die, Terminate, View, WhenCalm
<1>5. ASSUME NEW p \in Procs, CreateNode(p) PROVE View(x)'
  BY <1>5, <1>0 DEF CreateNode, FireWatches, View, Alone, Joins, Named, Stage, Link,
     Numbers, WhenCalm
<1>6. ASSUME NEW p \in Procs, CreateReturns(p) PROVE View(x)'
  BY <1>6, <1>0 DEF CreateReturns, View, Joins, WhenCalm
<1>7. ASSUME NEW p \in Procs, FirstEvent(p) PROVE View(x)'
  BY <1>7, <1>0 DEF FirstEvent, Callback, TakeEvent, View, WhenCalm
<1>8. ASSUME NEW p \in Procs, ChildEvent(p) PROVE View(x)'
  BY <1>8, <1>0 DEF ChildEvent, Callback, TakeEvent, View, Children, WhenCalm
<1>9. ASSUME NEW p \in Procs, ScanChildren(p) PROVE View(x)'
  BY <1>9, <1>0, LaterFacts DEF ScanChildren, NoNext, SameNext, NewNext, View, Stage,
     Named, Later, WhenCalm
<1>10. ASSUME NEW p \in Procs, Connect(p) PROVE View(x)'
  BY <1>10, <1>0, OwnerFacts, ChildrenFacts DEF Connect, View, Link, NodeExists, WhenCalm
<1>11. ASSUME NEW p \in Procs, ConnectFails(p) PROVE View(x)'
  BY <1>11, <1>0 DEF ConnectFails, TerminateFromCallback, Die, View, WhenCalm
<1>12. ASSUME NEW p \in Procs, CloseSession(p) PROVE View(x)'
  BY <1>12, <1>0 DEF CloseSession, LeaveChain, FireWatches, View, WhenCalm
<1>13. ASSUME NEW p \in Procs, ExpireSession(p) PROVE View(x)'
  BY <1>13, <1>0 DEF ExpireSession, LeaveChain, FireWatches, View, WhenCalm
<1>14. ASSUME NEW p \in Procs, SessionEvent(p) PROVE View(x)'
  BY <1>14, <1>0 DEF SessionEvent, Die, View, WhenCalm
<1>15. ASSUME NEW p \in Procs, Crash(p) PROVE View(x)'
  BY <1>15, <1>0 DEF Crash, Fail, Die, View, WhenCalm
<1>16. ASSUME NEW p \in Procs, Interrupt(p) PROVE View(x)'
  BY <1>16, <1>0 DEF Interrupt, Fail, Terminate, View, WhenCalm
<1>17. CASE UNCHANGED vars
  BY <1>17, <1>0 DEF vars, View
<1> QED
  BY <1>1, <1>2, <1>3, <1>4, <1>5, <1>6, <1>7, <1>8, <1>9, <1>10, <1>11, <1>12, <1>13,
     <1>14, <1>15, <1>16, <1>17 DEF Next, MainStep, CallbackStep, SessionEnds

(* Without failures a callback works on the list as it is, and a server    *)
(* without next_server lacks the newest one at most.                       *)
LEMMA SettledStep ==
  ASSUME IInv, Connections, [Next]_vars, calm', NEW x \in Procs
  PROVE  Settled(x)'
<1> USE ProcsAssumption, BoundsAssumption DEF zkVars, mainVars, cbVars, envVars, Joining,
        Up, Ending, Running, Gone, Listening, Numbered
<1> USE DEF IInv, TypeOK, Always, Connections
<1>0. calm /\ WhenCalm
  BY DEF Next, vars, MainStep, CallbackStep, SessionEnds, Start, WatchChain, SyncTable,
     SyncFails, Die, Terminate, CreateNode, FireWatches, CreateReturns, FirstEvent,
     Callback, TakeEvent, ChildEvent, Callback, TakeEvent, ScanChildren, NoNext, SameNext,
     NewNext, Connect, ConnectFails, TerminateFromCallback, Die, CloseSession, LeaveChain,
     FireWatches, ExpireSession, LeaveChain, FireWatches, SessionEvent, Die, Crash, Fail,
     Die, Interrupt, Fail, Terminate
<1>1. ASSUME NEW p \in Procs, Start(p) PROVE Settled(x)'
  BY <1>1, <1>0 DEF Start, Settled, After, WhenCalm
<1>2. ASSUME NEW p \in Procs, WatchChain(p) PROVE Settled(x)'
  BY <1>2, <1>0 DEF WatchChain, Settled, After, WhenCalm
<1>3. ASSUME NEW p \in Procs, SyncTable(p) PROVE Settled(x)'
  BY <1>3, <1>0 DEF SyncTable, Settled, After, WhenCalm
<1>4. ASSUME NEW p \in Procs, SyncFails(p) PROVE Settled(x)'
  BY <1>4, <1>0 DEF SyncFails, Die, Terminate, Settled, After, WhenCalm
<1>5. ASSUME NEW p \in Procs, CreateNode(p) PROVE Settled(x)'
  <2> SUFFICES ASSUME failures = 0, hiccups = 0
               PROVE  /\ cb'[x] # "idle" => armed'[x]
                      /\ next_server'[x] # Freed
                      /\ x \in chain' /\ next_server'[x] = Nobody =>
                           \A q \in After(x)' : number'[q] = last'
    BY <1>5 DEF CreateNode, Settled
  <2>1. main[p] = "create" /\ Alone(p) /\ Joins(p) /\ Settled(x)
    BY <1>0, <1>5 DEF WhenCalm, Named, CreateNode
  <2>2. /\ last' = last + 1 /\ number' = [number EXCEPT ![p] = last + 1]
        /\ chain' = chain \cup {p} /\ UNCHANGED cbVars
    BY <1>5 DEF CreateNode
  <2>3. /\ last \in Nat /\ number'[p] = last' /\ last' > last
        /\ \A q \in Procs \ {p} : number'[q] = number[q] /\ number[q] <= last
    BY <2>2
  <2>4. CASE x = p
    <3>1. After(x)' = {}
      BY <2>2, <2>3, <2>4 DEF After
    <3> QED
      BY <2>1, <2>2, <2>4, <3>1, ProcsAssumption DEF Joins
  <2>5. CASE x # p
    <3>1. cb[x] = "idle"
      BY <1>0, <2>1, <2>5, AllServe DEF Alone
    <3>2. ASSUME x \in chain', next_server[x] = Nobody PROVE After(x) = {}
      <4>1. x \in chain /\ main[x] = "serving" /\ ~event[x]
        BY <2>1, <2>2, <2>5, <3>2 DEF Alone
      <4>2. armed[x] /\ ~just_created[x]
        BY <1>0, <4>1 DEF WhenCalm, Newest, Link
      <4>3. ConnectedToSuccessor(x)
        BY <1>0, <3>1, <4>1, <4>2 DEF WhenCalm, Current
      <4> QED
        BY <3>2, <4>3, ProcsAssumption DEF ConnectedToSuccessor, After
    <3>3. ASSUME x \in chain', next_server[x] = Nobody, NEW q \in After(x)'
          PROVE  q = p
      BY <2>2, <2>3, <2>5, <3>2, <3>3 DEF After
    <3> QED
      BY <2>1, <2>2, <2>3, <3>1, <3>3 DEF Settled
  <2> QED
    BY <2>4, <2>5
<1>6. ASSUME NEW p \in Procs, CreateReturns(p) PROVE Settled(x)'
  BY <1>6, <1>0 DEF CreateReturns, Settled, After, WhenCalm
<1>7. ASSUME NEW p \in Procs, FirstEvent(p) PROVE Settled(x)'
  BY <1>7, <1>0 DEF FirstEvent, Callback, TakeEvent, Settled, After, WhenCalm
<1>8. ASSUME NEW p \in Procs, ChildEvent(p) PROVE Settled(x)'
  BY <1>8, <1>0 DEF ChildEvent, Callback, TakeEvent, Settled, After, WhenCalm
<1>9. ASSUME NEW p \in Procs, ScanChildren(p) PROVE Settled(x)'
  <2> SUFFICES ASSUME failures = 0, hiccups = 0 PROVE Settled(x)'
    BY <1>9 DEF ScanChildren, Settled
  <2>1. Settled(x) /\ UNCHANGED <<armed, chain, number, last>>
    BY <1>0, <1>9 DEF ScanChildren
  <2>2. After(x)' = After(x) /\ (cb'[x] # "idle" => cb[x] # "idle")
    BY <1>9 DEF ScanChildren, NoNext, SameNext, NewNext, After
  <2>3. CASE x # p \/ next_server[p] # Nobody
    <3>1. next_server[p] # Nobody => next_server[p] \in Procs
      BY <1>0 DEF Settled
    <3>2. CASE x = p
      <4>1. SameNext(p)
        BY <1>0, <1>9, <2>3, <3>1, <3>2, SameFound
      <4> QED
        BY <2>1, <2>2, <3>2, <4>1 DEF SameNext, Settled
    <3>3. CASE x # p
      <4>1. next_server'[x] = next_server[x]
        BY <1>9, <3>3 DEF ScanChildren, NoNext, SameNext, NewNext
      <4> QED
        BY <2>1, <2>2, <4>1 DEF Settled
    <3> QED
      BY <3>2, <3>3
  <2>4. CASE x = p /\ next_server[p] = Nobody
    <3>1. next_server'[p] = Nobody
      BY <1>9, <2>4 DEF ScanChildren, NoNext, SameNext, NewNext
    <3> QED
      BY <2>1, <2>2, <2>4, <3>1, ProcsAssumption DEF Settled
  <2> QED
    BY <2>3, <2>4
<1>10. ASSUME NEW p \in Procs, Connect(p) PROVE Settled(x)'
  BY <1>10, <1>0, OwnerFacts, ChildrenFacts DEF Connect, Settled, After, NodeExists,
     WhenCalm
<1>11. ASSUME NEW p \in Procs, ConnectFails(p) PROVE Settled(x)'
  BY <1>11, <1>0, OnlyFailuresStep DEF ConnectFails, TerminateFromCallback, Die, Settled,
     After, OnlyFailuresStopServers, WhenCalm
<1>12. ASSUME NEW p \in Procs, CloseSession(p) PROVE Settled(x)'
  BY <1>12, <1>0 DEF CloseSession, LeaveChain, FireWatches, Settled, After,
     OnlyFailuresStopServers, WhenCalm
<1>13. ASSUME NEW p \in Procs, ExpireSession(p) PROVE Settled(x)'
  BY <1>13, <1>0 DEF ExpireSession, LeaveChain, FireWatches, Settled, After,
     OnlyFailuresStopServers, WhenCalm
<1>14. ASSUME NEW p \in Procs, SessionEvent(p) PROVE Settled(x)'
  BY <1>14, <1>0 DEF SessionEvent, Die, Settled, After, WhenCalm
<1>15. ASSUME NEW p \in Procs, Crash(p) PROVE Settled(x)'
  BY <1>15, <1>0 DEF Crash, Fail, Die, Settled, After, WhenCalm
<1>16. ASSUME NEW p \in Procs, Interrupt(p) PROVE Settled(x)'
  BY <1>16, <1>0 DEF Interrupt, Fail, Terminate, Settled, After, WhenCalm
<1>17. CASE UNCHANGED vars
  BY <1>17, <1>0 DEF vars, Settled, After
<1> QED
  BY <1>1, <1>2, <1>3, <1>4, <1>5, <1>6, <1>7, <1>8, <1>9, <1>10, <1>11, <1>12, <1>13,
     <1>14, <1>15, <1>16, <1>17 DEF Next, MainStep, CallbackStep, SessionEnds

(* The connections are so in every reachable state.                        *)
THEOREM ConnectionsHold == Spec => []Connections
<1>1. Init => Connections
  <2> SUFFICES ASSUME Init, NEW p \in Procs PROVE View(p) /\ Settled(p)
    BY DEF Connections
  <2>1. View(p)
    BY ProcsAssumption DEF Init, View
  <2>2. Settled(p)
    BY ProcsAssumption DEF Init, Settled
  <2> QED
    BY <2>1, <2>2
<1>2. IInv /\ Connections /\ [Next]_vars => Connections'
  BY ViewStep, SettledStep DEF Connections
<1> QED
  BY <1>1, <1>2, InvariantHolds, PTL DEF Spec

(* Without failures no step takes from a server the connection it has.     *)
NextKept ==
  calm' /\ failures' = 0 /\ hiccups' = 0 =>
    \A p \in Procs : next_server[p] \in Procs => next_server'[p] = next_server[p]

(* As long as nothing has failed and no join has overlapped anything, a    *)
(* connection in the chain once opened is never replaced.                  *)
THEOREM NextKeptCorrect == Spec => [][NextKept]_vars
<1>1. ASSUME IInv, Connections, [Next]_vars, calm', failures' = 0, hiccups' = 0,
             NEW x \in Procs, next_server[x] \in Procs
      PROVE  next_server'[x] = next_server[x]
  <2> USE <1>1, ProcsAssumption, BoundsAssumption
          DEF zkVars, mainVars, cbVars, envVars, IInv, TypeOK, Always
  <2>1. calm /\ failures = 0 /\ hiccups = 0
    <3>1. /\ calm
          /\ failures' = failures \/ failures' = failures + 1
          /\ hiccups' = hiccups \/ hiccups' = hiccups + 1
      BY DEF Next, vars, MainStep, CallbackStep, SessionEnds, Start, WatchChain, SyncTable,
         SyncFails, Die, Terminate, CreateNode, FireWatches, CreateReturns, FirstEvent,
         Callback, TakeEvent, ChildEvent, ScanChildren, NoNext, SameNext, NewNext, Connect,
         ConnectFails, TerminateFromCallback, Die, CloseSession, LeaveChain, ExpireSession,
         SessionEvent, Crash, Fail, Interrupt
    <3>2. failures \in Nat /\ hiccups \in Nat
      OBVIOUS
    <3> HIDE <1>1
    <3> QED
      BY <1>1, <3>1, <3>2
  <2>2. View(x)
    BY <2>1 DEF Connections
  <2>3. ASSUME NEW p \in Procs, ScanChildren(p) PROVE next_server'[x] = next_server[x]
    <3>1. x = p => SameNext(p)
      BY <2>1, <2>3, SameFound
    <3> QED
      BY <2>3, <3>1 DEF ScanChildren, SameNext, NoNext, NewNext
  <2>4. ASSUME NEW p \in Procs, Connect(p) \/ ConnectFails(p)
        PROVE  next_server'[x] = next_server[x]
    BY <2>2, <2>4 DEF Connect, ConnectFails, View
  <2>5. ASSUME NEW p \in Procs,
               \/ Start(p) \/ WatchChain(p) \/ SyncTable(p) \/ SyncFails(p) \/ CreateNode(p)
               \/ CreateReturns(p) \/ FirstEvent(p) \/ ChildEvent(p) \/ SessionEnds(p)
               \/ SessionEvent(p) \/ Crash(p) \/ Interrupt(p)
        PROVE  next_server'[x] = next_server[x]
    BY <2>5 DEF Start, WatchChain, SyncTable, SyncFails, CreateNode, CreateReturns,
       FirstEvent, ChildEvent, SessionEnds, CloseSession, ExpireSession, SessionEvent,
       Crash, Interrupt
  <2>6. CASE UNCHANGED vars
    BY <2>6 DEF vars
  <2> QED
    BY <2>3, <2>4, <2>5, <2>6 DEF Next, MainStep, CallbackStep
<1>2. IInv /\ Connections /\ [Next]_vars => [NextKept]_vars
  BY <1>1 DEF NextKept
<1> QED
  BY <1>2, InvariantHolds, ConnectionsHold, PTL DEF Spec
==============================================================================
