------------------------- MODULE ClientSessionProofs -------------------------
(***************************************************************************)
(* The invariants and the action property of ClientSession, for any number *)
(* of servers that ever join.  The inductive invariant relates what        *)
(* chain_watcher has read last to /chain, to the names the client knows    *)
(* and to the connections it has; one lemma per part shows that no step    *)
(* breaks it.  At the end the loops of ChainScan, which find the servers   *)
(* to connect to in the list of the children, are shown to return what     *)
(* ClientSession takes of the set of the children.                         *)
(***************************************************************************)
EXTENDS ClientSession, ChainScan, TLAPS, WellFoundedInduction

(* The least element of a set of naturals is one of it.                    *)
LEMMA MinFacts ==
  ASSUME NEW S \in SUBSET Nat, S # {}
  PROVE  Min(S) \in S /\ \A n \in S : Min(S) <= n
<1> DEFINE R == {ss \in Nat \X Nat : ss[1] < ss[2]}
<1>0. IsWellFoundedOn(R, Nat)
  BY NatLessThanWellFounded, Zenon DEF OpToRel
<1>1. \E m \in S : \A n \in S : ~ (<<n, m>> \in R)
  <2> HIDE DEF R
  <2> QED BY <1>0, WFMin
<1>2. \A m, n \in Nat : <<m, n>> \in R <=> m < n
  OBVIOUS
<1>3. \E m \in S : \A n \in S : m <= n
  <2>1. PICK m \in S : \A n \in S : ~ (<<n, m>> \in R)
    BY <1>1
  <2>2. ASSUME NEW n \in S PROVE m <= n
    <3>1. m \in Nat /\ n \in Nat
      OBVIOUS
    <3>2. ~ (n < m)
      <4> HIDE DEF R
      <4> QED BY <1>2, <2>1, <3>1
    <3> QED
      BY <3>1, <3>2
  <2> QED
    BY <2>2
<1> QED
  BY <1>3 DEF Min

(* The greatest element of a bounded set of naturals is one of it.         *)
LEMMA MaxFacts ==
  ASSUME NEW b \in Nat, NEW S \in SUBSET (0 .. b), S # {}
  PROVE  Max(S) \in S /\ \A n \in S : n <= Max(S)
<1> DEFINE T == {b - n : n \in S}
<1>1. T \in SUBSET Nat /\ T # {}
  <2>1. ASSUME NEW n \in S PROVE b - n \in Nat
    OBVIOUS
  <2>2. T \subseteq Nat
    BY <2>1
  <2> QED
    BY <2>2
<1>2. Min(T) \in T /\ \A n \in T : Min(T) <= n
  BY <1>1, MinFacts
<1>3. \E m \in S : \A n \in S : m >= n
  <2>1. PICK m \in S : Min(T) = b - m
    BY <1>2
  <2>2. ASSUME NEW n \in S PROVE m >= n
    <3>1. b - m <= b - n
      BY <1>2, <2>1
    <3> QED
      BY <3>1
  <2> QED
    BY <2>2
<1> QED
  BY <1>3 DEF Max

(* The ends of a list of nodes are nodes of it.                            *)
LEMMA EndsInList ==
  ASSUME TypeOK, NEW S \in SUBSET (1 .. last), S # {}
  PROVE  HeadAndTail(S) \in [Roles -> S]
<1>1. last \in Nat /\ S \in SUBSET (0 .. last) /\ S \in SUBSET Nat
  BY MaxIdAssumption DEF TypeOK
<1>2. Min(S) \in S /\ Max(S) \in S
  BY <1>1, MinFacts, MaxFacts
<1> QED
  BY <1>2 DEF HeadAndTail, Roles

-----------------------------------------------------------------------------
(***************************************************************************)
(* The inductive invariant.                                                *)
(***************************************************************************)

(* main() has stored the names of the two ends.                            *)
Named == {"head", "tail"} \cup Loop

(* The watch is set, or its event is still to be handled; from the first   *)
(* look at /chain on there has been a server.                              *)
Watching ==
  /\ ~(armed /\ event)
  /\ main = "watch" => ~armed /\ ~event /\ cb = "idle"
  /\ Running /\ main # "watch" => (armed \/ event) /\ last > 0

(* The lists at hand are not empty.                                        *)
Listed ==
  /\ main \in {"ids", "head", "tail"} => found # {}
  /\ cb # "idle" => seen # {}

(* While the watch is set, what was read last is what /chain holds, and    *)
(* the ends of it are the names the client knows, once the callback is     *)
(* through.                                                                *)
Fresh ==
  Running /\ armed =>
    /\ cb # "idle" => seen = chain
    /\ cb = "idle" /\ main = "ids" => found = chain
    /\ cb = "idle" /\ main \in Named => chain # {} /\ ids = HeadAndTail(chain)

(* The callback has not got past a name that differs from its list.        *)
Looked ==
  /\ main \in {"watch", "ids"} => cb # "tail" /\ \A r \in Roles : ids[r] = 0 /\ conn[r] = Null
  /\ main \in Named =>
       /\ cb = "tail" => ids["head"] = HeadAndTail(seen)["head"]
       /\ \A r \in Roles : conn[r] = Freed => ids[r] = HeadAndTail(seen)[r]

(* A connection is to the server whose name is known.  One that main() has *)
(* still to open will be, although main() looks at its own list: had the   *)
(* callback changed the name, it would have ended the client.              *)
ConnectedToNamed ==
  main \in Named =>
    /\ \A r \in Roles : conn[r] \in {Null, Freed, ids[r]}
    /\ \A r \in Roles : conn[r] = Null => ids[r] = HeadAndTail(found)[r]
    /\ conn["head"] = Null <=> main = "head"
    /\ conn["tail"] = Null <=> main \in {"head", "tail"}

(* Only the call under way has left something on a living connection, and  *)
(* a call that reads from a closed one leaves nothing on its successor.    *)
WiresClean ==
  /\ \A r \in Roles : conn[r] \in {Null, Freed} => wire[r] = "clean"
  /\ \A r \in Roles : conn[r] \in alive /\ wire[r] # "clean" =>
       r = role /\ main \in {"body", "await", "read", "await2", "read2", "quit", "exit"}
  /\ main \in {"read", "read2"} /\ old # NoConn => wire[role] = "clean"

IInv == TypeOK /\ Watching /\ Listed /\ Fresh /\ Looked /\ ConnectedToNamed /\ WiresClean

-----------------------------------------------------------------------------
(***************************************************************************)
(* Every step keeps every part of it.                                      *)
(***************************************************************************)

(* Types, and what TypeOK says besides: every step keeps them.             *)
LEMMA TypeOKStep ==
  ASSUME IInv, [Next]_vars
  PROVE  TypeOK'
<1> USE MaxIdAssumption DEF Running, Starting, Loop, InCall, Stages, Roles, Null, Freed,
        Wires, NoConn, envVars, mainVars, netVars, cbVars, Named
<1> USE DEF IInv, TypeOK
<1>1. CASE ServerJoins
  <2>1. last' = last + 1 /\ last' \in 0 .. MaxId /\ Freed # last'
    BY <1>1 DEF ServerJoins
  <2>2. /\ 1 .. last \subseteq 1 .. last' /\ 0 .. last \subseteq 0 .. last'
        /\ last' \in 1 .. last'
    BY <2>1
  <2>3. /\ alive' \subseteq chain' /\ chain' \subseteq 1 .. last'
        /\ armed' \in BOOLEAN /\ event' \in BOOLEAN
    BY <1>1, <2>1, <2>2 DEF ServerJoins, FireWatch
  <2>4. UNCHANGED <<mainVars, ids, netVars, cbVars>>
    BY <1>1 DEF ServerJoins
  <2>5. /\ ids \in [Roles -> 0 .. last'] /\ conn \in [Roles -> (0 .. last') \cup {Freed}]
        /\ old \in [server : 0 .. last', wire : Wires]
        /\ found \subseteq 1 .. last' /\ seen \subseteq 1 .. last'
    BY <2>2
  <2> QED
    BY <2>1, <2>3, <2>4, <2>5
<1>2. CASE ServerAnswers
  BY <1>2 DEF ServerAnswers
<1>3. ASSUME NEW n \in 1 .. MaxId, ServerStops(n) PROVE TypeOK'
  BY <1>3 DEF ServerStops
<1>4. ASSUME NEW n \in 1 .. MaxId, NodeGoes(n) PROVE TypeOK'
  BY <1>4 DEF NodeGoes, FireWatch
<1>5. CASE WatchChain
  BY <1>5 DEF WatchChain, Goto
<1>6. CASE StoreIds
  <2>1. found \in SUBSET (1 .. last) /\ found # {} /\ main = "ids"
    BY <1>6 DEF StoreIds, Listed
  <2>2. HeadAndTail(found) \in [Roles -> 1 .. last]
    BY <2>1, EndsInList
  <2>3. ids' \in [Roles -> 0 .. last]
    BY <1>6, <2>2 DEF StoreIds
  <2> QED
    BY <1>6, <2>1, <2>3 DEF StoreIds, Goto
<1>7. ASSUME NEW r \in Roles, ConnectEnd(r) PROVE TypeOK'
  BY <1>7 DEF ConnectEnd, Goto, Reachable, Watching, Listed, Looked, ConnectedToNamed
<1>8. ASSUME NEW r \in Roles, Command(r) PROVE TypeOK'
  BY <1>8 DEF Command, Goto
<1>9. CASE Quit
  BY <1>9 DEF Quit, Goto
<1>10. CASE TakeSocket
  BY <1>10 DEF TakeSocket, Goto
<1>11. CASE WriteLength \/ WriteMessage
  BY <1>11, ZenonT(60) DEF WriteLength, WriteMessage, Write, Here, Goto
<1>12. CASE BeginRead
  BY <1>12 DEF BeginRead, Here, Goto
<1>13. CASE EndRead
  BY <1>13 DEF EndRead, ReadEnds, Reading, Here, Goto
<1>14. CASE ChildEvent
  BY <1>14 DEF ChildEvent, Goto
<1>15. ASSUME NEW r \in Roles, SameEnd(r) PROVE TypeOK'
  BY <1>15 DEF SameEnd, After
<1>16. ASSUME NEW r \in Roles, CloseEnd(r) PROVE TypeOK'
  <2>1. HeadAndTail(seen)[r] \in 1 .. last /\ cb = r
    <3>1. cb = r /\ cb # "idle"
      BY <1>16 DEF CloseEnd
    <3>2. seen \in SUBSET (1 .. last) /\ seen # {}
      BY <3>1 DEF Listed
    <3>3. HeadAndTail(seen) \in [Roles -> seen]
      BY <3>2, EndsInList
    <3> QED
      BY <3>1, <3>2, <3>3
  <2>2. ids' \in [Roles -> 0 .. last]
    BY <1>16, <2>1 DEF CloseEnd
  <2>3. CASE conn[r] = Null
    BY <1>16, <2>1, <2>2, <2>3 DEF CloseEnd, Goto
  <2>4. CASE conn[r] # Null
    <3>1. [server |-> conn[r], wire |-> wire[r]] \in [server : 0 .. last, wire : Wires]
      BY <1>16, <2>4 DEF CloseEnd
    <3>2. /\ old' \in [server : 0 .. last, wire : Wires]
          /\ old' # NoConn => main \in {"read", "read2", "quit", "exit"}
      BY <1>16, <2>4, <3>1 DEF CloseEnd
    <3>3. /\ conn' = [conn EXCEPT ![r] = Freed] /\ wire' = [wire EXCEPT ![r] = "clean"]
          /\ stale' = (stale \/ (main = "enter" /\ role = r))
          /\ UNCHANGED <<main, envVars, found, role, cbVars>>
      BY <1>16, <2>4 DEF CloseEnd
    <3> QED
      BY <2>1, <2>2, <3>2, <3>3
  <2> QED
    BY <2>3, <2>4
<1>17. ASSUME NEW r \in Roles, OpenEnd(r) PROVE TypeOK'
  BY <1>17 DEF OpenEnd, After, Goto, Reachable
<1>18. CASE UNCHANGED vars
  BY <1>18 DEF vars
<1> QED
  BY <1>1, <1>2, <1>3, <1>4, <1>5, <1>6, <1>7, <1>8, <1>9, <1>10, <1>11, <1>12, <1>13,
     <1>14, <1>15, <1>16, <1>17, <1>18 DEF Next, Servers, Start, CallStep, Watcher

(* No step loses the watch and its event both.                             *)
LEMMA WatchingStep ==
  ASSUME IInv, [Next]_vars
  PROVE  Watching'
<1> USE MaxIdAssumption DEF Running, Starting, Loop, InCall, Stages, Roles, Null, Freed,
        Wires, NoConn, envVars, mainVars, netVars, cbVars, Named
<1> USE DEF IInv, TypeOK
<1>1. CASE ServerJoins
  BY <1>1 DEF ServerJoins, FireWatch, Watching
<1>2. CASE ServerAnswers
  BY <1>2 DEF ServerAnswers, Watching
<1>3. ASSUME NEW n \in 1 .. MaxId, ServerStops(n) PROVE Watching'
  BY <1>3 DEF ServerStops, Watching
<1>4. ASSUME NEW n \in 1 .. MaxId, NodeGoes(n) PROVE Watching'
  BY <1>4 DEF NodeGoes, FireWatch, Watching
<1>5. CASE WatchChain
  BY <1>5 DEF WatchChain, Goto, Watching
<1>6. CASE StoreIds
  BY <1>6 DEF StoreIds, Goto, Watching
<1>7. ASSUME NEW r \in Roles, ConnectEnd(r) PROVE Watching'
  BY <1>7 DEF ConnectEnd, Goto, Reachable, Watching
<1>8. ASSUME NEW r \in Roles, Command(r) PROVE Watching'
  BY <1>8 DEF Command, Goto, Watching
<1>9. CASE Quit
  BY <1>9 DEF Quit, Goto, Watching
<1>10. CASE TakeSocket
  BY <1>10 DEF TakeSocket, Goto, Watching
<1>11. CASE WriteLength \/ WriteMessage
  BY <1>11 DEF WriteLength, WriteMessage, Write, Here, Goto, Watching
<1>12. CASE BeginRead
  BY <1>12 DEF BeginRead, Here, Goto, Watching
<1>13. CASE EndRead
  BY <1>13 DEF EndRead, ReadEnds, Reading, Here, Goto, Watching
<1>14. CASE ChildEvent
  BY <1>14 DEF ChildEvent, Goto, Watching
<1>15. ASSUME NEW r \in Roles, SameEnd(r) PROVE Watching'
  BY <1>15 DEF SameEnd, After, Watching
<1>16. ASSUME NEW r \in Roles, CloseEnd(r) PROVE Watching'
  BY <1>16 DEF CloseEnd, Goto, Watching
<1>17. ASSUME NEW r \in Roles, OpenEnd(r) PROVE Watching'
  BY <1>17 DEF OpenEnd, After, Goto, Reachable, Watching
<1>18. CASE UNCHANGED vars
  BY <1>18 DEF vars, Watching
<1> QED
  BY <1>1, <1>2, <1>3, <1>4, <1>5, <1>6, <1>7, <1>8, <1>9, <1>10, <1>11, <1>12, <1>13,
     <1>14, <1>15, <1>16, <1>17, <1>18 DEF Next, Servers, Start, CallStep, Watcher

(* main() and the callback go on with a list only when it has an element.  *)
LEMMA ListedStep ==
  ASSUME IInv, [Next]_vars
  PROVE  Listed'
<1> USE MaxIdAssumption DEF Running, Starting, Loop, InCall, Stages, Roles, Null, Freed,
        Wires, NoConn, envVars, mainVars, netVars, cbVars, Named
<1> USE DEF IInv, TypeOK
<1>1. CASE ServerJoins
  BY <1>1 DEF ServerJoins, FireWatch, Listed
<1>2. CASE ServerAnswers
  BY <1>2 DEF ServerAnswers, Listed
<1>3. ASSUME NEW n \in 1 .. MaxId, ServerStops(n) PROVE Listed'
  BY <1>3 DEF ServerStops, Listed
<1>4. ASSUME NEW n \in 1 .. MaxId, NodeGoes(n) PROVE Listed'
  BY <1>4 DEF NodeGoes, FireWatch, Listed
<1>5. CASE WatchChain
  BY <1>5 DEF WatchChain, Goto, Listed
<1>6. CASE StoreIds
  BY <1>6 DEF StoreIds, Goto, Listed
<1>7. ASSUME NEW r \in Roles, ConnectEnd(r) PROVE Listed'
  BY <1>7 DEF ConnectEnd, Goto, Reachable, Listed
<1>8. ASSUME NEW r \in Roles, Command(r) PROVE Listed'
  BY <1>8 DEF Command, Goto, Listed
<1>9. CASE Quit
  BY <1>9 DEF Quit, Goto, Listed
<1>10. CASE TakeSocket
  BY <1>10 DEF TakeSocket, Goto, Listed
<1>11. CASE WriteLength \/ WriteMessage
  BY <1>11 DEF WriteLength, WriteMessage, Write, Here, Goto, Listed
<1>12. CASE BeginRead
  BY <1>12 DEF BeginRead, Here, Goto, Listed
<1>13. CASE EndRead
  BY <1>13 DEF EndRead, ReadEnds, Reading, Here, Goto, Listed
<1>14. CASE ChildEvent
  BY <1>14 DEF ChildEvent, Goto, Listed
<1>15. ASSUME NEW r \in Roles, SameEnd(r) PROVE Listed'
  BY <1>15 DEF SameEnd, After, Listed
<1>16. ASSUME NEW r \in Roles, CloseEnd(r) PROVE Listed'
  BY <1>16 DEF CloseEnd, Goto, Listed
<1>17. ASSUME NEW r \in Roles, OpenEnd(r) PROVE Listed'
  BY <1>17 DEF OpenEnd, After, Goto, Reachable, Listed
<1>18. CASE UNCHANGED vars
  BY <1>18 DEF vars, Listed
<1> QED
  BY <1>1, <1>2, <1>3, <1>4, <1>5, <1>6, <1>7, <1>8, <1>9, <1>10, <1>11, <1>12, <1>13,
     <1>14, <1>15, <1>16, <1>17, <1>18 DEF Next, Servers, Start, CallStep, Watcher

(* As long as the watch has not fired, the list read last is /chain, and a *)
(* callback that is through has stored its ends.                           *)
LEMMA FreshStep ==
  ASSUME IInv, [Next]_vars
  PROVE  Fresh'
<1> USE MaxIdAssumption DEF Running, Starting, Loop, InCall, Stages, Roles, Null, Freed,
        Wires, NoConn, envVars, mainVars, netVars, cbVars, Named
<1> USE DEF IInv, TypeOK
<1>1. CASE ServerJoins
  BY <1>1 DEF ServerJoins, FireWatch, Fresh
<1>2. CASE ServerAnswers
  BY <1>2 DEF ServerAnswers, Fresh
<1>3. ASSUME NEW n \in 1 .. MaxId, ServerStops(n) PROVE Fresh'
  BY <1>3 DEF ServerStops, Fresh
<1>4. ASSUME NEW n \in 1 .. MaxId, NodeGoes(n) PROVE Fresh'
  BY <1>4 DEF NodeGoes, FireWatch, Fresh
<1>5. CASE WatchChain
  BY <1>5 DEF WatchChain, Goto, Fresh, Watching, Listed, Looked, ConnectedToNamed
<1>6. CASE StoreIds
  BY <1>6 DEF StoreIds, Goto, Fresh, Watching, Listed, Looked, ConnectedToNamed
<1>7. ASSUME NEW r \in Roles, ConnectEnd(r) PROVE Fresh'
  BY <1>7 DEF ConnectEnd, Goto, Reachable, Fresh
<1>8. ASSUME NEW r \in Roles, Command(r) PROVE Fresh'
  BY <1>8 DEF Command, Goto, Fresh
<1>9. CASE Quit
  BY <1>9 DEF Quit, Goto, Fresh
<1>10. CASE TakeSocket
  BY <1>10 DEF TakeSocket, Goto, Fresh
<1>11. CASE WriteLength \/ WriteMessage
  BY <1>11 DEF WriteLength, WriteMessage, Write, Here, Goto, Fresh
<1>12. CASE BeginRead
  BY <1>12 DEF BeginRead, Here, Goto, Fresh
<1>13. CASE EndRead
  BY <1>13 DEF EndRead, ReadEnds, Reading, Here, Goto, Fresh
<1>14. CASE ChildEvent
  BY <1>14 DEF ChildEvent, Goto, Fresh
<1>15. ASSUME NEW r \in Roles, SameEnd(r) PROVE Fresh'
  BY <1>15, EndsInList DEF SameEnd, After, Fresh, Watching, Listed, Looked,
     ConnectedToNamed
<1>16. ASSUME NEW r \in Roles, CloseEnd(r) PROVE Fresh'
  BY <1>16 DEF CloseEnd, Goto, Fresh
<1>17. ASSUME NEW r \in Roles, OpenEnd(r) PROVE Fresh'
  BY <1>17, EndsInList DEF OpenEnd, After, Goto, Reachable, Fresh, Watching, Listed,
     Looked, ConnectedToNamed
<1>18. CASE UNCHANGED vars
  BY <1>18 DEF vars, Fresh
<1> QED
  BY <1>1, <1>2, <1>3, <1>4, <1>5, <1>6, <1>7, <1>8, <1>9, <1>10, <1>11, <1>12, <1>13,
     <1>14, <1>15, <1>16, <1>17, <1>18 DEF Next, Servers, Start, CallStep, Watcher

(* chain_watcher stores a name before it frees the connection, and gets to *)
(* the tail only with the head's name in order.                            *)
LEMMA LookedStep ==
  ASSUME IInv, [Next]_vars
  PROVE  Looked'
<1> USE MaxIdAssumption DEF Running, Starting, Loop, InCall, Stages, Roles, Null, Freed,
        Wires, NoConn, envVars, mainVars, netVars, cbVars, Named
<1> USE DEF IInv, TypeOK
<1>1. CASE ServerJoins
  BY <1>1 DEF ServerJoins, FireWatch, Looked
<1>2. CASE ServerAnswers
  BY <1>2 DEF ServerAnswers, Looked
<1>3. ASSUME NEW n \in 1 .. MaxId, ServerStops(n) PROVE Looked'
  BY <1>3 DEF ServerStops, Looked
<1>4. ASSUME NEW n \in 1 .. MaxId, NodeGoes(n) PROVE Looked'
  BY <1>4 DEF NodeGoes, FireWatch, Looked
<1>5. CASE WatchChain
  BY <1>5 DEF WatchChain, Goto, Looked
<1>6. CASE StoreIds
  BY <1>6 DEF StoreIds, Goto, Looked
<1>7. ASSUME NEW r \in Roles, ConnectEnd(r) PROVE Looked'
  BY <1>7 DEF ConnectEnd, Goto, Reachable, Looked
<1>8. ASSUME NEW r \in Roles, Command(r) PROVE Looked'
  BY <1>8 DEF Command, Goto, Looked
<1>9. CASE Quit
  BY <1>9 DEF Quit, Goto, Looked
<1>10. CASE TakeSocket
  BY <1>10 DEF TakeSocket, Goto, Looked
<1>11. CASE WriteLength \/ WriteMessage
  BY <1>11 DEF WriteLength, WriteMessage, Write, Here, Goto, Looked
<1>12. CASE BeginRead
  BY <1>12 DEF BeginRead, Here, Goto, Looked
<1>13. CASE EndRead
  BY <1>13 DEF EndRead, ReadEnds, Reading, Here, Goto, Looked
<1>14. CASE ChildEvent
  BY <1>14 DEF ChildEvent, Goto, Looked
<1>15. ASSUME NEW r \in Roles, SameEnd(r) PROVE Looked'
  BY <1>15, EndsInList DEF SameEnd, After, Looked, Watching, Listed, ConnectedToNamed
<1>16. ASSUME NEW r \in Roles, CloseEnd(r) PROVE Looked'
  BY <1>16 DEF CloseEnd, Goto, Looked
<1>17. ASSUME NEW r \in Roles, OpenEnd(r) PROVE Looked'
  BY <1>17 DEF OpenEnd, After, Goto, Reachable, Looked
<1>18. CASE UNCHANGED vars
  BY <1>18 DEF vars, Looked
<1> QED
  BY <1>1, <1>2, <1>3, <1>4, <1>5, <1>6, <1>7, <1>8, <1>9, <1>10, <1>11, <1>12, <1>13,
     <1>14, <1>15, <1>16, <1>17, <1>18 DEF Next, Servers, Start, CallStep, Watcher

(* main() and the callback connect to the name that is stored, whichever of *)
(* the two comes first.                                                    *)
LEMMA ConnectedToNamedStep ==
  ASSUME IInv, [Next]_vars
  PROVE  ConnectedToNamed'
<1> USE MaxIdAssumption DEF Running, Starting, Loop, InCall, Stages, Roles, Null, Freed,
        Wires, NoConn, envVars, mainVars, netVars, cbVars, Named
<1> USE DEF IInv, TypeOK
<1>1. CASE ServerJoins
  BY <1>1 DEF ServerJoins, FireWatch, ConnectedToNamed
<1>2. CASE ServerAnswers
  BY <1>2 DEF ServerAnswers, ConnectedToNamed
<1>3. ASSUME NEW n \in 1 .. MaxId, ServerStops(n) PROVE ConnectedToNamed'
  BY <1>3 DEF ServerStops, ConnectedToNamed
<1>4. ASSUME NEW n \in 1 .. MaxId, NodeGoes(n) PROVE ConnectedToNamed'
  BY <1>4 DEF NodeGoes, FireWatch, ConnectedToNamed
<1>5. CASE WatchChain
  BY <1>5 DEF WatchChain, Goto, ConnectedToNamed
<1>6. CASE StoreIds
  BY <1>6 DEF StoreIds, Goto, ConnectedToNamed, Watching, Listed, Looked
<1>7. ASSUME NEW r \in Roles, ConnectEnd(r) PROVE ConnectedToNamed'
  BY <1>7 DEF ConnectEnd, Goto, Reachable, ConnectedToNamed
<1>8. ASSUME NEW r \in Roles, Command(r) PROVE ConnectedToNamed'
  BY <1>8 DEF Command, Goto, ConnectedToNamed
<1>9. CASE Quit
  BY <1>9 DEF Quit, Goto, ConnectedToNamed
<1>10. CASE TakeSocket
  BY <1>10 DEF TakeSocket, Goto, ConnectedToNamed
<1>11. CASE WriteLength \/ WriteMessage
  BY <1>11 DEF WriteLength, WriteMessage, Write, Here, Goto, ConnectedToNamed
<1>12. CASE BeginRead
  BY <1>12 DEF BeginRead, Here, Goto, ConnectedToNamed
<1>13. CASE EndRead
  BY <1>13 DEF EndRead, ReadEnds, Reading, Here, Goto, ConnectedToNamed
<1>14. CASE ChildEvent
  BY <1>14 DEF ChildEvent, Goto, ConnectedToNamed
<1>15. ASSUME NEW r \in Roles, SameEnd(r) PROVE ConnectedToNamed'
  BY <1>15 DEF SameEnd, After, ConnectedToNamed
<1>16. ASSUME NEW r \in Roles, CloseEnd(r) PROVE ConnectedToNamed'
  BY <1>16 DEF CloseEnd, Goto, ConnectedToNamed
<1>17. ASSUME NEW r \in Roles, OpenEnd(r) PROVE ConnectedToNamed'
  BY <1>17 DEF OpenEnd, After, Goto, Reachable, ConnectedToNamed
<1>18. CASE UNCHANGED vars
  BY <1>18 DEF vars, ConnectedToNamed
<1> QED
  BY <1>1, <1>2, <1>3, <1>4, <1>5, <1>6, <1>7, <1>8, <1>9, <1>10, <1>11, <1>12, <1>13,
     <1>14, <1>15, <1>16, <1>17, <1>18 DEF Next, Servers, Start, CallStep, Watcher

(* What a call writes on a connection it reads from it, or the connection  *)
(* is gone; a call whose connection was closed under it leaves the new one *)
(* as it was.                                                              *)
LEMMA WiresCleanStep ==
  ASSUME IInv, [Next]_vars
  PROVE  WiresClean'
<1> USE MaxIdAssumption DEF Running, Starting, Loop, InCall, Stages, Roles, Null, Freed,
        Wires, NoConn, envVars, mainVars, netVars, cbVars, Named
<1> USE DEF IInv, TypeOK
<1>1. CASE ServerJoins
  BY <1>1 DEF ServerJoins, FireWatch, WiresClean
<1>2. CASE ServerAnswers
  BY <1>2 DEF ServerAnswers, WiresClean
<1>3. ASSUME NEW n \in 1 .. MaxId, ServerStops(n) PROVE WiresClean'
  BY <1>3 DEF ServerStops, WiresClean
<1>4. ASSUME NEW n \in 1 .. MaxId, NodeGoes(n) PROVE WiresClean'
  BY <1>4 DEF NodeGoes, FireWatch, WiresClean
<1>5. CASE WatchChain
  BY <1>5 DEF WatchChain, Goto, WiresClean
<1>6. CASE StoreIds
  BY <1>6 DEF StoreIds, Goto, WiresClean
<1>7. ASSUME NEW r \in Roles, ConnectEnd(r) PROVE WiresClean'
  BY <1>7 DEF ConnectEnd, Goto, Reachable, WiresClean, Watching, Listed, Looked,
     ConnectedToNamed
<1>8. ASSUME NEW r \in Roles, Command(r) PROVE WiresClean'
  BY <1>8 DEF Command, Goto, WiresClean
<1>9. CASE Quit
  BY <1>9 DEF Quit, Goto, WiresClean
<1>10. CASE TakeSocket
  BY <1>10 DEF TakeSocket, Goto, WiresClean
<1>11. CASE WriteLength \/ WriteMessage
  BY <1>11 DEF WriteLength, WriteMessage, Write, Here, Goto, WiresClean
<1>12. CASE BeginRead
  BY <1>12 DEF BeginRead, Here, Goto, WiresClean
<1>13. CASE EndRead
  BY <1>13 DEF EndRead, ReadEnds, Reading, Here, Goto, WiresClean
<1>14. CASE ChildEvent
  BY <1>14 DEF ChildEvent, Goto, WiresClean
<1>15. ASSUME NEW r \in Roles, SameEnd(r) PROVE WiresClean'
  BY <1>15 DEF SameEnd, After, WiresClean
<1>16. ASSUME NEW r \in Roles, CloseEnd(r) PROVE WiresClean'
  BY <1>16 DEF CloseEnd, Goto, WiresClean
<1>17. ASSUME NEW r \in Roles, OpenEnd(r) PROVE WiresClean'
  BY <1>17 DEF OpenEnd, After, Goto, Reachable, WiresClean
<1>18. CASE UNCHANGED vars
  BY <1>18 DEF vars, WiresClean
<1> QED
  BY <1>1, <1>2, <1>3, <1>4, <1>5, <1>6, <1>7, <1>8, <1>9, <1>10, <1>11, <1>12, <1>13,
     <1>14, <1>15, <1>16, <1>17, <1>18 DEF Next, Servers, Start, CallStep, Watcher

-----------------------------------------------------------------------------
(***************************************************************************)
(* What follows for every behaviour.                                       *)
(***************************************************************************)

(* A client that has just been started is in order.                        *)
LEMMA InitInvariant == Init => IInv
<1> USE MaxIdAssumption DEF Running, Starting, Loop, InCall, Stages, Roles, Null, Freed,
        Wires, NoConn, Named
<1> SUFFICES ASSUME Init PROVE IInv
  OBVIOUS
<1>1. TypeOK
  <2>1. 0 \in 0 .. MaxId /\ 0 \in 0 .. 0 /\ 0 # Freed
    OBVIOUS
  <2>2. old \in [server : 0 .. last, wire : Wires] /\ old = NoConn
    BY <2>1 DEF Init
  <2>3. /\ ids \in [Roles -> 0 .. last] /\ conn \in [Roles -> (0 .. last) \cup {Freed}]
        /\ wire \in [Roles -> Wires]
        /\ \A r \in Roles : conn[r] = Freed => cb = r
    BY <2>1 DEF Init
  <2> QED
    BY <2>1, <2>2, <2>3 DEF Init, TypeOK
<1>2. Watching /\ Listed /\ Fresh
  BY DEF Init, Watching, Listed, Fresh
<1>3. Looked /\ ConnectedToNamed /\ WiresClean
  BY DEF Init, Looked, ConnectedToNamed, WiresClean
<1> QED
  BY <1>1, <1>2, <1>3 DEF IInv

(* The inductive invariant holds in every reachable state.                 *)
THEOREM InvariantHolds == Spec => []IInv
<1>1. IInv /\ [Next]_vars => IInv'
  BY TypeOKStep, WatchingStep, ListedStep, FreshStep, LookedStep, ConnectedToNamedStep,
     WiresCleanStep DEF IInv
<1> QED
  BY <1>1, InitInvariant, PTL DEF Spec

(* Type correctness; a structure is freed only while the callback works on *)
(* it.                                                                     *)
THEOREM TypeCorrect == Spec => []TypeOK
<1>1. IInv => TypeOK
  BY DEF IInv
<1> QED
  BY <1>1, InvariantHolds, PTL

(* With no event under way the client is connected to the first and to the *)
(* last server of /chain, however the events, the start of main() and the  *)
(* callback were interleaved before.                                       *)
THEOREM EndsAtRestCorrect == Spec => []EndsAtRest
<1>1. IInv => EndsAtRest
  <2> SUFFICES ASSUME IInv, main \in Loop, cb = "idle", ~event
               PROVE  chain # {} /\ conn = HeadAndTail(chain)
    BY DEF EndsAtRest
  <2>1. armed /\ Running /\ main \in Named
    BY DEF IInv, Watching, Running, Named, Loop, InCall
  <2>2. chain # {} /\ ids = HeadAndTail(chain)
    BY <2>1 DEF IInv, Fresh
  <2>3. ASSUME NEW r \in Roles PROVE conn[r] = ids[r]
    <3>1. conn[r] # Freed
      BY DEF IInv, TypeOK, Roles
    <3>2. conn[r] # Null
      BY <2>1 DEF IInv, ConnectedToNamed, Roles, Loop, InCall
    <3> QED
      BY <2>1, <3>1, <3>2 DEF IInv, ConnectedToNamed
  <2>4. conn = ids
    BY <2>3 DEF IInv, TypeOK
  <2> QED
    BY <2>2, <2>4
<1> QED
  BY <1>1, InvariantHolds, PTL

(* Between two commands no living connection carries anything a call       *)
(* before left there: the next answer read is that of the next request.    *)
THEOREM NoStrayAnswerCorrect == Spec => []NoStrayAnswer
<1>1. IInv => NoStrayAnswer
  BY DEF IInv, WiresClean, NoStrayAnswer
<1> QED
  BY <1>1, InvariantHolds, PTL

(* The one step of chain_watcher that ends a client in the command loop    *)
(* finds no node at all, or one whose server does not listen any more.     *)
LEMMA EndOfLoop ==
  ASSUME IInv, Next, main \in Loop, main' = "exit"
  PROVE  alive # 1 .. last
<1> USE MaxIdAssumption DEF Roles, Null, Freed
<1>1. Running /\ main # "watch" /\ main \in Named /\ main \notin Starting
  BY DEF Running, Loop, InCall, Named, Starting
<1>2. 1 \in 1 .. last
  BY <1>1 DEF IInv, TypeOK, Watching
<1>3. CASE ChildEvent
  <2>1. chain = {}
    BY <1>3 DEF ChildEvent, Goto, Loop, InCall
  <2> QED
    BY <1>2, <2>1 DEF IInv, TypeOK
<1>4. ASSUME NEW r \in Roles, SameEnd(r) \/ CloseEnd(r) PROVE FALSE
  <2>1. conn[r] # Null
    BY <1>1 DEF IInv, ConnectedToNamed, Loop, InCall
  <2> QED
    BY <1>4, <2>1 DEF SameEnd, CloseEnd, mainVars, Loop, InCall
<1>5. ASSUME NEW r \in Roles, OpenEnd(r) PROVE alive # 1 .. last
  <2>1. cb = r /\ conn[r] = Freed /\ ids[r] \notin alive
    BY <1>5 DEF OpenEnd, Goto, Reachable, Loop, InCall
  <2>2. seen \in SUBSET (1 .. last) /\ seen # {}
    BY <2>1 DEF IInv, TypeOK, Listed
  <2>3. HeadAndTail(seen) \in [Roles -> seen]
    BY <2>2, EndsInList DEF IInv
  <2>4. ids[r] = HeadAndTail(seen)[r]
    BY <1>1, <2>1 DEF IInv, Looked
  <2> QED
    BY <2>1, <2>2, <2>3, <2>4
<1>6. CASE Servers \/ Start
  BY <1>1, <1>6 DEF Servers, ServerJoins, ServerAnswers, ServerStops, NodeGoes, Start,
     WatchChain, StoreIds, ConnectEnd, mainVars, Loop, InCall, Starting
<1>7. CASE (\E r \in Roles : Command(r)) \/ Quit
  BY <1>7 DEF Command, Quit, Goto
<1>8. CASE CallStep
  BY <1>8 DEF CallStep, TakeSocket, WriteLength, WriteMessage, Write, BeginRead, EndRead,
     ReadEnds, Goto
<1> QED
  BY <1>3, <1>4, <1>5, <1>6, <1>7, <1>8 DEF Next, Watcher

(* A client in the command loop terminates by itself only after some       *)
(* server has stopped: no order of joins, events and calls ends it.        *)
THEOREM OnlyStopsEndClientCorrect == Spec => OnlyStopsEndClient
<1>1. IInv /\ [Next]_vars => [(main \in Loop /\ main' = "exit") => alive # 1 .. last]_vars
  BY EndOfLoop
<1> QED
  BY <1>1, InvariantHolds, PTL DEF Spec, OnlyStopsEndClient

-----------------------------------------------------------------------------
(***************************************************************************)
(* The loops over the children of /chain, from which the client and the    *)
(* servers take the servers they connect to (ChainScan), for lists of any  *)
(* length and any numbers.                                                 *)
(***************************************************************************)

(* The types and what each loop has found so far.                          *)
ScanIInv == ScanTypeOK /\ EndsFound /\ NextFound /\ LastFound

(* The numbers the loops compare are integers.                             *)
LEMMA ListType ==
  ASSUME ScanTypeOK, NEW j \in 0 .. count - 1
  PROVE  list[j] \in Nat /\ mine \in Nat
  BY ScanAssumption DEF ScanTypeOK

(* Before the first turn all that was looked at is the first child.        *)
LEMMA ScanInitInvariant ==
  ASSUME ScanInit
  PROVE  ScanIInv
<1>1. ScanTypeOK
  BY ScanAssumption DEF ScanInit, ScanTypeOK, Seen
<1>2. EndsFound /\ LastFound
  <2> SUFFICES ASSUME loop # "next", NEW j \in Seen
               PROVE  j = 0 /\ head_index = 0 /\ tail_index = 0 /\ list[0] \in Nat
    BY DEF EndsFound, LastFound
  <2>1. j = 0 /\ 0 \in 0 .. count - 1
    BY DEF ScanInit, Seen
  <2> QED
    BY <1>1, <2>1, ListType DEF ScanInit
<1>3. NextFound
  BY DEF ScanInit, NextFound, Seen
<1> QED
  BY <1>1, <1>2, <1>3 DEF ScanIInv

(* A turn of get_head_and_tail_ids: the head is never after the tail.      *)
LEMMA EndsTurnStep ==
  ASSUME ScanIInv, EndsTurn
  PROVE  ScanIInv'
<1> USE DEF EndsTurn, In
<1>0. /\ i \in 0 .. count - 1 /\ i \in Nat /\ Seen' = Seen \cup {i}
      /\ head_index \in Seen /\ tail_index \in Seen
  BY DEF ScanIInv, ScanTypeOK, Seen
<1>1. ScanTypeOK'
  BY <1>0 DEF ScanIInv, ScanTypeOK, Seen
<1>2. EndsFound'
  <2> SUFFICES ASSUME NEW j \in Seen'
               PROVE  list[head_index'] <= list[j] /\ list[j] <= list[tail_index']
    BY DEF EndsFound
  <2>1. /\ list[i] \in Nat /\ list[j] \in Nat
        /\ list[head_index] \in Nat /\ list[tail_index] \in Nat
    BY <1>0, ListType DEF ScanIInv, ScanTypeOK, Seen
  <2>2. \A k \in Seen : list[head_index] <= list[k] /\ list[k] <= list[tail_index]
    BY DEF ScanIInv, EndsFound
  <2>3. list[head_index] <= list[tail_index]
    BY <1>0, <2>2
  <2>4. CASE j = i
    BY <2>1, <2>3, <2>4
  <2>5. CASE j \in Seen
    BY <2>1, <2>2, <2>5
  <2> QED
    BY <1>0, <2>4, <2>5
<1>3. NextFound' /\ LastFound'
  BY DEF NextFound, LastFound
<1> QED
  BY <1>1, <1>2, <1>3 DEF ScanIInv

(* A turn of the search for the server after the own one.                  *)
LEMMA NextTurnStep ==
  ASSUME ScanIInv, NextTurn
  PROVE  ScanIInv'
<1> USE DEF NextTurn, In
<1>0. /\ i \in 0 .. count - 1 /\ i \in Nat /\ Seen' = Seen \cup {i}
      /\ next \in Seen \cup {-1}
  BY DEF ScanIInv, ScanTypeOK, Seen
<1>1. ScanTypeOK'
  BY <1>0 DEF ScanIInv, ScanTypeOK, Seen
<1>2. NextFound'
  <2>1. list[i] \in Nat /\ mine \in Nat /\ i # -1 /\ (next # -1 => list[next] \in Nat)
    BY <1>0, ListType DEF ScanIInv, ScanTypeOK, Seen
  <2>2. \A k \in Seen :
          list[k] \in Nat /\ (list[k] > mine => next # -1 /\ list[next] <= list[k])
    BY <1>0, ListType DEF ScanIInv, ScanTypeOK, NextFound, Seen
  <2>3. next # -1 => list[next] > mine
    BY DEF ScanIInv, NextFound
  <2>4. next' # -1 => list[next'] > mine
    BY <2>1, <2>3
  <2>5. ASSUME NEW j \in Seen', list[j] > mine
        PROVE  next' # -1 /\ list[next'] <= list[j]
    <3>1. CASE j = i
      BY <2>1, <2>5, <3>1
    <3>2. CASE j \in Seen
      BY <2>1, <2>2, <2>5, <3>2
    <3> QED
      BY <1>0, <3>1, <3>2
  <2> QED
    BY <2>4, <2>5 DEF NextFound
<1>3. EndsFound' /\ LastFound'
  BY DEF EndsFound, LastFound
<1> QED
  BY <1>1, <1>2, <1>3 DEF ScanIInv

(* A turn of the search for the last server.                               *)
LEMMA LastTurnStep ==
  ASSUME ScanIInv, LastTurn
  PROVE  ScanIInv'
<1> USE DEF LastTurn, In
<1>0. /\ i \in 0 .. count - 1 /\ i \in Nat /\ Seen' = Seen \cup {i}
      /\ tail_index \in Seen
  BY DEF ScanIInv, ScanTypeOK, Seen
<1>1. ScanTypeOK'
  BY <1>0 DEF ScanIInv, ScanTypeOK, Seen
<1>2. LastFound'
  <2> SUFFICES ASSUME NEW j \in Seen' PROVE list[j] <= list[tail_index']
    BY DEF LastFound
  <2>1. list[i] \in Nat /\ list[j] \in Nat /\ list[tail_index] \in Nat
    BY <1>0, ListType DEF ScanIInv, ScanTypeOK, Seen
  <2>2. \A k \in Seen : list[k] <= list[tail_index]
    BY DEF ScanIInv, LastFound
  <2>3. CASE j = i
    BY <2>1, <2>3
  <2>4. CASE j \in Seen
    BY <2>1, <2>2, <2>4
  <2> QED
    BY <1>0, <2>3, <2>4
<1>3. EndsFound' /\ NextFound'
  BY DEF EndsFound, NextFound
<1> QED
  BY <1>1, <1>2, <1>3 DEF ScanIInv

(* The invariants of the three loops hold after every turn.                *)
THEOREM ScanInvariantHolds == ScanSpec => []ScanIInv
<1>1. ScanIInv /\ [ScanNext]_scanVars => ScanIInv'
  <2> SUFFICES ASSUME ScanIInv, [ScanNext]_scanVars PROVE ScanIInv'
    OBVIOUS
  <2>1. CASE UNCHANGED scanVars
    BY <2>1 DEF scanVars, ScanIInv, ScanTypeOK, Seen, EndsFound,
       NextFound, LastFound
  <2> QED
    BY <2>1, EndsTurnStep, NextTurnStep, LastTurnStep DEF ScanNext
<1> QED
  BY <1>1, ScanInitInvariant, PTL DEF ScanSpec

(* get_head_and_tail_ids returns the least and the greatest of the list.   *)
THEOREM EndsFoundCorrect == ScanSpec => []EndsFound
<1>1. ScanIInv => EndsFound
  BY DEF ScanIInv
<1> QED
  BY <1>1, ScanInvariantHolds, PTL

(* chain_watcher picks the server right after its own, if there is one,    *)
(* and insert_node_sync_table copies from the last server of the list.     *)
THEOREM ServerFoundCorrect == ScanSpec => []ServerFound
<1>1. ScanIInv => ServerFound
  BY DEF ScanIInv, ServerFound
<1> QED
  BY <1>1, ScanInvariantHolds, PTL

(* What the loops return is what ClientSession and ChainMembership take of *)
(* the set of the children: the head and the tail, the server next to the  *)
(* own one, the last server.                                               *)
Children == {list[j] : j \in 0 .. count - 1}

Returned ==
  i = count =>
    /\ loop = "ends" =>
         HeadAndTail(Children) =
           [r \in Roles |-> IF r = "head" THEN list[head_index] ELSE list[tail_index]]
    /\ loop = "next" =>
         LET later == {n \in Children : n > mine} IN
         IF next = -1 THEN later = {} ELSE list[next] = Min(later)
    /\ loop = "last" => list[tail_index] = Max(Children)

(* An element that is not greater, or not less, than any is the one.       *)
LEMMA ExtremeFacts ==
  ASSUME NEW S \in SUBSET Nat, NEW m \in S
  PROVE  /\ (\A n \in S : m <= n) => Min(S) = m
         /\ (\A n \in S : n <= m) => Max(S) = m
<1>1. ASSUME \A n \in S : m <= n PROVE Min(S) = m
  <2>1. Min(S) \in S /\ Min(S) <= m
    BY MinFacts
  <2>2. m <= Min(S)
    BY <1>1, <2>1
  <2>3. Min(S) \in Nat /\ m \in Nat
    BY <2>1
  <2> QED
    BY <2>1, <2>2, <2>3
<1>2. ASSUME \A n \in S : n <= m PROVE Max(S) = m
  <2>1. S \in SUBSET (0 .. m) /\ m \in Nat
    BY <1>2
  <2>2. Max(S) \in S /\ m <= Max(S)
    BY <2>1, MaxFacts
  <2>3. Max(S) <= m
    BY <1>2, <2>2
  <2>4. Max(S) \in Nat
    BY <2>2
  <2> QED
    BY <2>1, <2>2, <2>3, <2>4
<1> QED
  BY <1>1, <1>2

(* When a loop is over it has found what its caller is modelled to take.   *)
THEOREM ReturnedCorrect == ScanSpec => []Returned
<1>1. ScanIInv => Returned
  <2> SUFFICES ASSUME ScanIInv, i = count PROVE Returned
    BY DEF Returned
  <2>1. Seen = 0 .. count - 1 /\ count \in Nat
    BY DEF ScanIInv, ScanTypeOK, Seen
  <2>2. Children \in SUBSET Nat /\ \A j \in Seen : list[j] \in Children /\ list[j] \in Nat
    BY <2>1, ListType DEF ScanIInv, Children
  <2>3. ASSUME loop = "ends"
        PROVE  Min(Children) = list[head_index] /\ Max(Children) = list[tail_index]
    <3>1. list[head_index] \in Children /\ list[tail_index] \in Children
      BY <2>2, <2>3 DEF ScanIInv, ScanTypeOK
    <3>2. \A n \in Children : list[head_index] <= n /\ n <= list[tail_index]
      BY <2>1, <2>3 DEF ScanIInv, EndsFound, Children
    <3> QED
      BY <2>2, <3>1, <3>2, ExtremeFacts
  <2>4. ASSUME loop = "next", next = -1 PROVE {n \in Children : n > mine} = {}
    BY <2>1, <2>4 DEF ScanIInv, NextFound, Children
  <2>5. ASSUME loop = "next", next # -1 PROVE list[next] = Min({n \in Children : n > mine})
    <3> DEFINE later == {n \in Children : n > mine}
    <3>1. later \in SUBSET Nat /\ list[next] \in later
      BY <2>2, <2>5 DEF ScanIInv, ScanTypeOK, NextFound
    <3>2. \A n \in later : list[next] <= n
      BY <2>1, <2>5 DEF ScanIInv, NextFound, Children
    <3> HIDE DEF later
    <3>3. Min(later) = list[next]
      BY <3>1, <3>2, ExtremeFacts
    <3> QED
      BY <3>3 DEF later
  <2>6. ASSUME loop = "last" PROVE list[tail_index] = Max(Children)
    <3>1. list[tail_index] \in Children
      BY <2>2, <2>6 DEF ScanIInv, ScanTypeOK
    <3>2. \A n \in Children : n <= list[tail_index]
      BY <2>1, <2>6 DEF ScanIInv, LastFound, Children
    <3> QED
      BY <2>2, <3>1, <3>2, ExtremeFacts
  <2> QED
    BY <2>3, <2>4, <2>5, <2>6 DEF Returned, HeadAndTail
<1> QED
  BY <1>1, ScanInvariantHolds, PTL
=============================================================================
