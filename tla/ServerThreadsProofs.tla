------------------------- MODULE ServerThreadsProofs -------------------------
(***************************************************************************)
(* The invariants of ServerThreads, for any number of connections, threads *)
(* and descriptors and any number of calls that fail in the middle.  The   *)
(* inductive invariant has a part that holds always and a part that holds  *)
(* as long as no call has failed; one lemma per conjunct shows that no     *)
(* step breaks it.                                                         *)
(***************************************************************************)
EXTENDS ServerThreads, FiniteSetTheorems, TLAPS, WellFoundedInduction

(* The least element of a set of naturals is one of it.                    *)
LEMMA MinFacts ==
  ASSUME NEW S \in SUBSET Nat, S # {}
  PROVE  Min(S) \in S /\ \A n \in S : Min(S) <= n
<1> DEFINE R == {ss \in Nat \X Nat : ss[1] < ss[2]}
<1>0. IsWellFoundedOn(R, Nat)
  BY NatLessThanWellFounded, Zenon DEF OpToRel
<1>1. \E m \in S : \A n \in S : ~ (<<n, m>> \in R)
  <2> HIDE DEF R
  <2> QED BY <1>0, WFMin
<1>2. \A m, n \in Nat : <<m, n>> \in R <=> m < n
  OBVIOUS
<1>3. \E m \in S : \A n \in S : m <= n
  <2>1. PICK m \in S : \A n \in S : ~ (<<n, m>> \in R)
    BY <1>1
  <2>2. ASSUME NEW n \in S PROVE m <= n
    <3>1. m \in Nat /\ n \in Nat
      OBVIOUS
    <3>2. ~ (n < m)
      <4> HIDE DEF R
      <4> QED BY <1>2, <2>1, <3>1
    <3> QED
      BY <3>1, <3>2
  <2> QED
    BY <2>2
<1> QED
  BY <1>3 DEF Min

-----------------------------------------------------------------------------
(***************************************************************************)
(* The inductive invariant: what holds however calls and threads end.      *)
(***************************************************************************)

Serving == {"start", "receive", "reading"} \cup Working   \* has closed nothing yet
Ahead   == Serving \cup {"thrice", "twice", "close"}      \* will close its descriptor

Labels == {"none", "leave", "done"} \cup Ahead

Places ==
  /\ thread \in [Slots -> Labels]
  /\ reading \in [Slots -> Conns \cup {Link, Nobody}] /\ got \in [Slots -> Conns \cup {Nobody}]
  /\ main \in {"accept", "store", "create", "count", "overrun", "handler"}
  /\ term \in {"no", "shut", "join", "destroy", "close", "closed", "exit"}
  /\ disorder \in Nat /\ links \in Nat /\ connected \in Nat

(* What the main loop has done with the slot at the counter.               *)
Creating ==
  /\ main \in {"create", "count"} => counter \in Slots
  /\ main \in {"accept", "store", "create"} /\ counter \in Slots => thread[counter] = "none"
  /\ main = "create" => slot[counter] = new
  /\ main = "count" => thread[counter] # "none"

(* A connection is accepted once, on one descriptor; the link has the one  *)
(* next_server keeps, if it has one.                                       *)
Distinct ==
  /\ \A f, g \in Fds : desc[f] = desc[g] /\ desc[f] # Nobody => f = g
  /\ \A f \in Fds : desc[f] = Link => linkfd = f
  /\ \A c \in Conns : c \in backlog \/ client[c] = "off" => \A f \in Fds : desc[f] # c
  /\ \A c \in backlog : client[c] # "off"

(* A descriptor of a client is new, or the slot of a thread that will      *)
(* close it and, if it reads, reads from it.                               *)
Attended ==
  main \notin {"overrun", "handler"} =>
    \A f \in Fds : desc[f] \in Conns =>
      \/ main \in {"store", "create"} /\ new = f
      \/ \E i \in Slots : /\ slot[i] = f /\ thread[i] \in Ahead
                          /\ thread[i] = "reading" => reading[i] = desc[f]

(* Threads inside their loop or about to leave it.                         *)
Inside  == {i \in Slots : thread[i] \notin {"none", "start", "done"}}
Counted == IsFiniteSet(Inside) /\ connected = Cardinality(Inside)

(* terminate() has joined every thread up to idx, then every one counted.  *)
Joined ==
  /\ term = "no" => shut = {} /\ idx = 0 /\ table = "there" /\ main # "handler"
  /\ term \in {"shut", "join"} => idx <= counter
  /\ term = "join" => \A i \in Slots : i < idx => thread[i] = "done"
  /\ term \in {"destroy", "close", "closed", "exit"} /\ main = "handler" =>
       \A i \in Slots : i < counter => thread[i] = "done"
  /\ table = "freed" => term \in {"close", "closed", "exit"}

-----------------------------------------------------------------------------
(***************************************************************************)
(* What holds in addition as long as no call has failed.                   *)
(***************************************************************************)

(* A thread that has closed nothing has its own connection on its own      *)
(* descriptor; after a SIGINT a thread may close it twice, but nobody      *)
(* accepts any more.                                                       *)
Own ==
  Orderly /\ Running =>
    /\ \A i \in Slots : thread[i] \in Serving =>
         /\ desc[slot[i]] \in Conns
         /\ thread[i] = "reading" => reading[i] = desc[slot[i]]
         /\ thread[i] \in Working => got[i] = desc[slot[i]]
         /\ \A j \in Slots \ {i} : thread[j] \in Ahead => slot[j] # slot[i]
    /\ linkfd # Nobody => desc[linkfd] \in {Link, Nobody}
    /\ \A c \in Conns : request[c] # "garbled"

(* Before that no descriptor is ever closed twice.                         *)
Once ==
  disorder = 0 /\ term = "no" =>
    /\ \A i \in Slots :
         /\ thread[i] \notin {"twice", "thrice"}
         /\ thread[i] = "close" => desc[slot[i]] \in Conns /\ client[desc[slot[i]]] = "left"
         /\ thread[i] \in Ahead =>
              \A j \in Slots \ {i} : thread[j] \in Ahead => slot[j] # slot[i]
    /\ linkfd # Nobody => desc[linkfd] = Link
    /\ main \in {"store", "create"} =>
         /\ desc[new] \in Conns
         /\ \A i \in Slots : thread[i] \in Ahead => slot[i] # new

(* Before that every call is with the client, on its way, with a thread or *)
(* answered; and the connection of a client that has not left is open.     *)
Calls ==
  disorder = 0 /\ term = "no" =>
    \A c \in Conns :
      /\ request[c] = "whole" \/ (\E i \in Slots : got[i] = c) =>
           client[c] = "calling" /\ answer[c] = Nobody
      /\ request[c] = "whole" => \A i \in Slots : got[i] # c
      /\ client[c] # "calling" => answer[c] = Nobody
      /\ client[c] \in {"idle", "calling"} => c \in backlog \/ \E f \in Fds : desc[f] = c

(* shutdown() has reached the connection of every thread before idx.       *)
Woken ==
  Orderly /\ term \in {"shut", "join"} =>
    \A i \in Slots : thread[i] \in Serving /\ i < (IF term = "shut" THEN idx ELSE counter) =>
      desc[slot[i]] \in shut

IInv ==
  /\ TypeOK /\ Places /\ Creating /\ Distinct /\ Attended /\ Counted /\ Joined
  /\ Own /\ Once /\ Calls /\ Woken /\ OwnAnswers

(* Slots are few.                                                          *)
LEMMA SlotsFinite == IsFiniteSet(Slots)
<1>1. 0 \in Int /\ MaxThreads - 1 \in Int
  BY ThreadsAssumption
<1> QED
  BY <1>1, FS_Interval DEF Slots

(* A connection that waits in the backlog, or a link still to be opened,   *)
(* finds a descriptor: there is one more than connections.                 *)
LEMMA FreeFound ==
  ASSUME TypeOK, Distinct, backlog # {} \/ linkfd = Nobody
  PROVE  Min(FreeFds) \in Fds /\ desc[Min(FreeFds)] = Nobody
<1> USE ThreadsAssumption
<1>1. FreeFds # {}
  <2> SUFFICES ASSUME FreeFds = {} PROVE FALSE
    OBVIOUS
  <2>1. \A f \in Fds : desc[f] # Nobody
    BY DEF FreeFds
  <2>2. \A f, g \in Fds : desc[f] = desc[g] => f = g
    BY <2>1 DEF Distinct
  <2>3. Cardinality(Conns) \in Nat
    BY FS_CardinalityType
  <2>4. ASSUME NEW T, IsFiniteSet(T), Cardinality(T) = Cardinality(Conns), desc \in [Fds -> T]
        PROVE  FALSE
    <3>1. desc \in Injection(Fds, T)
      BY <2>2, <2>4 DEF Injection, IsInjective
    <3>2. Cardinality(Fds) <= Cardinality(T) /\ IsFiniteSet(Fds)
      BY <2>4, <3>1, FS_Injection
    <3>3. Cardinality(Fds) \in Nat
      BY <3>2, FS_CardinalityType
    <3> QED
      BY <2>3, <2>4, <3>2, <3>3
  <2>5. CASE linkfd = Nobody
    <3>1. \A f \in Fds : desc[f] \in Conns
      BY <2>1, <2>5 DEF TypeOK, Distinct
    <3> QED
      BY <2>4, <3>1 DEF TypeOK
  <2>6. CASE backlog # {}
    <3>1. PICK c \in backlog : c \in Conns
      BY <2>6 DEF TypeOK
    <3> DEFINE R == Conns \ {c}
    <3>2. IsFiniteSet(R) /\ Cardinality(R) = Cardinality(Conns) - 1 /\ Link \notin R
      BY <3>1, FS_RemoveElement
    <3>3. IsFiniteSet(R \cup {Link}) /\ Cardinality(R \cup {Link}) = Cardinality(Conns)
      <4> HIDE DEF R
      <4>1. IsFiniteSet(R \cup {Link}) /\ Cardinality(R \cup {Link}) = Cardinality(R) + 1
        BY <3>2, FS_AddElement
      <4> QED
        BY <2>3, <3>2, <4>1
    <3>4. \A f \in Fds : desc[f] \in R \cup {Link}
      BY <2>1, <3>1 DEF TypeOK, Distinct
    <3> QED
      BY <2>4, <3>3, <3>4 DEF TypeOK
  <2> QED
    BY <2>5, <2>6
<1>2. FreeFds \in SUBSET Nat
  BY DEF FreeFds
<1>3. Min(FreeFds) \in FreeFds
  BY <1>1, <1>2, MinFacts
<1> QED
  BY <1>3 DEF FreeFds

(* How a read ends.                                                        *)
LEMMA EndReadCases ==
  ASSUME NEW i \in Slots, EndRead(i), TypeOK, Places
  PROVE  /\ thread[i] = "reading" /\ Running
         /\ reading' = [reading EXCEPT ![i] = Nobody]
         /\ request' = IF reading[i] \in Conns THEN [request EXCEPT ![reading[i]] = "none"]
                                               ELSE request
         /\ UNCHANGED <<client, answer, disorder, mainVars, connected, termVars, desc, shut,
                        linkVars>>
         /\ \E l \in {"invoke", "thrice", "close"} :
              /\ thread' = [thread EXCEPT ![i] = l]
              /\ l = "invoke" => /\ reading[i] \in Conns /\ request[reading[i]] = "whole"
                                 /\ got' = [got EXCEPT ![i] = reading[i]]
              /\ l # "invoke" => got' = got
              /\ l = "thrice" => reading[i] \in Conns /\ request[reading[i]] = "garbled"
              /\ l = "close"  => /\ Over(reading[i])
                                 /\ reading[i] \in Conns => request[reading[i]] = "none"
BY ThreadsAssumption DEF EndRead, At, Go

(* How an answer is sent.                                                  *)
LEMMA SendCases ==
  ASSUME NEW i \in Slots, Send(i), TypeOK, Places
  PROVE  /\ thread[i] = "send" /\ Running /\ got[i] \in Conns
         /\ got' = [got EXCEPT ![i] = Nobody]
         /\ UNCHANGED <<client, request, disorder, mainVars, reading, connected, termVars, desc,
                        shut, linkVars>>
         /\ \E l \in {"receive", "twice"} :
              /\ thread' = [thread EXCEPT ![i] = l]
              /\ l = "receive" =>
                   answer' = IF desc[slot[i]] \in Conns
                             THEN [answer EXCEPT ![desc[slot[i]]] = got[i]] ELSE answer
              /\ l = "twice" => /\ desc[slot[i]] = Nobody \/ Over(desc[slot[i]])
                                /\ answer' = answer
BY ThreadsAssumption DEF Send, SendWorks, SendFails, At, Go, On, TypeOK, Places, Working

(* Types; indices stay within the arrays.                                  *)
LEMMA TypeOKStep ==
  ASSUME IInv, [Next]_vars
  PROVE  TypeOK'
<1> USE ThreadsAssumption DEF clientVars, mainVars, threadVars, termVars, linkVars, Slots,
        Working, Serving, Ahead, Labels, Running
<1> USE DEF IInv, TypeOK
<1>1. ASSUME NEW c \in Conns, Connect(c) PROVE TypeOK'
  BY <1>1 DEF Connect, Places
<1>2. ASSUME NEW c \in Conns, Call(c) PROVE TypeOK'
  BY <1>2 DEF Call, Places
<1>3. ASSUME NEW c \in Conns, Return(c) PROVE TypeOK'
  BY <1>3 DEF Return, Places
<1>4. ASSUME NEW c \in Conns, CallFails(c) PROVE TypeOK'
  BY <1>4 DEF CallFails, Open, Over, Places
<1>5. ASSUME NEW c \in Conns, Leave(c) PROVE TypeOK'
  BY <1>5 DEF Leave, Places
<1>6. CASE Accept
  BY <1>6, FreeFound DEF Accept, InMain, Places
<1>7. CASE StoreParameters
  BY <1>7 DEF StoreParameters, InMain, Places
<1>8. CASE CreateThread
  BY <1>8 DEF CreateThread, InMain, Places, Creating
<1>9. CASE CountThread
  BY <1>9 DEF CountThread, InMain, Places, Creating
<1>10. ASSUME NEW i \in Slots, StartThread(i) PROVE TypeOK'
  BY <1>10 DEF StartThread, At, Go, Places
<1>11. ASSUME NEW i \in Slots, BeginRead(i) PROVE TypeOK'
  BY <1>11 DEF BeginRead, At, Go, On, Places
<1>12. ASSUME NEW i \in Slots, EndRead(i) PROVE TypeOK'
  BY <1>12 DEF EndRead, At, Go, Over, Places
<1>13. ASSUME NEW i \in Slots, Invoke(i) PROVE TypeOK'
  BY <1>13 DEF Invoke, At, Go, Places
<1>14. ASSUME NEW i \in Slots, Send(i) PROVE TypeOK'
  <2>1. /\ thread[i] = "send" /\ Running /\ got[i] \in Conns
        /\ got' = [got EXCEPT ![i] = Nobody]
        /\ UNCHANGED <<client, request, disorder, mainVars, reading, connected, termVars, desc,
                       shut, linkVars>>
    BY <1>14, SendCases
  <2>2. PICK l \in {"receive", "twice"} :
          /\ thread' = [thread EXCEPT ![i] = l]
          /\ l = "receive" =>
               answer' = IF desc[slot[i]] \in Conns
                         THEN [answer EXCEPT ![desc[slot[i]]] = got[i]] ELSE answer
          /\ l = "twice" => /\ desc[slot[i]] = Nobody \/ Over(desc[slot[i]])
                            /\ answer' = answer
    BY <1>14, SendCases
  <2> QED
    BY <2>1, <2>2 DEF Places
<1>15. ASSUME NEW i \in Slots, Close(i) PROVE TypeOK'
  BY <1>15, SMTT(30) DEF Close, Closing, At, Go, Places
<1>16. ASSUME NEW i \in Slots, EndThread(i) PROVE TypeOK'
  BY <1>16 DEF EndThread, At, Go, Places
<1>17. CASE OpenLink
  BY <1>17, FreeFound DEF OpenLink, CallbackFree, Places
<1>18. CASE CloseLink
  BY <1>18 DEF CloseLink, CallbackFree, Places
<1>19. CASE Interrupt
  BY <1>19 DEF Interrupt, Places
<1>20. CASE GiveUp
  BY <1>20 DEF GiveUp, Places
<1>21. CASE ShutDown
  <2>1. idx' \in 0 .. MaxThreads
    BY <1>21 DEF ShutDown, Joined
  <2>2. shut' \subseteq Conns \cup {Link}
    <3>1. ASSUME idx < counter PROVE desc[slot[idx]] \in Conns \cup {Link, Nobody}
      <4>1. idx \in Slots
        BY <3>1
      <4> QED
        BY <4>1
    <3>2. shut' = shut \/ (idx < counter /\ shut' = shut \cup ({desc[slot[idx]]} \ {Nobody}))
      BY <1>21 DEF ShutDown
    <3> QED
      BY <3>1, <3>2
  <2> QED
    BY <1>21, <2>1, <2>2 DEF ShutDown
<1>22. CASE Join
  BY <1>22 DEF Join, Places
<1>23. CASE Destroy
  BY <1>23 DEF Destroy, Places
<1>24. CASE CloseListening
  BY <1>24 DEF CloseListening, Places
<1>25. CASE Exit
  BY <1>25 DEF Exit, Places
<1>26. CASE UNCHANGED vars
  BY <1>26 DEF vars, Places
<1> QED
  BY <1>1, <1>2, <1>3, <1>4, <1>5, <1>6, <1>7, <1>8, <1>9, <1>10, <1>11, <1>12, <1>13,
     <1>14, <1>15, <1>16, <1>17, <1>18, <1>19, <1>20, <1>21, <1>22, <1>23, <1>24, <1>25,
     <1>26 DEF Next, MainStep, ThreadStep, TermStep

(* Where threads are; connected_clients never falls below zero.            *)
LEMMA PlacesStep ==
  ASSUME IInv, [Next]_vars
  PROVE  Places'
<1> USE ThreadsAssumption DEF clientVars, mainVars, threadVars, termVars, linkVars, Slots,
        Working, Serving, Ahead, Labels, Running
<1> USE DEF IInv, TypeOK
<1>1. ASSUME NEW c \in Conns, Connect(c) PROVE Places'
  BY <1>1 DEF Connect, Places
<1>2. ASSUME NEW c \in Conns, Call(c) PROVE Places'
  BY <1>2 DEF Call, Places
<1>3. ASSUME NEW c \in Conns, Return(c) PROVE Places'
  BY <1>3 DEF Return, Places
<1>4. ASSUME NEW c \in Conns, CallFails(c) PROVE Places'
  BY <1>4 DEF CallFails, Open, Over, Places
<1>5. ASSUME NEW c \in Conns, Leave(c) PROVE Places'
  BY <1>5 DEF Leave, Places
<1>6. CASE Accept
  BY <1>6 DEF Accept, InMain, Places
<1>7. CASE StoreParameters
  BY <1>7 DEF StoreParameters, InMain, Places
<1>8. CASE CreateThread
  BY <1>8 DEF CreateThread, InMain, Places
<1>9. CASE CountThread
  BY <1>9 DEF CountThread, InMain, Places
<1>10. ASSUME NEW i \in Slots, StartThread(i) PROVE Places'
  BY <1>10 DEF StartThread, At, Go, Places
<1>11. ASSUME NEW i \in Slots, BeginRead(i) PROVE Places'
  BY <1>11 DEF BeginRead, At, Go, On, Places
<1>12. ASSUME NEW i \in Slots, EndRead(i) PROVE Places'
  <2>1. /\ thread[i] = "reading" /\ Running /\ reading' = [reading EXCEPT ![i] = Nobody]
        /\ request' = IF reading[i] \in Conns THEN [request EXCEPT ![reading[i]] = "none"]
                                              ELSE request
        /\ UNCHANGED <<client, answer, disorder, mainVars, connected, termVars, desc, shut,
                       linkVars>>
    BY <1>12, EndReadCases
  <2>2. PICK l \in {"invoke", "thrice", "close"} :
          /\ thread' = [thread EXCEPT ![i] = l]
          /\ l = "invoke" => /\ reading[i] \in Conns /\ request[reading[i]] = "whole"
                             /\ got' = [got EXCEPT ![i] = reading[i]]
          /\ l # "invoke" => got' = got
          /\ l = "thrice" => reading[i] \in Conns /\ request[reading[i]] = "garbled"
          /\ l = "close"  => /\ Over(reading[i])
                             /\ reading[i] \in Conns => request[reading[i]] = "none"
    BY <1>12, EndReadCases
  <2> QED
    BY <2>1, <2>2 DEF Places
<1>13. ASSUME NEW i \in Slots, Invoke(i) PROVE Places'
  BY <1>13 DEF Invoke, At, Go, Places
<1>14. ASSUME NEW i \in Slots, Send(i) PROVE Places'
  BY <1>14 DEF Send, SendWorks, SendFails, At, Go, On, Over, Places
<1>15. ASSUME NEW i \in Slots, Close(i) PROVE Places'
  BY <1>15 DEF Close, Closing, At, Go, Places
<1>16. ASSUME NEW i \in Slots, EndThread(i) PROVE Places'
  <2>1. i \in Inside /\ connected = Cardinality(Inside) /\ IsFiniteSet(Inside)
    BY <1>16 DEF EndThread, At, Inside, Counted
  <2>2. connected # 0
    BY <2>1, FS_EmptySet
  <2> QED
    BY <1>16, <2>2 DEF EndThread, At, Go, Places
<1>17. CASE OpenLink
  BY <1>17 DEF OpenLink, CallbackFree, Places
<1>18. CASE CloseLink
  BY <1>18 DEF CloseLink, CallbackFree, Places
<1>19. CASE Interrupt
  BY <1>19 DEF Interrupt, Places
<1>20. CASE GiveUp
  BY <1>20 DEF GiveUp, Places
<1>21. CASE ShutDown
  BY <1>21 DEF ShutDown, Places
<1>22. CASE Join
  BY <1>22 DEF Join, Places
<1>23. CASE Destroy
  BY <1>23 DEF Destroy, Places
<1>24. CASE CloseListening
  BY <1>24 DEF CloseListening, Places
<1>25. CASE Exit
  BY <1>25 DEF Exit, Places
<1>26. CASE UNCHANGED vars
  BY <1>26 DEF vars, Places
<1> QED
  BY <1>1, <1>2, <1>3, <1>4, <1>5, <1>6, <1>7, <1>8, <1>9, <1>10, <1>11, <1>12, <1>13,
     <1>14, <1>15, <1>16, <1>17, <1>18, <1>19, <1>20, <1>21, <1>22, <1>23, <1>24, <1>25,
     <1>26 DEF Next, MainStep, ThreadStep, TermStep

(* The slot at the counter has no thread until create has made one.        *)
LEMMA CreatingStep ==
  ASSUME IInv, [Next]_vars
  PROVE  Creating'
<1> USE ThreadsAssumption DEF clientVars, mainVars, threadVars, termVars, linkVars, Slots,
        Working, Serving, Ahead, Labels, Running
<1> USE DEF IInv, TypeOK
<1>1. ASSUME NEW c \in Conns, Connect(c) PROVE Creating'
  BY <1>1 DEF Connect, Creating, Places
<1>2. ASSUME NEW c \in Conns, Call(c) PROVE Creating'
  BY <1>2 DEF Call, Creating, Places
<1>3. ASSUME NEW c \in Conns, Return(c) PROVE Creating'
  BY <1>3 DEF Return, Creating, Places
<1>4. ASSUME NEW c \in Conns, CallFails(c) PROVE Creating'
  BY <1>4 DEF CallFails, Open, Over, Creating, Places
<1>5. ASSUME NEW c \in Conns, Leave(c) PROVE Creating'
  BY <1>5 DEF Leave, Creating, Places
<1>6. CASE Accept
  BY <1>6 DEF Accept, InMain, Creating, Places
<1>7. CASE StoreParameters
  BY <1>7 DEF StoreParameters, InMain, Creating, Places
<1>8. CASE CreateThread
  BY <1>8 DEF CreateThread, InMain, Creating, Places
<1>9. CASE CountThread
  BY <1>9 DEF CountThread, InMain, Creating, Places
<1>10. ASSUME NEW i \in Slots, StartThread(i) PROVE Creating'
  BY <1>10 DEF StartThread, At, Go, Creating, Places
<1>11. ASSUME NEW i \in Slots, BeginRead(i) PROVE Creating'
  BY <1>11 DEF BeginRead, At, Go, On, Creating, Places
<1>12. ASSUME NEW i \in Slots, EndRead(i) PROVE Creating'
  BY <1>12 DEF EndRead, At, Go, Over, Creating, Places
<1>13. ASSUME NEW i \in Slots, Invoke(i) PROVE Creating'
  BY <1>13 DEF Invoke, At, Go, Creating, Places
<1>14. ASSUME NEW i \in Slots, Send(i) PROVE Creating'
  BY <1>14 DEF Send, SendWorks, SendFails, At, Go, On, Over, Creating, Places
<1>15. ASSUME NEW i \in Slots, Close(i) PROVE Creating'
  BY <1>15 DEF Close, Closing, At, Go, Creating, Places
<1>16. ASSUME NEW i \in Slots, EndThread(i) PROVE Creating'
  BY <1>16 DEF EndThread, At, Go, Creating, Places
<1>17. CASE OpenLink
  BY <1>17 DEF OpenLink, CallbackFree, Creating, Places
<1>18. CASE CloseLink
  BY <1>18 DEF CloseLink, CallbackFree, Creating, Places
<1>19. CASE Interrupt
  BY <1>19 DEF Interrupt, Creating, Places
<1>20. CASE GiveUp
  BY <1>20 DEF GiveUp, Creating, Places
<1>21. CASE ShutDown
  BY <1>21 DEF ShutDown, Creating, Places
<1>22. CASE Join
  BY <1>22 DEF Join, Creating, Places
<1>23. CASE Destroy
  BY <1>23 DEF Destroy, Creating, Places
<1>24. CASE CloseListening
  BY <1>24 DEF CloseListening, Creating, Places
<1>25. CASE Exit
  BY <1>25 DEF Exit, Creating, Places
<1>26. CASE UNCHANGED vars
  BY <1>26 DEF vars, Creating, Places
<1> QED
  BY <1>1, <1>2, <1>3, <1>4, <1>5, <1>6, <1>7, <1>8, <1>9, <1>10, <1>11, <1>12, <1>13,
     <1>14, <1>15, <1>16, <1>17, <1>18, <1>19, <1>20, <1>21, <1>22, <1>23, <1>24, <1>25,
     <1>26 DEF Next, MainStep, ThreadStep, TermStep

(* No connection gets a second descriptor.                                 *)
LEMMA DistinctStep ==
  ASSUME IInv, [Next]_vars
  PROVE  Distinct'
<1> USE ThreadsAssumption DEF clientVars, mainVars, threadVars, termVars, linkVars, Slots,
        Working, Serving, Ahead, Labels, Running
<1> USE DEF IInv, TypeOK
<1>1. ASSUME NEW c \in Conns, Connect(c) PROVE Distinct'
  BY <1>1 DEF Connect, Distinct, Places
<1>2. ASSUME NEW c \in Conns, Call(c) PROVE Distinct'
  BY <1>2 DEF Call, Distinct, Places
<1>3. ASSUME NEW c \in Conns, Return(c) PROVE Distinct'
  BY <1>3 DEF Return, Distinct, Places
<1>4. ASSUME NEW c \in Conns, CallFails(c) PROVE Distinct'
  BY <1>4 DEF CallFails, Open, Over, Distinct, Places
<1>5. ASSUME NEW c \in Conns, Leave(c) PROVE Distinct'
  BY <1>5 DEF Leave, Distinct, Places
<1>6. CASE Accept
  BY <1>6 DEF Accept, InMain, Distinct, Places
<1>7. CASE StoreParameters
  BY <1>7 DEF StoreParameters, InMain, Distinct, Places
<1>8. CASE CreateThread
  BY <1>8 DEF CreateThread, InMain, Distinct, Places
<1>9. CASE CountThread
  BY <1>9 DEF CountThread, InMain, Distinct, Places
<1>10. ASSUME NEW i \in Slots, StartThread(i) PROVE Distinct'
  BY <1>10 DEF StartThread, At, Go, Distinct, Places
<1>11. ASSUME NEW i \in Slots, BeginRead(i) PROVE Distinct'
  BY <1>11 DEF BeginRead, At, Go, On, Distinct, Places
<1>12. ASSUME NEW i \in Slots, EndRead(i) PROVE Distinct'
  BY <1>12 DEF EndRead, At, Go, Over, Distinct, Places
<1>13. ASSUME NEW i \in Slots, Invoke(i) PROVE Distinct'
  BY <1>13 DEF Invoke, At, Go, Distinct, Places
<1>14. ASSUME NEW i \in Slots, Send(i) PROVE Distinct'
  BY <1>14 DEF Send, SendWorks, SendFails, At, Go, On, Over, Distinct, Places
<1>15. ASSUME NEW i \in Slots, Close(i) PROVE Distinct'
  BY <1>15 DEF Close, Closing, At, Go, Distinct, Places
<1>16. ASSUME NEW i \in Slots, EndThread(i) PROVE Distinct'
  BY <1>16 DEF EndThread, At, Go, Distinct, Places
<1>17. CASE OpenLink
  BY <1>17 DEF OpenLink, CallbackFree, Distinct, Places
<1>18. CASE CloseLink
  BY <1>18 DEF CloseLink, CallbackFree, Distinct, Places
<1>19. CASE Interrupt
  BY <1>19 DEF Interrupt, Distinct, Places
<1>20. CASE GiveUp
  BY <1>20 DEF GiveUp, Distinct, Places
<1>21. CASE ShutDown
  BY <1>21 DEF ShutDown, Distinct, Places
<1>22. CASE Join
  BY <1>22 DEF Join, Distinct, Places
<1>23. CASE Destroy
  BY <1>23 DEF Destroy, Distinct, Places
<1>24. CASE CloseListening
  BY <1>24 DEF CloseListening, Distinct, Places
<1>25. CASE Exit
  BY <1>25 DEF Exit, Distinct, Places
<1>26. CASE UNCHANGED vars
  BY <1>26 DEF vars, Distinct, Places
<1> QED
  BY <1>1, <1>2, <1>3, <1>4, <1>5, <1>6, <1>7, <1>8, <1>9, <1>10, <1>11, <1>12, <1>13,
     <1>14, <1>15, <1>16, <1>17, <1>18, <1>19, <1>20, <1>21, <1>22, <1>23, <1>24, <1>25,
     <1>26 DEF Next, MainStep, ThreadStep, TermStep

(* Whoever closes a descriptor, its own thread or another one, no open     *)
(* connection is left without the thread that was created for it.          *)
LEMMA AttendedStep ==
  ASSUME IInv, [Next]_vars
  PROVE  Attended'
<1> USE ThreadsAssumption DEF clientVars, mainVars, threadVars, termVars, linkVars, Slots,
        Working, Serving, Ahead, Labels, Running
<1> USE DEF IInv, TypeOK
<1>1. ASSUME NEW c \in Conns, Connect(c) PROVE Attended'
  BY <1>1 DEF Connect, Attended, Places
<1>2. ASSUME NEW c \in Conns, Call(c) PROVE Attended'
  BY <1>2 DEF Call, Attended, Places
<1>3. ASSUME NEW c \in Conns, Return(c) PROVE Attended'
  BY <1>3 DEF Return, Attended, Places
<1>4. ASSUME NEW c \in Conns, CallFails(c) PROVE Attended'
  BY <1>4 DEF CallFails, Open, Over, Attended, Places
<1>5. ASSUME NEW c \in Conns, Leave(c) PROVE Attended'
  BY <1>5 DEF Leave, Attended, Places
<1>6. CASE Accept
  BY <1>6 DEF Accept, InMain, Attended, Places
<1>7. CASE StoreParameters
  <2>1. /\ UNCHANGED <<thread, reading, desc, new>>
        /\ main = "store" /\ main' \in {"create", "overrun"}
        /\ \A i \in Slots : thread[i] # "none" => slot'[i] = slot[i]
    BY <1>7 DEF StoreParameters, InMain, Creating, Places
  <2> SUFFICES ASSUME main' = "create", NEW f \in Fds, desc[f] \in Conns
               PROVE  \/ new = f
                      \/ \E i \in Slots : /\ slot'[i] = f /\ thread[i] \in Ahead
                                          /\ thread[i] = "reading" => reading[i] = desc[f]
    BY <2>1 DEF Attended
  <2>2. CASE new # f
    <3>1. PICK i \in Slots : /\ slot[i] = f /\ thread[i] \in Ahead
                             /\ thread[i] = "reading" => reading[i] = desc[f]
      BY <2>1, <2>2 DEF Attended
    <3> QED
      BY <2>1, <3>1
  <2> QED
    BY <2>2
<1>8. CASE CreateThread
  BY <1>8 DEF CreateThread, InMain, Attended, Places, Creating
<1>9. CASE CountThread
  BY <1>9 DEF CountThread, InMain, Attended, Places
<1>10. ASSUME NEW i \in Slots, StartThread(i) PROVE Attended'
  BY <1>10 DEF StartThread, At, Go, Attended, Places
<1>11. ASSUME NEW i \in Slots, BeginRead(i) PROVE Attended'
  BY <1>11 DEF BeginRead, At, Go, On, Attended, Places
<1>12. ASSUME NEW i \in Slots, EndRead(i) PROVE Attended'
  <2>1. /\ thread[i] = "reading" /\ Running /\ reading' = [reading EXCEPT ![i] = Nobody]
        /\ request' = IF reading[i] \in Conns THEN [request EXCEPT ![reading[i]] = "none"]
                                              ELSE request
        /\ UNCHANGED <<client, answer, disorder, mainVars, connected, termVars, desc, shut,
                       linkVars>>
    BY <1>12, EndReadCases
  <2>2. PICK l \in {"invoke", "thrice", "close"} :
          /\ thread' = [thread EXCEPT ![i] = l]
          /\ l = "invoke" => /\ reading[i] \in Conns /\ request[reading[i]] = "whole"
                             /\ got' = [got EXCEPT ![i] = reading[i]]
          /\ l # "invoke" => got' = got
          /\ l = "thrice" => reading[i] \in Conns /\ request[reading[i]] = "garbled"
          /\ l = "close"  => /\ Over(reading[i])
                             /\ reading[i] \in Conns => request[reading[i]] = "none"
    BY <1>12, EndReadCases
  <2> QED
    BY <2>1, <2>2 DEF Attended, Places
<1>13. ASSUME NEW i \in Slots, Invoke(i) PROVE Attended'
  BY <1>13 DEF Invoke, At, Go, Attended, Places
<1>14. ASSUME NEW i \in Slots, Send(i) PROVE Attended'
  <2>1. /\ thread[i] = "send" /\ Running /\ got[i] \in Conns
        /\ got' = [got EXCEPT ![i] = Nobody]
        /\ UNCHANGED <<client, request, disorder, mainVars, reading, connected, termVars, desc,
                       shut, linkVars>>
    BY <1>14, SendCases
  <2>2. PICK l \in {"receive", "twice"} :
          /\ thread' = [thread EXCEPT ![i] = l]
          /\ l = "receive" =>
               answer' = IF desc[slot[i]] \in Conns
                         THEN [answer EXCEPT ![desc[slot[i]]] = got[i]] ELSE answer
          /\ l = "twice" => /\ desc[slot[i]] = Nobody \/ Over(desc[slot[i]])
                            /\ answer' = answer
    BY <1>14, SendCases
  <2> QED
    BY <2>1, <2>2 DEF Attended, Places
<1>15. ASSUME NEW i \in Slots, Close(i) PROVE Attended'
  BY <1>15 DEF Close, Closing, At, Go, Attended, Places
<1>16. ASSUME NEW i \in Slots, EndThread(i) PROVE Attended'
  BY <1>16 DEF EndThread, At, Go, Attended, Places
<1>17. CASE OpenLink
  BY <1>17 DEF OpenLink, CallbackFree, Attended, Places
<1>18. CASE CloseLink
  BY <1>18 DEF CloseLink, CallbackFree, Attended, Places
<1>19. CASE Interrupt
  BY <1>19 DEF Interrupt, Attended, Places
<1>20. CASE GiveUp
  BY <1>20 DEF GiveUp, Attended, Places
<1>21. CASE ShutDown
  BY <1>21 DEF ShutDown, Attended, Places
<1>22. CASE Join
  BY <1>22 DEF Join, Attended, Places
<1>23. CASE Destroy
  BY <1>23 DEF Destroy, Attended, Places
<1>24. CASE CloseListening
  BY <1>24 DEF CloseListening, Attended, Places
<1>25. CASE Exit
  BY <1>25 DEF Exit, Attended, Places
<1>26. CASE UNCHANGED vars
  BY <1>26 DEF vars, Attended, Places
<1> QED
  BY <1>1, <1>2, <1>3, <1>4, <1>5, <1>6, <1>7, <1>8, <1>9, <1>10, <1>11, <1>12, <1>13,
     <1>14, <1>15, <1>16, <1>17, <1>18, <1>19, <1>20, <1>21, <1>22, <1>23, <1>24, <1>25,
     <1>26 DEF Next, MainStep, ThreadStep, TermStep

(* connected_clients goes up and down with each thread.                    *)
LEMMA CountedStep ==
  ASSUME IInv, [Next]_vars
  PROVE  Counted'
<1> USE ThreadsAssumption DEF clientVars, mainVars, threadVars, termVars, linkVars, Slots,
        Working, Serving, Ahead, Labels, Running
<1> USE DEF IInv, TypeOK
<1>1. ASSUME NEW c \in Conns, Connect(c) PROVE Counted'
  BY <1>1 DEF Connect, Counted, Places, Inside
<1>2. ASSUME NEW c \in Conns, Call(c) PROVE Counted'
  BY <1>2 DEF Call, Counted, Places, Inside
<1>3. ASSUME NEW c \in Conns, Return(c) PROVE Counted'
  BY <1>3 DEF Return, Counted, Places, Inside
<1>4. ASSUME NEW c \in Conns, CallFails(c) PROVE Counted'
  BY <1>4 DEF CallFails, Open, Over, Counted, Places, Inside
<1>5. ASSUME NEW c \in Conns, Leave(c) PROVE Counted'
  BY <1>5 DEF Leave, Counted, Places, Inside
<1>6. CASE Accept
  BY <1>6 DEF Accept, InMain, Counted, Places, Inside
<1>7. CASE StoreParameters
  BY <1>7 DEF StoreParameters, InMain, Counted, Places, Inside
<1>8. CASE CreateThread
  <2>1. Inside' = Inside /\ connected' = connected
    BY <1>8 DEF CreateThread, InMain, Creating, Inside, Places
  <2> HIDE DEF Inside
  <2> QED
    BY <2>1 DEF Counted
<1>9. CASE CountThread
  BY <1>9 DEF CountThread, InMain, Counted, Places, Inside
<1>10. ASSUME NEW i \in Slots, StartThread(i) PROVE Counted'
  <2>1. Inside' = Inside \cup {i} /\ i \notin Inside /\ connected' = connected + 1
    BY <1>10 DEF StartThread, At, Go, Inside, Places
  <2> QED
    BY <2>1, FS_AddElement DEF Counted
<1>11. ASSUME NEW i \in Slots, BeginRead(i) PROVE Counted'
  BY <1>11 DEF BeginRead, At, Go, On, Counted, Places, Inside
<1>12. ASSUME NEW i \in Slots, EndRead(i) PROVE Counted'
  <2>1. /\ thread[i] = "reading" /\ Running /\ reading' = [reading EXCEPT ![i] = Nobody]
        /\ request' = IF reading[i] \in Conns THEN [request EXCEPT ![reading[i]] = "none"]
                                              ELSE request
        /\ UNCHANGED <<client, answer, disorder, mainVars, connected, termVars, desc, shut,
                       linkVars>>
    BY <1>12, EndReadCases
  <2>2. PICK l \in {"invoke", "thrice", "close"} :
          /\ thread' = [thread EXCEPT ![i] = l]
          /\ l = "invoke" => /\ reading[i] \in Conns /\ request[reading[i]] = "whole"
                             /\ got' = [got EXCEPT ![i] = reading[i]]
          /\ l # "invoke" => got' = got
          /\ l = "thrice" => reading[i] \in Conns /\ request[reading[i]] = "garbled"
          /\ l = "close"  => /\ Over(reading[i])
                             /\ reading[i] \in Conns => request[reading[i]] = "none"
    BY <1>12, EndReadCases
  <2>3. Inside' = Inside /\ connected' = connected
    BY <2>1, <2>2 DEF Inside, Places
  <2> QED
    BY <2>3 DEF Counted
<1>13. ASSUME NEW i \in Slots, Invoke(i) PROVE Counted'
  BY <1>13 DEF Invoke, At, Go, Counted, Places, Inside
<1>14. ASSUME NEW i \in Slots, Send(i) PROVE Counted'
  <2>1. /\ thread[i] = "send" /\ Running /\ got[i] \in Conns
        /\ got' = [got EXCEPT ![i] = Nobody]
        /\ UNCHANGED <<client, request, disorder, mainVars, reading, connected, termVars, desc,
                       shut, linkVars>>
    BY <1>14, SendCases
  <2>2. PICK l \in {"receive", "twice"} :
          /\ thread' = [thread EXCEPT ![i] = l]
          /\ l = "receive" =>
               answer' = IF desc[slot[i]] \in Conns
                         THEN [answer EXCEPT ![desc[slot[i]]] = got[i]] ELSE answer
          /\ l = "twice" => /\ desc[slot[i]] = Nobody \/ Over(desc[slot[i]])
                            /\ answer' = answer
    BY <1>14, SendCases
  <2>3. Inside' = Inside /\ connected' = connected
    BY <2>1, <2>2 DEF Inside, Places
  <2> QED
    BY <2>3 DEF Counted
<1>15. ASSUME NEW i \in Slots, Close(i) PROVE Counted'
  <2>1. Inside' = Inside /\ connected' = connected
    BY <1>15 DEF Close, Closing, At, Go, Inside, Places
  <2> HIDE DEF Inside
  <2> QED
    BY <2>1 DEF Counted
<1>16. ASSUME NEW i \in Slots, EndThread(i) PROVE Counted'
  <2>1. Inside' = Inside \ {i} /\ i \in Inside /\ connected' = connected - 1
    BY <1>16 DEF EndThread, At, Go, Inside, Places
  <2> QED
    BY <2>1, FS_RemoveElement DEF Counted
<1>17. CASE OpenLink
  BY <1>17 DEF OpenLink, CallbackFree, Counted, Places, Inside
<1>18. CASE CloseLink
  BY <1>18 DEF CloseLink, CallbackFree, Counted, Places, Inside
<1>19. CASE Interrupt
  BY <1>19 DEF Interrupt, Counted, Places, Inside
<1>20. CASE GiveUp
  BY <1>20 DEF GiveUp, Counted, Places, Inside
<1>21. CASE ShutDown
  BY <1>21 DEF ShutDown, Counted, Places, Inside
<1>22. CASE Join
  BY <1>22 DEF Join, Counted, Places, Inside
<1>23. CASE Destroy
  BY <1>23 DEF Destroy, Counted, Places, Inside
<1>24. CASE CloseListening
  BY <1>24 DEF CloseListening, Counted, Places, Inside
<1>25. CASE Exit
  BY <1>25 DEF Exit, Counted, Places, Inside
<1>26. CASE UNCHANGED vars
  BY <1>26 DEF vars, Counted, Places, Inside
<1> QED
  BY <1>1, <1>2, <1>3, <1>4, <1>5, <1>6, <1>7, <1>8, <1>9, <1>10, <1>11, <1>12, <1>13,
     <1>14, <1>15, <1>16, <1>17, <1>18, <1>19, <1>20, <1>21, <1>22, <1>23, <1>24, <1>25,
     <1>26 DEF Next, MainStep, ThreadStep, TermStep

(* terminate() passes a slot only when its thread has ended, and no thread *)
(* begins in a slot it has passed.                                         *)
LEMMA JoinedStep ==
  ASSUME IInv, [Next]_vars
  PROVE  Joined'
<1> USE ThreadsAssumption DEF clientVars, mainVars, threadVars, termVars, linkVars, Slots,
        Working, Serving, Ahead, Labels, Running
<1> USE DEF IInv, TypeOK
<1>1. ASSUME NEW c \in Conns, Connect(c) PROVE Joined'
  BY <1>1 DEF Connect, Joined, Places
<1>2. ASSUME NEW c \in Conns, Call(c) PROVE Joined'
  BY <1>2 DEF Call, Joined, Places
<1>3. ASSUME NEW c \in Conns, Return(c) PROVE Joined'
  BY <1>3 DEF Return, Joined, Places
<1>4. ASSUME NEW c \in Conns, CallFails(c) PROVE Joined'
  BY <1>4 DEF CallFails, Open, Over, Joined, Places
<1>5. ASSUME NEW c \in Conns, Leave(c) PROVE Joined'
  BY <1>5 DEF Leave, Joined, Places
<1>6. CASE Accept
  BY <1>6 DEF Accept, InMain, Joined, Places
<1>7. CASE StoreParameters
  BY <1>7 DEF StoreParameters, InMain, Joined, Places
<1>8. CASE CreateThread
  BY <1>8 DEF CreateThread, InMain, Joined, Places
<1>9. CASE CountThread
  BY <1>9 DEF CountThread, InMain, Joined, Places
<1>10. ASSUME NEW i \in Slots, StartThread(i) PROVE Joined'
  BY <1>10 DEF StartThread, At, Go, Joined, Places
<1>11. ASSUME NEW i \in Slots, BeginRead(i) PROVE Joined'
  BY <1>11 DEF BeginRead, At, Go, On, Joined, Places
<1>12. ASSUME NEW i \in Slots, EndRead(i) PROVE Joined'
  BY <1>12 DEF EndRead, At, Go, Over, Joined, Places
<1>13. ASSUME NEW i \in Slots, Invoke(i) PROVE Joined'
  BY <1>13 DEF Invoke, At, Go, Joined, Places
<1>14. ASSUME NEW i \in Slots, Send(i) PROVE Joined'
  BY <1>14 DEF Send, SendWorks, SendFails, At, Go, On, Over, Joined, Places
<1>15. ASSUME NEW i \in Slots, Close(i) PROVE Joined'
  BY <1>15 DEF Close, Closing, At, Go, Joined, Places
<1>16. ASSUME NEW i \in Slots, EndThread(i) PROVE Joined'
  BY <1>16 DEF EndThread, At, Go, Joined, Places
<1>17. CASE OpenLink
  BY <1>17 DEF OpenLink, CallbackFree, Joined, Places
<1>18. CASE CloseLink
  BY <1>18 DEF CloseLink, CallbackFree, Joined, Places
<1>19. CASE Interrupt
  BY <1>19 DEF Interrupt, Joined, Places
<1>20. CASE GiveUp
  BY <1>20 DEF GiveUp, Joined, Places
<1>21. CASE ShutDown
  BY <1>21 DEF ShutDown, Joined, Places
<1>22. CASE Join
  BY <1>22 DEF Join, Joined, Places
<1>23. CASE Destroy
  BY <1>23 DEF Destroy, Joined, Places
<1>24. CASE CloseListening
  BY <1>24 DEF CloseListening, Joined, Places
<1>25. CASE Exit
  BY <1>25 DEF Exit, Joined, Places
<1>26. CASE UNCHANGED vars
  BY <1>26 DEF vars, Joined, Places
<1> QED
  BY <1>1, <1>2, <1>3, <1>4, <1>5, <1>6, <1>7, <1>8, <1>9, <1>10, <1>11, <1>12, <1>13,
     <1>14, <1>15, <1>16, <1>17, <1>18, <1>19, <1>20, <1>21, <1>22, <1>23, <1>24, <1>25,
     <1>26 DEF Next, MainStep, ThreadStep, TermStep

(* As long as no call fails no step takes a descriptor from a thread that  *)
(* has not closed it.                                                      *)
LEMMA OwnStep ==
  ASSUME IInv, [Next]_vars
  PROVE  Own'
<1> USE ThreadsAssumption DEF clientVars, mainVars, threadVars, termVars, linkVars, Slots,
        Working, Serving, Ahead, Labels, Running
<1> USE DEF IInv, TypeOK
<1>1. ASSUME NEW c \in Conns, Connect(c) PROVE Own'
  BY <1>1 DEF Connect, Own, Orderly, Places
<1>2. ASSUME NEW c \in Conns, Call(c) PROVE Own'
  BY <1>2 DEF Call, Own, Orderly, Places
<1>3. ASSUME NEW c \in Conns, Return(c) PROVE Own'
  BY <1>3 DEF Return, Own, Orderly, Places
<1>4. ASSUME NEW c \in Conns, CallFails(c) PROVE Own'
  BY <1>4 DEF CallFails, Open, Over, Own, Orderly, Places
<1>5. ASSUME NEW c \in Conns, Leave(c) PROVE Own'
  BY <1>5 DEF Leave, Own, Orderly, Places
<1>6. CASE Accept
  BY <1>6, FreeFound DEF Accept, InMain, Own, Orderly, Places, Once, Joined
<1>7. CASE StoreParameters
  <2>1. /\ UNCHANGED <<thread, reading, got, desc, shut, linkfd, request, disorder, term>>
        /\ main = "store" /\ main' # "handler"
        /\ \A i \in Slots : thread[i] # "none" => slot'[i] = slot[i]
    BY <1>7 DEF StoreParameters, InMain, Creating, Places
  <2> QED
    BY <2>1 DEF Own, Orderly, Places
<1>8. CASE CreateThread
  BY <1>8 DEF CreateThread, InMain, Own, Orderly, Places, Once, Creating, Joined
<1>9. CASE CountThread
  BY <1>9 DEF CountThread, InMain, Own, Orderly, Places
<1>10. ASSUME NEW i \in Slots, StartThread(i) PROVE Own'
  BY <1>10 DEF StartThread, At, Go, Own, Orderly, Places
<1>11. ASSUME NEW i \in Slots, BeginRead(i) PROVE Own'
  BY <1>11 DEF BeginRead, At, Go, On, Own, Orderly, Places
<1>12. ASSUME NEW i \in Slots, EndRead(i) PROVE Own'
  BY <1>12 DEF EndRead, At, Go, Over, Own, Orderly, Places
<1>13. ASSUME NEW i \in Slots, Invoke(i) PROVE Own'
  BY <1>13 DEF Invoke, At, Go, Own, Orderly, Places
<1>14. ASSUME NEW i \in Slots, Send(i) PROVE Own'
  BY <1>14 DEF Send, SendWorks, SendFails, At, Go, On, Over, Own, Orderly, Places
<1>15. ASSUME NEW i \in Slots, Close(i) PROVE Own'
  BY <1>15 DEF Close, Closing, At, Go, Own, Orderly, Places
<1>16. ASSUME NEW i \in Slots, EndThread(i) PROVE Own'
  BY <1>16 DEF EndThread, At, Go, Own, Orderly, Places
<1>17. CASE OpenLink
  BY <1>17, FreeFound DEF OpenLink, CallbackFree, Own, Orderly, Places
<1>18. CASE CloseLink
  BY <1>18 DEF CloseLink, CallbackFree, Own, Orderly, Places
<1>19. CASE Interrupt
  BY <1>19 DEF Interrupt, Own, Orderly, Places
<1>20. CASE GiveUp
  BY <1>20 DEF GiveUp, Own, Orderly, Places
<1>21. CASE ShutDown
  BY <1>21 DEF ShutDown, Own, Orderly, Places
<1>22. CASE Join
  BY <1>22 DEF Join, Own, Orderly, Places
<1>23. CASE Destroy
  BY <1>23 DEF Destroy, Own, Orderly, Places
<1>24. CASE CloseListening
  BY <1>24 DEF CloseListening, Own, Orderly, Places
<1>25. CASE Exit
  BY <1>25 DEF Exit, Own, Orderly, Places
<1>26. CASE UNCHANGED vars
  BY <1>26 DEF vars, Own, Orderly, Places
<1> QED
  BY <1>1, <1>2, <1>3, <1>4, <1>5, <1>6, <1>7, <1>8, <1>9, <1>10, <1>11, <1>12, <1>13,
     <1>14, <1>15, <1>16, <1>17, <1>18, <1>19, <1>20, <1>21, <1>22, <1>23, <1>24, <1>25,
     <1>26 DEF Next, MainStep, ThreadStep, TermStep

(* Before terminate(), and as long as no call fails, each thread closes its *)
(* descriptor once.                                                        *)
LEMMA OnceStep ==
  ASSUME IInv, [Next]_vars
  PROVE  Once'
<1> USE ThreadsAssumption DEF clientVars, mainVars, threadVars, termVars, linkVars, Slots,
        Working, Serving, Ahead, Labels, Running
<1> USE DEF IInv, TypeOK
<1>1. ASSUME NEW c \in Conns, Connect(c) PROVE Once'
  BY <1>1 DEF Connect, Once, Places
<1>2. ASSUME NEW c \in Conns, Call(c) PROVE Once'
  BY <1>2 DEF Call, Once, Places
<1>3. ASSUME NEW c \in Conns, Return(c) PROVE Once'
  BY <1>3 DEF Return, Once, Places
<1>4. ASSUME NEW c \in Conns, CallFails(c) PROVE Once'
  BY <1>4 DEF CallFails, Open, Over, Once, Places
<1>5. ASSUME NEW c \in Conns, Leave(c) PROVE Once'
  BY <1>5 DEF Leave, Once, Places
<1>6. CASE Accept
  BY <1>6, FreeFound DEF Accept, InMain, Once, Places, Own, Orderly
<1>7. CASE StoreParameters
  BY <1>7 DEF StoreParameters, InMain, Once, Places, Creating
<1>8. CASE CreateThread
  BY <1>8 DEF CreateThread, InMain, Once, Places, Creating
<1>9. CASE CountThread
  BY <1>9 DEF CountThread, InMain, Once, Places
<1>10. ASSUME NEW i \in Slots, StartThread(i) PROVE Once'
  BY <1>10 DEF StartThread, At, Go, Once, Places
<1>11. ASSUME NEW i \in Slots, BeginRead(i) PROVE Once'
  BY <1>11 DEF BeginRead, At, Go, On, Once, Places, Own, Orderly
<1>12. ASSUME NEW i \in Slots, EndRead(i) PROVE Once'
  <2>1. /\ thread[i] = "reading" /\ Running /\ reading' = [reading EXCEPT ![i] = Nobody]
        /\ request' = IF reading[i] \in Conns THEN [request EXCEPT ![reading[i]] = "none"]
                                              ELSE request
        /\ UNCHANGED <<client, answer, disorder, mainVars, connected, termVars, desc, shut,
                       linkVars>>
    BY <1>12, EndReadCases
  <2>2. PICK l \in {"invoke", "thrice", "close"} :
          /\ thread' = [thread EXCEPT ![i] = l]
          /\ l = "invoke" => /\ reading[i] \in Conns /\ request[reading[i]] = "whole"
                             /\ got' = [got EXCEPT ![i] = reading[i]]
          /\ l # "invoke" => got' = got
          /\ l = "thrice" => reading[i] \in Conns /\ request[reading[i]] = "garbled"
          /\ l = "close"  => /\ Over(reading[i])
                             /\ reading[i] \in Conns => request[reading[i]] = "none"
    BY <1>12, EndReadCases
  <2>3. ASSUME disorder = 0, term = "no"
        PROVE  l # "thrice" /\ (l = "close" => client[desc[slot[i]]] = "left")
    BY <2>1, <2>2, <2>3 DEF Own, Orderly, Joined, Over
  <2> QED
    BY <2>1, <2>2, <2>3 DEF Once, Own, Orderly, Places
<1>13. ASSUME NEW i \in Slots, Invoke(i) PROVE Once'
  BY <1>13 DEF Invoke, At, Go, Once, Places
<1>14. ASSUME NEW i \in Slots, Send(i) PROVE Once'
  <2>1. /\ thread[i] = "send" /\ Running /\ got[i] \in Conns
        /\ got' = [got EXCEPT ![i] = Nobody]
        /\ UNCHANGED <<client, request, disorder, mainVars, reading, connected, termVars, desc,
                       shut, linkVars>>
    BY <1>14, SendCases
  <2>2. PICK l \in {"receive", "twice"} :
          /\ thread' = [thread EXCEPT ![i] = l]
          /\ l = "receive" =>
               answer' = IF desc[slot[i]] \in Conns
                         THEN [answer EXCEPT ![desc[slot[i]]] = got[i]] ELSE answer
          /\ l = "twice" => /\ desc[slot[i]] = Nobody \/ Over(desc[slot[i]])
                            /\ answer' = answer
    BY <1>14, SendCases
  <2>3. ASSUME disorder = 0, term = "no" PROVE l # "twice"
    <3>1. desc[slot[i]] = got[i]
      BY <2>1, <2>3 DEF Own, Orderly
    <3>2. client[got[i]] = "calling" /\ shut = {}
      BY <2>1, <2>3 DEF Calls, Joined
    <3> QED
      BY <2>1, <2>2, <3>1, <3>2 DEF Over
  <2> QED
    BY <2>1, <2>2, <2>3 DEF Once, Places
<1>15. ASSUME NEW i \in Slots, Close(i) PROVE Once'
  BY <1>15 DEF Close, Closing, At, Go, Once, Places, Own
<1>16. ASSUME NEW i \in Slots, EndThread(i) PROVE Once'
  BY <1>16 DEF EndThread, At, Go, Once, Places
<1>17. CASE OpenLink
  BY <1>17, FreeFound DEF OpenLink, CallbackFree, Once, Places, Own
<1>18. CASE CloseLink
  BY <1>18 DEF CloseLink, CallbackFree, Once, Places
<1>19. CASE Interrupt
  BY <1>19 DEF Interrupt, Once, Places
<1>20. CASE GiveUp
  BY <1>20 DEF GiveUp, Once, Places
<1>21. CASE ShutDown
  BY <1>21 DEF ShutDown, Once, Places
<1>22. CASE Join
  BY <1>22 DEF Join, Once, Places
<1>23. CASE Destroy
  BY <1>23 DEF Destroy, Once, Places
<1>24. CASE CloseListening
  BY <1>24 DEF CloseListening, Once, Places
<1>25. CASE Exit
  BY <1>25 DEF Exit, Once, Places
<1>26. CASE UNCHANGED vars
  BY <1>26 DEF vars, Once, Places
<1> QED
  BY <1>1, <1>2, <1>3, <1>4, <1>5, <1>6, <1>7, <1>8, <1>9, <1>10, <1>11, <1>12, <1>13,
     <1>14, <1>15, <1>16, <1>17, <1>18, <1>19, <1>20, <1>21, <1>22, <1>23, <1>24, <1>25,
     <1>26 DEF Next, MainStep, ThreadStep, TermStep

(* Every step hands a call on: from the client to the thread, from the     *)
(* thread to the client.                                                   *)
LEMMA CallsStep ==
  ASSUME IInv, [Next]_vars
  PROVE  Calls'
<1> USE ThreadsAssumption DEF clientVars, mainVars, threadVars, termVars, linkVars, Slots,
        Working, Serving, Ahead, Labels, Running
<1> USE DEF IInv, TypeOK
<1>1. ASSUME NEW c \in Conns, Connect(c) PROVE Calls'
  BY <1>1 DEF Connect, Calls, Places
<1>2. ASSUME NEW c \in Conns, Call(c) PROVE Calls'
  <2> SUFFICES ASSUME disorder' = 0, term = "no", NEW d \in Conns
               PROVE  /\ request'[d] = "whole" \/ (\E j \in Slots : got'[j] = d) =>
                           client'[d] = "calling" /\ answer'[d] = Nobody
                      /\ request'[d] = "whole" => \A j \in Slots : got'[j] # d
                      /\ client'[d] # "calling" => answer'[d] = Nobody
                      /\ client'[d] \in {"idle", "calling"} =>
                           d \in backlog' \/ \E f \in Fds : desc'[f] = d
    BY <1>2 DEF Call, Calls
  <2>1. disorder = 0
    BY <1>2 DEF Call, Places
  <2>2. CASE d = c
    <3>1. client[c] = "idle" /\ client'[c] = "calling" /\ UNCHANGED <<answer, got, backlog, desc>>
      BY <1>2 DEF Call
    <3>2. answer[c] = Nobody /\ (\A j \in Slots : got[j] # c)
      BY <2>1, <3>1 DEF Calls
    <3>3. c \in backlog \/ \E f \in Fds : desc[f] = c
      BY <2>1, <3>1 DEF Calls
    <3> QED
      BY <2>2, <3>1, <3>2, <3>3
  <2>3. CASE d # c
    BY <1>2, <2>1, <2>3 DEF Call, Calls
  <2> QED
    BY <2>2, <2>3
<1>3. ASSUME NEW c \in Conns, Return(c) PROVE Calls'
  BY <1>3 DEF Return, Calls, Places
<1>4. ASSUME NEW c \in Conns, CallFails(c) PROVE Calls'
  BY <1>4 DEF CallFails, Open, Over, Calls, Places, Joined
<1>5. ASSUME NEW c \in Conns, Leave(c) PROVE Calls'
  BY <1>5 DEF Leave, Calls, Places
<1>6. CASE Accept
  <2>1. PICK c \in backlog :
          /\ backlog' = backlog \ {c} /\ new' = Min(FreeFds) /\ desc' = [desc EXCEPT ![new'] = c]
          /\ UNCHANGED <<clientVars, got, term>>
    BY <1>6 DEF Accept
  <2>2. new' \in Fds /\ desc[new'] = Nobody
    BY <2>1, FreeFound
  <2>3. ASSUME NEW d \in Conns, d \in backlog \/ (\E f \in Fds : desc[f] = d)
        PROVE  d \in backlog' \/ \E f \in Fds : desc'[f] = d
    <3>1. CASE d = c
      BY <2>1, <2>2, <3>1
    <3>2. CASE d # c
      BY <2>1, <2>2, <2>3, <3>2
    <3> QED
      BY <3>1, <3>2
  <2> QED
    BY <2>1, <2>3 DEF Calls
<1>7. CASE StoreParameters
  BY <1>7 DEF StoreParameters, InMain, Calls, Places
<1>8. CASE CreateThread
  BY <1>8 DEF CreateThread, InMain, Calls, Places
<1>9. CASE CountThread
  BY <1>9 DEF CountThread, InMain, Calls, Places
<1>10. ASSUME NEW i \in Slots, StartThread(i) PROVE Calls'
  BY <1>10 DEF StartThread, At, Go, Calls, Places
<1>11. ASSUME NEW i \in Slots, BeginRead(i) PROVE Calls'
  BY <1>11 DEF BeginRead, At, Go, On, Calls, Places
<1>12. ASSUME NEW i \in Slots, EndRead(i) PROVE Calls'
  BY <1>12 DEF EndRead, At, Go, Over, Calls, Places
<1>13. ASSUME NEW i \in Slots, Invoke(i) PROVE Calls'
  BY <1>13 DEF Invoke, At, Go, Calls, Places
<1>14. ASSUME NEW i \in Slots, Send(i) PROVE Calls'
  <2>1. /\ thread[i] = "send" /\ Running /\ got[i] \in Conns
        /\ got' = [got EXCEPT ![i] = Nobody]
        /\ UNCHANGED <<client, request, disorder, mainVars, reading, connected, termVars, desc,
                       shut, linkVars>>
    BY <1>14, SendCases
  <2>2. PICK l \in {"receive", "twice"} :
          /\ thread' = [thread EXCEPT ![i] = l]
          /\ l = "receive" =>
               answer' = IF desc[slot[i]] \in Conns
                         THEN [answer EXCEPT ![desc[slot[i]]] = got[i]] ELSE answer
          /\ l = "twice" => /\ desc[slot[i]] = Nobody \/ Over(desc[slot[i]])
                            /\ answer' = answer
    BY <1>14, SendCases
  <2> SUFFICES ASSUME disorder = 0, term = "no", NEW c \in Conns
               PROVE  /\ request'[c] = "whole" \/ (\E j \in Slots : got'[j] = c) =>
                           client'[c] = "calling" /\ answer'[c] = Nobody
                      /\ request'[c] = "whole" => \A j \in Slots : got'[j] # c
                      /\ client'[c] # "calling" => answer'[c] = Nobody
                      /\ client'[c] \in {"idle", "calling"} =>
                           c \in backlog' \/ \E f \in Fds : desc'[f] = c
    BY <2>1 DEF Calls
  <2>3. desc[slot[i]] = got[i] /\ \A j \in Slots \ {i} : got[j] # got[i]
    <3>1. desc[slot[i]] = got[i]
      BY <2>1 DEF Own, Orderly
    <3>2. ASSUME NEW j \in Slots \ {i}, got[j] = got[i] PROVE FALSE
      <4>1. thread[j] \in Working
        BY <2>1, <3>2
      <4>2. desc[slot[j]] = got[j] /\ slot[j] # slot[i]
        BY <2>1, <4>1 DEF Own, Orderly
      <4>3. slot[i] \in Fds /\ slot[j] \in Fds /\ got[i] # Nobody
        BY <2>1
      <4>4. desc[slot[i]] = desc[slot[j]] /\ desc[slot[i]] # Nobody
        BY <3>1, <3>2, <4>2, <4>3
      <4>5. slot[i] = slot[j]
        BY <4>3, <4>4 DEF Distinct
      <4> QED
        BY <4>2, <4>5
    <3> QED
      BY <3>1, <3>2
  <2>4. \A j \in Slots : got'[j] = c => got[j] = c /\ c # got[i]
    BY <2>1, <2>3 DEF Places
  <2>5. answer'[c] # answer[c] => c = got[i]
    BY <2>1, <2>2, <2>3
  <2>6. request[c] = "whole" => c # got[i]
    BY <2>1 DEF Calls
  <2>7. client[got[i]] = "calling"
    BY <2>1 DEF Calls
  <2> QED
    BY <2>1, <2>4, <2>5, <2>6, <2>7 DEF Calls
<1>15. ASSUME NEW i \in Slots, Close(i) PROVE Calls'
  BY <1>15 DEF Close, Closing, At, Go, Calls, Places, Once
<1>16. ASSUME NEW i \in Slots, EndThread(i) PROVE Calls'
  BY <1>16 DEF EndThread, At, Go, Calls, Places
<1>17. CASE OpenLink
  BY <1>17, FreeFound DEF OpenLink, CallbackFree, Calls, Places
<1>18. CASE CloseLink
  BY <1>18 DEF CloseLink, CallbackFree, Calls, Places, Once
<1>19. CASE Interrupt
  BY <1>19 DEF Interrupt, Calls, Places
<1>20. CASE GiveUp
  BY <1>20 DEF GiveUp, Calls, Places
<1>21. CASE ShutDown
  BY <1>21 DEF ShutDown, Calls, Places
<1>22. CASE Join
  BY <1>22 DEF Join, Calls, Places
<1>23. CASE Destroy
  BY <1>23 DEF Destroy, Calls, Places
<1>24. CASE CloseListening
  BY <1>24 DEF CloseListening, Calls, Places
<1>25. CASE Exit
  BY <1>25 DEF Exit, Calls, Places
<1>26. CASE UNCHANGED vars
  BY <1>26 DEF vars, Calls, Places
<1> QED
  BY <1>1, <1>2, <1>3, <1>4, <1>5, <1>6, <1>7, <1>8, <1>9, <1>10, <1>11, <1>12, <1>13,
     <1>14, <1>15, <1>16, <1>17, <1>18, <1>19, <1>20, <1>21, <1>22, <1>23, <1>24, <1>25,
     <1>26 DEF Next, MainStep, ThreadStep, TermStep

(* shutdown() stays with the connection of a thread until it closes it.    *)
LEMMA WokenStep ==
  ASSUME IInv, [Next]_vars
  PROVE  Woken'
<1> USE ThreadsAssumption DEF clientVars, mainVars, threadVars, termVars, linkVars, Slots,
        Working, Serving, Ahead, Labels, Running
<1> USE DEF IInv, TypeOK
<1>1. ASSUME NEW c \in Conns, Connect(c) PROVE Woken'
  BY <1>1 DEF Connect, Woken, Orderly, Places
<1>2. ASSUME NEW c \in Conns, Call(c) PROVE Woken'
  BY <1>2 DEF Call, Woken, Orderly, Places
<1>3. ASSUME NEW c \in Conns, Return(c) PROVE Woken'
  BY <1>3 DEF Return, Woken, Orderly, Places
<1>4. ASSUME NEW c \in Conns, CallFails(c) PROVE Woken'
  BY <1>4 DEF CallFails, Open, Over, Woken, Orderly, Places
<1>5. ASSUME NEW c \in Conns, Leave(c) PROVE Woken'
  BY <1>5 DEF Leave, Woken, Orderly, Places
<1>6. CASE Accept
  BY <1>6 DEF Accept, InMain, Woken, Orderly, Places
<1>7. CASE StoreParameters
  BY <1>7 DEF StoreParameters, InMain, Woken, Orderly, Places
<1>8. CASE CreateThread
  BY <1>8 DEF CreateThread, InMain, Woken, Orderly, Places
<1>9. CASE CountThread
  BY <1>9 DEF CountThread, InMain, Woken, Orderly, Places
<1>10. ASSUME NEW i \in Slots, StartThread(i) PROVE Woken'
  BY <1>10 DEF StartThread, At, Go, Woken, Orderly, Places
<1>11. ASSUME NEW i \in Slots, BeginRead(i) PROVE Woken'
  BY <1>11 DEF BeginRead, At, Go, On, Woken, Orderly, Places
<1>12. ASSUME NEW i \in Slots, EndRead(i) PROVE Woken'
  BY <1>12 DEF EndRead, At, Go, Over, Woken, Orderly, Places
<1>13. ASSUME NEW i \in Slots, Invoke(i) PROVE Woken'
  BY <1>13 DEF Invoke, At, Go, Woken, Orderly, Places
<1>14. ASSUME NEW i \in Slots, Send(i) PROVE Woken'
  BY <1>14 DEF Send, SendWorks, SendFails, At, Go, On, Over, Woken, Orderly, Places
<1>15. ASSUME NEW i \in Slots, Close(i) PROVE Woken'
  BY <1>15 DEF Close, Closing, At, Go, Woken, Orderly, Places, Own
<1>16. ASSUME NEW i \in Slots, EndThread(i) PROVE Woken'
  BY <1>16 DEF EndThread, At, Go, Woken, Orderly, Places
<1>17. CASE OpenLink
  BY <1>17, FreeFound DEF OpenLink, CallbackFree, Woken, Orderly, Places, Own
<1>18. CASE CloseLink
  BY <1>18 DEF CloseLink, CallbackFree, Woken, Orderly, Places, Own
<1>19. CASE Interrupt
  BY <1>19 DEF Interrupt, Woken, Orderly, Places, Joined
<1>20. CASE GiveUp
  BY <1>20 DEF GiveUp, Woken, Orderly, Places, Joined
<1>21. CASE ShutDown
  BY <1>21 DEF ShutDown, Woken, Orderly, Places, Own, Joined
<1>22. CASE Join
  BY <1>22 DEF Join, Woken, Orderly, Places
<1>23. CASE Destroy
  BY <1>23 DEF Destroy, Woken, Orderly, Places
<1>24. CASE CloseListening
  BY <1>24 DEF CloseListening, Woken, Orderly, Places
<1>25. CASE Exit
  BY <1>25 DEF Exit, Woken, Orderly, Places
<1>26. CASE UNCHANGED vars
  BY <1>26 DEF vars, Woken, Orderly, Places
<1> QED
  BY <1>1, <1>2, <1>3, <1>4, <1>5, <1>6, <1>7, <1>8, <1>9, <1>10, <1>11, <1>12, <1>13,
     <1>14, <1>15, <1>16, <1>17, <1>18, <1>19, <1>20, <1>21, <1>22, <1>23, <1>24, <1>25,
     <1>26 DEF Next, MainStep, ThreadStep, TermStep

(* An answer is sent on the connection the request came on.                *)
LEMMA OwnAnswersStep ==
  ASSUME IInv, [Next]_vars
  PROVE  OwnAnswers'
<1> USE ThreadsAssumption DEF clientVars, mainVars, threadVars, termVars, linkVars, Slots,
        Working, Serving, Ahead, Labels, Running
<1> USE DEF IInv, TypeOK
<1>1. ASSUME NEW c \in Conns, Connect(c) PROVE OwnAnswers'
  BY <1>1 DEF Connect, OwnAnswers, Orderly, Places
<1>2. ASSUME NEW c \in Conns, Call(c) PROVE OwnAnswers'
  BY <1>2 DEF Call, OwnAnswers, Orderly, Places
<1>3. ASSUME NEW c \in Conns, Return(c) PROVE OwnAnswers'
  BY <1>3 DEF Return, OwnAnswers, Orderly, Places
<1>4. ASSUME NEW c \in Conns, CallFails(c) PROVE OwnAnswers'
  BY <1>4 DEF CallFails, Open, Over, OwnAnswers, Orderly, Places
<1>5. ASSUME NEW c \in Conns, Leave(c) PROVE OwnAnswers'
  BY <1>5 DEF Leave, OwnAnswers, Orderly, Places
<1>6. CASE Accept
  BY <1>6 DEF Accept, InMain, OwnAnswers, Orderly, Places
<1>7. CASE StoreParameters
  BY <1>7 DEF StoreParameters, InMain, OwnAnswers, Orderly, Places
<1>8. CASE CreateThread
  BY <1>8 DEF CreateThread, InMain, OwnAnswers, Orderly, Places
<1>9. CASE CountThread
  BY <1>9 DEF CountThread, InMain, OwnAnswers, Orderly, Places
<1>10. ASSUME NEW i \in Slots, StartThread(i) PROVE OwnAnswers'
  BY <1>10 DEF StartThread, At, Go, OwnAnswers, Orderly, Places
<1>11. ASSUME NEW i \in Slots, BeginRead(i) PROVE OwnAnswers'
  BY <1>11 DEF BeginRead, At, Go, On, OwnAnswers, Orderly, Places
<1>12. ASSUME NEW i \in Slots, EndRead(i) PROVE OwnAnswers'
  BY <1>12 DEF EndRead, At, Go, Over, OwnAnswers, Orderly, Places
<1>13. ASSUME NEW i \in Slots, Invoke(i) PROVE OwnAnswers'
  BY <1>13 DEF Invoke, At, Go, OwnAnswers, Orderly, Places
<1>14. ASSUME NEW i \in Slots, Send(i) PROVE OwnAnswers'
  BY <1>14 DEF Send, SendWorks, SendFails, At, Go, On, Over, OwnAnswers, Orderly, Places,
     Own
<1>15. ASSUME NEW i \in Slots, Close(i) PROVE OwnAnswers'
  BY <1>15 DEF Close, Closing, At, Go, OwnAnswers, Orderly, Places
<1>16. ASSUME NEW i \in Slots, EndThread(i) PROVE OwnAnswers'
  BY <1>16 DEF EndThread, At, Go, OwnAnswers, Orderly, Places
<1>17. CASE OpenLink
  BY <1>17 DEF OpenLink, CallbackFree, OwnAnswers, Orderly, Places
<1>18. CASE CloseLink
  BY <1>18 DEF CloseLink, CallbackFree, OwnAnswers, Orderly, Places
<1>19. CASE Interrupt
  BY <1>19 DEF Interrupt, OwnAnswers, Orderly, Places
<1>20. CASE GiveUp
  BY <1>20 DEF GiveUp, OwnAnswers, Orderly, Places
<1>21. CASE ShutDown
  BY <1>21 DEF ShutDown, OwnAnswers, Orderly, Places
<1>22. CASE Join
  BY <1>22 DEF Join, OwnAnswers, Orderly, Places
<1>23. CASE Destroy
  BY <1>23 DEF Destroy, OwnAnswers, Orderly, Places
<1>24. CASE CloseListening
  BY <1>24 DEF CloseListening, OwnAnswers, Orderly, Places
<1>25. CASE Exit
  BY <1>25 DEF Exit, OwnAnswers, Orderly, Places
<1>26. CASE UNCHANGED vars
  BY <1>26 DEF vars, OwnAnswers, Orderly, Places
<1> QED
  BY <1>1, <1>2, <1>3, <1>4, <1>5, <1>6, <1>7, <1>8, <1>9, <1>10, <1>11, <1>12, <1>13,
     <1>14, <1>15, <1>16, <1>17, <1>18, <1>19, <1>20, <1>21, <1>22, <1>23, <1>24, <1>25,
     <1>26 DEF Next, MainStep, ThreadStep, TermStep

-----------------------------------------------------------------------------
(***************************************************************************)
(* What follows for every behaviour.                                       *)
(***************************************************************************)

(* A server that has just opened its listening socket is in order.         *)
LEMMA InitInvariant == Init => IInv
<1> USE ThreadsAssumption DEF Slots, Working, Serving, Ahead, Labels, Running
<1> SUFFICES ASSUME Init PROVE IInv
  OBVIOUS
<1>1. Min(Fds) \in Fds
  <2>1. Fds # {}
    <3>1. Cardinality(Conns) \in Nat
      BY FS_CardinalityType
    <3> QED
      BY <3>1, FS_EmptySet
  <2> QED
    BY <2>1, MinFacts
<1>2. TypeOK /\ Places
  BY <1>1 DEF Init, TypeOK, Places
<1>3. Creating /\ Distinct /\ Attended /\ Joined
  BY DEF Init, Creating, Distinct, Attended, Joined
<1>4. Counted
  <2>1. Inside = {} /\ connected = 0
    BY DEF Init, Inside
  <2> QED
    BY <2>1, FS_EmptySet DEF Counted
<1>5. Own /\ Once /\ Calls /\ Woken /\ OwnAnswers
  BY DEF Init, Own, Once, Calls, Woken, OwnAnswers
<1> QED
  BY <1>2, <1>3, <1>4, <1>5 DEF IInv

(* The inductive invariant holds in every reachable state.                 *)
THEOREM InvariantHolds == Spec => []IInv
<1>1. IInv /\ [Next]_vars => IInv'
  BY TypeOKStep, PlacesStep, CreatingStep, DistinctStep, AttendedStep, CountedStep,
     JoinedStep, OwnStep, OnceStep, CallsStep, WokenStep, OwnAnswersStep DEF IInv
<1> QED
  BY <1>1, InitInvariant, PTL DEF Spec

(* Type correctness; the counter and the loop variable of terminate() stay *)
(* within the array.                                                       *)
THEOREM TypeCorrect == Spec => []TypeOK
<1>1. IInv => TypeOK
  BY DEF IInv
<1> QED
  BY <1>1, InvariantHolds, PTL

(* As long as no call fails, what is answered on a connection is the       *)
(* answer to the request that came on it, although the kernel gives the    *)
(* same descriptor to one connection after the other.                      *)
THEOREM OwnAnswersCorrect == Spec => []OwnAnswers
<1>1. IInv => OwnAnswers
  BY DEF IInv
<1> QED
  BY <1>1, InvariantHolds, PTL

(* After SIGINT the table and the locks are freed only when every thread   *)
(* that was counted has ended.  The condition is in the property: when     *)
(* terminate() runs on the callback's thread, a thread that main counts    *)
(* later outlives them.                                                    *)
THEOREM TableOutlivesCountedCorrect == Spec => []TableOutlivesCounted
<1>1. IInv => TableOutlivesCounted
  <2> SUFFICES ASSUME IInv, table = "freed", main = "handler",
                      NEW i \in Slots, thread[i] \notin {"none", "done"}
               PROVE  i = counter
    BY DEF TableOutlivesCounted
  <2>1. ~(i < counter)
    BY DEF IInv, Joined
  <2>2. ~(i > counter)
    BY DEF IInv, TypeOK
  <2> QED
    BY <2>1, <2>2, ThreadsAssumption DEF IInv, TypeOK, Slots
<1> QED
  BY <1>1, InvariantHolds, PTL

(* After SIGINT, if no client has broken off, terminate() does not join a  *)
(* thread that waits for a request on a connection nobody has shut down.   *)
(* The condition is in the property (Orderly): on the callback's thread    *)
(* terminate() does join such a thread, that of a client accepted after    *)
(* its shutdowns.                                                          *)
THEOREM JoinedIsWokenCorrect == Spec => []JoinedIsWoken
<1>1. IInv => JoinedIsWoken
  <2> SUFFICES ASSUME IInv, Orderly, term = "join", NEW i \in Slots, i < counter, Waits(i)
               PROVE  FALSE
    BY DEF JoinedIsWoken
  <2>1. thread[i] = "reading" /\ thread[i] \in Serving /\ ~Over(reading[i]) /\ Running
    BY DEF Waits, Serving, Running
  <2>2. reading[i] = desc[slot[i]]
    BY <2>1 DEF IInv, Own
  <2>3. desc[slot[i]] \in shut
    BY <2>1 DEF IInv, Woken
  <2> QED
    BY <2>1, <2>2, <2>3 DEF Over
<1> QED
  BY <1>1, InvariantHolds, PTL

(* At rest every open connection has a thread that reads from it, also     *)
(* after descriptors were closed twice under other threads, and            *)
(* connected_clients counts those threads; as long as no call fails they   *)
(* are those of the clients that are connected.                            *)
THEOREM OpenIsServedCorrect == Spec => []OpenIsServed
<1>1. IInv => OpenIsServed
  <2> DEFINE here == {c \in Conns : client[c] \in {"idle", "calling"}}
             served == {reading[i] : i \in Slots} \ {Nobody}
  <2> SUFFICES ASSUME IInv, AtRest
               PROVE  /\ \A f \in Fds : desc[f] \in Conns => desc[f] \in served
                      /\ connected = Cardinality({i \in Slots : thread[i] = "reading"})
                      /\ Orderly => served = here
    BY DEF OpenIsServed
  <2>1. \A f \in Fds : desc[f] \in Conns => desc[f] \in served
    <3> SUFFICES ASSUME NEW f \in Fds, desc[f] \in Conns PROVE desc[f] \in served
      OBVIOUS
    <3>1. PICK i \in Slots : /\ slot[i] = f /\ thread[i] \in Ahead
                             /\ thread[i] = "reading" => reading[i] = desc[f]
      BY DEF IInv, Attended, AtRest
    <3>2. thread[i] = "reading"
      BY <3>1 DEF AtRest, Waits, Ahead, Serving, Working
    <3> QED
      BY <3>1, <3>2, ThreadsAssumption
  <2>2. connected = Cardinality({i \in Slots : thread[i] = "reading"})
    <3>1. Inside = {i \in Slots : thread[i] = "reading"}
      BY DEF Inside, AtRest, Waits
    <3> QED
      BY <3>1 DEF IInv, Counted
  <2>3. ASSUME Orderly PROVE served = here
    <3>1. Running /\ shut = {} /\ term = "no" /\ disorder = 0 /\ backlog = {}
      BY <2>3 DEF AtRest, Running, IInv, Joined, Orderly
    <3>2. ASSUME NEW i \in Slots, reading[i] # Nobody PROVE reading[i] \in here
      <4>1. thread[i] = "reading" /\ ~Over(reading[i])
        BY <3>2 DEF IInv, TypeOK, AtRest, Waits
      <4>2. reading[i] = desc[slot[i]] /\ desc[slot[i]] \in Conns /\ slot[i] \in Fds
        BY <2>3, <3>1, <4>1 DEF IInv, Own, Serving, TypeOK
      <4>3. client[reading[i]] \notin {"off", "left"}
        BY <4>1, <4>2 DEF IInv, Distinct, Over
      <4> QED
        BY <4>2, <4>3 DEF IInv, TypeOK
    <3>3. ASSUME NEW c \in here PROVE c \in served
      <4>1. PICK f \in Fds : desc[f] = c
        BY <3>1, <3>3 DEF IInv, Calls
      <4> QED
        BY <2>1, <4>1
    <3> QED
      BY <3>2, <3>3
  <2> QED
    BY <2>1, <2>2, <2>3
<1> QED
  BY <1>1, InvariantHolds, PTL
==============================================================================
