----------------------- MODULE ChainReplicationProofs -----------------------
(***************************************************************************)
(* Proofs about ChainReplication for every set of clients, every finite    *)
(* set of keys, every set of values and every length of the chain.         *)
(***************************************************************************)
EXTENDS ChainReplication, FiniteSetTheorems, TLAPS

-----------------------------------------------------------------------------
(***************************************************************************)
(* Connections and their hosts.                                            *)
(***************************************************************************)

(* Every connection is served by a server of the chain: the ones of        *)
(* clients by head and tail, the link to server s by s.                    *)
LEMMA HostFacts ==
  /\ \A x \in Conns : Host(x) \in Servers
  /\ \A c \in Clients : HeadConn(c) \in Conns /\ Host(HeadConn(c)) = 1
  /\ \A c \in Clients : TailConn(c) \in Conns /\ Host(TailConn(c)) = N
  /\ \A s \in 2 .. N : Link(s) \in Conns /\ Host(Link(s)) = s
BY NAssumption DEF Conns, HeadConns, TailConns, Links, HeadConn, TailConn, Link,
                   Host, Servers

(* The three kinds of connection are apart, and so are the links.          *)
LEMMA ConnsApart ==
  /\ \A c \in Clients, d \in Clients : HeadConn(c) # TailConn(d)
  /\ \A c \in Clients : HeadConn(c) \notin TailConns
  /\ \A s \in 2 .. N : Link(s) \notin TailConns /\ Link(s) \notin HeadConns
  /\ \A s, t \in 2 .. N : Link(s) = Link(t) => s = t
  /\ \A x \in Conns : x # None
BY NoneIsNoConn DEF Conns, HeadConns, TailConns, Links, HeadConn, TailConn, Link

(* A write is served on a head connection at server 1 or on the link to    *)
(* its server.                                                             *)
LEMMA WriterConns ==
  ASSUME NEW x \in Conns, x \notin TailConns
  PROVE  \/ Host(x) = 1 /\ x \in HeadConns
         \/ Host(x) \in 2 .. N /\ x = Link(Host(x))
BY NAssumption DEF Conns, HeadConns, TailConns, Links, HeadConn, TailConn, Link, Host

-----------------------------------------------------------------------------
(***************************************************************************)
(* Tables and requests.                                                    *)
(***************************************************************************)

(* The size of a table is a natural number, at most the number of keys.    *)
LEMMA SizeBounded ==
  ASSUME NEW t PROVE table_size(t) \in Counts
<1>1. table_get_keys(t) \subseteq Keys
  BY DEF table_get_keys
<1>2. /\ Cardinality(table_get_keys(t)) \in Nat
      /\ Cardinality(Keys) \in Nat
      /\ Cardinality(table_get_keys(t)) <= Cardinality(Keys)
  BY <1>1, KeysAssumption, FS_Subset, FS_CardinalityType
<1> QED
  BY <1>2 DEF table_size, Counts

(* The operation tells a write request from a read request, and a put has  *)
(* a key and a value.                                                      *)
LEMMA RequestKinds ==
  /\ \A r \in WriteRequests : /\ r.op \in Writes /\ r.op \notin Reads
                              /\ r.key \in Keys
                              /\ r.op = "put" => r.val \in Values
                              /\ r.op # "put" => r.op = "del"
  /\ \A r \in ReadRequests : /\ r.op \in Reads /\ r.op \notin Writes
                             /\ r.op = "get" => r.key \in Keys
  /\ Requests = WriteRequests \cup ReadRequests
BY DEF WriteRequests, ReadRequests, Requests, Put, Del, Get, Whole, Writes, Reads

(* A write turns a table into a table.                                     *)
LEMMA EffectType ==
  ASSUME NEW t \in Tables, NEW r \in WriteRequests
  PROVE  Effect(t, r) \in Tables
BY RequestKinds DEF Effect, Tables, table_put, table_remove

(* Making a write twice is making it once.                                 *)
LEMMA EffectIdempotent ==
  ASSUME NEW t \in Tables, NEW r \in WriteRequests
  PROVE  Effect(Effect(t, r), r) = Effect(t, r)
BY RequestKinds DEF Effect, Tables, table_put, table_remove

(* The answers that fit each kind of request.                              *)
LEMMA AnswerKinds ==
  /\ \A r \in WriteRequests, ok \in BOOLEAN : Answer(ok, None) \in AnswersTo(r)
  /\ \A r \in ReadRequests, val \in Values :
       r.op = "get" => Answer(TRUE, val) \in AnswersTo(r)
  /\ \A r \in ReadRequests, n \in Counts :
       r.op = "size" => Answer(TRUE, n) \in AnswersTo(r)
  /\ \A r \in ReadRequests, n \in Counts, keys \in SUBSET Keys :
       r.op = "getkeys" => Answer(TRUE, Listing(n, keys)) \in AnswersTo(r)
  /\ \A r \in ReadRequests, n \in Counts, keys \in SUBSET Keys : \A f \in [keys -> Values] :
       r.op = "gettable" => Answer(TRUE, Listing(n, f)) \in AnswersTo(r)
<1>1. \A r \in WriteRequests, ok \in BOOLEAN : Answer(ok, None) \in AnswersTo(r)
  BY RequestKinds DEF AnswersTo, Answer
<1>2. \A r \in ReadRequests, val \in Values :
        r.op = "get" => Answer(TRUE, val) \in AnswersTo(r)
  BY RequestKinds DEF AnswersTo, Answer
<1>3. \A r \in ReadRequests, n \in Counts :
        r.op = "size" => Answer(TRUE, n) \in AnswersTo(r)
  BY RequestKinds DEF AnswersTo, Answer
<1>4. \A r \in ReadRequests, n \in Counts, keys \in SUBSET Keys :
        r.op = "getkeys" => Answer(TRUE, Listing(n, keys)) \in AnswersTo(r)
  BY RequestKinds DEF AnswersTo, Answer, Listing
<1>5. ASSUME NEW r \in ReadRequests, NEW n \in Counts, NEW keys \in SUBSET Keys,
             NEW f \in [keys -> Values], r.op = "gettable"
      PROVE  Answer(TRUE, Listing(n, f)) \in AnswersTo(r)
  <2>1. f \in UNION {[K -> Values] : K \in SUBSET Keys}
    OBVIOUS
  <2>2. r.op \notin Writes
    BY RequestKinds
  <2> QED
    BY <1>5, <2>1, <2>2 DEF AnswersTo, Answer, Listing
<1> QED
  BY <1>1, <1>2, <1>3, <1>4, <1>5

-----------------------------------------------------------------------------
(***************************************************************************)
(* Types.                                                                  *)
(***************************************************************************)

(* A connection that a step leaves alone stays as its stage allows.        *)
LEMMA StageFrame ==
  ASSUME NEW y \in Conns, StageOK(y),
         pc'[y] = pc[y], msg'[y] = msg[y], ans'[y] = ans[y]
  PROVE  StageOK(y)'
BY DEF StageOK

(* A thread about to write holds the lock and finds the next link idle.    *)
LEMMA NextLinkIdle ==
  ASSUME IInv, NEW x \in Conns, pc[x] = "write"
  PROVE  /\ writer[Host(x)] = x
         /\ msg[x] \in WriteRequests
         /\ Host(x) < N => /\ Host(x) + 1 \in 2 .. N
                           /\ pc[Link(Host(x) + 1)] = "idle"
                           /\ Link(Host(x) + 1) # x
<1>1. StageOK(x)
  BY DEF IInv, TypeOK
<1>2. msg[x] \in WriteRequests
  BY <1>1 DEF StageOK
<1>3. writer[Host(x)] = x
  BY <1>2, RequestKinds DEF IInv, LockOK, OwnLock, HoldsWrite
<1>4. ASSUME Host(x) < N
      PROVE  Host(x) + 1 \in 2 .. N /\ pc[Link(Host(x) + 1)] = "idle"
  <2>1. Host(x) + 1 \in 2 .. N /\ (Host(x) + 1) - 1 = Host(x)
    BY <1>4, HostFacts, NAssumption DEF Servers
  <2> QED
    BY <2>1, <1>3 DEF IInv, CallsNest, Nested
<1> QED
  BY <1>2, <1>3, <1>4

(* What the write section does: the write is made on the own table, and    *)
(* the next link, if there is one, takes it up.                            *)
LEMMA WriteTableEffect ==
  ASSUME IInv, NEW x \in Conns, WriteTable(x)
  PROVE  /\ msg[x] \in WriteRequests
         /\ table' = [table EXCEPT ![Host(x)] = Effect(table[Host(x)], msg[x])]
         /\ \E ok \in BOOLEAN : ans' = [ans EXCEPT ![x] = Answer(ok, None)]
         /\ UNCHANGED <<writer, readers, listing>>
         /\ Host(x) < N =>
              /\ pc'  = [pc  EXCEPT ![x] = "await", ![Link(Host(x) + 1)] = "sent"]
              /\ msg' = [msg EXCEPT ![Link(Host(x) + 1)] = msg[x]]
         /\ ~(Host(x) < N) => pc' = [pc EXCEPT ![x] = "unlock"] /\ msg' = msg
<1>1. msg[x] \in WriteRequests
  BY NextLinkIdle DEF WriteTable
<1>2. CASE ApplyPut(x)
  <2>1. table' = [table EXCEPT ![Host(x)] = Effect(table[Host(x)], msg[x])]
    BY <1>2 DEF ApplyPut, Effect
  <2> QED
    BY <1>1, <1>2, <2>1 DEF WriteTable, ApplyPut, Goto
<1>3. CASE ApplyDel(x)
  <2>1. table' = [table EXCEPT ![Host(x)] = Effect(table[Host(x)], msg[x])]
    BY <1>3 DEF ApplyDel, Effect
  <2> QED
    BY <1>1, <1>3, <2>1 DEF WriteTable, ApplyDel, Goto
<1> QED
  BY <1>2, <1>3 DEF WriteTable

(* A thread that waits for next_server holds the lock and has a next link. *)
LEMMA AwaitFacts ==
  ASSUME IInv, NEW x \in Conns, pc[x] = "await"
  PROVE  /\ writer[Host(x)] = x
         /\ msg[x] \in WriteRequests
         /\ Host(x) + 1 \in 2 .. N
         /\ Link(Host(x) + 1) \in Conns
         /\ pc[Link(Host(x) + 1)] # "idle"
<1>1. StageOK(x)
  BY DEF IInv, TypeOK
<1>2. msg[x] \in WriteRequests /\ Host(x) < N
  BY <1>1 DEF StageOK
<1>3. writer[Host(x)] = x
  BY <1>2, RequestKinds DEF IInv, LockOK, OwnLock, HoldsWrite
<1>4. Host(x) + 1 \in 2 .. N /\ (Host(x) + 1) - 1 = Host(x)
  BY <1>2, HostFacts, NAssumption DEF Servers
<1>5. writer[Host(x)] # None
  BY <1>3, ConnsApart
<1> QED
  BY <1>2, <1>3, <1>4, <1>5, HostFacts DEF IInv, CallsNest, Nested

(* The requests a connection carries are requests, and the stages in which *)
(* only a writer, or only a reader, can be.                                *)
LEMMA StageFacts ==
  ASSUME IInv, NEW x \in Conns
  PROVE  /\ StageOK(x)
         /\ pc[x] # "idle" => msg[x] \in Requests
         /\ pc[x] # "idle" /\ msg[x].op \in Writes =>
              msg[x] \in WriteRequests /\ x \notin TailConns
         /\ pc[x] # "idle" /\ msg[x].op \in Reads =>
              msg[x] \in ReadRequests /\ x \in TailConns
         /\ pc[x] \in {"read", "keys", "entries"} => msg[x].op \in Reads
<1>1. StageOK(x)
  BY DEF IInv, TypeOK
<1> QED
  BY <1>1, RequestKinds DEF StageOK

(* A step of one thread leaves the other connections as their stage allows.*)
LEMMA OthersStage ==
  ASSUME IInv, NEW x \in Conns, NEW y \in Conns, y # x, NEW label, NEW a,
         pc' = [pc EXCEPT ![x] = label], msg' = msg, ans' = [ans EXCEPT ![x] = a]
  PROVE  StageOK(y)'
<1>1. pc'[y] = pc[y] /\ msg'[y] = msg[y] /\ ans'[y] = ans[y]
  BY DEF IInv, TypeOK
<1> QED
  BY <1>1, StageFacts, StageFrame

(* Every step keeps the types.                                             *)
LEMMA TypeStep ==
  ASSUME IInv, [Next]_vars
  PROVE  TypeOK'
<1> USE DEF IInv
<1>1. TypeOK /\ \A x \in Conns : StageOK(x)
  BY DEF TypeOK
<1>2. CASE UNCHANGED vars
  <2>1. ASSUME NEW y \in Conns PROVE StageOK(y)'
    BY <1>1, <1>2, StageFrame DEF vars
  <2> QED
    BY <1>1, <1>2, <2>1 DEF TypeOK, vars
<1>3. ASSUME NEW c \in Clients, NEW r \in Requests, ClientCall(c, r)
      PROVE  TypeOK'
  <2> DEFINE x == Route(c, r)
  <2>1. x \in Conns /\ pc[x] = "idle"
    BY <1>3, HostFacts DEF ClientCall, Route
  <2>2. r \in IF x \in TailConns THEN ReadRequests ELSE WriteRequests
    BY RequestKinds, ConnsApart DEF Route, TailConns
  <2>3. pc' = [pc EXCEPT ![x] = "sent"] /\ msg' = [msg EXCEPT ![x] = r]
        /\ UNCHANGED <<table, writer, readers, ans, listing>>
    BY <1>3 DEF ClientCall, SendRequest
  <2>4. StageOK(x)'
    BY <1>1, <2>1, <2>2, <2>3 DEF StageOK, TypeOK
  <2>5. ASSUME NEW y \in Conns, y # x PROVE StageOK(y)'
    BY <1>1, <2>1, <2>3, <2>5, StageFrame DEF TypeOK
  <2> HIDE DEF x
  <2> QED
    BY <1>1, <2>1, <2>3, <2>4, <2>5 DEF TypeOK, Labels
<1>4. ASSUME NEW c \in Clients, ClientReturn(c)
      PROVE  TypeOK'
  <2>1. PICK x \in {HeadConn(c), TailConn(c)} :
          TakeAnswer(x) /\ Goto(x, "idle") /\ UNCHANGED <<table, writer, readers, listing>>
    BY <1>4 DEF ClientReturn
  <2>2. x \in Conns
    BY HostFacts
  <2>3. /\ pc' = [pc EXCEPT ![x] = "idle"] /\ msg' = [msg EXCEPT ![x] = NoRequest]
        /\ ans' = [ans EXCEPT ![x] = NoAnswer]
    BY <2>1 DEF TakeAnswer, Goto
  <2>4. StageOK(x)'
    BY <1>1, <2>2, <2>3 DEF StageOK, TypeOK
  <2>5. ASSUME NEW y \in Conns, y # x PROVE StageOK(y)'
    BY <1>1, <2>3, <2>5, StageFrame DEF TypeOK
  <2> QED
    BY <1>1, <2>1, <2>2, <2>3, <2>4, <2>5 DEF TypeOK, Labels
<1>5. ASSUME NEW x \in Conns, LockWriter(x)
      PROVE  TypeOK'
  <2>1. /\ pc' = [pc EXCEPT ![x] = "write"] /\ ans' = [ans EXCEPT ![x] = ans[x]]
        /\ writer' = [writer EXCEPT ![Host(x)] = x]
        /\ UNCHANGED <<table, readers, msg, ans, listing>>
    BY <1>1, <1>5 DEF LockWriter, Goto, TypeOK
  <2>2. StageOK(x)'
    BY <1>1, <1>5, <2>1, StageFacts DEF LockWriter, StageOK, TypeOK
  <2>3. \A y \in Conns : StageOK(y)'
    BY <2>1, <2>2, OthersStage
  <2> QED
    BY <1>1, <2>1, <2>3 DEF TypeOK, Labels
<1>6. ASSUME NEW x \in Conns, UnlockWriter(x)
      PROVE  TypeOK'
  <2>1. /\ pc' = [pc EXCEPT ![x] = "send"] /\ ans' = [ans EXCEPT ![x] = ans[x]]
        /\ writer' = [writer EXCEPT ![Host(x)] = None]
        /\ UNCHANGED <<table, readers, msg, ans, listing>>
    BY <1>1, <1>6 DEF UnlockWriter, Goto, TypeOK
  <2>2. StageOK(x)'
    BY <1>1, <1>6, <2>1, StageFacts DEF UnlockWriter, StageOK, TypeOK
  <2>3. \A y \in Conns : StageOK(y)'
    BY <2>1, <2>2, OthersStage
  <2> QED
    BY <1>1, <2>1, <2>3 DEF TypeOK, Labels
<1>7. ASSUME NEW x \in Conns, LockReader(x)
      PROVE  TypeOK'
  <2>1. /\ pc' = [pc EXCEPT ![x] = "read"] /\ ans' = [ans EXCEPT ![x] = ans[x]]
        /\ readers' = [readers EXCEPT ![Host(x)] = @ \cup {x}]
        /\ UNCHANGED <<table, writer, msg, ans, listing>>
    BY <1>1, <1>7 DEF LockReader, Goto, TypeOK
  <2>2. StageOK(x)'
    BY <1>1, <1>7, <2>1, StageFacts DEF LockReader, StageOK, TypeOK
  <2>3. \A y \in Conns : StageOK(y)'
    BY <2>1, <2>2, OthersStage
  <2> QED
    BY <1>1, <2>1, <2>3 DEF TypeOK, Labels
<1>8. ASSUME NEW x \in Conns, UnlockReader(x)
      PROVE  TypeOK'
  <2>1. /\ pc' = [pc EXCEPT ![x] = "send"] /\ ans' = [ans EXCEPT ![x] = ans[x]]
        /\ readers' = [readers EXCEPT ![Host(x)] = @ \ {x}]
        /\ listing' = [listing EXCEPT ![x] = NoListing]
        /\ UNCHANGED <<table, writer, msg, ans>>
    BY <1>1, <1>8 DEF UnlockReader, Goto, TypeOK
  <2>2. StageOK(x)'
    BY <1>1, <1>8, <2>1, StageFacts DEF UnlockReader, StageOK, TypeOK
  <2>3. \A y \in Conns : StageOK(y)'
    BY <2>1, <2>2, OthersStage
  <2>4. NoListing \in [n : Counts, items : SUBSET Keys]
    BY KeysAssumption, FS_CardinalityType DEF NoListing, Listing, Counts
  <2> QED
    BY <1>1, <2>1, <2>3, <2>4 DEF TypeOK, Labels
<1>9. ASSUME NEW x \in Conns, SendAnswer(x)
      PROVE  TypeOK'
  <2>1. /\ pc' = [pc EXCEPT ![x] = "answered"] /\ ans' = [ans EXCEPT ![x] = ans[x]]
        /\ UNCHANGED <<table, writer, readers, msg, ans, listing>>
    BY <1>1, <1>9 DEF SendAnswer, Goto, TypeOK
  <2>2. StageOK(x)'
    BY <1>1, <1>9, <2>1, StageFacts DEF SendAnswer, StageOK, TypeOK
  <2>3. \A y \in Conns : StageOK(y)'
    BY <2>1, <2>2, OthersStage
  <2> QED
    BY <1>1, <2>1, <2>3 DEF TypeOK, Labels
<1>10. ASSUME NEW x \in Conns, ReadValue(x)
       PROVE  TypeOK'
  <2> DEFINE val == table_get(table[Host(x)], msg[x].key)
             a   == Answer(val # None, val)
  <2>1. /\ pc' = [pc EXCEPT ![x] = "unlock"] /\ ans' = [ans EXCEPT ![x] = a]
        /\ UNCHANGED <<table, writer, readers, msg, listing>>
    BY <1>10 DEF ReadValue, Goto
  <2>2. msg[x] \in ReadRequests /\ msg[x].op = "get" /\ msg[x].key \in Keys
    BY <1>10, StageFacts, RequestKinds DEF ReadValue
  <2>3. val \in Values \cup {None}
    BY <1>1, <2>2, HostFacts DEF TypeOK, Tables, table_get
  <2>4. a = NoAnswer \/ a \in AnswersTo(msg[x])
    BY <2>2, <2>3, AnswerKinds DEF NoAnswer
  <2>5. StageOK(x)'
    BY <1>1, <1>10, <2>1, <2>2, <2>4, StageFacts DEF ReadValue, StageOK, TypeOK
  <2> HIDE DEF a
  <2>6. \A y \in Conns : StageOK(y)'
    BY <2>1, <2>5, OthersStage
  <2> QED
    BY <1>1, <2>1, <2>6 DEF TypeOK, Labels
<1>11. ASSUME NEW x \in Conns, ReadSize(x)
       PROVE  TypeOK'
  <2> DEFINE a == Answer(TRUE, table_size(table[Host(x)]))
  <2>1. /\ pc' = [pc EXCEPT ![x] = "unlock"] /\ ans' = [ans EXCEPT ![x] = a]
        /\ UNCHANGED <<table, writer, readers, msg, listing>>
    BY <1>11 DEF ReadSize, Goto
  <2>2. msg[x] \in ReadRequests /\ msg[x].op = "size"
    BY <1>11, StageFacts, RequestKinds DEF ReadSize
  <2>3. a \in AnswersTo(msg[x])
    BY <2>2, SizeBounded, AnswerKinds
  <2>4. StageOK(x)'
    BY <1>1, <1>11, <2>1, <2>2, <2>3, StageFacts DEF ReadSize, StageOK, TypeOK
  <2> HIDE DEF a
  <2>5. \A y \in Conns : StageOK(y)'
    BY <2>1, <2>4, OthersStage
  <2> QED
    BY <1>1, <2>1, <2>5 DEF TypeOK, Labels
<1>12. ASSUME NEW x \in Conns, CountKeys(x)
       PROVE  TypeOK'
  <2> DEFINE l == Listing(table_size(table[Host(x)]), {})
  <2>1. /\ pc' = [pc EXCEPT ![x] = "keys"] /\ ans' = [ans EXCEPT ![x] = ans[x]]
        /\ listing' = [listing EXCEPT ![x] = l]
        /\ UNCHANGED <<table, writer, readers, msg, ans>>
    BY <1>1, <1>12 DEF CountKeys, Goto, TypeOK
  <2>2. l \in [n : Counts, items : SUBSET Keys]
    BY SizeBounded DEF Listing
  <2>3. StageOK(x)'
    BY <1>1, <1>12, <2>1, StageFacts DEF CountKeys, StageOK, TypeOK
  <2> HIDE DEF l
  <2>4. \A y \in Conns : StageOK(y)'
    BY <2>1, <2>3, OthersStage
  <2> QED
    BY <1>1, <2>1, <2>2, <2>4 DEF TypeOK, Labels
<1>13. ASSUME NEW x \in Conns, ReadKeys(x)
       PROVE  TypeOK'
  <2> DEFINE keys == table_get_keys(table[Host(x)])
             a == IF msg[x].op = "getkeys" THEN Answer(TRUE, Listing(listing[x].n, keys)) ELSE ans[x]
             l == [listing[x] EXCEPT !.items = keys]
             next == IF msg[x].op = "getkeys" THEN "unlock" ELSE "entries"
  <2>1. /\ pc' = [pc EXCEPT ![x] = next] /\ ans' = [ans EXCEPT ![x] = a]
        /\ listing' = [listing EXCEPT ![x] = l]
        /\ UNCHANGED <<table, writer, readers, msg>>
    BY <1>1, <1>13 DEF ReadKeys, Goto, TypeOK
  <2>2. keys \in SUBSET Keys
    BY DEF table_get_keys
  <2>3. l \in [n : Counts, items : SUBSET Keys] /\ listing[x].n \in Counts
    BY <1>1, <2>2 DEF TypeOK
  <2>4. msg[x] \in ReadRequests /\ msg[x].op \in {"getkeys", "gettable"} /\ pc[x] = "keys"
    BY <1>13, StageFacts DEF ReadKeys, StageOK
  <2>5. msg[x].op = "getkeys" => a \in AnswersTo(msg[x])
    BY <2>2, <2>3, <2>4, AnswerKinds
  <2>6. ans[x] = NoAnswer
    BY <2>4, StageFacts DEF StageOK
  <2>7. StageOK(x)'
    BY <1>1, <2>1, <2>4, <2>5, <2>6, StageFacts DEF StageOK, TypeOK
  <2>8. next \in Labels
    BY DEF Labels
  <2> HIDE DEF a, l, next
  <2>9. \A y \in Conns : StageOK(y)'
    BY <2>1, <2>7, OthersStage
  <2> QED
    BY <1>1, <2>1, <2>3, <2>8, <2>9 DEF TypeOK
<1>14. ASSUME NEW x \in Conns, ReadEntries(x)
       PROVE  TypeOK'
  <2> DEFINE t    == table[Host(x)]
             keys == listing[x].items
             f    == [k \in keys |-> table_get(t, k)]
             found == /\ \A k \in keys : table_get(t, k) # None
                      /\ listing[x].n = Cardinality(keys)
             a == IF found THEN Answer(TRUE, Listing(listing[x].n, f)) ELSE NoAnswer
  <2>1. /\ pc' = [pc EXCEPT ![x] = "unlock"] /\ ans' = [ans EXCEPT ![x] = a]
        /\ UNCHANGED <<table, writer, readers, msg, listing>>
    BY <1>14 DEF ReadEntries, Goto
  <2>2. msg[x] \in ReadRequests /\ msg[x].op = "gettable" /\ pc[x] = "entries"
    BY <1>14, StageFacts DEF ReadEntries, StageOK
  <2>3. keys \in SUBSET Keys /\ listing[x].n \in Counts /\ t \in Tables
    BY <1>1, HostFacts DEF TypeOK
  <2>4. ASSUME found PROVE f \in [keys -> Values]
    BY <2>3, <2>4 DEF Tables, table_get
  <2>5. a = NoAnswer \/ a \in AnswersTo(msg[x])
    BY <2>2, <2>3, <2>4, AnswerKinds
  <2>6. StageOK(x)'
    BY <1>1, <2>1, <2>2, <2>5, StageFacts DEF StageOK, TypeOK
  <2> HIDE DEF a
  <2>7. \A y \in Conns : StageOK(y)'
    BY <2>1, <2>6, OthersStage
  <2> QED
    BY <1>1, <2>1, <2>7 DEF TypeOK, Labels
<1>15. ASSUME NEW x \in Conns, WriteTable(x)
       PROVE  TypeOK'
  <2>1. /\ msg[x] \in WriteRequests /\ Host(x) \in Servers
        /\ table' = [table EXCEPT ![Host(x)] = Effect(table[Host(x)], msg[x])]
        /\ UNCHANGED <<writer, readers, listing>>
    BY <1>15, WriteTableEffect, HostFacts
  <2>2. table' \in [Servers -> Tables]
    BY <1>1, <2>1, EffectType DEF TypeOK
  <2>3. PICK ok \in BOOLEAN : ans' = [ans EXCEPT ![x] = Answer(ok, None)]
    BY <1>15, WriteTableEffect
  <2>4. Answer(ok, None) \in AnswersTo(msg[x])
    BY <2>1, AnswerKinds
  <2>5. CASE Host(x) < N
    <3> DEFINE link == Link(Host(x) + 1)
    <3>1. link \in Conns /\ link \notin TailConns /\ link # x /\ pc[link] = "idle"
      BY <1>15, <2>5, NextLinkIdle, HostFacts, ConnsApart DEF WriteTable
    <3>2. /\ pc'  = [pc  EXCEPT ![x] = "await", ![link] = "sent"]
          /\ msg' = [msg EXCEPT ![link] = msg[x]]
      BY <1>15, <2>5, WriteTableEffect
    <3> HIDE DEF link
    <3>3. StageOK(x)'
      BY <1>1, <2>1, <2>3, <2>4, <2>5, <3>1, <3>2, <1>15 DEF WriteTable, StageOK, TypeOK
    <3>4. StageOK(link)'
      BY <1>1, <2>1, <2>3, <3>1, <3>2 DEF StageOK, TypeOK
    <3>5. ASSUME NEW y \in Conns, y # x, y # link PROVE StageOK(y)'
      BY <1>1, <2>3, <3>2, <3>5, StageFrame DEF TypeOK
    <3> QED
      BY <1>1, <2>1, <2>2, <2>3, <3>1, <3>2, <3>3, <3>4, <3>5, RequestKinds DEF TypeOK, Labels
  <2>6. CASE ~(Host(x) < N)
    <3>1. pc' = [pc EXCEPT ![x] = "unlock"] /\ msg' = msg
      BY <1>15, <2>6, WriteTableEffect
    <3>2. StageOK(x)'
      BY <1>1, <2>1, <2>3, <2>4, <3>1, <1>15 DEF WriteTable, StageOK, TypeOK
    <3>3. \A y \in Conns : StageOK(y)'
      BY <2>3, <3>1, <3>2, OthersStage
    <3> QED
      BY <1>1, <2>1, <2>2, <2>3, <3>1, <3>3 DEF TypeOK, Labels
  <2> QED
    BY <2>5, <2>6
<1>16. ASSUME NEW x \in Conns, ForwardReturns(x)
       PROVE  TypeOK'
  <2> DEFINE link == Link(Host(x) + 1)
  <2>1. link \in Conns /\ link # x
    BY <1>16, AwaitFacts DEF ForwardReturns, TakeAnswer
  <2>2. /\ pc' = [pc EXCEPT ![x] = "unlock", ![link] = "idle"]
        /\ msg' = [msg EXCEPT ![link] = NoRequest]
        /\ ans' = [ans EXCEPT ![link] = NoAnswer]
        /\ UNCHANGED <<table, writer, readers, listing>>
    BY <1>16 DEF ForwardReturns, TakeAnswer
  <2> HIDE DEF link
  <2>3. StageOK(x)'
    BY <1>1, <1>16, <2>1, <2>2, StageFacts DEF ForwardReturns, StageOK, TypeOK
  <2>4. StageOK(link)'
    BY <1>1, <2>1, <2>2 DEF StageOK, TypeOK
  <2>5. ASSUME NEW y \in Conns, y # x, y # link PROVE StageOK(y)'
    BY <1>1, <2>2, <2>5, StageFrame DEF TypeOK
  <2> QED
    BY <1>1, <2>1, <2>2, <2>3, <2>4, <2>5 DEF TypeOK, Labels
<1> QED
  BY <1>2, <1>3, <1>4, <1>5, <1>6, <1>7, <1>8, <1>9, <1>10, <1>11, <1>12, <1>13,
     <1>14, <1>15, <1>16 DEF Next, Serve, ReadStep

-----------------------------------------------------------------------------
(***************************************************************************)
(* Shapes of steps that several proofs below share.                        *)
(***************************************************************************)

(* A reading step moves one reader within its section and changes no       *)
(* table, lock or message.                                                 *)
LEMMA ReadStepShape ==
  ASSUME IInv, NEW x \in Conns, ReadStep(x)
  PROVE  /\ x \in TailConns /\ msg[x].op \in Reads
         /\ pc[x] \in {"read", "keys", "entries"}
         /\ \E l \in {"keys", "entries", "unlock"} : pc' = [pc EXCEPT ![x] = l]
         /\ UNCHANGED <<table, writer, readers, msg>>
<1>1. pc[x] \in {"read", "keys", "entries"} /\ UNCHANGED <<table, writer, readers, msg>>
  BY DEF ReadStep, ReadValue, ReadSize, CountKeys, ReadKeys, ReadEntries
<1>2. \E l \in {"keys", "entries", "unlock"} : pc' = [pc EXCEPT ![x] = l]
  BY DEF ReadStep, ReadValue, ReadSize, CountKeys, ReadKeys, ReadEntries, Goto
<1> QED
  BY <1>1, <1>2, StageFacts

(* A client's step puts one idle connection in use, or frees it.           *)
LEMMA ClientStepShape ==
  ASSUME IInv, NEW c \in Clients,
         (\E r \in Requests : ClientCall(c, r)) \/ ClientReturn(c)
  PROVE  \E x \in HeadConns \cup TailConns, l \in {"idle", "sent"}, r \in Requests \cup {NoRequest} :
           /\ x \in Conns
           /\ pc[x] \in {"idle", "answered"}
           /\ pc'  = [pc EXCEPT ![x] = l]
           /\ msg' = [msg EXCEPT ![x] = r]
           /\ UNCHANGED <<table, writer, readers>>
<1>1. HeadConn(c) \in HeadConns /\ TailConn(c) \in TailConns
  BY DEF HeadConns, TailConns
<1>2. ASSUME NEW r \in Requests, ClientCall(c, r)
      PROVE  /\ Route(c, r) \in {HeadConn(c), TailConn(c)}
             /\ pc[Route(c, r)] = "idle"
             /\ pc'  = [pc EXCEPT ![Route(c, r)] = "sent"]
             /\ msg' = [msg EXCEPT ![Route(c, r)] = r]
             /\ UNCHANGED <<table, writer, readers>>
  BY <1>2 DEF ClientCall, SendRequest, Route
<1>3. ASSUME ClientReturn(c)
      PROVE  \E x \in {HeadConn(c), TailConn(c)} :
               /\ pc[x] = "answered"
               /\ pc'  = [pc EXCEPT ![x] = "idle"]
               /\ msg' = [msg EXCEPT ![x] = NoRequest]
               /\ UNCHANGED <<table, writer, readers>>
  BY <1>3 DEF ClientReturn, TakeAnswer, Goto
<1> QED
  BY <1>1, <1>2, <1>3, HostFacts

(* While a head thread does not wait for next_server, or nobody holds the  *)
(* write lock of the head, no link is in use.                              *)
LEMMA LinksIdle ==
  ASSUME IInv, writer[1] = None \/ pc[writer[1]] # "await", NEW u \in 2 .. N
  PROVE  pc[Link(u)] = "idle"
BY DEF IInv, CallsNest, Nested

-----------------------------------------------------------------------------
(***************************************************************************)
(* The lock.                                                               *)
(***************************************************************************)

(* The lock stays right when nobody takes or releases it and nobody enters *)
(* or leaves a section.                                                    *)
LEMMA LockFrame ==
  ASSUME LockOK, UNCHANGED <<writer, readers>>,
         \A y \in Conns : /\ HoldsWrite(y)' <=> HoldsWrite(y)
                          /\ HoldsRead(y)'  <=> HoldsRead(y)
  PROVE  LockOK'
BY DEF LockOK, OwnLock

(* Every step keeps the lock right.                                        *)
LEMMA LockStep ==
  ASSUME IInv, [Next]_vars
  PROVE  LockOK'
<1>1. LockOK /\ pc \in [Conns -> Labels] /\ msg \in [Conns -> Requests \cup {NoRequest}]
      /\ writer \in [Servers -> Conns \cup {None}] /\ readers \in [Servers -> SUBSET Conns]
  BY DEF IInv, TypeOK
<1>2. CASE UNCHANGED vars
  BY <1>1, <1>2, LockFrame DEF vars, HoldsWrite, HoldsRead
<1>3. ASSUME NEW c \in Clients, (\E r \in Requests : ClientCall(c, r)) \/ ClientReturn(c)
      PROVE  LockOK'
  <2>1. PICK x \in HeadConns \cup TailConns, l \in {"idle", "sent"}, r \in Requests \cup {NoRequest} :
           /\ x \in Conns
           /\ pc[x] \in {"idle", "answered"}
           /\ pc'  = [pc EXCEPT ![x] = l]
           /\ msg' = [msg EXCEPT ![x] = r]
           /\ UNCHANGED <<table, writer, readers>>
    BY <1>3, ClientStepShape
  <2> QED
    BY <1>1, <2>1, LockFrame DEF HoldsWrite, HoldsRead
<1>4. ASSUME NEW x \in Conns, LockWriter(x)
      PROVE  LockOK'
  <2>1. /\ writer[Host(x)] = None /\ readers[Host(x)] = {} /\ msg[x].op \in Writes
        /\ pc' = [pc EXCEPT ![x] = "write"] /\ writer' = [writer EXCEPT ![Host(x)] = x]
        /\ readers' = readers /\ msg' = msg /\ pc[x] = "sent"
    BY <1>4 DEF LockWriter, Goto
  <2>2. msg[x].op \notin Reads
    BY <2>1 DEF Reads, Writes
  <2>3. HoldsWrite(x)' /\ ~HoldsRead(x)' /\ ~HoldsRead(x) /\ ~HoldsWrite(x)
    BY <1>1, <2>1, <2>2 DEF HoldsWrite, HoldsRead
  <2>4. \A y \in Conns : Host(y) \in Servers /\ y # None
    BY HostFacts, ConnsApart
  <2>5. ASSUME NEW s \in Servers
        PROVE  /\ writer'[s] # None => Host(writer'[s]) = s
               /\ \A y \in readers'[s] : Host(y) = s
    BY <1>1, <2>1, <2>4 DEF LockOK
  <2>6. ASSUME NEW y \in Conns PROVE OwnLock(y)'
    <3>1. OwnLock(y) /\ OwnLock(x)
      BY <1>1 DEF LockOK
    <3>2. CASE y = x
      BY <1>1, <2>1, <2>3, <2>4, <3>1, <3>2 DEF OwnLock
    <3>3. CASE y # x
      <4>1. (HoldsWrite(y)' <=> HoldsWrite(y)) /\ (HoldsRead(y)' <=> HoldsRead(y))
        BY <1>1, <2>1, <3>3 DEF HoldsWrite, HoldsRead
      <4>2. /\ readers'[Host(y)] = readers[Host(y)]
            /\ writer'[Host(y)] = IF Host(y) = Host(x) THEN x ELSE writer[Host(y)]
        BY <1>1, <2>1, <2>4
      <4> QED
        BY <2>1, <3>1, <3>3, <4>1, <4>2, <2>4, <2>3 DEF OwnLock
    <3> QED
      BY <3>2, <3>3
  <2> QED
    BY <2>5, <2>6 DEF LockOK
<1>5. ASSUME NEW x \in Conns, WriteTable(x)
      PROVE  LockOK'
  <2>1. HoldsWrite(x) /\ ~HoldsRead(x) /\ msg[x].op \in Writes /\ msg[x].op \notin Reads
    BY <1>5, NextLinkIdle, RequestKinds DEF WriteTable, HoldsWrite, HoldsRead
  <2>2. CASE Host(x) < N
    <3> DEFINE link == Link(Host(x) + 1)
    <3>1. link \in Conns /\ link # x /\ pc[link] = "idle"
      BY <1>5, <2>2, NextLinkIdle, HostFacts DEF WriteTable
    <3>2. /\ pc'  = [pc  EXCEPT ![x] = "await", ![link] = "sent"]
          /\ msg' = [msg EXCEPT ![link] = msg[x]]
          /\ UNCHANGED <<writer, readers>>
      BY <1>5, <2>2, WriteTableEffect
    <3> HIDE DEF link
    <3> QED
      BY <1>1, <2>1, <3>1, <3>2, LockFrame DEF HoldsWrite, HoldsRead
  <2>3. CASE ~(Host(x) < N)
    <3>1. pc' = [pc EXCEPT ![x] = "unlock"] /\ msg' = msg /\ UNCHANGED <<writer, readers>>
      BY <1>5, <2>3, WriteTableEffect
    <3> QED
      BY <1>1, <2>1, <3>1, LockFrame DEF HoldsWrite, HoldsRead
  <2> QED
    BY <2>2, <2>3
<1>6. ASSUME NEW x \in Conns, ForwardReturns(x)
      PROVE  LockOK'
  <2> DEFINE link == Link(Host(x) + 1)
  <2>1. /\ pc[x] = "await" /\ pc[link] = "answered"
        /\ pc' = [pc EXCEPT ![x] = "unlock", ![link] = "idle"]
        /\ msg' = [msg EXCEPT ![link] = NoRequest]
        /\ UNCHANGED <<writer, readers>>
    BY <1>6 DEF ForwardReturns, TakeAnswer
  <2>2. link \in Conns /\ link # x /\ msg[x].op \in Writes /\ msg[x].op \notin Reads
    BY <2>1, AwaitFacts, RequestKinds
  <2> HIDE DEF link
  <2> QED
    BY <1>1, <2>1, <2>2, LockFrame DEF HoldsWrite, HoldsRead
<1>7. ASSUME NEW x \in Conns, UnlockWriter(x)
      PROVE  LockOK'
  <2>1. /\ msg[x].op \in Writes /\ pc[x] = "unlock"
        /\ pc' = [pc EXCEPT ![x] = "send"] /\ writer' = [writer EXCEPT ![Host(x)] = None]
        /\ readers' = readers /\ msg' = msg
    BY <1>7 DEF UnlockWriter, Goto
  <2>2. HoldsWrite(x) /\ writer[Host(x)] = x /\ readers[Host(x)] = {}
    BY <1>1, <2>1 DEF HoldsWrite, LockOK, OwnLock
  <2>3. ~HoldsWrite(x)' /\ ~HoldsRead(x)' /\ ~HoldsRead(x)
    BY <1>1, <2>1 DEF HoldsWrite, HoldsRead, Writes, Reads
  <2>4. \A y \in Conns : Host(y) \in Servers /\ y # None
    BY HostFacts, ConnsApart
  <2>5. ASSUME NEW s \in Servers
        PROVE  /\ writer'[s] # None => Host(writer'[s]) = s
               /\ \A y \in readers'[s] : Host(y) = s
    BY <1>1, <2>1, <2>4 DEF LockOK
  <2>6. ASSUME NEW y \in Conns PROVE OwnLock(y)'
    <3>1. OwnLock(y) /\ OwnLock(x)
      BY <1>1 DEF LockOK
    <3>2. CASE y = x
      BY <1>1, <2>1, <2>2, <2>3, <2>4, <3>1, <3>2 DEF OwnLock
    <3>3. CASE y # x
      <4>1. (HoldsWrite(y)' <=> HoldsWrite(y)) /\ (HoldsRead(y)' <=> HoldsRead(y))
        BY <1>1, <2>1, <3>3 DEF HoldsWrite, HoldsRead
      <4>2. /\ readers'[Host(y)] = readers[Host(y)]
            /\ writer'[Host(y)] = IF Host(y) = Host(x) THEN None ELSE writer[Host(y)]
        BY <1>1, <2>1, <2>4
      <4> QED
        BY <2>1, <3>1, <3>3, <4>1, <4>2, <2>4, <2>2 DEF OwnLock
    <3> QED
      BY <3>2, <3>3
  <2> QED
    BY <2>5, <2>6 DEF LockOK
<1>8. ASSUME NEW x \in Conns, LockReader(x)
      PROVE  LockOK'
  <2>1. /\ writer[Host(x)] = None /\ msg[x].op \in Reads /\ pc[x] = "sent"
        /\ pc' = [pc EXCEPT ![x] = "read"] /\ writer' = writer /\ msg' = msg
        /\ readers' = [readers EXCEPT ![Host(x)] = @ \cup {x}]
    BY <1>8 DEF LockReader, Goto
  <2>2. HoldsRead(x)' /\ ~HoldsWrite(x)' /\ ~HoldsRead(x) /\ ~HoldsWrite(x)
    BY <1>1, <2>1 DEF HoldsWrite, HoldsRead, Writes, Reads
  <2>3. \A y \in Conns : Host(y) \in Servers /\ y # None
    BY HostFacts, ConnsApart
  <2>4. ASSUME NEW s \in Servers
        PROVE  /\ writer'[s] # None => Host(writer'[s]) = s
               /\ \A y \in readers'[s] : Host(y) = s
    BY <1>1, <2>1, <2>3 DEF LockOK
  <2>5. ASSUME NEW y \in Conns PROVE OwnLock(y)'
    <3>1. OwnLock(y) /\ OwnLock(x)
      BY <1>1 DEF LockOK
    <3>2. CASE y = x
      BY <1>1, <2>1, <2>2, <2>3, <3>1, <3>2 DEF OwnLock
    <3>3. CASE y # x
      <4>1. (HoldsWrite(y)' <=> HoldsWrite(y)) /\ (HoldsRead(y)' <=> HoldsRead(y))
        BY <1>1, <2>1, <3>3 DEF HoldsWrite, HoldsRead
      <4>2. /\ writer'[Host(y)] = writer[Host(y)]
            /\ readers'[Host(y)] = IF Host(y) = Host(x) THEN readers[Host(y)] \cup {x}
                                                     ELSE readers[Host(y)]
        BY <1>1, <2>1, <2>3
      <4> QED
        BY <2>1, <3>1, <3>3, <4>1, <4>2, <2>3, <2>2 DEF OwnLock
    <3> QED
      BY <3>2, <3>3
  <2> QED
    BY <2>4, <2>5 DEF LockOK
<1>9. ASSUME NEW x \in Conns, ReadStep(x)
      PROVE  LockOK'
  <2>1. msg[x].op \in Reads /\ pc[x] \in {"read", "keys", "entries"}
        /\ UNCHANGED <<writer, readers, msg>>
    BY <1>9, ReadStepShape
  <2>2. PICK l \in {"keys", "entries", "unlock"} : pc' = [pc EXCEPT ![x] = l]
    BY <1>9, ReadStepShape
  <2> QED
    BY <1>1, <2>1, <2>2, LockFrame DEF HoldsWrite, HoldsRead, Writes, Reads
<1>10. ASSUME NEW x \in Conns, UnlockReader(x)
      PROVE  LockOK'
  <2>1. /\ msg[x].op \in Reads /\ pc[x] = "unlock"
        /\ pc' = [pc EXCEPT ![x] = "send"] /\ writer' = writer /\ msg' = msg
        /\ readers' = [readers EXCEPT ![Host(x)] = @ \ {x}]
    BY <1>10 DEF UnlockReader, Goto
  <2>2. ~HoldsRead(x)' /\ ~HoldsWrite(x)' /\ HoldsRead(x) /\ ~HoldsWrite(x)
    BY <1>1, <2>1 DEF HoldsWrite, HoldsRead, Writes, Reads
  <2>3. \A y \in Conns : Host(y) \in Servers /\ y # None
    BY HostFacts, ConnsApart
  <2>4. ASSUME NEW s \in Servers
        PROVE  /\ writer'[s] # None => Host(writer'[s]) = s
               /\ \A y \in readers'[s] : Host(y) = s
    BY <1>1, <2>1, <2>3 DEF LockOK
  <2>5. ASSUME NEW y \in Conns PROVE OwnLock(y)'
    <3>1. OwnLock(y) /\ OwnLock(x)
      BY <1>1 DEF LockOK
    <3>2. CASE y = x
      BY <1>1, <2>1, <2>2, <2>3, <3>1, <3>2 DEF OwnLock
    <3>3. CASE y # x
      <4>1. (HoldsWrite(y)' <=> HoldsWrite(y)) /\ (HoldsRead(y)' <=> HoldsRead(y))
        BY <1>1, <2>1, <3>3 DEF HoldsWrite, HoldsRead
      <4>2. /\ writer'[Host(y)] = writer[Host(y)]
            /\ readers'[Host(y)] = IF Host(y) = Host(x) THEN readers[Host(y)] \ {x}
                                                     ELSE readers[Host(y)]
        BY <1>1, <2>1, <2>3
      <4> QED
        BY <2>1, <3>1, <3>3, <4>1, <4>2, <2>3, <2>2 DEF OwnLock
    <3> QED
      BY <3>2, <3>3
  <2> QED
    BY <2>4, <2>5 DEF LockOK
<1>11. ASSUME NEW x \in Conns, SendAnswer(x)
       PROVE  LockOK'
  <2>1. pc[x] = "send" /\ pc' = [pc EXCEPT ![x] = "answered"] /\ UNCHANGED <<writer, readers, msg>>
    BY <1>11 DEF SendAnswer, Goto
  <2> QED
    BY <1>1, <2>1, LockFrame DEF HoldsWrite, HoldsRead
<1> QED
  BY <1>2, <1>3, <1>4, <1>5, <1>6, <1>7, <1>8, <1>9, <1>10, <1>11 DEF Next, Serve

-----------------------------------------------------------------------------
(***************************************************************************)
(* Remote calls.                                                           *)
(***************************************************************************)

(* The writer of a server is a thread of that server in its write section, *)
(* and only such a thread is.                                              *)
LEMMA WriterFacts ==
  ASSUME IInv, NEW t \in Servers
  PROVE  /\ writer[t] \in Conns \cup {None}
         /\ writer[t] # None => HoldsWrite(writer[t]) /\ Host(writer[t]) = t
         /\ \A x \in Conns : writer[t] = x => HoldsWrite(x) /\ Host(x) = t
<1>1. writer[t] \in Conns \cup {None}
  BY DEF IInv, TypeOK
<1>2. ASSUME NEW x \in Conns, writer[t] = x
      PROVE  HoldsWrite(x) /\ Host(x) = t
  BY <1>2, ConnsApart DEF IInv, LockOK, OwnLock
<1> QED
  BY <1>1, <1>2

(* Calls still nest after a step in which the thread of one connection     *)
(* moves on, neither to nor from idle or await, and no lock is written.    *)
LEMMA NestFrame ==
  ASSUME IInv, NEW x \in Conns, NEW l,
         pc[x] \notin {"idle", "await"}, l \notin {"idle", "await"},
         pc' = [pc EXCEPT ![x] = l], UNCHANGED <<writer, msg>>
  PROVE  CallsNest'
<1>1. pc \in [Conns -> Labels]
  BY DEF IInv, TypeOK
<1>2. ASSUME NEW s \in 2 .. N PROVE Nested(s)'
  <2>1. Nested(s) /\ s - 1 \in Servers /\ 1 \in Servers
    BY NAssumption DEF IInv, CallsNest, Servers
  <2>2. writer[s-1] \in Conns \cup {None} /\ writer[1] \in Conns \cup {None}
    BY <2>1, WriterFacts
  <2>3. \A u \in 2 .. N : Link(u) \in Conns
    BY HostFacts
  <2>4. \A y \in Conns : /\ pc'[y] = "idle"  <=> pc[y] = "idle"
                         /\ pc'[y] = "await" <=> pc[y] = "await"
    BY <1>1
  <2>5. \A u \in 2 .. (s-1) : u \in 2 .. N
    BY NAssumption
  <2> QED
    BY <2>1, <2>2, <2>3, <2>4, <2>5 DEF Nested
<1> QED
  BY <1>2 DEF CallsNest

(* Every step keeps the calls nested.                                      *)
LEMMA NestStep ==
  ASSUME IInv, [Next]_vars
  PROVE  CallsNest'
<1>1. /\ CallsNest /\ pc \in [Conns -> Labels] /\ msg \in [Conns -> Requests \cup {NoRequest}]
      /\ writer \in [Servers -> Conns \cup {None}]
  BY DEF IInv, TypeOK
<1>2. \A s \in 2 .. N : /\ Nested(s) /\ s - 1 \in Servers /\ 1 \in Servers /\ s \in Servers
                        /\ \A u \in 2 .. (s-1) : u \in 2 .. N
  BY <1>1, NAssumption DEF CallsNest, Servers
<1>3. CASE UNCHANGED vars
  BY <1>1, <1>3 DEF vars, CallsNest, Nested
<1>4. ASSUME NEW c \in Clients, (\E r \in Requests : ClientCall(c, r)) \/ ClientReturn(c)
      PROVE  CallsNest'
  <2>1. PICK x \in HeadConns \cup TailConns, l \in {"idle", "sent"}, r \in Requests \cup {NoRequest} :
           /\ x \in Conns
           /\ pc[x] \in {"idle", "answered"}
           /\ pc'  = [pc EXCEPT ![x] = l]
           /\ msg' = [msg EXCEPT ![x] = r]
           /\ UNCHANGED <<table, writer, readers>>
    BY <1>4, ClientStepShape
  <2>2. ~HoldsWrite(x)
    BY <2>1 DEF HoldsWrite
  <2>3. ASSUME NEW s \in 2 .. N PROVE Nested(s)'
    <3>1. \A u \in 2 .. N : Link(u) \in Conns /\ Link(u) # x
      BY <2>1, HostFacts, ConnsApart
    <3>2. writer[s-1] # x /\ writer[1] # x
      BY <1>2, <2>1, <2>2, WriterFacts
    <3>3. writer[s-1] \in Conns \cup {None} /\ writer[1] \in Conns \cup {None}
      BY <1>2, WriterFacts
    <3> QED
      BY <1>1, <1>2, <2>1, <3>1, <3>2, <3>3 DEF Nested
  <2> QED
    BY <2>3 DEF CallsNest
<1>5. ASSUME NEW x \in Conns, LockWriter(x)
      PROVE  CallsNest'
  <2>1. /\ writer[Host(x)] = None /\ pc[x] = "sent" /\ Host(x) \in Servers /\ x # None
        /\ pc' = [pc EXCEPT ![x] = "write"] /\ writer' = [writer EXCEPT ![Host(x)] = x]
        /\ msg' = msg
    BY <1>5, HostFacts, ConnsApart DEF LockWriter, Goto
  <2>2. ASSUME NEW s \in 2 .. N PROVE Nested(s)'
    <3>1. \A u \in 2 .. N : Link(u) \in Conns /\ (pc'[Link(u)] = "idle" <=> pc[Link(u)] = "idle")
                           /\ (pc[Link(u)] = "await" => pc'[Link(u)] = "await")
      BY <1>1, <2>1, HostFacts
    <3>2. pc[writer[s-1]] = "await" => writer[s-1] # x
      BY <2>1
    <3>3. writer[s-1] \in Conns \cup {None} /\ writer[1] \in Conns \cup {None}
      BY <1>2, WriterFacts
    <3>4. pc[Link(s)] # "idle" => Host(x) # 1 /\ Host(x) # s - 1
      BY <1>2, <2>1 DEF Nested
    <3>5. pc'[Link(s)] # "idle" <=> writer'[s-1] # None /\ pc'[writer'[s-1]] = "await"
      BY <1>1, <1>2, <2>1, <3>1, <3>2, <3>3, <3>4 DEF Nested
    <3>6. ASSUME pc'[Link(s)] # "idle"
          PROVE  writer'[1] = writer[1] /\ pc'[writer[1]] = pc[writer[1]]
      BY <1>1, <1>2, <2>1, <3>1, <3>3, <3>4, <3>6 DEF Nested
    <3> QED
      BY <1>2, <2>1, <3>1, <3>5, <3>6 DEF Nested
  <2> QED
    BY <2>2 DEF CallsNest
<1>6. ASSUME NEW x \in Conns, UnlockWriter(x)
      PROVE  CallsNest'
  <2>1. /\ pc[x] = "unlock" /\ msg[x].op \in Writes /\ Host(x) \in Servers
        /\ pc' = [pc EXCEPT ![x] = "send"] /\ writer' = [writer EXCEPT ![Host(x)] = None]
        /\ msg' = msg
    BY <1>6, HostFacts DEF UnlockWriter, Goto
  <2>2. writer[Host(x)] = x
    BY <2>1 DEF IInv, LockOK, OwnLock, HoldsWrite
  <2>3. ASSUME NEW s \in 2 .. N PROVE Nested(s)'
    <3>1. \A u \in 2 .. N : Link(u) \in Conns /\ (pc'[Link(u)] = "idle" <=> pc[Link(u)] = "idle")
                           /\ (pc[Link(u)] = "await" => pc'[Link(u)] = "await")
      BY <1>1, <2>1, HostFacts
    <3>2. writer[s-1] \in Conns \cup {None} /\ writer[1] \in Conns \cup {None}
      BY <1>2, WriterFacts
    <3>3. pc[Link(s)] # "idle" => Host(x) # 1 /\ Host(x) # s - 1
      BY <1>2, <2>1, <2>2 DEF Nested
    <3>4. pc'[Link(s)] # "idle" <=> writer'[s-1] # None /\ pc'[writer'[s-1]] = "await"
      BY <1>1, <1>2, <2>1, <2>2, <3>1, <3>2, <3>3 DEF Nested
    <3>5. ASSUME pc'[Link(s)] # "idle"
          PROVE  writer'[1] = writer[1] /\ pc'[writer[1]] = pc[writer[1]]
      BY <1>1, <1>2, <2>1, <3>1, <3>2, <3>3, <3>5 DEF Nested
    <3> QED
      BY <1>2, <2>1, <3>1, <3>4, <3>5 DEF Nested
  <2> QED
    BY <2>3 DEF CallsNest
<1>7. ASSUME NEW x \in Conns, LockReader(x) \/ UnlockReader(x) \/ ReadStep(x) \/ SendAnswer(x)
      PROVE  CallsNest'
  <2>1. \E l \in {"read", "keys", "entries", "unlock", "send", "answered"} :
          /\ pc[x] \notin {"idle", "await"} /\ pc' = [pc EXCEPT ![x] = l]
          /\ UNCHANGED <<writer, msg>>
    BY <1>7, ReadStepShape DEF LockReader, UnlockReader, SendAnswer, Goto
  <2> QED
    BY <2>1, NestFrame
<1>8. ASSUME NEW x \in Conns, WriteTable(x)
      PROVE  CallsNest'
  <2>1. pc[x] = "write" /\ writer[Host(x)] = x /\ Host(x) \in Servers /\ writer' = writer
    BY <1>8, NextLinkIdle, HostFacts, WriteTableEffect DEF WriteTable
  <2>2. CASE Host(x) < N
    <3> DEFINE h == Host(x)  link == Link(h + 1)
    <3>0. h = Host(x) /\ h \in Servers /\ h \in Nat /\ writer[h] = x /\ link = Link(h + 1)
      BY <2>1 DEF Servers
    <3>1. link \in Conns /\ link # x /\ pc[link] = "idle" /\ h + 1 \in 2 .. N /\ x # None
      BY <2>1, <2>2, NextLinkIdle, HostFacts, ConnsApart
    <3>2. /\ pc'  = [pc  EXCEPT ![x] = "await", ![link] = "sent"]
          /\ msg' = [msg EXCEPT ![link] = msg[x]]
      BY <1>8, <2>2, WriteTableEffect
    <3> HIDE DEF link
    <3>3. h = 1 \/ (h \in 2 .. N /\ x = Link(h))
      <4>1. x \notin TailConns
        BY <2>1, NextLinkIdle, RequestKinds, StageFacts
      <4> QED
        BY <4>1, WriterConns
    <3> HIDE DEF h
    <3>4. \A u \in 2 .. N : Link(u) \in Conns /\ (Link(u) = link => u = h + 1)
                           /\ (h \in 2 .. N /\ Link(u) = x => u = h)
      BY <3>0, <3>1, <3>3, HostFacts, ConnsApart
    <3>5. \A t \in Servers : writer[t] # link /\ writer[t] \in Conns \cup {None}
                           /\ (writer[t] = x => t = h)
      BY <3>0, <3>1, WriterFacts DEF HoldsWrite
    <3>6. ASSUME NEW s \in 2 .. N, pc[Link(s)] # "idle"
          PROVE  /\ s <= h /\ x = Link(h) /\ h # 1
                 /\ writer[1] # x
      <4>1. h # 1 /\ x = Link(h)
        BY <1>2, <2>1, <3>0, <3>3, <3>6 DEF Nested
      <4>2. s <= h
        BY <1>2, <2>1, <3>0, <3>3, <3>6, <4>1 DEF Nested
      <4> QED
        BY <3>5, <4>1, <4>2, <1>2
    <3>7. ASSUME NEW s \in 2 .. N, s = h + 1 PROVE Nested(s)'
      <4>0. s - 1 = h /\ Link(s) = link
        BY <3>0, <3>7
      <4>1. pc'[Link(s)] = "sent" /\ writer'[s-1] = x /\ pc'[x] = "await"
        BY <1>1, <2>1, <3>0, <3>1, <3>2, <4>0
      <4>2. msg'[Link(s)] = msg[x] /\ msg'[x] = msg[x]
        BY <1>1, <3>1, <3>2, <4>0
      <4>3. CASE h = 1
        BY <2>1, <3>0, <3>1, <4>0, <4>1, <4>2, <4>3 DEF Nested
      <4>4. CASE h \in 2 .. N /\ x = Link(h)
        <5>1. /\ writer[1] # None /\ pc[writer[1]] = "await" /\ msg[x] = msg[writer[1]]
              /\ \A u \in 2 .. (h-1) : pc[Link(u)] = "await"
          BY <1>2, <2>1, <4>4 DEF Nested
        <5>2. writer[1] \in Conns /\ writer[1] # link /\ writer[1] # x
          BY <1>2, <2>1, <3>5, <5>1
        <5>3. pc'[writer[1]] = "await" /\ msg'[writer[1]] = msg[writer[1]]
          BY <1>1, <3>2, <5>1, <5>2
        <5>4. \A u \in 2 .. h : pc'[Link(u)] = "await"
          <6>1. ASSUME NEW u \in 2 .. h, u # h PROVE pc'[Link(u)] = "await"
            <7>1. pc[Link(u)] = "await" /\ u \in 2 .. N /\ u # h + 1
              BY <3>0, <3>1, <5>1, <6>1, NAssumption
            <7> QED
              BY <1>1, <3>2, <3>4, <4>4, <6>1, <7>1
          <6> QED
            BY <4>1, <4>4, <6>1
        <5> QED
          BY <2>1, <3>1, <4>0, <4>1, <4>2, <5>1, <5>3, <5>4 DEF Nested
      <4> QED
        BY <3>3, <4>3, <4>4
    <3>8. ASSUME NEW s \in 2 .. N, s # h + 1 PROVE Nested(s)'
      <4>1. Link(s) # link /\ s - 1 # h /\ writer[s-1] # x
        BY <1>2, <2>1, <3>0, <3>4, <3>5, <3>8 DEF Servers
      <4>2. pc'[Link(s)] = "idle" <=> pc[Link(s)] = "idle"
        BY <1>1, <2>1, <3>2, <3>4, <4>1
      <4>3. pc'[Link(s)] # "idle" <=> writer'[s-1] # None /\ pc'[writer'[s-1]] = "await"
        BY <1>1, <1>2, <2>1, <3>2, <3>5, <4>1, <4>2 DEF Nested
      <4>4. ASSUME pc'[Link(s)] # "idle"
            PROVE  /\ writer[1] # None /\ pc'[writer[1]] = "await"
                   /\ msg'[Link(s)] = msg'[writer[1]]
                   /\ \A u \in 2 .. (s-1) : pc'[Link(u)] = "await"
        <5>1. s <= h /\ x = Link(h) /\ writer[1] # x /\ writer[1] # link
          BY <1>2, <3>5, <3>6, <4>2, <4>4
        <5>2. /\ writer[1] # None /\ pc[writer[1]] = "await" /\ msg[Link(s)] = msg[writer[1]]
              /\ \A u \in 2 .. (s-1) : pc[Link(u)] = "await"
          BY <1>2, <4>2, <4>4 DEF Nested
        <5>3. pc'[writer[1]] = "await" /\ msg'[writer[1]] = msg[writer[1]]
          BY <1>1, <1>2, <3>2, <3>5, <5>1, <5>2
        <5>4. msg'[Link(s)] = msg[Link(s)]
          BY <1>1, <3>2, <3>4, <4>1
        <5>5. \A u \in 2 .. (s-1) : pc'[Link(u)] = "await"
          BY <1>1, <1>2, <2>1, <3>1, <3>2, <3>4, <5>2
        <5> QED
          BY <5>2, <5>3, <5>4, <5>5
      <4> QED
        BY <2>1, <4>3, <4>4 DEF Nested
    <3> QED
      BY <3>7, <3>8 DEF CallsNest
  <2>3. CASE ~(Host(x) < N)
    <3>1. pc' = [pc EXCEPT ![x] = "unlock"] /\ msg' = msg
      BY <1>8, <2>3, WriteTableEffect
    <3> QED
      BY <2>1, <3>1, NestFrame
  <2> QED
    BY <2>2, <2>3
<1>9. ASSUME NEW x \in Conns, ForwardReturns(x)
      PROVE  CallsNest'
  <2> DEFINE h == Host(x)  link == Link(h + 1)
  <2>1. /\ pc[x] = "await" /\ pc[link] = "answered"
        /\ pc'  = [pc EXCEPT ![x] = "unlock", ![link] = "idle"]
        /\ msg' = [msg EXCEPT ![link] = NoRequest]
        /\ writer' = writer
    BY <1>9 DEF ForwardReturns, TakeAnswer
  <2>2. /\ h \in Servers /\ h \in Nat /\ h + 1 \in 2 .. N /\ (h + 1) - 1 = h
        /\ link = Link(h + 1) /\ writer[h] = x /\ link \in Conns /\ link # x /\ x # None
    BY <2>1, AwaitFacts, HostFacts, ConnsApart DEF Servers
  <2>3. h = 1 \/ (h \in 2 .. N /\ x = Link(h))
    <3>1. x \notin TailConns
      BY <2>1, AwaitFacts, RequestKinds, StageFacts
    <3> QED
      BY <3>1, WriterConns
  <2> HIDE DEF h, link
  <2>4. \A u \in 2 .. N : Link(u) \in Conns /\ (Link(u) = link <=> u = h + 1)
                         /\ (h \in 2 .. N /\ Link(u) = x => u = h)
    BY <2>2, <2>3, HostFacts, ConnsApart
  <2>5. \A t \in Servers : writer[t] # link /\ writer[t] \in Conns \cup {None}
                         /\ (writer[t] = x => t = h)
    <3>1. ~HoldsWrite(link)
      BY <2>1 DEF HoldsWrite
    <3> QED
      BY <2>2, <3>1, WriterFacts
  <2>6. ASSUME NEW s \in 2 .. N, pc[Link(s)] # "idle"
        PROVE  s <= h + 1
    BY <1>2, <2>1, <2>2, <2>6 DEF Nested
  <2>7. ASSUME NEW s \in 2 .. N PROVE Nested(s)'
    <3>1. CASE s = h + 1
      <4>1. pc'[Link(s)] = "idle" /\ pc'[writer'[s-1]] = "unlock"
        BY <1>1, <2>1, <2>2, <3>1
      <4> QED
        BY <4>1 DEF Nested
    <3>2. CASE s # h + 1
      <4>1. Link(s) # link /\ s - 1 # h /\ writer[s-1] # x
        BY <1>2, <2>2, <2>4, <2>5, <3>2 DEF Servers
      <4>2. pc'[Link(s)] = "idle" <=> pc[Link(s)] = "idle"
        BY <1>1, <2>1, <2>4, <4>1
      <4>3. pc'[Link(s)] # "idle" <=> writer'[s-1] # None /\ pc'[writer'[s-1]] = "await"
        BY <1>1, <1>2, <2>1, <2>5, <4>1, <4>2 DEF Nested
      <4>4. ASSUME pc'[Link(s)] # "idle"
            PROVE  /\ writer[1] # None /\ pc'[writer[1]] = "await"
                   /\ msg'[Link(s)] = msg'[writer[1]]
                   /\ \A u \in 2 .. (s-1) : pc'[Link(u)] = "await"
        <5>1. s <= h /\ h # 1 /\ writer[1] # x /\ writer[1] # link
          BY <1>2, <2>2, <2>5, <2>6, <3>2, <4>2, <4>4
        <5>2. /\ writer[1] # None /\ pc[writer[1]] = "await" /\ msg[Link(s)] = msg[writer[1]]
              /\ \A u \in 2 .. (s-1) : pc[Link(u)] = "await"
          BY <1>2, <4>2, <4>4 DEF Nested
        <5>3. pc'[writer[1]] = "await" /\ msg'[writer[1]] = msg[writer[1]]
          BY <1>1, <1>2, <2>1, <2>5, <5>1, <5>2
        <5>4. msg'[Link(s)] = msg[Link(s)]
          BY <1>1, <2>1, <2>4, <4>1
        <5>5. ASSUME NEW u \in 2 .. (s-1) PROVE pc'[Link(u)] = "await"
          <6>1. u \in 2 .. N /\ u # h /\ u # h + 1 /\ pc[Link(u)] = "await"
            BY <1>2, <2>2, <5>1, <5>2
          <6>2. Link(u) # x /\ Link(u) # link
            BY <2>3, <2>4, <5>1, <6>1
          <6> QED
            BY <1>1, <2>1, <2>4, <6>1, <6>2
        <5> QED
          BY <5>2, <5>3, <5>4, <5>5
      <4> QED
        BY <2>1, <4>3, <4>4 DEF Nested
    <3> QED
      BY <3>1, <3>2
  <2> QED
    BY <2>7 DEF CallsNest
<1> QED
  BY <1>3, <1>4, <1>5, <1>6, <1>7, <1>8, <1>9 DEF Next, Serve

-----------------------------------------------------------------------------
(***************************************************************************)
(* Replicas.                                                               *)
(***************************************************************************)

(* Replicas stay as far apart as they are when no table changes, no link   *)
(* starts or stops to carry a write that is not applied, and the write     *)
(* under way stays the same.                                               *)
LEMMA LagFrame ==
  ASSUME ReplicasLag, table' = table,
         \A u \in 2 .. N : pc'[Link(u)] \in {"sent", "write"} <=> pc[Link(u)] \in {"sent", "write"},
         \A u \in 2 .. N : pc[Link(u)] \in {"sent", "write"} => msg'[writer'[1]] = msg[writer[1]]
  PROVE  ReplicasLag'
<1>1. ASSUME NEW s \in Servers, NEW t \in Servers, s < t
      PROVE  table'[s] = IF Lagging(s, t)' THEN Effect(table'[t], msg'[writer'[1]]) ELSE table'[t]
  <2>1. \A u \in (s+1) .. t : u \in 2 .. N
    BY <1>1, NAssumption DEF Servers
  <2>2. Lagging(s, t)' <=> Lagging(s, t)
    BY <2>1 DEF Lagging
  <2>3. Lagging(s, t) => msg'[writer'[1]] = msg[writer[1]]
    BY <2>1 DEF Lagging
  <2>4. table[s] = IF Lagging(s, t) THEN Effect(table[t], msg[writer[1]]) ELSE table[t]
    BY <1>1 DEF ReplicasLag
  <2> QED
    BY <2>2, <2>3, <2>4
<1> QED
  BY <1>1 DEF ReplicasLag

(* Every step keeps the replicas at most one write apart.                  *)
LEMMA LagStep ==
  ASSUME IInv, [Next]_vars
  PROVE  ReplicasLag'
<1>1. /\ ReplicasLag /\ pc \in [Conns -> Labels] /\ msg \in [Conns -> Requests \cup {NoRequest}]
      /\ table \in [Servers -> Tables] /\ writer \in [Servers -> Conns \cup {None}]
      /\ 1 \in Servers
  BY NAssumption DEF IInv, TypeOK, Servers
<1>2. \A u \in 2 .. N : Link(u) \in Conns /\ Link(u) \notin TailConns /\ Link(u) \notin HeadConns
                       /\ Host(Link(u)) = u
  BY HostFacts, ConnsApart
<1>3. CASE UNCHANGED vars
  BY <1>1, <1>3, LagFrame DEF vars
<1>4. ASSUME NEW c \in Clients, (\E r \in Requests : ClientCall(c, r)) \/ ClientReturn(c)
      PROVE  ReplicasLag'
  <2>1. PICK x \in HeadConns \cup TailConns, l \in {"idle", "sent"}, r \in Requests \cup {NoRequest} :
           /\ x \in Conns
           /\ pc[x] \in {"idle", "answered"}
           /\ pc'  = [pc EXCEPT ![x] = l]
           /\ msg' = [msg EXCEPT ![x] = r]
           /\ UNCHANGED <<table, writer, readers>>
    BY <1>4, ClientStepShape
  <2>2. writer[1] # x
    BY <1>1, <2>1, WriterFacts DEF HoldsWrite
  <2>3. ASSUME NEW u \in 2 .. N, pc[Link(u)] # "idle" PROVE msg'[writer'[1]] = msg[writer[1]]
    BY <1>1, <2>1, <2>2, <2>3, LinksIdle
  <2> QED
    BY <1>1, <1>2, <2>1, <2>3, LagFrame
<1>5. ASSUME NEW x \in Conns, LockWriter(x)
      PROVE  ReplicasLag'
  <2>1. /\ writer[Host(x)] = None /\ pc[x] = "sent" /\ table' = table /\ msg' = msg
        /\ pc' = [pc EXCEPT ![x] = "write"] /\ writer' = [writer EXCEPT ![Host(x)] = x]
    BY <1>5 DEF LockWriter, Goto
  <2>2. ASSUME NEW u \in 2 .. N, pc[Link(u)] # "idle" PROVE msg'[writer'[1]] = msg[writer[1]]
    BY <1>1, <2>1, <2>2, LinksIdle
  <2> QED
    BY <1>1, <1>2, <2>1, <2>2, LagFrame
<1>6. ASSUME NEW x \in Conns, UnlockWriter(x)
      PROVE  ReplicasLag'
  <2>1. /\ pc[x] = "unlock" /\ msg[x].op \in Writes /\ table' = table /\ msg' = msg
        /\ pc' = [pc EXCEPT ![x] = "send"] /\ writer' = [writer EXCEPT ![Host(x)] = None]
    BY <1>6 DEF UnlockWriter, Goto
  <2>2. writer[Host(x)] = x
    BY <2>1 DEF IInv, LockOK, OwnLock, HoldsWrite
  <2>3. ASSUME NEW u \in 2 .. N, pc[Link(u)] # "idle" PROVE msg'[writer'[1]] = msg[writer[1]]
    BY <1>1, <2>1, <2>2, <2>3, LinksIdle
  <2> QED
    BY <1>1, <1>2, <2>1, <2>3, LagFrame
<1>7. ASSUME NEW x \in Conns, LockReader(x) \/ UnlockReader(x) \/ ReadStep(x)
      PROVE  ReplicasLag'
  <2>1. /\ \E l : pc' = [pc EXCEPT ![x] = l]
        /\ UNCHANGED <<table, writer, msg>> /\ pc[x] # "idle" /\ msg[x].op \in Reads
    BY <1>7, ReadStepShape DEF LockReader, UnlockReader, Goto
  <2>2. x \in TailConns
    BY <2>1, StageFacts
  <2> QED
    BY <1>1, <1>2, <2>1, <2>2, LagFrame
<1>8. ASSUME NEW x \in Conns, SendAnswer(x)
      PROVE  ReplicasLag'
  <2>1. pc[x] = "send" /\ pc' = [pc EXCEPT ![x] = "answered"] /\ UNCHANGED <<table, writer, msg>>
    BY <1>8 DEF SendAnswer, Goto
  <2> QED
    BY <1>1, <1>2, <2>1, LagFrame
<1>9. ASSUME NEW x \in Conns, ForwardReturns(x)
      PROVE  ReplicasLag'
  <2> DEFINE link == Link(Host(x) + 1)
  <2>1. /\ pc[x] = "await" /\ pc[link] = "answered" /\ table' = table /\ writer' = writer
        /\ pc'  = [pc EXCEPT ![x] = "unlock", ![link] = "idle"]
        /\ msg' = [msg EXCEPT ![link] = NoRequest]
    BY <1>9 DEF ForwardReturns, TakeAnswer
  <2>2. link \in Conns /\ link # x
    BY <2>1, AwaitFacts
  <2> HIDE DEF link
  <2>3. writer[1] # link
    BY <1>1, <2>1, <2>2, WriterFacts DEF HoldsWrite
  <2>4. ASSUME NEW u \in 2 .. N, pc[Link(u)] # "idle" PROVE msg'[writer'[1]] = msg[writer[1]]
    BY <1>1, <2>1, <2>3, <2>4, LinksIdle
  <2> QED
    BY <1>1, <1>2, <2>1, <2>2, <2>4, LagFrame
<1>10. ASSUME NEW x \in Conns, WriteTable(x)
       PROVE  ReplicasLag'
  <2> DEFINE h == Host(x)  m == msg[x]
  <2>1. /\ pc[x] = "write" /\ writer[h] = x /\ h \in Servers /\ h \in 1 .. N /\ x # None
        /\ m \in WriteRequests /\ writer' = writer
        /\ table' = [table EXCEPT ![h] = Effect(table[h], m)]
    BY <1>10, NextLinkIdle, HostFacts, ConnsApart, WriteTableEffect DEF WriteTable, Servers
  <2>2. h = 1 \/ (h \in 2 .. N /\ x = Link(h))
    BY <2>1, StageFacts, WriterConns, RequestKinds
  <2>3. msg[writer[1]] = m
        /\ \A u \in 2 .. N : pc[Link(u)] \in {"sent", "write"} <=> u = h
    <3>1. CASE h = 1
      BY <1>1, <2>1, <3>1, LinksIdle
    <3>2. CASE h \in 2 .. N /\ x = Link(h)
      <4>1. Nested(h) /\ pc[Link(h)] = "write"
        BY <2>1, <3>2 DEF IInv, CallsNest
      <4>2. \A u \in 2 .. N : u < h => pc[Link(u)] = "await"
        BY <3>2, <4>1, NAssumption DEF Nested
      <4>3. ASSUME NEW u \in 2 .. N, u > h PROVE pc[Link(u)] = "idle"
        <5>1. Nested(u) /\ h \in 2 .. (u-1)
          BY <3>2, <4>3, NAssumption DEF IInv, CallsNest
        <5> QED
          BY <4>1, <5>1 DEF Nested
      <4>4. \A u \in 2 .. N : u < h \/ u = h \/ u > h
        BY <3>2, NAssumption
      <4> QED
        BY <3>2, <4>1, <4>2, <4>3, <4>4 DEF Nested
    <3> QED
      BY <2>2, <3>1, <3>2
  <2>4. msg'[writer'[1]] = m
        /\ \A u \in 2 .. N : pc'[Link(u)] \in {"sent", "write"} <=> u = h + 1
    <3>1. CASE h < N
      <4> DEFINE link == Link(h + 1)
      <4>1. link \in Conns /\ link # x /\ pc[link] = "idle" /\ h + 1 \in 2 .. N
        BY <2>1, <3>1, NextLinkIdle, HostFacts
      <4>2. /\ pc'  = [pc  EXCEPT ![x] = "await", ![link] = "sent"]
            /\ msg' = [msg EXCEPT ![link] = msg[x]]
        BY <1>10, <3>1, WriteTableEffect
      <4>3. \A u \in 2 .. N : Link(u) = link <=> u = h + 1
        BY <4>1, ConnsApart
      <4> HIDE DEF link
      <4>4. writer[1] # link
        BY <1>1, <4>1, WriterFacts DEF HoldsWrite
      <4>5. \A u \in 2 .. N : Link(u) = x => u = h
        BY <1>2
      <4>6. msg'[writer'[1]] = m
        BY <1>1, <2>1, <2>3, <4>2, <4>4
      <4> HIDE DEF h, m
      <4>7. ASSUME NEW u \in 2 .. N
            PROVE  pc'[Link(u)] \in {"sent", "write"} <=> u = h + 1
        BY <1>1, <1>2, <2>2, <2>3, <4>1, <4>2, <4>3, <4>5
      <4> QED
        BY <4>6, <4>7
    <3>2. CASE ~(h < N)
      <4>1. pc' = [pc EXCEPT ![x] = "unlock"] /\ msg' = msg
        BY <1>10, <3>2, WriteTableEffect
      <4> HIDE DEF h, m
      <4>2. ASSUME NEW u \in 2 .. N
            PROVE  pc'[Link(u)] \in {"sent", "write"} <=> u = h + 1
        <5>1. u # h + 1
          BY <2>1, <3>2, NAssumption
        <5> QED
          BY <1>1, <1>2, <2>2, <2>3, <4>1, <5>1
      <4> QED
        BY <2>1, <2>3, <4>1, <4>2
    <3> QED
      BY <3>1, <3>2
  <2> HIDE DEF h, m
  <2>5. ASSUME NEW s \in Servers, NEW t \in Servers, s < t
        PROVE  table'[s] = IF Lagging(s, t)' THEN Effect(table'[t], msg'[writer'[1]]) ELSE table'[t]
    <3>1. \A u \in (s+1) .. t : u \in 2 .. N
      BY <2>5, NAssumption DEF Servers
    <3>2. Lagging(s, t) <=> s < h /\ h <= t
      BY <2>1, <2>3, <3>1, NAssumption DEF Lagging, Servers
    <3>3. Lagging(s, t)' <=> s <= h /\ h < t
      BY <2>1, <2>4, <3>1, NAssumption DEF Lagging, Servers
    <3>4. table[s] = IF Lagging(s, t) THEN Effect(table[t], m) ELSE table[t]
      BY <1>1, <2>3, <2>5 DEF ReplicasLag
    <3>5. /\ table'[s] = IF s = h THEN Effect(table[s], m) ELSE table[s]
          /\ table'[t] = IF t = h THEN Effect(table[t], m) ELSE table[t]
      BY <1>1, <2>1
    <3> QED
      BY <2>1, <2>4, <2>5, <3>2, <3>3, <3>4, <3>5, NAssumption DEF Servers
  <2> QED
    BY <2>5 DEF ReplicasLag
<1> QED
  BY <1>3, <1>4, <1>5, <1>6, <1>7, <1>8, <1>9, <1>10 DEF Next, Serve

(* Every step keeps the head in possession of the write it is working on.  *)
LEMMA HeadStep ==
  ASSUME IInv, [Next]_vars
  PROVE  HeadHoldsWrite'
<1>1. /\ HeadHoldsWrite /\ pc \in [Conns -> Labels] /\ msg \in [Conns -> Requests \cup {NoRequest}]
      /\ table \in [Servers -> Tables] /\ 1 \in Servers
  BY NAssumption DEF IInv, TypeOK, Servers
<1>2. ASSUME NEW c \in Clients
      PROVE  /\ HeadConn(c) \in Conns /\ Host(HeadConn(c)) = 1 /\ HeadConn(c) \notin TailConns
             /\ pc[HeadConn(c)] \in {"await", "unlock"} =>
                  /\ table[1] = Effect(table[1], msg[HeadConn(c)])
                  /\ HoldsWrite(HeadConn(c)) /\ writer[1] = HeadConn(c)
  <2>1. HeadConn(c) \in Conns /\ Host(HeadConn(c)) = 1 /\ HeadConn(c) \notin TailConns
    BY HostFacts, ConnsApart
  <2>2. ASSUME pc[HeadConn(c)] \in {"await", "unlock"}
        PROVE  HoldsWrite(HeadConn(c)) /\ writer[1] = HeadConn(c)
    <3>1. msg[HeadConn(c)].op \in Writes
      BY <2>1, <2>2, StageFacts, RequestKinds DEF StageOK
    <3> QED
      BY <2>1, <2>2, <3>1 DEF HoldsWrite, IInv, LockOK, OwnLock
  <2> QED
    BY <1>1, <2>1, <2>2 DEF HeadHoldsWrite
<1>3. CASE UNCHANGED vars
  BY <1>1, <1>3 DEF vars, HeadHoldsWrite
<1>4. ASSUME NEW c \in Clients, (\E r \in Requests : ClientCall(c, r)) \/ ClientReturn(c)
      PROVE  HeadHoldsWrite'
  <2>1. PICK x \in HeadConns \cup TailConns, l \in {"idle", "sent"}, r \in Requests \cup {NoRequest} :
           /\ x \in Conns
           /\ pc'  = [pc EXCEPT ![x] = l]
           /\ msg' = [msg EXCEPT ![x] = r]
           /\ UNCHANGED <<table, writer, readers>>
    BY <1>4, ClientStepShape
  <2> QED
    BY <1>1, <1>2, <2>1 DEF HeadHoldsWrite
<1>5. ASSUME NEW x \in Conns,
             LockWriter(x) \/ UnlockWriter(x) \/ LockReader(x) \/ UnlockReader(x) \/ SendAnswer(x)
      PROVE  HeadHoldsWrite'
  <2>1. /\ \E l \in {"write", "read", "send", "answered"} : pc' = [pc EXCEPT ![x] = l]
        /\ UNCHANGED <<table, msg>>
    BY <1>5 DEF LockWriter, UnlockWriter, LockReader, UnlockReader, SendAnswer, Goto
  <2> QED
    BY <1>1, <1>2, <2>1 DEF HeadHoldsWrite
<1>6. ASSUME NEW x \in Conns, ReadStep(x)
      PROVE  HeadHoldsWrite'
  <2>1. /\ \E l : pc' = [pc EXCEPT ![x] = l]
        /\ UNCHANGED <<table, msg>> /\ x \in TailConns
    BY <1>6, ReadStepShape
  <2> QED
    BY <1>1, <1>2, <2>1 DEF HeadHoldsWrite
<1>7. ASSUME NEW x \in Conns, ForwardReturns(x)
      PROVE  HeadHoldsWrite'
  <2> DEFINE link == Link(Host(x) + 1)
  <2>1. /\ pc[x] = "await" /\ table' = table
        /\ pc'  = [pc EXCEPT ![x] = "unlock", ![link] = "idle"]
        /\ msg' = [msg EXCEPT ![link] = NoRequest]
    BY <1>7 DEF ForwardReturns, TakeAnswer
  <2>2. link \notin HeadConns
    BY <2>1, AwaitFacts, ConnsApart
  <2>3. \A c \in Clients : HeadConn(c) # link
    BY <2>2 DEF HeadConns
  <2> HIDE DEF link
  <2> QED
    BY <1>1, <1>2, <2>1, <2>3 DEF HeadHoldsWrite
<1>8. ASSUME NEW x \in Conns, WriteTable(x)
      PROVE  HeadHoldsWrite'
  <2>1. /\ pc[x] = "write" /\ writer[Host(x)] = x /\ Host(x) \in Servers
        /\ msg[x] \in WriteRequests
        /\ table' = [table EXCEPT ![Host(x)] = Effect(table[Host(x)], msg[x])]
    BY <1>8, NextLinkIdle, HostFacts, WriteTableEffect DEF WriteTable
  <2>2. ASSUME NEW y \in Conns, y # x, y \in HeadConns
        PROVE  pc'[y] = pc[y] /\ msg'[y] = msg[y]
    <3>1. CASE Host(x) < N
      <4>1. y # Link(Host(x) + 1)
        BY <2>1, <2>2, <3>1, NextLinkIdle, ConnsApart
      <4> QED
        BY <1>1, <1>8, <2>2, <3>1, <4>1, WriteTableEffect
    <3>2. CASE ~(Host(x) < N)
      BY <1>1, <1>8, <2>2, <3>2, WriteTableEffect
    <3> QED
      BY <3>1, <3>2
  <2>3. msg'[x] = msg[x]
    <3>1. CASE Host(x) < N
      BY <1>1, <1>8, <2>1, <3>1, NextLinkIdle, WriteTableEffect
    <3>2. CASE ~(Host(x) < N)
      BY <1>8, <3>2, WriteTableEffect
    <3> QED
      BY <3>1, <3>2
  <2>4. ASSUME NEW c \in Clients, pc'[HeadConn(c)] \in {"await", "unlock"}
        PROVE  table'[1] = Effect(table'[1], msg'[HeadConn(c)])
    <3>1. CASE HeadConn(c) = x
      BY <1>1, <1>2, <2>1, <2>3, <3>1, EffectIdempotent
    <3>2. CASE HeadConn(c) # x
      <4>1. pc[HeadConn(c)] \in {"await", "unlock"} /\ msg'[HeadConn(c)] = msg[HeadConn(c)]
        BY <1>2, <2>2, <2>4, <3>2 DEF HeadConns
      <4>2. Host(x) # 1
        BY <1>2, <2>1, <3>2, <4>1
      <4> QED
        BY <1>1, <1>2, <2>1, <4>1, <4>2
    <3> QED
      BY <3>1, <3>2
  <2> QED
    BY <2>4 DEF HeadHoldsWrite
<1> QED
  BY <1>3, <1>4, <1>5, <1>6, <1>7, <1>8 DEF Next, Serve

-----------------------------------------------------------------------------
(***************************************************************************)
(* Theorems.                                                               *)
(***************************************************************************)

(* A started chain, with nothing called and all tables empty, is as the    *)
(* invariant says.                                                         *)
LEMMA InitInvariant == Init => IInv
<1> SUFFICES ASSUME Init PROVE IInv
  OBVIOUS
<1>1. /\ pc = [x \in Conns |-> "idle"] /\ msg = [x \in Conns |-> NoRequest]
      /\ ans = [x \in Conns |-> NoAnswer] /\ table = [s \in Servers |-> EmptyTable]
      /\ writer = [s \in Servers |-> None] /\ readers = [s \in Servers |-> {}]
      /\ listing = [x \in Conns |-> NoListing]
  BY DEF Init
<1>2. TypeOK
  <2>1. EmptyTable \in Tables
    BY DEF EmptyTable, Tables
  <2>2. NoListing \in [n : Counts, items : SUBSET Keys]
    BY KeysAssumption, FS_CardinalityType DEF NoListing, Listing, Counts
  <2>3. \A x \in Conns : StageOK(x)
    BY <1>1 DEF StageOK
  <2> QED
    BY <1>1, <2>1, <2>2, <2>3 DEF TypeOK, Labels
<1>3. LockOK
  BY <1>1, HostFacts, ConnsApart DEF LockOK, OwnLock, HoldsWrite, HoldsRead
<1>4. CallsNest
  <2>1. ASSUME NEW s \in 2 .. N PROVE Nested(s)
    <3>1. Link(s) \in Conns /\ s - 1 \in Servers
      BY HostFacts, NAssumption DEF Servers
    <3> QED
      BY <1>1, <3>1 DEF Nested
  <2> QED
    BY <2>1 DEF CallsNest
<1>5. ReplicasLag
  <2>1. ASSUME NEW s \in Servers, NEW t \in Servers, s < t PROVE ~Lagging(s, t)
    <3>1. \A u \in (s+1) .. t : Link(u) \in Conns
      BY HostFacts, NAssumption DEF Servers
    <3> QED
      BY <1>1, <3>1 DEF Lagging
  <2> QED
    BY <1>1, <2>1 DEF ReplicasLag
<1>6. HeadHoldsWrite
  BY <1>1, HostFacts DEF HeadHoldsWrite
<1> QED
  BY <1>2, <1>3, <1>4, <1>5, <1>6 DEF IInv

(* No step of a client, a thread or the network breaks the invariant: the  *)
(* invariant is inductive.                                                 *)
THEOREM InvariantHolds == Spec => []IInv
<1>1. IInv /\ [Next]_vars => IInv'
  BY TypeStep, LockStep, NestStep, LagStep, HeadStep DEF IInv
<1> QED
  BY <1>1, InitInvariant, PTL DEF Spec

(* Types are kept and every connection carries what its stage allows, for  *)
(* every chain, every set of clients and every finite set of keys.         *)
THEOREM TypeCorrect == Spec => []TypeOK
<1>1. IInv => TypeOK
  BY DEF IInv
<1> QED
  BY <1>1, InvariantHolds, PTL

(* rwlock_table excludes: a thread that writes a table is alone with it.   *)
THEOREM LockCorrect == Spec => []LockOK
<1>1. IInv => LockOK
  BY DEF IInv
<1> QED
  BY <1>1, InvariantHolds, PTL

(* The remote calls of one write nest along the chain, however long it is. *)
THEOREM CallsNestCorrect == Spec => []CallsNest
<1>1. IInv => CallsNest
  BY DEF IInv
<1> QED
  BY <1>1, InvariantHolds, PTL

(* Any two replicas of the chain differ by at most the write under way.    *)
THEOREM ReplicasLagCorrect == Spec => []ReplicasLag
<1>1. IInv => ReplicasLag
  BY DEF IInv
<1> QED
  BY <1>1, InvariantHolds, PTL

(* When the head is about to release its lock and answer a put or a del,   *)
(* every replica of the chain holds the write.                             *)
THEOREM AckedWriteReplicatedCorrect == Spec => []AckedWriteReplicated
<1>1. IInv => AckedWriteReplicated
  <2> SUFFICES ASSUME IInv, NEW c \in Clients, pc[HeadConn(c)] = "unlock", NEW s \in Servers
               PROVE  table[s] = Effect(table[s], msg[HeadConn(c)])
    BY DEF AckedWriteReplicated
  <2>1. HeadConn(c) \in Conns /\ HeadConn(c) \notin TailConns /\ Host(HeadConn(c)) = 1
    BY HostFacts, ConnsApart
  <2>2. msg[HeadConn(c)].op \in Writes
    BY <2>1, StageFacts, RequestKinds DEF StageOK
  <2>3. writer[1] = HeadConn(c)
    BY <2>1, <2>2 DEF IInv, LockOK, OwnLock, HoldsWrite
  <2>4. \A u \in 2 .. N : pc[Link(u)] = "idle"
    BY <2>3, LinksIdle
  <2>5. table[1] = Effect(table[1], msg[HeadConn(c)])
    BY DEF IInv, HeadHoldsWrite
  <2>6. CASE s = 1
    BY <2>5, <2>6
  <2>7. CASE s # 1
    <3>1. 1 \in Servers /\ 1 < s
      BY <2>7, NAssumption DEF Servers
    <3>2. \A u \in (1+1) .. s : u \in 2 .. N
      BY NAssumption DEF Servers
    <3>3. ~Lagging(1, s)
      BY <2>4, <3>2 DEF Lagging
    <3>4. table[1] = table[s]
      BY <3>1, <3>3 DEF IInv, ReplicasLag
    <3> QED
      BY <2>5, <3>4
  <2> QED
    BY <2>6, <2>7
<1> QED
  BY <1>1, InvariantHolds, PTL

-----------------------------------------------------------------------------
(***************************************************************************)
(* Listings.                                                               *)
(***************************************************************************)

(* A listing stays current while nobody touches it or the table it reads.  *)
LEMMA CurrentFrame ==
  ASSUME NEW y \in Conns, Current(y),
         pc'[y] = pc[y], msg'[y] = msg[y], ans'[y] = ans[y], listing'[y] = listing[y],
         pc[y] \in {"keys", "entries"} => table'[Host(y)] = table[Host(y)]
  PROVE  Current(y)'
BY DEF Current

(* A step of a thread on its own connection, which leaves the tables       *)
(* alone, disturbs no listing but its own.                                 *)
LEMMA CurrentOthers ==
  ASSUME IInv, ListingIsCurrent, NEW x \in Conns, NEW l, NEW a, NEW items,
         pc' = [pc EXCEPT ![x] = l], msg' = msg, ans' = [ans EXCEPT ![x] = a],
         listing' = [listing EXCEPT ![x] = items], table' = table,
         Current(x)'
  PROVE  ListingIsCurrent'
<1>1. ASSUME NEW y \in Conns, y # x PROVE Current(y)'
  <2>1. pc'[y] = pc[y] /\ ans'[y] = ans[y] /\ listing'[y] = listing[y]
    BY <1>1 DEF IInv, TypeOK
  <2> QED
    BY <2>1, CurrentFrame DEF ListingIsCurrent
<1> QED
  BY <1>1 DEF ListingIsCurrent

(* Every step keeps the listings current: a thread that reads keeps every  *)
(* writer of its server out.                                               *)
LEMMA ListingStep ==
  ASSUME IInv, ListingIsCurrent, [Next]_vars
  PROVE  ListingIsCurrent'
<1>1. /\ pc \in [Conns -> Labels] /\ msg \in [Conns -> Requests \cup {NoRequest}]
      /\ table \in [Servers -> Tables] /\ ans = [x \in Conns |-> ans[x]]
      /\ listing \in [Conns -> [n : Counts, items : SUBSET Keys]]
  BY DEF IInv, TypeOK
<1>2. CASE UNCHANGED vars
  BY <1>2 DEF vars, ListingIsCurrent, Current
<1>3. ASSUME NEW c \in Clients, NEW r \in Requests, ClientCall(c, r)
      PROVE  ListingIsCurrent'
  <2>1. Route(c, r) \in Conns
    BY HostFacts DEF Route
  <2>2. /\ pc' = [pc EXCEPT ![Route(c, r)] = "sent"] /\ msg' = [msg EXCEPT ![Route(c, r)] = r]
        /\ UNCHANGED <<table, ans, listing>>
    BY <1>3 DEF ClientCall, SendRequest
  <2>3. ASSUME NEW y \in Conns PROVE Current(y)'
    <3>1. CASE y = Route(c, r)
      BY <1>1, <2>1, <2>2, <3>1 DEF Current
    <3>2. CASE y # Route(c, r)
      BY <1>1, <2>1, <2>2, <3>2, CurrentFrame DEF ListingIsCurrent
    <3> QED
      BY <3>1, <3>2
  <2> QED
    BY <2>3 DEF ListingIsCurrent
<1>4. ASSUME NEW c \in Clients, ClientReturn(c)
      PROVE  ListingIsCurrent'
  <2>1. PICK x \in {HeadConn(c), TailConn(c)} :
          /\ pc' = [pc EXCEPT ![x] = "idle"] /\ msg' = [msg EXCEPT ![x] = NoRequest]
          /\ ans' = [ans EXCEPT ![x] = NoAnswer] /\ UNCHANGED <<table, listing>>
    BY <1>4 DEF ClientReturn, TakeAnswer, Goto
  <2>2. x \in Conns
    BY HostFacts
  <2>3. ASSUME NEW y \in Conns PROVE Current(y)'
    <3>1. CASE y = x
      BY <1>1, <2>1, <2>2, <3>1 DEF Current
    <3>2. CASE y # x
      BY <1>1, <2>1, <2>2, <3>2, CurrentFrame DEF ListingIsCurrent
    <3> QED
      BY <3>1, <3>2
  <2> QED
    BY <2>3 DEF ListingIsCurrent
<1>5. ASSUME NEW x \in Conns, LockWriter(x) \/ LockReader(x)
      PROVE  ListingIsCurrent'
  <2>1. PICK l \in {"write", "read"} : pc' = [pc EXCEPT ![x] = l]
    BY <1>5 DEF LockWriter, LockReader, Goto
  <2>2. UNCHANGED <<table, msg, ans, listing>>
    BY <1>5 DEF LockWriter, LockReader
  <2>3. Current(x)'
    BY <1>1, <2>1 DEF Current
  <2>4. ans' = [ans EXCEPT ![x] = ans[x]] /\ listing' = [listing EXCEPT ![x] = listing[x]]
    BY <1>1, <2>2
  <2> QED
    BY <2>1, <2>2, <2>3, <2>4, CurrentOthers
<1>6. ASSUME NEW x \in Conns, WriteTable(x)
      PROVE  ListingIsCurrent'
  <2>1. /\ pc[x] = "write" /\ msg[x] \in WriteRequests
        /\ UNCHANGED listing
    BY <1>6, StageFacts DEF WriteTable, StageOK
  <2>2. /\ table' = [table EXCEPT ![Host(x)] = table'[Host(x)]]
        /\ ans' = [ans EXCEPT ![x] = ans'[x]]
    <3>1. ApplyPut(x) \/ ApplyDel(x)
      BY <1>6 DEF WriteTable
    <3>2. Host(x) \in Servers
      BY HostFacts
    <3> QED
      BY <1>1, <3>1, <3>2 DEF ApplyPut, ApplyDel
  <2>3. msg[x].op \notin {"getkeys", "gettable"}
    BY <2>1, RequestKinds DEF Writes
  <2>4. ASSUME NEW y \in Conns, pc[y] \in {"keys", "entries"}
        PROVE  Host(y) # Host(x)
    <3>1. HoldsWrite(x)
      BY <2>1, RequestKinds DEF HoldsWrite
    <3>2. HoldsRead(y)
      BY <2>4, StageFacts DEF HoldsRead
    <3> QED
      BY <3>1, <3>2 DEF IInv, LockOK, OwnLock
  <2>5. \A y \in Conns : pc[y] \in {"keys", "entries"} => table'[Host(y)] = table[Host(y)]
    BY <1>1, <2>2, <2>4, HostFacts
  <2>6. CASE Host(x) < N
    <3> DEFINE link == Link(Host(x) + 1)
    <3>1. link \in Conns /\ link # x /\ pc[link] = "idle"
      BY <1>6, <2>6, NextLinkIdle, HostFacts DEF WriteTable
    <3>2. /\ pc'  = [pc  EXCEPT ![x] = "await", ![link] = "sent"]
          /\ msg' = [msg EXCEPT ![link] = msg[x]]
      BY <1>6, <2>6, WriteTableEffect
    <3> HIDE DEF link
    <3>3. ASSUME NEW y \in Conns PROVE Current(y)'
      <4>1. CASE y \in {x, link}
        BY <1>1, <3>1, <3>2, <4>1 DEF Current
      <4>2. CASE y \notin {x, link}
        <5>1. pc'[y] = pc[y] /\ msg'[y] = msg[y] /\ ans'[y] = ans[y]
          BY <1>1, <2>2, <3>1, <3>2, <4>2
        <5> QED
          BY <2>1, <2>5, <5>1, CurrentFrame DEF ListingIsCurrent
      <4> QED
        BY <4>1, <4>2
    <3> QED
      BY <3>3 DEF ListingIsCurrent
  <2>7. CASE ~(Host(x) < N)
    <3>1. pc' = [pc EXCEPT ![x] = "unlock"] /\ msg' = msg
      BY <1>6, <2>7, WriteTableEffect
    <3>2. ASSUME NEW y \in Conns PROVE Current(y)'
      <4>1. CASE y = x
        BY <1>1, <2>3, <3>1, <4>1 DEF Current
      <4>2. CASE y # x
        <5>1. pc'[y] = pc[y] /\ msg'[y] = msg[y] /\ ans'[y] = ans[y]
          BY <1>1, <2>2, <3>1, <4>2
        <5> QED
          BY <2>1, <2>5, <5>1, CurrentFrame DEF ListingIsCurrent
      <4> QED
        BY <4>1, <4>2
    <3> QED
      BY <3>2 DEF ListingIsCurrent
  <2> QED
    BY <2>6, <2>7
<1>7. ASSUME NEW x \in Conns, ForwardReturns(x)
      PROVE  ListingIsCurrent'
  <2> DEFINE link == Link(Host(x) + 1)
  <2>1. /\ pc[x] = "await" /\ pc[link] = "answered"
        /\ pc' = [pc EXCEPT ![x] = "unlock", ![link] = "idle"]
        /\ msg' = [msg EXCEPT ![link] = NoRequest]
        /\ ans' = [ans EXCEPT ![link] = NoAnswer]
        /\ UNCHANGED <<table, listing>>
    BY <1>7 DEF ForwardReturns, TakeAnswer
  <2>2. /\ link \in Conns /\ link # x /\ msg[x].op \notin {"getkeys", "gettable"}
    <3>1. link \in Conns /\ msg[x] \in WriteRequests
      BY <2>1, AwaitFacts
    <3>2. msg[x].op \in Writes
      BY <3>1, RequestKinds
    <3> HIDE DEF link
    <3> QED
      BY <2>1, <3>1, <3>2 DEF Writes
  <2> HIDE DEF link
  <2>3. ASSUME NEW y \in Conns PROVE Current(y)'
    <3>1. CASE y \in {x, link}
      BY <1>1, <2>1, <2>2, <3>1 DEF Current
    <3>2. CASE y \notin {x, link}
      <4>1. pc'[y] = pc[y] /\ msg'[y] = msg[y] /\ ans'[y] = ans[y]
        BY <1>1, <2>1, <2>2, <3>2
      <4> QED
        BY <2>1, <4>1, CurrentFrame DEF ListingIsCurrent
    <3> QED
      BY <3>1, <3>2
  <2> QED
    BY <2>3 DEF ListingIsCurrent
<1>8. ASSUME NEW x \in Conns, UnlockWriter(x) \/ SendAnswer(x)
      PROVE  ListingIsCurrent'
  <2>1. PICK l \in {"send", "answered"} : pc' = [pc EXCEPT ![x] = l]
    BY <1>8 DEF UnlockWriter, SendAnswer, Goto
  <2>2. pc[x] \in {"unlock", "send"} /\ UNCHANGED <<table, msg, ans, listing>>
    BY <1>8 DEF UnlockWriter, SendAnswer
  <2>3. Current(x)'
    BY <1>1, <2>1, <2>2 DEF Current, ListingIsCurrent
  <2>4. ans' = [ans EXCEPT ![x] = ans[x]] /\ listing' = [listing EXCEPT ![x] = listing[x]]
    BY <1>1, <2>2
  <2> QED
    BY <2>1, <2>2, <2>3, <2>4, CurrentOthers
<1>9. ASSUME NEW x \in Conns, UnlockReader(x)
      PROVE  ListingIsCurrent'
  <2>1. /\ pc[x] = "unlock" /\ pc' = [pc EXCEPT ![x] = "send"]
        /\ listing' = [listing EXCEPT ![x] = NoListing] /\ UNCHANGED <<table, msg, ans>>
    BY <1>9 DEF UnlockReader, Goto
  <2>2. Current(x)'
    BY <1>1, <2>1 DEF Current, ListingIsCurrent
  <2>3. ans' = [ans EXCEPT ![x] = ans[x]]
    BY <1>1, <2>1
  <2> QED
    BY <2>1, <2>2, <2>3, CurrentOthers
<1>10. ASSUME NEW x \in Conns, ReadValue(x) \/ ReadSize(x)
       PROVE  ListingIsCurrent'
  <2>1. PICK a : ans' = [ans EXCEPT ![x] = a]
    BY <1>10 DEF ReadValue, ReadSize
  <2>2. /\ pc' = [pc EXCEPT ![x] = "unlock"] /\ UNCHANGED <<table, msg, listing>>
        /\ msg[x].op \in {"get", "size"}
    BY <1>10 DEF ReadValue, ReadSize, Goto
  <2>3. Current(x)'
    BY <1>1, <2>2 DEF Current
  <2>4. listing' = [listing EXCEPT ![x] = listing[x]]
    BY <1>1, <2>2
  <2> QED
    BY <2>1, <2>2, <2>3, <2>4, CurrentOthers
<1>11. ASSUME NEW x \in Conns, CountKeys(x)
       PROVE  ListingIsCurrent'
  <2>1. /\ pc' = [pc EXCEPT ![x] = "keys"] /\ UNCHANGED <<table, msg, ans>>
        /\ listing' = [listing EXCEPT ![x] = Listing(table_size(table[Host(x)]), {})]
    BY <1>11 DEF CountKeys, Goto
  <2>2. Current(x)'
    BY <1>1, <2>1 DEF Current, Listing
  <2>3. ans' = [ans EXCEPT ![x] = ans[x]]
    BY <1>1, <2>1
  <2> QED
    BY <2>1, <2>2, <2>3, CurrentOthers
<1>12. ASSUME NEW x \in Conns, ReadKeys(x)
       PROVE  ListingIsCurrent'
  <2> DEFINE items == Listing(listing[x].n, table_get_keys(table[Host(x)]))
  <2>1. /\ listing' = [listing EXCEPT ![x] = items] /\ UNCHANGED <<table, msg>>
        /\ pc[x] = "keys"
    <3>1. listing' = [listing EXCEPT ![x].items = table_get_keys(table[Host(x)])]
      BY <1>12 DEF ReadKeys
    <3>2. [listing[x] EXCEPT !.items = table_get_keys(table[Host(x)])] = items
      BY <1>1 DEF Listing
    <3> HIDE DEF items
    <3> QED
      BY <1>1, <1>12, <3>1, <3>2 DEF ReadKeys
  <2>2. CASE msg[x].op = "getkeys"
    <3>1. PICK a : ans' = [ans EXCEPT ![x] = a] /\ a.ok
      <4>1. ans' = [ans EXCEPT ![x] = Answer(TRUE, items)]
        BY <1>12, <2>2 DEF ReadKeys
      <4>2. Answer(TRUE, items).ok
        BY DEF Answer
      <4> HIDE DEF items
      <4> QED
        BY <4>1, <4>2
    <3>2. pc' = [pc EXCEPT ![x] = "unlock"]
      BY <1>12, <2>2 DEF ReadKeys, Goto
    <3>3. Current(x)'
      BY <1>1, <3>1, <3>2 DEF Current
    <3> QED
      BY <2>1, <3>1, <3>2, <3>3, CurrentOthers
  <2>3. CASE msg[x].op # "getkeys"
    <3>1. pc' = [pc EXCEPT ![x] = "entries"] /\ ans' = [ans EXCEPT ![x] = ans[x]]
      BY <1>1, <1>12, <2>3 DEF ReadKeys, Goto
    <3>2. Current(x)'
      BY <1>1, <2>1, <3>1 DEF Current, ListingIsCurrent, Listing
    <3> QED
      BY <2>1, <3>1, <3>2, CurrentOthers
  <2> QED
    BY <2>2, <2>3
<1>13. ASSUME NEW x \in Conns, ReadEntries(x)
       PROVE  ListingIsCurrent'
  <2> DEFINE t     == table[Host(x)]
             keys  == listing[x].items
             found == /\ \A k \in keys : table_get(t, k) # None
                      /\ listing[x].n = Cardinality(keys)
             copy  == Listing(listing[x].n, [k \in keys |-> table_get(t, k)])
  <2>1. /\ pc[x] = "entries" /\ pc' = [pc EXCEPT ![x] = "unlock"]
        /\ ans' = [ans EXCEPT ![x] = IF found THEN Answer(TRUE, copy) ELSE NoAnswer]
        /\ UNCHANGED <<table, msg, listing>>
    BY <1>13 DEF ReadEntries, Goto
  <2>2. keys = table_get_keys(t) /\ listing[x].n = table_size(t)
    BY <2>1 DEF ListingIsCurrent, Current
  <2>3. found
    BY <2>2 DEF table_get_keys, table_get, table_size
  <2> HIDE DEF found, copy, t, keys
  <2>4. ans' = [ans EXCEPT ![x] = Answer(TRUE, copy)]
    BY <2>1, <2>3
  <2>5. Current(x)'
    BY <1>1, <2>1, <2>4 DEF Current, Answer
  <2>6. listing' = [listing EXCEPT ![x] = listing[x]]
    BY <1>1, <2>1
  <2> QED
    BY <2>1, <2>4, <2>5, <2>6, CurrentOthers
<1> QED
  BY <1>2, <1>3, <1>4, <1>5, <1>6, <1>7, <1>8, <1>9, <1>10, <1>11, <1>12, <1>13
     DEF Next, Serve, ReadStep

(* GETKEYS and GETTABLE never fail and list a table nobody changes, so the *)
(* error branch in the loop of GETTABLE is dead code.                      *)
THEOREM ListingCorrect == Spec => []ListingIsCurrent
<1>1. Init => ListingIsCurrent
  BY DEF Init, ListingIsCurrent, Current
<1>2. IInv /\ ListingIsCurrent /\ [Next]_vars => ListingIsCurrent'
  BY ListingStep
<1> QED
  BY <1>1, <1>2, InvariantHolds, PTL DEF Spec

-----------------------------------------------------------------------------
(***************************************************************************)
(* A chain of any length implements one map: Spec => KV!Spec, under the    *)
(* mapping of ChainReplication.  The abstract state is, besides the table  *)
(* of the tail, the phase, the request and the answer of each client; a    *)
(* concrete step changes those of one client at most, and the table of the *)
(* tail only together with them.                                           *)
(***************************************************************************)

(* The request and the answer of client c as the map sees them.            *)
ReqOf(c) == msg[ActiveConn(c)]
ResOf(c) == IF PhaseOf(c) = "done" THEN ans[ActiveConn(c)] ELSE NoAnswer

(* What the map sees of client c is left alone.                            *)
Same(c) == PhaseOf(c)' = PhaseOf(c) /\ ReqOf(c)' = ReqOf(c) /\ ResOf(c)' = ResOf(c)

(* A client has one call under way at most.                                *)
OneCall == \A c \in Clients : pc[HeadConn(c)] = "idle" \/ pc[TailConn(c)] = "idle"

(* While a write is on its way to the tail, the answer the head has ready  *)
(* is the one the tail's table will give.                                  *)
AnswerAhead ==
  \A c \in Clients :
    pc[HeadConn(c)] = "await" /\ ~TailHasApplied =>
      ans[HeadConn(c)] = KV!Outcome(table[N], msg[HeadConn(c)])

LInv == IInv /\ ListingIsCurrent /\ OneCall /\ AnswerAhead

-----------------------------------------------------------------------------
(***************************************************************************)
(* Steps of the map.                                                       *)
(***************************************************************************)

(* The operators of the map's module are those of the chain's.             *)
LEMMA SameOperators ==
  /\ \A t, r : KV!Effect(t, r) = Effect(t, r)
  /\ KV!Requests = Requests /\ KV!Writes = Writes /\ KV!NoAnswer = NoAnswer
  /\ KV!Whole(None) = NoRequest /\ KV!EmptyTable = EmptyTable
<1>1. \A t, r : KV!Effect(t, r) = Effect(t, r)
  BY DEF KV!Effect, Effect, KV!table_put, table_put, KV!table_remove, table_remove
<1>2. KV!Writes = Writes /\ KV!Reads = Reads
  BY DEF KV!Writes, Writes, KV!Reads, Reads
<1>3. KV!NoAnswer = NoAnswer /\ KV!Whole(None) = NoRequest /\ KV!EmptyTable = EmptyTable
  BY DEF KV!NoAnswer, NoAnswer, KV!Answer, Answer, KV!Whole, NoRequest, Whole, KV!EmptyTable, EmptyTable
<1>4. KV!Requests = Requests
  BY <1>2 DEF KV!Requests, Requests, KV!WriteRequests, WriteRequests, KV!ReadRequests, ReadRequests,
              KV!Put, Put, KV!Del, Del, KV!Get, Get, KV!Whole, Whole
<1> QED
  BY <1>1, <1>2, <1>3, <1>4

(* The same holds for the size of a table and its keys.                    *)
LEMMA SameSize ==
  \A t : KV!table_size(t) = table_size(t) /\ KV!table_get_keys(t) = table_get_keys(t)
<1>1. \A t : KV!table_get_keys(t) = table_get_keys(t)
  BY DEF KV!table_get_keys, table_get_keys
<1>2. \A S : KV!Cardinality(S) = Cardinality(S)
  BY DEF KV!Cardinality, Cardinality
<1> QED
  BY <1>1, <1>2 DEF KV!table_size, table_size

(* When no client's view changes, nor the tail's table, the map stutters.  *)
LEMMA MapStutters ==
  ASSUME \A c \in Clients : Same(c), table'[N] = table[N]
  PROVE  UNCHANGED KV!kvVars
BY DEF KV!kvVars, Same, ReqOf, ResOf

(* One client turns from idle to called: it has called an operation.       *)
LEMMA MapCalls ==
  ASSUME NEW c \in Clients, NEW r \in Requests,
         PhaseOf(c) = "idle", PhaseOf(c)' = "called", ReqOf(c)' = r,
         \A d \in Clients \ {c} : Same(d), table'[N] = table[N]
  PROVE  KV!Next
<1>1. ResOf(c)' = ResOf(c)
  BY DEF ResOf
<1>2. KV!Call(c, r)
  BY <1>1 DEF KV!Call, Same, ReqOf, ResOf
<1> QED
  BY <1>2, SameOperators DEF KV!Next

(* One client turns from done to idle: its operation has returned.         *)
LEMMA MapReturns ==
  ASSUME NEW c \in Clients,
         PhaseOf(c) = "done", PhaseOf(c)' = "idle", ReqOf(c)' = NoRequest,
         \A d \in Clients \ {c} : Same(d), table'[N] = table[N]
  PROVE  KV!Next
<1>1. ResOf(c)' = NoAnswer
  BY DEF ResOf
<1>2. KV!Return(c)
  BY <1>1, SameOperators DEF KV!Return, Same, ReqOf, ResOf
<1> QED
  BY <1>2 DEF KV!Next

(* One client turns from called to done, with the map's answer and its     *)
(* effect on the tail's table: the operation has taken effect.             *)
LEMMA MapPerforms ==
  ASSUME NEW c \in Clients,
         PhaseOf(c) = "called", PhaseOf(c)' = "done", ReqOf(c)' = ReqOf(c),
         ResOf(c)' = KV!Outcome(table[N], ReqOf(c)),
         table'[N] = IF ReqOf(c).op \in Writes THEN Effect(table[N], ReqOf(c)) ELSE table[N],
         \A d \in Clients \ {c} : Same(d)
  PROVE  KV!Next
<1>1. KV!Perform(c)
  BY SameOperators DEF KV!Perform, Same, ReqOf, ResOf
<1> QED
  BY <1>1 DEF KV!Next
-----------------------------------------------------------------------------
(***************************************************************************)
(* What a step of a thread changes for the clients.                        *)
(***************************************************************************)

(* The connections clients opened.                                         *)
ClientConns == HeadConns \cup TailConns

(* The connections of the clients are apart from each other and from links.*)
LEMMA ClientConnFacts ==
  /\ \A c \in Clients : HeadConn(c) \in ClientConns /\ TailConn(c) \in ClientConns
  /\ \A c, d \in Clients : c # d => HeadConn(c) # HeadConn(d) /\ TailConn(c) # TailConn(d)
  /\ \A c, d \in Clients : HeadConn(c) # TailConn(d)
  /\ \A y \in ClientConns : \A u : Link(u) # y
  /\ ClientConns \subseteq Conns
BY DEF ClientConns, HeadConns, TailConns, Links, Conns, HeadConn, TailConn, Link

(* Only a write waits, and only at the head or on a link.                  *)
LEMMA TailNeverAwaits ==
  ASSUME IInv, NEW c \in Clients
  PROVE  pc[TailConn(c)] # "await"
<1>1. TailConn(c) \in Conns /\ StageOK(TailConn(c)) /\ TailConn(c) \in TailConns
  BY HostFacts DEF IInv, TypeOK, TailConns
<1> QED
  BY <1>1, RequestKinds DEF StageOK

(* A thread works on a call from "sent" on, and leaves it "answered"; the  *)
(* other connections of clients stay as they are.                          *)
LEMMA ServeShape ==
  ASSUME IInv, NEW x \in Conns, Serve(x)
  PROVE  /\ pc[x] \notin {"idle", "answered"} /\ pc'[x] # "idle"
         /\ \A y \in ClientConns : msg'[y] = msg[y]
         /\ \A y \in ClientConns \ {x} : pc'[y] = pc[y] /\ ans'[y] = ans[y]
         /\ pc[x] \in {"unlock", "send"} => pc'[x] \in Finished /\ ans' = ans
<1> USE DEF IInv, TypeOK
<1>1. CASE LockWriter(x) \/ UnlockWriter(x) \/ LockReader(x) \/ UnlockReader(x) \/ SendAnswer(x)
  BY <1>1, ClientConnFacts DEF LockWriter, UnlockWriter, LockReader, UnlockReader, SendAnswer, Goto, Finished
<1>2. CASE ReadStep(x)
  BY <1>2, ClientConnFacts DEF ReadStep, ReadValue, ReadSize, CountKeys, ReadKeys, ReadEntries, Goto
<1>3. CASE WriteTable(x)
  <2>1. pc[x] = "write"
    BY <1>3 DEF WriteTable
  <2>2. PICK ok \in BOOLEAN : ans' = [ans EXCEPT ![x] = Answer(ok, None)]
    BY <1>3, WriteTableEffect
  <2>3. CASE Host(x) < N
    <3>1. /\ pc'  = [pc  EXCEPT ![x] = "await", ![Link(Host(x) + 1)] = "sent"]
          /\ msg' = [msg EXCEPT ![Link(Host(x) + 1)] = msg[x]]
          /\ Link(Host(x) + 1) # x
      BY <1>3, <2>1, <2>3, WriteTableEffect, NextLinkIdle
    <3> QED
      BY <2>1, <2>2, <3>1, ClientConnFacts
  <2>4. CASE ~(Host(x) < N)
    <3>1. pc' = [pc EXCEPT ![x] = "unlock"] /\ msg' = msg
      BY <1>3, <2>4, WriteTableEffect
    <3> QED
      BY <2>1, <2>2, <3>1, ClientConnFacts
  <2> QED
    BY <2>3, <2>4
<1>4. CASE ForwardReturns(x)
  <2>1. pc[x] = "await" /\ pc[Link(Host(x) + 1)] = "answered"
    BY <1>4 DEF ForwardReturns, TakeAnswer
  <2>2. /\ pc' = [pc EXCEPT ![x] = "unlock", ![Link(Host(x) + 1)] = "idle"]
        /\ msg' = [msg EXCEPT ![Link(Host(x) + 1)] = NoRequest]
        /\ ans' = [ans EXCEPT ![Link(Host(x) + 1)] = NoAnswer]
        /\ Link(Host(x) + 1) # x
    BY <1>4, <2>1 DEF ForwardReturns, TakeAnswer
  <2> QED
    BY <2>1, <2>2, ClientConnFacts
<1> QED
  BY <1>1, <1>2, <1>3, <1>4 DEF Serve

(* A client calls only when its last call has returned.                    *)
LEMMA OneCallStep == ASSUME LInv, [Next]_vars PROVE OneCall'
<1> USE DEF LInv, IInv, TypeOK
<1>1. ASSUME NEW c \in Clients, NEW r \in Requests, ClientCall(c, r) PROVE OneCall'
  <2>1. Route(c, r) \in {HeadConn(c), TailConn(c)} /\ Route(c, r) \in Conns
    BY HostFacts DEF Route
  <2>2. pc' = [pc EXCEPT ![Route(c, r)] = "sent"] /\ pc[HeadConn(c)] = "idle" /\ pc[TailConn(c)] = "idle"
    BY <1>1 DEF ClientCall, SendRequest
  <2> QED
    BY <2>1, <2>2, HostFacts, ClientConnFacts DEF OneCall
<1>2. ASSUME NEW c \in Clients, ClientReturn(c) PROVE OneCall'
  <2>1. PICK y \in {HeadConn(c), TailConn(c)} : pc' = [pc EXCEPT ![y] = "idle"]
    BY <1>2 DEF ClientReturn, Goto
  <2> QED
    BY <2>1, HostFacts DEF OneCall
<1>3. ASSUME NEW x \in Conns, Serve(x) PROVE OneCall'
  <2>1. \A y \in ClientConns : pc'[y] = "idle" <=> pc[y] = "idle"
    BY <1>3, ServeShape
  <2> QED
    BY <2>1, ClientConnFacts DEF OneCall
<1>4. CASE UNCHANGED vars
  BY <1>4 DEF vars, OneCall
<1> QED
  BY <1>1, <1>2, <1>3, <1>4 DEF Next

-----------------------------------------------------------------------------
(***************************************************************************)
(* Whether the tail has applied the write that is under way.               *)
(***************************************************************************)

(* One client at most has a write under way beyond the head.               *)
LEMMA OneWriteWaits ==
  ASSUME IInv, NEW c \in Clients, NEW d \in Clients,
         pc[HeadConn(c)] = "await", pc[HeadConn(d)] = "await"
  PROVE  c = d
<1>1. writer[1] = HeadConn(c) /\ writer[1] = HeadConn(d)
  BY AwaitFacts, HostFacts
<1> QED
  BY <1>1, ClientConnFacts

(* When the last server of the chain is about to write, the client whose   *)
(* write it is waits at the head, and no server has finished with it.      *)
LEMMA TailWrites ==
  ASSUME IInv, N > 1, pc[Link(N)] = "write"
  PROVE  /\ ~TailHasApplied
         /\ \E c \in Clients : pc[HeadConn(c)] = "await" /\ msg[Link(N)] = msg[HeadConn(c)]
<1>1. N \in 2 .. N
  BY NAssumption
<1>2. /\ writer[1] # None /\ pc[writer[1]] = "await" /\ msg[Link(N)] = msg[writer[1]]
      /\ \A u \in 2 .. (N-1) : pc[Link(u)] = "await"
  BY <1>1 DEF IInv, CallsNest, Nested
<1>3. ~TailHasApplied
  BY <1>2, NAssumption DEF TailHasApplied, Finished
<1>4. 1 \in Servers
  BY NAssumption DEF Servers
<1>5. writer[1] \in Conns /\ Host(writer[1]) = 1
  BY <1>2, <1>4, WriterFacts
<1>6. writer[1] \notin TailConns
  BY <1>2, <1>5, TailNeverAwaits DEF TailConns
<1>7. writer[1] \in HeadConns
  BY <1>5, <1>6, WriterConns
<1> QED
  BY <1>2, <1>3, <1>7 DEF HeadConns

(* Nothing else than the write of the tail and the return of the head's    *)
(* call changes whether the tail has applied the write.                    *)
LEMMA TailHasAppliedFrame ==
  ASSUME IInv, NEW x \in Conns, Serve(x),
         WriteTable(x) => Host(x) < N \/ N = 1,
         ForwardReturns(x) => x \notin HeadConns
  PROVE  TailHasApplied' <=> TailHasApplied
<1> USE DEF IInv, TypeOK
<1>0. \A u \in 2 .. N : Link(u) \in Conns /\ Link(u) \notin TailConns
  BY HostFacts, ConnsApart
<1>1. CASE LockWriter(x) \/ UnlockWriter(x) \/ SendAnswer(x)
  <2>1. \A u \in 2 .. N : pc'[Link(u)] \in Finished <=> pc[Link(u)] \in Finished
    BY <1>0, <1>1 DEF LockWriter, UnlockWriter, SendAnswer, Goto, Finished
  <2> QED
    BY <2>1 DEF TailHasApplied
<1>2. CASE LockReader(x) \/ UnlockReader(x) \/ ReadStep(x)
  <2>1. x \in TailConns
    BY <1>2, StageFacts, ReadStepShape DEF LockReader, UnlockReader
  <2>2. \A u \in 2 .. N : Link(u) # x
    BY <1>0, <2>1
  <2>3. \E l \in Labels : pc' = [pc EXCEPT ![x] = l]
    BY <1>2, ReadStepShape DEF LockReader, UnlockReader, Goto, Labels
  <2> QED
    BY <1>0, <2>2, <2>3 DEF TailHasApplied
<1>3. CASE WriteTable(x)
  <2>1. pc[x] = "write"
    BY <1>3 DEF WriteTable
  <2>2. CASE N = 1
    BY <2>2 DEF TailHasApplied
  <2>3. CASE Host(x) < N
    <3>1. /\ pc' = [pc EXCEPT ![x] = "await", ![Link(Host(x) + 1)] = "sent"]
          /\ pc[Link(Host(x) + 1)] = "idle" /\ Link(Host(x) + 1) # x
      BY <1>3, <2>1, <2>3, WriteTableEffect, NextLinkIdle
    <3>2. \A u \in 2 .. N : pc'[Link(u)] \in Finished <=> pc[Link(u)] \in Finished
      BY <1>0, <2>1, <3>1 DEF Finished
    <3> QED
      BY <3>2 DEF TailHasApplied
  <2> QED
    BY <1>3, <2>2, <2>3
<1>4. CASE ForwardReturns(x)
  <2>1. pc[x] = "await" /\ pc[Link(Host(x) + 1)] = "answered" /\ Link(Host(x) + 1) # x
        /\ pc' = [pc EXCEPT ![x] = "unlock", ![Link(Host(x) + 1)] = "idle"]
    BY <1>4 DEF ForwardReturns, TakeAnswer
  <2>2. Host(x) + 1 \in 2 .. N /\ N > 1
    BY <2>1, AwaitFacts, NAssumption
  <2>3. x \notin TailConns
    BY <2>1, TailNeverAwaits DEF TailConns
  <2>4. Host(x) \in 2 .. N /\ x = Link(Host(x))
    BY <1>4, <2>3, WriterConns
  <2>5. TailHasApplied
    BY <2>1, <2>2 DEF TailHasApplied, Finished
  <2>6. TailHasApplied'
    <3>1. pc'[Link(Host(x))] \in Finished
      BY <2>1, <2>4 DEF Finished
    <3> QED
      BY <2>2, <2>4, <3>1 DEF TailHasApplied, Finished
  <2> QED
    BY <2>5, <2>6
<1> QED
  BY <1>1, <1>2, <1>3, <1>4 DEF Serve

-----------------------------------------------------------------------------
(***************************************************************************)
(* What a step of a thread shows of the clients.                           *)
(***************************************************************************)

(* A client whose connections the thread does not serve sees nothing of    *)
(* the step, unless its write waits for the tail.                          *)
LEMMA SameOthers ==
  ASSUME IInv, NEW x \in Conns, Serve(x), NEW c \in Clients,
         x # HeadConn(c), x # TailConn(c),
         pc[HeadConn(c)] = "await" => (TailHasApplied' <=> TailHasApplied)
  PROVE  Same(c)
<1>1. /\ pc'[HeadConn(c)] = pc[HeadConn(c)] /\ pc'[TailConn(c)] = pc[TailConn(c)]
      /\ msg'[HeadConn(c)] = msg[HeadConn(c)] /\ msg'[TailConn(c)] = msg[TailConn(c)]
      /\ ans'[HeadConn(c)] = ans[HeadConn(c)] /\ ans'[TailConn(c)] = ans[TailConn(c)]
  BY ServeShape, ClientConnFacts
<1>2. ActiveConn(c)' = ActiveConn(c) /\ ActiveConn(c) \in {HeadConn(c), TailConn(c)}
  BY <1>1 DEF ActiveConn
<1>3. HasEffect(ActiveConn(c))' <=> HasEffect(ActiveConn(c))
  BY <1>1, <1>2, TailNeverAwaits DEF HasEffect
<1>4. PhaseOf(c)' = PhaseOf(c)
  BY <1>1, <1>2, <1>3 DEF PhaseOf
<1> QED
  BY <1>1, <1>2, <1>4 DEF Same, ReqOf, ResOf

(* The client a thread serves has its call on that connection, before and  *)
(* after the step.                                                         *)
LEMMA OwnView ==
  ASSUME LInv, NEW c \in Clients, NEW x \in {HeadConn(c), TailConn(c)}, Serve(x)
  PROVE  /\ ActiveConn(c) = x /\ ActiveConn(c)' = x
         /\ ReqOf(c) = msg[x] /\ ReqOf(c)' = msg[x]
         /\ PhaseOf(c)  = IF HasEffect(x)  THEN "done" ELSE "called"
         /\ PhaseOf(c)' = IF HasEffect(x)' THEN "done" ELSE "called"
<1>0. x \in ClientConns /\ x \in Conns
  BY ClientConnFacts
<1>1. pc[x] # "idle" /\ pc'[x] # "idle" /\ msg'[x] = msg[x]
      /\ \A y \in ClientConns \ {x} : pc'[y] = pc[y]
  BY <1>0, ServeShape DEF LInv
<1>2. ActiveConn(c) = x /\ ActiveConn(c)' = x
  BY <1>1, ClientConnFacts DEF LInv, OneCall, ActiveConn
<1> QED
  BY <1>1, <1>2 DEF ReqOf, PhaseOf

-----------------------------------------------------------------------------
(***************************************************************************)
(* Answers are those of the map.                                           *)
(***************************************************************************)

(* A write is answered from the table it is made on.                       *)
LEMMA WriteOutcome ==
  ASSUME IInv, NEW x \in Conns, WriteTable(x)
  PROVE  ans'[x] = KV!Outcome(table[Host(x)], msg[x])
<1> USE DEF KV!Outcome, KV!Answer, Answer
<1>1. ans = [y \in Conns |-> ans[y]]
  BY DEF IInv, TypeOK
<1>2. CASE ApplyPut(x)
  BY <1>1, <1>2 DEF ApplyPut
<1>3. CASE ApplyDel(x)
  BY <1>1, <1>3 DEF ApplyDel, table_get
<1> QED
  BY <1>2, <1>3 DEF WriteTable

(* A read that is finished is answered from the table it has read, also a  *)
(* listing that was put together in several steps.                         *)
LEMMA ReadOutcome ==
  ASSUME IInv, ListingIsCurrent, NEW x \in Conns, ReadStep(x), pc'[x] = "unlock"
  PROVE  ans'[x] = KV!Outcome(table[Host(x)], msg[x])
<1> USE DEF KV!Outcome, KV!Answer, Answer, KV!Listing, Listing, table_get
<1>0. ans = [y \in Conns |-> ans[y]] /\ pc = [y \in Conns |-> pc[y]] /\ Current(x)
  BY DEF IInv, TypeOK, ListingIsCurrent
<1>1. CASE ReadValue(x)
  BY <1>0, <1>1 DEF ReadValue
<1>2. CASE ReadSize(x)
  BY <1>0, <1>2, SameSize DEF ReadSize
<1>3. CASE CountKeys(x)
  BY <1>0, <1>3 DEF CountKeys, Goto
<1>4. CASE ReadKeys(x)
  <2>1. msg[x].op = "getkeys"
    BY <1>0, <1>4 DEF ReadKeys, Goto
  <2>2. ans'[x] = Answer(TRUE, Listing(listing[x].n, table_get_keys(table[Host(x)])))
    BY <1>0, <1>4, <2>1 DEF ReadKeys
  <2>3. listing[x].n = table_size(table[Host(x)])
    BY <1>0, <1>4 DEF ReadKeys, Current
  <2> QED
    BY <2>1, <2>2, <2>3, SameSize
<1>5. CASE ReadEntries(x)
  <2>1. msg[x].op = "gettable"
    BY <1>5, StageFacts DEF ReadEntries, StageOK
  <2>2. /\ listing[x].n = table_size(table[Host(x)])
        /\ listing[x].items = table_get_keys(table[Host(x)])
    BY <1>0, <1>5 DEF ReadEntries, Current
  <2>3. /\ \A k \in listing[x].items : table_get(table[Host(x)], k) # None
        /\ listing[x].n = Cardinality(listing[x].items)
    BY <2>2 DEF table_size, table_get_keys
  <2>4. ans'[x] = Answer(TRUE, Listing(listing[x].n,
                    [k \in listing[x].items |-> table_get(table[Host(x)], k)]))
    BY <1>0, <1>5, <2>3 DEF ReadEntries
  <2> QED
    BY <2>1, <2>2, <2>4, SameSize
<1> QED
  BY <1>1, <1>2, <1>3, <1>4, <1>5 DEF ReadStep

(* Before the head makes a write, no other write is beyond it: its table   *)
(* is the tail's.                                                          *)
LEMMA HeadWrites ==
  ASSUME IInv, NEW c \in Clients, pc[HeadConn(c)] = "write"
  PROVE  ~TailHasApplied /\ table[1] = table[N]
<1>1. writer[1] = HeadConn(c)
  BY NextLinkIdle, HostFacts
<1>2. \A u \in 2 .. N : pc[Link(u)] = "idle"
  BY <1>1, LinksIdle
<1>3. CASE N = 1
  BY <1>3 DEF TailHasApplied
<1>4. CASE N # 1
  <2>1. 1 \in Servers /\ N \in Servers /\ 1 < N
    BY <1>4, NAssumption DEF Servers
  <2>2. ~Lagging(1, N)
    BY <1>2 DEF Lagging
  <2> QED
    BY <1>2, <2>1, <2>2 DEF IInv, ReplicasLag, TailHasApplied, Finished
<1> QED
  BY <1>3, <1>4

(* Clients write at the head, server 1, and read at the tail, server N.    *)
LEMMA HostOfClients ==
  /\ \A c \in Clients : Host(HeadConn(c)) = 1 /\ Host(TailConn(c)) = N
  /\ N \in Servers /\ 1 \in Servers /\ N \in Nat /\ N >= 1
BY HostFacts, NAssumption DEF Servers

(* The answer of the head stays right until the tail applies the write.    *)
LEMMA AnswerAheadStep == ASSUME LInv, [Next]_vars PROVE AnswerAhead'
<1> USE DEF LInv, IInv, TypeOK
<1> SUFFICES ASSUME NEW c \in Clients, pc'[HeadConn(c)] = "await", ~TailHasApplied'
             PROVE  ans'[HeadConn(c)] = KV!Outcome(table'[N], msg'[HeadConn(c)])
  BY DEF AnswerAhead
<1>0. HeadConn(c) \in Conns /\ HeadConn(c) \in ClientConns
  BY ClientConnFacts
<1>1. CASE UNCHANGED vars
  BY <1>1 DEF vars, AnswerAhead, TailHasApplied
<1>2. ASSUME NEW d \in Clients, (\E r \in Requests : ClientCall(d, r)) \/ ClientReturn(d)
      PROVE  ans'[HeadConn(c)] = KV!Outcome(table'[N], msg'[HeadConn(c)])
  <2>1. PICK x \in HeadConns \cup TailConns, l \in {"idle", "sent"}, r \in Requests \cup {NoRequest} :
          /\ pc' = [pc EXCEPT ![x] = l] /\ msg' = [msg EXCEPT ![x] = r] /\ x \in Conns
          /\ table' = table /\ pc[x] \in {"idle", "answered"}
    BY <1>2, ClientStepShape
  <2>2. x # HeadConn(c)
    BY <1>0, <2>1
  <2>3. pc[HeadConn(c)] = "await" /\ msg'[HeadConn(c)] = msg[HeadConn(c)]
    BY <1>0, <2>1, <2>2
  <2>4. TailHasApplied' <=> TailHasApplied
    BY <2>1, ClientConnFacts DEF TailHasApplied, ClientConns
  <2>5. ans'[HeadConn(c)] = ans[HeadConn(c)]
    BY <1>0, <1>2, <2>2, <2>3 DEF ClientCall, ClientReturn, TakeAnswer
  <2> QED
    BY <2>1, <2>3, <2>4, <2>5 DEF AnswerAhead
<1>3. ASSUME NEW x \in Conns, Serve(x), x = HeadConn(c)
      PROVE  ans'[HeadConn(c)] = KV!Outcome(table'[N], msg'[HeadConn(c)])
  <2>1. WriteTable(x)
    BY <1>3, ServeShape, ReadStepShape DEF Serve, LockWriter, ForwardReturns, UnlockWriter, LockReader,
       UnlockReader, SendAnswer, Goto
  <2>2. pc[x] = "write" /\ Host(x) = 1
    BY <1>3, <2>1, HostOfClients DEF WriteTable
  <2>3. 1 < N
    BY <1>3, <2>1, <2>2, WriteTableEffect, HostOfClients
  <2>4. table'[N] = table[N] /\ msg'[x] = msg[x]
    BY <1>0, <1>3, <2>1, <2>2, <2>3, WriteTableEffect, ServeShape, HostOfClients
  <2>5. table[1] = table[N]
    BY <1>3, <2>2, HeadWrites
  <2> QED
    BY <1>3, <2>1, <2>2, <2>4, <2>5, WriteOutcome
<1>4. ASSUME NEW x \in Conns, Serve(x), x # HeadConn(c)
      PROVE  ans'[HeadConn(c)] = KV!Outcome(table'[N], msg'[HeadConn(c)])
  <2>1. /\ pc[HeadConn(c)] = "await" /\ ans'[HeadConn(c)] = ans[HeadConn(c)]
        /\ msg'[HeadConn(c)] = msg[HeadConn(c)]
    BY <1>0, <1>4, ServeShape
  <2>2. ~(ForwardReturns(x) /\ x \in HeadConns)
    <3> SUFFICES ASSUME ForwardReturns(x), NEW d \in Clients, x = HeadConn(d) PROVE FALSE
      BY DEF HeadConns
    <3>1. pc[HeadConn(d)] = "await"
      BY DEF ForwardReturns
    <3> QED
      BY <1>4, <2>1, <3>1, OneWriteWaits
  <2>3. ~(WriteTable(x) /\ ~(Host(x) < N) /\ N # 1)
    <3> SUFFICES ASSUME WriteTable(x), ~(Host(x) < N), N # 1 PROVE FALSE
      OBVIOUS
    <3>1. Host(x) = N /\ x \notin TailConns
      BY NextLinkIdle, StageFacts, HostFacts, RequestKinds, HostOfClients DEF WriteTable, Servers
    <3>2. x = Link(N) /\ N \in 2 .. N
      BY <3>1, WriterConns
    <3>3. pc'[Link(N)] = "unlock"
      BY <3>2, WriteTableEffect
    <3> QED
      BY <3>2, <3>3, HostOfClients DEF TailHasApplied, Finished
  <2>4. ~TailHasApplied
    BY <1>4, <2>2, <2>3, TailHasAppliedFrame
  <2>5. table'[N] = table[N]
    <3>1. CASE WriteTable(x)
      <4>1. CASE Host(x) < N
        BY <3>1, <4>1, WriteTableEffect, HostOfClients
      <4>2. CASE N = 1
        BY <1>0, <2>1, <4>2, AwaitFacts, HostOfClients
      <4> QED
        BY <2>3, <3>1, <4>1, <4>2
    <3>2. CASE ~WriteTable(x)
      BY <1>4, <3>2, ReadStepShape DEF Serve, LockWriter, ForwardReturns, UnlockWriter, LockReader,
         UnlockReader, SendAnswer
    <3> QED
      BY <3>1, <3>2
  <2> QED
    BY <2>1, <2>4, <2>5 DEF AnswerAhead
<1> QED
  BY <1>1, <1>2, <1>3, <1>4 DEF Next

-----------------------------------------------------------------------------
(***************************************************************************)
(* Every step of a thread is a step of the map or none.                    *)
(***************************************************************************)

(* A thread that serves one client changes nothing for the others.         *)
LEMMA OtherClients ==
  ASSUME LInv, NEW c \in Clients, NEW x \in {HeadConn(c), TailConn(c)}, Serve(x)
  PROVE  \A d \in Clients \ {c} : Same(d)
<1> SUFFICES ASSUME NEW d \in Clients \ {c} PROVE Same(d)
  OBVIOUS
<1>1. x \in Conns /\ x # HeadConn(d) /\ x # TailConn(d)
  BY ClientConnFacts
<1>2. pc[HeadConn(d)] = "await" => (TailHasApplied' <=> TailHasApplied)
  <2> SUFFICES ASSUME pc[HeadConn(d)] = "await" PROVE TailHasApplied' <=> TailHasApplied
    OBVIOUS
  <2>1. ASSUME WriteTable(x) PROVE Host(x) < N \/ N = 1
    <3>1. pc[x] = "write" /\ msg[x] \in WriteRequests
      BY <1>1, <2>1, NextLinkIdle DEF LInv, WriteTable
    <3>2. x \notin TailConns
      BY <1>1, <3>1, StageFacts, RequestKinds DEF LInv
    <3>3. x = HeadConn(c)
      BY <3>2 DEF TailConns
    <3> QED
      BY <3>3, HostOfClients
  <2>2. ~(ForwardReturns(x) /\ x \in HeadConns)
    <3> SUFFICES ASSUME ForwardReturns(x), x \in HeadConns PROVE FALSE
      OBVIOUS
    <3>1. x = HeadConn(c)
      BY ClientConnFacts DEF HeadConns
    <3>2. pc[x] = "await"
      BY DEF ForwardReturns
    <3> QED
      BY <3>1, <3>2, OneWriteWaits DEF LInv
  <2> QED
    BY <1>1, <2>1, <2>2, TailHasAppliedFrame DEF LInv
<1> QED
  BY <1>1, <1>2, SameOthers DEF LInv

(* A write of a client takes effect at once where the chain is one server, *)
(* and later where the head has to repeat it.                              *)
LEMMA HeadWriteStep ==
  ASSUME LInv, NEW c \in Clients, NEW x \in {HeadConn(c), TailConn(c)}, WriteTable(x)
  PROVE  [KV!Next]_(KV!kvVars)
<1> USE DEF LInv, IInv, TypeOK
<1>0. x \in Conns /\ Serve(x)
  BY ClientConnFacts DEF Serve
<1>1. pc[x] = "write" /\ msg[x] \in WriteRequests
  BY <1>0, NextLinkIdle DEF WriteTable
<1>2. x = HeadConn(c) /\ Host(x) = 1
  <2>1. x \notin TailConns
    BY <1>0, <1>1, StageFacts, RequestKinds
  <2> QED
    BY <2>1, HostOfClients DEF TailConns
<1>3. PhaseOf(c) = "called"
  BY <1>1, <1>0, OwnView DEF HasEffect, Finished
<1>4. ReqOf(c) = msg[x] /\ ReqOf(c)' = msg[x] /\ ActiveConn(c)' = x
  BY <1>0, OwnView
<1>5. \A d \in Clients \ {c} : Same(d)
  BY <1>0, OtherClients
<1>6. CASE 1 < N
  <2>1. pc' = [pc EXCEPT ![x] = "await", ![Link(2)] = "sent"] /\ Link(2) # x
        /\ table' = [table EXCEPT ![1] = Effect(table[1], msg[x])]
    BY <1>0, <1>1, <1>2, <1>6, WriteTableEffect, NextLinkIdle
  <2>2. ~TailHasApplied'
    BY <1>0, <1>1, <1>2, <1>6, HeadWrites, TailHasAppliedFrame DEF ForwardReturns
  <2>3. PhaseOf(c)' = "called"
    BY <1>0, <2>1, <2>2, OwnView DEF HasEffect, Finished
  <2>4. Same(c)
    BY <1>3, <1>4, <2>3 DEF Same, ResOf
  <2>5. table'[N] = table[N]
    BY <1>6, <2>1, HostOfClients
  <2> QED
    BY <1>5, <2>4, <2>5, MapStutters
<1>7. CASE ~(1 < N)
  <2>0. N = 1
    BY <1>7, HostOfClients
  <2>1. pc' = [pc EXCEPT ![x] = "unlock"] /\ table' = [table EXCEPT ![1] = Effect(table[1], msg[x])]
    BY <1>0, <1>2, <1>7, WriteTableEffect
  <2>2. PhaseOf(c)' = "done"
    BY <1>0, <2>1, OwnView DEF HasEffect, Finished
  <2>3. ResOf(c)' = KV!Outcome(table[N], ReqOf(c))
    BY <1>0, <1>2, <1>4, <2>0, <2>2, WriteOutcome DEF ResOf
  <2>4. table'[N] = Effect(table[N], ReqOf(c)) /\ ReqOf(c).op \in Writes
    BY <1>1, <1>4, <2>0, <2>1, HostOfClients, RequestKinds
  <2> QED
    BY <1>3, <1>4, <1>5, <2>2, <2>3, <2>4, MapPerforms
<1> QED
  BY <1>6, <1>7

(* A read takes effect with its last look at the table of the tail.        *)
LEMMA TailReadStep ==
  ASSUME LInv, NEW c \in Clients, NEW x \in {HeadConn(c), TailConn(c)}, ReadStep(x)
  PROVE  [KV!Next]_(KV!kvVars)
<1> USE DEF LInv, IInv, TypeOK
<1>0. x \in Conns /\ Serve(x)
  BY ClientConnFacts DEF Serve
<1>1. PICK l \in {"keys", "entries", "unlock"} : pc' = [pc EXCEPT ![x] = l]
  BY <1>0, ReadStepShape
<1>2. /\ x \in TailConns /\ msg[x].op \in Reads /\ pc[x] \in {"read", "keys", "entries"}
      /\ table' = table
  BY <1>0, ReadStepShape
<1>3. x = TailConn(c) /\ Host(x) = N
  BY <1>2, ConnsApart, HostOfClients
<1>4. PhaseOf(c) = "called"
  BY <1>0, <1>2, OwnView DEF HasEffect, Finished
<1>5. ReqOf(c) = msg[x] /\ ReqOf(c)' = msg[x] /\ ActiveConn(c)' = x
  BY <1>0, OwnView
<1>6. \A d \in Clients \ {c} : Same(d)
  BY <1>0, OtherClients
<1>7. CASE l = "unlock"
  <2>1. pc'[x] = "unlock"
    BY <1>0, <1>1, <1>7
  <2>2. PhaseOf(c)' = "done"
    BY <1>0, <2>1, OwnView DEF HasEffect, Finished
  <2>3. ResOf(c)' = KV!Outcome(table[N], ReqOf(c))
    BY <1>0, <1>3, <1>5, <2>1, <2>2, ReadOutcome DEF ResOf
  <2>4. ReqOf(c).op \notin Writes
    BY <1>2, <1>5 DEF Reads, Writes
  <2> QED
    BY <1>2, <1>4, <1>5, <1>6, <2>2, <2>3, <2>4, MapPerforms
<1>8. CASE l # "unlock"
  <2>1. pc'[x] \in {"keys", "entries"}
    BY <1>0, <1>1, <1>8
  <2>2. PhaseOf(c)' = "called"
    BY <1>0, <2>1, OwnView DEF HasEffect, Finished
  <2>3. Same(c)
    BY <1>4, <1>5, <2>2 DEF Same, ResOf
  <2> QED
    BY <1>2, <1>6, <2>3, MapStutters
<1> QED
  BY <1>7, <1>8

(* Taking and releasing a lock, hearing from the next server and sending   *)
(* the answer are nothing to the map.                                      *)
LEMMA QuietStep ==
  ASSUME LInv, NEW c \in Clients, NEW x \in {HeadConn(c), TailConn(c)},
         \/ LockWriter(x) \/ LockReader(x) \/ ForwardReturns(x)
         \/ UnlockWriter(x) \/ UnlockReader(x) \/ SendAnswer(x)
  PROVE  UNCHANGED KV!kvVars
<1> USE DEF LInv, IInv, TypeOK
<1>0. x \in Conns /\ Serve(x)
  BY ClientConnFacts DEF Serve
<1>1. ReqOf(c) = msg[x] /\ ReqOf(c)' = msg[x] /\ ActiveConn(c) = x /\ ActiveConn(c)' = x
  BY <1>0, OwnView
<1>2. table' = table
  BY DEF LockWriter, LockReader, ForwardReturns, UnlockWriter, UnlockReader, SendAnswer
<1>3. ASSUME LockWriter(x) \/ LockReader(x) PROVE Same(c)
  <2>1. pc[x] = "sent" /\ pc'[x] \in {"write", "read"}
    BY <1>0, <1>3 DEF LockWriter, LockReader, Goto
  <2>2. PhaseOf(c) = "called" /\ PhaseOf(c)' = "called"
    BY <1>0, <2>1, OwnView DEF HasEffect, Finished
  <2> QED
    BY <1>1, <2>2 DEF Same, ResOf
<1>4. ASSUME ForwardReturns(x) PROVE Same(c)
  <2>1. /\ pc[x] = "await" /\ pc[Link(Host(x) + 1)] = "answered"
        /\ pc' = [pc EXCEPT ![x] = "unlock", ![Link(Host(x) + 1)] = "idle"]
        /\ ans' = [ans EXCEPT ![Link(Host(x) + 1)] = NoAnswer]
    BY <1>4 DEF ForwardReturns, TakeAnswer
  <2>2. Host(x) + 1 \in 2 .. N /\ Link(Host(x) + 1) # x /\ N > 1
    BY <1>0, <2>1, AwaitFacts, NAssumption
  <2>3. TailHasApplied
    BY <2>1, <2>2 DEF TailHasApplied, Finished
  <2>4. pc'[x] = "unlock" /\ ans'[x] = ans[x]
    BY <1>0, <2>1, <2>2
  <2>5. PhaseOf(c) = "done" /\ PhaseOf(c)' = "done"
    BY <1>0, <2>1, <2>3, <2>4, OwnView DEF HasEffect, Finished
  <2> QED
    BY <1>1, <2>4, <2>5 DEF Same, ResOf
<1>5. ASSUME UnlockWriter(x) \/ UnlockReader(x) \/ SendAnswer(x) PROVE Same(c)
  <2>1. pc[x] \in {"unlock", "send"}
    BY <1>5 DEF UnlockWriter, UnlockReader, SendAnswer
  <2>2. pc'[x] \in Finished /\ ans' = ans
    BY <1>0, <2>1, ServeShape
  <2>3. PhaseOf(c) = "done" /\ PhaseOf(c)' = "done"
    BY <1>0, <2>1, <2>2, OwnView DEF HasEffect, Finished
  <2> QED
    BY <1>1, <2>2, <2>3 DEF Same, ResOf
<1>6. Same(c)
  BY <1>3, <1>4, <1>5
<1> QED
  BY <1>0, <1>2, <1>6, OtherClients, MapStutters

(* Every server but the tail has one after it.                             *)
LEMMA BeforeTheTail == \A s \in 2 .. N : s # N => s < N
BY NAssumption

(* A thread on a link shows the clients nothing, except when the tail      *)
(* makes the write: that is the instant it takes effect.                   *)
LEMMA LinkStep ==
  ASSUME LInv, NEW s \in 2 .. N, NEW x \in Conns, x = Link(s), Serve(x)
  PROVE  [KV!Next]_(KV!kvVars)
<1> USE DEF LInv, IInv, TypeOK
<1>0. x \in Conns /\ Host(x) = s /\ x \notin HeadConns /\ x \notin TailConns
  BY HostFacts, ConnsApart
<1>1. \A d \in Clients : x # HeadConn(d) /\ x # TailConn(d)
  BY ClientConnFacts
<1>2. CASE WriteTable(x) /\ s = N
  <2>1. pc[Link(N)] = "write" /\ N > 1 /\ N \in 2 .. N
    BY <1>2, NAssumption DEF WriteTable
  <2>2. PICK c \in Clients : pc[HeadConn(c)] = "await" /\ msg[Link(N)] = msg[HeadConn(c)]
    BY <2>1, TailWrites
  <2>3. ~TailHasApplied
    BY <2>1, TailWrites
  <2>4. /\ pc' = [pc EXCEPT ![x] = "unlock"]
        /\ table' = [table EXCEPT ![N] = Effect(table[N], msg[x])]
        /\ msg[x] \in WriteRequests
    BY <1>0, <1>2, <2>1, WriteTableEffect
  <2>5. TailHasApplied'
    BY <1>0, <1>2, <2>1, <2>4 DEF TailHasApplied, Finished
  <2>6. /\ HeadConn(c) \in ClientConns
        /\ pc'[HeadConn(c)] = "await" /\ msg'[HeadConn(c)] = msg[HeadConn(c)]
        /\ ans'[HeadConn(c)] = ans[HeadConn(c)]
    BY <1>0, <1>1, <2>2, ServeShape, ClientConnFacts
  <2>7. ActiveConn(c) = HeadConn(c) /\ ActiveConn(c)' = HeadConn(c)
    BY <2>2, <2>6 DEF ActiveConn
  <2>8. PhaseOf(c) = "called" /\ PhaseOf(c)' = "done"
    BY <2>2, <2>3, <2>5, <2>6, <2>7 DEF PhaseOf, HasEffect, Finished
  <2>9. ReqOf(c) = msg[x] /\ ReqOf(c)' = ReqOf(c)
    BY <1>2, <2>2, <2>6, <2>7 DEF ReqOf
  <2>10. ResOf(c)' = KV!Outcome(table[N], ReqOf(c))
    BY <2>2, <2>3, <2>6, <2>7, <2>8 DEF ResOf, ReqOf, AnswerAhead
  <2>11. table'[N] = Effect(table[N], ReqOf(c)) /\ ReqOf(c).op \in Writes
    BY <2>4, <2>9, HostOfClients, RequestKinds
  <2>12. \A d \in Clients \ {c} : Same(d)
    BY <1>0, <1>1, <2>2, OneWriteWaits, SameOthers
  <2> QED
    BY <2>8, <2>9, <2>10, <2>11, <2>12, MapPerforms
<1>3. CASE ~(WriteTable(x) /\ s = N)
  <2>1. WriteTable(x) => Host(x) < N
    <3> SUFFICES ASSUME WriteTable(x) PROVE Host(x) < N
      OBVIOUS
    <3>1. s # N
      BY <1>3
    <3> QED
      BY <1>0, <3>1, BeforeTheTail
  <2>2. TailHasApplied' <=> TailHasApplied
    <3>1. WriteTable(x) => Host(x) < N \/ N = 1
      BY <2>1
    <3>2. ForwardReturns(x) => x \notin HeadConns
      BY <1>0
    <3> QED
      BY <1>0, <3>1, <3>2, TailHasAppliedFrame
  <2>3. \A d \in Clients : Same(d)
    BY <1>0, <1>1, <2>2, SameOthers
  <2>4. table'[N] = table[N]
    <3>1. CASE WriteTable(x)
      BY <1>0, <2>1, <3>1, WriteTableEffect, HostOfClients
    <3>2. CASE ~WriteTable(x)
      BY <1>0, <3>2, ReadStepShape DEF Serve, LockWriter, ForwardReturns, UnlockWriter, LockReader,
         UnlockReader, SendAnswer
    <3> QED
      BY <3>1, <3>2
  <2> QED
    BY <2>3, <2>4, MapStutters
<1> QED
  BY <1>2, <1>3

(* Every step of every thread.                                             *)
LEMMA ServeStep ==
  ASSUME LInv, NEW x \in Conns, Serve(x)
  PROVE  [KV!Next]_(KV!kvVars)
<1>1. ASSUME NEW c \in Clients, x \in {HeadConn(c), TailConn(c)} PROVE [KV!Next]_(KV!kvVars)
  <2>1. CASE WriteTable(x)
    BY <1>1, <2>1, HeadWriteStep
  <2>2. CASE ReadStep(x)
    BY <1>1, <2>2, TailReadStep
  <2>3. CASE \/ LockWriter(x) \/ LockReader(x) \/ ForwardReturns(x)
             \/ UnlockWriter(x) \/ UnlockReader(x) \/ SendAnswer(x)
    BY <1>1, <2>3, QuietStep
  <2> QED
    BY <2>1, <2>2, <2>3 DEF Serve
<1>2. ASSUME NEW s \in 2 .. N, x = Link(s) PROVE [KV!Next]_(KV!kvVars)
  BY <1>2, LinkStep
<1> QED
  BY <1>1, <1>2 DEF Conns, HeadConns, TailConns, Links

-----------------------------------------------------------------------------
(***************************************************************************)
(* Every step of a client is a call or a return of the map.                *)
(***************************************************************************)

(* A client's own step is on its own connections.                          *)
LEMMA ClientSameOthers ==
  ASSUME LInv, NEW c \in Clients, NEW x \in {HeadConn(c), TailConn(c)}, NEW l, NEW r,
         pc' = [pc EXCEPT ![x] = l], msg' = [msg EXCEPT ![x] = r],
         \A y \in ClientConns \ {x} : ans'[y] = ans[y]
  PROVE  \A d \in Clients \ {c} : Same(d)
<1> USE DEF LInv, IInv, TypeOK
<1> SUFFICES ASSUME NEW d \in Clients \ {c} PROVE Same(d)
  OBVIOUS
<1>1. /\ pc'[HeadConn(d)] = pc[HeadConn(d)] /\ pc'[TailConn(d)] = pc[TailConn(d)]
      /\ msg'[HeadConn(d)] = msg[HeadConn(d)] /\ msg'[TailConn(d)] = msg[TailConn(d)]
      /\ ans'[HeadConn(d)] = ans[HeadConn(d)] /\ ans'[TailConn(d)] = ans[TailConn(d)]
  BY ClientConnFacts
<1>2. \A u \in 2 .. N : pc'[Link(u)] = pc[Link(u)]
  BY ClientConnFacts
<1>3. TailHasApplied' <=> TailHasApplied
  BY <1>2 DEF TailHasApplied
<1>4. ActiveConn(d)' = ActiveConn(d) /\ ActiveConn(d) \in {HeadConn(d), TailConn(d)}
  BY <1>1 DEF ActiveConn
<1>5. PhaseOf(d)' = PhaseOf(d)
  BY <1>1, <1>3, <1>4 DEF PhaseOf, HasEffect
<1> QED
  BY <1>1, <1>4, <1>5 DEF Same, ReqOf, ResOf

(* A client calls when both its connections are idle.                      *)
LEMMA CallStep ==
  ASSUME LInv, NEW c \in Clients, NEW r \in Requests, ClientCall(c, r)
  PROVE  KV!Next
<1> USE DEF LInv, IInv, TypeOK
<1> DEFINE x == Route(c, r)
<1>1. x \in {HeadConn(c), TailConn(c)} /\ x \in Conns
  BY HostFacts DEF Route
<1>2. /\ pc[HeadConn(c)] = "idle" /\ pc[TailConn(c)] = "idle"
      /\ pc' = [pc EXCEPT ![x] = "sent"] /\ msg' = [msg EXCEPT ![x] = r]
      /\ UNCHANGED <<table, ans>>
  BY DEF ClientCall, SendRequest
<1>3. PhaseOf(c) = "idle"
  BY <1>2 DEF PhaseOf, ActiveConn
<1>4. ActiveConn(c)' = x /\ pc'[x] = "sent" /\ msg'[x] = r
  <2>1. pc'[x] = "sent" /\ msg'[x] = r
    BY <1>1, <1>2
  <2>2. \A y \in {HeadConn(c), TailConn(c)} \ {x} : pc'[y] = "idle"
    BY <1>1, <1>2, HostFacts
  <2> QED
    BY <1>1, <2>1, <2>2 DEF ActiveConn
<1>5. PhaseOf(c)' = "called" /\ ReqOf(c)' = r
  BY <1>4 DEF PhaseOf, HasEffect, Finished, ReqOf
<1>6. \A d \in Clients \ {c} : Same(d)
  BY <1>1, <1>2, ClientSameOthers
<1> QED
  BY <1>2, <1>3, <1>5, <1>6, MapCalls

(* A client returns with the answer of the call that has taken effect.     *)
LEMMA ReturnStep ==
  ASSUME LInv, NEW c \in Clients, ClientReturn(c)
  PROVE  KV!Next
<1> USE DEF LInv, IInv, TypeOK
<1>1. PICK x \in {HeadConn(c), TailConn(c)} :
        /\ pc[x] = "answered"
        /\ pc' = [pc EXCEPT ![x] = "idle"]
        /\ msg' = [msg EXCEPT ![x] = NoRequest] /\ ans' = [ans EXCEPT ![x] = NoAnswer]
        /\ table' = table
  BY DEF ClientReturn, TakeAnswer, Goto
<1>2. HeadConn(c) \in Conns /\ TailConn(c) \in Conns /\ HeadConn(c) # TailConn(c)
  BY HostFacts, ClientConnFacts
<1>3. ActiveConn(c) = x /\ \A y \in {HeadConn(c), TailConn(c)} : y # x => pc[y] = "idle"
  BY <1>1 DEF OneCall, ActiveConn
<1>4. PhaseOf(c) = "done"
  BY <1>1, <1>3 DEF PhaseOf, HasEffect, Finished
<1>5. \A y \in {HeadConn(c), TailConn(c)} : pc'[y] = "idle" /\ msg'[y] = NoRequest
  <2>1. \A y \in {HeadConn(c), TailConn(c)} : pc[y] = "idle" => msg[y] = NoRequest
    BY <1>2 DEF StageOK
  <2> QED
    BY <1>1, <1>2, <1>3, <2>1
<1>6. PhaseOf(c)' = "idle" /\ ReqOf(c)' = NoRequest
  BY <1>5 DEF PhaseOf, ActiveConn, ReqOf
<1>7. \A d \in Clients \ {c} : Same(d)
  BY <1>1, ClientSameOthers, ClientConnFacts
<1> QED
  BY <1>1, <1>4, <1>6, <1>7, MapReturns

-----------------------------------------------------------------------------
(* The chain starts as an empty map that nobody uses.                      *)
LEMMA InitMap == ASSUME Init PROVE LInv /\ KV!Init
<1> USE DEF Init
<1>1. \A c \in Clients : pc[HeadConn(c)] = "idle" /\ pc[TailConn(c)] = "idle"
                         /\ msg[HeadConn(c)] = NoRequest /\ msg[TailConn(c)] = NoRequest
  BY HostFacts
<1>2. OneCall /\ AnswerAhead
  BY <1>1 DEF OneCall, AnswerAhead
<1>3. ListingIsCurrent
  BY DEF ListingIsCurrent, Current
<1>4. \A c \in Clients : PhaseOf(c) = "idle" /\ msg[ActiveConn(c)] = NoRequest
  BY <1>1 DEF PhaseOf, ActiveConn
<1>5. KV!Init
  BY <1>4, SameOperators, HostOfClients DEF KV!Init
<1> QED
  BY <1>2, <1>3, <1>5, InitInvariant DEF LInv

(* Every step of the chain keeps its invariant and is a step of the map.   *)
LEMMA NextMap == ASSUME LInv, [Next]_vars PROVE LInv' /\ [KV!Next]_(KV!kvVars)
<1>1. LInv'
  <2>1. IInv'
    BY TypeStep, LockStep, NestStep, LagStep, HeadStep DEF LInv, IInv
  <2>2. ListingIsCurrent'
    BY ListingStep DEF LInv
  <2> QED
    BY <2>1, <2>2, OneCallStep, AnswerAheadStep DEF LInv
<1>2. [KV!Next]_(KV!kvVars)
  <2>1. CASE UNCHANGED vars
    <3>1. \A c \in Clients : Same(c)
      BY <2>1 DEF vars, Same, ReqOf, ResOf, PhaseOf, ActiveConn, HasEffect, TailHasApplied
    <3> QED
      BY <2>1, <3>1, MapStutters DEF vars
  <2>2. CASE Next
    BY <2>2, CallStep, ReturnStep, ServeStep DEF Next
  <2> QED
    BY <2>1, <2>2
<1> QED
  BY <1>1, <1>2

(* To its clients the chain of any length is one map: every put, del, get, *)
(* size, getkeys and gettable takes effect at one instant between its call *)
(* and its return, however the threads of the servers interleave.          *)
THEOREM LinearizableCorrect == Spec => Linearizable
<1>1. Init => LInv /\ KV!Init
  BY InitMap
<1>2. LInv /\ [Next]_vars => LInv' /\ [KV!Next]_(KV!kvVars)
  BY NextMap
<1> QED
  BY <1>1, <1>2, PTL DEF Spec, Linearizable, KV!Spec
=============================================================================
