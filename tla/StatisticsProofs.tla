-------------------------- MODULE StatisticsProofs --------------------------
(***************************************************************************)
(* The statistics are exact, for any number of threads, any times and any  *)
(* width of int.  The inductive invariant IInv says besides the types who  *)
(* is counted and what each thread has loaded; a thread in a section for   *)
(* writing is alone there, so that what it has loaded stays current.       *)
(***************************************************************************)
EXTENDS Statistics, FiniteSetTheorems, TLAPS

(* A client is counted from the store of its inc to the store of its dec.  *)
Counted(t) ==
  \/ pc[t] = "ready" \/ pc[t] \in Reading
  \/ purpose[t] = "inc" /\ pc[t] = "unlock"
  \/ purpose[t] \in {"count", "stats"} /\ pc[t] # "off"
  \/ purpose[t] = "dec" /\ pc[t] \in {"wait", "load", "store"}

Total == [connected |-> Cardinality(clients), operations |-> Wrap(counted), time |-> Wrap(total)]

(* The inductive invariant: besides the types, who is counted, what the    *)
(* fields hold, that the lock excludes, and what each thread has loaded.   *)
FieldsOK ==
  /\ connected_clients = Cardinality(clients)
  /\ operations_counter = Wrap(counted)
  /\ processing_time = Wrap(total)

Exclusion == writer # Nobody => readers = {}

LoadedOK(t) ==
  /\ pc[t] = "store" => loaded[t] = Total
  /\ pc[t] = "store2" => purpose[t] = "count" /\ loaded[t].operations = Wrap(counted)
  /\ pc[t] \in Reading => purpose[t] = "stats"
  /\ pc[t] \in {"read2", "read3", "answer"} => loaded[t].connected = Total.connected
  /\ pc[t] \in {"read3", "answer"} => loaded[t].operations = Total.operations
  /\ pc[t] = "answer" => loaded[t].time = Total.time

IInv ==
  /\ TypeOK
  /\ Exclusion
  /\ FieldsOK
  /\ clients = {t \in Threads : Counted(t)}
  /\ \A t \in Threads : LoadedOK(t)

-----------------------------------------------------------------------------
(* The value an int takes is an integer again.                             *)
LEMMA WrapType == \A n \in Int : Wrap(n) \in Int
  BY StatisticsAssumption DEF Wrap

(* Division: quotient and remainder of an integer.                         *)
LEMMA DivMod ==
  ASSUME NEW a \in Int, NEW m \in Nat \ {0}
  PROVE  (a \div m) \in Int /\ a % m \in 0 .. m - 1 /\ a = m * (a \div m) + (a % m)
  BY SMT

(* A product that is smaller than its factor is 0.                         *)
LEMMA SmallProduct ==
  ASSUME NEW m \in Nat \ {0}, NEW k \in Int, m * k < m, m * k > -m
  PROVE  k = 0
<1>1. k < 1
  <2>1. k >= 1 => m * k >= m
    BY SMT
  <2> QED
    BY <2>1
<1>2. k > -1
  <2>1. k <= -1 => m * k <= -m
    BY SMT
  <2> QED
    BY <2>1
<1> QED
  BY <1>1, <1>2

(* The remainder is the only one.                                          *)
LEMMA Remainder ==
  ASSUME NEW m \in Nat \ {0}, NEW q \in Int, NEW r \in 0 .. m - 1
  PROVE  (m * q + r) % m = r
<1> DEFINE a == m * q + r
           s == a % m
           k == a \div m
<1>1. a \in Int
  BY SMT
<1>2. k \in Int /\ s \in 0 .. m - 1 /\ a = m * k + s
  BY <1>1, DivMod
<1> HIDE DEF s, k
<1>3. m * (q - k) = s - r
  <2>1. m * (q - k) = m * q - m * k
    BY <1>2, SMT
  <2>2. m * q \in Int /\ m * k \in Int
    BY <1>2, SMT
  <2> QED
    BY <2>1, <2>2, <1>2
<1>4. q - k = 0
  BY <1>2, <1>3, SmallProduct
<1>5. s = r
  BY <1>2, <1>3, <1>4
<1> QED
  BY <1>5 DEF s

(* A multiple more does not change the remainder.                          *)
LEMMA ModSum ==
  ASSUME NEW a \in Int, NEW b \in Int, NEW m \in Nat \ {0}
  PROVE  ((a % m) + b) % m = (a + b) % m
<1> DEFINE q == a \div m
           c == (a % m) + b
           k == c \div m
           r == c % m
<1>1. q \in Int /\ a % m \in Int /\ a = m * q + (a % m)
  BY DivMod
<1>2. c \in Int
  BY <1>1
<1>3. k \in Int /\ r \in 0 .. m - 1 /\ c = m * k + r
  BY <1>2, DivMod
<1>4. a + b = m * q + c
  <2>1. m * q \in Int
    BY <1>1, SMT
  <2> QED
    BY <1>1, <2>1
<1> HIDE DEF q, c, k, r
<1>5. a + b = m * (q + k) + r
  <2>1. m * q \in Int /\ m * k \in Int /\ m * (q + k) = m * q + m * k
    BY <1>1, <1>3, SMT
  <2> QED
    BY <2>1, <1>3, <1>4
<1>6. (a + b) % m = r
  <2> DEFINE p == q + k
  <2>1. p \in Int
    BY <1>1, <1>3
  <2> HIDE DEF p
  <2>2. (m * p + r) % m = r
    BY <2>1, <1>3, Remainder
  <2> QED
    BY <2>2, <1>5 DEF p
<1> QED
  BY <1>6 DEF r, c

(* Wrapping a part of a sum before the sum is wrapped changes nothing.     *)
LEMMA WrapSum == ASSUME NEW n \in Int, NEW e \in Int PROVE Wrap(Wrap(n) + e) = Wrap(n + e)
<1> DEFINE m == 2 * Half
           a == n + Half
<1>1. m \in Nat \ {0} /\ a \in Int /\ Half \in Int
  BY StatisticsAssumption
<1>2. ((a % m) + e) % m = (a + e) % m
  BY <1>1, ModSum
<1>3. a % m \in Int
  BY <1>1, DivMod
<1> HIDE DEF m
<1>4. (((a % m) - Half) + e) + Half = (a % m) + e
  BY <1>1, <1>3
<1>5. (n + e) + Half = a + e
  BY <1>1
<1> QED
  BY <1>2, <1>4, <1>5 DEF Wrap, m

-----------------------------------------------------------------------------
LEMMA InitIInv == Init => IInv
<1> SUFFICES ASSUME Init PROVE IInv
  OBVIOUS
<1>1. TypeOK
  BY StatisticsAssumption DEF Init, TypeOK, Zero, Record, Labels, Writing, Reading
<1>2. FieldsOK
  <2>1. Cardinality({}) = 0
    BY FS_EmptySet
  <2>2. Wrap(0) = 0
    <3> DEFINE m == 2 * Half
    <3>1. m \in Nat \ {0} /\ Half \in 0 .. m - 1 /\ m * 0 + Half = Half
      BY StatisticsAssumption
    <3> HIDE DEF m
    <3>2. Half % m = Half
      BY <3>1, Remainder
    <3> QED
      BY <3>1, <3>2 DEF Wrap, m
  <2> QED
    BY <2>1, <2>2 DEF Init, FieldsOK
<1>3. clients = {t \in Threads : Counted(t)}
  BY DEF Init, Counted, Reading
<1>4. \A t \in Threads : LoadedOK(t)
  BY DEF Init, LoadedOK, Reading
<1>5. Exclusion
  BY DEF Init, Exclusion
<1> QED
  BY <1>1, <1>2, <1>3, <1>4, <1>5 DEF IInv

LEMMA ArriveIInv == ASSUME IInv, NEW t \in Threads, Arrive(t) PROVE IInv'
<1> USE DEF Arrive, Want, From, stats, lockVars, ghostVars
<1>1. TypeOK'
  BY StatisticsAssumption DEF IInv, TypeOK, Labels, Writing, Reading, Record
<1>2. FieldsOK'
  BY DEF IInv, FieldsOK
<1>3. (clients = {u \in Threads : Counted(u)})'
  BY DEF IInv, TypeOK, Counted, Labels, Writing, Reading
<1>4. (\A u \in Threads : LoadedOK(u))'
  BY DEF IInv, TypeOK, Exclusion, LoadedOK, Total, FieldsOK, Labels, Writing, Reading, Record
<1>5. Exclusion'
  BY DEF IInv, TypeOK, Exclusion, Writing, Reading
<1> QED
  BY <1>1, <1>2, <1>3, <1>4, <1>5 DEF IInv

LEMMA DepartIInv == ASSUME IInv, NEW t \in Threads, Depart(t) PROVE IInv'
<1> USE DEF Depart, Want, From, stats, lockVars, ghostVars
<1>1. TypeOK'
  BY StatisticsAssumption DEF IInv, TypeOK, Labels, Writing, Reading, Record
<1>2. FieldsOK'
  BY DEF IInv, FieldsOK
<1>3. (clients = {u \in Threads : Counted(u)})'
  BY DEF IInv, TypeOK, Counted, Labels, Writing, Reading
<1>4. (\A u \in Threads : LoadedOK(u))'
  BY DEF IInv, TypeOK, Exclusion, LoadedOK, Total, FieldsOK, Labels, Writing, Reading, Record
<1>5. Exclusion'
  BY DEF IInv, TypeOK, Exclusion, Writing, Reading
<1> QED
  BY <1>1, <1>2, <1>3, <1>4, <1>5 DEF IInv

LEMMA AskStatsIInv == ASSUME IInv, NEW t \in Threads, AskStats(t) PROVE IInv'
<1> USE DEF AskStats, Want, From, stats, lockVars, ghostVars
<1>1. TypeOK'
  BY StatisticsAssumption DEF IInv, TypeOK, Labels, Writing, Reading, Record
<1>2. FieldsOK'
  BY DEF IInv, FieldsOK
<1>3. (clients = {u \in Threads : Counted(u)})'
  BY DEF IInv, TypeOK, Counted, Labels, Writing, Reading
<1>4. (\A u \in Threads : LoadedOK(u))'
  BY DEF IInv, TypeOK, Exclusion, LoadedOK, Total, FieldsOK, Labels, Writing, Reading, Record
<1>5. Exclusion'
  BY DEF IInv, TypeOK, Exclusion, Writing, Reading
<1> QED
  BY <1>1, <1>2, <1>3, <1>4, <1>5 DEF IInv

LEMMA OperationIInv == ASSUME IInv, NEW t \in Threads, Operation(t) PROVE IInv'
<1> USE DEF Operation, Want, From, stats, lockVars, ghostVars
<1>1. TypeOK'
  BY StatisticsAssumption DEF IInv, TypeOK, Labels, Writing, Reading, Record
<1>2. FieldsOK'
  BY DEF IInv, FieldsOK
<1>3. (clients = {u \in Threads : Counted(u)})'
  BY DEF IInv, TypeOK, Counted, Labels, Writing, Reading
<1>4. (\A u \in Threads : LoadedOK(u))'
  BY DEF IInv, TypeOK, Exclusion, LoadedOK, Total, FieldsOK, Labels, Writing, Reading, Record
<1>5. Exclusion'
  BY DEF IInv, TypeOK, Exclusion, Writing, Reading
<1> QED
  BY <1>1, <1>2, <1>3, <1>4, <1>5 DEF IInv

LEMMA LockWriterIInv == ASSUME IInv, NEW t \in Threads, LockWriter(t) PROVE IInv'
<1> USE DEF LockWriter, From, stats, lockVars, ghostVars
<1>1. TypeOK'
  BY StatisticsAssumption DEF IInv, TypeOK, Labels, Writing, Reading, Record
<1>2. FieldsOK'
  BY DEF IInv, FieldsOK
<1>3. (clients = {u \in Threads : Counted(u)})'
  BY DEF IInv, TypeOK, Counted, Labels, Writing, Reading
<1>4. (\A u \in Threads : LoadedOK(u))'
  BY DEF IInv, TypeOK, Exclusion, LoadedOK, Total, FieldsOK, Labels, Writing, Reading, Record
<1>5. Exclusion'
  BY DEF IInv, TypeOK, Exclusion, Writing, Reading
<1> QED
  BY <1>1, <1>2, <1>3, <1>4, <1>5 DEF IInv

LEMMA LoadIInv == ASSUME IInv, NEW t \in Threads, Load(t) PROVE IInv'
<1> USE DEF Load, From, stats, lockVars, ghostVars
<1>1. TypeOK'
  BY StatisticsAssumption DEF IInv, TypeOK, Labels, Writing, Reading, Record
<1>2. FieldsOK'
  BY DEF IInv, FieldsOK
<1>3. (clients = {u \in Threads : Counted(u)})'
  BY DEF IInv, TypeOK, Counted, Labels, Writing, Reading
<1>4. (\A u \in Threads : LoadedOK(u))'
  BY DEF IInv, TypeOK, Exclusion, LoadedOK, Total, FieldsOK, Labels, Writing, Reading, Record
<1>5. Exclusion'
  BY DEF IInv, TypeOK, Exclusion, Writing, Reading
<1> QED
  BY <1>1, <1>2, <1>3, <1>4, <1>5 DEF IInv

(* Who holds the lock for writing is alone in the sections.                *)
LEMMA Alone ==
  ASSUME IInv, NEW t \in Threads, pc[t] \in Writing, NEW u \in Threads, u # t
  PROVE  writer = t /\ readers = {} /\ pc[u] \in {"off", "ready", "wait"}
  BY StatisticsAssumption DEF IInv, TypeOK, Exclusion, Labels, Writing, Reading

(* Times are integers.                                                     *)
LEMMA ElapsedType == ASSUME IInv, NEW t \in Threads PROVE elapsed[t] \in Int
<1>1. elapsed[t] \in Elapsed \cup {0}
  <2>1. elapsed \in [Threads -> Elapsed \cup {0}]
    BY DEF IInv, TypeOK
  <2> QED
    BY <2>1
<1>2. \A e \in Elapsed : e \in Int
  BY StatisticsAssumption
<1> QED
  BY <1>1, <1>2

LEMMA IncreaseIInv == ASSUME IInv, NEW t \in Threads, Increase(t) PROVE IInv'
<1> USE DEF Increase, From, stats, lockVars, ghostVars
<1>0. pc[t] \in Writing /\ \A u \in Threads \ {t} : pc[u] \in {"off", "ready", "wait"}
  BY Alone DEF Writing
<1>1. TypeOK'
  BY StatisticsAssumption DEF IInv, TypeOK, Labels, Writing, Reading, Record
<1>2. FieldsOK'
  <2>1. loaded[t] = Total /\ IsFiniteSet(clients)
    <3>1. clients \subseteq Threads
      BY DEF IInv, TypeOK
    <3> QED
      BY <3>1, StatisticsAssumption, FS_Subset DEF IInv, LoadedOK
  <2>2. t \notin clients
    BY DEF IInv, Counted, Reading
  <2>3. Cardinality(clients') = Cardinality(clients) + 1
    BY <2>1, <2>2, FS_AddElement
  <2> QED
    BY <2>1, <2>3 DEF IInv, FieldsOK, Total
<1>3. (clients = {u \in Threads : Counted(u)})'
  BY DEF IInv, TypeOK, Counted, Labels, Writing, Reading
<1>4. (\A u \in Threads : LoadedOK(u))'
  <2> SUFFICES ASSUME NEW u \in Threads PROVE LoadedOK(u)'
    OBVIOUS
  <2>1. CASE u = t
    BY <1>0, <2>1 DEF IInv, TypeOK, LoadedOK, Labels, Reading, Total, Record
  <2>2. CASE u # t
    BY <1>0, <2>2 DEF IInv, TypeOK, LoadedOK, Labels, Reading
  <2> QED
    BY <2>1, <2>2
<1>5. Exclusion'
  BY DEF IInv, TypeOK, Exclusion, Writing, Reading
<1> QED
  BY <1>1, <1>2, <1>3, <1>4, <1>5 DEF IInv

LEMMA DecreaseIInv == ASSUME IInv, NEW t \in Threads, Decrease(t) PROVE IInv'
<1> USE DEF Decrease, From, stats, lockVars, ghostVars
<1>0. pc[t] \in Writing /\ \A u \in Threads \ {t} : pc[u] \in {"off", "ready", "wait"}
  BY Alone DEF Writing
<1>1. TypeOK'
  BY StatisticsAssumption DEF IInv, TypeOK, Labels, Writing, Reading, Record
<1>2. FieldsOK'
  <2>1. loaded[t] = Total /\ IsFiniteSet(clients)
    <3>1. clients \subseteq Threads
      BY DEF IInv, TypeOK
    <3> QED
      BY <3>1, StatisticsAssumption, FS_Subset DEF IInv, LoadedOK
  <2>2. t \in clients
    BY DEF IInv, Counted, Reading
  <2>3. Cardinality(clients') = Cardinality(clients) - 1
    BY <2>1, <2>2, FS_RemoveElement
  <2> QED
    BY <2>1, <2>3 DEF IInv, FieldsOK, Total
<1>3. (clients = {u \in Threads : Counted(u)})'
  BY DEF IInv, TypeOK, Counted, Labels, Writing, Reading
<1>4. (\A u \in Threads : LoadedOK(u))'
  <2> SUFFICES ASSUME NEW u \in Threads PROVE LoadedOK(u)'
    OBVIOUS
  <2>1. CASE u = t
    BY <1>0, <2>1 DEF IInv, TypeOK, LoadedOK, Labels, Reading, Total, Record
  <2>2. CASE u # t
    BY <1>0, <2>2 DEF IInv, TypeOK, LoadedOK, Labels, Reading
  <2> QED
    BY <2>1, <2>2
<1>5. Exclusion'
  BY DEF IInv, TypeOK, Exclusion, Writing, Reading
<1> QED
  BY <1>1, <1>2, <1>3, <1>4, <1>5 DEF IInv

LEMMA AddTimeIInv == ASSUME IInv, NEW t \in Threads, AddTime(t) PROVE IInv'
<1> USE DEF AddTime, From, stats, lockVars, ghostVars
<1>0. pc[t] \in Writing /\ \A u \in Threads \ {t} : pc[u] \in {"off", "ready", "wait"}
  BY Alone DEF Writing
<1>1. TypeOK'
  <2>1. elapsed[t] \in Int /\ loaded[t].time \in Int /\ total \in Int
    BY ElapsedType DEF IInv, TypeOK, Record
  <2>2. processing_time' \in Int /\ total' \in Int
    BY <2>1, WrapType
  <2> QED
    BY <2>2 DEF IInv, TypeOK, Labels, Writing, Reading
<1>2. FieldsOK'
  <2>1. loaded[t].time = Wrap(total) /\ elapsed[t] \in Int /\ total \in Int
    <3>1. loaded[t] = Total
      BY DEF IInv, LoadedOK
    <3> QED
      BY <3>1, ElapsedType DEF IInv, TypeOK, Total
  <2>2. processing_time' = Wrap(total + elapsed[t])
    BY <2>1, WrapSum
  <2> QED
    BY <2>2 DEF IInv, FieldsOK
<1>3. (clients = {u \in Threads : Counted(u)})'
  BY DEF IInv, TypeOK, Counted, Labels, Writing, Reading
<1>4. (\A u \in Threads : LoadedOK(u))'
  <2> SUFFICES ASSUME NEW u \in Threads PROVE LoadedOK(u)'
    OBVIOUS
  <2>1. CASE u = t
    <3>1. loaded[t] = Total
      BY DEF IInv, LoadedOK
    <3>2. loaded[t].operations = Wrap(counted)
      BY <3>1 DEF Total
    <3>3. pc'[t] = "store2" /\ loaded' = loaded /\ counted' = counted /\ purpose' = purpose
      BY DEF IInv, TypeOK
    <3> QED
      BY <2>1, <3>2, <3>3 DEF LoadedOK, Reading
  <2>2. CASE u # t
    BY <1>0, <2>2 DEF IInv, TypeOK, LoadedOK, Labels, Reading
  <2> QED
    BY <2>1, <2>2
<1>5. Exclusion'
  BY DEF IInv, TypeOK, Exclusion, Writing, Reading
<1> QED
  BY <1>1, <1>2, <1>3, <1>4, <1>5 DEF IInv

LEMMA CountOperationIInv == ASSUME IInv, NEW t \in Threads, CountOperation(t) PROVE IInv'
<1> USE DEF CountOperation, From, stats, lockVars, ghostVars
<1>0. pc[t] \in Writing /\ \A u \in Threads \ {t} : pc[u] \in {"off", "ready", "wait"}
  BY Alone DEF Writing
<1>2. FieldsOK'
  <2>1. loaded[t].operations = Wrap(counted) /\ counted \in Int
    BY DEF IInv, LoadedOK, TypeOK
  <2>2. Wrap(Wrap(counted) + 1) = Wrap(counted + 1)
    BY <2>1, WrapSum
  <2> QED
    BY <2>1, <2>2 DEF IInv, FieldsOK
<1>1. TypeOK'
  <2>1. counted \in Nat
    BY DEF IInv, TypeOK
  <2>2. operations_counter' \in Int
    BY <1>2, <2>1, WrapType DEF FieldsOK
  <2> QED
    BY <2>2, StatisticsAssumption DEF IInv, TypeOK, Labels, Writing, Reading, Record
<1>3. (clients = {u \in Threads : Counted(u)})'
  <2>1. purpose[t] = "count"
    BY DEF IInv, LoadedOK
  <2> QED
    BY <2>1 DEF IInv, TypeOK, Counted, Labels, Writing, Reading
<1>4. (\A u \in Threads : LoadedOK(u))'
  <2> SUFFICES ASSUME NEW u \in Threads PROVE LoadedOK(u)'
    OBVIOUS
  <2>1. CASE u = t
    BY <1>0, <2>1 DEF IInv, TypeOK, LoadedOK, Labels, Reading, Total, Record
  <2>2. CASE u # t
    BY <1>0, <2>2 DEF IInv, TypeOK, LoadedOK, Labels, Reading
  <2> QED
    BY <2>1, <2>2
<1>5. Exclusion'
  BY DEF IInv, TypeOK, Exclusion, Writing, Reading
<1> QED
  BY <1>1, <1>2, <1>3, <1>4, <1>5 DEF IInv

LEMMA UnlockWriterIInv == ASSUME IInv, NEW t \in Threads, UnlockWriter(t) PROVE IInv'
<1> USE DEF UnlockWriter, From, stats, lockVars, ghostVars
<1>1. TypeOK'
  BY StatisticsAssumption DEF IInv, TypeOK, Labels, Writing, Reading, Record, Zero
<1>2. FieldsOK'
  BY DEF IInv, FieldsOK
<1>3. (clients = {u \in Threads : Counted(u)})'
  BY DEF IInv, TypeOK, Counted, Labels, Writing, Reading
<1>4. (\A u \in Threads : LoadedOK(u))'
  BY DEF IInv, TypeOK, Exclusion, LoadedOK, Total, FieldsOK, Labels, Writing, Reading, Record
<1>5. Exclusion'
  BY DEF IInv, TypeOK, Exclusion, Writing, Reading
<1> QED
  BY <1>1, <1>2, <1>3, <1>4, <1>5 DEF IInv

LEMMA LockReaderIInv == ASSUME IInv, NEW t \in Threads, LockReader(t) PROVE IInv'
<1> USE DEF LockReader, From, stats, lockVars, ghostVars
<1>1. TypeOK'
  BY StatisticsAssumption DEF IInv, TypeOK, Labels, Writing, Reading, Record
<1>2. FieldsOK'
  BY DEF IInv, FieldsOK
<1>3. (clients = {u \in Threads : Counted(u)})'
  BY DEF IInv, TypeOK, Counted, Labels, Writing, Reading
<1>4. (\A u \in Threads : LoadedOK(u))'
  BY DEF IInv, TypeOK, Exclusion, LoadedOK, Total, FieldsOK, Labels, Writing, Reading, Record
<1>5. Exclusion'
  BY DEF IInv, TypeOK, Exclusion, Writing, Reading
<1> QED
  BY <1>1, <1>2, <1>3, <1>4, <1>5 DEF IInv

LEMMA ReadClientsIInv == ASSUME IInv, NEW t \in Threads, ReadClients(t) PROVE IInv'
<1> USE DEF ReadClients, Read, From, stats, lockVars, ghostVars
<1>1. TypeOK'
  BY StatisticsAssumption DEF IInv, TypeOK, Labels, Writing, Reading, Record
<1>2. FieldsOK'
  BY DEF IInv, FieldsOK
<1>3. (clients = {u \in Threads : Counted(u)})'
  BY DEF IInv, TypeOK, Counted, Labels, Writing, Reading
<1>4. (\A u \in Threads : LoadedOK(u))'
  <2> SUFFICES ASSUME NEW u \in Threads PROVE LoadedOK(u)'
    OBVIOUS
  <2>1. CASE u = t
    <3>1. purpose[t] = "stats"
      BY DEF IInv, LoadedOK, Reading
    <3>2. loaded[t] \in Record
      BY DEF IInv, TypeOK
    <3>3. loaded'[t].connected = connected_clients
      BY <3>2 DEF IInv, TypeOK, Record
    <3>4. pc'[t] = "read2"
      BY DEF IInv, TypeOK
    <3>5. connected_clients = Total'.connected
      BY DEF IInv, FieldsOK, Total
    <3> QED
      BY <2>1, <3>1, <3>3, <3>4, <3>5 DEF LoadedOK, Reading
  <2>2. CASE u # t
    BY <2>2 DEF IInv, TypeOK, LoadedOK, Labels, Reading, Total
  <2> QED
    BY <2>1, <2>2
<1>5. Exclusion'
  BY DEF IInv, TypeOK, Exclusion, Writing, Reading
<1> QED
  BY <1>1, <1>2, <1>3, <1>4, <1>5 DEF IInv

LEMMA ReadOperationsIInv == ASSUME IInv, NEW t \in Threads, ReadOperations(t) PROVE IInv'
<1> USE DEF ReadOperations, Read, From, stats, lockVars, ghostVars
<1>1. TypeOK'
  BY StatisticsAssumption DEF IInv, TypeOK, Labels, Writing, Reading, Record
<1>2. FieldsOK'
  BY DEF IInv, FieldsOK
<1>3. (clients = {u \in Threads : Counted(u)})'
  BY DEF IInv, TypeOK, Counted, Labels, Writing, Reading
<1>4. (\A u \in Threads : LoadedOK(u))'
  BY DEF IInv, TypeOK, Exclusion, LoadedOK, Total, FieldsOK, Labels, Writing, Reading, Record
<1>5. Exclusion'
  BY DEF IInv, TypeOK, Exclusion, Writing, Reading
<1> QED
  BY <1>1, <1>2, <1>3, <1>4, <1>5 DEF IInv

LEMMA ReadTimeIInv == ASSUME IInv, NEW t \in Threads, ReadTime(t) PROVE IInv'
<1> USE DEF ReadTime, Read, From, stats, lockVars, ghostVars
<1>1. TypeOK'
  BY StatisticsAssumption DEF IInv, TypeOK, Labels, Writing, Reading, Record
<1>2. FieldsOK'
  BY DEF IInv, FieldsOK
<1>3. (clients = {u \in Threads : Counted(u)})'
  BY DEF IInv, TypeOK, Counted, Labels, Writing, Reading
<1>4. (\A u \in Threads : LoadedOK(u))'
  BY DEF IInv, TypeOK, Exclusion, LoadedOK, Total, FieldsOK, Labels, Writing, Reading, Record
<1>5. Exclusion'
  BY DEF IInv, TypeOK, Exclusion, Writing, Reading
<1> QED
  BY <1>1, <1>2, <1>3, <1>4, <1>5 DEF IInv

LEMMA UnlockReaderIInv == ASSUME IInv, NEW t \in Threads, UnlockReader(t) PROVE IInv'
<1> USE DEF UnlockReader, From, stats, lockVars, ghostVars
<1>1. TypeOK'
  BY StatisticsAssumption DEF IInv, TypeOK, Labels, Writing, Reading, Record, Zero
<1>2. FieldsOK'
  BY DEF IInv, FieldsOK
<1>3. (clients = {u \in Threads : Counted(u)})'
  BY DEF IInv, TypeOK, Counted, Labels, Writing, Reading
<1>4. (\A u \in Threads : LoadedOK(u))'
  BY DEF IInv, TypeOK, Exclusion, LoadedOK, Total, FieldsOK, Labels, Writing, Reading, Record
<1>5. Exclusion'
  BY DEF IInv, TypeOK, Exclusion, Writing, Reading
<1> QED
  BY <1>1, <1>2, <1>3, <1>4, <1>5 DEF IInv

-----------------------------------------------------------------------------
(* Every step keeps the invariant.                                         *)
LEMMA NextIInv == IInv /\ [Next]_vars => IInv'
<1> SUFFICES ASSUME IInv, [Next]_vars PROVE IInv'
  OBVIOUS
<1>1. CASE UNCHANGED vars
  BY <1>1 DEF vars, stats, lockVars, ghostVars, IInv, TypeOK, Exclusion, FieldsOK, Counted, LoadedOK, Total
<1>2. CASE Next
  <2> SUFFICES ASSUME NEW t \in Threads,
                      \/ Arrive(t) \/ Depart(t) \/ AskStats(t) \/ Operation(t)
                      \/ LockWriter(t) \/ Load(t) \/ Increase(t) \/ Decrease(t)
                      \/ AddTime(t) \/ CountOperation(t) \/ UnlockWriter(t)
                      \/ LockReader(t) \/ ReadClients(t) \/ ReadOperations(t) \/ ReadTime(t) \/ UnlockReader(t)
               PROVE  IInv'
    BY <1>2 DEF Next
  <2> QED
    BY ArriveIInv, DepartIInv, AskStatsIInv, OperationIInv, LockWriterIInv, LoadIInv, IncreaseIInv,
       DecreaseIInv, AddTimeIInv, CountOperationIInv, UnlockWriterIInv, LockReaderIInv,
       ReadClientsIInv, ReadOperationsIInv, ReadTimeIInv, UnlockReaderIInv
<1> QED
  BY <1>1, <1>2

(* The inductive invariant holds in every reachable state.                 *)
THEOREM InvariantHolds == Spec => []IInv
  BY InitIInv, NextIInv, PTL DEF Spec

(* Types, and the lock is held by just the threads in its sections.        *)
THEOREM TypeCorrect == Spec => []TypeOK
<1>1. IInv => TypeOK
  BY DEF IInv
<1> QED
  BY <1>1, InvariantHolds, PTL

(* inc_connected_clients, dec_connected_clients and the end of invoke lose *)
(* no update, and processing_time is the time of all operations, wrapped.  *)
THEOREM StatsExactCorrect == Spec => []StatsExact
<1>1. IInv => StatsExact
  BY DEF IInv, FieldsOK, StatsExact
<1> QED
  BY <1>1, InvariantHolds, PTL

(* The answer to OP_STATS is a snapshot of the three fields.               *)
THEOREM AnswerIsSnapshotCorrect == Spec => []AnswerIsSnapshot
<1>1. IInv => AnswerIsSnapshot
  <2> SUFFICES ASSUME IInv, NEW t \in Threads, pc[t] = "answer" PROVE loaded[t] = Total
    BY DEF AnswerIsSnapshot, Total
  <2>1. loaded[t] \in Record
    BY DEF IInv, TypeOK
  <2>2. /\ loaded[t].connected = Total.connected
        /\ loaded[t].operations = Total.operations
        /\ loaded[t].time = Total.time
    BY DEF IInv, LoadedOK, Reading
  <2> QED
    BY <2>1, <2>2 DEF Record, Total
<1> QED
  BY <1>1, InvariantHolds, PTL
=============================================================================
