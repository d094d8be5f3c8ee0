-------------------------- MODULE WireFormatProofs --------------------------
(***************************************************************************)
(* The framing of messages keeps both ends in step, for every width, size  *)
(* of message and capacity of the connection.  The invariant counts bytes: *)
(* what is on the way is what one side still has to read less what the     *)
(* other still has to write.  A connection that was cut keeps only what    *)
(* the lengths say, since nobody begins a call on it.                      *)
(***************************************************************************)
EXTENDS WireFormat, TLAPS

(* What is left to be written and read of a request, and of an answer.     *)
Unsent    == IF client = "wlen" THEN cleft + req ELSE IF client = "wmsg" THEN cleft ELSE 0
Unread    == IF server = "rlen" THEN sleft + req ELSE IF server = "rmsg" THEN sleft ELSE 0
Unwritten == IF server = "wlen" THEN sleft + len ELSE IF server = "wmsg" THEN sleft ELSE 0
Untaken   == IF client = "rlen" THEN cleft + downlen ELSE IF client = "rmsg" THEN cleft ELSE 0

Resting   == client = "idle" /\ server = "rlen" /\ sleft = Short /\ up = 0 /\ down = 0
Asking    == /\ client \in {"wlen", "wmsg", "rlen"} /\ server \in {"rlen", "rmsg", "invoke"}
             /\ client = "rlen" => cleft = Short
             /\ down = 0 /\ up = Unread - Unsent
Answering == /\ client \in {"rlen", "rmsg"} /\ server \in {"wlen", "wmsg", "rlen"}
             /\ server = "rlen" => sleft = Short
             /\ up = 0 /\ down = Untaken - Unwritten

Framing == ~cut => Resting \/ Asking \/ Answering \/ client = "crashed"

(* The loop variables of write_all and read_all while they loop.           *)
Left ==
  /\ client \in {"wlen", "rlen"} => cleft \in 1 .. Short
  /\ client = "wmsg" => cleft \in 1 .. req
  /\ client = "rmsg" => cleft \in 1 .. downlen
  /\ server \in {"rlen", "wlen"} => sleft \in 1 .. Short
  /\ server \in {"rmsg", "wmsg"} => sleft \in 1 .. len

Lengths ==
  /\ uplen = req /\ downlen = ans % Mod
  /\ client \in {"wlen", "wmsg", "rlen", "rmsg"} \/ up > 0 => req \in Requests
  /\ server \in {"rmsg", "invoke"} => len = req /\ req \in Requests
  /\ server \in {"wlen", "wmsg"} => len = downlen /\ ans \in Answers
  /\ client = "rmsg" => downlen \in 1 .. Half - 1

(* From the first byte of an answer on no other request is on its way; a   *)
(* call has no result before it returns.                                   *)
Answered ==
  \/ client = "rlen" /\ (down > 0 \/ cleft < Short)
  \/ client \in {"rmsg", "crashed"}
  \/ result \in {"whole", "part", "crash"}

AnswerLast ==
  /\ client \in {"wlen", "wmsg", "rlen", "rmsg"} => result = "none"
  /\ Answered => up = 0 /\ server \in {"wlen", "wmsg", "rlen", "closed"} /\ ans \in Answers

IInv == TypeOK /\ Framing /\ Left /\ Lengths /\ AnswerLast /\ AnswersFit

-----------------------------------------------------------------------------
(* The constants as integers, and the announced lengths of messages.       *)
LEMMA Widths ==
  /\ Short \in Nat /\ Short >= 1 /\ Half \in Nat /\ Half >= 1 /\ Mod \in Nat /\ Mod = 2 * Half
  /\ Capacity \in Nat /\ MaxMsg \in Nat /\ MaxMsg < Mod
  /\ \A n \in Requests : n \in Nat /\ n >= 1 /\ n <= MaxMsg /\ n % Mod = n
  /\ \A n \in Answers : n \in Nat /\ n >= 1
<1>1. /\ Short \in Nat /\ Short >= 1 /\ Half \in Nat /\ Half >= 1 /\ Mod \in Nat /\ Mod = 2 * Half
      /\ Capacity \in Nat /\ MaxMsg \in Nat /\ MaxMsg < Mod
  BY WireAssumption
<1>2. \A n \in Answers : n \in Nat /\ n >= 1
  BY WireAssumption
<1>3. ASSUME NEW n \in Requests PROVE n \in Nat /\ n >= 1 /\ n <= MaxMsg /\ n % Mod = n
  <2>1. n \in 1 .. MaxMsg
    BY WireAssumption
  <2>2. \A m \in Nat, k \in Nat : k < m => k % m = k
    OBVIOUS
  <2> QED
    BY <1>1, <2>1, <2>2
<1> QED
  BY <1>1, <1>2, <1>3

(* What is left of a length after the cut to 16 bits.                      *)
LEMMA CutLength ==
  ASSUME NEW n \in Nat
  PROVE  n % Mod \in 0 .. Mod - 1 /\ n % Mod <= n /\ (n % Mod = n <=> n < Mod)
<1>1. \A m \in Nat : m >= 1 => n % m \in 0 .. m - 1 /\ n % m <= n /\ (n < m => n % m = n)
  OBVIOUS
<1> QED
  BY <1>1, Widths

LEMMA InitIInv == Init => IInv
<1> SUFFICES ASSUME Init PROVE IInv
  OBVIOUS
<1> USE Widths DEF Init
<1>1. TypeOK
  <2>1. 0 \in 0 .. Capacity /\ 0 \in 0 .. Mod - 1
    OBVIOUS
  <2>2. up \in 0 .. Capacity /\ down \in 0 .. Capacity /\ uplen \in 0 .. Mod - 1 /\ downlen \in 0 .. Mod - 1 /\ len \in 0 .. Mod - 1
    BY <2>1
  <2> QED
    BY <2>2 DEF TypeOK, Results
<1>2. Framing /\ Left /\ AnswerLast /\ AnswersFit
  BY DEF Framing, Resting, Left, AnswerLast, Answered, AnswersFit
<1>3. Lengths
  <2>1. 0 % Mod = 0
    BY CutLength
  <2> QED
    BY <2>1 DEF Lengths
<1> QED
  BY <1>1, <1>2, <1>3 DEF IInv

(* Nobody calls on a connection that is out of step.                       *)
LEMMA CallStep == ASSUME IInv, NEW n \in Requests, Call(n) PROVE IInv'
<1> USE Widths DEF Call, clientVars, serverVars, toServer, toClient
<1>1. TypeOK'
  BY DEF IInv, TypeOK, Results, Left, Lengths
<1>2. Framing'
  BY DEF IInv, TypeOK, Framing, Resting, Asking, Answering, Unsent, Unread, Unwritten, Untaken, Left, Lengths
<1>3. Left'
  BY DEF IInv, TypeOK, Framing, Resting, Asking, Answering, Left, Lengths
<1>4. Lengths'
  <2>1. server = "rlen" /\ n % Mod = n
    BY DEF IInv, Framing, Resting, Asking, Answering
  <2> QED
    BY <2>1 DEF IInv, TypeOK, Left, Lengths
<1>5. AnswerLast'
  BY DEF IInv, TypeOK, Framing, Resting, Asking, Answering, Unsent, Unread, Unwritten, Untaken, Left, Lengths, AnswerLast, Answered
<1>6. AnswersFit'
  BY DEF IInv, TypeOK, AnswersFit, AnswerLast, Answered, Lengths
<1> QED
  BY <1>1, <1>2, <1>3, <1>4, <1>5, <1>6 DEF IInv

(* A client that writes is asked nothing: the answer is not there yet.     *)
LEMMA ClientWritesStep == ASSUME IInv, NEW k \in Chunks, ClientWrites(k) PROVE IInv'
<1> USE Widths DEF ClientWrites, Chunks, clientVars, serverVars, toServer, toClient
<1>1. TypeOK'
  BY DEF IInv, TypeOK, Results, Left, Lengths
<1>2. Framing'
  <2>1. Asking /\ cleft \in Nat /\ sleft \in Nat /\ req \in Nat /\ up \in Nat /\ req >= 1
    BY DEF IInv, TypeOK, Framing, Resting, Asking, Answering, Lengths
  <2>2. CASE k < cleft
    BY <2>1, <2>2 DEF Framing, Asking, Unsent, Unread, Unwritten, Untaken
  <2>3. CASE k = cleft /\ client = "wlen"
    BY <2>1, <2>3 DEF Framing, Asking, Unsent, Unread, Unwritten, Untaken
  <2>4. CASE k = cleft /\ client = "wmsg"
    BY <2>1, <2>4 DEF Framing, Asking, Unsent, Unread, Unwritten, Untaken
  <2> QED
    BY <2>2, <2>3, <2>4
<1>3. Left'
  BY DEF IInv, TypeOK, Framing, Resting, Asking, Answering, Left, Lengths
<1>4. Lengths'
  BY DEF IInv, TypeOK, Left, Lengths
<1>5. AnswerLast'
  <2>1. Asking
    BY DEF IInv, Framing, Resting, Asking, Answering
  <2>2. ~Answered /\ result = "none"
    BY <2>1 DEF IInv, TypeOK, Asking, AnswerLast, Answered
  <2>3. ~Answered'
    BY <2>1, <2>2 DEF Asking, Answered
  <2> QED
    BY <2>2, <2>3 DEF AnswerLast
<1>6. AnswersFit'
  BY DEF IInv, TypeOK, AnswersFit, AnswerLast, Answered, Lengths
<1> QED
  BY <1>1, <1>2, <1>3, <1>4, <1>5, <1>6 DEF IInv

(* What the client reads is an answer, the one to its request.             *)
LEMMA ClientReadsStep == ASSUME IInv, NEW k \in Chunks, ClientReads(k) PROVE IInv'
<1> USE Widths DEF ClientReads, Chunks, clientVars, serverVars, toServer, toClient
<1>0. /\ Answered /\ up = 0 /\ server \in {"wlen", "wmsg", "rlen", "closed"}
      /\ ans \in Answers /\ result = "none"
      /\ ~cut => Answering
      /\ cleft \in Nat /\ sleft \in Nat /\ down \in Nat /\ len \in Nat /\ downlen \in Nat
      /\ downlen = ans % Mod /\ downlen < Mod
  <2>1. Answered
    BY DEF IInv, TypeOK, Answered
  <2>2. ~cut => Answering
    BY DEF IInv, TypeOK, Framing, Resting, Asking, Answering
  <2> QED
    BY <2>1, <2>2 DEF IInv, TypeOK, AnswerLast, Lengths
<1>1. TypeOK'
  BY DEF IInv, TypeOK, Results, Left, Lengths
<1>2. Framing'
  <2> SUFFICES ASSUME ~cut PROVE Framing'
    BY DEF Framing
  <2>1. Answering /\ (server \in {"wlen", "wmsg"} => sleft >= 1 /\ len = downlen)
    BY <1>0 DEF IInv, Left, Lengths
  <2>2. CASE k < cleft
    BY <1>0, <2>1, <2>2 DEF Framing, Answering, Unsent, Unread, Unwritten, Untaken
  <2>3. CASE k = cleft /\ client = "rmsg"
    BY <1>0, <2>1, <2>3 DEF Framing, Resting, Answering, Unsent, Unread, Unwritten, Untaken
  <2>4. CASE k = cleft /\ client = "rlen" /\ Signed(downlen) > 0
    BY <1>0, <2>1, <2>4 DEF Framing, Answering, Unsent, Unread, Unwritten, Untaken
  <2>5. CASE k = cleft /\ client = "rlen" /\ Signed(downlen) = 0
    <3>1. downlen = 0
      BY <1>0, <2>5 DEF Signed
    <3> QED
      BY <1>0, <2>1, <2>5, <3>1 DEF Framing, Resting, Answering, Unsent, Unread, Unwritten, Untaken
  <2>6. CASE k = cleft /\ client = "rlen" /\ Signed(downlen) < 0
    BY <1>0, <2>6 DEF Framing, Signed
  <2> QED
    BY <2>2, <2>3, <2>4, <2>5, <2>6
<1>3. Left'
  BY <1>0 DEF IInv, Left, Signed
<1>4. Lengths'
  BY <1>0 DEF IInv, Lengths, Signed
<1>5. AnswerLast'
  BY <1>0 DEF AnswerLast, Answered
<1>6. AnswersFit'
  <2>0. ans \in Nat /\ ans >= 1 /\ (downlen = ans <=> ans < Mod)
    BY <1>0, CutLength
  <2>1. CASE UNCHANGED result
    BY <1>0, <2>1 DEF IInv, AnswersFit
  <2>2. CASE k = cleft /\ client = "rmsg"
    <3>1. downlen < Half
      BY <2>2 DEF IInv, Lengths
    <3> QED
      BY <1>0, <2>0, <2>2, <3>1 DEF AnswersFit
  <2>3. CASE k = cleft /\ client = "rlen" /\ Signed(downlen) = 0
    <3>1. downlen = 0
      BY <1>0, <2>3 DEF Signed
    <3> QED
      BY <1>0, <2>0, <2>3, <3>1 DEF AnswersFit
  <2>4. CASE k = cleft /\ client = "rlen" /\ Signed(downlen) < 0
    <3>1. downlen >= Half
      BY <1>0, <2>4 DEF Signed
    <3> QED
      BY <1>0, <2>0, <2>4, <3>1 DEF AnswersFit
  <2> QED
    BY <2>1, <2>2, <2>3, <2>4
<1> QED
  BY <1>1, <1>2, <1>3, <1>4, <1>5, <1>6 DEF IInv

(* An error ends the call; nothing follows on a connection that is cut.    *)
LEMMA ClientFailsStep == ASSUME IInv, ClientFails PROVE IInv'
<1> USE Widths DEF ClientFails, clientVars, serverVars, toServer, toClient
<1>1. TypeOK'
  BY DEF IInv, TypeOK, Results, Left, Lengths
<1>2. Framing'
  BY DEF IInv, TypeOK, Framing, Resting, Asking, Answering, Unsent, Unread, Unwritten, Untaken, Left, Lengths
<1>3. Left'
  BY DEF IInv, TypeOK, Framing, Resting, Asking, Answering, Left, Lengths
<1>4. Lengths'
  BY DEF IInv, TypeOK, Left, Lengths
<1>5. AnswerLast'
  BY DEF IInv, TypeOK, Framing, Resting, Asking, Answering, Unsent, Unread, Unwritten, Untaken, Left, Lengths, AnswerLast, Answered
<1>6. AnswersFit'
  BY DEF IInv, TypeOK, AnswersFit, AnswerLast, Answered, Lengths
<1> QED
  BY <1>1, <1>2, <1>3, <1>4, <1>5, <1>6 DEF IInv

(* What the server reads is a request.                                     *)
LEMMA ServerReadsStep == ASSUME IInv, NEW k \in Chunks, ServerReads(k) PROVE IInv'
<1> USE Widths DEF ServerReads, Chunks, clientVars, serverVars, toServer, toClient
<1>1. TypeOK'
  BY DEF IInv, TypeOK, Results, Left, Lengths
<1>2. Framing'
  <2> SUFFICES ASSUME ~cut PROVE Framing'
    BY DEF Framing
  <2>0. /\ up \in Nat /\ sleft \in Nat /\ cleft \in Nat /\ req \in Nat /\ uplen = req /\ up > 0
    BY DEF IInv, TypeOK, Lengths
  <2>1. client = "crashed" \/ Asking
    BY <2>0 DEF IInv, Framing, Resting, Asking, Answering
  <2>2. CASE client = "crashed"
    BY <2>2 DEF Framing
  <2>3. CASE Asking /\ k < sleft
    BY <2>0, <2>3 DEF Framing, Asking, Unsent, Unread, Unwritten, Untaken
  <2>4. CASE Asking /\ k = sleft /\ server = "rlen"
    BY <2>0, <2>4 DEF Framing, Asking, Unsent, Unread, Unwritten, Untaken
  <2>5. CASE Asking /\ k = sleft /\ server = "rmsg"
    BY <2>0, <2>5 DEF Framing, Asking, Unsent, Unread, Unwritten, Untaken
  <2> QED
    BY <2>1, <2>2, <2>3, <2>4, <2>5
<1>3. Left'
  BY DEF IInv, TypeOK, Framing, Resting, Asking, Answering, Left, Lengths
<1>4. Lengths'
  BY DEF IInv, TypeOK, Left, Lengths
<1>5. AnswerLast'
  BY DEF IInv, TypeOK, Framing, Resting, Asking, Answering, Unsent, Unread, Unwritten, Untaken, Left, Lengths, AnswerLast, Answered
<1>6. AnswersFit'
  BY DEF IInv, TypeOK, AnswersFit, AnswerLast, Answered, Lengths
<1> QED
  BY <1>1, <1>2, <1>3, <1>4, <1>5, <1>6 DEF IInv

(* The server answers when it has read the whole request, and the client   *)
(* has written it.                                                         *)
LEMMA SendStep == ASSUME IInv, NEW n \in Answers, Send(n) PROVE IInv'
<1> USE Widths DEF Send, clientVars, serverVars, toServer, toClient
<1>1. TypeOK'
  BY CutLength DEF IInv, TypeOK
<1>2. Framing'
  BY DEF IInv, TypeOK, Framing, Resting, Asking, Answering, Unsent, Unread, Unwritten, Untaken, Left, Lengths
<1>3. Left'
  <2>1. client # "rmsg"
    BY DEF IInv, AnswerLast, Answered
  <2> QED
    BY <2>1 DEF IInv, Left
<1>4. Lengths'
  <2>1. client # "rmsg"
    BY DEF IInv, AnswerLast, Answered
  <2> QED
    BY <2>1 DEF IInv, Lengths
<1>5. AnswerLast'
  BY DEF IInv, TypeOK, Framing, Resting, Asking, Answering, Unsent, Unread, Unwritten, Untaken, Left, Lengths, AnswerLast, Answered
<1>6. AnswersFit'
  BY DEF IInv, TypeOK, AnswersFit, AnswerLast, Answered, Lengths
<1> QED
  BY <1>1, <1>2, <1>3, <1>4, <1>5, <1>6 DEF IInv

(* The answer follows its length; with the last byte the server waits      *)
(* again.                                                                  *)
LEMMA ServerWritesStep == ASSUME IInv, NEW k \in Chunks, ServerWrites(k) PROVE IInv'
<1> USE Widths DEF ServerWrites, Chunks, clientVars, serverVars, toServer, toClient
<1>1. TypeOK'
  BY DEF IInv, TypeOK, Results, Left, Lengths
<1>2. Framing'
  <2>0. /\ down \in Nat /\ sleft \in Nat /\ cleft \in Nat /\ len \in Nat /\ len = downlen
    BY DEF IInv, TypeOK, Lengths
  <2>1. client = "crashed" \/ Answering
    BY DEF IInv, Framing, Resting, Asking, Answering
  <2>2. CASE client = "crashed"
    BY <2>2 DEF Framing
  <2>3. CASE Answering /\ k < sleft
    BY <2>0, <2>3 DEF Framing, Answering, Unsent, Unread, Unwritten, Untaken
  <2>4. CASE Answering /\ k = sleft /\ server = "wlen" /\ len > 0
    BY <2>0, <2>4 DEF Framing, Answering, Unsent, Unread, Unwritten, Untaken
  <2>5. CASE Answering /\ k = sleft /\ (server = "wmsg" \/ len = 0)
    BY <2>0, <2>5 DEF Framing, Answering, Unsent, Unread, Unwritten, Untaken
  <2> QED
    BY <2>1, <2>2, <2>3, <2>4, <2>5
<1>3. Left'
  BY DEF IInv, TypeOK, Framing, Resting, Asking, Answering, Left, Lengths
<1>4. Lengths'
  BY DEF IInv, TypeOK, Left, Lengths
<1>5. AnswerLast'
  <2>1. client = "crashed" \/ Answering
    BY DEF IInv, Framing, Resting, Asking, Answering
  <2>2. up = 0 /\ ans \in Answers
    BY <2>1 DEF IInv, Answering, Lengths, AnswerLast, Answered
  <2> QED
    BY <2>2 DEF IInv, AnswerLast, Answered
<1>6. AnswersFit'
  BY DEF IInv, TypeOK, AnswersFit, AnswerLast, Answered, Lengths
<1> QED
  BY <1>1, <1>2, <1>3, <1>4, <1>5, <1>6 DEF IInv

(* A thread that fails to read or write is gone.                           *)
LEMMA ServerFailsStep == ASSUME IInv, ServerFails PROVE IInv'
<1> USE Widths DEF ServerFails, clientVars, serverVars, toServer, toClient
<1>1. TypeOK'
  BY DEF IInv, TypeOK, Results, Left, Lengths
<1>2. Framing'
  BY DEF IInv, TypeOK, Framing, Resting, Asking, Answering, Unsent, Unread, Unwritten, Untaken, Left, Lengths
<1>3. Left'
  BY DEF IInv, TypeOK, Framing, Resting, Asking, Answering, Left, Lengths
<1>4. Lengths'
  BY DEF IInv, TypeOK, Left, Lengths
<1>5. AnswerLast'
  BY DEF IInv, TypeOK, Framing, Resting, Asking, Answering, Unsent, Unread, Unwritten, Untaken, Left, Lengths, AnswerLast, Answered
<1>6. AnswersFit'
  BY DEF IInv, TypeOK, AnswersFit, AnswerLast, Answered, Lengths
<1> QED
  BY <1>1, <1>2, <1>3, <1>4, <1>5, <1>6 DEF IInv

(* A cut takes bytes away, and nobody counts them any more.                *)
LEMMA CutStep == ASSUME IInv, Cut PROVE IInv'
<1> USE Widths DEF Cut, clientVars, serverVars, toServer, toClient
<1>1. TypeOK'
  BY DEF IInv, TypeOK, Results, Left, Lengths
<1>2. Framing'
  BY DEF IInv, TypeOK, Framing, Resting, Asking, Answering, Unsent, Unread, Unwritten, Untaken, Left, Lengths
<1>3. Left'
  BY DEF IInv, TypeOK, Framing, Resting, Asking, Answering, Left, Lengths
<1>4. Lengths'
  BY DEF IInv, TypeOK, Left, Lengths
<1>5. AnswerLast'
  BY DEF IInv, TypeOK, Framing, Resting, Asking, Answering, Unsent, Unread, Unwritten, Untaken, Left, Lengths, AnswerLast, Answered
<1>6. AnswersFit'
  BY DEF IInv, TypeOK, AnswersFit, AnswerLast, Answered, Lengths
<1> QED
  BY <1>1, <1>2, <1>3, <1>4, <1>5, <1>6 DEF IInv

LEMMA NextIInv == IInv /\ [Next]_vars => IInv'
<1> SUFFICES ASSUME IInv, [Next]_vars PROVE IInv'
  OBVIOUS
<1>1. CASE \E n \in Requests : Call(n)
  BY <1>1, CallStep
<1>2. CASE ClientStep
  BY <1>2, ClientFailsStep, ClientWritesStep, ClientReadsStep DEF ClientStep
<1>3. CASE ServerStep
  BY <1>3, ServerFailsStep, SendStep, ServerReadsStep, ServerWritesStep DEF ServerStep
<1>4. CASE Cut
  BY <1>4, CutStep
<1>5. CASE UNCHANGED vars
  BY <1>5 DEF vars, clientVars, serverVars, toServer, toClient, IInv, TypeOK,
     Framing, Resting, Asking, Answering, Unsent, Unread, Unwritten, Untaken,
     Left, Lengths, AnswerLast, Answered, AnswersFit
<1> QED
  BY <1>1, <1>2, <1>3, <1>4, <1>5 DEF Next

(* The bytes on the way are always what one side has still to read less    *)
(* what the other has still to write.                                      *)
THEOREM InvariantHolds == Spec => []IInv
<1> QED
  BY InitIInv, NextIInv, PTL DEF Spec

(* Every variable keeps its type: read_all and write_all (message.c) never *)
(* count below 0, and a length keeps its 16 bits.                          *)
THEOREM TypeCorrect == Spec => []TypeOK
<1>1. IInv => TypeOK
  BY DEF IInv
<1> QED
  BY <1>1, InvariantHolds, PTL

(* Between two calls of network_send_receive nothing is left on the        *)
(* connection, whatever the pieces and the sizes of what went before.      *)
THEOREM InStepCorrect == Spec => []InStep
<1>1. IInv => InStep
  BY DEF IInv, Framing, Resting, Asking, Answering, InStep
<1> QED
  BY <1>1, InvariantHolds, PTL

(* network_receive unpacks the request, all of it and nothing else, in     *)
(* whatever pieces it was written and read.                                *)
THEOREM RequestsWholeCorrect == Spec => []RequestsWhole
<1>1. IInv => RequestsWhole
  BY Widths DEF IInv, Lengths, RequestsWhole
<1> QED
  BY <1>1, InvariantHolds, PTL

(* An answer shorter than 2^15 bytes is returned whole or not at all, in   *)
(* whatever pieces it comes and wherever the connection is cut.  Without   *)
(* that bound it is false: the run long_answers shows it.                  *)
THEOREM AnswersFitCorrect == Spec => []AnswersFit
<1>1. IInv => AnswersFit
  BY DEF IInv
<1> QED
  BY <1>1, InvariantHolds, PTL
=============================================================================
