----------------------------- MODULE WireFormat -----------------------------
(***************************************************************************)
(* One connection between a stub and a server, byte by byte: what          *)
(* write_all and read_all do with partial writes and reads, the length in  *)
(* front of each message with its width and its sign, the buffer of the    *)
(* server, and a connection that is cut at any byte.  The bytes themselves *)
(* do not matter, only how many there are and which length was announced.  *)
(*                                                                         *)
(*   client  idle -> wlen -> wmsg -> rlen -> rmsg -> idle   (or crashed)   *)
(*   server          rlen -> rmsg -> invoke -> wlen -> wmsg -> rlen        *)
(***************************************************************************)
EXTENDS Integers

CONSTANTS
  Short,     \* sizeof(short): the bytes of a length
  Mod,       \* 2^16: lengths are sent modulo this
  Half,      \* 2^15: from here on a short is negative
  MaxMsg,    \* MAX_MSG: the buffer of network_receive
  Requests,  \* sizes of packed requests: a line of 1024 bytes and what is packed around it
  Answers,   \* sizes of packed answers: with the table, without bound
  Capacity   \* bytes the connection holds in each direction

ASSUME WireAssumption ==
  /\ Short \in Nat \ {0} /\ Half \in Nat \ {0} /\ Mod = 2 * Half
  /\ MaxMsg \in Nat /\ MaxMsg < Mod
  /\ Requests \subseteq 1 .. MaxMsg /\ Answers \subseteq Nat \ {0}
  /\ Capacity \in Nat \ {0}

VARIABLES
  client, server,    \* where network_send_receive and thread_for_client are
  cleft, sleft,      \* l of the write_all or read_all they are in
  up, down,          \* bytes on the way to the server, to the client
  uplen, downlen,    \* the length announced in that direction
  req, ans,          \* out_len of the client, packed size of the answer
  len,               \* the length the server has read, or sends
  cut,               \* the connection is broken
  result             \* what network_send_receive has returned

toServer == <<up, uplen>>
toClient == <<down, downlen>>
clientVars == <<client, cleft, req, result>>
serverVars == <<server, sleft, ans, len>>
vars == <<clientVars, serverVars, toServer, toClient, cut>>

Init ==
  /\ client = "idle" /\ server = "rlen"
  /\ cleft = 0 /\ sleft = Short
  /\ up = 0 /\ down = 0 /\ uplen = 0 /\ downlen = 0
  /\ req = 0 /\ ans = 0 /\ len = 0
  /\ cut = FALSE
  /\ result = "none"

(* A 16-bit length as the client reads it, into a short.                   *)
Signed(n) == IF n >= Half THEN n - Mod ELSE n

-----------------------------------------------------------------------------
(***************************************************************************)
(* network_send_receive.                                                   *)
(***************************************************************************)

(* On a connection that is cut the first write fails.                      *)
Call(n) ==
  /\ client = "idle" /\ ~cut
  /\ client' = "wlen" /\ cleft' = Short
  /\ req'    = n
  /\ uplen'  = n % Mod
  /\ result' = "none"
  /\ UNCHANGED <<serverVars, up, toClient, cut>>

(* One write() of write_all, and what follows when it was the last one.    *)
ClientWrites(k) ==
  /\ client \in {"wlen", "wmsg"} /\ ~cut
  /\ k <= cleft /\ up + k <= Capacity
  /\ up' = up + k
  /\ \/ k < cleft /\ cleft' = cleft - k /\ UNCHANGED client
     \/ k = cleft /\ client = "wlen" /\ client' = "wmsg" /\ cleft' = req
     \/ k = cleft /\ client = "wmsg" /\ client' = "rlen" /\ cleft' = Short
  /\ UNCHANGED <<req, result, serverVars, uplen, toClient, cut>>

(* Slip: what one read() gave is the message.                              *)
ClientReadsOnce(k) ==
  /\ client \in {"rlen", "rmsg"}
  /\ k <= cleft /\ k <= down
  /\ down' = down - k
  /\ \/ client = "rmsg" /\ client' = "idle" /\ cleft' = 0
        /\ result' = IF k = ans THEN "whole" ELSE "part"
     \/ k < cleft /\ client = "rlen" /\ cleft' = cleft - k /\ UNCHANGED <<client, result>>
     \/ k = cleft /\ client = "rlen" /\ Signed(downlen) > 0
        /\ client' = "rmsg" /\ cleft' = downlen /\ UNCHANGED result
     \/ k = cleft /\ client = "rlen" /\ Signed(downlen) = 0
        /\ client' = "idle" /\ cleft' = 0 /\ result' = "part"
     \/ k = cleft /\ client = "rlen" /\ Signed(downlen) < 0
        /\ client' = "crashed" /\ cleft' = 0 /\ result' = "crash"
  /\ UNCHANGED <<req, serverVars, toServer, downlen, cut>>

(* A read() in the message: less than the rest, or the rest.  A message    *)
(* shorter than the answer is a part of it; it may or may not unpack.      *)
ClientReads(k) ==
  /\ client \in {"rlen", "rmsg"}
  /\ k <= cleft /\ k <= down
  /\ down' = down - k
  /\ \/ k < cleft /\ cleft' = cleft - k /\ UNCHANGED <<client, result>>
     \/ k = cleft /\ client = "rmsg" /\ client' = "idle" /\ cleft' = 0
        /\ result' = IF downlen = ans THEN "whole" ELSE "part"
     \/ k = cleft /\ client = "rlen" /\ Signed(downlen) > 0
        /\ client' = "rmsg" /\ cleft' = downlen /\ UNCHANGED result
     \/ k = cleft /\ client = "rlen" /\ Signed(downlen) = 0
        /\ client' = "idle" /\ cleft' = 0 /\ result' = "part"
     \/ k = cleft /\ client = "rlen" /\ Signed(downlen) < 0
        /\ client' = "crashed" /\ cleft' = 0 /\ result' = "crash"
  /\ UNCHANGED <<req, serverVars, toServer, downlen, cut>>

(* Slip: the end of the connection is not looked for while reading.        *)
ClientFailsWriting ==
  /\ cut
  /\ client \in {"wlen", "wmsg"}
  /\ client' = "idle" /\ cleft' = 0 /\ result' = "error"
  /\ UNCHANGED <<req, serverVars, toServer, toClient, cut>>

(* write() fails, or read() is at the end of the connection: NULL.         *)
ClientFails ==
  /\ cut
  /\ client \in {"wlen", "wmsg"} \/ (client \in {"rlen", "rmsg"} /\ down = 0)
  /\ client' = "idle" /\ cleft' = 0 /\ result' = "error"
  /\ UNCHANGED <<req, serverVars, toServer, toClient, cut>>

-----------------------------------------------------------------------------
(***************************************************************************)
(* network_receive and network_send.  The length written is the low 16     *)
(* bits of the packed size, and afterwards so is len.                      *)
(***************************************************************************)

(* Slip: what one read() gave is the message.                              *)
ServerReadsOnce(k) ==
  /\ server \in {"rlen", "rmsg"}
  /\ k <= sleft /\ k <= up
  /\ up' = up - k
  /\ \/ k < sleft /\ server = "rlen" /\ sleft' = sleft - k /\ UNCHANGED <<server, len>>
     \/ k = sleft /\ server = "rlen" /\ server' = "rmsg" /\ sleft' = uplen /\ len' = uplen
     \/ server = "rmsg" /\ server' = "invoke" /\ sleft' = 0 /\ len' = k
  /\ UNCHANGED <<clientVars, ans, uplen, toClient, cut>>

ServerReads(k) ==
  /\ server \in {"rlen", "rmsg"}
  /\ k <= sleft /\ k <= up
  /\ up' = up - k
  /\ \/ k < sleft /\ sleft' = sleft - k /\ UNCHANGED <<server, len>>
     \/ k = sleft /\ server = "rlen" /\ server' = "rmsg" /\ sleft' = uplen /\ len' = uplen
     \/ k = sleft /\ server = "rmsg" /\ server' = "invoke" /\ sleft' = 0 /\ UNCHANGED len
  /\ UNCHANGED <<clientVars, ans, uplen, toClient, cut>>

Send(n) ==
  /\ server = "invoke"
  /\ server'  = "wlen" /\ sleft' = Short
  /\ ans'     = n
  /\ len'     = n % Mod
  /\ downlen' = n % Mod
  /\ UNCHANGED <<clientVars, toServer, down, cut>>

ServerWrites(k) ==
  /\ server \in {"wlen", "wmsg"} /\ ~cut
  /\ k <= sleft /\ down + k <= Capacity
  /\ down' = down + k
  /\ \/ k < sleft /\ sleft' = sleft - k /\ UNCHANGED server
     \/ k = sleft /\ server = "wlen" /\ len > 0 /\ server' = "wmsg" /\ sleft' = len
     \/ k = sleft /\ (server = "wmsg" \/ len = 0) /\ server' = "rlen" /\ sleft' = Short
  /\ UNCHANGED <<clientVars, ans, len, toServer, downlen, cut>>

ServerFails ==
  /\ cut
  /\ server \in {"wlen", "wmsg"} \/ (server \in {"rlen", "rmsg"} /\ up = 0)
  /\ server' = "closed"
  /\ UNCHANGED <<clientVars, sleft, ans, len, toServer, toClient, cut>>

(* Either end, or the network, ends the connection; what is on the way is  *)
(* lost from some byte on.  Both ends notice when they read or write next. *)
Cut ==
  /\ ~cut
  /\ cut' = TRUE
  /\ \E u \in 0 .. up, d \in 0 .. down : up' = u /\ down' = d
  /\ UNCHANGED <<clientVars, serverVars, uplen, downlen>>

-----------------------------------------------------------------------------
Chunks == 1 .. Capacity

ClientStep == ClientFails \/ \E k \in Chunks : ClientWrites(k) \/ ClientReads(k)
ServerStep == ServerFails \/ (\E n \in Answers : Send(n)) \/ \E k \in Chunks : ServerReads(k) \/ ServerWrites(k)

Next == (\E n \in Requests : Call(n)) \/ ClientStep \/ ServerStep \/ Cut

Spec == Init /\ [][Next]_vars

(* Both threads run; nobody has to call, and nothing has to be cut.        *)
FairSpec == Spec /\ WF_vars(ClientStep) /\ WF_vars(ServerStep)

-----------------------------------------------------------------------------
Results == {"none", "whole", "part", "error", "crash"}

TypeOK ==
  /\ client \in {"idle", "wlen", "wmsg", "rlen", "rmsg", "crashed"}
  /\ server \in {"rlen", "rmsg", "invoke", "wlen", "wmsg", "closed"}
  /\ cleft \in Nat /\ sleft \in Nat
  /\ up \in 0 .. Capacity /\ down \in 0 .. Capacity
  /\ uplen \in 0 .. Mod - 1 /\ downlen \in 0 .. Mod - 1 /\ len \in 0 .. Mod - 1
  /\ req \in Requests \cup {0} /\ ans \in Answers \cup {0}
  /\ cut \in BOOLEAN /\ result \in Results

(* Between two calls nothing is left on the connection and the server      *)
(* waits for a length: no part of an answer, cut short or not, is ever     *)
(* taken for the beginning of the next one.                                *)
InStep ==
  client = "idle" /\ ~cut =>
    up = 0 /\ down = 0 /\ server = "rlen" /\ sleft = Short

(* What the server unpacks is the request, whatever pieces it came in.     *)
RequestsWhole == server = "invoke" => len = req

(* An answer whose length fits a short is returned whole or not at all,    *)
(* whatever pieces it comes in and wherever the connection is cut.         *)
AnswersFit == result \in {"part", "crash"} => ans >= Half

(* What client_network.h 32 promises of every answer: network_send_receive *)
(* returns the message, or NULL.  It does not hold: from 2^15 bytes on the *)
(* client takes the length for a negative one and reads from no buffer, or *)
(* takes a part for the message.                                           *)
MessageOrNull == result \in {"none", "whole", "error"}

(* A call returns, also when the connection is cut at any byte.            *)
CallsReturn == (client # "idle") ~> (client \in {"idle", "crashed"})
=============================================================================
