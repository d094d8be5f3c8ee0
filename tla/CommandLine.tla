----------------------------- MODULE CommandLine -----------------------------
(***************************************************************************)
(* What a client makes of a line that is typed, and of an address, while   *)
(* its callback of ZooKeeper takes an address apart at the same time.      *)
(* Both use strtok, which keeps one position for the whole process: the    *)
(* calls after the first go on wherever the last call of any thread ended, *)
(* and write the NUL after their token there.                              *)
(*                                                                         *)
(* A text is a sequence of words and of the characters that separate them; *)
(* Blank, End and Colon are the separators.  Words with no separator       *)
(* between them are one token, so that a string is a sequence too.         *)
(*                                                                         *)
(* Texts lie in buffers: the two addresses of main(), input of             *)
(* command_cicle, the same for every line, and the address of the callback *)
(* ("new").  A place is a buffer and an index; it is stale, with index 0,  *)
(* once its buffer was filled again or freed.                              *)
(***************************************************************************)
EXTENDS Naturals, Sequences, FiniteSets, FiniteSetsExt

CONSTANTS
  Main, Watcher,      \* the thread of main() and command_cicle(), that of chain_watcher()
  Blank, End, Colon,  \* ' ', '\n', ':'
  Nul,                \* '\0', written over a separator
  Words,              \* what may stand between them: "put" is also "p", and so on
  Lines,              \* what fgets may give: ends in End, and fits the buffer
  Addresses,          \* what get_node_content may give
  Junk                \* what is found in memory that was freed

Threads == {Main, Watcher}
Heap    == {"head", "tail", "new"}
Buffers == Heap \cup {"line"}

ASSUME CommandAssumption ==
  /\ Main # Watcher /\ Blank # End /\ Colon \notin {Blank, End}
  /\ {"put", "get", "del"} \subseteq Words /\ {Blank, End, Colon} \cap Words = {}
  /\ Nul \notin Words \cup {Blank, End, Colon}
  /\ \A s \in Lines : /\ s \in Seq(Words \cup {Blank, End, Colon}) /\ s # <<>>
                      /\ \A i \in 1 .. Len(s) : s[i] = End <=> i = Len(s)
  /\ \A s \in Addresses : \E host, port \in Words : s = <<host, Colon, port>>

VARIABLES
  memory,    \* memory[b]: what is in the buffer, empty when it is free
  position,  \* of strtok: where its next call goes on
  buffer,    \* buffer[t]: the one t takes apart, or will take apart next
  text,      \* text[t]: what was put into it, empty before and after
  parts,     \* parts[t]: the places of the tokens it has got
  verb,      \* the first token of the line, as it was compared
  inside,    \* inside[t]: the call of strtok it is in: token, where it ends, whether by a cut
  outcome,   \* outcome[t]: what came of the text
  disturbed  \* disturbed[t]: the other thread has moved the position under t, or written to its text

vars == <<memory, position, buffer, text, parts, verb, inside, outcome, disturbed>>

NULL    == [in |-> "nowhere", at |-> 0]
NoCall  == [token |-> NULL, end |-> NULL, cut |-> FALSE]
Nothing == [kind |-> "none", args |-> <<>>]

Init ==
  /\ memory   = [b \in Buffers |-> <<>>]
  /\ position = NULL
  /\ buffer   = [t \in Threads |-> IF t = Main THEN "head" ELSE "new"]
  /\ text     = [t \in Threads |-> <<>>]
  /\ parts    = [t \in Threads |-> <<>>]
  /\ verb     = <<>>
  /\ inside   = [t \in Threads |-> NoCall]
  /\ outcome  = [t \in Threads |-> Nothing]
  /\ disturbed = [t \in Threads |-> FALSE]

Idle(t)      == text[t] = <<>>
IsConnect(t) == buffer[t] # "line"

-----------------------------------------------------------------------------
(***************************************************************************)
(* strtok.                                                                 *)
(***************************************************************************)

(* The first place of s, from i on, where a member of chars is, or is not. *)
FirstIn(s, i, chars)  == Min({j \in i .. Len(s) : s[j] \in chars} \cup {Len(s) + 1})
FirstOut(s, i, chars) == Min({j \in i .. Len(s) : s[j] \notin chars} \cup {Len(s) + 1})

(* The string at a place: up to the next NUL.                              *)
String(mem, p) ==
  IF p = NULL THEN <<>>
  ELSE IF p.at = 0 THEN <<Junk>>
  ELSE SubSeq(mem[p.in], p.at, FirstIn(mem[p.in], p.at, {Nul}) - 1)

(* Where a place may be now.  What was input is input of the next line,    *)
(* and malloc gives freed memory to the next address: a stale place can be *)
(* anywhere in the text that is there, or behind it.                       *)
Now(p) ==
  IF p.at > 0 THEN {p}
  ELSE {p} \cup UNION {[in : {b}, at : 1 .. Len(memory[b])] : b \in IF p.in = "line" THEN {"line"} ELSE Heap}

(* How often strtok is called for the text, as far as is known by now.     *)
Calls(t) ==
  IF IsConnect(t) THEN 2
  ELSE IF parts[t] = <<>> THEN 1
  ELSE IF verb = <<"put">> THEN 3
  ELSE IF verb \in {<<"get">>, <<"del">>} THEN 2
  ELSE 1

Delimiters(t) ==
  IF IsConnect(t) THEN {Colon}
  ELSE IF parts[t] = <<>> \/ (verb = <<"put">> /\ Len(parts[t]) = 1) THEN {Blank, End}
  ELSE {End}

Finished(t) == Len(parts[t]) = Calls(t)
Begun(t)    == parts[t] # <<>> \/ inside[t] # NoCall

(* The position is loaded, by every call but the first for a text, and the *)
(* token is looked for; behind a text is nothing, or what was there before.*)
EnterStrtok(t) ==
  /\ ~Idle(t) /\ ~Finished(t) /\ inside[t] = NoCall
  /\ \E p \in IF parts[t] = <<>> THEN {[in |-> buffer[t], at |-> 1]} ELSE Now(position) :
       \/ /\ p.at = 0
          /\ \E token \in {NULL, p} : inside' = [inside EXCEPT ![t] = [token |-> token, end |-> p, cut |-> FALSE]]
       \/ /\ p.at > 0
          /\ LET s == memory[p.in]
                 b == FirstOut(s, p.at, Delimiters(t))
                 e == FirstIn(s, b, Delimiters(t) \cup {Nul})
             IN inside' = [inside EXCEPT ![t] =
                  [token |-> IF b = e THEN NULL ELSE [p EXCEPT !.at = b],
                   end   |-> [p EXCEPT !.at = e],
                   cut   |-> e <= Len(s) /\ s[e] # Nul]]
  /\ UNCHANGED <<memory, position, buffer, text, parts, verb, outcome, disturbed>>

(* The separator after the token is overwritten, the position stored       *)
(* behind it, and the token returned; command_cicle compares the first one *)
(* of a line at once.                                                      *)
LeaveStrtok(t) ==
  LET call == inside[t] IN
  /\ call # NoCall
  /\ \E e \in Now(call.end) :
       LET written == call.cut /\ e.at > 0 IN
       /\ memory'   = IF written THEN [memory EXCEPT ![e.in][e.at] = Nul] ELSE memory
       /\ position' = IF written THEN [e EXCEPT !.at = @ + 1] ELSE call.end
       /\ disturbed' = [u \in Threads |-> disturbed[u] \/
            (u # t /\ (\/ Begun(u) /\ ~Finished(u)
                       \/ written /\ ~Idle(u) /\ buffer[u] = e.in))]
  /\ parts'  = [parts EXCEPT ![t] = Append(@, call.token)]
  /\ verb'   = IF parts[t] = <<>> /\ ~IsConnect(t) THEN String(memory', call.token) ELSE verb
  /\ inside' = [inside EXCEPT ![t] = NoCall]
  /\ UNCHANGED <<buffer, text, outcome>>

-----------------------------------------------------------------------------
(***************************************************************************)
(* rtable_connect, called by main() for the head and the tail, and by      *)
(* chain_watcher for what has changed; the loop of command_cicle.          *)
(***************************************************************************)

(* The places in some buffers become stale.                                *)
Stale(p, buffers) == IF p.in \in buffers THEN [p EXCEPT !.at = 0] ELSE p

AllStale(buffers) ==
  /\ position' = Stale(position, buffers)
  /\ inside'   = [t \in Threads |-> [inside[t] EXCEPT !.token = Stale(@, buffers), !.end = Stale(@, buffers)]]

Fill(t, strings) ==
  /\ Idle(t)
  /\ \E s \in strings : /\ text'   = [text EXCEPT ![t] = s]
                        /\ memory' = [memory EXCEPT ![buffer[t]] = s]
  /\ UNCHANGED <<buffer, verb, outcome, disturbed>>

Connect(t) ==
  /\ IsConnect(t)
  /\ Fill(t, Addresses)
  /\ UNCHANGED <<position, parts, inside>>

(* fgets fills the same input again, wherever in it the position was.      *)
ReadLine ==
  /\ ~IsConnect(Main)
  /\ Fill(Main, Lines)
  /\ AllStale({"line"})
  /\ parts' = [parts EXCEPT ![Watcher] = [i \in DOMAIN @ |-> Stale(@[i], {"line"})]]

Result(t, what, args) ==
  /\ outcome' = [outcome EXCEPT ![t] = [kind |-> what, args |-> args]]
  /\ UNCHANGED <<memory, position, buffer, text, parts, verb, inside, disturbed>>

Ready(t) == ~Idle(t) /\ Finished(t) /\ outcome[t] = Nothing

(* strdup(NULL) and atoi(NULL) end the process.                            *)
EndConnect(t) ==
  /\ Ready(t) /\ IsConnect(t)
  /\ IF NULL \in {parts[t][1], parts[t][2]}
       THEN Result(t, "crash", <<>>)
       ELSE Result(t, "connect", <<String(memory, parts[t][1]), String(memory, parts[t][2])>>)

(* Slip: only the blanks before the key are skipped.                       *)
TrimLeft(s) == SubSeq(s, FirstOut(s, 1, {Blank}), Len(s))

(* The NUL that trim() writes ends the token, where nobody scans any more. *)
Trim(s) ==
  LET solid == {i \in 1 .. Len(s) : s[i] # Blank} IN
  IF solid = {} THEN <<>> ELSE SubSeq(s, Min(solid), Max(solid))

(* The command: refused or without arguments, or sent with these.  del     *)
(* hands its key to trim() before it is tested, and NULL is read there.    *)
EndCommand ==
  /\ Ready(Main) /\ ~IsConnect(Main)
  /\ LET missing == \E i \in 2 .. Len(parts[Main]) : parts[Main][i] = NULL
         arg(i)  == String(memory, parts[Main][i])
     IN
     \/ verb \notin {<<"put">>, <<"get">>, <<"del">>} /\ Result(Main, "refuse", <<>>)
     \/ verb \in {<<"put">>, <<"get">>} /\ missing /\ Result(Main, "refuse", <<>>)
     \/ verb = <<"del">> /\ missing /\ Result(Main, "crash", <<>>)
     \/ verb = <<"put">> /\ ~missing /\ Result(Main, "put", <<arg(2), arg(3)>>)
     \/ verb \in {<<"get">>, <<"del">>} /\ ~missing /\ Result(Main, verb[1], <<Trim(arg(2))>>)

(* The addresses main() has connected to are freed together, that of the   *)
(* callback at once; then the next address, or the next turn of the loop.  *)
Freed(t) == IF t = Watcher THEN {"new"} ELSE IF buffer[t] = "tail" THEN {"head", "tail"} ELSE {}

Resume(t) ==
  /\ outcome[t] # Nothing /\ \A u \in Threads : outcome[u].kind # "crash"
  /\ outcome' = [outcome EXCEPT ![t] = Nothing]
  /\ text'    = [text EXCEPT ![t] = <<>>]
  /\ verb'    = IF t = Main THEN <<>> ELSE verb
  /\ buffer'  = [buffer EXCEPT ![Main] =
                  IF t = Watcher THEN @ ELSE IF @ = "head" THEN "tail" ELSE "line"]
  /\ memory'  = [b \in Buffers |-> IF b \in Freed(t) THEN <<>> ELSE memory[b]]
  /\ parts'   = [u \in Threads |-> IF u = t THEN <<>>
                                   ELSE [i \in DOMAIN parts[u] |-> Stale(parts[u][i], Freed(t))]]
  /\ AllStale(Freed(t))
  /\ disturbed' = [disturbed EXCEPT ![t] = FALSE]

Next ==
  \/ ReadLine \/ EndCommand
  \/ \E t \in Threads : Connect(t) \/ EnterStrtok(t) \/ LeaveStrtok(t) \/ EndConnect(t) \/ Resume(t)

Spec == Init /\ [][Next]_vars

-----------------------------------------------------------------------------
Clear(s, b, e) == \A i \in b .. e : s[i] # Blank

(* The verb is at v, and nothing else stands before place b.               *)
VerbAt(s, word, v, b) == s[v] = word /\ \A i \in 1 .. b - 1 : i # v => s[i] = Blank

(* The arguments a line gives a command, by the usage that is printed:     *)
(* put <key> <value>, the value being all that follows one blank after the *)
(* key; get <key> and del <key>, with blanks around the key ignored, so    *)
(* that two blanks after the verb are the empty key.                       *)
KeyOfPut(s, b, e) ==
  /\ b <= e /\ Clear(s, b, e) /\ s[e + 1] = Blank
  /\ \E v \in 1 .. b - 2 : VerbAt(s, "put", v, b)

KeyOf(s, word, b, e) ==
  /\ b <= e + 1 /\ \A i \in e + 1 .. Len(s) - 1 : s[i] = Blank
  /\ b <= e => Clear(s, b, b) /\ Clear(s, e, e)
  /\ \E v \in 1 .. b - 2 : VerbAt(s, word, v, b) /\ (b > e => v + 2 < Len(s))

PutArguments(s) ==
  {<<SubSeq(s, w[1], w[2]), SubSeq(s, w[2] + 2, Len(s) - 1)>> :
    w \in {p \in (1 .. Len(s)) \X (1 .. Len(s) - 3) : KeyOfPut(s, p[1], p[2])}}

KeyArguments(s, word) ==
  {<<SubSeq(s, w[1], w[2])>> :
    w \in {p \in (1 .. Len(s)) \X (0 .. Len(s) - 1) : KeyOf(s, word, p[1], p[2])}}

Arguments(s) ==
  [put |-> PutArguments(s), get |-> KeyArguments(s, "get"), del |-> KeyArguments(s, "del")]

(* Unless the other thread has moved the position under it or written into *)
(* its text: what command_cicle sends for a line is what the line says; a  *)
(* line is refused only if it says nothing; it ends the client only if it  *)
(* is a del with no key, where the code promises the usage instead; and    *)
(* rtable_connect fills in the host and the port of its address_port.      *)
RequestAsTyped ==
  \A t \in Threads : ~disturbed[t] /\ outcome[t] # Nothing =>
    LET kind == outcome[t].kind args == outcome[t].args IN
    /\ kind \in {"put", "get", "del"} => Arguments(text[t])[kind] = {args}
    /\ kind \in {"refuse", "crash"} => \A word \in {"put", "get", "del"} : Arguments(text[t])[word] = {}
    /\ kind = "crash" => \E v \in 1 .. Len(text[t]) - 1 :
         VerbAt(text[t], "del", v, v) /\ text[t][v + 1] \in {Blank, End}
    /\ IsConnect(t) => kind = "connect" /\ args = <<<<text[t][1]>>, <<text[t][3]>>>>
=============================================================================
