# A TLA+ model of the chain-replicated key-value store

The repository implements a store of key-value pairs in C: servers that each keep
the whole table, arranged in a chain by ZooKeeper, and clients that write to the
head of the chain and read from its tail. This directory holds TLA+ modules of the
store, TLC configurations that check them on small instances, and proofs checked by
TLAPS. Paths are relative to `src/`.

## Inventory

| Part | Code | State | Operations |
| --- | --- | --- | --- |
| Table | `include/table.h`, `object/*.o` (object code only) | `struct table_t`: keys and values | `table_put`, `table_get`, `table_remove`, `table_size`, `table_get_keys` |
| Server operations | `source/server_skeleton.c` 182-465 | the table, `rwlock_table`, `stats`, `rwlock_stats`, `next_server` | `invoke` (PUT, DEL, GET, SIZE, GETKEYS, GETTABLE, STATS) |
| Chain membership | `source/server_skeleton.c` 27-180 | `my_node`, `just_created`, `next_server`, `next_server_id`, `previous_server` | `insert_node_sync_table`, `sync_local_table`, `chain_watcher` |
| Server threads | `source/server_network.c`, `source/server_hashtable.c` | `threads[]`, `all_parameters[]`, `thread_counter`, `server_socket` | `network_main_loop`, `thread_for_client`, `network_receive`, `network_send`, `terminate` |
| Client stub | `source/client_stub.c`, `source/client_network.c` | `struct rtable_t`: one socket | `rtable_*`, `network_send_receive` |
| Client | `source/client_hashtable.c` | `head_rtable`, `tail_rtable`, `head_id`, `tail_id` | `command_cicle`, `chain_watcher`, `terminate` |
| ZooKeeper helpers | `source/zk_utils.c` | none | `get_node_content`, `get_head_and_tail_ids` |
| Framing | `source/message.c` | none | `write_all`, `read_all` |
| Encoding | `source/htmessages.pb-c.c` (generated) | none | pack and unpack |

How they interact. A client opens one connection to the head and one to the tail. Each
server runs one thread per connection, which receives a message, calls `invoke`, and
sends the answer. A put or del takes the write lock of the server, changes its table,
is repeated by a remote call on `next_server`, and only then releases the lock and is
answered: the remote calls of one write nest along the chain. Reads take the read lock
of the tail. The completion thread of the ZooKeeper client calls `chain_watcher` when
the children of `/chain` change, and replaces `next_server`.

What each part has to do to be correct (where the code falls short of it is said under
"What the checks show"):

- *Server operations*: the lock excludes; replicas apply the same writes in the same
  order; what is acknowledged is everywhere; a listing is a snapshot; together, one map.
- *Membership*: when it is quiet, every server is connected to the child of `/chain`
  after its own, and the last one to none; never to itself or backwards; a failure
  spreads no further than it must.
- *Server threads*: a slot per live connection, a socket closed once, `terminate` ends.
- *Client*: a call in progress is not cut off by the watcher; after a change of the
  chain the client talks to the new head and tail.
- *Framing*: what is received is what was sent, for every length the sender accepts.

What is hard to test is listed under `hazards` in `PROJECT.json`, each at its line.

## Modules

| Module | Models | Composes |
| --- | --- | --- |
| `Table` | the table and the requests of the stub, as operators | |
| `KeyValueMap` | what the service promises: one map, atomic operations | |
| `ChainReplication` | the data path, all operations, on a chain that does not change | `Table`; implements `KeyValueMap` |
| `ChainReplicationProofs` | theorems about it; the proof that it implements `KeyValueMap` | |
| `ChainMembership`, `ChainMembershipProofs` | joining, watching, leaving, failing, session events | |
| `ChainService` | puts along a chain that changes and fails | `ChainMembership` |
| `ChainServiceProofs` | theorems about it; it implements `ChainMembership` | `ChainMembershipProofs` |
| `ClientSession` | one client: command loop and watcher on the same two connections | |
| `ServerThreads`, `ServerThreadsProofs` | threads, slots, descriptors and `terminate()` of one server | |
| `WireFormat`, `WireFormatProofs` | one connection byte by byte: `read_all`, `write_all`, lengths | |
| `Statistics`, `StatisticsProofs` | the three counters and their lock, OP_STATS | |
| `ChainScan` | the loops over the children of `/chain` | |
| `ClientSessionProofs` | theorems about `ClientSession` and `ChainScan` | |
| `CommandLine`, `CommandLineProofs` | `strtok` and `trim` on lines and addresses, by two threads | |

`MC...` modules hold the instances for TLC. How the modules meet: `ChainService` runs the
variables and actions of `ChainMembership` itself. `ClientSession` and `ChainMembership`
take the least, greatest and next number of a set of children; `ChainScan` shows that the
loops over the unordered list compute these. `ServerThreads` and `ChainReplication`
deliver requests and answers whole; `WireFormat` shows when the bytes do. `ChainReplication`
leaves the counters out because they have a lock of their own; `Statistics` has them.

Definitions introduced by "Slip" are not part of a model: each is an operation as a
plausible mistake would have it, and the property named for it in `PROJECT.json` must
fail when it takes the operation's place.

### `ChainReplication`

Servers `1 .. N`; the connections are the clients' to head and tail and the link from
each server to the next. A connection carries one call at a time, because
`network_send_receive` blocks, so one program counter per connection says where the call
is, both on the wire and in the serving thread. The steps of `invoke` are the actions:

| Action | Code |
| --- | --- |
| `ClientCall`, `ClientReturn` | `command_cicle` through the stub |
| `LockWriter`, `UnlockWriter` | `server_skeleton.c` 253, 265 and 298, 303 |
| `WriteTable` | the write and the send of `rtable_put`/`rtable_del`, 254-258 and 299-300 |
| `ForwardReturns` | their return; the result is not looked at |
| `LockReader`, `UnlockReader` | 279, 281; 314, 316; 331, 334; 349, 429 |
| `ReadValue`, `ReadSize` | 280, 315 |
| `CountKeys`, `ReadKeys`, `ReadEntries` | 332, 333 and 350, 351, 372-422 |
| `SendAnswer` | `network_send` |

Between any two of these steps every other thread may run. What is abstracted: the
statistics at the end of `invoke` (`Statistics` has them),
memory that cannot be allocated, and keys and values, which are opaque. The error branch
inside the loop of GETTABLE (a `break` that leaves only the loop) has no defined outcome;
the model lets it answer with an error, and `ListingIsCurrent` shows it is never taken.

`KeyValueMap` is implemented under this mapping: the map is the tail's table; a write
takes effect when the tail applies it, a read when it has read. A write whose call is
still awaited by the head has therefore taken effect once some link has finished it.

### `ChainMembership`

ZooKeeper is a set of children, a counter for their numbers and one-shot watches, which
fire once for all changes until they are set again. A process has a main thread
(`main[p]`) that goes through `insert_node_sync_table` and a completion thread (`cb[p]`)
that runs `chain_watcher`:

| Action | Code |
| --- | --- |
| `Start` | `main` of the server up to `insert_node_sync_table` |
| `WatchChain`, `SyncTable`, `SyncFails` | `server_skeleton.c` 112-142 |
| `CreateNode`, `CreateReturns` | 145: the node exists, then `my_node` has its name |
| `FirstEvent`, `ChildEvent` | 39-41, 42-49 |
| `ScanChildren` (`NoNext`, `SameNext`, `NewNext`) | 51-81 |
| `Connect`, `ConnectFails` | 83-96 |
| `SessionEvent` | an event that is not a child event, 44, 100 |
| `Interrupt`, `CloseSession` | SIGINT, `terminate` |
| `Crash`, `ExpireSession` | the process ends; its node stays until the session expires |

`Terminate` stands for `terminate()` up to the closing of the listening socket (line 58 of
`server_hashtable.c`); `CloseSession` is `zookeeper_close`. When it is the callback that
terminates, the main thread runs on for that time and may still create its node. A
connection is refused only when the other process no longer listens. The number in a
node's name is taken to fit its ten digits, so that comparing names is comparing numbers.
Where a node went between the look at `/chain` and `get_node_content`, whose result is
ignored, `rtable_connect` gets a buffer nobody wrote: the process ends or crashes
(`SyncFails`, `ConnectFails`). Sessions expire here only when their process has ended.

`calm` is a history variable: TRUE as long as no join has overlapped another join, a
failure or a session event. That is the condition under which the code's shortcut for its
own creation event is right (see "Where the conditions matter"). Nothing is forbidden once
it is FALSE; `MaxRushed` only bounds how many processes start from then on.

### `ChainService`

Membership is the instance `Chain!`; beside it every process has its table, the put that
holds its write lock, and the stage of that put's call on `next_server`:

| Action | Code |
| --- | --- |
| `CopyTable` | `sync_local_table`, under the read lock of the tail |
| `ClientPut` | a client at the head |
| `ClientRead` | a client at the server its `tail_rtable` is connected to, under the read lock |
| `ApplyPut` | `server_skeleton.c` 253, 254 |
| `LookAtNext` | 255-258: `next_server` is tested, then its descriptor is read |
| `SendLength`, `SendMessage`, `BeginRead` | `client_network.c` 59-90 on that descriptor |
| `ReadLength`, `CallReturns` | the two `read_all`, 83 and 90: the answer, or the end of the connection |
| `LostCallEnds` | whoever is at the other end of a lost call closes the connection |
| `Answer` | 265-274: the lock is released, the result of the call is not looked at |
| `Join`, `Watch`, `Stop`, `Crash`, `EndSession` | the steps of membership, and what the process forgets |

`chain_watcher` frees and replaces `next_server` between any two of these steps. The
descriptor of a closed connection is the lowest free one, so the next connection gets it:
a call in progress goes on there (`lost`: its request went elsewhere, and no answer
comes), or fails. `Stop` waits until no put is at work, since `terminate()` joins the
threads before it closes anything. Each put has its own key, so a table is the set of the
puts it holds; puts of one key and the other operations are `ChainReplication`'s. Joins
overlap puts here, but neither joins nor failures (`calm'` in `Start`, `Stop`, `Crash`):
what those do to the chain is `ChainMembership`'s question. `apart` is the history variable
for puts: no put has overlapped a join.

A client learns of a new last server from its own callback (`client_hashtable.c` 90-111), at
any later time, so `ClientRead` can be at any server that is up. `seen` is what clients have
read at the server that was the last one at that moment, `behind` what they have read at
others.

### `ClientSession`

One client process with its two threads. The main thread (`main`) starts as `main()` does
and then makes one call after the other; a call goes through the steps of
`network_send_receive`. The completion thread (`cb`) runs `chain_watcher`, for the head
first, then for the tail:

| Action | Code |
| --- | --- |
| `WatchChain`, `StoreIds`, `ConnectEnd` | `client_hashtable.c` 364-401 |
| `Command`, `Quit` | `command_cicle`; `terminate` by command or SIGINT |
| `TakeSocket`, `WriteLength`, `WriteMessage` | `client_network.c` 51-80 |
| `BeginRead`, `EndRead` | the two `read_all`, 83 and 90 |
| `ChildEvent`, `SameEnd`, `CloseEnd`, `OpenEnd` | `client_hashtable.c` 44-58, 60-87, 90-111 |
| `ServerJoins`, `ServerStops`, `NodeGoes`, `ServerAnswers` | external: servers and ZooKeeper |

`conn` says which server `head_rtable` and `tail_rtable` are connected to. Closing a
connection and opening the next one gives the same descriptor (POSIX gives the lowest one
that is free), so a call that has read the descriptor from the old structure continues on
the new connection. `TakeSocket` on a freed structure has any of the outcomes that
structure's memory allows: an error, the new descriptor, or descriptor 0, on which no
server answers. A read that blocks when its connection is closed stays with the old
connection (`old`), as a blocked `read` does. `wire` says what is on the connection, so
that a half-sent request and an answer nobody took are seen by the next call.
Each use of `strtok` is one step here; `CommandLine` has the position both threads share.
The server side is reduced to: it joins with a rising number, it
answers whole requests, it stops, and later its node goes.

### `ServerThreads`

Descriptors are numbers and the kernel gives the lowest free one (`Open`). A thread keeps
the number in its slot of `all_parameters` and looks up what it stands for at every call,
so that a number closed twice can be another connection's by then.

| Action | Code |
| --- | --- |
| `Accept`, `StoreParameters`, `CreateThread`, `CountThread` | `network_main_loop`, `server_network.c` 65-74, one step per effect |
| `StartThread`, `BeginRead`, `EndRead`, `Invoke`, `Send` | `thread_for_client` and its calls, 79-168 |
| `Close` | the closes of 97, 121-124, 132-160: once, twice or three times by the way the call failed (`Closing`) |
| `EndThread` | `dec_connected_clients`, and the end of the thread |
| `OpenLink`, `CloseLink` | the callback's connection to the next server |
| `Interrupt`, `GiveUp` | `terminate()` from SIGINT on the main thread, or on the callback's |
| `ShutDown`, `Join`, `Destroy`, `CloseListening`, `Exit` | `teminate_threads` and the rest of `terminate()`; `idx` is its loop variable |
| `Connect`, `Call`, `Return`, `CallFails`, `Leave` | external: clients |

SIGINT stops the main thread wherever it is, also between creating a thread and counting
it; from the callback `terminate()` runs beside a main thread that goes on accepting. Once
`counter` has reached `MaxThreads` the next connection would be stored outside the arrays:
`main` is `overrun` then and the main thread does nothing more. `disorder` counts clients
that leave during a call or send what is no request.

### `WireFormat`

Only the number of bytes matters. `cleft` and `sleft` are the `len` of the `write_all` or
`read_all` each side is in; `up` and `down` are the bytes on the way. A step of
`ClientWrites`, `ClientReads`, `ServerReads`, `ServerWrites` moves any number of bytes the
connection allows. Lengths are cut to `Mod` (2^16) values when sent, and the client reads
them with a sign (`Signed`). `Cut` breaks the connection at any moment; `ClientFails` and
`ServerFails` are the error returns. Both sides notice the break when they next read or
write with nothing left to read, as when a process ends. A connection the network breaks
without notice is not modelled: the code sets no timeout and no keepalive, and such a read
waits for ever. Requests fit `MaxMsg`: the client's lines have 1024
bytes. Answers have any size, since a GETTABLE holds the whole table.

### `Statistics`

Each thread arrives, works, asks and departs, and each critical section is taken apart
into lock, loads, stores and unlock (`LockWriter`, `Load`, `Increase`, `Decrease`,
`AddTime`, `CountOperation`, `UnlockWriter`; `LockReader`, `Read`, `ReadClients`,
`ReadOperations`, `ReadTime`, `UnlockReader`). `clients`, `counted` and `total` are history:
what the fields should say. `processing_time` and `operations_counter` wrap as an `int` does
(`Wrap`), and `gettimeofday` may go back (`Elapsed`). There are fewer threads than an `int`
can count, so that `connected_clients` does not wrap.

### `ChainScan`

One action per turn of each loop: `EndsTurn` (`zk_utils.c` 44-57, with its skipped
comparison), `NextTurn` (`server_skeleton.c` 53-59), `LastTurn` (119-125). The initial
states are all lists.

### `CommandLine`

A text is a sequence of words and separators, and lies in a buffer: the two addresses of
`main()`, the one of the callback, and `input`, which is the same for every line. `position`
is strtok's, one for the process; it and the tokens (`parts`) are places, a buffer and an
index.

| Action | Code |
| --- | --- |
| `EnterStrtok` | a call of `strtok`: the position is loaded and the token looked for in `memory` |
| `LeaveStrtok` | the NUL is written over the separator, the position stored, the token returned |
| `Connect`, `EndConnect` | `rtable_connect` (`client_stub.c` 18-36), by `main()` or by the callback |
| `ReadLine` | `fgets` into `input` |
| `EndCommand` | what `command_cicle` does with the tokens; `Trim` is `trim()` |
| `Resume` | the addresses are freed (`client_hashtable.c` 77, 101, 403); the next turn |

Between any two of these steps the other thread may run. A place is stale once its buffer
was filled again or freed (`Stale`): then `Now` lets it be any place of the new line, of the
next address in that memory, or of nothing that is known (`Junk`). So the callback's second
`strtok` can cut a line that was typed after its first one. `disturbed[t]` is history: the
other thread has stored a position while `t` was between two calls for its text, or has
written into that text. Left out are a NUL written into memory that was freed and belongs
to nobody, or to something other than an address, and what `trim()` writes behind a token
that is not looked at any more.

## Runs

| Run | Instance | Checks |
| --- | --- | --- |
| `chain_safety` | 3 servers, 2 clients, 2 keys, 2 values | types, locks, nesting, replica distance, acknowledged writes, listings, refinement of `KeyValueMap`, no deadlock |
| `chain_liveness` | 2 servers, 2 clients, 1 key, 1 value | reads and writes are answered |
| `membership` | 4 processes, 1 failure, 1 session event, 3 hurried joins | the chain at rest, direction of connections, what stops servers, spread of failures |
| `client_session` | up to 3 servers join and leave; lists of up to 4 of 5 numbers | the connections at rest, stray answers, what ends a client, calls return; the loops over the children find what they look for |
| `service_safety` | 3 processes, 2 puts, 2 failures | order of the tables along the chain, reads at the last server and at former ones, acknowledged puts are everywhere |
| `service_liveness` | 3 processes, 1 put, 1 failure | puts end, the chain settles |
| `missed_put` | 2 processes, 1 put | finding: a put the new tail never gets |
| `threads` | 3 connections, 2 slots, 1 disorderly client, 1 link | answers, open connections, termination |
| `wire_format` | lengths of 4 bits, requests up to 5 bytes, answers up to 20, 4 bytes on the way | framing, whole answers, calls return |
| `long_answers` | the same | finding: answers of 2^15 bytes and more |
| `statistics` | 4 threads, an `int` from -5 to 4, 6 operations | no lost update, snapshots |
| `command_lines` | `put` with up to 4 words and blanks after it, `get` and `del` with up to 3, other lines; 2 addresses | requests and addresses as typed |

Bounds. Three servers are the least chain with a server that is neither head nor tail, so
a link is both served and used. Two clients give two threads at the head and at the tail;
two keys tell a write that hits another operation's key from one that does not; two values
tell an overwritten value from the new one. In `membership` the fourth process lets a
server whose next one failed get another one, and lets three joins run into each other;
`MaxFailures` bounds crashes plus interrupts, `MaxHiccups` session events, and each
process is started at most once. With two failures in `service_safety` a second one meets
the repair of the first. In `client_session` `MaxId` bounds the servers a client ever
sees: three let both ends change twice, with head and tail the same server in between. In
`threads` three connections over two slots give a slot's number to a second connection and
run into the end of the array; one disorderly client is enough for a double close. In
`wire_format` a length of four bits has a sign, and answers of up to 20 bytes are short,
negative as a short, and longer than a length can say; the longest request does not fit
the connection's four bytes. In `statistics` both the operations and their time wrap.
The lists of `client_session` have a child before, between and after the two ends; the
search and the session share nothing, and the session runs beside the one search that has
nothing to do. `command_lines` has every way to put blanks between and after a key and a
value, and lines with colons, with which a stale position in the line can be found.

Symmetry (keys, values, clients, processes, threads) is used only in runs that check
invariants alone. Deadlock is checked in the runs of `ChainReplication` and `Statistics`,
where something can always go on. The other runs turn it off: processes come and
go once, a process ends, a loop is over, a list has been read.

Fairness. In `ChainReplication` every thread that can step does, and clients read their
answers (weak fairness): threads are scheduled by the kernel and no step waits for
anything but the lock or a message. Taking a lock is strongly fair. For readers glibc's
default lock gives this: it prefers them, and a waiting reader enters when a writer
leaves. For writers it gives it only if the lock is free from time to time, and
`WritesAnswered` has that as its hypothesis for the tail, where the readers are. No client
has to call. In `ChainService` the threads run, and ZooKeeper delivers events and ends the
sessions of dead processes; nobody has to start, to fail or to put, and nobody has to
close the connection of a lost call. Nor does a `terminate()` on the callback's thread
have to end: it joins threads that may wait for ever for a client accepted after the
shutdowns (see `ServerThreads`). Its node then stays in `/chain`, so `ChainSettles` has
`TerminatesEnd` as its hypothesis; `PutsEnd` needs none. In `ClientSession` both threads
run and a server that has a whole request answers it. In `WireFormat` both sides go on
reading and writing as long as there are bytes or room, and a cut connection is noticed;
nobody has to call or to cut.

## What the checks show

*A chain that does not change* is one atomic map for its clients (`Linearizable`). The lock
held across the remote call makes it so: at most one write is under way, all replicas but
those it has not reached are equal, and no answer is sent before it is everywhere. The
price is in the hypothesis of `WritesAnswered`.

*Membership.* While joins overlap nothing, the connections agree with `/chain` whenever the
system is at rest, whatever crashes or is interrupted between the joins. A server gives up
only because a server later in the chain failed: a failing connection terminates the server
that tried it, so one failure can take down its predecessors, but never a successor. Even
when joins run into each other, no server stops before something has failed.

*The service.* A server never misses a put that a server after it has, also while it
joins, while `next_server` is replaced under its calls and while others fail
(`UpstreamHoldsMore`). If no put overlaps a join, what a client has read at the last server
of the chain is in every table from then on, however many fail (`ReadsSurvive`), and without
failures so is every acknowledged put. A client that does not know yet of the servers after
its own reads there nothing they will not have, as long as nothing fails
(`StaleReadsSurvive`). Every put ends, unless a connection was closed under a call
(`NoCallLost`), and the chain settles if besides every `terminate()` ends.

*The client.* However servers join and leave, a client at rest is connected to the first
and the last server of `/chain`, and an answer it reads is never one that an earlier call
left behind: a call fails only when its connection is dead or closed by the callback, and
the next connection is new. Its calls return unless the callback closes their connection.

*Threads.* At rest every open connection has a thread that waits for it and
`connected_clients` is their number, also after sockets were closed twice under other
threads. While nobody breaks off, answers go to the connection of their request. When SIGINT
ends the server, no thread that was counted outlives the table (`TableOutlivesCounted`) and,
if nobody has broken off, `terminate()` joins no thread that nothing will wake
(`JoinedIsWoken`). Neither says anything of `terminate()` on the callback's thread.

*Framing.* Both sides agree where a message begins, whatever the pieces; every call ends. A
request is unpacked whole. An answer of less than 2^15 bytes is returned whole or not at
all, wherever the connection is cut; what becomes of longer ones is a finding.

*Statistics* are exact, and OP_STATS shows one instant. *The loops over the children* are
right for unordered lists. *Lines* become the requests they ask for, and addresses the
connections, unless the other thread has moved strtok's position under them or written
into them: a position left behind in a buffer that was filled again does them no harm
otherwise.

### The findings

`missed_put`: `insert_node_sync_table` copies the table of the tail first and creates its
node afterwards, and the tail connects later still. A put the tail finishes in between is
missing on the new server for ever, and reads at the new tail do not see it. It is why
`ReadsSurvive`, `StaleReadsSurvive` and `AckedOnAll` have `apart` as their condition.

`long_answers`: `network_send` announces an answer with 16 bits (`server_network.c` 150), and
the client takes them for a signed short (`client_network.c` 81-90). Of a GETTABLE of 2^15
bytes or more it reads a negative number of bytes into a buffer that is not there, or, from
2^16 on, unpacks a first part, where `include/client_network.h` 32 promises the message or
NULL. It is why `AnswersFit` is about shorter answers only.

### Where the conditions matter

Each condition in a property stands for behaviour of the code in which the conclusion
fails; TLC shows it as soon as the condition is dropped.

- `calm` in `NextIsLater`: the callback runs from the moment the watch is set and uses
  `my_node` before `zoo_create` has filled it in. With another server joining at that
  moment every child is after the empty name, and the server connects to the smallest
  child, which may be itself (`server_skeleton.c` 55, 145).
- `calm` in `ChainAgreesAtRest`: the first event is taken for the own creation (39). When
  two servers join at once one of them never connects to the other.
- `failures = 0` in `AckedOnAll`: with the next server gone `rtable_put` fails, its result
  is dropped (258), and the client is told that the put succeeded.
- `failures = 0` in `StaleReadsSurvive`: take the chain p, q, r, and a client whose
  callback has not run since p was the last server, so that it still reads at p. A put
  reaches p and q, q crashes before r has it, p's call ends and p unlocks; the client
  reads the put at p, and r never gets it: later reads at r go back behind it
  (`client_hashtable.c` 244, 90-111).
- `NoCallLost` in `PutsEnd`: `next_server` is replaced under a call without the table lock
  (78); the call waits on the wrong connection with the write lock held.
- the hypothesis of `UndisturbedCallsReturn`: the client's callback closes and replaces a
  connection under a call (`client_hashtable.c` 69, 93), which then waits on the new one
  for an answer that never comes.
- `Orderly` in `OwnAnswers` and `OpenIsServed`: after a failing send or receive the socket
  is closed more than once (`server_network.c` 97, 121-124, 132-160); in between its
  number can be another connection's, which is closed under its thread, and an answer can
  go to a connection that did not ask. Shutdowns by the callback's `terminate()` make
  sends fail while `main` goes on accepting, with the same effect.
- `TerminatesEnd` in `ChainSettles`, and `Orderly` in `JoinedIsWoken`: when the callback
  runs `terminate()`, a client accepted after the shutdowns keeps its thread, and
  `terminate()`, waiting (`server_hashtable.c` 46).
- `main = "handler"` and `i = counter` in `TableOutlivesCounted`: a thread created but not
  yet counted when SIGINT comes (`server_network.c` 73) is neither shut down nor joined;
  and beside `terminate()` on the callback's thread `main` goes on to accept and to count.
- `ans >= Half` in `AnswersFit`: see `long_answers`.
- `disturbed` in `RequestAsTyped`: `rtable_connect` in the watcher thread and the command
  loop take each other's tokens, and the callback's second call can cut a line that was
  typed after its first one (`client_stub.c` 23, 24, `client_hashtable.c` 184).

Two more departures need no condition, only to be known: slots of finished threads are
never used again, so the connection after `MAX_THREADS` ends up outside the arrays
(`server_network.c` 66); and the descriptor of a finished thread's slot that `terminate()`
shuts down (174) can be that of the connection to the next server. `del` without a key
ends the client (`client_hashtable.c` 260), where line 263 has the usage to print;
`RequestAsTyped` says that no other line does.

## Proofs

Eight modules hold proofs. The assumptions are those of the modules: `N` is a positive
natural number; sets of keys, puts, threads, processes and connections are finite; `None`,
`Nobody`, `Freed` and `Link` are none of the values they are distinguished from;
`Mod = 2 * Half`; requests fit the buffer; there are fewer threads than an `int` can
count; there is a slot, and one descriptor more than there are connections; words are not
separators, a line ends where its newline is, as `fgets` leaves it, and an address is a
word, a colon and a word. The bounds on failures, session events, joins and numbers are
any natural numbers.

`ChainReplicationProofs`, for every `N`, every set of clients, every finite set of
keys and every set of values:

- `InvariantHolds`: `IInv`, the conjunction of `TypeOK`, `LockOK`, `CallsNest`,
  `ReplicasLag` and `HeadHoldsWrite`, is inductive;
- `TypeCorrect`, `LockCorrect`, `CallsNestCorrect`, `ReplicasLagCorrect`: its parts;
- `AckedWriteReplicatedCorrect`: a consequence of it;
- `ListingCorrect`: `ListingIsCurrent` is inductive relative to `IInv`.

None of the parts is inductive alone. `ReplicasLag` says that two tables
differ by the write of the thread that holds the head's lock, so it needs `LockOK` to
know that there is one such thread, and `CallsNest` to know that every link in use
carries its request. `CallsNest` needs `LockOK` too: a thread can use a link only while
it holds the lock of the server before it, so a link is idle when the lock is free.
`LockOK` needs `TypeOK`, which ties the kind of request to the kind of connection:
writes never reach the tail connections of clients. Applying the same write again is
applying it once (`EffectIdempotent`), which is why `HeadHoldsWrite`, the head has its
own write, together with `ReplicasLag` and idle links yields
`AckedWriteReplicated`: the write is on every replica. A listing stays current because the
thread that takes it holds the read lock, and `LockOK` keeps the writers of that server out.

The second half of the module is about the same constants: `LinearizableCorrect`, the
refinement `Spec => KV!Spec` with the mapping written in `ChainReplication`. The map is
the tail's table; the invariant (`LInv`) adds two parts to `IInv` and `ListingIsCurrent`.
`OneCall`: a client never has calls on both its connections. `AnswerAhead`: while a write
is on its way, the answer the head already holds is the one the tail's table will give.
The second is needed because a `del` is answered from the head's table, before the tail
removes the key, which is the instant the removal takes effect for the readers; it is kept
because no other write can reach the tail in between (`OneWriteWaits`, from `LockOK` and
`CallsNest`). Each step of a thread is then a step of the map for one client
(`MapPerforms`) or none (`MapStutters`): a read performs with its last look at the table
(`ReadOutcome`, where `ListingIsCurrent` makes the listing put together in several steps
that of one instant), a write when the tail, or a head that is alone, makes it.

`StatisticsProofs`, for any number of threads, any width of `int` and any times:
`TypeCorrect`, `StatsExactCorrect`, `AnswerIsSnapshotCorrect` from `InvariantHolds`. The
invariant adds to the types that a writer excludes everyone, that what a thread has loaded
is what the field still holds, and that the fields are the history with the updates of the
one writer missing: `connected_clients` is the cardinality of `clients`, the time is the
true sum modulo the width. A reader's partial answer equals the fields because no writer
is in.

`WireFormatProofs`, for every width, capacity and size: `TypeCorrect`, `InStepCorrect`,
`RequestsWholeCorrect`, `AnswersFitCorrect`. The invariant (`Framing`, `Lengths`) counts,
for each pair of places of the two sides, the bytes on the way: they are what one side has
still to read less what the other has still to write. From there it follows that the
two sides cannot be in any other pair of places, and that nothing is left between calls.

`ChainMembershipProofs`, for any finite number of processes and any bounds: `TypeCorrect`,
`OnlyFailuresStopServersCorrect`, `FailureSpreadsUpstreamCorrect`, `NextIsLaterCorrect`,
`ChainAgreesAtRestCorrect`, from `InvariantHolds`. One half of the invariant holds however
joins overlap. `Numbers`: every number up to `last` has one owner, and the owner's node is
missing only when the process has ended, so `Owner(n)` is who it seems to be. `Stage` and
`Link`: what the main thread and the callback have when they are where they are; from the
first look at `/chain` on the watch is set or its event is to come. The other half holds
while `calm`. `Alone`: while a process joins, the nodes are those of servers in their main
loop, with nothing to handle until the new node is there. `Joins`, `Newest`: the event
that is taken for the creation of the own node is that one. `Current`: *while its watch is
set*, a server knows the chain as it is, in each phase of the callback. A watch that is
not set has an event to come, and at rest there is none, so `ChainAgreesAtRest` follows.
`Named`, the comparisons are made with the own number, is what fails when joins overlap,
and `FailureSpreadsUpstream` needs it: a failing connection is to a number greater than
the own. Two more results are there for the puts. `ConnectionsHold`, on top of the
invariant and while `calm`: no node is between a server and the one it is connected to
(`View`), and while nothing has failed a server is connected as soon as there is a node
after its own that is not the newest (`Settled`). `NextKeptCorrect`, an action property:
without failures and while `calm` no step takes from a server the connection it has.

`ChainServiceProofs`, for any finite sets of processes and of puts and any number of
failures: `ImplementsMembership` (`Spec => Chain!Spec`), `TypeCorrect`,
`UpstreamHoldsMoreCorrect`, `ReadsSurviveCorrect`, `StaleReadsSurviveCorrect`,
`AckedOnAllCorrect`, from
`InvariantHolds`. Since the service implements `ChainMembership`, all that is proved there
holds of it; `Membership` says what the puts need of that, and every step of the
membership is cut down to what they notice of it (`StepsKnown`). The invariant has three
parts. Whatever happens, a put that waits at a server is in all tables before it
(`Waiting`) and a table copied from the tail is contained in every other (`Copied`): with
`Adjacent`, that a put is forwarded past no node, this makes `UpstreamHoldsMore`
inductive. While puts overlap no joins (`apart`), nothing is under way while a process
joins (`Quiet`), so the copy is still the table of the tail when the node is created
(`CopiedAll`): this gives `ReadsSurvive`. While besides nothing has failed, the chain is
complete when a put enters it (`Linked`), a call is made on the connection to the next
server (`Calls`), which nobody replaces meanwhile (`Kept`), and a put that is done at one
server is in every table from there on (`Forwarded`). Clients send to the first server
(`Entered`), hence `AckedOnAll`, and a table nobody is writing to is contained in those after
it, hence `StaleReadsSurvive`.

`ClientSessionProofs`, for any number of servers that ever join: `TypeCorrect`,
`EndsAtRestCorrect`, `NoStrayAnswerCorrect` and the action property
`OnlyStopsEndClientCorrect`, from `InvariantHolds`. `Watching` and `Fresh`: the watch is set
or its event is to come, and while it is set the last list read is the one of `/chain`.
`Looked` and `ConnectedToNamed`: the callback has not got past a name that differs from its
list, so a connection is to the server whose name is known. `main` opens the
connections from a list of its own; had the callback changed a name meanwhile, it would
have found the connection missing and ended the client. `WiresClean`: what is left on a
living connection is of the call under way; a new connection has none, and a call that reads
from a closed one writes to none.

The last part of the module is about `ChainScan`, for lists of any length and any numbers:
`ScanInvariantHolds`, `EndsFoundCorrect`, `ServerFoundCorrect`, `ReturnedCorrect`. After
each turn the indices are right for the children looked at; a child less than the head is
not compared with the tail, which is right since the head is never greater than the tail.
When a loop is over, all children have been looked at, so what it returns is what
`ClientSession` and `ChainMembership` take in one step: the least and the greatest of the
children, or the least of the later ones (`ReturnedCorrect`).

`ServerThreadsProofs`, for any number of connections and slots: `TypeCorrect`,
`OwnAnswersCorrect`, `TableOutlivesCountedCorrect`, `JoinedIsWokenCorrect`,
`OpenIsServedCorrect`, from `InvariantHolds`. What holds however calls fail: a connection
is on one descriptor (`Distinct`), a client's descriptor is in the slot of a thread that
will close it (`Attended`), the count is that of the threads inside (`Counted`), and
`terminate` has joined those it has passed (`Joined`). While no call has failed a thread
that has closed nothing owns its descriptor alone (`Own`, `Once`) and a request is in one
place (`Calls`), hence `OwnAnswers`. `accept` takes the least free descriptor; that there
is one (`FreeFound`) is the pigeonhole principle, applied to the map from descriptors to
the connections on them. `TableOutlivesCountedCorrect` and `JoinedIsWokenCorrect` are
about SIGINT alone, the second also about clients that do not break off, as the properties
say.

`CommandLineProofs`, for any words, any lines however long and any addresses:
`RequestAsTypedCorrect` from `InvariantHolds`. The first half of the module is about texts
alone. `strtok` is written with the first place of a sequence that is, or is not, a
separator, so that what it finds is a matter of least elements (`TokenFacts`) and needs no
induction over the characters. From there: a line begins with a word exactly when its
first token is that word (`VerbFound`, `VerbUnique`), the next two tokens of `put` are the
only arguments its usage allows (`PutArgumentsFound`), the second token of `get` and `del`
without the blanks around it is theirs (`KeyArgumentsFound`), and the tokens of an address
are its host and port (`AddressFound`). The second half is the invariant of the two
threads. Each call of `strtok` writes a NUL behind its token, so the memory is not what
was typed; but (`Scanned`) from the position on it still is, and the tokens before it are
strings that the same calls find in the text alone. `InOrder`: as long as a thread is not
`disturbed`, its buffer is `Scanned` as far as it has got, its tokens are those of its own
text, and the position is where its last call left it. `StageOf`: a thread without a text
has no tokens, so a line that overwrites the buffer, and an address that is freed, take
the position from nobody who still needs it.

Only model-checked: the liveness properties, since fairness is out of the prover's reach
(`ReadsAnswered`, `WritesAnswered`, `UndisturbedCallsReturn`, `PutsEnd`, `ChainSettles`,
`CallsReturn`); and `TablesAgreeAtRest`, which the code does not have. Every other
invariant and action property of the runs is stated by a theorem.

## Not modelled

The generated encoding, which has no state: requests and answers are records, and
`WireFormat` has their sizes. Printing, lines longer than the buffer and the end of the
input in the client. The expiry of the session of a live server after 2000 ms
(`server_hashtable.c` 77): its node would go while it serves on. A connection that breaks
without notice. Memory that cannot be allocated, failures of `pthread_rwlock_*` and of
`pthread_create`, a process out of descriptors. Two runs of `terminate()` at once (SIGINT
while the callback is in it): joining and freeing twice are undefined. A failure of
ZooKeeper itself, and the creation of `/chain`. Removals, reads of single keys and puts of
the same key on a changing chain: their steps are `ChainReplication`'s, and a put with its
own key tells the tables apart.
