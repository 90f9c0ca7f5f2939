# Verification of the ZTask runtime

ZTask is an actor runtime in C with Lua and JavaScript services (a Windows-first
relative of skynet). A *service* has a context, a handle and a message queue;
worker threads take queues off a global list and run the callback of the owning
service; a timer thread, a socket thread, an HTTP and a DNS thread send messages
to services; harbors connect several nodes. The runtime proper is about 7 000
lines of C in `src/ztask` and `src/ztask/server`; the C libraries of the Lua
services in `src/ztask/lualib` are about twice that. Everything under
`src/third_party` is vendored.

This directory holds TLA+ models of the runtime's concurrent core and of the
algorithms of its libraries, the TLC runs that check them, and TLAPS proofs.

## 1. Inventory

| Component (source) | State | Operations | Interacts with | What is hard | What makes it correct |
|---|---|---|---|---|---|
| Message queues (`ztask_mq.c`) | ring (`head`, `tail`, `cap`, cells), `in_global`, `release`, overload threshold; global linked list | create, push (expands when full), pop, overload, mark_release, release; global push and pop | dispatch, every sender | push races pop and retirement on `in_global`; wrap and expansion | FIFO; a queue is in one place; no message waits unnoticed; dropped messages are answered |
| Services and dispatch (`ztask_server.c`) | contexts with `ref`, `init`, `cb`, session counter; number of services | context_new, send, push, grab and release, delete, message_dispatch, commands | queues, handle storage, modules, monitor | reference counts against retirement, failing launch, batches | one callback per service at a time; nothing freed is used; order per sender and receiver |
| Handle storage (`ztask_handle.c`) | slot table, `handle_index`, sorted names | register (doubles the table), retire, retireall, grab, findname, namehandle | `ztask_context_new`, KILL, ABORT, REG, NAME | handle stored after unlock; scan with the lock released; wrap | a handle leads to its service and to no other; names agree with what was given |
| Read-write lock (`rwlock.h`) | `write`, `read` | rlock, runlock, wlock, wunlock | handle storage, stm | announce, then look again | exclusion; somebody gets in |
| Worker pool (`ztask_start.c`, `thread.c`) | `sleep`, `quit`, mutex, completion port | worker loop, wakeup, timer loop, I/O loops, shutdown | all threads | a wakeup that races the sleep; shutdown | listed work is taken; workers end when services end |
| Timer (`ztask_timer.c`) | near array, four levels, 32-bit `time`, spinlock | timeout, timeout_del, update (execute, shift, execute), updatetime | pushes responses to services | cascade, wrap, timers set while others are delivered, removal without the lock | delivered once, at its tick, in order |
| Endless-loop monitor (`ztask_monitor.c`) | version, check_version, source, destination per worker | trigger, check | workers, monitor thread | unlocked reads | a stuck service is reported with its sender, others are not |
| C coroutine services (`service_snc.c`, `coroutine.c`) | tree of coroutines by session | callback, yield, yield with timeout, call, resume, timers | timer, sessions | a timeout and an answer both in flight; one session for all waits | an answer resumes the request it answers; a wait with a timeout ends, unless the unlocked removal lost the lock or a timer |
| Harbor (`service_harbor.c`, `ztask_harbor.c`) | slaves with status and read buffer, queues per node and name | push_socket_data, remote_send, name and slave commands | sockets, cslave | streams cut anywhere, nodes that go down, names not yet known | frames whole and in order, queued messages sent once, to their handle; none lost |
| Sockets (`ztask_socket.c`) | slots with type and id, requests on a completion port | listen, accept, connect, start, send, close, UDP | Lua socket library, harbor | late completions and closes for a slot used again; numbers closed twice | each socket has the requests it needs; another's request closes it only where the code closes a number twice |
| Modules (`ztask_module.c`) | table and count | query | launch | first look without the lock | an entry is complete when it is seen |
| stm (`lua-stm.c`) | object and copies with reference counts | new, update, newcopy, read, close | read-write lock | the last one frees what others still look at | counts are exact; everything is freed, last |
| Debug channel (`lua-debugchannel.c`) | list of commands, count of ends | create, connect, write, read, release | debugger agent | ends that leave in any order | two ends; commands in order |
| lpeg (`lualib/lpeg`) | trees, code, ktables shared by patterns | pattern operators, compile, match | Lua services | optimisations that rest on an analysis; renumbered keys | the code matches what the pattern means |
| Codecs (`lua-seri.c`, `lua-bson.c`, `lua_cjson.c`, `sproto/`, `lua-crypt.c`) | buffers | encode, decode, pack, import | Lua services | widths, limits, growth, truncation, versions of a schema | a decoder undoes its encoder; no byte outside a buffer |
| Framing (`lua-netpack.c`, `lua-socket.c`, `lua-cluster.c`) | rings, hash of unfinished packages, pool of nodes, parts | filter, pop, read, readline, pack, unpack, append | sockets | pieces cut anywhere, growth while wrapped | what is sent comes out whole, once, in order; no memory lost |
| Shared data (`lua-sharedata.c`) | array and hash of a converted table | new, index, next, len | Lua services | collisions in an exactly full hash | lookups and iteration agree with the Lua table |
| Lua runtime and services (`lua/`) | session tables, coroutine pool, wait queues, instances, names | call, ret, fork, sleep, launch, register | messages | errors and exit with calls pending | not modelled, see section 8 |
| DNS, HTTP, UI, environment, logs, daemon, interpreters, database clients, allocator hooks | - | - | - | - | not modelled, see section 8 |

`PROJECT.json` lists every part with its sources and status, and, under
`hazards`, the places where a test would hardly reach, with the properties that
guard them.

## 2. Plan

Done, the most important behaviour first:

1. `Fifo`, `MessageQueue` (with refinement).
2. `Dispatch`: the composition of queues, contexts, handle slots and threads.
3. `RWLock`; `WorkerPool`; `Timer`; `HandleStorage`.
4. `Snc` with the removal of timers; `Monitor`; `Modules`; `Stm` on top of `RWLock`;
   `DebugChannel`.
5. `Harbor` and `SocketServer`.
6. The libraries: `Lpeg`, `LpegKeys`, `Seri`, `Cjson`, `Sproto`, `Bson`, `Netpack`,
   `SocketBuffer`, `Cluster`, `Sharedata`, `Crypt`.

7. The proofs: `DispatchProofs`, `HandleStorageProofs`, `TimerProofs`, `SncProofs`, `HarborProofs`,
   `SocketServerProofs`, and `SharedProofs` for `MessageQueue`, `WorkerPool`, `RWLock`, `Stm`,
   `Modules`, `DebugChannel` and `Monitor`, with `ProofLemmas` for what several of them need.

Every safety property of the runs about the runtime has a theorem; what is only model-checked is said at the
end of section 7. Left: the Lua runtime (section 8).

## 3. Modules and how they correspond to the code

An action is the code between two points at which another thread can interfere:
a critical section, an atomic instruction, or a load or store of shared memory
where the code uses no lock. Definitions whose name has a suffix after an
underscore and whose comment begins with "Mutant" are deliberate mistakes used
to test the properties; nothing uses them.

### The core

* **`Fifo`** - the abstract queue: push appends, a pop returns the oldest message
  or nothing.
* **`MessageQueue`** - one `struct message_queue`. `head`, `tail`, `cap`, `queue`
  are the ring; `place` says who has the queue (its creator, the global list, a
  worker, nobody), which the code knows by who holds the pointer. Pop is split in
  `PopMessage` and `PopEmpty`, the two ways out of `ztask_mq_pop`; `threshold` is
  `overload_threshold`, and `Raised` the loop that doubles it. `warned` and `popped` are what the
  caller received.
* **`Dispatch`** - worker and sender threads. `pc` with `hand`, `nxt`, `new`,
  `left` are the locals of `ztask_context_message_dispatch` and
  `ztask_context_new`; `call` with `arg` and `load` is the position in
  `ztask_context_push`, `ztask_context_release` and `delete_context`, which
  several callers share. A callback may send, kill any service, launch a service
  whose init succeeds or fails, and return. The ring inside a queue is the
  sequence `box[c]`, which `MessageQueue` is shown to implement. Memory is
  modelled by `cmem` and `qmem`, so a use after free is a state. The batch size is
  the expression of the code on the weight of the worker. The launcher goes on to
  use the context after it gave up its reference: `setinit`, `list` (which reads the handle for the log) and `report`
  (`cmd_launch` answers with the handle). Handles are not reused
  here; reuse is in `HandleStorage`. Threads outside the services send with source 0;
  the model names the thread, so that order per thread can be stated.
* **`RWLock`** - every load, store and atomic instruction of `rwlock.h`.
* **`WorkerPool`** - `struct monitor` with the loops of the threads.
  `thread.h` maps the mutex to a critical section on every platform, so the build
  is the Windows one, in which `ztask_cond_wait` waits on a completion port *without
  releasing the mutex*. The model follows that. The global list is a counter.
* **`Timer`** - the wheel, parameterised by the sizes `NEAR` and `LEVEL` of its lists, which need not
  be powers of two as in the code, where masks and shifts stand for the divisions. `wheel` maps the cells of
  the near array (level -1) and of the four levels to the list in each cell. `pc`
  tells apart the two calls of `timer_execute` and the delivery outside the lock.
  `remain` and `earlier` are ghosts that say when a timer should fire and after which
  others.
* **`HandleStorage`** - the table, the index, the names. `given` holds the handle
  between the return of `ztask_handle_register` and its assignment to `ctx->handle`;
  `scan` is the position of `ztask_handle_retireall`. The two insertions of
  `_insert_name_before` (shift, or copy into a larger array) are one insertion into a
  sequence. `MaxLaunching` is the number of threads inside `ztask_context_new`.
* **`Snc`** - one C service: its queue, the tree of coroutines by session, the chain of
  coroutines that resumed one another (`stack`), the peers it asks, the timer thread. The
  wheel is reduced to `Cells` lists, on which other services may have timers too (`others`). `walk` and
  `phase` are the position in `ztask_timeout_del`, whose test of a list, walk, unlinking and end are steps that
  other threads come between; `tlock` is the spinlock of the timer, which that function releases
  before and takes after each list. `raced` records that another thread linked, moved or removed a node of the list that
  is walked or unlinked without the lock. From then on the list may lose any of its timers (`Lose`) and the walk may find nothing;
  what a C program does that reads freed memory otherwise (a crash) is not modelled. A session is the number of coroutines made so far, and starts
  again at 1 after `MaxSession`, `INT_MAX` in the code. Runs and proofs are about services that make no more than
  `MaxSession` coroutines: afterwards a session can be in use, or a late response to its
  former owner on the way, and nothing in the code prevents either.

### Shared structures

* **`Stm`** extends `RWLock`, so that a reader of an stm object is inside the very steps of
  the lock; the body of a critical section, the unlocking and what follows are separate steps.
* **`Monitor`** - the plain stores of `ztask_monitor_trigger` (source, destination, version) and the three reads of
  `ztask_monitor_check` (version, destination, then source and destination for the report), one by one.
* **`Modules`** - the query without the lock, the query under it, opening, and the store of an
  entry before the count. Stores are taken to become visible in order.
* **`DebugChannel`** - each function is one critical section, but for the freeing that follows
  the last unlock.

### The network

* **`Harbor`** - an action is the handling of one message by the harbor service. A stream is a
  sequence of units: the identity byte, `HeaderLen` units of length, and a content whose size `Sizes` gives; the
  socket may deliver any prefix of what is under way, and connections break. `slave` and `names`
  are `h->s` and `h->map`, with ring queues that expand. The ghost `blank` holds the messages whose header has no
  handle yet, `merged` those that were moved from the queue of a name to that of its node, `dropped` those that were
  freed with their node.
* **`SocketServer`** - services call from worker threads. `reserve_id` is two steps: the compare-and-swap on the
  type (`Take`) and the store of the id (`StoreId`), with `new_fd` a third; `ztask_socket_send` is the check of
  the id (`CheckSend`) and the send over the number that the slot has by then (`SendData`); a close frees the slot (`PollClose`)
  and then closes the number it has by then (`CloseFd`). `caller` is the position of each thread, the socket thread
  `Io` included. `port` holds the packets posted or completed, `kernel` the requests the operating system
  works on, which complete or fail at any time and fail when their socket is closed. The operating
  system is external: it gives out again every number that was closed, so a slot may hold the number of another socket. The socket of
  a client, made before the client connects, gets its number with the client. The fall-through from 'S' to 't' closes any
  number or none (the id of the message, taken for a number). The wrap of `alloc_id` is not modelled.

### Libraries

Pure algorithms are operators. The functions that encode and decode are translated case by
case; integers and lengths keep the structure of their widths with a smaller base, so that every
limit is reached by small inputs.

* **`Lpeg`** - tree builders with their simplifications, the analysis (`nullable`, `nofail`,
  `fixedlen`, `getfirst`, `headfail`, `verifyrule`), the code generator with its choices, tests and
  peephole pass, and the machine with its stack. A function called at match time accepts at even
  positions. `Ref` is the plain meaning of a pattern.
* **`LpegKeys`** - a heap of patterns and ktables under the operations that share, join, extend and
  renumber them.
* **`Seri`**, **`Cjson`**, **`Sproto`**, **`Bson`** - writer and reader of each format, including
  buffer growth (`Cjson`, `Bson`), the blocks of a stream (`Seri`), schema import, readers with another
  version of a type and zero packing (`Sproto`), replacement in place and UTF-8 checks (`Bson`). `my_strtod`
  multiplies by an inexact 0.1: in `Cjson` only an integer short enough is read exactly, every other number comes out
  *near* the one written, infinite when too large, and its exponent is an `int` that wraps. `is_rawarray` looks for keys
  *behind* the last index only: in `Bson` the pairs before it in the hash part are lost.
* **`Netpack`** - the hash of unfinished packages, the ring of finished ones and a count of the
  blocks allocated. **`SocketBuffer`** - nodes, offset and pool of the receive buffers.
  **`Cluster`** - packages as intervals of messages, with the true sizes of the code.
* **`Sharedata`** - conversion into array and hash, lookup and iteration. **`Crypt`** - hex, base64,
  padding, the rounds of DES forwards and backwards with some function for the boxes, and the modular arithmetic on
  integers of `Width` bits.

The `MC...` modules give constants their values. `MCNet`, `MCShared` and `MCCodecs` put independent
parts into one run: a behaviour chooses one of them (`focus`) and the others do not move.

## 4. Runs, bounds and what they show

| Run | Instance | Checks |
|---|---|---|
| `dispatch` | 2 services (one running at start), 2 workers of different weight, 1 sender thread, 2 messages | `OneOwner` (with `OneCallbackAtATime`), `NoUseAfterFree` (with `SourceAssertions`), `OrderKept`, `EveryMessageServed`, `DropsReported`, `RetiredIsFreed` |
| `pool_quit` | 2 workers | violation of `WorkersTerminate`, section 5 |
| `timer` | 2 near cells, 4 levels of 2: time has 5 bits; 2 timers, delays 0, 1, 3, 6, 16 | `LinkedOnce`, `OnTime`, `InOrder`, `EveryTimerFires` |
| `handles` | 3 contexts, 2 names, 4 handles, table from 1 slot to 4, one launch at a time | `Findable`, `NamesAgree`, `RetireAllComplete` |
| `handles_race` | two launches at a time | violation of `NewSlotFree`, section 5 |
| `snc` | 2 coroutines of 2 waits, up to 3 sessions, 1 list of timers, 2 requests, 1 timer of another service | `TreeIsExact` (with `TimerOnTheWay`), `OwnAnswers` |
| `snc_waits` | the same with 2 lists, 1 request and no timers of others | `OnlyRacesHang` |
| `snc_timeout` | as `snc_waits` | violation of `TimedWaitEnds`, section 5 |
| `net` | harbor: 1 other node, 1 name, header of 2 units, contents of 1 and 2, rings from 2, 2 messages out, 2 connections with 2 messages in; sockets: 2 services, 2 slots, 2 numbers, 4 ids, 4 calls, 2 accepts | `MessagesKept` (`NothingLeftBehind`, `AtMostOnce`, `InOrderToNode`, `NothingLost`, `HeadersFilled`), `FramesIntact`, `RequestsKept` (`NewFdReserved`, `OneReceive`, `AcceptsKept`, `OneDatagram`), `ForeignCloseIsSecond` |
| `sockets_race` | 1 slot, used in turn by 2 services | violation of `NewFdAsserted`, section 5 |
| `shared` | queue: 2 messages, ring of 2 growing to 8, up to 5 queued, threshold 1; pool: 3 workers, 1 I/O thread, 3 arrivals; 3 threads in the rest; stm: 1 writer, 2 readers, 2 copies; monitor: 2 services; 4 module names in a table of 2; channel: 3 ends, 3 commands | `QueueTypeOK`, `NoLostWork`, `OverloadHonest`, `ImplementsFifo`, `OneSleeper`, `WorkIsTaken`, `Exclusion`, `LockProgress`, `CountsExact` (`CopiesCounted`, `FreedLast`, `AllFreed`), `MonitorReports` (`HonestReport`, `EndlessReported`), `OneEntryEach`, `ChannelKept` (`TwoEnds`, `CommandsInOrder`) |
| `codecs` | inputs grown in up to 3 to 6 steps for each library (about 550 000 of them) | `LpegRight`, `SeriRight`, `JsonRight`, `SprotoRight`, `BsonRight`, `FramingRight`, `ConfSame`, `CryptRight` |

A property in brackets is a named part of the one before it. The type invariant of a module is a
part of its first property; that of the queue is a property of its own. The parts of the properties of `codecs`: `LpegRight`
(`CompiledMatches`, `AnalysisSound`, `KeysStayRight`), `SeriRight` (`SeriRoundTrip`,
`SeriCutIsNoticed`), `JsonRight` (`JsonRoundTrip`, `JsonNoOverrun`, `JsonAccepted`,
`JsonEscapesRight`), `SprotoRight` (`SprotoImported`, `SprotoHeaderFits`, `SprotoRead`,
`SprotoPacked`), `BsonRight` (`BsonRoundTrip`, `BsonNoOverrun`, `BsonReplacedOnly`,
`BsonObjectsMean`, `BsonUtf8`), `FramingRight` (netpack `NetReassembled`, `NetNothingLeaks`; socket
buffers `BufReads`, `BufNodesKept`; cluster `ClusterWhole`, `ClusterFits`), `ConfSame` for shared
data, `CryptRight` (`CryptTextsBack`, `CryptSecretsAgree`). Every part has a mutant of its own.

Why the bounds are enough for the cases that matter:

* the ring wraps with every offset of `head` and expands twice, from each offset;
* in `dispatch` a message can be in the queue, in the batch and in flight while the
  service is killed by itself, by the other one or during its launch, and both workers
  can hold queues while a third thread pushes; two services are enough for a
  dispatcher, a victim and a launcher, since a service may be the source and the
  destination of its own messages. `MaxSend` counts the messages of services and of
  the sender thread; error replies for dropped messages are not counted;
* the timer's time runs through its whole range and wraps with timers pending in every
  level; two timers suffice for order within a tick. `Delays` holds 0 (due at once), 1,
  and one delay for each of the higher levels. `MaxDiff` = 1: catching up on more ticks
  repeats the same step;
* the handle index wraps, the table doubles twice, also in the middle of
  `ztask_handle_retireall`;
* in `snc` a coroutine waits again, with the same session, while an answer to its first wait is on its way, and a timer
  can be anywhere (in the list, being walked over, queued, removed) when the answer arrives;
* two lists are enough in `snc_waits` for a timer that is moved to a list the walk has passed; `snc` has a timer of another
  service, so that two threads meet at a list;
* in `net` a ring of waiting messages fills and expands; a connection breaks in the handshake, in a header and
  in a body, and is replaced; a slot is used for two sockets while packets of the first are pending, and
  a number is closed and given out again while a slot still has it. The sockets leave `event`, which nothing reads, out of the states (`VIEW`); services
  and numbers are alike (`SYMMETRY`), as no action names one of them;
* in `codecs` each base, width and block size is small enough that values on both sides of every
  limit occur: 1, 2, 4 and 8 byte integers of base 4, short and long strings, full and empty segments,
  runs at their maximum, rings and buffers that grow more than once. `Cluster` uses the real sizes.

Deadlock is checked except where the system may stop: in `dispatch` all services may have
ended with no message left, `handles_race` and `sockets_race` end in a failed
assertion, and the grown inputs and counted calls of `snc`, `net`, `shared` and `codecs` come to an end.

## 5. Where the code and its comments disagree

* **`pool_quit`** - `ztask_start.c:171` says "wakeup all worker thread", but the broadcast
  is commented out and the timer thread blocks on the mutex that the sleeping worker
  keeps: `quit` is never set and the process does not end.
* **`handles_race`** - `ctx->handle` is assigned after the table is unlocked; a second launch
  that doubles the table meanwhile reads handle 0 and `assert(new_slot[hash] == NULL)` fails
  (or the service is stored where its handle does not lead). With launches one at a time the
  table is right (`handles`).
* **`snc_timeout`** - `ztask_timeout_del` releases the spinlock at the start of each walk and takes it
  at the end. When the timer it looks for has just expired, it returns with the lock taken; the timer
  thread and the next `ztask_timeout` spin for ever, and a "wait with a timeout" does not end. `snc_waits`
  shows that it can fail to end in this way, or after another thread worked on a list that `ztask_timeout_del` walked without
  the lock and a timer was lost, and in no other (`OnlyRacesHang`).
* **`sockets_race`** - `assert(s->type == SOCKET_TYPE_RESERVE)` (`ztask_socket.c:185`). Between the compare-and-swap that takes a
  slot (204) and the store of its id (205) the slot still has its old id; a second close of that id sets the type to
  INVALID, and the assertion of `new_fd` fails. `NewFdReserved` in `net` shows that without such a hit (`raced`) the slot is found
  reserved.

Observations met while modelling, which the properties take into account where they concern them:

* core: the launcher gives up its reference (`ztask_server.c:182`) and lists the queue (186), but still sets
  `ctx->init` (184), reads the handle for the log (187-198), and `cmd_launch` reads it again (597). Another worker can have run
  the service to its end and freed it; `NoUseAfterFree` allows these three reads or writes of a freed context, and only when the service has been
  retired meanwhile. Services that keep answering a timer of less than 10 ms with
  another one can hold `timer_execute` in one tick, so `Timer` bounds such timers (`MaxZero` per tick), which
  is what `EveryTimerFires` rests on. `wakeup(m, 0)` of the I/O threads signals only when all workers are counted
  as sleeping, but at most one can be: with two or more workers, I/O messages wait for the next tick of the timer
  (none is lost: `WorkIsTaken`). With harbor id 0 the index of the handles wraps to 0, which is reserved.
* snc: a coroutine has one session for all its waits, so a late answer can resume a later wait after a
  timeout; `OwnAnswers` says exactly when. `coroutine.c` leaves the status SUSPEND while a coroutine runs again.
* harbor: what a slave has read of a frame is not discarded when its connection breaks, so the first frame
  of the next connection can be wrong (`FramesIntact` excludes such connections and only those); the
  reply that the destination is dead is never reached; a message that waited for a name is moved to
  the queue of the node without the handle and goes
  out to handle 0 (`HeadersFilled` names these and no others).
* sockets: `s->start` survives the slot, a start before the connection leaves the socket deaf, an accept is
  lost when the table is full, start and accept on a dead socket get no answer, and a refused receive is reported with the number instead of
  the id. The error of a connect, receive or send closes the number (275, 285, 444) and leaves it in the slot: the close that the service
  answers with closes it again (603), whosever it is by then. A failed 'S' falls through to 't' and closes the
  number that equals the id of the socket. A slot that is taken again between 602 and 603, or while a request of its last socket is on
  the way, has the new socket closed. A send checks the id (633) and sends over what the slot has later (647).
  `ForeignCloseIsSecond` names these closes, and shows that there are no others.
* stm: a reader that has given up its reference may unlock an object that the last reader has freed;
  `FreedLast` says that this window is the only one. monitor: a report may name the callback that is about to
  begin, and mix source and destination of two callbacks if the worker goes on between the reads (`HonestReport` says when it does not). debug channel: a released end keeps its pointer when the other end is still there.
* sproto: a packed stream without its last byte is accepted; packing a run of 256 segments that ends in the padded
  one copies up to two bytes from behind the source; negative decimals come back as large positive ones;
  `import_protocol` switches on the index instead of the tag; an empty schema cannot be loaded.
* bson: pairs that `lua_next` gives before the last index of an array are lost; a key with a zero byte gives a wrong document, a Lua string that begins with a zero byte is taken for an
  object, `ldecode` trusts the length in the document. cjson: "-" alone is a number, text behind a zero byte is
  ignored; 0.3 is read as another number than the one written, 1e999 as infinity, which `json_encode` refuses to write. lpeg: `lp_behind` of a predicate around an open call ends in `assert(0)`.
* netpack: a package returned directly can overtake those in the ring if the caller leaves them there. cluster: the
  comment calls requests of up to and including 0x8000 bytes single, the code cuts at that size into one part; `++session < 0`
  is an overflow of a signed integer. sharedata: integer keys are cut to `int`. crypt: `lfromhex` accepts 'g', a single block of zeros is decrypted by
  a look before the buffer,
  `powmodp` leaves a base equal to P, `ldesdecode` compares an int with an unsigned size.

## 6. Fairness

Weak fairness for every thread that is inside a procedure of the runtime: the operating
system schedules runnable threads, and none of the modelled steps can be disabled for ever by
a step of another thread except by holding a lock, which is modelled. In `Dispatch`
callbacks and init functions return (ZTask cannot preempt a callback; `ztask_monitor.c` only
reports it). Nothing obliges a service to send, kill or launch, or a message to arrive. In
`RWLock` a holder leaves its critical section. In `Timer` the clock advances. In `MCShared` the
monitor thread runs, and a worker that is outside of a callback, while a callback may go on for ever. In
`Snc` the worker runs, and each list of the wheel expires if its lock is free again and again (strong
fairness: `timer_update` spins on the lock, and the worker holds it only for moments unless it has lost it); peers
need not answer. Strong fairness is used nowhere else; accordingly `RWLock` does not claim that a particular
reader gets in.

## 7. Proofs

* **`DispatchProofs`** (every set of services, workers and outside threads, and every weight from -1
  to 3, the entries of the table of the code): `QueueHasOneOwner`, `FreedIsNotUsed` and
  `MessagesInOrder`. The three hold each other up: a queue has one owner because `in_global`
  tells the truth about queues of living services (`Flagged`), which needs that nobody pushes to
  a deleted service, which needs exact reference counts (`Counted`: `ref[c]` is the number of
  holders of `c`), which are kept by owners. `Local` says which variables mean something at which
  label. Order adds `InFlight`: the message a thread is pushing is younger than all that its
  sender has pushed.
* **`HandleStorageProofs`** (every number of contexts and names, every power of two up to 2^24, the
  range of `HANDLE_MASK`, as first size and handle space): `ServicesAreFound` and
  `NobodySurvivesRetireAll` under the hypothesis `QuietGrowth`, that the table never doubles while
  a context in it waits for its handle. The code does not ensure this: the run `handles_race`
  shows what goes wrong otherwise. `OneLauncherIsSafe` needs no hypothesis on what happens: with one launch at a time the
  assertion of the doubling (`NewSlotFree`) holds, services are found, and `ztask_handle_retireall` leaves nobody behind. `StorageIsTyped` and `NamesAreFound` (the
  binary search finds the names that are given) need no hypothesis. Inductive are `Placed` (the
  key of a context masked by the present size is its slot, which doubling keeps), `Scanning` (what a
  pass of retireall has still to meet) and `Named` (the array is sorted and agrees with the
  names given).
* **`SharedProofs`**, about what threads share:
  * `QueueIsTyped`, `QueueSafe`, `QueueIsFifo` (every initial capacity, threshold and message set): the ring
    keeps its bounds, no work is lost, and it implements `Fifo`. The inductive invariant adds `Written`: every
    cell between `head` and `tail` was written. It is needed because a pop hands out a cell. The lemmas give
    the length, the cell of the i-th message with at most one wrap, that a push appends to the contents whether or
    not the ring expands, and that a pop removes the first of them.
  * `WarningsAreHonest` (the same instances): the warnings of a growing queue are of ever longer queues. Added is
    how the stored warning and the threshold relate (`WarningsFit`); `RaisedForm` shows that the loop of doublings ends with
    a threshold at or above the length and less than twice it, or leaves it alone.
  * `PoolHasOneSleeper` (every number of workers and waking threads). The count `m->sleep` is replaced by who
    has the mutex: the worker between lock and unlock is the one that holds it, and `m->sleep` is 1 exactly then.
  * `LockExcludes` (every finite set of threads). Exclusion is not inductive; added are that `read` is the
    number of announced readers (so the writer's test is conclusive) and that the flag is up while a
    thread drains or writes, one at most (so the reader's second look is conclusive).
  * `ReferencesAreExact` (every number of threads and copies, on top of the proof of the lock). Added are
    where each thread is in the lock (`InLock`), what it may do and hold there (`Roles`), that
    the count of the object is the number of ends that can still use it (`Referenced`), and that the
    count of a copy is the number of pointers to it (`CopiesCounted`).
  * `ModulesHaveOneEntry` (every number of threads, names and entries). The look without the lock proves nothing;
    what the second look under the lock has excluded stays excluded until the entry is published,
    because only the holder of the lock adds one (`HasLock`, `Progress`).
  * `ChannelIsKept` (every number of ends that ask and of commands). The count of the channel is that of the open
    ends (`EndsCounted`), and what was read followed by what is in the list is all that was
    written, in order (`AllInOrder`).
  * `ReportsAreHonest` (every number of services and callbacks), the safety half of `MonitorReports`. Added
    are what the monitor's destination says at each step of the worker (`Marked`), that a callback which no check has seen
    yet has raised the version above the one checked (`Noticed`), and that a check which found the version unchanged has met the
    same callback for the second time (`Undisturbed`, `Fresh`).
* **`TimerProofs`** (every number of timers, every `NEAR` of 1 or more and `LEVEL` of 2 or more, every delay
  that is a block of the top level or more below the range of `T->time`, which an `int` of milliseconds,
  in ticks of 10, is): `TimersAreLinkedOnce`,
  `TimersFireOnTime` and the action property `TimersFireInOrder`. The inductive invariant is
  that every timer is in the list where `add_node` would put it now (`Placed`); its due time is the
  present plus what remains, modulo the range (`Due`); and of two timers for one tick the one set
  first comes first (`Ordered`). The lemma `Stays` is the arithmetic of the wheel: when time
  goes on by a tick, only the timers of the one list that `timer_shift` moves are out of place, also
  at the wrap to 0. `MoveListMoves` shows that moving them restores `Placed` and keeps the order.
* **`SncProofs`** (every number of coroutines, waits, requests and lists of the wheel, under the
  hypothesis `MaxCo <= MaxSession` that the sessions last): `CoroutinesAreKept` and the action
  property `AnswersAreOwn`. Inductive are that sessions are given in order and once (`Born`, `Stored`),
  that the chain of coroutines that resumed one another has none twice and none that ended (`Chained`:
  otherwise the end of one would take another out of the tree), that `ztask_timeout_del` walks only
  while a coroutine runs, so that the timer it removes belongs to one that does not wait (`DelPart`,
  `TimerReady`; that a timed wait has its timer on the way holds until two threads met at a list, `raced`), whom each response on the way is for (`Addressed`), and that a coroutine
  without timeouts has at most one response on the way, none while it runs (`Single`).
* **`HarborProofs`** (every number of nodes, names, connections and messages, every first size of the rings, length
  of a header and choice of message sizes): `MessagesKeptAlways` and `FramesIntactAlways`. Neither property is
  inductive. For the order of messages: while the node of a name is unknown, all messages to the name are in its own
  queue (`NamesFit`), what waits for a slave is younger than what its connection has got for the same destination
  (`SlaveFits`), and what the harbor has not taken yet is younger than both (`InboxFits`). A message that was taken is at one of its places or
  was dropped with its node (`NothingLost`), and has its handle unless it is in the queue of a name or was moved from there (`HeadersFilled`). For streams, `StreamsOK`: on
  a connection with a clean start, what the slave holds of a header or a body, followed by what has not arrived, is the rest of
  the stream from the present message on. One round of the loop of `push_socket_data` keeps it wherever the data was
  cut (`StreamRound`).
* **`SocketServerProofs`** (every number of services, slots, socket numbers, ids, calls and accepts): `RequestsKeptAlways`
  and the action property `ForeignCloseIsSecondAlways`. Numbers are given out again, and requests of a socket may be on
  the way when its slot is that of another, so nothing holds of a request and its slot alone. What holds is about ids,
  which are never used again below the bound: an id that is being opened has no socket, no request and no sender
  (`OpeningOK`, `AllOK`), and an open socket whose id is in its slot has its number there (`NumbersOK`). `Reserving` is what
  `new_fd` asserts, for the slots that no old close has hit. The counts of requests in `RequestsKept` are replaced by
  uniqueness and existence (`Unique`, `Receiving`, `Accepting`, `Listening`). `Moves` says of a step which requests
  it makes and which it takes; `NeedsKept` concludes what sockets still have, and each action is then shown to be
  such a step.

Assumptions are the named ASSUMEs of the modules, which TLC evaluates in every run. The bounds of the
runs on counters (`MaxSend`, `MaxArrive`, `MaxZero`, ...) are constants of the theorems too, any natural
number. The inductive invariants were checked with TLC on the instances of the runs before they
were proved.

Loops of the code (the search for a free slot, the binary search, the compaction of names, `move_list`, the rounds of
`push_socket_data`, the doubling of the threshold) are recursive functions. `ProofLemmas` takes them apart: `Rounds` gives the sequence of states of a loop, and
`EveryRound` carries an invariant through it, both from the least counterexample (`LeastElement`),
as the prover has no induction rule for formulas.

Only model-checked: all liveness properties (`EveryTimerFires`, `WorkIsTaken`, `OnlyRacesHang`, the half
`EndlessReported` of `MonitorReports` and the others under fairness), which are outside the prover's reach; and the codecs
and lpeg, which are written with RECURSIVE operators and whose correctness is an induction over data.

## 8. Not modelled

* Vendored code and the Lua and JavaScript interpreters; `ztask_curl.h`, the header of libcurl.
* The Lua runtime and the Lua services (`lua/`), apart from the way they drive the C libraries: they
  are programs of the Lua interpreter. The daemons of the cluster, of multicast and of shared data are not in
  the repository.
* DNS, HTTP, UI: thin layers over libraries of the system; what reaches ZTask are messages.
* Log and error formatting; the environment; the daemon and the configuration; allocator statistics.
* Hash functions (MD5, SHA-1) and the bits of DES, the bits of floating point numbers, the database clients.
* Within modelled parts: the commands that read or set one field, the captures of lpeg, maps of sproto, address
  conversion of the sockets. `PROJECT.json` says so for each component.
