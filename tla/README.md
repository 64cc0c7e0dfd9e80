# A TLA+ verification of libNetCo-RPC

libNetCo-RPC is a C++ library: stackful coroutines over `ucontext`, scheduled
on a fixed set of *processors* (one thread and one epoll set each), sockets
whose blocking calls suspend the coroutine instead of the thread, and an RPC
framework on top (protobuf services, ZooKeeper for discovery, client-side load
balancing over *doubly buffered* data).  This directory holds TLA+ modules that
model its core logic, the TLC configurations that check them, and theorems
about them that the TLA+ proof system checks.  Paths below are relative to the
repository.

How to read this: section 1 is the inventory of the system, section 2 says how
the models are built, section 3 goes through the modules, section 4 through the
runs, section 5 through the proofs, section 6 lists what the checks found,
section 7 what is not modelled, and section 8 the plan.

## 1. The system

| component | state | operations | who calls it |
|---|---|---|---|
| **DoublyBufferedData** (`include/container/doubly_buffered_data.h`) | two copies of the data, an atomic index, a map of per-thread wrappers (a mutex each), `_wrappers_mutex`, `_modify_mutex` | `GetDataPtr`/`Read`, `~ScopePtr`, `Modify`, `ModifyWithForeground` | both load balancers: reads on each RPC, writes when ZooKeeper reports servers |
| **Processor, Coroutine** (`src/processor.cc`, `src/coroutine.cc`, `src/context.cc`) | two queues of new coroutines, a spinlock, `coSet_`, `removedCo_`, `actCoroutines_`, `blockedCo_[2]`, the current coroutine, each coroutine's status | `goNewCo`, `loop`, `resume`, `yield`, `wait`, `waitEvent`, `blocked_yield`, `killCurCo`, `stop` | its own thread; any thread through `co_go` |
| **Timer, Epoller** (`src/timer.cc`, `src/epoller.cc`) | a heap of deadlines, one timerfd; the epoll set | `runAt`, `getExpiredCoroutines`, `wakeUp`; `addEv`, `removeEv`, `getActEvServ` | Processor |
| **Object pool** (`include/objpool.h`, `include/mempool.h`) | a free list of blocks, a list of malloc'ed chunks | `new_obj`, `delete_obj` | Processor, under `coPoolLock_` |
| **Scheduler, ProcessorSelector** (`src/scheduler.cc`, `src/processor_selector.cc`, `src/netco_api.cc`) | the singleton, the processors, `curPro_` | `getScheduler`, `createNewCo`, `next`, `join` | `co_go`, `co_sleep`, `co_join` |
| **CoMutex** (`include/comutex.h`) | a Spinlock | `lock` (spins through `co_blocked_yield`), `unlock` | user code |
| **BoundedQueue** (`include/container/bounded_queue.h`) | `_count`, `_cap`, `_start`, raw storage | `push`, `elim_push`, `push_top`, `pop`, `pop_bottom`, `clear`, `top`, `bottom` | the latency window of the load balancer |
| **LocalityAwareLoadBalancer** (`src/rpc_proto/locality_aware_load_balancer.cc`) | a complete binary tree of weights over DoublyBufferedData (`weight_tree`, `server_map`), shared `left` sums, a total, a latency window for each server | `add_server`, `remove_server`, `select_server`, `Feedback` | RPC client; the naming service |
| **WeightedRandomLoadBalancer** (`src/rpc_proto/weighted_random_load_balancer.cc`) | the same tree; a window of latencies whose weight is computed and not used | the same; the one that `RpcClientStub` makes | RPC client; the naming service |
| **Naming service** (`src/rpc_proto/zk_naming_service.cc`) | for each method an action: its server list (DoublyBufferedData), the lists of servers to add and to remove; a ZooKeeper session | `ManageLoadBalancer`, `RunNS`, the child watch, `ResetServers`, `LoadBalancerReset` | RPC client, ZooKeeper's watch thread |
| **Registration, ZkClient** (`include/rpc_proto/zk_name_service_register.h`, `src/zk_client.cc`) | ephemeral nodes of a session | `RegisterMethod`, `UnregisterMethod` | RPC server |
| **RPC client** (`src/rpc_proto/rpc_client_stub.cc`) | load balancers by service name | `call`: select, connect, send, receive, feed back | user code |
| **RPC server** (`src/rpc_proto/rpc_server.cc`, `rpc_server_stub.cc`) | services by name | `on_connection`, `process_request` | TCP server |
| **Sockets, TCP** (`src/socket.cc`, `src/tcp/*.cc`) | a descriptor with a reference count | `accept`, `read`, `connect`, `send` over `waitEvent` | RPC client and server |
| **Logger** (`src/log.cc`) | a registry of loggers; for each a level, a formatter, appenders | `getLogger`, `setLevel`, `setFormatter`, `addAppender`, `delAppender`, `NETCO_LOG` | everybody |

How they interact:

- `co_go` asks the Scheduler for a Processor (ProcessorSelector) and calls its
  `goNewCo` on the caller's thread: the block, the queue and the wake-up are
  shared with the Processor's own thread.
- A Processor's thread alternates between its loop and one coroutine.  A
  coroutine hands control back by `wait` (a heap entry), `waitEvent` (an epoll
  registration), `blocked_yield` (an entry of `blockedCo_`), or by ending.
- Timer deadlines and wake-ups by other threads use the same timerfd: each
  arming replaces the one before.
- A load balancer holds its tree in a DoublyBufferedData.  Its readers are
  coroutines on processor threads (`threadIdx` 0, 1, ...) and threads outside
  the scheduler (`threadIdx` -1, all of them the same wrapper); its writers are
  user threads and ZooKeeper's watch thread.
- ZooKeeper's watch thread reads the children of a service node and installs
  them in the load balancer, as does the user's thread that starts the naming
  service.

What is hard here, and what correctness means for each part:

- *DoublyBufferedData*: a reader takes the index and then its copy, with
  relaxed loads and no lock in common with other readers.  Correct: the writer
  never touches a copy in use, both copies get the same modifications, readers
  see one atomically updated value, nobody waits for ever.
- *Processor*: a queue drained without a lock, raw pointers to coroutines kept
  in four lists, blocks that are recycled, one timer with two kinds of writer.
  Correct: each block is in one place, a freed coroutine does not run, a
  suspended one is not forgotten and is resumed for what it waits for, the loop
  never blocks with work to do, `stop` ends it.
- *Scheduler*: lazy start-up and an unsynchronised cursor.  Correct: every
  processor chosen exists.
- *CoMutex*: mutual exclusion among coroutines of several threads, and every
  `lock` returns.
- *BoundedQueue*: indices wrap both ways.  Correct: it implements a bounded
  sequence, and each slot is constructed before it is read.
- *Load balancers*: the left sums are shared by the two copies of the tree
  while weights move.  Correct: when nothing is in progress, each left sum is
  the sum of its subtree and the total is the sum of all; a selection returns a
  server of the tree.
- *Naming service*: two threads install lists, a watch is good for one event.
  Correct: the load balancer ends up with the servers that ZooKeeper has.
- *Registration*: sessions outlive processes.  Correct: a running server is
  registered.
- *RPC client and server*: a request and an answer are each taken from one
  read.  Correct: what a call reports is what happened, as far as the messages
  came whole; a refusal means that nothing ran; calls and connections end.
- *Logger*: getLogger looks twice, the level is read without the lock.
  Correct: threads share the logger of a name, an appender never writes without
  a formatter, a line looks as its format says.

## 2. Conventions

- One variable for each field of the code that matters, with the name it has
  there; one action for each stretch of code between two accesses to shared
  state, named after its function.  `PROJECT.json` maps every definition to the
  lines it stands for.
- A thread's or a coroutine's position in a function is a `pc`-like variable
  (`pc`, `spawn`, `at`).
- Payloads are model values; durations are small numbers; blocks of the pool
  are numbers because the heap's order compares addresses.
- Locks are the name of their owner.  A critical section that only touches
  what its lock protects is one action; one that spans other shared accesses
  is split (`LockQueue`/`PushNew`, `LockWrappers`/.../`UnlockWrappers`).
- Operators named `X_something`, commented "Mutant", are plausible bugs in `X`.
  They belong to no behaviour: the project's checks put each in the place of
  `X` to see that a property notices.

## 3. The modules

### SnapshotRegister, DoublyBuffered

`SnapshotRegister` is the promise: a value changed by atomic commits, and
readers that take a snapshot, hold it and give it back.  It has no buffers, no
locks.

`DoublyBuffered` is the class.  `data[b]` is the sequence of modifications
applied to copy `b` (what the data *is* does not matter to the algorithm; what
has been applied to it does), `index`, `wrappers` (keys of `_wrappers_map`),
`wrapperLock`, `wrappersMutex` and `modifyMutex` are the fields and locks, and
`pc`, `ptr`, `fn`, `pending`, `ret0`, `ret1` are locals.

| action | code |
|---|---|
| `CreateOrGetWrapper`, `StartRead`, `UnsafeRead`, `EndRead` | `create_or_get_wrapper` 188-199; the lock in the ScopePtr; the load of `_index` 174-186; `~ScopePtr` |
| `BeginModify`, `ApplyFirst` | lines 212-217: the guard, the background index, `fn` on that copy.  `fn` is not atomic: the copy is being written while `pc = "first"` |
| `Publish` | line 218 |
| `LockWrappers`, `WaitReadDone(k)`, `UnlockWrappers` | lines 219-224: the map's mutex is held while each wrapper is locked and unlocked, in key order |
| `ApplySecond`, `EndModify` | lines 225-228: `fn` on the other copy, the assertion, the guard's release |

Two threads with `threadIdx` -1 share a wrapper, as in the code.  The model has
sequentially consistent memory.  The code's relaxed accesses of `_index` are
ordered for the properties below by the mutexes in between: a reader's load
follows its lock of the wrapper; a reader who locks it after the writer's
lock/unlock sees the writer's store, and one who locked it before is waited
for.  What relaxed ordering does *not* give is that a reader who sees the new
index without such an edge also sees the contents written before it; that
weakness (`_index.store(bg, relaxed)` at line 218) is outside the model.

A thread uses one ScopePtr at a time: the header warns (line 36) that a
ScopePtr occupies the thread's lock, and a second one on the same thread, or a
`Modify` under one, would wait for a lock its own thread holds.

### CoroutineLife, Processor

`CoroutineLife` is the promise for each block of the coroutine pool: free,
handed out, live, finished, free.

`Processor` is one processor with its threads.

| variables | code |
|---|---|
| `freeList` | the pool's free list, under `coPoolLock_` |
| `newCoroutines`, `runningNewQue`, `newQueLock` | the fields of the same names; `spawn[t]` is how far `t` is in its `goNewCo` |
| `status`, `at`, `todo` | `status_`; the stage of the loop's body and the rest of the list that it walks over |
| `actCoroutines`, `blockedCo`, `blockingCoIdx`, `coSet`, `removedCo` | the fields |
| `cur`, `state` | `pCurCoroutine_` while it has the CPU; `Coroutine::status_` |
| `doing`, `until` | the call the coroutine is suspended in, its deadline |
| `timerCoHeap`, `timerFd`, `now` | the heap in the order of `std::pair`, the expiry the timerfd is armed for, the clock |
| `registered`, `ready` | the epoll set and the descriptors that can be read |

| action | code |
|---|---|
| `NewObj`, `LockQueue`, `PushNew`, `WakeUp` | `goNewCo` 221-241, `goCo` 69-77, by any thread or by the current coroutine |
| `Wait`, `WaitEvent`, `WaitEventReturns`, `BlockedYield`, `KillCurCo` | the calls of a coroutine's body; the body itself is arbitrary |
| `Top`, `EpollWait`, `ResumeNext`, `GetExpired`, `SwapQueues`, `StartNew`, `QueueDrained`, `ActDone`, `EraseDead`, `FreeDead`, `ClearRemoved` | the stages of `loop`, 106-188, each resume one step |
| `Stop` | `stop` 206-209 |
| `Tick`, `FdReady` | the clock; the arrival of data (external) |

`Resume` keeps the tests the code makes: the coroutine must be in `coSet_`
and its status must be ready or waiting.  A descriptor is level-triggered and
is registered for one coroutine; the timerfd holds one expiry, replaced by each
arming and forgotten when it is read.  The heap's push and pop are operators of
their own (`HeapPush`, `PopDue`), and so is what reading and arming the timerfd
makes of it (`Arm`, `Rearm`).

### BoundedSequence, BoundedQueue

`BoundedSequence` is the promise: a sequence of at most `Cap` items, and what
each call does to it and returns.

`BoundedQueue` is the ring buffer: `count`, `start`, `items` are the fields,
`ret` is what the last call returned.  A slot where no object lives holds
`Raw`, so that placement new, assignment and the destructor calls can be told
apart.  `_mod` works on unsigned words: its argument wraps at `Word`.  One
action for each call: `Push`, `ElimPush`, `PushTop`, `Pop`, `PopBottom`,
`Clear`, `Top(i)`, `Bottom(i)`; overloads that differ in whether they copy the
item out, or in pushing `T()`, are the same action.  The queue of no capacity
that the default constructor makes is excluded by `CapAssumption`: `elim_push`
on it writes to storage that does not exist (line 86).

### WeightTree

`WeightTree` is `LocalityAwareLoadBalancer` without the clocks: the complete
binary tree of servers in an array, in two copies, and the numbers that the
copies share.  Callers select a server, call it and feed back; updaters add and
remove servers.

| variables | code |
|---|---|
| `known` | the keys of `server_map_`, the map the user asks, under a mutex of its own |
| `tree`, `server_map`, `index` | `weight_tree` and `server_map` of each copy; the copy in the foreground |
| `left`, `total_weight` | `ServerInfo::left` by position, `total_weight_`: atomics, shared by the copies |
| `weight`, `disabled`, `old`, `inflight` | the fields of `Weight`: `_weight`, `Disabled()`, `_old_index` with its difference and weight, `_begin_time_count` |
| `call`, `update`, `adds` | the locals of callers and updaters; the `fetch_add`s a thread has still to make, as pairs of a set of positions and what is added at each |
| `modifying` | the owner of `_modify_mutex` |

| action | code |
|---|---|
| `BeginSelect`, `Draw`, `LoadLeft`, `LoadSelf`, `AddInflight`, `EndInflight` | `select_server` 125-182: each load of a shared number is a step, the branches are those of the code, with the test of the end of the array in the right branch alone; `AddInflight` 184-200 is one step, as it holds `Weight::_mutex` |
| `AddNext` | one `fetch_add` of `UpdateParentWeight` (bottom up: the largest position that is left) or of the total |
| `Feedback`, `FindServer`, `Update`, `EndFeedback` | `Feedback` 329-347: the test of `server_map_`, the find in the tree's map, `Weight::Update`, the sums |
| `AddServer`, `RemoveServer` | 100-120: the lookup under `server_map_mutex_`, before and apart from the change of the tree |
| `AddNode`, `RemoveNode`, `MoveLast`, `RemoveFromNothing` | `Add` 21-47 and `Remove` 48-97, called once for each copy: the last node takes the place of the one removed, the first call counts its weight at both places, the second carries over what changed in between |
| `BeginModify`, `Publish`, `WaitReaders`, `EndModify` | the `Modify` of DoublyBufferedData, at the granularity of what section 5 proves of it: a reader holds the copy that was current when it began, and a writer changes the other one when nobody holds it |

Abstractions.  What a weight becomes depends on latencies and clocks
(`ResetWeight`, 202-223): here it becomes any member of `Weights`, so that
everything shown holds whatever the window of latencies computes.  Positions,
sums and the dice are the code's.  A thread that reads past the end of the
array, or through the end iterator of a map, is *lost*: it keeps what it holds
and does no more.

### Discovery

`Discovery` composes the servers' registration, ZooKeeper, the client's naming
service and the set of servers of the load balancer that it feeds, for one
method.

| variables | code |
|---|---|
| `sessions`, `node`, `watched`, `events` | ZooKeeper (external): sessions that have not ended, by server and start; the start that owns the server's node; the client's watch on the children; events under way |
| `server`, `starts` | how far each server's process is; how often it has been started |
| `managed` | the method has an entry in `_actions` |
| `copy`, `index`, `modifying` | `_servers_data`, a DoublyBufferedData |
| `toAdd`, `toRemove`, `changed` | `_servers_to_add`, `_servers_to_remove`, `_servers_list_changed` |
| `balancer` | the servers that the load balancer has been told of |
| `pc`, `rest`, `seen`, `phase`, `balancing` | locals of `RunNS`: children whose data is to be read, the new list, the call of `ResetFn`, the calls of the load balancer still to make |
| `dead` | an exception nobody catches has ended the client |
| `latest`, `current` | history: who listed the children last, and whether that list is in the foreground |

| action | code |
|---|---|
| `StartServer`, `CheckExists`, `CreateNode` | a ZkClient, then `create`: `zoo_exists`, and `zoo_create` if there was no node |
| `UnregisterMethod`, `Close`, `Crash`, `Expire` | a regular end (the node is deleted, the session closed) and a crash (the session ends some time later) |
| `ManageLoadBalancer`, `child_watch_cb` | who calls `RunNS`: the user's first call, and each child event |
| `ListChildren`, `GetData` | `GetServers` 30-47: one request that lists and watches; then the data of each child.  For a child that has gone, `get` builds a string from a null pointer (`zk_client.cc:85`) |
| `BeginModify`, `ResetFn`, `BalanceNext`, `Publish`, `EndModify` | `Modify(ResetFn)`: both calls of `ResetFn`, which tells them apart by whether the two lists are empty; within the first one, one call of the load balancer for each server |

The load balancer is a set here: what `add_server` and `remove_server` do to
its tree is `WeightTree`.  Nobody reads `_servers_data` in the RPC client, so
`Modify` waits for no reader.

### WeightedRandom

`WeightedRandom` EXTENDS `WeightTree`: `weighted_random_load_balancer.cc` repeats
its `add_server`, `remove_server`, `Add` and `Remove` line by line, and the
updater's actions are those of `WeightTree` under the names used here.  Its own are

| action | code |
|---|---|
| `Begin`, `Cast`, `Left`, `Visit` | `select_server` 125-169: the node that the dice falls on is taken as it is; on the right the end of the array is tested and the dice cast again (`Right`), on the left it is not (`Down`) |
| `IsKnown`, `Find`, `UpdateWeight` | `Feedback` 268-283 and `Weight::Update` 196-267 |
| `Add` | a new `Weight` begins with an empty window |

`answers[s]` is the number of entries in the window `_time_q` of a server's
Weight: all that decides whether `Update` may read its oldest entry (line 224)
and divide by the entries less one (line 240).  The weight that it computes is
`_base_weight`, which nobody reads.  `failed` remembers that a status other than
SUCCESS was ever fed back: `RpcClientStub::call` feeds back the status that the
caller's header had *before* the call, so that it may be any.

### RpcHeaders, Rpc

`RpcHeaders` is how protobuf writes and reads the two headers: a field with its
default value is not written, one that is missing or cut keeps its default, and
the result of the parser is not looked at.  `Rpc` is a call from
`RpcClientStub::call` to `process_request` and back, over a connection that cuts
what is sent anywhere.  Messages are counted in units: `header_len`, each field
that is written, each piece of the arguments, the answer.

| variables | code |
|---|---|
| `managed` | `m_load_balancer_map`, and the method that each balancer is kept up to date for |
| `registered` | ZooKeeper: the servers whose methods have nodes (how a balancer learns of them is `Discovery`) |
| `server`, `loops` | each server's process; the loops that accept on its sockets |
| `call` | locals of `call`: service, method, arguments, the server selected; `sent`, and what it read and parsed |
| `conn` | the call's connection with the locals of `on_connection`: what was read, what the first read saw, the arguments that the method ran with, the answer, what of it has arrived |

| action | code |
|---|---|
| `BeginCall`, `SelectServer`, `Again` | `call` 21-40, 68-74: the balancer is made by the first call to a *service* |
| `Connect`, `Unreachable`, `Send`, `Recv` | `Socket::connect`, `send`, `read`; `ENETUNREACH` makes `connect` return -1, nobody looks at it, and `read` gets nothing, however often it is woken |
| `start`, `start_multi`, `Listen`, `ListenMulti` | `RpcServerStub::start`, `TcpServer::start` and their multi forms: registered first, then bound; `bind` may fail at each socket, and the rest is left out |
| `server_loop`, `multi_server_loop` | the accepting loops |
| `ReadRequest`, `ReadRest`, `Reply`, `EndConnection` | `on_connection` 42-71 and `process_request` 67-110: the first read is taken for the request, what is left for the next ones; `substr` throws on a cut header, and the exception ends the process |
| `Stop`, `Crash`, `Expire` | a server that unregisters, one that does not, and the end of its session |

### Runtime

`Runtime` is what lies in front of the processors: `Scheduler::getScheduler`,
`ProcessorSelector::next`, `co_go` with and without a tid, and `CoMutex`.

| variables | code |
|---|---|
| `pScher_`, `processors_`, `curPro_`, `scherMtx_` | the fields; schedulers are numbered, so that a second one would be seen |
| `thread` | where each thread is in its `co_go`, with the `n` and the `curPro_` it has seen |
| `co` | where each coroutine is: its processor, and how far it is in lock, sleep and unlock |
| `locked` | the `atomic_flag` |
| `down` | a null pointer has been followed or a vector read past its end |

`++curPro_`, its test and its use are steps of their own (`Next_load`, `_store`,
`_wrap`, `_return`), and a racing read gives either what the thread stored or
what is there.  A processor runs one coroutine at a time (`Resume`); that it
resumes the others is what `Processor` shows.

### LogFormat, Logger

`LogFormat` is `LoggerFormatter`: `init` takes a format apart with a fold over its
characters, `format` shows an event.  `Documented` is the reference, what the
comment at `log.cc:193` says.  `Logger` is `getLogger` for one name and the calls
to the logger that it returns, by several threads.

| variables | code |
|---|---|
| `loggerMap_`, `logger`, `appender` | the map's entry; level, formatter and appenders of each logger made; formatter and level of each appender (a `level_` that no constructor sets is any) |
| `thread`, `lines` | the logger a thread has, the call it is in; what each appender has written, with the format that it had then |
| `raced` | history: two threads made a logger at one time |

## 4. The runs

| run | question | bounds |
|---|---|---|
| `DoublyBuffered_all` | `ReadersExclude` (no reader on a copy that `fn` changes; one reader for each wrapper), `CopiesInStep` (the assertion of line 227, and equal copies between modifications), `ImplementsRegister`: the class implements the snapshot register; under fairness `CallsFinish` | 3 threads that each read and modify, one with a key of its own and two with key -1, 2 modifications of 2 kinds |
| `Processor_all` | `DrainedQueueIsPrivate`, `BlocksAreSound` (each block in one place; only living coroutines run), `WorkWillBeSeen` (every suspended coroutine will be woken, the timerfd is armed for the first deadline, a queued coroutine is never left to a loop that blocks for good), `ImplementsLife`, `ResumedForCause` (of every coroutine that has not given way with `co_blocked_yield`); under fairness, and as long as nobody stops the processor, `WorkIsDone` | 2 blocks, 2 coroutines, one creator thread besides the loop's, 2 suspending calls of every kind, clock up to 2, sleeps of 1 and 2, `stop` at any time |
| `BoundedQueue_ring` | `LiveSlots`, and `ImplementsSequence`: the ring implements the bounded sequence | 3 items, capacity 4, words below 8 |
| `WeightTree_sums` | `SumsSettle`, `RemovedWeigh` (a server that is to be removed weighs something), `TreeIsKnown`, `HeldCopyStands` | 2 callers with 2 selections in all, one updater with 3 operations, 3 servers of which 2 at first: one may be added, and removed before or after it was selected |
| `WeightTree_live` | under fairness `CallsEnd` | one caller with one selection, 2 updaters with 3 operations in all, one server at first |
| `WeightTree_walk` | shows a finding (section 6): `WalkStaysInTree` is violated | the smallest that shows it |
| `Discovery_all` | `BalancerFollowsList` (both copies of the list and the balancer agree), `QuietIsCurrent`, `StaysOffered`; under fairness `OfferedWhileRunning` | 2 servers with 2 starts in all, one user thread and the watch thread |
| `WeightedRandom_all` | `EqualShares`, `NobodyIsLost`; under fairness `CallsReturn` | one caller with 3 selections, one updater with 2 operations, 3 servers of which 2 at first, a window of 2 answers |
| `Rpc_all` | `SuccessIsTrue`, `RefusedForCause`; under fairness `CallsEnd` | one caller that calls again and again, 2 servers with 1 and 2 loops, 2 methods, requests of 3 to 7 units, reads of 5 units, one server stopped or dead on its own besides those that an exception ends |
| `Runtime_all` | `FallsInARace` (a call of `co_go` falls only while it races with another), `MutualExclusion`; under fairness `AllEnd` | 2 threads, 3 coroutines, 2 processors, a tid past the last processor |
| `Runtime_fewest` | shows a finding (section 6): `FewestFirst` is violated | one thread, 3 coroutines, 2 processors |
| `Logger_all` | `SharedUnlessRaced`, `LinesAsDocumented` | 2 threads with 2 calls each, one appender, every format of up to 4 of the characters `%`, `d`, `m`, `x`, and the default format |

Every run but `WeightTree_live`, `WeightTree_walk`, `Runtime_fewest` and
`WeightedRandom_all` also checks the module's type invariant; that of
`WeightedRandom`, the one of `WeightTree` with a bound on the window, is a theorem
(`TypeCorrectW`, section 5).  Those of `Runtime` and `Logger` say more
than types: all coroutines are on processors of the one scheduler, and no
processor runs two; a logger's appenders have a formatter.

Why these bounds are enough.  In `DoublyBuffered` three threads with one shared
key give all the roles at once (a writer, a reader the writer knows, a reader
that registers while the writer is between flip and walk, a second writer), and
two modifications exercise both directions of the flip; the theorems of section
5 cover every number of threads, keys and modifications.  A reader that waits
for `_wrappers_mutex` to register its wrapper counts as idle, so that of a writer
that walks over the wrappers `CallsFinish` says that the writer goes on, and of
such a reader nothing.  In `Processor`, the second of two coroutines is made in
the block of the first, while stale pointers to it are around, or next to it; two
blocks give a list something to be ordered by, and two waits let one coroutine be
resumed from another wait than the one that left the pointer.  Times 1 and 2 distinguish an earlier deadline from a later
one on both sides of a wake-up.  In `BoundedQueue`, capacity 4 of 8 words is the
boundary: `start + count` reaches 7, the largest word, and with capacity 5
`LiveSlots` fails; the refinement is proved for every capacity below the
boundary.  In `WeightTree` three servers give a position whose changes are
added in a left subtree and one whose changes are not, and make the removal of
the first two a move; one caller may change a weight at the old place while
another one changes it at the new one, and three operations in a row show that
what one leaves behind (`old`, `disabled`, the second copy) does not hurt the
next: a server is added while callers have additions to make, so that line 35
computes its weight from a total that is not the sum of the weights, and then
removed.  Two weights, 2 and 3, let a weight rise and fall.

In `Discovery` two starts are either two servers, one of which may come while
the other goes, so that one list adds and removes; or one server started again
before or after its old session has ended.  The user and the watch thread list
at the same time.

In `WeightedRandom` two servers of three let the tree both grow and shrink under
a selection, and a window of two answers can be empty, hold one entry (for which
the divisor is 0) and be full.  In `Rpc` calls are independent of each other but
for the load balancer and the end of a server, so that one that calls again and
again meets servers in every state; the request of three arguments does not fit
into one read (7 units for 5), the one without arguments lacks a field of its
header, and one of the servers lacks a method that its service's balancer may be
asked for.  In `Runtime` two threads race for the first call, and three
coroutines on two processors meet as neighbours and as strangers.  For every
property above that is not a liveness property section 5 has a theorem that covers
every number of threads, blocks, servers and so on (of `RemovedWeigh` and
`SumsSettle` under a hypothesis on what new servers weigh); the runs remain what was
asked first, and what shows that the theorems are about something.  In `Logger` four
characters hold an item between texts, two items, and a `%` without a letter.

`CHECK_DEADLOCK FALSE` in the runs of `Processor`: an idle processor stays in
`epoll_wait`, a stopped one has ended its loop, and the clock is bounded.  In
those of `WeightTree`: the calls are bounded, and a lost thread goes nowhere.  In
those of `Discovery`: starts are bounded, and servers may just run.  In `Rpc_all`
a call may hang for ever, in `Runtime_all` the coroutines are bounded and the
program may fall, in `Logger_all` the calls are bounded.

Fairness.  `DoublyBuffered!Fairness`: a running thread is scheduled (weak
fairness of its steps, and a body of `fn` or of a reader ends), and a pthread
mutex that is released infinitely often is at some time obtained by each thread
that waits for it (strong fairness of the three locking steps in mid-operation;
nobody is obliged to begin an operation).  The second is what Linux's mutexes
do in practice and no standard promises; without it the readers of a shared
wrapper could keep a writer out, in the code too.  `Processor!Fairness`: the
loop's thread runs, a coroutine's body does not keep the CPU for ever, the
spinlock is obtained at some time (strong fairness of `LockQueue` and
`SwapQueues`; it is held for one push), and time passes.  Nobody is obliged to
create coroutines, to send data or to call `stop`.  `WeightTree!Fairness`: a
thread inside one of the four calls is scheduled, and an updater obtains
`_modify_mutex` at some time if it is released again and again; nobody is
obliged to begin a call, nor a server to answer.  `Discovery!Fairness`: threads
and processes in the middle of something go on, an event is delivered, the
sessions of dead processes expire, the user calls the method at some time, and
`_modify_mutex` is obtained by each thread that waits for it; nobody is obliged
to start a server, to stop it or to crash.  `OfferedWhileRunning`
excepts two cases, which the code does not exclude: the client has died, or the
list in the foreground is never again the last one listed.
`WeightedRandom!FairSpecW` is as `WeightTree`'s.  `Rpc!Fairness`: a call goes on
whenever it can, a coroutine that serves a connection is resumed, a loop accepts;
nobody is obliged to start a server, to call, or to have a network, and `CallsEnd`
asks only of servers that in the end run with all their loops.
`Runtime!FairSpec`: threads inside `co_go` go on, sleeps end, a coroutine that
runs goes on, and a processor resumes each coroutine that can be resumed again
and again (strong fairness of `Resume`: a turn of the loop walks over all of
`blockedCo_` and over everything new and due, see `Processor`).

## 5. The proofs

`DoublyBuffered_proofs` proves, for every set of threads and operations, every
set of integer keys, every assignment of keys to threads, and without a bound
on the length of behaviours (`MaxMods` is any value):

| theorem | statement |
|---|---|
| `TypeCorrect` | `Spec => []TypeOK` |
| `Inductive` | `Spec => []IndInv` |
| `ReadersAreSafe`, `WrappersExclude` | `Spec => []NoReadOfWrittenBuffer`, `Spec => []OneReaderPerWrapper` |
| `ReadersAreAlone` | `Spec => []ReadersExclude`, the two together |
| `AssertionHolds` | `Spec => []CopiesInStep` |
| `Refinement` | `Spec => Register!Spec`: DoublyBufferedData implements SnapshotRegister |

The assumptions are the two `ASSUME`s of the module: the keys are integers and
`KeyOf` maps threads to them; the owner of a free mutex is not a thread.

None of the invariants is inductive as it stands: that a reader is not on the
written copy depends on who holds which lock and on how far the writer's walk
has come.  `IndInv` is the conjunction of

- `LockInv`: each mutex is owned by exactly the thread whose position says so;
- `MapInv`: the key of a thread past `create_or_get_wrapper` is in the map, so
  that the walk finds it;
- `PtrInv`: a reader points to the foreground copy, except while a writer is
  between its flip and the end of its walk *and has still to visit that
  reader's wrapper*: this is the reason the algorithm works, and it is what
  makes `second` safe, where nothing is left to visit;
- `DataInv`: the copies differ by `fn` exactly while a writer is between its
  two calls, and the returned values are those of the same copy.

Each is shown to hold initially and to be kept by each action (`IndInit`,
`IndRead`, `IndModify`), with the helper `Exclusion` for the fact that one
modifier excludes another.  The refinement maps `value` to the foreground copy
and a reader's view to the copy it points to.  `Publish` is the commit,
`UnsafeRead` takes the snapshot, `EndRead` drops it, and the rest are stutters;
`ApplyFirst` and `ApplySecond` are stutters because of `PtrInv`
(`ViewStable`).

`BoundedQueue_proofs` proves, for every set of items, every capacity and every
word with `Fits`, that is `2 * Cap <= Word + 1`:

| theorem | statement |
|---|---|
| `TypeCorrect` | `Fits` implies `Spec => []TypeOK` |
| `SlotsAreLive` | `Fits` implies `Spec => []LiveSlots` |
| `Refinement` | `Fits` implies `Spec => BoundedSeq!Spec` |

`Fits` cannot be dropped: with capacity 5 and words below 8, TLC finds two
items in one slot.  The invariant is `TypeOK /\ LiveSlots`, which is inductive, but hard to use as it
stands because it speaks of `_mod`.  The lemmas replace that by `Dist`, how far
a slot is from the start: `SlotValue` computes `_mod` for a sum below twice the
capacity, `SlotInjective` and `StartMoves` say that positions do not collide
and how distances change when the start moves, and `Reach` that the slots in
use are those at a distance below `count`.  `RingIsSeq` turns a ring into a
sequence, and `RefStep` shows, call by call, that the new ring is the new
sequence.

`Processor_proofs` proves, for every number of blocks, creators and descriptors:

| theorem | statement |
|---|---|
| `TypeCorrect` | `Spec => []TypeOK` |
| `DrainsAlone` | `Spec => []DrainedQueueIsPrivate` |
| `BlocksSound` | `Spec => []BlocksAreSound` |
| `LifeImplemented` | `Spec => ImplementsLife`: each block leads the life of CoroutineLife |
| `NothingForgotten` | `OwnDescriptors` implies `Spec => []WorkWillBeSeen` |
| `CauseForResume` | `OwnDescriptors` implies `Spec => ResumedForCause` |

For the first two the inductive invariant `IInv` adds to the types: `HasBlock` (a creator past
`new_obj` has its block), `PushesElsewhere` (a creator inside a push holds
`newQueLock_`, and its queue is not the running one: the queues cannot have
changed roles, because the flip needs the lock), and `FreesOne` (between lines
176 and 181 the list is not empty).  Without `HasBlock` and `FreesOne` not even
the types are inductive: a push would append no block, a deletion would free
the head of nothing.

`BlocksSound` counts blocks, and a count is no form to carry through a step.
`BlocksInv` says instead where each block is: `OneHolder` (two creators do not
hold one block), `NoDoubles` (no list that owns blocks has one twice),
`Placed` (free, held, queued, alive or removed: exactly one of them),
`Finished` (what is on `removedCo_` has ended or is about to, and leaves
`coSet_` before it becomes free) and `Running` (the CPU is with a coroutine of
`coSet_`).  The stale pointers of the loop's lists are no part of it: they are
harmless because `Resume` asks `coSet_` first.  `LifeImplemented` rests on the
same invariant; `LifeIsStage` says which stage of `CoroutineLife` each place
stands for, and each action is shown to move a block by one stage or not at
all.

`NothingForgotten` needs to know where a suspended coroutine will come from.
`WakeInv` has `Wakers` (it is on the heap, in the epoll set, or on a list that
the loop has still to walk over), `Owned` (a registration is for the coroutine
that the descriptor belongs to), `Armed` (when the loop may block, the timerfd
is armed for the first deadline), `Drained` (the queue that is not filled is
empty outside its drain) and `Seen` (a queued coroutine has a wake-up armed or
on its way).  `CauseForResume` has `CauseInv`: coroutines not yet started are
ready, and of those that never gave way with `co_blocked_yield` every list from
which the loop resumes has on it, once each, only coroutines that are still in the
wait that put them there, and whose deadline has passed or whose descriptor can be
read.  The hypothesis is that of the code's use: `OwnDescriptors`, that no
two coroutines wait for one descriptor (one coroutine serves one connection).
Of a coroutine that gave way once the statement is false (`Processor_early`,
section 6), and `ResumedForCause` excepts it: it is the stale lists of the loop,
not `blockedCo_`, that the property and the proof are about.

`Rpc_proofs` proves, for every number of calls, servers, loops, methods and
inputs, every size of the buffer, and every way to cut messages:

| theorem | statement |
|---|---|
| `TypeCorrect` | `Spec => []TypeOK` |
| `Inductive` | `Spec => []IInv` |
| `SuccessTrue` | `Spec => []SuccessIsTrue` |
| `RefusedOnlyForCause` | `Spec => []RefusedForCause` |

from `RpcAssumption` alone.  Neither property is inductive: what a call reports
depends on what its connection's server has seen some steps before.  `IInv` is
the conjunction of `RecordTypes`, `ServerTypes` (a server that is starting has
fewer loops than it is told to, which bounds `ListenMulti`) and, for each call,
`Counted` (what was read is at most what was sent, both ways), `Connected` (the
answer and the arguments of a connection are those that `Answer` and `Args` give
for the units its first read saw; a connection that was never made is empty) and
`Reported` (the status of a finished call is the one parsed from the units it got,
and nothing was got only from a connection that is closed).  The lemmas
`WholeRequest`, `WholeResponse` and `PartOfResponse` say what reading a header, or
a part of it, gives: a part of a response still has the response's status or the
default, SUCCESS.  `SameRequest`, `SameAnswer` and `StepOfOne` reduce a step to the
one call it is about; `EndsIInv` is the end of a server, which closes connections
and changes nothing else about them.  One lemma follows for each action.

`Runtime_proofs` proves, for every number of threads, coroutines, processors and
tids, from `RuntimeAssumption` alone:

| theorem | statement |
|---|---|
| `OneScheduler` | `Spec => []TypeOK`, which has the one scheduler and the one coroutine of each processor in it |
| `Inductive` | `Spec => []IInv` |
| `MutexExcludes` | `Spec => []MutualExclusion` |
| `RacesLeaveNothing` | `Spec => FallsInARace` |

`IInv` adds what the threads know: `SchedulerInv` (the scheduler is number 1 or
not there, it is there for each thread past the lock, and `curPro_` has been moved
for each thread that will test or use it again, so that the index is never below
0), `Placed` (a coroutine is on a processor that has been made) and `Alone`
(`TypeOK` states it with a cardinality, which is no form to carry through a
step).  `RaceInv` says why a race leaves nothing behind: a scheduler without
processors has a thread that is still making it (`SomebodyStarts`), a position past
the last processor has the thread that put it there and has still to test it
(`SomebodyWraps`), and what a thread has read for itself is in range or will be
tested (`Sound`).

`Discovery_proofs` proves, for every number of servers, starts and user threads:

| theorem | statement |
|---|---|
| `TypeCorrect` | `Spec => []TypeOK` |
| `CopiesAgree` | `Spec => []BalancerFollowsList` |
| `NobodyIsDropped` | `Spec => StaysOffered` |
| `QuietListIsCurrent` | `Spec => []QuietIsCurrent` |

The first lemmas are about what `ResetFn` does to a list: a copy that is sorted,
servers appended, servers removed one by one.  `LoopFrom` states the loop of
`RemoveServers` as a function of the turns, `LoopExists` and `RemoveServersIs` what
is left at its end, by an induction over sets of naturals (`LeastNumber`: one that
is not empty has a least member).  `ModifyInv` says how far the copies and the balancer are in each phase
of `Modify`: equal outside it (`Between`, `Begun`); in the middle of the first call the
balancer lacks exactly the calls still to make (`Balancing`); then the other copy
differs by exactly the two lists, which is how the second call of `ResetFn`
knows what to do (`Published`), and after it they are equal again (`Ended`).
`ListInv` adds what `QuietIsCurrent` needs: if the watch is gone, an event is under
way or somebody is about to list (`Told`); as long as it stands, the list that was
read last is ZooKeeper's, and so is the foreground copy if it is that list
(`SeenIsCurrent`, `ForeIsCurrent`).

`WeightTree_proofs` proves, for every set of servers, callers and weights and every
`Scale`, without the bounds on calls:

| theorem | statement |
|---|---|
| `HeldCopies` | `Spec => HeldCopyStands` |
| `KnownServers` | `OneUpdater` implies `Spec => []TreeIsKnown` |
| `TypeCorrect` | `OneUpdater` implies `Spec => []TypeOK` |
| `TypeCorrectW` | `OneUpdater` implies `SpecW => []TypeOKW` |
| `NobodyLost` | `SpecW => []NobodyIsLost` |
| `SharesStayEqual` | `OneUpdater` implies `SpecW => []EqualShares` |
| `SumsAreRestored` | `OneUpdater` and finitely many callers imply `Spec /\ []RemovedWeigh => []SumsSettle` |
| `ServersWeigh` | `OneUpdater` implies `Spec /\ AddedWeigh => []RemovedWeigh` |
| `SumsOfWeighed` | `OneUpdater` and finitely many callers imply `Spec /\ AddedWeigh => []SumsSettle` |

`OneUpdater` says that one thread calls `add_server` and `remove_server`.  In the
program it is the one inside `ResetFn`, which holds the naming service's
`_modify_mutex_`; with two, `TreeIsKnown` and the types fail (`WeightTree_race`,
section 6).  `HeldInv`: a copy that a caller holds is in the foreground, or has
just left it and its updater is waiting for readers; the updater that changes a
copy owns the mutex.  `TreeInv` says, stage by stage of an operation (`Stage`),
that each copy is well formed (a list without doubles and its inverse) and how
the two differ (`Changed`): by one node appended, or by one removed with the last
one in its place.  `TypeInv` bounds what a caller has computed from a copy that
may be gone: its place is a position, its additions are to positions.  `LostInv`
is the walk over the tree as it was at the start: what is left of the dice is never
negative, and the left sum of a node without a left child is 0, so that the dice
does not go there.  `ShareInv` is the accounting
of `WeightedRandom`: `Weighs` says which servers weigh `Scale` at each stage, and
`Owes` what the sums are then, up to the additions that the updater has still to
make (`Pending`).  What the sums are of equal weights is a cardinality (`Share`), which
`ShareNext` computes for one node more.

`SumsAreRestored` is the longest argument.  A sum is made right by many small
additions of many threads, none of which sees the whole, so that no state but a quiet
one has right sums.  What every state has is a balance (`Balance`): a sum and all that
threads have still to add to it (`Ledger`) are together the weights of a tree, up to
what a move has displaced.  `Account` says, stage by stage of an operation, of which
tree: the foreground copy, or the other one from the change of the first copy on; and
while the last node moves, that its old place counts too, with the weight and the
changes that `old` has noted, and that its new place lacks those changes (`Moving`).
`DebtsInv` bounds what a thread has still to add: at most three additions, and those of
a caller are at positions of the copy it holds, so that a new node starts with a left
sum to which nobody adds.  A caller may feed back at the old or at the new place of the
moving node: `MovingReset` shows that either keeps the balance.  The rest are lemmas
about sums over finite sets, proved from the definition of the fold by the induction
over subsets `SubsetInduction`: one summand more, less or another, and with them
`LoadLonger`, `LoadDiffer` and `LoadRemoved`, the sums of a tree that grows, changes or
loses a node.  The hypothesis `RemovedWeigh` is checked by `WeightTree_sums`, and
`WeightTree_zero` (section 6) shows a state in which it is false and the theorem's
conclusion fails; that callers are finitely many is what the sum over them needs.

`ServersWeigh` says where that can go wrong, and that it can go wrong nowhere else.
`AddedWeigh` is about single steps: no first pass of `AddNode` gives its server the
weight 0, the quotient of a total that lags behind.  Then `WeighInv` is an invariant:
every server of either copy weighs something but the one whose weight an updater has
taken away and which it has still to take out of the other copy (`Disabling`), and
that one is not known any more, so that nobody else removes it.  What callers set
weights to does not matter (`CallerKeeps`): `ResetWeight` sets a member of `Weights`,
and a disabled weight is left alone.  In the instance of `WeightTree_sums`
`AddedWeigh` holds in every behaviour, in that of `WeightTree_zero` it does not, and
there both conclusions fail.

`Logger_proofs` proves, for every number of threads, appenders and formats:

| theorem | statement |
|---|---|
| `TypeCorrect` | `Spec => []TypeOK` |
| `LoggerIsShared` | `Spec => []SharedUnlessRaced` |
| `Inductive` | `Spec => []IInv` |
| `PlainShown` | for every plain format `f` and every event, `format(init(f), event) = Documented(f, event)` |
| `LinesShown` | `Spec => []LinesAsDocumented` |

`IInv` has, besides the types, `HoldsLogger` (who is past `getLogger` has a logger
that was made), `Formatted` (an appender has a formatter from the moment that
`addAppender` puts it into a logger's list, whoever deletes or adds it meanwhile)
and `OneMaker` (unless two calls have raced, whoever is about to make a logger is
alone, and the map has none yet).  `FormatterAssumption` says that the absence of a
formatter is not one of the formatters, `FormatsAssumption` that a format is a sequence
of characters.

`PlainShown` is about data, and for formats of any length.  The fold of `init` is a
loop over the positions of the format: `TurnsExist` and `InitIs` take from the fold's
definition the sequence of states that the loop goes through, one for each number of
characters read.  `Kept` is the loop's invariant: what the pieces made so far show, the
text since the last letter, and the documented line from there on are the documented
line, and that text has no `%` in it; a `%` just read waits for its letter.
`StepPercent`, `StepText` and `StepLetter` keep it, one for each branch of the body;
`StepLetter` has the case of `%d`, which takes one character too many and does no harm
only because a plain format has no text before it.  `Renders` does the same for
`format`, `Line` for the documented line, which is recursive from the other end.  The
induction over the number of characters is that of a set of naturals without a least
counterexample (`NatSetInduction`).  `LinesShown` adds that a line, when it is written
with the formatter its appender has at that moment, is that of the formatter's own
format and of the event (`LinesInv`): setting a formatter later changes no line.

Model-checked only: every liveness property, as liveness under fairness and
`ENABLED` are out of the proof system's reach here (`CallsFinish`, `WorkIsDone`,
`CallsEnd` of both modules, `OfferedWhileRunning`, `CallsReturn`, `AllEnd`).  Proved
under a hypothesis that the code does not ensure: `RemovedWeigh` and `SumsSettle`, which
are not true of all constants (`WeightTree_zero`, section 6); and, under `OneUpdater`,
what is said of `add_server` and `remove_server`.  The induction theorems of the
library take an operator as a parameter, which the provers here cannot instantiate:
where an argument is by induction over data (sums over finite sets, characters of a
format), it is over a set and proved from the least counterexample.

## 6. What the checks found

The runs `WeightTree_walk` and `Runtime_fewest` are ones that TLC must find
violated; the texts that they contradict are quoted in `PROJECT.json`.  The other configurations named here belong to no list of runs:
`tlc -config X.cfg MCY` shows each.

- `WeightTree_walk`: the first change of an updater (a node added to the
  background copy, or one removed from it) already changes the shared left
  sums, while callers walk over the copy without it.  The right branch of the
  walk tests for the end of the array, the left branch does not (line 142), and
  a caller can follow a left sum to a node its copy does not have.  In
  `WeightedRandom` the same line is the reason why `NobodyIsLost` speaks of trees
  that have not changed.
- `Runtime_fewest`: a coroutine that is created without a tid goes to the
  processor that has the fewest coroutines, say `scheduler.h:8` and
  `coroutine.h:11`.  The selector that the scheduler makes takes the processors in
  turn (`processor_selector.h:18` makes `ROUND_ROBIN` the strategy, and nobody sets
  another), and it counts neither the coroutines that have ended nor those that
  were given a tid: with two processors, the third coroutine goes to the one that
  has one instead of to the one that has none.
- `WeightTree_zero`: `Remove` takes a removed weight of 0 to mean that it is at
  the second copy (lines 57 and 69).  A server gets the weight `total / n` when it is
  added, and the total may lag behind by additions that callers have still to make:
  between `1 - n` and `n - 1` it gives 0.  If such a server is removed before it is
  first selected, and is not the last node, both passes take the branch of the
  second copy; the last node moves, and its weight stays counted at its old place
  and is missing at its new one, for ever, although the comment at
  `locality_aware_load_balancer.h:19` says that the sums agree in the end.  With
  weights of 1000 and more the total must come to lie in a very small
  interval: the case is possible, not likely.
- `WeightTree_race`: `add_server` and `remove_server` change `server_map_` in
  one critical section and the tree in another.  A `remove_server` that comes
  between those of an `add_server` looks up a name that the tree's map does not
  have, takes its position to be 0, and removes whatever server is there,
  although the comment at `locality_aware_load_balancer.h:140` says that asking
  first avoids the race.
- `Processor_early`: the loop walks over `blockedCo_` without clearing it.
  A coroutine that called `co_blocked_yield` once is resumed on later turns
  whatever it waits for: `co_sleep` returns early (`EveryoneResumedForCause`).
- `WeightedRandom`, in general: `NobodyIsLost` holds while servers neither come nor
  go and no status but SUCCESS is fed back, and says nothing after that; what
  happens then is the divisor of 0 (`weighted_random_load_balancer.cc:240`), the
  oldest entry of an empty window (line 224), and a node that a caller's copy does
  not have.  `Feedback` does all this in the client's process, which ends; `Rpc`
  does not model that.
- `Logger`: two first calls of `getLogger` race, and each makes a logger; then one
  thread's level and appenders are not those of the others.  `SharedUnlessRaced`
  says that nothing else splits a name's logger.  `addAppender` reads `formatter_`
  outside the lock under which `setFormatter` writes it (`log.cc:35`): a data race
  on a shared pointer, which the model does not represent.
- `Discovery_order`: the children are listed outside any lock and installed
  under one.  The user's thread lists, the watch thread lists and installs a
  newer list, and the user's thread installs its own over it; no event follows.
- `Discovery_restart`: a server that starts again before its old session has
  expired finds its node and leaves it alone; the node goes with the old
  session, and the running server is offered to nobody.
- `Rpc_success`: a server stops while a client waits for its answer, `read`
  returns 0, the buffer of zeroes is an empty header, and its status is SUCCESS:
  `call` reports that a method has run which has not.  A cut answer does the
  same, if its status is what was cut off.
- `Rpc`, in general: one read is taken for one message.  A request larger than
  the server's buffer, or cut by the network, runs with fewer arguments than it
  has, and its rest is answered as a request of its own; a cut in its header ends
  the server by an exception of `substr` (`rpc_server_stub.cc:92`).  A service's
  balancer follows the servers of the method that was called *first*
  (`rpc_client_stub.cc:26`): other methods may be sent to servers that lack them.
  A client without a network never returns: `read` is woken by `EPOLLHUP` at once
  and calls itself, one stack frame deeper each time, as `connect` does when a
  server refuses (`socket.cc:187`).  An answer longer than the client's buffer of
  4096 bytes is copied from behind its end (`rpc_client_stub.cc:62`), and two calls
  look into `m_load_balancer_map` while a third puts a balancer into it
  (`rpc_client_stub.cc:34` and 58 are outside the lock of line 25).
- `Runtime`: overlapping calls of `co_go` may find a scheduler without
  processors, read its vector while it grows, or take an index past its end:
  the program falls.  `FallsInARace` says that it falls in no other case, and
  `AllEnd` allows it to.
- `LogFormat`: `%d` leaves its `%` in the text before it (line 211 copies one
  character more than the other cases); `%N` and `%c` show nothing; after an
  unknown letter, the next known one is taken as if it followed the `%`.  `Plain`
  excludes these formats.  Two items do not show what the comment says of them,
  and the model, which shows them by their letter, does not tell: `%n` is `\r\n`
  in the comment (line 204) and `std::endl` in the code (line 175), and `%F`, the
  coroutine's id, is always -1 (`log.h:25`).  The levels of appenders are compared with `>`, those of
  loggers with `>=`, and `level_` of an appender is set by nobody.

Seen while modelling, and shown by no run: a coroutine that goes to sleep
re-arms the timerfd for its own deadline (`timer.cc:58-62`), also when `goCo`
has just armed it to wake the loop, so that the new coroutine is not run at
once, as the comment at `processor.cc:75` says, but at the first deadline
(`WorkWillBeSeen` and `WorkIsDone` bound the delay).  `stop()` writes a
status that an idle loop does not read, and `join` waits for ever.  Feedback
finds the `Weight` by name, so that a call begun before its server was removed
and added again is counted off the new one.  `zk_client.cc:9`: the session's
watcher posts a semaphore on a stack frame that is gone by the time of a later
session event.  `zk_naming_service.cc:33`: `children` is not initialised when
listing fails, as it does for a method nobody has registered.

Also worth knowing: `ModifyWithForeground` gives its `fn` the foreground copy
besides the background one.  In `DoublyBuffered` `fn` is a function of the copy that
it changes; `Add` of the load balancers, the one `fn` that looks at the other copy,
does so in `WeightTree` (`AddNode` reads `server_map[index]`).  `WithFg0` and
`WithFg1` of DoublyBufferedData compute the foreground index from the address of the wrong operand and would
not do what their two-argument sibling does, but nothing instantiates them;
`RemoveWrapper` and `goCoBatch` have no caller.  `getCoCnt` subtracts finished
coroutines from a set that some of them have already left (`EraseDead`), so the
difference may be below zero.  A capacity above 2^31, which `max_capacity()`
allows, makes `_start + _count` of BoundedQueue wrap before `_mod` sees it.
`Feedback` of the load balancer dereferences the result of a find that may fail
when the server is removed at that moment (`FindServer`).  The weight of a new
server is a quotient of the total, which may lag behind so far that it is
negative (with weights 1 and 4 and two callers, say); a negative weight is a
disabled one, and the server is then never chosen.

## 7. What is not modelled

- The depth of a coroutine's stack (`connect`, `read` and `accept` call themselves
  to try again); a data race as such, where the model gives each side a value.
- What the rest of a request is when it is taken for a request of its own: units of
  arguments have no content in `Rpc`, and so no rest names a service by chance.
- System calls that fail (`epoll_create`, `timerfd_settime`, `malloc`), the
  register and stack switch itself, the growth of pools.
- Memory orders weaker than sequential consistency (see section 3).
- Two coroutines that wait for one descriptor: the library has one coroutine
  per connection, and the instances give each coroutine its own.
- A negative initial weight in the instances of `WeightTree`: with weights 2
  and 3 the total does not fall that low (see the end of section 6).
- ZooKeeper's failures: lost connections, the expiry of the client's own
  session (the code handles no session event), a listing that fails.
- The batch functions of the load balancers, whose bodies are empty, and the
  weight that `Weight::Update` computes from its window of latencies: in
  `WeightTree` it is any of `Weights`, in `WeightedRandom` nobody reads it.
- The selection strategy `MIN_EVENT_FIRST`, which nothing sets; `join` and the
  end of the scheduler.  With the static `pScher_` never deleted, the destructor
  does not run.
- Two calls in flight at one time in the instance of `Rpc` (the proofs cover
  them); methods that fail or throw; a method registered after the start of the
  server, which the code does under no lock; long connections, which the code does
  not have; send buffers that are full, after `EPOLLOUT` has said they are not.
- UDP, the socket options, `TcpClient`, the default echo connection.
- Loggers of several names, the opening of files, the appearance of dates, levels
  and numbers, the rest of protobuf's generated code, the message of the examples,
  the JSON header, the examples.

## 8. Plan

What would come next, most important first.

1. The latency window of `LocalityAwareLoadBalancer` as a pure computation,
   checked on bounded inputs against the formula of `docs/LALB.md`.
2. `Rpc` composed with `Discovery` and `WeightedRandom`, so that the list a call
   chooses from is the one the watch has installed.
