# Verification of eparallel

TLA+ models of eparallel's C++ libraries and servers, the TLC runs that check them on small
instances, and TLAPS proofs of what matters most in them for every instance.

Contents: [components](#1-the-system-component-by-component),
[modules](#2-the-modules-and-the-code), [runs](#3-the-runs), [fairness](#4-fairness),
[proofs](#5-what-is-proved), [what is only model-checked](#6-what-is-only-model-checked),
[not modelled](#7-not-modelled),
[disagreements and known failures](#8-where-the-code-disagrees-with-its-comments-and-tests-and-known-failures),
[what could come next](#9-what-could-come-next).

To repeat a check: `tlc -config MCTaskQueue.cfg MCTaskQueue`. To repeat a proof:
`tlapm TaskQueueProofs.tla`.

## 1. The system, component by component

The repository is a set of libraries, from the bottom up, and two servers on top of them. For each:
its state, its operations, what it talks to, what is hard about it, and what would make it correct.

### be: base library (`src/be`)
Threads, mutexes and semaphores (thin wrappers of pthread, or of Win32), atomics (gcc builtins),
containers (`hash_map`, `list`, `hash_list`, `vector`, `hash_vector`), allocators (`zmem_pool` with
free lists under spin locks, which serves `be::alloc`; `swplfmem_pool` without locks; `mem_cache`),
MD5, DES and triple DES. *Hard*: the pools, which threads share, and the corners of the containers:
growth, an iterator at the end of a chain, a vector that moves its elements both ways. *Correct
when*: a pool never hands out a block twice nor loses one; a container holds what was put in; what is
encoded can be decoded. The modules above use of `be` what it promises: a mutex excludes, a
semaphore counts, a join waits for the thread its handle names. One thing matters above:
`be_mutex_init` makes a *default* pthread mutex, which the holder cannot take again, whereas Win32's
critical section is recursive.

### ep: task queue, thread pool, jobs (`src/ep`)
- **task_queue** (`ep_thread_pool.cpp:7-199`): one FIFO list per priority under `m_cs`, a semaphore
  `m_semp` of permits, `m_size`, `m_total_task_cnt`, `m_stop`. `add_task`, `get_task`,
  `try_get_task`, `del_task`, `stop`. *Hard*: the permit is taken outside the lock and the element
  inside it, so for a moment permits and elements disagree, and `del_task` needs a permit to
  withdraw a task a worker may be about to take. *Correct when*: the two never drift apart, no task
  is run twice or lost, order is by priority then age, and nothing enters after `stop`.
- **thread_pool, thread** (`:201-696`): permanent threads, a ring of temporary thread objects, a
  master thread that starts temporary ones when the queue grew. `init`, `run`, `add_task`, `stop`,
  `free`. *Hard*: a thread object outlives OS threads and may be started again while its last
  one is on its way in or out; `stop` is a protocol of eight steps with everyone still running.
  *Correct when*: `stop` returns, every accepted task is run before it does, and nothing that
  `free` destroys is still in use.
- **job, ctfcb, childtask, combiner** (`ep_job.cpp`): a job owns child tasks, dispatches a callback
  (`ctfcb`) for each to the pool, hears of each end, tells a combiner, counts, and pays one
  semaphore permit that its destructor collects. *Hard*: reports nest (a combiner may cancel the
  job, which reports the children it withdraws), references are counted on the object that waits
  for them, and `m_cs` is taken by its own holder. *Correct when*: each child is reported once, the
  combiner hears "all" once and last, the destructor waits for everyone and returns.
- **parallel** (`ep.cpp`): a registry of jobs by id over one pool. *Hard*: `run_job` and
  `cancel_job` use the job after the registry's lock is released; the counter of ids is shared by all
  registries, each of which locks a mutex of its own. *Correct when*: no job is recycled twice, and
  what lives can be found.

### equeue: durable task queue (`src/equeue`)
Memory: `m_tasks`, `m_cnt`, `m_size`, three id counters, the open log file. Disk: numbered log files
of add and delete records, and a dump file of which only the *name* is used. `init` (replay),
`add_back`, `get_front`, `del`, `dump`, `uninit`. *Hard*: a crash between any two steps and at any byte
of a record, ids rebuilt from the logs, files rotated and replayed in the order of their times,
permits and tasks again. *Correct when*: an acknowledged task survives until its delete is on disk,
a deleted one never comes back, and no log is cut.

### efnfw: network framework (`src/efnfw`)
`net_thread` runs the event loop (epoll), holds connections by id, a queue of operations posted by
other threads (woken through a socket pair), and timers by due time; `connection` and `tcp_conn` own
a socket and a ring buffer (`loop_buf`); `ef_sock` has the blocking calls with time limits;
`msg_queue` hands messages to workers. *Hard*: everything another thread may post or close while the
loop is inside a batch of events, timers that restart themselves from their callbacks, sends in
pieces, time limits that span several waits. *Correct when*: no structure of the loop keeps a deleted
connection, every posted operation is performed, a stream keeps its bytes and their order, a timer
fires in its time, a call with a limit returns in it. `src/common/{base,net}` is an unfinished copy.

### elog (`src/elog`)
Loggers with appenders counted by hand (`get`/`give`); `fileappender` rotates by time; `init`
may reload the configuration while others log. *Hard*: `give` reads the count again after
decrementing it, reloads swap tables while loggers hold appenders of the old ones, a file is tested
outside the lock it is turned over under, a load may fail in the middle. *Correct when*: counts are
exact, an appender is deleted once, when nobody holds it, and never while in use; lines do not go
back to an older file.

### xylx: group_db and its workers (`src/xylx`)
`main` reads a configuration, runs the server itself or in child processes, and waits for a signal.
`g_connection` cuts a stream into an HTTP head and requests; `group_db` feeds a `msg_queue` from the
network thread to workers with a MySQL connection each (`processor`), and stops them by empty
messages. *Hard*: streams in pieces, silence, workers woken by messages a full queue refuses, queries
between which other workers write, statements that fail, deletion of what threads still use.
*Correct when*: requests arrive whole, once and in order; what is accepted is processed also across
a stop; answers tell what the table holds; nothing in use is deleted.

### connection_server (`src/connection_server`)
Acceptors on thread 0, connections on several net threads, a table of sessions all threads share,
and routing of a server's answers to the clients' threads. *Hard*: `on_create` runs on one thread
while the connection's own has its first event; timers that collide; sessions bound to connections
that end. *Correct when*: a session leads to a connection that exists, silent clients are closed,
messages are handled once and in order.

### zvm: object machine (`src/zvm`)
Reference-counted objects with a collector that searches for cycles (`zvm_gc.cpp`), an owner lock and
a spin lock (`zvm_lock`), pools, and an interpreter still under construction. *Hard*: the search
counts paths where it means references; the lock reads owner and count without holding it; failures,
handlers and nested init functions in one loop. *Correct when*: counts are exact, what is in use is
not freed, the locks exclude, a failure is told.

How they interact: everything uses `be`; `parallel` composes jobs with a pool, a pool owns a task
queue; the servers use `efnfw`, `elog` and a MySQL adapter, and no program in the repository yet
joins `ep` to `equeue`. Calls go downwards; upwards there are callbacks only: `task::process`,
`childtask::process`, `combiner::child_task_finish` and `all_child_task_finish`,
`connection::handle_*`, and timers.

## 2. The modules and the code

| module | models | composed with |
|---|---|---|
| `StoppableQueue` | what `task_queue` promises: one atomic priority queue that can be stopped | |
| `TaskQueue` | `ep::task_queue` with permits, lock and counters | implements `StoppableQueue` |
| `ThreadPool` | `ep::thread_pool`, `thread` and its three kinds | `StoppableQueue` is its queue |
| `Job` | `ep::job`, `ctfcb`, `childtask`, `combiner` on a running pool | the pool is its FIFO |
| `Parallel` | `ep::parallel` | |
| `EQueue` | `eq::eq_imp` and its disk | |
| `OpRecord` | the bytes of its log records | why a record of `EQueue` may be one element |
| `GroupDb` | `ef::msg_queue`; `run` and `stop` of `group::group_db`, network thread and workers | |
| `GroupConn` | `group::g_connection` | extends `GroupDb`: a pushed request is its packet |
| `GroupMain` | `xylx/main.cpp`, `init`, `start_thread` and `uninit` of `group_db` | extends `GroupConn`; implements `GroupDb` |
| `Processor` | `group::processor`, `ma::adapter`, `ma::sql_result`, the thread that runs them | |
| `ConnectionServer` | clients, servers, sessions and timers of `connection_server` | |
| `NetThread` | `ef::net_thread`, `connection`, `tcp_conn`, timers, operations, acceptor | |
| `SockIo` | the blocking calls of `ef_sock.cpp` | |
| `LoopBuf` | `ef::loop_buf` and the two ways a connection uses it | |
| `ELog` | `elog`: appenders, loggers, `init`, reload, `uninit` | |
| `ZvmGc` | `zvm::gc`, `user_type`, reference counts | |
| `ZvmObj` | `simple_lock`, `spin_lock`, one `zvm::obj` shared by threads | |
| `ZvmInterp` | `function::process`, `op_process`, frame, op stack and pool | |
| `HashMap`, `HashList`, `BeVector` | the containers of `be` | `HashList` uses `HashMap`'s operators |
| `MemPool`, `SwapPool` | `zmem_pool`, `swplfmem_pool` | |
| `Base64`, `Des`, `Md5` | `elog/base64.cpp`, `be_des.cpp`, `be_md5.cpp` with `be_macmd5.cpp` | |
| `TaskQueueProofs`, `ThreadPoolProofs`, `JobProofs`, `NetThreadProofs`, `GroupMainProofs`, `ServersProofs`, `DataProofs`, `SharingProofs` | theorems | extend the modules they are about (`GroupMainProofs`: `GroupDb`, `GroupConn`, `GroupMain`; `ServersProofs`: `ConnectionServer`, `Processor`; `DataProofs`: `Parallel`, `LoopBuf`, `SockIo`, `EQueue`, `MemPool`; `SharingProofs`: `ZvmObj`, `ZvmInterp`, `ELog`) |
| `MC*` | instances for TLC | `MCData`, `MCZvm`, `MCServers` hold several modules side by side |

Names are the code's: variables are its members, actions its functions, cut at the points where other
threads can act. A definition named `X` followed by what is wrong with it (`PopKeeps`,
`CountOffByOne`, ...), with a comment that starts "Mutant", is a plausible bug in `X` used to confirm
that a property can fail; nothing else refers to it.

**TaskQueue.** A critical section of `m_cs` is one action; a permit take, and the unlocked look at
`m_stop` in `add_task`, are actions of their own. The lists are the set of their entries, an entry
carrying its priority and its rank `seq`, the value of `m_total_task_cnt` when it was pushed: "the
list of priority p" is the entries of priority p by rank. A blocked `be_sem_take` is an action that
is not enabled. `done` is history: how each accepted add ended. The destructor runs once the threads
are out of the queue, as the pool arranges; running it earlier would be a bug of the pool and is
looked at there.

**ThreadPool.** A thread *object* has `status`, `run`, `created` and a handle; an OS thread has a
place (`tpc`). A start of a temporary object takes a new slot and overwrites the object's handle,
which is how an OS thread can be forgotten. The queue is the abstract one, so the pool is checked on
top of the promise `TaskQueue` was shown to keep. The steps of `stop()` are actions of the owner in
the code's order: `m_run`, the queue, the master's `m_run` and join, the temporary joins, the exit
tasks and their refusal, the wait for an empty queue, then `m_run` and join for each permanent
thread. `check_need_more_thread` is split where the code reads what others write: the size, then for
each start the object's status, then the creation. Thread creation does not fail.

**Job.** Each thread has a stack of calls (`process`, `handle`, `stop`), because a report can call
the combiner, which can call `cancel`, which reports other children. `RecursiveMutex` says whether
the holder of `m_cs` may take it again: FALSE is the pthread build, where `run()` blocks; the run
uses TRUE, the behaviour of the Win32 build, to see past it. `stop` withdraws any subset of the
queued children, since `del_task` never finds a task that is not queued and may miss one that is.
`plan`, chosen at the start, is the children, the workers, the retries and `m_autodestroy` of the job.

**Parallel.** A call is cut into its accesses to what threads share: `create_job` reads `s_j_id` for
the job, again for the key, and increments it by a read and a write; `destroy_job` looks up, erases and
recycles; `destroy` walks the map. A job is a record with its id; what it does is the matter of `Job`.

**EQueue and OpRecord.** Disk and memory are separate variables, and `Crash` is enabled at every state
in which the process lives: it forgets memory and threads, never the disk. `add_back` is five steps
(capacity check, file check, ids, record, memory) and a post; `del` three; `get_front` two; `Start` is
the whole of `init`, since no other thread can call the queue before it returns. Failures of `fopen` and
`fwrite` are alternatives of the steps that call them, and so are failures of `fflush`, whose result nobody
looks at (`:313`, `:360`): the call goes on as if its record were on disk (`Unflushed`). Either may have left a
part of the record in the file (`tail`), which is written on until it is full. A write to a file that `dump()` or a
failed open closed meanwhile kills the process (`WriteKills`), as `fwrite` to NULL does. Abstractions: every
task has size 1; a record cut short by a crash counts as not written, which `OpRecord` justifies from
`save_op_to_buf`, `load_op_from_buf` and the loop that reads lengths and records; modification times
are exact, so files sort by id; op id and task id are drawn in one step (two increments under separate
atomics, of which only the pairing could differ); `cont` numbers the call that brought a task, so that
tasks can be followed from life to life; what a start makes of a log in which something was written behind a part
of a record ("garbled") is left to `OpRecord`, and `Start` is not modelled there. `OnDisk` is all logs in the order of a start's reading, each
record with its file; `ReplayOf` what `add_task` and `del_task` make of those that `IsRead`, record after
record. `dump_lives` is history: the lives that wrote a dump file. In `OpRecord` a byte is the number it belongs to and its place
in it, so that bytes that are not those of one number may be any: `LoadFile` is the set of what a start may
load, a garbled length being negative (`record.resize` and `append` throw, and `init` ends with the exception), too
long, or any between.

**GroupDb, GroupConn, GroupMain.** `push_msg` and `get_msg` are two actions each, since the permit is
given after the unlock and taken before the lock. The network thread is modelled as far as this
program needs it: its loop reads `m_run` once a round, performs the posted operations (`process_op`
never counts its rounds, so all of them), and handles events. A message is the number of its packet,
0 the empty one. `stop()` offers its empty messages one by one, each refused by a full queue or
followed by a permit. `GroupConn` takes `NetPacket` from the connection: a stream of pieces (head,
request, text, a request with a wrong header), cut into cells that arrive in any portions, a second
look after each request, and the check timer. What arrives goes through the ring of the connection: `resize`
does not change `m_cap` (8192), and `write` drops what finds no room (`lost`), after which the rest of a
header may be other bytes (`HeaderTorn`). The head ends where `strstr` finds the empty line, which may be behind
text that came first. `GroupMain` adds the life of the program: configuration,
fork, start, signal, stop, `uninit`; a use of a pointer never set, or of a deleted object a thread runs on, is `wild`
and ends the run. `role` is what `child_count` makes of the process; a "negative" one starts the threads and deletes
what they run on, because only a count of 0 leads to `stop()`.
`accepted`, `processed`, `sent`, `pushed` and `exits` are history.

**Processor.** The table `interest_t` is a set of numbered rows. A request is the steps between which
others' statements run: first query, its result or failure, second query, insertion, freeing of
results, answer. Any statement may fail and any result may be lost after it succeeded.

**ConnectionServer.** A handler is one action; `on_create` is one for each of its writes (`epoll_ctl`, `m_noti`, the
timer map, `m_timers`), since it runs on thread 0 while the connection's own thread may already see events and delete
it; `at` says how far it is. A use of a deleted connection may end in `crashed`. Sessions, timers (`m_timer_map`, where
keys may collide) and posted answers are the shared state. A message goes through a ring as in `GroupConn`; after a
loss a header may be taken for any message (`Torn`, `Garbled`). A pass of `process_timer` handles `TimerMax`
timers, and behind a full one `epoll_wait` has `WaitMax` seconds: `pass` holds whose timers the pass handled and
how long the thread waited with others due. `m_noti` is no variable: who may have events follows from the stage.
The threads are those that `run` creates where `start_thread` is called once (section 8).

**NetThread.** What only the loop's thread touches is one record, and a handler an operator that maps
it to its next value; what others touch (`m_ops`, the control datagrams, `m_run`, the timers) are
variables, cut at the points where the locks are let go. Time passes only while the loop waits. A
`plan` bounds what the application and the peers do.

**SockIo.** A call is a record that goes from `io` over `check` to `wait` and back until it is `done`;
the clock counts halves of a millisecond so that rounding shows, `gettimeofday` wraps at the second.

**ELog.** Threads that log are cut at `operator()`, the level test, the write test under the lock, the
write, and the two accesses of `give`. An admin runs `init` or a reload, reading the file three times,
with an edit possible in between, then swaps the tables and gives back the old ones one by one.

**ZvmGc, ZvmObj, ZvmInterp.** The collector takes one step per object of the list, with its search
as a sequence of visits (`Calls`). `ZvmObj` has one action per access to the lock words; the owner a thread
writes there is the low half of its stack's address (`Low`, a constant: two may be equal, and one may be 0, which
reads as free). `ZvmInterp` draws the code of a function as it is reached, so that one run covers every function of
three operations; `pc` has `W` values and wraps. The init function of a class is not run operation by operation: an
`InitEnds` says whether it fails and how (a status, an exception, a NULL), whether a handler of its own catches that
and gives `m_excp` back, and where it leaves the `pc` it shares with its caller.

**Data structures.** The containers are modelled on their memory: buckets and chains, a ring of nodes,
a buffer with a head offset, and each is compared with the map, list or sequence it stands for. The
pools have one action per shared access. `Des` keeps rounds, subkey order, padding and weak-key search,
and leaves tables as fixed functions of the same shape; `Md5` keeps accumulation, the bit count with
its carry (words of `W` bits) and padding, and takes the digest of a block as the block itself.

## 3. The runs

A run takes less than three minutes on two cores. A "passing" run shows its properties on
every state of its instance; the "violation" run shows a statement of a test that the code does not
satisfy.

| run | instance | result |
|---|---|---|
| `task_queue` | 2 producers, 1 permanent and 1 temporary taker, 2 cancellers, 2 tasks, 2 priorities, 2 adds | passes, 58,695 states |
| `thread_pool` | 1 permanent thread, 1 temporary object, 1 producer, 3 adds, busy control on | passes, 93,998 states |
| `thread_pool_stop` | the same with 2 adds | `StopReturns` fails |
| `job` | 2 workers; 3 children without retries, 2 with a retry, 2 with a retry and auto-destroy; combiner and owner that cancel | passes, 109,892 states |
| `equeue` | 2 adders, 1 consumer, 2 adds, 3 starts, 2 dumps, 1 disk fault, 2 records a log file | passes, 968,763 states |
| `group_db` | the program xylx: main, 2 workers, `m_max_size` 1, 1 client with one of 8 streams, a ring of 7 cells, 4 packets, a check period of 1 s | passes, 207,044 states |
| `servers` | `connection_server` with up to 3 clients, 1 server, 2 net threads, a ring of 4 cells and passes of one timer under 5 plans; besides, 2 workers of xylx on a database with 2 persons, 2 texts, 2 rows inserted | passes, 3.1 million states |
| `net_thread` | 1 loop, 2 connections, messages of 2 bytes, 7 plans of traffic and timers over up to 8 ticks, 2 ticks a second | passes, 250,176 states |
| `sockets` | 1 connection, 3 bytes, a kernel buffer of 2, calls of 0 or 2 bytes with a limit of 1 ms or none, 5 ms, 1 fault | passes, 349,296 states |
| `elog` | 2 threads that log, 1 that loads, 5 kinds of configuration file, 1 edit, 2 appenders, 4 ticks, a span of 2 | passes, 510,651 states |
| `zvm` | 3 objects of 3 classes and the collector; 3 threads on an obj; functions of 3 operations out of 25, 3 lists of handlers, 8 init functions, 2 calls | passes, 4.8 million states |
| `data_structures` | eleven components, see below | passes, 1.2 million states |

**task_queue** asks whether permits and elements stay paired when takers and two `del_task` calls
compete. `ExactlyOnePlace` follows every accepted add to one fate; `EventuallyLeaves` says a queued
task is not left beside a blocked worker; `ImplementsStoppableQueue` is the refinement, which holds
order by priority and age although permits are granted in any order, and the second look at
`m_stop`. Two adds suffice for the accounting because a disagreement needs one task, one canceller
and one taker, and for the order because it is a relation of two entries; two cancellers are needed
for the refusals of one to depend on the permit of the other.

**thread_pool** asks what `stop` and `free` may assume. `StopDrains`: nothing is queued, or ever will
be, when `stop` turns to the permanent threads. `FreeAfterJoin`: what `free` destroys is not in use
(by the master and the permanent threads; for the temporary ones see section 8).
`TasksAndStopGoOn`: an accepted task is taken by some thread, and `stop` gets past the master, the
temporary threads and the drain, which is the part of it that does terminate. One permanent thread
and one temporary object already give the double start and the interplay of master, owner and
producer; three adds let the queue grow, shrink and grow again between two looks of the master.

**job** asks about nested and concurrent reports. `AllFinishLast` (each child reported at most once,
"all" once and after every child), `DeleteWaits` and `DeleteReturns` are the contract of
`child_task_finish` and of `delete`. Three children on two workers let one run, one be in its report
and one be withdrawn at once; the other plans add retries, which two workers may pass to each other, and
automatic destruction. `DeleteWaits` names the calls that may outlast the destructor (`Outlasts`): the tails of
reports, and, with retries, a worker that queued a child again and is still to count that, while the other has
run and reported it. That last use of a child after its destruction is section 8's.

**equeue** has three lives of the process. `PermitFindsTask` is `assert(m_cnt)`, also for the permits a
start sets; `Durable` is at-least-once up to the first dump (`Survives`), and no second life for a
deleted task and one place per task until a second life dumps (`NotRedelivered`), as long as nothing was written
behind a part of a record, and for every task but those whose own record a failed `fflush` lost (the four
conditions are failures of the code, section 8). Two records a file make every
second operation rotate; two adds over three starts include a task added in one life, taken in the
next and deleted in the third; one fault reaches every error branch once. Adders are interchangeable
and declared symmetric; the run has no liveness property, for which symmetry would not be sound.

**group_db** composes connection, queue, workers and `main`. `RequestsWhole`: requests are pushed
whole, once, in order, each behind its head, and all that have arrived, until bytes find no room in the ring,
which happens only to a client that sends more than it holds. `SilentClosed`: a client on
which nothing was looked at for long enough is closed. `StoppedAfterWork`: what `stop` promises when it
returns. `RequestsProcessed`: an accepted request is processed, stop or not. `NothingDeletedInUse`:
`uninit` deletes what nobody runs on, a count of children below 0 apart. The eight streams are a head with
three requests, the same with silence, a second head, a wrong header, a stream without a head, text in
front of the head, a request longer than the ring, and more text than the first look takes; a queue of two with two
workers and four packets is filled, emptied and filled again, and refuses packets and empty messages.

**servers** holds two programs, of which the initial state chooses one. For `connection_server`:
`SessionsAlive` (a session and a timer belong to a connection that exists, on its thread, but for the timer of a
client deleted in the middle of its `start_timer`), `SilentClosed` (two periods after the last message, one after it
was made where none came, and what a thread waits behind full passes, if timers did not collide),
`CommandsHandled` (until bytes find no room). The five plans are a client and a server that answers, two clients
over silence, one client over more than two periods, all three without silence, and three clients that send nothing
while a pass handles one timer; one of the requests is longer than the ring. For the workers of
xylx: `AnswersTrue`, that an answer with `SUCCESS` is true of the table whatever others insert between
its queries, that failures are told, and that results are freed once. Two persons are needed for
mutual interest and two texts to tell a message from its answer; two rows are such a pair.

**net_thread** asks what the loop may hold on to. `NothingDangling`: a deleted connection is in no
structure that outlives a turn. `InOrder`: the peer gets whole messages in order, and what is left to
send is watched for. `TimersOnTime`: how late and how early a timer may fire. `PostedOpsRun`: posted
operations are performed whatever becomes of their datagrams. Each plan makes one kind of case happen:
sends in pieces, safe and plain closes, a peer that ends, a start of timers from several sides, timers
of the thread; two expired timers a turn fill `timeouts[]`.

**sockets**: `StreamKept` relates bytes, counts and results of calls cut short in every way; `WaitsInTime`
and `CallsReturn` are the limits. Two bytes a call and a buffer of two make calls take several waits;
two milliseconds a second let the second change within a limit.

**elog**: `AppendersCounted` (counts are exact, what is in use lives), `NoLineInOlderFile`,
`EventuallyDeleted`. The kinds of file are one that is right, another, one that names an unknown
appender, and two that are cut off; a span of two ticks turns the file over twice.

**zvm**: `CountExact` (what the collector counts), `SharedSafely` (the lock of an obj excludes,
`LockExcludes`; with one thread that assigns it, what it refers to is counted, `NoneFreedInUse`; both if the
threads' owners differ),
`BreaksOnlyOnSecondVisit` (the collector frees what is in use only where its search comes to an object
twice), `ResultTells` (a call reports a failure exactly if one happened), `OnceUntilCaughtAgain` (every obj
is in one place, until a stale exception is caught). Three objects make a chain with two paths, a cycle
with a tail and a child with its parent; functions of three operations contain every order of failing,
catching and jumping back. The eight init functions are none, three that succeed after one, some and `RET`, and four
that fail, uncaught or caught, keeping the exception or giving it back.

**data_structures** runs, each from its own initial state: two threads on two registries of jobs
(`JobsRecycledOnce`); a hash map of up to five keys with collisions and growth, iterated and copied,
a hash list, a vector of up to four elements, and two threads with four calls on the pool without
locks (`ContainersAgree`); three threads on a locked pool of two groups (`EveryBlockOnce`); a ring of four bytes
filled three at a time (`StreamInOrder`); base64 of up to five bytes, DES and triple DES of up to nine,
digests of up to 264 bytes in pieces of twelve lengths, a log of two records cut off at any byte
(`CodersAgree`). What `ContainersAgree` excepts is said of each container where it is defined: a vector after a
`push_front` that found it full, a map once it grew through a hash not reduced, pools with more threads than two
(section 8). Five keys fill the first table of three buckets and force growth with chains; five
bytes have every remainder by three; nine bytes are more than one block and not a whole number of
them; the lengths lie on both sides of 56, 64 and 128, and the bit count has ten bits so that it
carries.

`CHECK_DEADLOCK` is FALSE throughout: a queue whose owner has destroyed it, a pool after `free`, a
deleted job, a program that ended and an exhausted bound are places where these systems rightly stop.
Blocking that would be wrong is stated as a liveness property or as an end-state property instead.

Bounds of the models, none of them in the code: `MaxTotal`, `MaxAdds` (adds), `MaxAttempts`
(`process` calls per child, above the code's own `MaxRetry`), `MaxStarts`, `MaxDumps`, `MaxFaults`, `MaxDiskFaults`,
`MaxFiles`, `MaxRecords`, `MaxPackets`, the streams and `ticks` of `GroupConn`, the `Plans` of
`NetThread`, `ConnectionServer` and `Job`, `Total` and `MaxTime` of `SockIo`, `MaxTime`, `MaxApps` and
`MaxEdits` of `ELog`, `MaxObjs`, `MaxOf`, `MaxDepth`, `MaxMade` and `MaxCalls` of zvm, `MaxRows`,
`MaxJobs`, `MaxLen`, `MaxBufs`, `MaxRecv` and `StreamLen`, `MaxBytes`, `MaxMsg`, `MaxMessage`,
`MaxChunks` and `MaxOps`. Small values of the code's own constants (`m_cap`, `groupnum`, `escalate`,
`bucketnum`, `W`, `FrameMax`, `OpStackMax`, `PeekMax`, `Period`, `RingCap`, `TimerMax`, `WaitMax`, `BlockOps`) make their limits happen.

## 4. Fairness

Only weak fairness, and only of steps a thread performs without anybody else's consent:

- `TaskQueue`: a permanent worker calls `get_task` again and again (its loop) and takes a permit when
  there is one; a taker or canceller in the middle of a call finishes it; a task's `process` returns.
  Temporary workers need not call again; adding, deleting and stopping are never owed.
- `ThreadPool`: each OS thread that is not blocked is scheduled; a `stop()` that has begun goes on
  to its next step when that is possible. Adding, beginning to stop and freeing are never owed.
- `Job`: workers and calls under way go on, `process` returns, the owner runs the job and deletes it
  (a cancel is never owed).
- `GroupMain`: the network thread goes on (`epoll_wait` returns after two seconds at the latest), workers
  go on unless the semaphore is zero, `main` goes on. No byte and no signal is owed.
- `NetThread`: the loop goes on, its waits end. Nothing is owed by peers, signals or the application.
- `SockIo`: the thread in a call goes on, time passes, and the network answers a connection attempt
  one way or the other. No reading, sending or closing by the other side is owed.
- `ELog`: a thread inside a call goes on. No call is owed.
- `EQueue`, `ConnectionServer`, `Processor`, the zvm modules and the data structures: none; their
  properties are safety properties.

A mutex or a semaphore is assumed to be granted to *some* waiter; no property needs it to be granted
to a particular one.

## 5. What is proved

For any number of threads, tasks, priorities, connections, messages, packets, jobs and nested monitors,
any lengths and any times; the assumptions are the modules' `ASSUME`s (finite sets of threads, disjoint
roles, thread objects distinct from indices, at least one worker, one group and one block a buffer, owners that are integers, a message has
a byte, a check period shorter than the first reading of the clock, a span of at least a tick, places in code that are
numbers), which TLC evaluates in the runs.
Every inductive invariant below was an invariant of a run before it was proved.

**`TaskQueueProofs`.** The inductive invariant is

    IInv == TypeOK /\ Roles /\ Fresh /\ Finite /\ PermitConservation

`PermitConservation` is not inductive alone: that a taker loses a permit exactly when it enters its
critical section needs `Roles` (a `pc` belongs to a role, a taker holds an entry exactly while it runs
it); that a push adds one element needs `Fresh` (no queued entry has a rank yet to be given); that a
cardinality changes by one needs `Finite`. Four lemmas say how the set of permit holders changes
when a `pc` does, and each action's step cites one of them. From `IInv`:

- `TypeCorrect`, `PermitsConserved`: the conjuncts themselves;
- `PermitNeverInVain`: a permit holder is one of the elements counted, and a positive count has an element;
- `NothingAddedAfterStop` and `ServedInOrder`: action properties, action by action;
- `OnePlaceEach`: each accepted add is queued, in one taker's hands, or has one entry in `done`; the
  invariant is strengthened by `Placed`, which follows the ranks (a rank given is in exactly one of the
  three places, and ranks identify adds);
- `Refinement`: every step is a step of `StoppableQueue` or a stutter. Permit takes and first tests
  stutter; `IInv` excludes the branch in which a taker finds the lists empty.

**`ThreadPoolProofs`.** The inductive invariant is

    IInv == TypeOK /\ Ring /\ Stopping /\ Permanents /\ Joined

`Stopping`: once the owner is past `m_task_q->stop()` the queue is stopped, and past the drain it is
empty. `Permanents`: no `exit_task` enters the queue (all are refused), and before `stop` turns to
the permanent threads none has lost its `m_run` or left its loop. `Joined`: an object whose
`m_create_thread` was cleared has no OS thread left; this is where the join is used, and why it does not
extend to temporary objects, whose handle can name a later thread. `Ring`: a master that creates a
thread has a ring to create it in, without which the index could not keep its type. From `IInv`:
`TypeCorrect`, `StopLosesNothing`, `FreedAfterJoin`, `PermanentsStay` and `NothingAddedAfterStop`.
The step lemmas go by actor (threads, master, producers, owner), since what an actor leaves alone is
the same in all its actions (`ThreadEffect`, `MasterEffect`, `ProducerEffect`).

**`GroupMainProofs`**, first of the queue and the workers (`GroupDb`). The inductive invariant is

    IInv == TypeOK /\ Counted /\ Ordered /\ Accounted

`Counted`: the messages in the list are as many as the permits, in the semaphore, with workers, or owed
by a thread between its push and its give. `Ordered`: an empty message is followed by empty messages
only, there is none before `stop` has joined the network thread, and the network thread does not come
back; so the worker that takes the first empty message leaves nothing behind. `Accounted`: an accepted
message is queued, in a worker's hand, or processed. From `IInv`: `TypeCorrect`, `PermitSafe`,
`NothingLeft`, and `StopProcessesAll`, where all workers have ended, so nothing is in hand and
nothing accepted is queued.

Then of the whole program. `MainImplements`: with the bytes of its connection and the
life of `main` it implements `GroupDb`: a pushed request is a packet, every other step of the connection
and of `main` stutters or is a step of `run` and `stop`. So the theorems above hold for the
program (`MainStopProcessesAll`), and with `Lifecycle` (what was made and deleted in which phase; a
`stop` that returned is not undone) `NothingDeleted` follows: workers and network thread have ended
when `uninit` deletes them, unless a count of children below 0 skipped `stop()`, and a pointer that was never set is
used only then, by the parent of child processes, or where no net thread could be made. `SilenceEnds`: while a connection is open its timer is due
within a period of now, and what the timer let live was looked at within the period before (`Watched`);
the clock must have started later than a period (`ConnAssumption`), as it does in seconds since 1970,
because `m_last_time` starts at 0.

`RequestsArriveWhole` is about what that connection makes of the bytes, for every capacity of its ring, until some
find no room there. `Framed`: until then an open connection has
taken whole pieces of the stream, up to the head and then requests, which are what it has pushed (`SentBefore`), the
ring holds what arrived behind them (`Placed`), and its notification length is at most that of the next piece
(`Expected`), so that a request which has arrived is looked at. After a loss only `Bounded` is left: the ring is not
overfull, and what found no room was of a stream longer than it. That the cells of a stream lie piece after piece (`StreamLaid`) is shown from
the steps of `FlattenSeq`, as in `DataProofs`. It holds for any streams of pieces that are not empty, requests
with a whole header (`ClientsAssumption`); a header that was split leaves the length to the stack, and is
excepted, as in the property.

**`JobProofs`.** The inductive invariant is

    IInv == PType /\ Tokens /\ Counts /\ Told

A child is a token: it is queued, or exactly one frame of one thread's stack will report it, or one frame
has reported it and is on its way to count and to pay, or it is done; `Tokens` says so for stacks of any
depth, which is what makes a report inside a cancel inside a report harmless. `Counts`: `m_finish_num` and
`m_semp` are the numbers of tokens past the count and past the permit, so the frame that
raises `m_finish_num` to the number of children is one frame, and it comes after every report; `Told`: only that
frame tells the combiner, once. From it `LastIsLast`. `DestructorWaits` takes `UInv` besides, which says what a
call rests on: a `stop()` that is not the owner's was called from a report still to be counted, and only where
`MaxRetry` is not 0 does a worker retry. A wait that collected one permit per child then leaves no report
before its last give, so no `stop()` under one, and of `process` only the count of a retry.

**`NetThreadProofs`.** The inductive invariant is

    IInv == Held(net, accepted) /\ left \in Plan /\ ops \in Seq(Ops) /\ batch \in Seq(Events(net))

where `Held` is, besides shapes and finiteness, three relations. `Sent(r, a)`, of a connection and the messages
accepted for it: the bytes its peer has are the first bytes of those messages, `m_msgs` are the messages
of which some are left, and `m_cur_msg_start` is where the two meet. `Watched(r)`: the kernel's set is
what `m_noti` says, with the bit for writing if anything is left, and after a detach everything; so
`set_notify`, which chooses between MOD and ADD by one bit of the old value, is never refused. `Tied(n)`:
each entry of `m_con_map` and of the timer map names a connection of the thread under the key
computed from that connection's own id and timers. Without it detaching a connection would not be known to find
the entries that name it: keys of different connections may coincide, and an entry may have been replaced.
The handlers are operators on the loop's record, and each has a lemma (`DoSendKeeps`,
`RecycleKeeps`, `SafeCloseKeeps`, `StartTimerKeeps`, `OnCreateKeeps`); the actions compose them.
From it `NothingLeftDangling` and `BytesInOrder`. The copy of the expired timers is outside the
invariant: the proofs let it name anything, and so hold for whatever `timeouts[]` contains.

**`ServersProofs`**, of `connection_server`, from

    IInv == Tables /\ Streams /\ Watched

`Tables`: who is in the table of sessions or has a timer exists, under the session and the key it
knows itself by, so that recycling it takes all its entries; a timer whose `on_create` is between `add_timer` and
`push_back` is the one that recycling does not take, and its owner may be gone. `Streams`: until bytes find no room in
its ring, which it never has more in than it holds (`Kept`), the cells of a stream are whole messages in
order (`Cells`), and the buffer of a connection begins where a message does (`Boundary`), or the look-ahead that
was cut is remembered in `m_notify_size`. `Watched` is of time, in three parts. `Noted`: how far `on_create` is with
whom. `Timed`: unless keys collided, a client whose timer was added has it, due within a period and no later than
its last message allows. `Passes`: with no more clients than a pass handles, whose timer the pass handled has none
due, so a full pass leaves none that is due (`FullIsDone`), and no thread waits behind one. From it
`TablesHoldTheLiving`, `NothingLeftBehind`, `SilenceEnds`. Of the workers of xylx,
`AnswersHold` from `ProcInv`, for texts without quotes: at each place of a request, what the worker read is still true
of the table, since rows are only added, and it owns one result per query it has not freed.

**`DataProofs`.** Of `parallel`, `RegistriesKeepJobs`: a job that exists is with the caller that
makes it, in its registry under one id, or with the caller that recycles it (`Places`), the ids of a registry
are below the counter while no two calls have torn it (`Ids`), and then no insertion overwrites one (`Known`).
Of `loop_buf`, `RingKeepsOrder`: the slot of the n-th byte is n modulo the capacity, from which the two
halves of a wrapped read and write follow, for every capacity. Of `SockIo`, `StreamIsKept`: the bytes the
receiver took, those in its buffer and those in the kernel are consecutive numbers up to what was handed over
(`InOneLine`, with one lemma each for a send, a receive and a return); a call under way has moved what is not
left over to where its pointer stands, so that `Returns` tells the truth. `WaitsAreInTime` rests on
`CastMsIs`: `cast_ms` is the whole milliseconds between two readings of the clock, also when the second
changes, for every length of a second.

Of `EQueue`, `QueuePermits` and `QueueDurable`, from

    IInv == Base /\ (DumpsOfOneLife /\ unflushed = {} => \A d \in {OnDisk} : OneLife(d))

`Base` is types, what a dead process has forgotten, `PermitFindsTask`, and that no log is newer than the
file being written (`NewestWritten`), so that a record is always written behind all others; it holds whatever
is dumped, and is proved first (`QueueBase`). `OneLife` is about the disk as one sequence of records. Files
do not fall along it (`DiskOrdered`); a payload is in one add record at most, and in none
while it is on its way there (`Payloads`); what memory and threads hold is on record (`Backed`). The rest is about the
records that the present life has counted its ids from (`Seen`): all of them until a start follows
a dump, then those that start read. Among these an id stands for one task and a delete follows its add, in
the order of the files and of op ids (`Records`); the counters are above them (`Counted`); what is in memory or in a
hand has an id of its own and no delete (`Queue`, `Hands`). `Survives` and `NotRedelivered` are then
facts about one replay (`ReplayKeeps`, `ReplayLoads`): it keeps exactly the read adds that no later read
delete names, each once. The steps that write nothing are treated in one lemma (`Quiet`), as are the steps of
a thread that change memory or ids (`Moves`), the records written and the start (`OneAddSave`, `OneDelWrite`, `OneStart`).

`ReplayOf`, `FlattenSeq` and `RemoveFirstMatch` are recursions over data, so three things had to come first.
A recursive function is defined by `CHOOSE`: that one exists is `StepsDefine`, for
recursions given by a table of steps. An induction is over a set of numbers and takes a least element of
the rest (`SetInduction`, from `WFMin`), a first-order fact where the library's theorem takes an
operator. `FlattenAppend` then says that a record appended to the last file that has any is appended to the whole, and
`ReplayTyped`, `RemoveAtErases` and `DelTaskErases` what a record does to the queue.

Of `MemPool`, `BlocksAreInOnePlace`, from

    PoolInv == PoolType /\ GroupOwned /\ CallHas /\ PoolSplit /\ PoolChain

`PoolSplit`: the free lists, the calls under way and the callers split the blocks of the buffers taken so far, and
neither a list nor a call has one twice. Each step passes one block from one to another (`SplitPasses`) or splits a new
buffer; that `PlacesOf` is then 0 or 1 is a matter of cardinalities (`SplitCounts`), for which a list must not be
longer than there are blocks. `PoolChain`: `memblocks` begins a walk to `NULL` that meets no buffer
twice, and each other buffer is with one call. What makes the exchange safe is in `CallHas`: the buffer of a
call at its exchange points to what the call read, so if `memblocks` is still that, the buffer
goes before the walk (`WalkGrows`); that it was first, passed and first again would do no harm, since nothing is ever
taken out of the chain. `WalkIsChained` says that the walk is what the recursive `Chained` finds.
`GroupOwned` is what `TakeBlock` and `PutBlock`, each one step, rest on: a thread inside a group is alone there
(`PoolIsTyped`).

**`SharingProofs`.** Of the obj of zvm, for threads whose owners differ and are not 0 (`OwnersDiffer`, which nothing
in zvm sees to and without which none of it is true), `LocksExclude`, from

    LockInv == LockType /\ InsideOwns /\ CountIsDepth /\ WaitsForOther /\ NobodyCounts /\ AtCount /\ OneLinks

A thread that sees its own id in `m_owner` before it holds the lock is inside already (`WaitsForOther`),
so the two unprotected reads are harmless; `CountIsDepth` gives the moment at which the lock is let
go. Steps outside the lock are treated in one lemma, those that move owner and count in another.

Of what the obj refers to, `EntriesAreCounted`, for one thread that assigns (with two the code gives an
entry back twice, section 8), from

    RefInv == RefType /\ CountsExact /\ CountedLives /\ NothingOld /\ OldIsThere /\ HandsFree /\ ClearedOnce

`CountsExact` and `CountedLives` are the property. They need what a thread is about to give back: nothing outside its
operations (`NothingOld`), in `set_entry` what the obj still refers to (`OldIsThere`, where the one
writer comes in), and after the last decrement an entry with no reference that no other thread deletes
(`ClearedOnce`). A step of a thread changes sets of threads in that thread only (`OneElement`), so it keeps counts exact if it
changes `refs` by what the thread holds and gives (`StepCounts`).

Of the interpreter, `ResultIsTold` and `ObjsAreInOnePlace`, for every code and every list of handlers that
`CodeAssumption` describes (places are numbers, what an operation pushes or sets is an integer), and an init function
that fails or not and ends at any place, from

    InterpInv == InterpType /\ Tells

`Tells` speaks of the middle of a call, where `ResultTells` speaks of its end: while a function runs, it has failed exactly if
there is an exception or `pc` is at operation 0, and anywhere else the result is `RET_OK`. `InterpType` holds what
a local, a register and the exception may name (`Kept`, `RegsType`). `Once` is no part of the invariant, because a
handler may break it; a step keeps it where it holds. `Apart` is `Once` of any locals, exception and heap, and
one lemma each says what becomes of it when an obj is made (`MadeForLocal`, `MadeForNobody`,
`MadeForException`), given back (`ExceptionGivenBack`, `FrameLeft`) or forgotten (`ExceptionReplaced`); an operation
is one or two of these (`ExceptionReplaced`, then `MadeForException`, for `ATHROW`). `Once` counts places and
does not say that they are disjoint; that the sets add up to their union says it (`LostIsApart`). `Popped` is a
recursion over the locals (`PopsGiveBack`, by `StepsDefine` and `SetInduction` as above).

Of `elog`, `AppendersAreCounted`, from

    ELogInv == ELogType /\ (\A r \in Admins : Built(r)) /\ Counted /\ InForce

`Counted` is the property for every appender, with finiteness, and `InForce` says that loggers in force name
appenders in force. Neither survives a load without `Built`: the loggers of a load name appenders of its own
table, so they are in force when that table is, and an `init` has `m_cs`, with a table in force that names
nothing, so it may drop that table without giving it back. Each step adds one holder (`Log`, new appenders), removes one
(`GiveDec`), passes one on (`FreeOne`) or swaps tables, which is a bijection between the holders before and
after (`SwapCounts`). The theorem is under `NamesDistinct`, that no file names an appender twice: if one does,
the second takes the place of the first in the map, which nobody then gives back. `MCELog` assumes
it of its files, too. `LinesFollowTheirPeriod` adds `FilesInTime`: an open file is of the period of its last opening, not later
than now, and not older than the line of a thread that is about to write.

## 6. What is only model-checked

All liveness (`EventuallyLeaves`, `TasksAndStopGoOn`, `DeleteReturns`, `RequestsProcessed`, `PostedOpsRun`,
`CallsReturn`, `EventuallyDeleted`), which the prover does not do under fairness. Besides:

- `OpRecord`, `HashMap`, `HashList`, `Des`, `Md5` and `Base64` compute recursively, most of
  them with RECURSIVE operators, about which nothing can be proved here (`ContainersAgree`,
  `CodersAgree`). `EQueue`, `ZvmInterp` and `MemPool` show what the same takes where the recursion is a function.
- `BeVector!KeepsSequence`, a part of `ContainersAgree`, has no recursion and is arithmetic over the branches of
  `Placed`; it is checked for vectors of up to four elements and not proved.
- `SwapPool!SwapBlockOnce`, a part of `ContainersAgree`: true of the two threads of the run, not of four (section 8).
- `NetThread!TimersOnTime`: not true of every instance. The bound holds while one or two turns take the timers
  that are due; when many more fall due together than `max_timer_one_loop`, each further turn waits up to two
  seconds before it takes the next ones.
- The collector (`CountExact`, `BreaksOnlyOnSecondVisit`): the search and `clear` are recursions over the graph
  of objects, which end by the flags they set on it.

## 7. Not modelled

Whole parts: `be_thread`, `be_atomic` and `be_time` (wrappers; the modules use what they promise);
`ep_task.h` and the other declarations; logging and utilities of `efnfw`; `elog/sleep.cpp`;
`src/mysql_adapter` (`xylx/mysql_adapter.cpp`, which `Processor` models, without the log lines);
`src/common/{base,net}`, an unfinished copy of `efnfw` that does not link (`del_all_connections` is
called and never defined, `ef_server.cpp` is empty); tests, build files and documents, read for what
they expect.

Within what is modelled:

- failure of `pthread_create` (`thread::run` tests `ret < 0`, which pthread never returns);
- capacity of the pool: `add_task` looks at `m_too_busy` only to name a refusal, so no full queue is
  ever refused; the guard of `AddTaskQueue` shows it; `free()` of a pool with no temporary threads,
  which the code refuses (the guard `NTemp > 0` of `Free`);
- in `EQueue`: files of the same second, 32-bit `atoi` on 64-bit ids, the size of tasks, and `uninit`
  called twice by the destructor;
- in `efnfw`: `sock_is_valid`, UDP, addresses and socket options; `stop_timer` and `stop_time`, which
  nothing calls; `msg_queue::clear`, run when no thread is left; `stop` before the loop has begun;
- in xylx: the reading of the configuration, and texts with quotes; in `connection_server`: `init`, `stop` and
  `uninit`, sends in parts, the cut of a session to 32 bits, and `server_manager`, to which nothing ever adds a server;
- in `elog`: text, and the copying of logger objects;
- in zvm: `clone`, which nothing calls; tables of member functions and static fields, which nothing
  reads; the pushing and popping of frames, which no operation does; `lock_pool`, which has no user; of an init
  function, what it leaves in `ebx`, on the op stack and in `m_ret_obj`, its crash on a handler that is NULL, and that
  it may call others;
- in `be`: comparison of maps, a table of a given first size, copies of lists and vectors,
  `hash_vector` as a container (several of these do not work as written, see below); `lfmem_pool`, which
  no build compiles; `be_fifo`, which nothing uses; the S boxes, permutations and key schedule of DES
  and the mixing of an MD5 block, which are data; base64 characters outside the alphabet.

## 8. Where the code disagrees with its comments and tests, and known failures

One disagreement is a run, since its counterexample is a liveness one that is hard to see otherwise:
`thread_pool_stop`. `tp.stop(); ... tp.free();` (`ep_thread_pool_test.cpp:94-96`) expects `stop` to
return; it refuses its own exit tasks and joins a thread blocked in `get_task`.

The following are stated by definitions of the modules that no run checks, and fail when checked:

| statement | defined as | what happens |
|---|---|---|
| "wait tmp thread stop first" (`ep_thread_pool.cpp:666`) | `ThreadPool!TempThreadsStopped` | an object started twice before its first OS thread announced itself leaves a thread nobody joins |
| `j->run(); ... delete j;` (`ep_job_test.cpp:128-130`) | `Job` with `RecursiveMutex = FALSE` | `dispatch_child_task` blocks on the mutex it holds (pthread build) |
| `j->cancel(); ... delete j;` (`ep_job_test.cpp:147-151`) | `Job!DeleteReturns` without its condition on retries | a child refused a retry is never reported; the destructor waits for ever |
| what `clear` recycles is not in use (`ep_job.cpp:214-257`) | `Job!ChildrenUnused` | `retry_child_task` queues the child before `set_retry_times` (`ep_job.cpp:85-89`); another worker runs and reports it, the destructor passes its wait and recycles the child and its callback, which the first worker then uses (2 children with a retry, 2 workers, 24 steps) |
| a start forgets what was deleted (`case OP_DEL`, `equeue_imp.cpp:212`) | `EQueue!NotRedelivered` without `DumpsOfOneLife` | a task carries the file id of before its record was written (`equeue_imp.cpp:246`), and a start after a dump counts ids from what it reads only (`:202`); a dump of a second life, named after such a task (`:420-427`), brings back older records whose ids were given again meanwhile, and one task's delete erases another. Not in the run: it takes 3 adds, 2 starts, 2 dumps and one record a file (36 steps) |
| a pool for several threads (`swpalloc_test`, `be_test.cpp:283`) | `SwapPool!SwapBlockOnce` with four threads and five calls | `deallocate` counts when it begins (`be_alloc.h:444`) and makes its magic of whatever the count is later (`:455`), so two calls can make the same magic; a third, stalled since it read the first (`:380`), then succeeds with a list that is no longer there, and two threads have the same block (55 steps) |
| "when the size is small,dump to file" (`equeue_imp.h:54`) | `EQueue!Survives` without its condition on dumps | the next start skips the log file that holds the tasks the dump stands for (`equeue_imp.cpp:157`) |
| `add_back` and `del` return what became of the record (`equeue_imp.cpp:306-320`, `:353-367`) | `EQueue!ToldIsOnDisk` | the result of `fflush` is not looked at: a record the disk refuses there is lost, although success was returned and the task is delivered; and a failed write leaves a part of a record in a file that is written on |
| a start reads its logs (`equeue_imp.cpp:176-221`) | `OpRecord!LogCanBeRead` | behind a part of a record lengths are garbled, and a negative one makes `record.resize` (`:184`) or `append` (`:46`) throw `std::length_error`, which ends `init` |
| `db.stop(); ... db.uninit();` (`xylx/main.cpp:90-92`) | `GroupDb!StopReturns` | a full queue refuses a worker's empty message and the join of that worker never returns |
| "close after all send buf has send" (`efnfw`) | `NetThread!ClosedWhenSent` | a connection closing safely still reads, and the end of the stream deletes it with messages unsent |
| the tests of the collector | `ZvmGc!NothingHeldFreed` | an object a variable refers to is freed when the search comes to another by two paths |
| requests and messages up to 1 MB are let in (`group_db.cpp:78`, `client_connection.cpp:55`) | `ConnectionServer!NothingLost`; in `GroupConn`, `~lost` | the ring of a connection holds 8192 bytes: `handle_read` resizes it (`ef_connection.cpp:95-98`), `m_cap` stays, and `write` drops the rest, so a longer message is never complete, and what follows is read in the wrong place |
| `start_timer`, and the destructor that takes its timers away (`ef_connection.cpp:36-41`, `:175-176`) | `ConnectionServer!TimersAlive` | `on_create` runs on thread 0: a connection deleted by its own thread between `add_timer` and `m_timers.push_back` leaves a timer that `process_timer` calls |
| every client has a check timer (`client_connection.cpp:30`) | `ConnectionServer!TimerKept` | all connections have id 0: of two timers of one microsecond the second replaces the first, and a client is never looked at again |
| an obj excludes whoever does not own it (`zvm_obj.h:167`) | `ZvmObj!SharedAnywhere` | the owner is a stack address cut to 32 bits: stacks that have it in common enter together, and 0 there reads as free |
| `vector.push_front(i)`, 65535 times, then `vector.back()` of each (`be_test.cpp:764-792`) | `BeVector!KeepsAlways` | a `push_front` that finds the vector full loses elements |
| a map that grows keeps to its table (`be_hash_map.h:525`) | `HashMap!GrowsInTable` | `resize` uses the hash as it is, not reduced by the number of buckets, and writes past the new table |
| a server's answer reaches its client | `ConnectionServer!AnswersDelivered` | nothing enters a connection in `m_con_map`, so every answer is dropped (`ef_net_thread.cpp:96`) |

What else was met, by component. Where a model has the state for it, the model shows it (the
properties name the exception); the rest was read.

- *ep*: `del_task` may be refused for want of a permit although its task is queued, against the comment
  at `ep_thread_pool.cpp:86-87`. An auto-destroying job with children is never destroyed, since they
  and their callbacks hold references given back only by the destructor. After a `give` a callback reads
  `m_autodestroy` of a job its owner may have deleted (`ep_job.cpp:365`). A retry is queued before it
  is counted (`:85`), so the limit may be passed. `parallel`: `run_job` and `cancel_job` of an unknown id insert NULL, and `destroy`
  then calls `recycle` on it; `destroy` keeps `m_cs` and the destructor calls it again; `s_j_id` is
  shared by registries that lock different mutexes, so ids repeat and a job replaces another; a job may
  be recycled while another thread uses it.
- *equeue*: `m_size` stays too high after a replay with deletes (`equeue_imp.cpp:385`); files of the
  same second are sorted in any order (`:152`); op ids are logged out of order when adders overtake each
  other, against the comment at `:305`.
- *efnfw*: `run()` sets `m_run` on the new thread, after a `stop()` that may have come first
  (`ef_net_thread.cpp:189`); two threads may draw one id (`:58`); starting a timer of the thread a
  second time, or stopping it, uses a NULL connection (`:443`); `tv_usec` may pass a million, and such
  keys are out of order; a timer that takes the key of another replaces it; `tcp_nb_receive` returns -1
  for the end of the stream also after it has read bytes, and the caller drops them
  (`ef_sock.cpp:882`); `sock_is_valid` says different things with epoll and select; `loop_buf::resize`
  does not update `m_cap`.
- *elog*: two `give`s may both see zero (`elog.cpp:537`); `uninit` keeps `m_default_logger` with a
  deleted appender (`:579`); of two appenders of one name the first is never given back (`:258`); a logger with an unknown appender leaves NULL in the table, and a reload
  that fails calls `give` through it (`:360`); a write may find the file closed by a failed opening.
- *xylx*: a second HTTP head on a connection (`xylx_client` sends one per request) is a wrong header
  and closes it; 4096 or more bytes at the first look close it even with the head present; a header in
  parts is read uninitialised; a request longer than the ring is never pushed, and what follows it is misread; a slow
  long request is closed as silent, as is a client silent in its
  first five seconds; a negative `child_count` (`atoi`, `main.cpp:54-56`) starts the threads (`:81-85`), skips `stop()`
  (`:89`) and deletes workers that run (`:92`); `uninit` of a parent, or after a failed init, uses pointers never set; `main`
  ignores the result of `start_thread`; `net_thread` is never deleted. Texts of clients go into the statements as they
  are (`processor.cpp:72-73`, `:130-134`), so what a statement asks is not always what `AnswersTrue` takes it for: the
  property and its theorem are about texts without quotes. The body is taken for a C
  string, so a zero byte cuts it; the content length goes out in network byte order; `cmd` of the
  answer to an unknown command, and `session` and `seq` of every answer, are not set; NULL from
  `mysql_store_result` passes for an empty table; `DB_FAIL` may be answered although the row was
  inserted; a person interested twice is listed twice; workers run without a database connection.
- *connection_server*: a session is cut to 32 bits (`server_connection.cpp:99`); `main` calls `start_thread`, and
  `run` calls it again (`main.cpp:65-66`, `server.cpp:115`): the second `start_ctl` adds a socket that epoll has
  (`ef_net_thread.cpp:85`), fails and closes it, so `run` returns before it creates a thread, and `main`, which does not
  look at the result, waits without any (the model is of the threads `run` creates when this call succeeds); `uninit` deletes net threads before the acceptors
  on them (`server.cpp:93-99`); an event between registration and `start_timer` may delete the
  connection (`client_connection.cpp:30`), also between the two writes of `start_timer`; all connections have id 0, so
  timers of one time collide; behind 256 timers in one pass the others wait up to two seconds
  (`ef_net_thread.cpp:212`, `:315`).
- *zvm*: `MONEXIT` locks instead of unlocking; the condition of `ANEW` is inverted; `ANOTHOR` returns
  NULL; a handler matches only if its range starts at 0, and one with a type never; `m_excp` is kept
  after a catch; `ARET` of a null obj fails; an init function clears its caller's locals and shares its
  `pc`, and a `RET` in it wraps `pc`; one that fails leaves its exception to the caller, whose `pc` goes on where the
  init function's was; the owner of a lock is half an address (`zvm_obj.h:167`); `m_init_function` is not initialised; `set_entry` with two writers
  gives the old entity back twice; `lock_pool` passes the wrong parameter; `clone` returns early with
  members not allocated.
- *be*: `hash_map::begin` looks at as many buckets as there are nodes, `++` and `erase(iterator)` use
  the hash not reduced, `resize` writes with it, `operator==` compares chain order and reads the other's
  buckets without comparing sizes, the constructor with a size sets `m_msxsize` without a table;
  `hash_vector`'s post-decrement moves forward and `back()` dereferences `end()`; the vector's copies
  swap buffers without capacities; `swplfmem_pool` clears half of its buckets, leaves `magic` unset
  unless it is static, and its count wraps; `be_md5` clears only as many bytes as a pointer has; `be_fifo`'s exchange
  covers only half of its word on 64 bits.
- *common/net*: `safe_close` goes on after `delete this`; a send loop never recomputes its length;
  `get_id` returns the value before the exchange; the destructor waits for a state only a running loop
  sets.

## 9. What could come next

1. An abstract life of a job (new, running, over, destroyed) that `Job` is shown to implement and
   `Parallel` uses, so that the two compose.
2. `EQueue` with ties between the times of its files.
3. `ConnectionServer` and `GroupConn` on the loop of `NetThread` instead of the part of it each has.
4. A bound for a timer that counts the turns it may have to wait, in place of `TimersOnTime`.
5. A proof of `BeVector!KeepsSequence` for vectors of every length.
