# z_project in TLA+

Models, model checks and proofs for the C++ code of z_project. Paths below are
relative to the repository (`modules/...`, `app/...`).

| module | what it is |
|---|---|
| `ThreadPool` | the worker pool: submit, workers, destructor |
| `TaskExecutor` | what callers of the pool may rely on, without threads or locks |
| `SafeQueue` | the blocking queue with a capacity, `stop()` and `clear()` |
| `BoundedBuffer` | what users of the queue see |
| `Timer` | the timerfd/eventfd/epoll timer and its worker |
| `Ipc` | the System V message queue, its senders (pub_node) and receivers (sub_node) |
| `Mailbox` | what processes that share the message queue may rely on |
| `Logger` | the logger, its dated directories and the time-cost utilities on a shared disk |
| `Options` | declaring and parsing command-line options, and the `ParseResult` |
| `IntegerParser` | `integer_parser<T>()` for integer types of any width |
| `Config` | `LoadFile` and `GetParam` on the nodes of a YAML document |
| `MCThreadPool`, `MCSafeQueue`, `MCTimer`, `MCIpc`, `MCLogger`, `MCOptions`, `MCIntegerParser`, `MCConfig` | instances for TLC |
| `ThreadPoolProofs`, `SafeQueueProofs`, `TimerProofs`, `IpcProofs`, `LoggerProofs`, `OptionsProofs`, `IntegerParserProofs`, `ConfigProofs` | theorems about the components, checked by TLAPS |

To check: `tlc -config pool_bounded.cfg MCThreadPool` and so on for the other
`.cfg` files; `tlapm ThreadPoolProofs.tla` for the proofs.

## 1. The system

z_project is a library of building blocks for a Linux service, two small
programs that use it, and vendored libraries.

**ThreadPool** (`modules/common/include/common/thread_pool.hpp`). State: the
atomic `stop_`, the queue `tasks_` with the optional bound `max_queue_size_`, a
mutex, `cv_` (workers wait for tasks), `cv_producer_` (callers wait for room),
the threads. Operations: constructor, the worker loop, `submit`, `pending_tasks`,
destructor. Hard: the destructor stores `stop_` and notifies without the mutex;
both `notify_one` calls run after the unlock; tasks may submit tasks. Correct
when: no accepted task is lost or run twice, none waits while workers sleep,
the bound holds, and the destructor returns after all accepted tasks have run.

**SafeQueue** (`safe_queue.hpp`). State: `queue_`, `capacity_`, `stopped_`, a
mutex, one condition variable. Operations: `push`, `try_pop`, `pop`, `stop`,
`clear`, `size`, `empty`, the destructor, which is `stop`. Hard: consumers that
were woken compete with `try_pop`, `clear` and other consumers; `stop` sets the
flag under the mutex and notifies outside of it. Correct when: no element is
left to sleeping consumers, `stop` reaches everybody, first in is first out.

**Timer** (`timer.hpp`). State: `is_running_`, the interval, three descriptors,
`thread_`; in the kernel the unread expirations, the eventfd's counter and the
ready list of epoll. Operations: `start`, `stop`, the worker, the destructor.
Hard: edge triggering, the race of stop and expiration, descriptors that
outlive `stop`, failures half-way through `start`. Correct when: one callback
per expiration, none after the worker was joined, no lost edge, no worker left
behind, `stop` returns. A second `stop` at the same time returns at once, before
the first has joined the worker.

**MessageQueue, pub_node, sub_node** (`modules/ipc`, `app/ipc_app`). A System V
queue shared by processes; `send` may drain it first, `recv` blocks; sub_node
has a signal handler that logs and takes a backtrace. Hard: the queue outlives its
processes, several senders drain and send, `msgsnd` blocks on a full queue, the
handler runs inside whatever it interrupted, on any of three threads. Correct when: a
message is received at most once and in order, and a drain throws away only what
a younger message replaces.

**Logger, LoggerManager** (`logger.cpp`). spdlog's registry, its global
asynchronous pool, the names this logger registered, and on disk a directory
per day and start, removed after `LOG_MAX_DAY` days. Hard: `init` called twice,
destruction order, two processes that clean up. Correct when: what was logged
before a flush reaches its sinks, and no directory in use is removed.

**Config** (`config.hpp`, `config.cpp`). A graph of yaml-cpp nodes: an alias is a
second edge to the node of its anchor. `LoadFile` assigns it, also when it then
reports that the file is empty; `GetParam` subscripts nodes that are not const,
which enters the keys that are missing and makes maps of nulls and lists. Correct
when: every answer is what the file says that was read last.

**Command-line options** (`cxxopts.hpp`, a vendored header among the module's
own). Declared options under several names, with storage
of their own or bound to a variable of the caller's (`value(T&)`); `parse` walks over the arguments,
with values after `=`, in the same group or in the next argument, positional
places, defaults and what follows `--`. Hard: four containers that tell the
same story (`count`, `as`, `arguments`, `defaults`), the order of defaults and
remaining arguments, exceptions half-way. The integer parser checks for
overflow in unsigned arithmetic of the type's own width. Correct when: no
argument is lost or used twice, the views agree, and an integer is parsed to
the number its text denotes or refused.

**FileManager**, **time-cost utilities**, **Singleton**: file-system helpers
that keep no state, a static table of durations that `DumpIntoFile` writes
transposed, a function-local static.

How they interact: pub_node submits a send to a ThreadPool; both programs
initialise the Logger first, which asks FileManager for the directory; Config
and the time-cost utilities log through it; timer_node starts a Timer, sleeps
and stops it. ThreadPool, SafeQueue, Timer and the options use no other
component, so each is modelled by itself against arbitrary callers. Logger,
LoggerManager, `GetLogDirectory` and TimeCostEva meet in the files they write and
share one module; so do MessageQueue, the two programs and, as far as the signal
handler needs it, the queue of spdlog.

`PROJECT.json` lists every component with its status and every hazard with the
line where it bites and the properties that watch it.

## 2. What is modelled

A condition variable is the set of threads asleep in it, given by the program
counter. A step is what a thread does between two points where another thread
could see a difference. Two windows are kept open on purpose: between the
evaluation of a wait's predicate and the sleep the thread still holds the mutex
(`doze`, `hold`), and a notification after an unlock is a step of its own
(`signal`, `freed`, `notify`). Waits may return spuriously.

### ThreadPool

| code | model |
|---|---|
| `stop_`, `tasks_`, `mtx_` | variables of these names; `mtx_` is the owner or `NoThread` |
| `cv_`, `cv_producer_` | `At("asleep")`, `At("blocked")` |
| `submit` | `SubmitCall`, then `SubmitThrow` or `SubmitMustWait`, `SubmitSleep`, or `SubmitHasRoom`, `SubmitPush`, `SubmitNotify` |
| worker loop | `WorkerMustWait`, `WorkerSleep`, `WorkerExit`, `WorkerPop`, `WorkerNotify`, `WorkerFinish` |
| body of a task | may call `submit` once (`Child`); an exception stays in the packaged task |
| `~ThreadPool` | `DtorStore`, `DtorNotify`, `DtorJoin` |
| | `accepted`, `done`, `refused` record what happened to each task |

`stop_` is loaded twice in a critical section, in the predicate and after the
wait. Both loads are one step: `stop_` only goes from false to true, so a second
load that sees the store is the same as a first one that sees it, just before.
Callers do not call `submit` on a pool whose destructor has returned.

`TaskExecutor` is the promise to callers: tasks start in the order of their
acceptance, each once, at most one per worker; refusals only after the shutdown
began; after the first worker has left, nothing is accepted; at the end nothing
is left. `ImplementsExecutor` is the refinement: the queue is `tasks_`, the
running tasks those in the workers' hands, the phase follows `stop_`, the first
exit and the join.

### SafeQueue

Each of `push`, `try_pop` and `clear` is one step, as it is one critical
section (`push` notifies inside of it). `pop` is `PopCall`, then `PopMustWait` and
`PopSleep`, `PopStopped`, or `PopTake`; `stop` is `StopSet` and, outside the
mutex, `StopNotify`. `value` is the output parameter. `size` and `empty` change
nothing. `BoundedBuffer` says what users see; `ImplementsBuffer` is the refinement,
with the consumers at `pop`, `doze` or `waiting` as those inside a blocking pop.

### Timer

| code | model |
|---|---|
| descriptors | reduced to the kernel's state behind them: `expired`, `wakeup`, `ready`, `armed` |
| `thread_` | `worker`; `"none"` is a `thread_` that is not joinable |
| `start` | `Start`, and `StartFails`, `SpawnFails` where it throws |
| `stop` | `StopExchange`, `StopWrite` or `StopWriteFails`, `StopJoin` |
| worker | `LoopCheck`, `EpollWait`, `Interrupted`, `EpollFails`, `HandleTimer`, `Callback`, `HandleWakeup`, `EventsDone` |
| kernel | `Expire`, `Disarmed` (external) |
| | `owed`, `late`, `broken` count what the properties speak about |

`start` is one step because the model assumes callers that do not overlap it
with another call: it tests `is_running_` and then assigns descriptors and
`thread_` without a lock, so anything else is a data race. `stop` may be called
by several threads at once. A callback that stops its own timer is left out: it
joins its own thread and the exception ends the process.

### Ipc

| code | model |
|---|---|
| the kernel's queue | `queue`; `live` and `gen` say whether it exists and which one it is |
| `_msgid` | `msgid`; a call fails when it is not `Valid` |
| `get_msg_queue`, `del_msg_queue` | `Open` or `OpenFails`, `Del` |
| `send` | `SendCall`; with `queue_cache` `Drain` per message and `DrainEnd`; then `Put` or `PutFails` |
| loop of sub_node | `Recv` or `RecvFails`, `Log`, `Wake` |
| queue and worker of spdlog's pool, `flush_every` | `Enqueue`, `Work`, `Flush`; `backlog` counts what waits in it |
| `sig_handler` | `Signal` puts it on one of three threads, `HandlerLogs`, `HandlerAllocates`, `HandlerLogs`, `HandlerEnds` with the raised signal |
| the mutex of the queue, the lock of the heap | `inside`: the one that the interrupted thread holds |
| crash, SIGINT, the end of pub_node | `Kill`, `Exit` |
| | `fate` records what became of each accepted message, `thrown` what a sender drained since its last send |

`msgrcv` with type 0 takes the first message whatever its type, so types are
left out. Each step of the drain is one system call. `msgget` may fail (`OpenFails`).
A short critical section of spdlog or of the heap is one step, except where a signal
falls into it: then its thread keeps the lock and runs the handler instead. `Places`
says where that can be: `main` in the queue while it logs, the other two in the
queue at any time, the worker also in the heap. The handler logs, allocates for
`backtrace_symbols`, logs again and frees; it needs the queue's mutex and room in the
queue, which the worker makes, and the heap's lock.
A message is "posted" when it is in the queue of spdlog's pool; how it gets to
the file is `Logger`'s matter. `Mailbox` is the promise: messages are
accepted up to the capacity, leave in the order of their acceptance, taken or drained,
or all at once with the queue, and a taken one is posted or lost with its receiver.

### Logger

| code | model |
|---|---|
| spdlog's registry | `node`, `time` of a process: the number of the pool a logger was made with, 0 if not registered |
| spdlog's global pool | `pool`, the number of the last `init`; `queue`; `WorkerNode`, `WorkerTime` |
| `init` | `InitCall`, with `Manage` for LoggerManager and `opens` for the sinks that can open their files |
| `log_*`, `log_time`, `flush` and the periodic flush | `Log`, `log_time`, `Flush` |
| buffered records of the file | `buffer`; what `flush_on` lets through at once goes to `nodeFile` |
| `~Logger` at exit, crash | `Exit`, `Crash` |
| TimeCostEva | `Evaluate` (with `SetEvaluatet`), `Clear`, `PrintAll`, `DumpIntoFile` with `Table`, one `DumpLine` per row |

A directory is named by the second of its creation, so two processes may share
one. A file whose directory was removed keeps no name: what is written to it
is gone. A dump writes through the evaluation logger and nowhere without one
(`Posted`); any number of dumps may follow each other, and `log_time` (`EVALOGTIME`) of
other threads writes to the same file before, after and between their lines. `dumps`
remembers what each dump found, `rest` the rows it still has to post, and `given` all
lines the evaluation logger got. A duration is printed with the six digits of a
default stream (`Printed`), so different ones may look alike. `Under` collects
what stands under a key in a sequence of pairs, as the loop over the map does; the
properties use it to pick a process's records out of a shared file. A second `init` replaces the pool while the registered logger keeps its
weak pointer to the old one, and `Posted` then drops the record. In evaluation mode
it also truncates `time.log` before `register_logger` throws. `Manage` takes any
subset of the expired directories, because an exception ends the loop at any
point. spdlog's queue blocks when 8192 items wait; `Logger` has no such limit, which
orders nothing differently.

### Options, IntegerParser

A text is a string. What the regular expressions, the splitting of lists and
the conversions make of the texts of an instance is given by the constants
`Desc`, `Items` and `Valid`; the model is what `parse` does with it.
`OptionsAssumption` and `ItemsAssumption` say what these are: a declaration has names,
none of them empty; a group has letters; every text that an option may be given
has parts, and a part is not split again, as it has no comma.
`AddOption` is `add_options()` with the adder, up to the name that exists already;
`OptionTaken`, `OptionUnknown`, `Positional` and `EndOfOptions` are the branches
of the loop, one step per argument or letter of a group; `Defaults`, `Rest` and
`Finish` are what follows it; `ParseThrows` collects the exceptions with their
conditions (`WantsPlace`, `WrongArgument`, `WrongValue`). The order of an
`unordered_map` is any order (`Default`, `Finish`).
`m_parsed` is keyed by `Hash`, the text whose hash the code takes, so options with
the same text share a value as they do in the code: of the type of the one that came
first, and only one of them lists its default, whichever is visited first.
`Storage` says where an option's value is kept: a place of its own, copied afresh for
each `parse`, or the `variable` that `value(T&)` bound it to, which may hold something
at the call (`before`, any element of `Before`) and may be the variable of other options
too. Lists append to it (`Holds`). A second `parse` is a first one with another
`before`; it also changes what an earlier result shows of bound variables.
`parse` may be called with `argc` = 0: it then starts at 1 and reads past `argv`
(`RunsPast`, phase `"outside"`, where the behaviour is undefined and the model ends).

`IntegerParser` reads a text character by character. `Half` is 2^(w-1); `US` and
`AsT` are the conversions to the unsigned and the target type; `Wrap` is what
arithmetic of the unsigned type does to a result, which for types narrower than
`int` (`promoted`) is nothing. Of the letters, `x` is set apart from those that are no
digit in any base (`Letter`), as only `0x` opens a hexadecimal text. `limit` takes
`std::abs` of the minimum in `intmax_t`; for a signed type of that width (`widest`) the
overflow is undefined: it may wrap, or anything may follow (`AbsOverflows`). Both splitters of the header, with and without
regular expressions, are covered (`regex`). `exact` is the number read, of
whatever size.

### Config

`param_file_` holds the nodes in memory, as a sequence, and the number of the root;
`document` is the same as the parser left it. Edges are numbers of nodes, so aliases
share a node and may lead back up. `Subscript` is yaml-cpp's non-const `operator[]`
(`node_data::get`): on a scalar it throws, elsewhere it enters the key with an
undefined node and turns whatever it met into a map. `Visited` is the memory after both
subscripts, as far as they got. `As` converts a scalar, a list or a map of them; its
iterators skip undefined entries. Keys are distinct scalars. The branch "Configuration
not loaded" is unreachable: a node to which nothing was assigned counts as defined.

## 3. Runs

| run | instance | what it shows |
|---|---|---|
| `pool_bounded` | 3 workers, 2 clients, 5 tasks of which two submit another, bound 2 | all safety properties and the refinement of `TaskExecutor` |
| `pool_nested` | 2 workers, 1 client, 5 tasks of which two submit another, bound 1 | liveness, and self-blocking as the only exception |
| `pool_lost_wakeup` | 2 workers, 1 client, unlimited | the destructor can hang (finding 1) |
| `pool_stopped_submit` | 1 worker, 2 clients, bound 1 | a `submit` waits on a full queue (finding 3) and can hang after the stop (finding 2) |
| `safe_queue` | 3 threads, 2 values, capacity 2 | safety, `StopEndsPops` and the refinement of `BoundedBuffer` |
| `timer` | 2 controllers, intervals 0 and 1500 ms, at most 3 unread expirations, every fault | safety and liveness; deadlock is checked |
| `ipc` | 2 senders, 1 receiver, capacity 2, a log queue of 1, 3 sends, 2 generations of the queue, 1 death or signal | safety, the refinement of `Mailbox`, liveness with and without a crash |
| `ipc_cache` | the same | `queue_cache` throws away what it is documented to cache (finding 4) |
| `logger` | 2 processes, 2 functions, one of them in debug mode, 3 ticks that are a day each, kept for 1 day, 5 calls | order and completeness of what is logged; the dumped tables |
| `options` | 3 declarations (one with a clash of names, one with a clash of hashes), 12 arguments, vectors of up to 3 and `argc` = 0, bound lists and flags, two lists on one variable | agreement of the views, defaults, no argument lost |
| `integers` | 8-bit types, narrower than or as wide as `intmax_t`, up to 3 characters of 11 after sign and base | exact parsing |
| `config` | 9 files: missing, broken, empty, a scalar, maps, lists, aliases to nulls, lists, fathers, the root; 2 keys | answers match the file |

**Bounds.** Three workers are the least for "at most one missed" to differ from
"all but one"; two clients and a bound of two let callers that were woken for
the same place race each other and the workers; five tasks fill the queue while
others run and submit. With tasks that submit tasks, two workers on a queue of one
suffice for both to block each other. Three threads on a SafeQueue allow a
consumer asleep, one on its way and a competitor. `MaxUnread` (3) is the number
of expirations the kernel counts before the clock waits; three give batches
larger than one with a further expiration in between. `pool_bounded` declares
threads of a kind and tasks symmetric: no module compares or orders them and
the run has no liveness property.

Three sends on a capacity of two fill the queue with one sender still waiting;
two generations and a death allow a receiver that holds an old identifier, a
sender that waits in a removed queue, and a crash followed by a restart; a log queue
of one is full whenever something waits in it. Five
calls of two processes are enough for an `init`, a second one, a record before
and after, and a cleanup of the other process in between; ticks that are days
make the age limit matter. Three arguments let an option take the next argument
and a positional one follow, or `--` separate the two. 8 bits is the narrowest
type there is, and three digits go beyond it; `IntegerParserProofs` covers the
other widths. The reads of `config` saturate: each node that a read meets
gets at most the keys of the instance.

**Stopping.** The pool and queue runs do not check for deadlock: a pool may be
idle or destroyed and nobody has to call. What must not stop is stated as
liveness, and what must not sleep as `NoStranded...`. The other runs end at
their bounds, or where a program has nothing left to do.

**Fairness.** A thread that is not in a wait runs on (weak fairness of its
steps). Taking the mutex is strongly fair per thread: `std::mutex` promises no
order, but a thread that asks again and again for a mutex that is free again
and again gets it. Nothing forces callers to call, the destructor to be
called, a wait to return spuriously, or a fault to happen. For the timer: the
clock ticks while fewer than `MaxUnread` expirations are unread, the worker and a
stop that has begun run on, and `epoll_wait` is strongly fair, so that signals
may interrupt it often but not for ever.

In `ipc` a process that runs goes on: the drain, the loop and spdlog's worker are
weakly fair. Strongly fair are `msgsnd`, to which the kernel gives a place when there is
one again and again, and the log calls and the handler, which ask for a mutex and
for room in the log queue. Nobody has to start, call, flush, signal or die; `RunningReceiverServes`
speaks of executions in which a receiver stays up. The modules `Logger`,
`Options`, `IntegerParser` and `Config` state no liveness: their calls run to the end without
waiting for anybody, except for a full log queue, which is left out.

**Properties worth a word.**

- `NoStrandedTask`, `NoStrandedProducer`, `NoStrandedItem` are the lost-wakeup
  statements: while somebody sleeps, every piece of work has a thread on its way
  to it or a notification under way. They hold although the pool notifies after
  it has released the mutex.
- `AtMostOneMissed` measures finding 1: whatever the interleaving, the
  notification of the destructor misses at most the one worker that held the
  mutex. `DestructorReturnsIfAllAwake` says that nothing else keeps the destructor.
- `NoOrphan`: `stop_` is set without the mutex, yet no `submit` slips a task
  behind workers that have left. It is the second check of `stop_` that ensures it.
- `QueuedTasksStart` and `SomeSubmitGetsIn` name `SelfBlocked` as the only
  exception: every worker waits for room inside its own task. `SomeSubmitGetsIn` says that
  while submits go on, one of them gets in or throws again and again. It does not say
  that each one does: `cv_producer_.notify_one()` wakes any sleeper, and a caller that
  arrives in time takes the place first, so one caller may starve under a stream of
  others.
- `RunningIsServed`: a worker may leave through the loop condition without
  reading the eventfd; since `start` makes new descriptors, the old wakeup cannot
  end the next worker.
- `OneCallbackPerExpiration`, `NoLostEdge`: with `EPOLLET` an event that is not
  consumed by a read would never be reported again.
- `AtMostOneLateBatch`, `StopReturns`: a burst of late expirations is worked off
  before `stop` returns, but only one; and a wakeup that could not be written
  delays `stop` until the next tick, for ever only when the timer is disarmed.
- `LatestKept` is what is left of "drain, then send" when others do the same: a
  message thrown away has a younger one behind it, or the send that threw it away is
  still under way, has failed or has died with its process.
- `SignalledNodeDies` has an exception, `Stuck`: the handler interrupted a thread
  inside spdlog's queue or inside the heap, whose locks it then needs itself, or the
  worker while its queue is full, so that nobody makes room for the handler's lines.
- `RunningReceiverServes` needs the receiver's identifier to be valid: after a
  removal the loop goes on for ever with the old one, and the new queue waits.
- `LoggedInOrder` names the one way to lose a record of a running process within
  the age limit: a second `init`. `TableReadsBack` speaks of every finished dump and finds
  its rows by the number of the dump, since other threads may log in between; it exempts
  processes that share the directory in evaluation mode, as each truncates the file of
  the other.
- `DefaultsOnce`: an option that gets its value after `--` also has its default,
  in the value of a list even in front of it, since defaults are filled in first.
- `ResultsAgree` holds when no declaration was refused and no two options hash
  the same text; both exceptions are real (`HashesDiffer`, `refused`). A list bound to a
  variable starts from what the variable held at the call (`Start`), and options
  that share a variable see each other's values (`Alone`).
- `AnswersMatchFile` has an exception, `Reused`: an alias makes a null or a sequence the
  value of one key and the father of others. Reading below it turns it into a map, and
  the answer for the value changes (`a: &x ~`, `b: {c: *x}`: reading `a.k` changes `b.c`).

Every property has a mutant in `PROJECT.json`: a small change of the modelled
code, written as an operator next to the original, under which TLC finds the
property violated.

## 4. Findings

1. `pool_lost_wakeup`. `~ThreadPool` sets `stop_` and calls `cv_.notify_all()`
   without `mtx_` (`thread_pool.hpp:47-48`). A worker that has evaluated the
   predicate and is about to sleep misses the notification; the join hangs.
   Setting `stop_` under the mutex would remove the window.
2. `pool_stopped_submit`. A `submit` that waits for room is documented to throw
   when the pool is stopped (`thread_pool.hpp:63`), and its predicate looks at
   `stop_`, but the destructor notifies `cv_` only. Callers in `cv_producer_` are
   woken by finished pops alone; a caller that is woken and throws does not
   pass the notification on, so a second one stays. The model leaves such a
   caller asleep; that the condition variable is then destroyed under it is
   undefined behaviour the model does not follow.
3. `pool_stopped_submit`, also. The same line promises an exception when the queue
   is full. `submit` does not throw then but waits (`thread_pool.hpp:80-84`); in the trace
   both callers are asleep on a full queue before the pool is stopped.
4. `ipc_cache`. `message_queue.hpp:34` documents `queue_cache` as "是否缓存数据", whether to
   cache data. With it `send` takes every waiting message and throws it away
   (`message_queue.cpp:27-32`); without it the messages are kept.

Observations that no run stands for:

- after a second `Logger::init` the main logger is silent;
- a receiver whose queue was removed polls a dead identifier for ever;
- the handler of sub_node can deadlock, in the cases of `Stuck`;
- `SafeQueue::push` does not look at `stopped_` (`safe_queue.hpp:42-50`): after `stop()`,
  which is documented as "Stop queue operations" (`safe_queue.hpp:92`), it still succeeds with
  an element that no blocking `pop` delivers. `BoundedBuffer` has it so;
- a read of Config writes to the nodes, so two threads that read race, and with an aliased
  null or list one read changes the answer of another;
- `parse` with `argc` = 0 reads past `argv` (`cxxopts.hpp:2521-2527`);
- the most negative number of a type is parsed correctly although its absolute value does
  not fit into the type; for the widest signed type this rests on `std::abs` wrapping around.

## 5. Proofs

The theorems hold for every value of the constants under the named assumptions
of the modules: finitely many workers and clients, disjoint; `Child` maps no two
tasks to the same child; the sentinels (`NoThread`, `NoTask`, `Unset`) are not
threads, tasks or values; intervals are natural numbers.

**ThreadPool.** Proved: every invariant of `pool_bounded` and the refinement.

- `TypeOK`, `QueueBounded`, `NoOrphan`, `AtMostOneMissed`,
  `NoStrandedTask`, `NoStrandedProducer`. The inductive invariant `IInv` adds to
  the types who holds a task (`ClientInv`, `WorkerInv`; without them `Arg` need not
  be a task), what a thread inside a critical section may rely on (`LockInv`: it
  owns the mutex and what it saw is still so, hence at most one thread is there),
  how far the destructor is (`DtorInv`), `ExitInv`, which strengthens `NoOrphan` by
  "and the pool is stopped" (else a later `submit` could refill the queue), and
  `MissInv`, which says `AtMostOneMissed` about two threads instead of a
  cardinality. The two `NoStranded` properties are then inductive relative to
  `IInv`: each step is followed by how it changes the number of threads at a
  program point (`AtArrive`, `AtLeave`) and the length of the queue.
- `ExactlyOnce` and `JoinedMeansDone`. `OnceInv` adds that
  clients hold different tasks that no body submits (`RootInv`), that a task a
  caller brings along is not known yet (`FreshInv`), and that the task of a body
  is known only when the body has called `submit` (`ChildInv`). Together they say
  that no two callers bring the same task (`Distinct`), so that an `Append`
  repeats nothing.
- `PoolImplementsExecutor`: `Workers # {}` implies that the pool implements
  `TaskExecutor`, step by step. Without a worker it does not.

**SafeQueue.** Proved: `TypeOK`, `CapacityRespected`, `StopReachesEverybody`,
`NoStrandedItem`, and the refinement of `BoundedBuffer`. `DozeInv`: a consumer
between predicate and sleep owns the mutex, so nothing was pushed and nobody set
`stopped_` in between; `StopInv`: a sleeper in a stopped queue has a `notify_all`
ahead of it. The refinement needs the types only.

**Timer.** Proved: `TypeOK`, `StoppedIsJoined`, `RunningIsServed`,
`OneCallbackPerExpiration`, `NoLostEdge`, `AtMostOneLateBatch`, and `IntervalExact`
about the conversion of milliseconds. The strengthening: only one `stop` gets
past the exchange and it has not written before (`StopInv`), a running timer has
no trace of a wakeup (`NoWakeup`), the timer's event is in the ready list or at
hand, never in both and only when there is something to read (`TimerEvent`), and a
worker that has read a late batch cannot return to `epoll_wait` (`LateInv`).

**Ipc.** Proved: `TypeOK`, `QueueIsTail`, `LatestKept`, and that the queue implements
`Mailbox`. The strengthening: the message in a receiver's hand is one that was taken and
is in no other hand (`HandInv`). `QueueIsTail` makes the head of the queue the oldest
waiting message, which is the step from `TakeFirst` to the mailbox's `Settle`; it also makes
a drained message older than whatever is accepted next, so that a send that
succeeds may forget what it has thrown away (`PutStep`).

**IntegerParser.** Proved: `ParsesExactly`, for every `Half` of at least 128 and
all texts; of the widest signed type up to the point where `std::abs` overflows without
wrapping around. The invariant says that `result` is `exact` and, when T has the sign,
within its range, so that no product or difference of a passed `Fits` has
wrapped around; where it would, the comparison of the quotient fails.

**Config.** Proved: `AnswersMatchFile`, for any files with aliases and cycles, any keys and
types. `DocumentInv` says what a parser returns (`ConfigAssumption`). `IInv` compares the
memory with the document node by node: the document's nodes keep their texts and
edges, and their kinds unless a read may have turned them (`Kept`), what was made since is
undefined (`Made`), and nothing else grows (`Grown`). `SubscriptGrows` shows
that a subscript keeps it, `ReadStep` that a whole read does and answers as the document
does, `SameAnswer` that a conversion sees no difference.

**Logger.** Proved: `LoggedInOrder` and `TableReadsBack`, for any processes,
functions, age limit and length of a day; `MaxTime` and `MaxCalls` are any bounds
(the clock starts at 2, so `MaxTime` is not smaller).

- `PlaceInv`: a directory is not from the future, and one that is young enough is
  still on disk (the cleanup is another process's step); nothing is logged,
  buffered or queued before there is a main logger; a logger is not newer than
  the pool; a process that is gone has nothing left; and the records of a process
  are in its own directory only. The last one lets the directory that `init` makes
  be empty of its records when it is new to the process.
- `LoggedInOrder` is inductive relative to it. The records in the file, in the
  buffer and in the queue are one sequence of which every step only moves the
  seams: `LogDoes` appends to it, `FlushDoes`, the worker and `Exit` keep it,
  `Crash` cuts its end off.
- `LinesInv` says of the evaluation logger what `Kept` says of records: the lines in the
  file and on their way are exactly those it was given. `TablesInv` says that among the
  given ones those of a dump, with what the dump has yet to post, are `Table` of the
  records it found. That a table reads back is then a fact about `Table` alone
  (`TableReads`): a printed duration is not 0, and no column is longer than the table.
- Both rest on lemmas about `Under`, a recursive function: what it returns for an
  appended pair, for two sequences one after the other, and for sequences in
  which all pairs have the key, or none.

**Options.** Proved: `TypeOK`, `PlainTextsKept`, `DefaultsOnce` and `ResultsAgree`, for
any declarations, arguments, groups, lists and types, and vectors of any length.

- `PlaceInv` adds to the types where `parse` is in each phase: an argument follows
  wherever an option takes one (`ValueText` is there only then), so `current` cannot
  pass the end, which the loop would not notice, unless it began behind it (`argc` = 0).
- `NameInv`: without a refusal an option answers to exactly its names.
- `PlainInv`: of the arguments before `current`, each plain text is among the values
  or in `unmatched` as often as it was written. A step of two passes over the
  option and the text it took.
- `StoreInv`, `DefaultInv`, `ValueInv`: the count of an option is the number of its
  entries; a default is listed once and, beside a value, only when the value came
  after `--`; what an option holds is what the texts listed for it, defaults first,
  have made of what its storage held at the call (`Tells`, `Told`). For a list this is an equation of the parts, since a
  positional text is kept whole and an argument is split. `KeysInv`: at the end all
  names lead to the option's own values, which `HashesDiffer` makes distinct.

**Induction.** The induction theorems of the library take an operator, which the
provers cannot instantiate. `SmallestMember` derives from the well-foundedness of <
on the natural numbers that a nonempty set has a least member, and `SetInduction`
that a set with 0 and every successor holds all numbers. `PrimitiveRecursion` gets
from it that a function defined place by place exists, so the models' recursive
functions (`UnderUpTo`, `TextsUpTo`, `SplitUpTo`) can be unfolded, and facts about
them for sequences of any length are proved with `SetInduction`. This is why they are
functions and not `RECURSIVE` operators or filters. Both `LoggerProofs` and
`OptionsProofs` hold these lemmas.

**Only model-checked.** All safety properties and refinements that a run checks are
theorems. What stays with TLC are the liveness properties: `QueuedTasksStart`,
`DestructorReturnsIfAllAwake`, `SomeSubmitGetsIn`, `StopEndsPops`,
`ExpirationsAreServed`, `StopReturns`, `RunningReceiverServes`, `SignalledNodeDies`.
They need fairness, whose meaning is given by `ENABLED`, which is beyond the prover
used here. The findings are counterexamples, so nothing is to be proved of them.

## 6. Not modelled

- ThreadPool: a `std::thread` constructor that throws in the constructor (the
  process terminates), `thread_num` = 0, the futures, the memory after the join.
- SafeQueue: the destruction of the mutex while a consumer still has to lock it.
- Timer: overlapping `start`s, a callback that stops its own timer, the numbers
  of file descriptors, drift of the clock, the 64-bit width of the counters.
- Ipc: message types and contents, queue permissions, a `msgrcv` interrupted by a
  signal other than those that end the process, a signal while the handler runs.
- Logger: rotation by size, a full log queue, threads of one process that call
  `init` and log at the same time (the code has a data race on its pointers),
  the synchronous build. That `~Logger` asks spdlog's registry after its destruction is undefined
  behaviour; the model takes the outcome that nothing is found.
- TimeCostEva from several threads: its map is written without a lock, which is
  a data race. TicToc, TimeCost and `GetMeanTime` compute a difference or a mean.
- Config: keys that are no scalars or stand twice in a map, merge keys, conversions to
  nested containers and to types of a program's own, several threads at once; every read writes the tree, so this is a data
  race as well.
- Options: `help()` and everything about its layout; the conversions of `bool`,
  `char` and floating-point texts and the two splitters of an argument, with and
  without regular expressions, character by character. They are functions on
  strings without state, given by constants. Of a declaration that is refused half-way
  (`cxxopts.hpp:2765`) only types and plain texts are checked: a name left behind may give
  the answers of another option, so the other properties exempt it.
- FileManager: `GetConfigDirectory` and the path functions keep no state.
- Singleton, formatters, build, packaging and service files have no behaviour of
  their own; `plot_time.py` reads what `DumpIntoFile` wrote; spdlog
  and yaml-cpp are third-party and appear as far as the code uses them; doctest does not.

## 7. Outlook

All components with state of their own are modelled, and every safety property of
the runs is proved. What would come next, in this order: the parts of the liveness
arguments that are safety (for `QueuedTasksStart` and `RunningReceiverServes`, that a
step which helps never undoes the progress of another); `pub_node` as a
composition of `ThreadPool` and `Ipc`, of which each part is checked here against
arbitrary callers; the splitters of an argument, character by character, as
`IntegerParser` does it for numbers.
