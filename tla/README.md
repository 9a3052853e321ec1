# Asio in TLA+

A verification project for the copy of standalone Asio in this repository
(`src/Asio`, release 1.22.1 with annotations in its headers; `src/AsioTest` is a
scratch program). It models the parts of the library whose correctness depends
on the order in which threads, callbacks and the operating system act: the
scheduler behind `io_context` and `thread_pool`, the epoll reactor and the
completion port under it, timers, strands, channels, parallel groups, signal
sets, the services of a context with the resolver as one of them, the
operations of an ssl stream, and the composed reads, writes and connects. It checks
them with TLC on small instances, and proves with TLAPS, for every value of the
constants, what section 4 lists.

Paths below are relative to `src/Asio/include/asio/`.

## 1. Inventory

### 1.1 The parts and how they interact

| part | state | operations | depends on |
|---|---|---|---|
| **scheduler** `detail/scheduler.hpp`, `detail/impl/scheduler.ipp`, `detail/posix_event.hpp` | `op_queue_`, `outstanding_work_`, `stopped_`, `shutdown_`, `task_interrupted_`, the event; per thread a private queue and work count | `run`, `run_one`, `wait_one`, `poll`, `poll_one`, `post_*_completion(s)`, `do_dispatch`, `work_started/finished`, `compensating_work_started`, `stop`, `restart`, `init_task`, `shutdown` | a reactor, as a task in its own queue |
| **epoll reactor** `detail/impl/epoll_reactor.ipp` | per descriptor four operation queues, registered events, speculation flags; the interrupter; the timerfd; the timer queues | `run`, `interrupt`, `register/deregister_descriptor`, `start_op`, `cancel_ops`, `schedule/cancel_timer`, `notify_fork`, `shutdown` | scheduler (it posts completions), timer queues |
| **timers** `detail/timer_queue.hpp`, `detail/deadline_timer_service.hpp` | a binary heap with back-pointers, a list of active timers, per timer a queue of waits, `expiry`, `might_have_pending_waits` | `expires_at`, `async_wait`, `cancel`, `cancel_one`, cancellation by slot, move, `get_ready_timers` | the reactor's mutex and its `epoll_wait` |
| **strands** `detail/strand_executor_service.*`, `detail/strand_service.*` | `locked_`, `waiting_queue_`, `ready_queue_` | `post`, `defer`, `dispatch`, `execute`, the invoker, `shutdown` | any executor that runs what it is given |
| **channels** `experimental/detail/channel_service.hpp` and `impl/` | per channel a send state, a receive state, a buffer, one queue of waiters | `async_send`, `async_receive`, `try_send(_n)`, `try_receive`, `cancel`, `close`, `reset`, move, destroy | an executor for the handlers |
| **parallel group** `experimental/impl/parallel_group.hpp` | four atomic counters, one signal per operation | launch, completion, cancellation | cancellation signals |
| cancellation signals `cancellation_signal.hpp` | the handler in the slot | `emplace`, `clear`, `emit` | - |
| **signal sets** `detail/impl/signal_set_service.ipp` | process-wide table of registrations, undelivered counts, a pipe | `add`, `remove`, `clear`, `async_wait`, delivery, fork | reactor, scheduler |
| **service registry** `detail/impl/service_registry.ipp`, `impl/execution_context.ipp` | the list of services | `use_service`, `add_service`, `shutdown`, `destroy`, fork | every service |
| **resolver** `detail/impl/resolver_service_base.ipp`, `detail/resolve_query_op.hpp` | a private scheduler and its thread, a weak token per operation | `async_resolve`, `cancel`, move, fork, shutdown | scheduler, service registry |
| **`win_iocp_io_context`** `detail/impl/win_iocp_io_context.ipp` | completion port, `ready_` per operation, `completed_ops_`, `dispatch_required_`, the stop event | as the scheduler | Windows |
| **composed operations** `impl/read_until.hpp`, `read.hpp`, `write.hpp`, `connect.hpp`, `cancellation_state.hpp` | position in a streambuf, a buffer or an endpoint sequence; the cancellation asked for | `async_read_until`, `async_read`, `async_write`, `async_connect`, resumed by every operation of the stream | streams, sockets, cancellation signals |
| **ssl stream** `ssl/detail/io.hpp`, `stream_core.hpp`, `impl/engine.ipp` | the engine, one buffer per direction, two timers used as locks; per operation what it wants | `async_handshake`, `async_read_some`, `async_write_some`, `async_shutdown`, cancellation | OpenSSL, timers, the next layer |
| the rest | | | `PROJECT.json` lists it, part by part, with the reason it is left out: system calls, types computed at compile time, sequential parsing, debugging output |

Interaction is by direct calls and callbacks. Everything that completes ends as
an operation in the scheduler's queue; the reactor reaches the scheduler by
returning operations from `run()` and by posting them; the scheduler reaches the
reactor by running it as a task and by `interrupt()`. Strands and channels use
the scheduler only through an executor. Timers share the reactor's mutex.

### 1.2 What is hard

* **Scheduler.** Four ways to sleep (on the event, timed, in `epoll_wait`, timed
  in `epoll_wait`) and one wake-up per post; work is counted in two places, the
  second updated late; a single task token circulates between queue and threads;
  a `poll()` may run inside a handler of the same thread and takes over its
  private queue. Correct means: no wake-up is lost, the token is unique, every
  operation is completed or destroyed once, the count is exact, `stop()` reaches
  everyone.
* **Strands.** The ready queue is used without a lock; an invoker hands over to
  the next when it finds more work and must not miss what arrives as it unlocks;
  exceptions; dispatch in place. Correct means: one handler at a time, in order,
  all of them.
* **Timers.** A hand-written heap with removal from the middle; a cached flag
  that lets calls skip the queue; a sleeping reactor that must be told about an
  earlier deadline; expiry racing cancellation and `expires_at`. Correct means:
  no wait is early, late, lost or completed for another time.
* **Epoll reactor.** Edge-triggered events are reported once, and may be performed
  after their descriptor was closed and its state given to another; attempts are
  made before waiting and remembered as futile. Correct means: no event that an
  operation waits for is missed, operations of a kind finish in order, no state is
  lost, shared, or freed while in use.
* **Completion port.** The call that starts an overlapped operation and the packet
  that ends it race; posting may fail; one stop event serves all threads. Correct
  means: one dispatch per operation, with its own result, and nobody left behind.
* **Parallel groups.** Operations complete on other threads while the rest are
  still being launched. Correct means: one call of the handler, after everything;
  a request for cancellation reaches everyone, and once.
* **Composed operations.** A loop whose body is a callback: what was searched,
  moved or tried is remembered between two operations of the stream, which cuts the
  data where it likes, and a cancellation may come when none is under way. Correct
  means: the result is true of what has happened to the bytes and the endpoints, and
  a signal ends the operation.
* **Signal sets.** Tables shared by all contexts of a process, services that come
  and go while another thread delivers, a fork. Correct means: counts are exact, no
  wait sleeps on a signal that is there, somebody reads the pipe, no deadlock.
* **Services.** Constructed without the lock, by several threads, one inside the
  other; visited in the order of the list at a fork and at the end, when handlers
  still own objects of other services and a thread of the resolver is about to
  post. Correct means: nothing outlives what it uses.
* **Ssl streams.** Any operation may need to read and to write, and all share the
  buffers, the unconsumed input and the next layer; locks are timers that never
  expire, released by setting their expiry. Correct means: the engine gets its input
  once and in order, its output leaves once and in order, nobody is left on a timer.
* **Channels.** Two state words stand for what the buffer and the queue hold, and
  decide a `static_cast`. Correct means: they tell the truth after every call,
  and messages arrive once and in order.

`PROJECT.json` lists the hazards one by one at their lines, with the properties
that watch them.

## 2. The modules

| module | models | about |
|---|---|---|
| `OpQueue` | `detail/op_queue.hpp` | membership and uniqueness in intrusive queues |
| `Scheduler` | scheduler, posix_event, the reactor as the scheduler meets it | the core |
| `MCScheduler` | - | model values, flat and nested frames |
| `OpQueueTheorems`, `SchedulerProofs` | - | lemmas on queues and on loops over them; the theorems about the scheduler |
| `SerialExecutor` | - | what a strand promises: an abstract specification |
| `Strand`, `MCStrand` | both strand services | shown to implement `SerialExecutor` |
| `MessageChannel` | - | what a channel promises |
| `Channel`, `MCChannel` | channel_service | shown to implement `MessageChannel` |
| `ChannelProofs` | - | the states of a channel describe it; `Channel` implements `MessageChannel` |
| `TimerQueue`, `MCTimerQueue` | timer_queue, deadline_timer_service, the reactor's timer half | |
| `EpollReactor`, `MCEpollReactor` | epoll_reactor's descriptors, reactive_socket_service and reactive_descriptor_service as its users | the other half of the reactor |
| `WinIocp`, `MCWinIocp` | win_iocp_io_context and its operations | the Windows scheduler |
| `WinIocpProofs` | - | one dispatch per operation; nobody left behind |
| `ParallelGroup`, `MCParallelGroup` | the launch, the completion and the cancellation of a group | checked through `ComposedGroup` |
| `ComposedOps` | read_until, read, write, connect; basic_streambuf, consuming_buffers, cancellation_state | one composed operation and its stream |
| `ComposedGroup` | - | `ParallelGroup` with a composed operation in it |
| `ComposedProofs` | - | the theorems about groups; the results of composed operations, alone and in a group |
| `SignalSet`, `MCSignalSet` | signal_set_service, over the reactors of several contexts | |
| `ServiceProofs` | - | strands: the lock has one holder, `Strand` implements `SerialExecutor`; signal sets: the counts are exact, the pipe is watched |
| `ServiceRegistry` | service_registry, execution_context | no specification of its own |
| `ResolverService`, `MCResolverService` | resolver_service, composed with `ServiceRegistry` | the services of one context |
| `ResolverProofs` | - | the order of the registry; nothing outlives what it uses; operations are resolved once |
| `SslStream`, `MCSslStream` | io_op, stream_core, the engine around OpenSSL | its operations are composed ones |
| `SslProofs` | - | the input and the output of an ssl stream |

`map` in `PROJECT.json` gives for each definition the lines it stands for.
Definitions commented `mutant` are plausible mistakes, used by `mutants` to show
that each property can fail; no action uses them.

### 2.1 Scheduler

A *context* is one frame of a run function: a thread in `run()`, or a `poll()`
called inside a handler (`Outer` names the frame around it). Idle contexts are
their threads outside the pool, which also post and stop.

| code | model |
|---|---|
| `op_queue_`, `outstanding_work_`, `stopped_`, `shutdown_`, `task_interrupted_` | the variables of those names |
| `task_operation_`, a `descriptor_state` | the queue elements `Task`, `Desc` |
| `wakeup_event_.state_` | `signalled` (bit 0), and the contexts at `wait` or `woken` (the rest of it) |
| the mutex | held by a context at `loop`, `waited` or `polled`; otherwise a critical section is one step guarded by `MutexFree` |
| what follows an unlock (`pthread_cond_signal`, the `stop()` in `work_finished`, the push after `work_started`) | a step of its own, recorded in `pend` |
| `thread_info.private_op_queue`, `.private_outstanding_work` | per context |
| `do_run_one`, `do_wait_one`, `do_poll_one` | `Enter` `ReturnStopped` `Wait` `ReturnEmpty` `Reacquire` `Timeout` `TakeTask` `RunTask` `TaskCleanup` `ReturnPolled` `TakeHandler` `PerformIo` `PerformNone` `HandlerEnds` `WorkCleanup` `Flush` |
| posting and cancelling | `Post` (three kinds), `StartIo`, `ScheduleTimer`, `CancelIo`, `CancelTimer`, `Push`, `Signal` |
| control | `Stop`, `StopLocked`, `Restart`, `AcquireGuard`, `ReleaseGuard`, `InitTask`, `Shutdown`, `DestroyOps` |
| `epoll_wait` | edges `interrupt` and `event`, expired timers in `expired`; blocks as long as `usec` says |

Which operation does what is abstracted away: an operation is a number, its
handler may make any call. Handlers throw where `Uses` contains `"throw"`.
The condition variable may wake spuriously (`"spurious"`).

### 2.2 Strand

Each thread has a stack of frames: a call that has locked the strand and not yet
pushed or submitted, an invoker, a handler run in place, a nested poll.
`locked_`, `waiting_queue_` and `ready_queue_` are the code's. `submitted` counts
the invokers the executor has accepted: it runs each once, on any pool thread, at
any time. That is all the code uses of an executor; the scheduler provides it
(`HandlerOnce`, `QueuedEventuallyRuns`). Strands in `Immediate` are of class
`io_context::strand`, whose `dispatch` may run a handler at once when it finds
the strand unlocked; the others are `strand<Executor>`.

`SerialExecutor` is what a strand promises: per strand the accepted handlers in order
and the running ones, each with its depth in the stack of its thread. The mapping takes
the running handlers from the frames at `handler` and the accepted ones from the frame
that is about to push, `ready_queue_` and `waiting_queue_`, in this order. Locking,
submitting, moving handlers between the queues and unlocking are invisible to it.

### 2.3 Channel

One record per channel with the fields of the implementation class. A function
holds the mutex from its first to its last access and is one action; `reset()`
drops it once and is two. A send operation is named by its message, the queue of
waiters holds both kinds, and the action that takes an operation from it treats
it as the kind the states imply, as the cast does: if the states are wrong, the
operation is completed wrongly.

### 2.4 TimerQueue

`queue` is the timer queue with `heap_`, the index of every timer, the list
`timers_` and the waits per timer; `Swap`, `UpHeap`, `DownHeap`, `RemoveTimer`,
`EnqueueTimer`, `ReadyTimers` follow the code index by index (from 0). The
reactor enters `epoll_wait` (`Enter`) with the deadline the code computes, or
with a timerfd armed by `UpdateTimeout`; `Woken` is when it may return; `Return`
includes the timer turn of `epoll_reactor::run`. Time is a number that `Tick`
advances at any moment.

### 2.5 EpollReactor

| code | model |
|---|---|
| `base_implementation_type` (`socket_`, `reactor_data_`, `possible_dup`) | `sock` |
| `descriptor_state` and the object pool's two lists | `state`, `live`, `free` |
| the epoll set, `ev.data.ptr`, the ready list of the kernel | `item` (external) |
| what poll() would say of a file | `file`, changed by `Arrive` `EndOfFile` `MakeSpace` `Urgent` (external) |
| the scheduler's queue, `task_result_`, `scheduler::do_run_one` on a descriptor | `queued`, `task_result_`, `job` |
| `open`, `assign`, `move_construct`, `close`, `release`, `destroy` | `Open` `OpenFails` `RegisterInternal` `Move` `Deregister` `Cleanup` |
| `start_op` | `StartFailed` `StartPerformed` `StartUnsupported` `StartQueued` |
| `cancel_ops`, `cancel_ops_by_key` | `CancelOps`, `CancelOpsByKey` |
| `run` for descriptors, `descriptor_state::do_complete`, `perform_io` | `Run`, `Take`, `Begin` and one `PerformOp` per kind of operation |
| `notify_fork`, `shutdown` | `NotifyFork`, `Shutdown` |

The descriptor's mutex is held across the steps of `perform_io`; every other
critical section is one step. Close is two, because `deregister_descriptor` and
`cleanup_descriptor_data` are, and the program of another thread may come between.
`Run` requires an empty `queued`: that is `Scheduler!DescriptorDequeued`, proved in
`SchedulerProofs`, and it is how this module and the scheduler are composed.

### 2.6 WinIocp

Every interlocked operation is a step: a thread in a run function goes through `top`
(try to take `dispatch_required_`), `dispatch`, `get` (the call of
`GetQueuedCompletionStatus`), `got` (the exchange of `ready_`), `handler`, and the
steps of the stop event. `port` is the queue of the completion port; a packet holds
an operation with its result, or says that the result is in the `OVERLAPPED`
structure. `StartIo` is an overlapped call that has not yet returned; the device may
complete it before `OnPending` or `OnCompletion` is reached. A failed
`PostQueuedCompletionStatus` (`Post`) moves the operation to `completed_ops_`, as
the code does, including the rest of a list.

### 2.7 ParallelGroup

`completed_`, `cancel_type_`, `cancellations_requested_`, `outstanding_` are the four
atomic words, each access one step. `Launcher` runs `parallel_group_launch`
(`Launch` for one operation after the other, `Check`, `LauncherEmits`, `Register`);
an operation's handler goes through `Capture`, `SaveType`, `Request`, `OpEmits`,
`Finish`; the group's own cancellation handler is `CancelGroup` and `UserEmits`.
Emission to an operation with an executor is dispatched there (`dispatched`,
`Deliver`). Who signals is decided by the two counters alone, as in the code.

### 2.8 SignalSet

Services of several contexts share one `signal_state`: the mutex is `mutex_` where
it is held over more than one step, which is where `add_service` and
`remove_service` call into the reactor and where a reading thread waits for it.
`watched` and `edge` are a service's descriptor in its reactor's epoll set;
`ReadBegins`, `Read`, `DeliverSignal` are `pipe_read_op`, performed with the
descriptor's mutex held. `ForkPrepare`, `Fork`, `ForkNotify` are `notify_fork` of
each context in turn; in the child the pipe is replaced.

### 2.9 ServiceRegistry and ResolverService

`ServiceRegistry` holds the list, the objects and, per thread, the stack of
`use_service` and `make_service` calls in progress: a constructor that asks for
another service is a second frame. It has no specification of its own.
`ResolverService` extends it with what the scheduler and the resolver service do
when they are visited, and gives the composition: `work` is the private scheduler
with its thread, `op_queue_` the queue of the context's scheduler, `impl` the
resolver objects, `op` the operations and their weak tokens. A handler may own the
resolver it was started on. An address is used again when its object is deleted.

### 2.10 SslStream

An operation is an `io_op` with its `want_`, `ec_`, `bytes_transferred_`, and where it
is: `reading` or `writing` on the next layer, on one of the two timers (`wait_read`,
`wait_write`), or `posted` by a read of no bytes. `running` is the operation in the
loop; calls and handlers of a stream run in one strand, so one pass through the loop
is one step: `Try` asks the engine and is one of `InputLeft`, `StartReading`,
`WaitToRead`, `StartWriting`, `WaitToWrite`, `Done`; `Resume` is the code behind the
label `default`. `pending_read_` says that the expiry of that timer is infinite, and
`Released` is what `expires_at` does to the waits on it, whatever the new expiry.
`overtaken` is a history variable: an operation has begun to write (`StartWriting`)
while the wait of another one had ended and its handler had not run (`LetGo`).
`Exposed`, which the properties of the output except, is that and a second request of
the peer in `incoming` (section 3.3 says what goes wrong then).

A unit is a fragment of a TLS record. Those of the peer are `hello`, `part` (a fragment
that completes nothing), `data` (one that completes a record), `ask` (one the engine
must answer by itself) and `close`. OpenSSL is modelled by what `perform()` can tell
apart: how much a call consumes, what it makes, what `SSL_get_error` says. The next
layer transfers any part of what it was given, or fails; the peer sends when it likes.

### 2.11 ComposedOps and ComposedGroup

One module has the four operations because they are one pattern: `Begin` is the call
with `start = 1`, `Handle` is the code behind the label `default`, run when the stream's
operation has ended (`phase = "queued"`, what it did in `inner`). `sb` is the streambuf
with its memory and `gptr()`, `pptr()`, as offsets; `next` the three counters of
`consuming_buffers`; `index_` and `open` the endpoint and the socket. A byte is its place
in the stream: what has been read or written is a sequence of places, and a promise about
bytes is one about places. The stream moves any part of what it was asked for.

| code | model |
|---|---|
| `read_until_delim_string_op_v1`; with a delimiter of one byte `read_until_delim_op_v1` | `Looked`, `BeginReadUntil`, `HandleReadUntil` |
| `partial_search` | `PartialSearch` |
| `basic_streambuf::prepare` and `reserve`, `commit` | `Reserved`, `Committed` |
| `read_op`, `write_op` | `BeginTransfer`, `HandleTransfer` |
| `consuming_buffers::prepare`, `consume`; with one element `consuming_single_buffer` | `Prepared`, `Consumed` |
| `transfer_all`, `transfer_at_least`, `transfer_exactly` | `CheckForCompletion` |
| `range_connect_op`, `iterator_connect_op` | `BeginConnect`, `HandleConnect` |
| `cancellation_state` with `enable_partial_cancellation` | `Filtered`, `Emit`, `Cancelled` |

`ComposedGroup` makes it the first operation of a group: it begins when the group
launches it, its last handler is the group's (`FinishMe`), the handlers before run in the
same executor (`ContinueMe`), and a signal the group emits to it is an `Emit`
(`SignalsMe`). `ParallelGroup` alone lets an operation end when it likes and assumes that
it does once signalled; here that is a consequence.

## 3. What is checked

Deadlock checking is off in every run: the program may stop making calls (all its
operations done, no thread in a run function), which is a normal end. That nobody
is stuck before that is what the liveness properties, `NoStrandedHandler`,
`NothingStranded` and `NoCircularWait` say.

| run | instance | states | shows |
|---|---|---|---|
| `scheduler_pool` | the own thread and another in `run()`, 3 operations in batches, timers, continuations, `stop`, spurious wake-ups, shutdown; fair | 44 k | no lost wake-up (`NoStrandedHandler`); one task token (`ReactorExclusive`), a blocked reactor interruptible (`ReactorInterruptible`); nothing starts after `stop()` (`StopPreventsDispatch`); what is queued runs (`QueuedEventuallyRuns`); `stop()` gets everybody out (`StopReturns`) |
| `scheduler_hint1` | hint 1, one thread with every function it can call, 3 operations, a `poll` inside a handler | 252 k | descriptors dequeued in time (`DescriptorDequeued`, with the types), every operation in one place and completed or destroyed once (`HandlerOnce`), the counts add up (`WorkConserved`), the scheduler stops by itself only when all is done (`StopsOnlyWhenFinished`) |
| `scheduler_lost_wakeup` | 2 threads, `run` and `run_one`, continuations | violation | section 3.3 |
| `strand_pool` | one strand of each class, 2 pool threads, 1 outside, 4 handlers, nesting 3 deep, exceptions, shutdown; fair | 24 k | one holder of the lock; both implement `SerialExecutor`; every accepted handler runs or is destroyed |
| `channel_all` | 2 channels, capacities 0 and 2, 3 sends, 3 receives, everything | 213 k | states describe contents, casts are right, `MessageChannel` is implemented, cancellation reaches every waiter, sends are refused or delayed beside room only by a cancelled receive (`RoomIsUsed`) |
| `timers` | 2 timers in use among 5 waiting ones, timerfd or not; fair | 150 k | heap and indices right; no wait early, late, lost; the reactor wakes in time |
| `epoll` | 2 sockets, 2 files, 2 descriptor states, 2 operations, 1 thread | 540 k | states owned and never lost (`StatesOwned`), no edge missed (`NoMissedEvent`), order per kind (`PerformedInOrder`) |
| `iocp` | 2 threads, 2 operations, one failing post | 1.3 M | one dispatch each, with its result (`DispatchedOnce`); one stop event that reaches all, and what could not be posted is asked for (`NothingStranded`) |
| `parallel_group` | 2 operations, one of them composed (any of the four) and on a strand, cancellation by results and by the program, a stream of 5 bytes that may fail, a streambuf of 3, four buffers, 2 endpoints; fair | 145 k | one call with all results, nobody signalled twice, a request during the launch, or between two operations of the stream, ends the group (`CancelEndsGroup`); what the composed operation reports is true (`ComposedTrue`) |
| `signals` | 2 contexts with a set each, a shared signal, a pipe of one element, a fork | 2.0 M | counts exact and no wait passed over (`SignalsAccounted`), the pipe read by somebody, no circular wait |
| `resolver` | 2 threads that construct services, 2 resolvers, 2 operations, a fork, destruction; fair | 349 k | nothing outlives what it uses, one place per operation over two schedulers, resolves end |
| `ssl_stream` | a handshake, then a read and a write at a time, a shutdown; 2 writes; 3 units from the peer, up to two of them to be answered; cancellation, failures, end of file; client and server; fair | 296 k | every unit reaches the engine once and in order and every record the program (`InputInOrder`); one transfer of each kind, output once and in order, except where `Exposed` (`OutputInOrder`); no operation stays on a timer (`StreamOpsEnd`) |

### 3.1 Bounds

* `MaxOps`, `MaxBatch`, `MaxGuards`, `MaxHandlers` bound what the program starts.
  With three operations, two of them in a batch, a wake-up is passed on while a
  handler runs and posts a third; `scheduler_hint1` has one for the handler and two
  for the poll inside it.
* Two threads in `scheduler_pool`: one in a handler or outside the pool, the other
  asleep on the event or in the reactor and possibly forgotten. The reactor is
  exclusive, so a third thread only adds another sleeper. The theorems do not depend
  on the number.
* One descriptor in `Scheduler`: the property that concerns descriptors is about the
  same one being returned twice. `EpollReactor` has two, to be confused.
* `MaxDepth = 3`: a handler of one strand that runs a handler of the other in
  place, which calls the first.
* Channels: capacity 2 with 3 messages fills and overflows the buffer and refills
  it from the queue; two channels are needed for a move.
* Timers: `SixTimers` is a heap in which removing `t1` makes the last entry move
  *up*, the case that a test would hardly construct. `MaxTime = 2` lets some timers
  expire and others remain, and `MaxWait = 1` makes the reactor's own limit on
  waiting bite. `Never` is positive infinity.
* Epoll: two of everything that can be mistaken for one another (sockets, files,
  states, operations); `MaxData` and `MaxEvents` bound what the kernel holds and
  returns at once; `MaxExtras` bounds what happens beside opening, starting, closing
  and running, so that two unusual events may meet, and a fork that comes before
  them (the end of a file, and out-of-band data, meet no other). One thread: a descriptor's
  events are performed under its mutex, and the calls of the program interleave with
  every step of that thread.
* Completion port: `MaxFails = 1`, a failing post at any of the places; two threads,
  since the stop event is passed from one to the next.
* Parallel group: with two operations one may complete, and ask for cancellation,
  before the other is launched; the theorems of section 4.3 are for any number.
  `UnsignedMax` is no wider than any `unsigned int`. `MaxCancels = 1`, a signal by the
  program.
* Composed operations: `Lines` has a byte twice that begins the delimiter, cut at every
  place; from different places in it the streambuf of three finds the delimiter, fills
  up without it, is full of it before the first read, or meets the end of the stream
  (`SomeLeft`). `BufferDelta = 2` makes the streambuf grow and move its data.
  `FourBuffers` has an empty one, and `MaxBuffers = 2`, `MaxTransfer = 3` each limit some
  transfer; a read does not fill them, a write empties them.
* Signals: a pipe of one element is full as soon as a second signal arrives; two
  waits, two signals, one of them shared; one fork.
* Services: `MaxServices = 4` objects at a time hold three services and one that is
  constructed in vain; `Wants` makes one thread need what the other's constructor
  needs.
* Ssl stream: a buffer of two units and a BIO of one, so that the engine cannot take
  all that has been read and `input_` is used. The code leaves the size of the BIO to
  OpenSSL; it need not be smaller than the buffer, but `put_input` is written for it.
  Three units let a record follow the handshake in the same read, or follow a request,
  or two requests follow the handshake. With these and two writes (`MaxAsks = MaxWrites
  = 2`) the run reaches the two writes at a time that `Exposed` is about.

### 3.2 Fairness

* `Scheduler!FairSpec`: strong fairness on the library's own steps of each
  context, and on the end of its handlers. Threads are scheduled, the mutex is not
  withheld for ever from a thread that asks for it, and handlers return; nothing
  else is in those steps. A timed wait ends (weak fairness on `Timeout` for
  `wait_one`). The program owes no call, a socket no event, a timer no expiry, a
  condition variable no spurious wake-up.
* `Strand!FairSpec`: threads in the middle of a function go on; the executor runs
  an accepted invoker if a thread of the pool is idle again and again. Strong
  because a thread may be busy elsewhere in between.
* `TimerQueue!FairSpec`: time passes; the scheduler enters the reactor again
  while there is work (`QueuedEventuallyRuns`); `epoll_wait` returns when it has a
  reason to.
* `ComposedGroup!FairComposed`: the launching function and the handlers go on; an
  executor runs what it has been given, strong because it may be busy in between
  (`GroupFairness`); an operation of the group that has been signalled completes, which
  is what a cancellation slot is for (`EndsOnceSignalled`), except the composed one, of
  which only this is assumed that its handlers run. The stream owes it nothing, and an
  operation that has not been signalled need not end.
* `ResolverService!FairSpec`: one weak fairness on `Serving`: the work thread goes on
  and `getaddrinfo()` returns, some thread is in `run()` of the context, and a fork
  or a destruction that has begun is carried through.

* `SslFairSpec`: one weak fairness: while a handler is queued or the next layer
  can move something, one of them goes on. An operation is owed an end only when the
  input it needs has been sent, or the peer has gone, or it only has to write.

### 3.3 Disagreements between the code and what it says

One is checked as a run. **A wake-up is lost on leaving the pool**
(`scheduler.ipp:98`, `scheduler_lost_wakeup`). `~work_cleanup` publishes the private
queue without waking anybody. That is fine in `run()`, which looks at the queue
next; after `run_one()`, `poll_one()` or `wait_one()`, or when a handler throws,
nobody does. A handler deferred as a continuation then stays queued while a thread
sleeps in `run()`. `io_context.hpp:303` calls all waiting threads equivalent.

The others follow from the same models; a reader reproduces each by the change of a
configuration given here.

* **A nested `poll()` can stop the scheduler** (`scheduler.ipp:270`). With hint 1 it
  takes over the outer frame's queue and leaves its work count, so completing a
  moved handler reaches zero while the outer handler runs. `run()` then returns
  although that handler has started more work; `io_context.hpp:300` says it blocks
  until all work has finished. `StopsOnlyWhenFinished` excepts it by `TakenOver`.
* **`try_send` fails on an empty buffer** (`channel_service.hpp:250`). Cancelling the
  waiting receives sets the send state to `block` whatever the capacity.
  `basic_channel.hpp:274`: "Fails if the buffer is full and there are no waiting
  receive operations." `async_send` then waits for no reason, too. `RoomIsUsed` excepts
  it, and `ChannelRoomIsUsed` shows that nothing else leads there; without the disjunct
  on `cancelled` in `KeepsRoom`, the run shows the steps.
* **`cancel()` after `close()` casts sends to receives** (`channel_service.hpp:215`).
  `close()` leaves waiting sends queued and marks the state closed, from which
  `cancel()`, or the destructor, concludes that the waiters are receives
  (`"close_senders_waiting"` violates `CancelCompletes`; `basic_channel.hpp:255`).
* **`reset()` of an open channel** with buffered messages leaves the receive state at
  `buffer` over an empty buffer (`"reset_open"` violates `StatesAgree`;
  `basic_channel.hpp:241` promises the initial state), and **moving a channel** with
  operations waiting leaves them with the moved-from object (`"move_waiting"`
  violates `StatesAgree`; `basic_channel.hpp:127`).
* **A wait for reading completes on a socket that is not readable**: an event taken
  from the kernel for a socket that is then closed is performed on the next owner of
  its descriptor state. Operations that try their system call are not affected.
  `PROPERTIES WaitMeansReadable` in `EpollReactor.cfg`, `Kinds = {"wait_read"}`,
  `Uses = {}`.
* **`notify_fork` throws** where a plain file is assigned, or where a state is leaked
  (`"fork_throws"` in `Uses` of the epoll run).
* **The second of two contexts is not told of a fork** that both were prepared for:
  `fork_prepared_` is one flag for all services and the first clears it
  (`"fork_shared"` violates `PipeWatched`).
* **After a fork, queued resolve operations wait** until the program starts another
  one (`resolver_service_base.ipp:84`); `execution_context.hpp` speaks of "correct
  operation following a fork". `ResolveEnds` excepts it by `AwaitsThread`; put
  `ResolveEndsAnyway` in its place.
* **`async_resolve` on a moved-from resolver is always aborted**: the move leaves the
  shared token empty (`resolver_service_base.ipp:105`), and `ip/basic_resolver.hpp:138`
  promises the state of a new object (`"resolve_moved"` violates `ResolvedOnce`).

* **Two reads at a time under an ssl stream** (`ssl/detail/io.hpp:271`). The end of a
  read sets `pending_read_` free, which queues the operations that wait on it, and goes
  on in the loop, where it starts the next read and takes the timer again. When a
  released operation runs, it sets the timer free once more, as if it had done the
  reading, and starts a second read into the same `input_buffer_`; it also sets `input_`
  to nothing. `io.hpp:166`: "we cannot allow more than one read operation at a time on
  the underlying transport." Two operations that read are enough, such as
  `async_shutdown` during `async_read_some`: `Uses = {"duplex", "early_shutdown"}`,
  `MaxAsks = 0`, `BioSize = 2` in `SslStream.cfg` violates `OneTransfer`, and with
  `BioSize = 1`, `MaxIn = 4` `InputInOrder`.
* **Two writes at a time under an ssl stream** (`ssl/detail/io.hpp:286`), against
  `io.hpp:199`: "we cannot allow more than one write operation at a time on the
  underlying transport." The end of a write queues the read that waits to send an answer;
  before it runs, the program's next write takes the timer; the read then sets the timer
  free as if it had done the writing, and an answer to a second request of the peer
  is written beside the write. Leave `~Exposed =>` out of `OneTransfer` and
  `SslStream.cfg` finds it. Without the second request the read has nothing to write and
  no harm is done: `Exposed` asks for both.
* **Success before sending** (`ssl/detail/io.hpp:298`). An operation with `want_output`
  that has waited on `pending_write_` completes when another one's write ends; what the
  engine made for it stays in the BIO until somebody writes next. `OutputInOrder`
  demands of `promised.own`, not of `promised.waited`, that it has gone out; and it
  says nothing after a cancellation, since cancelling a wait also sets a timer free.

Smaller points. `channel.close()` drops buffered messages; a moved-from channel keeps
its capacity, where `basic_channel.hpp:127` and `:145` give it that of `basic_channel(const
executor_type&)`, which is 0 (`MovedFrom` is what the code does); the documentation of `try_receive` is a copy of `try_send`'s. The
cancellation slot of a wait on a timer, or of an operation on a socket, keeps the
address of the object it was started on, also after a move. A signal is
delivered to all waiting operations of a set, where `basic_signal_set.hpp:82` speaks of one
handler; notifications in the pipe survive a `remove()` and `add()` that
`basic_signal_set.hpp:76` says discard them. On Windows a failed post loses the result of an
operation (the part `ResultKept` of `DispatchedOnce` assumes none has failed), and a failed post of the stop event leaves
its flag set, after which no other is posted (`NothingStranded` likewise). In a
parallel group a second, stronger request for cancellation is swallowed. `cancellation_state`
keeps the last signal only (`cancelled_ = in_filter_(in)`, `cancellation_state.hpp:218`): one
that the filter lets nothing of through, such as `total`, erases an earlier `terminal`, where
the comment of `cancelled()` speaks of "the cancellation types that have been triggered". A
group signals an operation once, so `CancelEndsGroup` does not meet it; the program's own
signals have one type in the run. Without `cancelled_ = "none"` in `Signalled`,
`ComposedSpec` violates `ConnectTrue`: the attempt that the first signal aborts is then
reported without a cancellation.

The passing runs keep to programs that avoid these cases and say so by their
`Uses`, or by the exceptions named above: `scheduler_pool` does not combine
continuations with functions that run a single handler, `channel_all` closes only
without waiting sends, resets closed channels and moves channels nobody waits on;
the epoll run has no fork that throws, the signals run no fork shared by two
contexts, the resolver run no resolve on a moved-from object, the ssl run one
operation that reads at a time.

## 4. What is proved

### 4.1 Scheduler

`SchedulerProofs`, for every set of contexts, every nesting, every `MaxOps`, with
or without own thread and concurrency hint 1, from `ConstantsAssumption` alone
(types of the constants, and that the own thread is not nested):

| theorem | says |
|---|---|
| `TypeCorrect` | `TypeOK`: the task is never completed as a handler, nor on a private queue |
| `ReactorIsExclusive` | one task token, in the queue or with the one thread in the reactor |
| `ReactorIsInterruptible` | `task_interrupted_` or `stopped_` never stand without an interrupt a blocked reactor has yet to see |
| `DescriptorIsDequeued` | what the comment at `epoll_reactor.ipp:478` claims and the reactor relies on |
| `StopDispatch` | no step of `run()`/`run_one()` starts a handler once stopped |
| `HandlersOnce` | `HandlerOnce`: an operation is in one place and is completed or destroyed once |
| `WorkIsConserved` | `WorkConserved`: `outstanding_work_`, with what threads have not yet counted, is the number of operations and guards that are left |
| `StopsWhenFinished` | `StopsOnlyWhenFinished`, if one thread runs the scheduler and calls it, in frames nested in each other, and nobody calls `stop()` (`OneRunner`) |
| `NoHandlerStranded` | `NoStrandedHandler`, if every thread runs `run()` or `poll()` and no handler throws (`LoopsOnly`) |

The first five follow from the inductive invariant `IInv` (`Invariance`). The properties
are not inductive by themselves:

* `CurrentOperation` - a frame completing an operation has one; needed for types,
  since `NoOp` must not reach `done`.
* `ShutdownQuiet` - during shutdown only the own thread is left. `DestroyOps` drops the
  task token with the rest of the queue; a thread still in the reactor would put
  it back afterwards.
* `DescBeforeTask` and `PrivateDesc` - a descriptor returned by the reactor is put
  in front of the task, through the private queue of the same thread, so whoever
  takes the task has passed the descriptor. `DescriptorDequeued` follows at the
  moment the task is taken.
* `NestedInHandler` - a nested poll takes over a private queue; that it holds no
  descriptor needs the outer frame to be in a handler, not in the reactor.
* `RerunsLoop` - `run()` and `run_one()` test `stopped_` again after a wait or the
  reactor. It is what `StopDispatch` rests on. `poll()`, `poll_one()` and
  `wait_one()` do not test again: they may start one handler after `stop()`, and
  the property leaves them out.

The others each add an invariant to it:

* `HomeInv` says of each operation that no two of the queue, the private queues, the
  hands of the threads, the timers and the reactor hold it, and that one not yet issued is
  nowhere. It is about one operation at a time, so an action is dealt with by what it does
  to a single place; the batches and the lists that are spliced keep it by the lemmas on
  concatenation.
* `WorkInv` counts. It needs `HomeInv`: that a completed operation leaves one place and
  enters none is what makes the count fall by one.
* `QueueWatched` names who will look at the queue: a thread on its way to the mutex, one
  that has been signalled, one that will come out of the reactor. Waking is done by whoever
  pushes; the hypothesis excludes what leaves a queue without a look at it, and without it
  the invariant fails (`scheduler_lost_wakeup`, section 3.3).
* `StackInv` says that the active frames of the one thread lie on a stack: each in a
  handler that waits for it (`ActiveNested`), with an outermost one in every set of them
  (`Grounded`) and a single top (`OneTop`). Only the top takes a step, so the count that
  was zero when `stop()` was called is still zero when it gets the mutex (`StopInv`). What
  is left is arithmetic: a frame that has counted work privately is completing an operation
  that is not among those it has queued, so if the private queues hold what was counted,
  more is left than the counts admit (`AllDone`). With posting from other threads an
  operation may be started between the two, and be left behind by a scheduler that has
  stopped; with the private queue taken over, the arithmetic fails (section 3.3).

The proof has one lemma per conjunct, one step per action. `OpQueueTheorems`
holds what `Has`, `AtMostOnce` and `EveryBefore` do under append, concatenation
and tail, and an induction over finite sets (`SetInduction`) for formulas given as sets,
from which it has what a loop over the elements of a queue keeps (`LoopKeeps`).

### 4.2 Strand

The first part of `ServiceProofs`, for every set of threads and strands of either class, every depth of
nested calls and every program, from `ConstantsAssumption` (types, and that the pool
consists of threads):

| theorem | says |
|---|---|
| `LockedByOneAlways` | `LockedByOne`: a locked strand is held by one frame of one thread or by one invoker its executor has accepted, and an unlocked one has nothing queued |
| `StrandIsSerial` | `Serial`: a strand of either class implements `SerialExecutor` |

The inductive invariant `IInv` adds the types and `FramesOK` and states the property
per strand. `FramesOK` is needed because a step acts on the frame on top of a stack:
that only a handler's frame is nested, and that a frame about to push has something to
push, decides which steps release the strand. `StrandOK` replaces the count of holders
by "in use" and "at most one holder" (`InUse`, `OneHolder`), which a step that pushes,
pops or moves one frame changes in one place. The lemmas `PushFacts`, `PopFacts` and
`MoveFacts` say what each does to a stack, and the actions fall into those that take the
lock, hand it over, release it or leave it alone. After shutdown nothing is claimed.

The refinement adds what the lock does not say (`RInv`). A nested handler lies above a
frame that holds its strand (`StacksOK`), so all frames of a strand are on one thread
(`OneThread`), and a holder on top of its stack is the only frame of its strand
(`TopFrame`): that is why an invoker may start a handler. `ready_queue_` is empty while
the handler that took the lock is on its way to it (`QueuesOK`): that is why the queue,
used without the mutex, keeps the order of acceptance. Whoever runs a strand is a thread
of the pool; handlers are numbered as they are submitted, so the next one is new to the
promise (`NextFresh`). Each action then is one step of `SerialExecutor` or none.

### 4.3 Parallel group

The first part of `ComposedProofs`, for every number of operations with or without executors and every
number of requests, from `GroupAssumption`: two per operation and one per request of the
program fit the counter (`2 * N + MaxCancels < UnsignedMax`):

| theorem | says |
|---|---|
| `HandlerCalledOnce` | `CalledWhenComplete`: the handler is called once, when every operation has completed and its result and place are stored |
| `NobodySignalledTwice` | `SignalledOnce`: no operation gets a second signal from the group |

The two rest on different words. `CompletionInv`: `completed_` and `outstanding_` are the
numbers of operations that have drawn a place and that still use the state; no two have
the same place (`OwnPlace`), and one past `Capture` has left its result (`Recorded`), so
when `outstanding_` reaches zero everything is there. `SignalInv`:
`cancellations_requested_` stands `N` above the number of requests until everything has
been launched (`RequestsCounted`); nothing is emitted during the launch nor before there
is a request (`QuietBefore`), so the one that finds the counter at zero is alone
(`OneEmitter`); and it has a type, saved before the request was counted (`TypeSaved`).
The assumption keeps the counter from wrapping round to zero. `UnsignedMax` is no wider
than any `unsigned int`.

### 4.4 Composed operations

The second part of `ComposedProofs`, from `ComposedAssumption` (sizes are numbers, the delimiter and the
reads are not empty, what is left in a streambuf fits it):

| theorem | says |
|---|---|
| `ComposedResults` | `ComposedTrue` of the operation alone, with one cancellation at any time (`ComposedSpec`) |
| `ComposedInGroup` | `ComposedTrue` of the operation as one of a group, together with what is proved of the group |

`ComposedInv` has a part per operation. *Connect*: the endpoints before `index_` have
refused or are excluded, and an aborted attempt has a cause that is still visible, a
cancellation or a closed socket (`Trying`). *Transfer*: the position that the three counters of
`consuming_buffers` stand for is the number of bytes consumed, `taken` is ahead of it by
what the operation that has just ended moved, and no more than the condition allows is
under way (`NextOK`, `Limit`). *Read until*: the bytes between `gptr()` and `pptr()` are
one piece of the stream (`InOrder`), what has been read and not yet committed lies behind
them, and no delimiter begins before `search_position_` (`Searching`); it is the overlap
that `partial_search` leaves that keeps this true when a delimiter comes in pieces.

In a group (`GroupStep`, `OperationStep`) every step is one of the group and one of the
operation. The second needs `SignalledOnce`: a group signals once, so its signal meets an
operation whose `cancelled_` is still `none`, which is all that `ComposedSpec` allows
(`CancelledBySignal`; section 3.3 says what a second signal would do).
`ComposedGroupAssumption` says that the types are those of `cancellation_type`.

### 4.5 Channel

`ChannelProofs`, for every number of channels, messages and receives and all
capacities, in a program that does not move channels on which operations wait, close
them while sends wait, or reset them while they are open (`Uses \cap Unsafe = {}`;
section 3.3 says what the code does then):

| theorem | says |
|---|---|
| `ChannelStatesAgree` | `StatesAgree`: the two states of a channel describe what it holds and what waits |
| `ChannelCancelCompletes` | `CancelCompletes`: `cancel()` completes every operation that waits |
| `ChannelRoomIsUsed` | `RoomIsUsed`: a channel begins to refuse or delay sends beside room only when a waiting receive is cancelled |
| `ChannelKeepsThePromise` | `Fifo`: the channels implement `MessageChannel` |

`StatesDescribe` is nearly inductive: it says that what waits is of one kind, and the
state says which, so every cast is right. `ChannelInv` adds that a channel stays closed
between the two halves of `reset()`, while the mutex is free. The loops that complete all
waiters (`cancel`, `close`, `destroy`) are folds over the queue; `Kept` says what they
leave alone. `RoomIsUsed` follows from it function by function: the send state becomes `block`
where `Push` takes the last place, where a channel without a buffer loses its last waiting
receive, and in `NoWaiter`, whose waiters `StatesDescribe` knows to be receives.

The refinement needs `OrderInv` besides: an operation waits once, in one channel, and its
outcome says that it waits; what is buffered in an open channel has been sent; only a receive
that succeeded has a message. Each function of the service is then one step of
`MessageChannel`, or a stutter (the lemmas `...Seen`): a receive that pops the buffer and
refills it from the first waiting send is one `Take`, for `Queue` is the buffer followed by
the messages of the sends that wait. `try_send_n` is a loop in the code and one `Send` in the
promise. `AllTurns`, by induction over its turns, says that after `n` of them the first `h`
messages are with the receives that waited, the next `k - h` in the buffer and the rest
refused (`SoFar`), however many there are of each. Operations that are cancelled leave the
queue without disturbing the order of the others (`Withdraw`).

### 4.6 Completion port

`WinIocpProofs`, for every number of threads, operations and failed posts, from
`IocpAssumption`:

| theorem | says |
|---|---|
| `OperationsAreDispatchedOnce` | `DispatchedOnce`: an operation is in one place until it is dispatched, not before the call that started it has returned, and with the result that the system gave |
| `NothingIsStranded` | `NothingStranded`: a stop event that is marked as posted is in the port, once, or with a thread that passes it on; what has been put aside, and a timer that is due, has somebody who was asked to dispatch it |

The inductive invariant is `TypeInv` with

* `HomeInv` - per operation one place (`OneHome`: the port, `completed_ops_`, the timers,
  the hand of a thread, the device, or a call that has yet to return), and what `ready_`, the call and the device say of it
  (`CallKnown`). An operation in the port or in a hand has `ready_` set, or its call has yet
  to set it; that decides which of the two that meet at the exchange dispatches.
* `ResultInv` - a packet that is on its way brings a result (`CarriedInv`), and as long as no
  post has failed, the one the system said (`OwnInv`).
* `WorkInv` - `outstanding_work_` is the number of operations and handlers that are left.
  It is needed for its type: that it never falls below zero.
* `StopInv` - one stop token, in the port or with a thread, and if no post has failed there
  is one whenever `stop_event_posted_` is set; a stopped context has that flag set, or a
  thread that is about to set it.
* `AskedInv` - while there are timers, the waitable timer is set or somebody has been asked;
  while something is put aside, the flag is set or a thread is about to look.

`Posted` posts a list one by one until a post fails, so the lemmas on `PostedOf` say
where each element of the list lands.

### 4.7 Signal sets

The second part of `ServiceProofs`, for every number of services, sets, signals and waits and any size of
the pipe, from `SignalAssumption`:

| theorem | says |
|---|---|
| `SignalTypes` | `SignalTypeOK`: no count and no number of kept signals falls below zero |
| `SignalsAddUp` | `SignalsAccounted`: the process counts each signal as often as there are sets that registered it, and no wait is pending while a signal is kept for its set |
| `PipeIsWatched` | `PipeWatched`, if no two services are alive at a fork (`NoSharedFork`): a running service watches the open pipe |

`ProcessInv` has the types and the states in which a service is in the list.
`CountsInv` says that the counts are those of the registrations, which are removed one by
one when a set is cleared. `WaitInv`: a set has waits or kept signals, never both
(`NothingKept`), and a wait is in one queue (`QueuedOnce`), so that delivering to all
sets completes each once. `PipeInv`: the list has the services that are up (`ListExact`),
a service that reads has the pipe that is open now (`ReadsCurrent`), one that is running
watches it and has an edge while there is something in it (`RunningWatched`), and one that
prepares a fork is alone (`ForkAlone`). With two, the first clears `fork_prepared_` and the second goes on
watching the old pipe (section 3.3).

### 4.8 Service registry and resolver

`ResolverProofs`, for every number of threads, of types of service that need one another,
of resolvers, operations and forks, from `RegistryAssumption` and `ResolverAssumption`
(there is room for the scheduler, which needs nothing, and the resolver service needs it;
resolvers are finitely many, so there is always a token that nobody has, and "no resolver"
is not one of them):

| theorem | says |
|---|---|
| `ServicesOutliveNothing` | `NothingOutlives`: one service per key, each in front of those its constructor obtained; references, a resolver's service and a work thread's scheduler are still there; no thread lives through a fork |
| `OperationsAreResolvedOnce` | `ResolvedOnce`, if no operation is started on a moved-from resolver: each operation is in one place until its handler has run or been destroyed, once; it is told to abort exactly when its resolver was cancelled or destroyed |

`ServiceInv` has two halves. `RegistryInv`: under the call that runs on a thread there are
only constructors that wait for it (`Shape`), each with an object of its own that is not
in the list (`Frames`, `Apart`); an object is in the list or in such a hand, and what it
uses is in the list (`Placed`), so deleting the loser of a race or the objects of a
constructor that throws takes nothing away from anybody. A service is linked when it has
all it needs (`Linked`), in front, after a second look for its key: that gives `OnePerKey`
and `InFront`. What is still to be visited is the end of the list (`Walking`).

The other half: only a service that `shutdown()` has yet to visit (`Standing`) has
operations or a thread (`Working`), and a resolver that exists has its service and, if a
handler owns it, the operation is somewhere between the two schedulers (`Owned`).
`SchedulerFacts` joins the two: the scheduler of a resolver service stands behind it in
the list, so it has not been visited either when the work thread passes an operation back.

`OperationsAreResolvedOnce` adds `OpsInv` and `TokensInv` to it (together `OnceInv`, which
TLC also checked). `OpsInv`: an operation that has not finished (`Left`) sits in the queue
of a resolver service's private scheduler, in the hand of its work thread or in the queue
of the context's scheduler, and in one position of one of these (`Once`); none that has
finished is anywhere; as long as the context is open its work count is the number of those
left. A step moves one operation to the next place (`ResolveComes`, `TakeMoves`,
`PassBackMoves`) or takes some away from theirs for good (`OpsLeave`, with one lemma per way
to go). `TokensInv`: no two resolvers have the same token, and a queued operation has the
token of the resolver responsible for it until that one is cancelled or destroyed, after
which nobody has it (`Remembers`); moving a resolver hands on the responsibility with the
token. The hypothesis `"resolve_moved" \notin Uses` is the rule of section 3.3 that the
program starts no operation on a resolver it has moved from: such a one has an empty token,
which the work thread takes for one that was cancelled.

### 4.9 Ssl stream

`SslProofs`, from `SslAssumption` (the buffer and the BIO are not empty; the rest are types):

| theorem | says |
|---|---|
| `InputArrivesInOrder` | `InputInOrder`, unless a shutdown overtakes a read (`"early_shutdown" \notin Uses`) |
| `OutputLeavesInOrder` | `OutputInOrder`, if besides the output buffer is as large as the BIO (`BioSize <= BufferSize`), whatever the peer asks |

*Input.* The hypothesis is the one without which the property is false (section 3.3): two operations
that read at a time. Handshake, read and shutdown one after the other, each with writes beside
it, cancellations, failures and an end of the connection anywhere, are covered. `InputInv`
has seven parts. `Control` says where each operation can be and with what arguments, and
that no two that read are outstanding. `Stream` is the one about the buffers: what the engine has
used, what is in the BIO, what `input_` shows and what the read in progress has brought are
consecutive, and they are all that has been received; and nobody reads, or waits to
read, while `input_` still shows something. `SentInOrder` and `Shaken` are about the greeting,
which only the handshake may find: a handshake that has found it and still has to send is done
when its output is, and does not go back to the loop. `Counted` follows each record from the
engine through `bytes_transferred_` of a read, which has nothing left to do but to send, to the
program. `Closed` is what the report of the end of file rests on.

Each step of the loop is a call of the engine that takes some units (`Takes`) and then a
transfer, a wait or the handler (`Passes`), or the code behind `default:`
(`Reports`, `Retries`); each part of `InputInv` is proved of these four.

*Output.* Nothing is assumed of the peer. The property itself ends where the code is
exposed (section 3.3), which takes a write that overtakes an operation and a second
request. The buffer is as large in
the code: `engine.ipp:54` makes the BIO pair with its default size, 17 KB, which is
`stream_core.hpp:38`, the size of `output_buffer_`; so what an operation takes out of the
engine fits one buffer, and nothing is left behind it. `OutputInv` adds seven parts:

* `Apart` - a shutdown does not write beside a write. `OutFits` - the engine makes no more
  than the BIO holds.
* `Handlers` - what ends a wait comes from a timer, what ends a write does not, and an
  operation is marked cancelled only where a cancellation is on record (`stopped`).
  `Pending` - the timer is taken only while somebody writes, so nobody waits on it in vain.
* `Answering`, until the peer asks again - as long as the one request is not met nothing stays
  in the BIO: whoever made output has taken it out, or waits to; and the operations wait
  behind one another only once it is met. So a read that was overtaken has had its answer made.
* `Turns`, until the code is exposed - at most one operation writes. `pending_write_` is not
  enough for it: a wait also ends by setting the timer free, under a write that another
  operation has begun in the meantime. Such a wait is that of a cancelled operation, and then
  no other is left to write; or that of a read that a write has overtaken (`overtaken`). Then
  a second write needs a second request, or none is made as long as nothing was overtaken.
* `Line`, until then and as long as nothing has failed or been cancelled - what has gone out,
  what is left of the write
  in progress in `output_buffer_` and what is in the BIO follow one another (`Carries`,
  `Behind`), and the last unit that the writer answers for (`mark`) goes out with its write
  at the latest.

Each step of the loop leaves the output alone (`CalmKeeps`), begins a write
(`StartWritingKeeps`), waits for one (`WaitToWriteKeeps`), or is the end of one
(`SentKeeps`).

### 4.10 Only model-checked

* Liveness, in every module: the prover has no rule for fairness. `CancelEndsGroup` and
  `StopReturns` are of this kind.
* `NoCircularWait` of the signal sets, which is about `ENABLED`.
* The timer heap and the waits on it, the descriptors of the epoll reactor.

## 5. What is left out, and the plan

### 5.1 Left out of the modelled parts

* Scheduler: locking disabled by `ASIO_CONCURRENCY_HINT_UNSAFE` (one thread by
  contract).
* Strands, channels, timers: message contents and handler types; the hash by which
  strands share mutexes and implementations; several timer queues in one reactor;
  blocking `wait()`.
* Epoll: `EPOLLERR` and `EPOLLHUP`; a failing `EPOLL_CTL_MOD`. A read that is performed
  after end of file and leaves the descriptor "exhausted" waits for an event that does
  not come; `NoMissedEvent` is about data, not about end of file.
* Completion port: the context's own thread, `abandon_operations`, `dispatch`,
  `move_timer`, the period of the waitable timer; an infinite
  `gqcs_timeout`, with which an operation on `completed_ops_` may wait while every
  thread is blocked (`FiniteTimeout = FALSE`). Putting an operation on `completed_ops_` and
  setting the flag is one step, both being done before the mutex is released. No liveness.
* Parallel group: the user's slot is filled after the launch, as in the code; a
  signal may reach the slot of an operation that has completed, and does nothing.
* Composed operations: the variants for dynamic buffers, match conditions and regular
  expressions, the `_at` operations, the synchronous functions and `async_compose`; the
  capacity of a streambuf's vector beyond what is in use, which only makes a read larger;
  connect conditions that look at the error of the last attempt.
* Signal sets: failures of `sigaction` and of `pipe`; a thread-unsafe build. A full
  pipe loses signals, as in the code, and `shutdown()` finds only operations of sets
  with a registration.
* Services: a context starts with its scheduler registered. The loser of a race of
  constructions is deleted while the registry's mutex is held; its destructor calls
  nothing that needs it. A fork is complete before another call is made, as
  `execution_context.hpp` demands. Services that are created by the destructors of
  handlers during `shutdown()`, a concurrency hint without locking, the blocking
  `resolve()`, and `has_service`, which only reads, are left out.

* Ssl stream: the synchronous operations, the buffered handshake, moves, several rounds
  of a handshake, a write that needs input (renegotiation), and the errors OpenSSL
  reports, of which a record in place of the peer's notification stands for all.

### 5.2 Not modelled

`PROJECT.json` gives the reason for each part with status `not_modelled`: the other
reactors and io_uring repeat the task interface; coroutines, futures, executors and
tokens are types or transfers of control within a thread; sockets' options,
addresses, files and serial ports are system calls and conversions.

### 5.3 Plan

Theorems, in this order: `StatesOwned` and `NoMissedEvent` of the epoll reactor; `HeapConsistent`, whose `UpHeap` and `DownHeap` are recursive functions
over indices.
