------------------------------ MODULE Scheduler ------------------------------
(***************************************************************************)
(* asio::detail::scheduler (detail/scheduler.hpp, detail/impl/             *)
(* scheduler.ipp): the queue of ready operations behind io_context, run by *)
(* a pool of threads, with the epoll reactor as a task that takes its turn *)
(* in the same queue.                                                      *)
(*                                                                         *)
(* A "context" is one invocation frame: a thread calling run(), run_one(), *)
(* wait_one(), poll() or poll_one(), or a poll() nested in a handler of    *)
(* another context of the same thread (Outer).  A context that is not      *)
(* nested and not in such a call stands for its thread outside the pool,   *)
(* which may post, stop, cancel and so on.                                 *)
(*                                                                         *)
(* The scheduler's mutex is held exactly by a context whose pc is in       *)
(* Holding; every other critical section is one atomic step guarded by     *)
(* MutexFree.  What happens after an unlock (pthread_cond_signal, the      *)
(* stop() of work_finished, the push that follows work_started) is a step  *)
(* of its own, recorded in pend.                                           *)
(***************************************************************************)
EXTENDS Integers, Sequences, FiniteSets, OpQueue

CONSTANTS
    Contexts,    \* the call frames
    Outer,       \* the enclosing frame of a nested poll, NoContext otherwise
    NoContext,
    MaxOps,      \* bound on the operations the program starts
    MaxBatch,    \* bound on the operations of one post_immediate_completions
    MaxGuards,   \* bound on the executor work guards held at once
    OneThread,   \* one_thread_: concurrency hint 1
    OwnThread,   \* the frame run by thread_, NoContext when own_thread is false
    Modes,       \* the run functions the program calls
    Uses         \* the other calls the program makes

Ops == 1 .. MaxOps
Task == MaxOps + 1      \* &task_operation_
Desc == MaxOps + 2      \* the descriptor_state of the one registered descriptor
NoOp == 0
Queueable == Ops \cup {Task, Desc}

RunModes == {"run", "run_one"}
PollModes == {"poll", "poll_one"}
AllModes == RunModes \cup PollModes \cup {"wait_one"}
Loops == {"run", "poll"}     \* the functions that call do_*_one repeatedly
AllUses == {"post", "continuation", "dispatch", "io", "timer", "cancel", "guard",
            "stop", "restart", "shutdown", "throw", "spurious"}

ASSUME ConstantsAssumption ==
    /\ MaxOps \in Nat /\ MaxBatch \in Nat \ {0} /\ MaxGuards \in Nat
    /\ NoContext \notin Contexts
    /\ Outer \in [Contexts -> Contexts \cup {NoContext}]
    /\ OwnThread \in Contexts \cup {NoContext}
    /\ OwnThread \in Contexts => Outer[OwnThread] = NoContext
    /\ OneThread \in BOOLEAN
    /\ Modes \subseteq AllModes /\ Uses \subseteq AllUses

VARIABLES
    op_queue_, outstanding_work_, stopped_, shutdown_, task_, task_interrupted_,
    signalled,   \* bit 0 of wakeup_event_.state_
    interrupt,   \* an edge of the reactor's interrupter not yet consumed
    event,       \* an edge of the descriptor not yet consumed
    io,          \* the reactor operations waiting on the descriptor
    timers,      \* the scheduled timer operations
    expired,     \* those whose time has come, in order of expiry
    issued,      \* the number of operations the program has started
    done,        \* the operations whose handler has run
    destroyed,   \* those destroyed by shutdown()
    guards,      \* executor work guards held by the program
    pc, mode,
    private_op_queue, private_outstanding_work,
    cur,         \* the operation being completed
    usec,        \* how long task_->run() may block
    pend,        \* what the context still has to do before its next statement
    arg          \* the operations it still has to push

shared == <<op_queue_, outstanding_work_, stopped_, shutdown_, task_, task_interrupted_,
            signalled>>
reactor == <<interrupt, event, io, timers, expired>>
program == <<issued, done, destroyed, guards>>
local == <<pc, mode, private_op_queue, private_outstanding_work, cur, usec, pend, arg>>
vars == <<shared, reactor, program, local>>

-----------------------------------------------------------------------------
OpsIn(q) == {q[i] : i \in 1 .. Len(q)} \cap Ops
Waiting == {c \in Contexts : pc[c] = "wait"}
\* state_ > 1: state_ counts a waiter until it has reacquired the mutex.
Waiters == {c \in Contexts : pc[c] \in {"wait", "woken"}}
Holding == {"loop", "waited", "polled"}
MutexFree == \A c \in Contexts : pc[c] \notin Holding
InTask(c) == pc[c] \in {"task", "task_cleanup"}

\* The innermost frame of its thread, with nothing left over from its last statement.
Innermost(c) == pend[c] = "none" /\ \A d \in Contexts : Outer[d] = c =>
                                         pc[d] = "idle" /\ pend[d] = "none"
InHandler(c) == pc[c] = "handler" /\ cur[c] # Desc
\* Program code runs in c: in a handler, or in a thread outside the pool.
MayCall(c) == /\ Innermost(c)
              /\ \/ InHandler(c)
                 \/ pc[c] = "idle" /\ Outer[c] = NoContext /\ c # OwnThread /\ ~shutdown_
\* thread_call_stack::contains(this)
InPool(c) == pc[c] # "idle"

\* o == &task_operation_ decides between the two kinds of work.
FrontIsTask == op_queue_ # <<>> /\ Head(op_queue_) = Task
FrontIsHandlerUnchecked == op_queue_ # <<>>     \* mutant: no comparison
FrontIsHandler == op_queue_ # <<>> /\ Head(op_queue_) # Task

\* At the head of a do_*_one with the mutex held, and, where the code tests it, not stopped.
LookingUnchecked(c) == pc[c] \in Holding        \* mutant: stopped_ not tested
Looking(c) == pc[c] \in Holding /\ (pc[c] = "loop" => ~stopped_)

\* event::clear, wait: the bit is clear, so the caller blocks.
WaitForEvent(c) == /\ signalled' = FALSE
                   /\ pc' = [pc EXCEPT ![c] = "wait"]

\* unlock, with no one to wake
WakeNone == UNCHANGED <<signalled, pend, task_interrupted_, interrupt>>

\* mutant: a thread in the reactor is not interrupted
WakeOneWaiter(c) ==
    /\ signalled' = TRUE
    /\ pend' = [pend EXCEPT ![c] = IF Waiters # {} THEN "signal" ELSE "none"]
    /\ UNCHANGED <<task_interrupted_, interrupt>>

\* wake_one_thread_and_unlock, the lock being dropped by the caller's pc'.
WakeOne(c) ==
    /\ signalled' = TRUE
    /\ pend' = [pend EXCEPT ![c] = IF Waiters # {} THEN "signal" ELSE "none"]
    /\ LET interrupting == Waiters = {} /\ ~task_interrupted_ /\ task_
       IN  /\ task_interrupted_' = (task_interrupted_ \/ interrupting)
           /\ interrupt' = (interrupt \/ interrupting)

\* A thread that takes a handler and leaves others queued wakes the next thread.
PassOnNothing(c) == WakeNone                    \* mutant: more_handlers ignored
PassOnWakeUp(c) ==
    IF Tail(op_queue_) # <<>> /\ ~OneThread THEN WakeOne(c) ELSE WakeNone

\* mutant: the task is left blocked
StopWaitersOnly ==
    /\ stopped_' = TRUE
    /\ signalled' = TRUE
    /\ pc' = [d \in Contexts |-> IF pc[d] = "wait" THEN "woken" ELSE pc[d]]
    /\ UNCHANGED <<task_interrupted_, interrupt>>

\* stop_all_threads
StopAllThreads ==
    /\ stopped_' = TRUE
    /\ signalled' = TRUE
    /\ pc' = [d \in Contexts |-> IF pc[d] = "wait" THEN "woken" ELSE pc[d]]
    /\ task_interrupted_' = (task_interrupted_ \/ task_)
    /\ interrupt' = (interrupt \/ (~task_interrupted_ /\ task_))

Init ==
    /\ op_queue_ = <<>>
    /\ outstanding_work_ = IF OwnThread = NoContext THEN 0 ELSE 1
    /\ stopped_ = FALSE /\ shutdown_ = FALSE
    /\ task_ = FALSE /\ task_interrupted_ = TRUE
    /\ signalled = FALSE
    /\ interrupt = FALSE /\ event = FALSE
    /\ io = <<>> /\ timers = {} /\ expired = <<>>
    /\ issued = 0 /\ done = {} /\ destroyed = {} /\ guards = 0
    /\ pc = [c \in Contexts |-> IF c = OwnThread THEN "enter" ELSE "idle"]
    /\ mode = [c \in Contexts |-> "run"]
    /\ private_op_queue = [c \in Contexts |-> <<>>]
    /\ private_outstanding_work = [c \in Contexts |-> 0]
    /\ cur = [c \in Contexts |-> NoOp]
    /\ usec = [c \in Contexts |-> "zero"]
    /\ pend = [c \in Contexts |-> "none"]
    /\ arg = [c \in Contexts |-> <<>>]

-----------------------------------------------------------------------------
(* The run functions.                                                      *)

\* A run function returns; its locals (mode stands for them) are gone.
Return(c) == pc' = [pc EXCEPT ![c] = "idle"] /\ mode' = [mode EXCEPT ![c] = "run"]

\* Entry: with no outstanding work the scheduler stops, and the call returns.
Call(c, m) ==
    /\ m \in Modes
    /\ pc[c] = "idle" /\ pend[c] = "none" /\ ~shutdown_ /\ c # OwnThread
    /\ Outer[c] # NoContext => /\ m \in PollModes
                               /\ Innermost(Outer[c]) /\ InHandler(Outer[c])
    \* Concurrency hint 1 promises that one thread at most runs the scheduler.
    /\ (OneThread /\ Outer[c] = NoContext) => \A d \in Contexts : pc[d] = "idle"
    /\ IF outstanding_work_ = 0
       THEN pend' = [pend EXCEPT ![c] = "stop"] /\ UNCHANGED <<pc, mode>>
       ELSE /\ pc' = [pc EXCEPT ![c] = "enter"]
            /\ mode' = [mode EXCEPT ![c] = m]
            /\ UNCHANGED pend
    /\ UNCHANGED <<shared, reactor, program, private_op_queue, private_outstanding_work,
                   cur, usec, arg>>

\* The outer frame's operations move to the main queue.
OuterCopied(c) == private_op_queue              \* mutant: copied, not moved
OuterTaken(c) == [private_op_queue EXCEPT ![Outer[c]] = <<>>]

\* The first lock; a nested poll moves the outer frame's private operations.
Enter(c) ==
    /\ pc[c] = "enter" /\ MutexFree
    /\ pc' = [pc EXCEPT ![c] = "loop"]
    /\ IF OneThread /\ Outer[c] # NoContext /\ mode[c] \in PollModes
       THEN /\ op_queue_' = op_queue_ \o private_op_queue[Outer[c]]
            /\ private_op_queue' = OuterTaken(c)
       ELSE UNCHANGED <<op_queue_, private_op_queue>>
    /\ UNCHANGED <<outstanding_work_, stopped_, shutdown_, task_, task_interrupted_, signalled,
                   reactor, program, mode, private_outstanding_work, cur, usec, pend, arg>>

\* stopped_ at the head of do_run_one's loop, of do_wait_one and of do_poll_one
ReturnStopped(c) ==
    /\ pc[c] = "loop" /\ stopped_
    /\ Return(c)
    /\ UNCHANGED <<shared, reactor, program, private_op_queue,
                   private_outstanding_work, cur, usec, pend, arg>>

\* An empty queue: do_run_one and do_wait_one wait.
Wait(c) ==
    /\ pc[c] = "loop" /\ ~stopped_ /\ op_queue_ = <<>> /\ mode[c] \notin PollModes
    /\ WaitForEvent(c)
    /\ UNCHANGED <<op_queue_, outstanding_work_, stopped_, shutdown_, task_, task_interrupted_,
                   reactor, program, mode, private_op_queue, private_outstanding_work, cur,
                   usec, pend, arg>>

\* do_poll_one finds nothing, do_wait_one finds nothing after its wait.
ReturnEmpty(c) ==
    /\ op_queue_ = <<>>
    /\ \/ pc[c] = "loop" /\ ~stopped_ /\ mode[c] \in PollModes
       \/ pc[c] = "waited"
    /\ Return(c)
    /\ UNCHANGED <<shared, reactor, program, private_op_queue,
                   private_outstanding_work, cur, usec, pend, arg>>

\* event::wait loops until bit 0 is set; wait_for_usec waits once.
Reacquire(c) ==
    /\ pc[c] = "woken" /\ MutexFree
    /\ pc' = [pc EXCEPT ![c] = IF mode[c] = "wait_one" THEN "waited"
                               ELSE IF signalled THEN "loop" ELSE "wait"]
    /\ UNCHANGED <<shared, reactor, program, mode, private_op_queue,
                   private_outstanding_work, cur, usec, pend, arg>>

\* pthread_cond_timedwait times out; pthread_cond_wait returns spuriously.
Timeout(c) ==
    /\ pc[c] = "wait"
    /\ mode[c] = "wait_one" \/ "spurious" \in Uses
    /\ pc' = [pc EXCEPT ![c] = "woken"]
    /\ UNCHANGED <<shared, reactor, program, mode, private_op_queue,
                   private_outstanding_work, cur, usec, pend, arg>>

\* The task is at the front: leave the mutex and run the reactor.
TakeTask(c) ==
    /\ Looking(c) /\ pc[c] # "polled" /\ FrontIsTask
    /\ op_queue_' = Tail(op_queue_)
    /\ pc' = [pc EXCEPT ![c] = "task"]
    /\ LET more_handlers == Tail(op_queue_) # <<>>
           waking == more_handlers /\ ~OneThread /\ mode[c] \notin PollModes
       IN  /\ task_interrupted_' = IF mode[c] \in PollModes THEN task_interrupted_
                                                            ELSE more_handlers
           /\ signalled' = (signalled \/ waking)
           /\ pend' = [pend EXCEPT ![c] = IF waking /\ Waiters # {} THEN "signal" ELSE "none"]
           /\ usec' = [usec EXCEPT ![c] =
                  IF more_handlers \/ mode[c] \in PollModes \/ pc[c] = "waited" THEN "zero"
                  ELSE IF mode[c] \in RunModes THEN "forever" ELSE "timed"]
    /\ UNCHANGED <<outstanding_work_, stopped_, shutdown_, task_, reactor, program, mode,
                   private_op_queue, private_outstanding_work, cur, arg>>

\* epoll_reactor::run: what is ready goes to the private queue, descriptors first.
RunTask(c) ==
    /\ pc[c] = "task" /\ pend[c] = "none"
    /\ usec[c] = "forever" => interrupt \/ event \/ expired # <<>>
    /\ pc' = [pc EXCEPT ![c] = "task_cleanup"]
    /\ private_op_queue' = [private_op_queue EXCEPT ![c] =
           @ \o (IF event THEN <<Desc>> ELSE <<>>) \o expired]
    /\ interrupt' = FALSE /\ event' = FALSE /\ expired' = <<>>
    /\ usec' = [usec EXCEPT ![c] = "zero"]
    /\ UNCHANGED <<shared, io, timers, program, mode, private_outstanding_work, cur, pend, arg>>

\* What the reactor returned goes in front of the task.
TaskThenCompleted(c) == <<Task>> \o private_op_queue[c]    \* mutant: the other order
CompletedThenTask(c) == private_op_queue[c] \o <<Task>>

\* ~task_cleanup: the operations first, the task behind them; the lock is kept.
TaskCleanup(c) ==
    /\ pc[c] = "task_cleanup" /\ MutexFree
    /\ outstanding_work_' = outstanding_work_ +
           (IF private_outstanding_work[c] > 0 THEN private_outstanding_work[c] ELSE 0)
    /\ private_outstanding_work' = [private_outstanding_work EXCEPT ![c] = 0]
    /\ task_interrupted_' = TRUE
    /\ op_queue_' = op_queue_ \o CompletedThenTask(c)
    /\ private_op_queue' = [private_op_queue EXCEPT ![c] = <<>>]
    /\ pc' = [pc EXCEPT ![c] = IF mode[c] \in RunModes THEN "loop" ELSE "polled"]
    /\ UNCHANGED <<stopped_, shutdown_, task_, signalled, reactor, program, mode, cur, usec,
                   pend, arg>>

\* do_wait_one and do_poll_one give up when the task has nothing for them.
ReturnPolled(c) ==
    /\ pc[c] = "polled" /\ FrontIsTask
    /\ Return(c)
    /\ IF mode[c] \in PollModes \/ ~OneThread
       THEN /\ signalled' = TRUE
            /\ pend' = [pend EXCEPT ![c] = IF Waiters # {} THEN "signal" ELSE "none"]
       ELSE UNCHANGED <<signalled, pend>>
    /\ UNCHANGED <<op_queue_, outstanding_work_, stopped_, shutdown_, task_, task_interrupted_,
                   reactor, program, private_op_queue, private_outstanding_work, cur, usec,
                   arg>>

\* An operation is at the front: pop it, pass the wake-up on, complete it.
TakeHandler(c) ==
    /\ Looking(c) /\ FrontIsHandler
    /\ op_queue_' = Tail(op_queue_)
    /\ cur' = [cur EXCEPT ![c] = Head(op_queue_)]
    /\ pc' = [pc EXCEPT ![c] = "handler"]
    /\ PassOnWakeUp(c)
    /\ UNCHANGED <<outstanding_work_, stopped_, shutdown_, task_, event, io, timers, expired,
                   program, mode, private_op_queue, private_outstanding_work, usec, arg>>

\* compensating_work_started
NoCompensation(c) == UNCHANGED private_outstanding_work     \* mutant
CompensatingWorkStarted(c) ==
    private_outstanding_work' = [private_outstanding_work EXCEPT ![c] = @ + 1]

\* post_deferred_completions: the work is already counted.
PostDeferred(c, ops) ==
    IF OneThread /\ InPool(c)
    THEN /\ private_op_queue' = [private_op_queue EXCEPT ![c] = @ \o ops]
         /\ UNCHANGED <<pend, arg>>
    ELSE /\ pend' = [pend EXCEPT ![c] = "push"]
         /\ arg' = [arg EXCEPT ![c] = ops]
         /\ UNCHANGED private_op_queue

\* descriptor_state::do_complete when no operation could be performed: the
\* work_finished to come is compensated for.
PerformNone(c) ==
    /\ pc[c] = "handler" /\ cur[c] = Desc /\ pend[c] = "none"
    /\ CompensatingWorkStarted(c)
    /\ pc' = [pc EXCEPT ![c] = "cleanup"]
    /\ UNCHANGED <<shared, reactor, program, mode, private_op_queue, cur, usec, pend, arg>>

\* Otherwise the first operation performed completes in place and the others
\* are posted.
PerformIo(c) ==
    /\ pc[c] = "handler" /\ cur[c] = Desc /\ pend[c] = "none"
    /\ \E n \in 1 .. Len(io) :
         /\ io' = SubSeq(io, n + 1, Len(io))
         /\ cur' = [cur EXCEPT ![c] = io[1]]
         /\ IF n > 1 THEN PostDeferred(c, SubSeq(io, 2, n))
                     ELSE UNCHANGED <<private_op_queue, pend, arg>>
    /\ UNCHANGED <<shared, interrupt, event, timers, expired, program, pc, mode,
                   private_outstanding_work, usec>>

\* The handler returns, or throws: an exception ends the run function.
HandlerEnds(c) ==
    /\ InHandler(c) /\ Innermost(c)
    /\ pc' = [pc EXCEPT ![c] = "cleanup"]
    /\ \/ UNCHANGED mode
       \/ "throw" \in Uses /\ mode' = [mode EXCEPT ![c] = "unwinding"]
    /\ UNCHANGED <<shared, reactor, program, private_op_queue, private_outstanding_work, cur,
                   usec, pend, arg>>

\* The change of outstanding_work_ when a handler that started n operations ends.
CleanupDeltaLate(n) == IF n > 1 THEN n - 1 ELSE -1     \* mutant: n = 1 is no special case
CleanupDelta(n) == n - 1

\* ~work_cleanup, the count: this operation's work against what it started.
WorkCleanup(c) ==
    /\ pc[c] = "cleanup"
    /\ LET n == private_outstanding_work[c]
       IN  /\ outstanding_work_' = outstanding_work_ + CleanupDelta(n)
           /\ pend' = [pend EXCEPT ![c] = IF CleanupDelta(n) < 0 /\ outstanding_work_' = 0
                                          THEN "stop" ELSE "none"]
    /\ private_outstanding_work' = [private_outstanding_work EXCEPT ![c] = 0]
    /\ done' = IF cur[c] = Desc THEN done ELSE done \cup {cur[c]}
    /\ cur' = [cur EXCEPT ![c] = NoOp]
    /\ pc' = [pc EXCEPT ![c] = "flush"]
    /\ UNCHANGED <<op_queue_, stopped_, shutdown_, task_, task_interrupted_, signalled, reactor,
                   issued, destroyed, guards, mode, private_op_queue, usec, arg>>

\* ~work_cleanup, the queue; run() and poll() go round with the lock held,
\* the other functions, and an exception, return.
Flush(c) ==
    /\ pc[c] = "flush" /\ pend[c] = "none"
    /\ (mode[c] \in Loops \/ private_op_queue[c] # <<>>) => MutexFree
    /\ op_queue_' = op_queue_ \o private_op_queue[c]
    /\ private_op_queue' = [private_op_queue EXCEPT ![c] = <<>>]
    /\ IF mode[c] \in Loops THEN pc' = [pc EXCEPT ![c] = "loop"] /\ UNCHANGED mode
                             ELSE Return(c)
    /\ UNCHANGED <<outstanding_work_, stopped_, shutdown_, task_, task_interrupted_, signalled,
                   reactor, program, private_outstanding_work, cur, usec, pend, arg>>

-----------------------------------------------------------------------------
(* What is left of a call after its first step.                            *)

\* pthread_cond_signal, after the unlock
Signal(c) ==
    /\ pend[c] = "signal"
    /\ pend' = [pend EXCEPT ![c] = "none"]
    /\ \/ \E w \in Waiting : pc' = [pc EXCEPT ![w] = "woken"]
       \/ Waiting = {} /\ UNCHANGED pc
    /\ UNCHANGED <<shared, reactor, program, mode, private_op_queue, private_outstanding_work,
                   cur, usec, arg>>

\* The locked part of the post_* functions.
Push(c) ==
    /\ pend[c] = "push" /\ MutexFree
    /\ op_queue_' = op_queue_ \o arg[c]
    /\ arg' = [arg EXCEPT ![c] = <<>>]
    /\ WakeOne(c)
    /\ UNCHANGED <<outstanding_work_, stopped_, shutdown_, task_, event, io, timers, expired,
                   program, pc, mode, private_op_queue, private_outstanding_work, cur, usec>>

\* stop()
StopLocked(c) ==
    /\ pend[c] = "stop" /\ MutexFree
    /\ StopAllThreads
    /\ pend' = [pend EXCEPT ![c] = "none"]
    /\ UNCHANGED <<op_queue_, outstanding_work_, shutdown_, task_, event, io, timers, expired,
                   program, mode, private_op_queue, private_outstanding_work, cur, usec, arg>>

-----------------------------------------------------------------------------
(* Calls of the program.                                                   *)

TaskWantedAgain == ~shutdown_                   \* mutant: task_ not tested
TaskWanted == ~shutdown_ /\ ~task_

\* init_task, by the first service that needs the reactor
InitTask(c) ==
    /\ Uses \cap {"io", "timer"} # {}
    /\ MayCall(c) /\ MutexFree /\ TaskWanted
    /\ task_' = TRUE
    /\ op_queue_' = Append(op_queue_, Task)
    /\ signalled' = TRUE
    /\ pend' = [pend EXCEPT ![c] = IF Waiters # {} THEN "signal" ELSE "none"]
    /\ interrupt' = TRUE     \* epoll_reactor's constructor; task_interrupted_ is still true
    /\ UNCHANGED <<outstanding_work_, stopped_, shutdown_, task_interrupted_, event, io, timers,
                   expired, program, pc, mode, private_op_queue, private_outstanding_work, cur,
                   usec, arg>>

\* post_immediate_completion(s) and do_dispatch
Post(c, kind, n) ==
    /\ kind \in Uses /\ MayCall(c)
    /\ kind # "post" => n = 1
    /\ issued + n <= MaxOps
    /\ issued' = issued + n
    /\ LET ops == [i \in 1 .. n |-> issued + i]
       IN  IF InPool(c) /\ (kind = "continuation" \/ (kind = "post" /\ OneThread))
           THEN /\ private_outstanding_work' = [private_outstanding_work EXCEPT ![c] = @ + n]
                /\ private_op_queue' = [private_op_queue EXCEPT ![c] = @ \o ops]
                /\ UNCHANGED <<outstanding_work_, pend, arg>>
           ELSE /\ outstanding_work_' = outstanding_work_ + n
                /\ pend' = [pend EXCEPT ![c] = "push"]
                /\ arg' = [arg EXCEPT ![c] = ops]
                /\ UNCHANGED <<private_op_queue, private_outstanding_work>>
    /\ UNCHANGED <<op_queue_, stopped_, shutdown_, task_, task_interrupted_, signalled, reactor,
                   done, destroyed, guards, pc, mode, cur, usec>>

\* epoll_reactor::start_op, for an operation that has to wait
StartIo(c) ==
    /\ "io" \in Uses /\ MayCall(c) /\ task_ /\ issued < MaxOps
    /\ issued' = issued + 1
    /\ io' = Append(io, issued + 1)
    /\ outstanding_work_' = outstanding_work_ + 1
    /\ UNCHANGED <<op_queue_, stopped_, shutdown_, task_, task_interrupted_, signalled,
                   interrupt, event, timers, expired, done, destroyed, guards, local>>

\* epoll_reactor::schedule_timer
ScheduleTimer(c) ==
    /\ "timer" \in Uses /\ MayCall(c) /\ task_ /\ issued < MaxOps
    /\ issued' = issued + 1
    /\ timers' = timers \cup {issued + 1}
    /\ outstanding_work_' = outstanding_work_ + 1
    /\ UNCHANGED <<op_queue_, stopped_, shutdown_, task_, task_interrupted_, signalled,
                   interrupt, event, io, expired, done, destroyed, guards, local>>

\* epoll_reactor::cancel_ops
CancelIo(c) ==
    /\ "cancel" \in Uses /\ MayCall(c) /\ io # <<>>
    /\ io' = <<>>
    /\ PostDeferred(c, io)
    /\ UNCHANGED <<shared, interrupt, event, timers, expired, program, pc, mode,
                   private_outstanding_work, cur, usec>>

\* A cancelled timer leaves the timer queue even when its time has come.
ExpiredWithout(o) == Unlinked(expired, {o})

\* epoll_reactor::cancel_timer
CancelTimer(c, o) ==
    /\ "cancel" \in Uses /\ MayCall(c) /\ o \in timers \cup OpsIn(expired)
    /\ timers' = timers \ {o}
    /\ expired' = ExpiredWithout(o)
    /\ PostDeferred(c, <<o>>)
    /\ UNCHANGED <<shared, interrupt, event, io, program, pc, mode,
                   private_outstanding_work, cur, usec>>

\* work_started and work_finished by an executor that tracks work
AcquireGuard(c) ==
    /\ "guard" \in Uses /\ MayCall(c) /\ guards < MaxGuards
    /\ guards' = guards + 1
    /\ outstanding_work_' = outstanding_work_ + 1
    /\ UNCHANGED <<op_queue_, stopped_, shutdown_, task_, task_interrupted_, signalled, reactor,
                   issued, done, destroyed, local>>

ReleaseGuard(c) ==
    /\ MayCall(c) /\ guards > 0
    /\ guards' = guards - 1
    /\ outstanding_work_' = outstanding_work_ - 1
    /\ pend' = [pend EXCEPT ![c] = IF outstanding_work_' = 0 THEN "stop" ELSE "none"]
    /\ UNCHANGED <<op_queue_, stopped_, shutdown_, task_, task_interrupted_, signalled, reactor,
                   issued, done, destroyed, pc, mode, private_op_queue,
                   private_outstanding_work, cur, usec, arg>>

Stop(c) ==
    /\ "stop" \in Uses /\ MayCall(c)
    /\ pend' = [pend EXCEPT ![c] = "stop"]
    /\ UNCHANGED <<shared, reactor, program, pc, mode, private_op_queue,
                   private_outstanding_work, cur, usec, arg>>

\* restart(), allowed only while no run function is executing
Restart(c) ==
    /\ "restart" \in Uses /\ MayCall(c) /\ stopped_
    /\ \A d \in Contexts : pc[d] = "idle"
    /\ stopped_' = FALSE
    /\ UNCHANGED <<op_queue_, outstanding_work_, shutdown_, task_, task_interrupted_, signalled,
                   reactor, program, local>>

\* shutdown(): stop the scheduler's own thread ...
Shutdown ==
    /\ "shutdown" \in Uses /\ ~shutdown_
    /\ \A c \in Contexts \ {OwnThread} : pc[c] = "idle" /\ pend[c] = "none"
    /\ MutexFree
    /\ shutdown_' = TRUE
    /\ IF OwnThread # NoContext THEN StopAllThreads
       ELSE UNCHANGED <<stopped_, signalled, pc, task_interrupted_, interrupt>>
    /\ UNCHANGED <<op_queue_, outstanding_work_, task_, event, io, timers, expired, program,
                   mode, private_op_queue, private_outstanding_work, cur, usec, pend, arg>>

\* epoll_reactor::shutdown
AbandonedOps == OpsIn(io) \cup timers \cup OpsIn(expired)

\* ... join it, and destroy what is queued.  The reactor, a later service, has
\* been shut down first: it abandoned the operations it still held.
DestroyOps ==
    /\ shutdown_ /\ (op_queue_ # <<>> \/ task_)
    /\ OwnThread # NoContext => pc[OwnThread] = "idle" /\ pend[OwnThread] = "none"
    /\ destroyed' = destroyed \cup OpsIn(op_queue_) \cup AbandonedOps
    /\ op_queue_' = <<>> /\ io' = <<>> /\ timers' = {} /\ expired' = <<>>
    /\ task_' = FALSE
    /\ UNCHANGED <<outstanding_work_, stopped_, shutdown_, task_interrupted_, signalled,
                   interrupt, event, issued, done, guards, local>>

-----------------------------------------------------------------------------
(* The operating system.                                                   *)

\* The descriptor becomes ready: an edge for epoll_wait.
Ready ==
    /\ "io" \in Uses /\ task_ /\ ~event /\ ~shutdown_
    /\ event' = TRUE
    /\ UNCHANGED <<shared, interrupt, io, timers, expired, program, local>>

Expire(o) ==
    /\ o \in timers
    /\ timers' = timers \ {o}
    /\ expired' = Append(expired, o)
    /\ UNCHANGED <<shared, interrupt, event, io, program, local>>

-----------------------------------------------------------------------------
\* The steps that no decision of the program or of its environment can hold up.
Internal(c) ==
    \/ Enter(c) \/ ReturnStopped(c) \/ Wait(c) \/ ReturnEmpty(c) \/ Reacquire(c)
    \/ TakeTask(c) \/ RunTask(c) \/ TaskCleanup(c) \/ ReturnPolled(c) \/ TakeHandler(c)
    \/ PerformNone(c) \/ PerformIo(c) \/ HandlerEnds(c) \/ WorkCleanup(c) \/ Flush(c)
    \/ Signal(c) \/ Push(c) \/ StopLocked(c)

ProgramCall(c) ==
    \/ \E m \in Modes : Call(c, m)
    \/ InitTask(c)
    \/ \E kind \in {"post", "continuation", "dispatch"}, n \in 1 .. MaxBatch : Post(c, kind, n)
    \/ StartIo(c) \/ ScheduleTimer(c) \/ CancelIo(c)
    \/ \E o \in Ops : CancelTimer(c, o)
    \/ AcquireGuard(c) \/ ReleaseGuard(c) \/ Stop(c) \/ Restart(c)

Next ==
    \/ \E c \in Contexts : Internal(c) \/ ProgramCall(c) \/ Timeout(c)
    \/ Shutdown \/ DestroyOps
    \/ Ready \/ \E o \in Ops : Expire(o)

Spec == Init /\ [][Next]_vars

(***************************************************************************)
(* Fairness: a thread that can take a step of the library eventually takes *)
(* one (threads are scheduled, a mutex is not withheld for ever, handlers  *)
(* return), and a timed wait ends.  The program owes no call, the world no *)
(* event, and no condition variable a spurious wake-up.                    *)
(***************************************************************************)
FairSpec == /\ Spec
            /\ \A c \in Contexts : /\ SF_vars(Internal(c)) /\ SF_vars(HandlerEnds(c))
                                   /\ WF_vars(mode[c] = "wait_one" /\ Timeout(c))

-----------------------------------------------------------------------------
(* Properties.                                                             *)

Points == {"idle", "enter", "loop", "wait", "woken", "waited", "task", "task_cleanup",
           "polled", "handler", "cleanup", "flush"}
TypeQueues ==
    /\ op_queue_ \in Seq(Queueable) /\ io \in Seq(Ops) /\ expired \in Seq(Ops)
    /\ private_op_queue \in [Contexts -> Seq(Ops \cup {Desc})]
    /\ arg \in [Contexts -> Seq(Ops)]
TypeCounts ==
    /\ outstanding_work_ \in Int /\ private_outstanding_work \in [Contexts -> Nat]
    /\ issued \in 0 .. MaxOps /\ guards \in 0 .. MaxGuards
    /\ timers \subseteq Ops /\ done \subseteq Ops /\ destroyed \subseteq Ops
TypeFlags ==
    /\ stopped_ \in BOOLEAN /\ shutdown_ \in BOOLEAN
    /\ task_ \in BOOLEAN /\ task_interrupted_ \in BOOLEAN
    /\ signalled \in BOOLEAN /\ interrupt \in BOOLEAN /\ event \in BOOLEAN
TypeFrames ==
    /\ pc \in [Contexts -> Points]
    /\ mode \in [Contexts -> AllModes \cup {"unwinding"}]
    /\ cur \in [Contexts -> Ops \cup {Desc, NoOp}]
    /\ usec \in [Contexts -> {"zero", "timed", "forever"}]
    /\ pend \in [Contexts -> {"none", "signal", "push", "stop"}]

\* The variables have their types; in particular the task is never completed
\* as a handler, never on a private queue, and a descriptor is never re-posted.
TypeOK == TypeQueues /\ TypeCounts /\ TypeFlags /\ TypeFrames

\* Once init_task() has run there is exactly one task token: either in the queue
\* or with the single thread that runs the reactor.
ReactorExclusive ==
    /\ \A c, d \in Contexts : InTask(c) /\ InTask(d) => c = d
    /\ AtMostOnce(op_queue_, Task)
    /\ \A c \in Contexts : InTask(c) => ~Has(op_queue_, Task)
    /\ task_ <=> (Has(op_queue_, Task) \/ \E c \in Contexts : InTask(c))

\* The two operations that are not the program's are where the code expects them: the
\* task is never completed as a handler (TypeOK), and, as epoll_reactor::run relies on
\* (epoll_reactor.ipp:478), when the reactor runs the descriptor operation it returned
\* earlier has been dequeued, so pushing it again cannot corrupt the intrusive queue.
DescriptorDequeued ==
    /\ TypeOK
    /\ \A c \in Contexts : InTask(c) => ~Has(op_queue_, Desc)

\* A thread blocked in the reactor will be released once somebody has asked for
\* it: task_interrupted_ or stopped_ is set only together with an interrupt that
\* the blocked epoll_wait has not consumed.
ReactorInterruptible ==
    \A c \in Contexts : pc[c] = "task" /\ usec[c] # "zero" /\ (task_interrupted_ \/ stopped_)
                           => interrupt

\* outstanding_work_ and the threads' private counts together count the started
\* operations that have not completed, the work guards, and the scheduler's own
\* thread; a descriptor operation that completed nothing is compensated for.
PrivateWork == UNION {{c} \X (1 .. private_outstanding_work[c]) : c \in Contexts}
Uncompleted == {c \in Contexts : pc[c] = "cleanup" /\ cur[c] = Desc}
WorkConserved ==
    outstanding_work_ + Cardinality(PrivateWork)
      = (issued - Cardinality(done)) + guards + (IF OwnThread = NoContext THEN 0 ELSE 1)
        + Cardinality(Uncompleted)

\* Where an operation can be: queued, with the reactor, or with a frame.
Places == ({"queue", "io", "timers", "expired"} \X {NoContext})
          \cup ({"private", "arg", "handler"} \X Contexts)
Holds(p, o) ==
    \/ p[1] = "queue" /\ Has(op_queue_, o)
    \/ p[1] = "io" /\ Has(io, o)
    \/ p[1] = "timers" /\ o \in timers
    \/ p[1] = "expired" /\ Has(expired, o)
    \/ p[1] = "private" /\ Has(private_op_queue[p[2]], o)
    \/ p[1] = "arg" /\ Has(arg[p[2]], o)
    \/ p[1] = "handler" /\ pc[p[2]] \in {"handler", "cleanup"} /\ cur[p[2]] = o
LinkedOnce(o) ==
    /\ AtMostOnce(op_queue_, o) /\ AtMostOnce(io, o) /\ AtMostOnce(expired, o)
    /\ \A c \in Contexts : AtMostOnce(private_op_queue[c], o) /\ AtMostOnce(arg[c], o)

\* A started operation is in exactly one place, once, until its handler has run or
\* shutdown() has destroyed it, and in none afterwards: no handler is lost,
\* none runs twice, across posting, private queues, cancellation and polling.
HandlerOnce ==
    \A o \in 1 .. issued :
        /\ LinkedOnce(o)
        /\ \A p, q \in Places : Holds(p, o) /\ Holds(q, o) => p = q
        /\ (\E p \in Places : Holds(p, o)) <=> o \notin done \cup destroyed

\* A frame that is about to look at the queue without anybody's help.
WillLook(c) ==
    \/ pend[c] \in {"signal", "stop"}
    \/ pc[c] \in {"enter", "loop", "waited", "polled", "task_cleanup"}
    \/ pc[c] = "woken" /\ (signalled \/ mode[c] = "wait_one")
    \/ pc[c] \in {"cleanup", "flush"} /\ mode[c] \in Loops
    \/ pc[c] = "task" /\ (usec[c] # "forever" \/ interrupt \/ event \/ expired # <<>>)

\* No lost wake-up: while operations are queued and a thread of the pool is
\* asleep (on the event or in the reactor), some thread is on its way to the
\* queue.  A thread that is merely executing a handler does not count.
NoStrandedHandler ==
    /\ op_queue_ # <<>> /\ ~stopped_
    /\ \E c \in Contexts : pc[c] = "wait" \/ (pc[c] = "task" /\ usec[c] = "forever")
    => \E c \in Contexts : WillLook(c)

\* After stop(), run() and run_one() start no further handler, even if they were
\* waiting or running the reactor when it was called.
StopPreventsDispatch ==
    [][\A c \in Contexts : stopped_ /\ pc[c] # "handler" /\ pc'[c] = "handler"
                              => mode[c] \notin RunModes]_vars

\* Where nobody calls stop() and all posting is done by the one thread that runs
\* the scheduler, the scheduler stops itself only when every started operation
\* has completed.  The exception is a handler whose posts a nested poll has taken
\* over: until it returns they are missing from outstanding_work_.
TakenOver == {c \in Contexts : private_outstanding_work[c] > Len(private_op_queue[c])}
StopsOnlyWhenFinished ==
    [][~stopped_ /\ stopped_' /\ TakenOver = {} => done = 1 .. issued]_vars

\* A thread inside run() always gets to a queued operation, or the scheduler stops.
QueuedEventuallyRuns ==
    \A o \in Ops : (o \in OpsIn(op_queue_) /\ \E c \in Contexts : InPool(c) /\ mode[c] = "run")
                     ~> (o \in done \/ stopped_)

\* Every run function returns once the scheduler is stopped, wherever it was.
StopReturns == \A c \in Contexts : []<>~(stopped_ /\ InPool(c))

=============================================================================
