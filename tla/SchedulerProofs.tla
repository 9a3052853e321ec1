--------------------------- MODULE SchedulerProofs ---------------------------
(***************************************************************************)
(* For every number of threads, operations and nested polls: the type      *)
(* invariant, the exclusive reactor, its interruptibility, the dequeued    *)
(* descriptor, the effect of stop() on dispatch, the one place of every    *)
(* operation and the count of outstanding work; for pools of threads that  *)
(* stay in run(), that no posted handler is left to sleeping threads; and, *)
(* for one thread, that the scheduler stops by itself only when all is     *)
(* done.                                                                   *)
(*                                                                         *)
(* IInv is inductive.  Exclusiveness needs ShutdownQuiet, because shutdown *)
(* discards the task token; that a descriptor is never behind the task     *)
(* needs PrivateDesc, and NestedInHandler for the private queue that a     *)
(* nested poll takes over from the frame around it.  QueueWatched, HomeInv *)
(* and WorkInv, each inductive with IInv, stand before their theorems, and *)
(* so do StackInv and StopInv.                                             *)
(***************************************************************************)
EXTENDS Scheduler, OpQueueTheorems

\* A frame that completes an operation has one.
CurrentOperation == \A c \in Contexts : pc[c] \in {"handler", "cleanup"} => cur[c] # NoOp

\* After shutdown() has begun only the scheduler's own thread still runs.
ShutdownQuiet ==
    shutdown_ => \A c \in Contexts \ {OwnThread} : pc[c] = "idle" /\ pend[c] = "none"

\* A nested poll runs only inside a handler of the frame around it.
NestedInHandler ==
    \A c \in Contexts : pc[c] # "idle" /\ Outer[c] # NoContext => InHandler(Outer[c])

\* run() and run_one() go back to the head of their loop after a wait or the task.
RerunsLoop == \A c \in Contexts : pc[c] \in {"waited", "polled"} => mode[c] \notin RunModes

\* A descriptor stays on a private queue only until the task is put back.
PrivateDesc == \A c \in Contexts : Has(private_op_queue[c], Desc) => pc[c] = "task_cleanup"

\* In the main queue the task is behind every descriptor.
DescBeforeTask == EveryBefore(op_queue_, Desc, Task)

IInv ==
    /\ TypeOK /\ CurrentOperation /\ ShutdownQuiet /\ NestedInHandler /\ RerunsLoop
    /\ ReactorExclusive /\ ReactorInterruptible /\ PrivateDesc /\ DescBeforeTask

USE ConstantsAssumption DEF ConstantsAssumption

-----------------------------------------------------------------------------
(* Queues of operations.                                                   *)

\* The task is never on a private queue.
LEMMA NoTask ==
  ASSUME NEW q \in Seq(Ops \cup {Desc}) \cup Seq(Ops)
  PROVE  q \in Seq(Queueable) /\ ~Has(q, Task)
<1>1. q \in Seq(Ops \cup {Desc})
  BY SeqSubset
<1>2. q \in Seq(Queueable)
  BY <1>1, SeqSubset DEF Queueable
<1>3. \A i \in 1 .. Len(q) : q[i] # Task
  BY <1>1 DEF Ops, Task, Desc
<1> QED
  BY <1>2, <1>3 DEF Has

\* Started operations are not the descriptor.
LEMMA NoDesc == ASSUME NEW q \in Seq(Ops) PROVE ~Has(q, Desc)
<1>1. \A i \in 1 .. Len(q) : q[i] # Desc
  BY DEF Ops, Desc
<1> QED
  BY <1>1 DEF Has

\* Nothing is on an empty queue.
LEMMA EmptyHas == ASSUME NEW x PROVE ~Has(<<>>, x)
BY DEF Has

-----------------------------------------------------------------------------
(* Type correctness.                                                       *)

DeferredType ==
    /\ private_op_queue \in [Contexts -> Seq(Ops \cup {Desc})]
    /\ arg \in [Contexts -> Seq(Ops)]
    /\ pend \in [Contexts -> {"none", "signal", "push", "stop"}]

\* post_deferred_completions keeps the types of what it assigns.
LEMMA PostDeferredType ==
  ASSUME TypeOK, NEW c \in Contexts, NEW ops \in Seq(Ops), PostDeferred(c, ops)
  PROVE  DeferredType'
<1> USE DEF Ops, Desc
<1>1. private_op_queue[c] \o ops \in Seq(Ops \cup {Desc})
  BY ConcatType DEF TypeOK, TypeQueues
<1>2. CASE OneThread /\ InPool(c)
  <2>1. /\ private_op_queue' = [private_op_queue EXCEPT ![c] = @ \o ops]
        /\ UNCHANGED <<pend, arg>>
    BY <1>2 DEF PostDeferred
  <2>2. private_op_queue' \in [Contexts -> Seq(Ops \cup {Desc})]
    BY <2>1, <1>1 DEF TypeOK, TypeQueues
  <2> QED BY <2>1, <2>2 DEF DeferredType, TypeOK, TypeQueues, TypeFrames
<1>3. CASE ~(OneThread /\ InPool(c))
  <2>1. /\ pend' = [pend EXCEPT ![c] = "push"] /\ arg' = [arg EXCEPT ![c] = ops]
        /\ UNCHANGED private_op_queue
    BY <1>3 DEF PostDeferred
  <2>2. arg' \in [Contexts -> Seq(Ops)]
    BY <2>1 DEF TypeOK, TypeQueues
  <2>3. pend' \in [Contexts -> {"none", "signal", "push", "stop"}]
    BY <2>1 DEF TypeOK, TypeFrames
  <2> QED BY <2>1, <2>2, <2>3 DEF DeferredType, TypeOK, TypeQueues
<1> QED
  BY <1>2, <1>3

\* post_deferred_completions puts no descriptor on a private queue.
LEMMA DeferredNoDesc ==
  ASSUME TypeOK, NEW c \in Contexts, NEW ops \in Seq(Ops), PostDeferred(c, ops)
  PROVE  \A d \in Contexts : Has(private_op_queue'[d], Desc) => Has(private_op_queue[d], Desc)
<1>1. ~Has(ops, Desc) /\ ops \in Seq(Ops \cup {Desc})
  BY NoDesc, SeqSubset
<1>2. Has(private_op_queue[c] \o ops, Desc) <=> Has(private_op_queue[c], Desc)
  BY <1>1, ConcatHas DEF TypeOK, TypeQueues
<1> QED
  BY <1>2 DEF PostDeferred, TypeOK, TypeQueues

\* Every step keeps the variables typed; one step per action that assigns a queue.
LEMMA TypeStep ==
  ASSUME TypeOK, CurrentOperation, [Next]_vars
  PROVE  TypeOK'
<1> USE DEF shared, reactor, program, local, Ops, Task, Desc, NoOp, Queueable, Points
<1>1. ASSUME NEW c \in Contexts, ReturnStopped(c)
      PROVE  TypeOK'
  BY <1>1 DEF ReturnStopped, Return, TypeOK, TypeQueues, TypeCounts, TypeFlags,
     TypeFrames, AllModes, RunModes, PollModes
<1>2. ASSUME NEW c \in Contexts, Wait(c)
      PROVE  TypeOK'
  BY <1>2 DEF Wait, WaitForEvent, TypeOK, TypeQueues, TypeCounts, TypeFlags, TypeFrames,
     AllModes, RunModes, PollModes
<1>3. ASSUME NEW c \in Contexts, ReturnEmpty(c)
      PROVE  TypeOK'
  BY <1>3 DEF ReturnEmpty, Return, TypeOK, TypeQueues, TypeCounts, TypeFlags, TypeFrames,
     AllModes, RunModes, PollModes
<1>4. ASSUME NEW c \in Contexts, Reacquire(c)
      PROVE  TypeOK'
  BY <1>4 DEF Reacquire, TypeOK, TypeQueues, TypeCounts, TypeFlags, TypeFrames, AllModes,
     RunModes, PollModes
<1>5. ASSUME NEW c \in Contexts, ReturnPolled(c)
      PROVE  TypeOK'
  BY <1>5 DEF ReturnPolled, Return, FrontIsTask, TypeOK, TypeQueues, TypeCounts,
     TypeFlags, TypeFrames, AllModes, RunModes, PollModes
<1>6. ASSUME NEW c \in Contexts, PerformNone(c)
      PROVE  TypeOK'
  BY <1>6, SMTT(30) DEF PerformNone, CompensatingWorkStarted, TypeOK, TypeQueues, TypeCounts,
     TypeFlags, TypeFrames, AllModes, RunModes, PollModes
<1>7. ASSUME NEW c \in Contexts, HandlerEnds(c)
      PROVE  TypeOK'
  BY <1>7 DEF HandlerEnds, TypeOK, TypeQueues, TypeCounts, TypeFlags, TypeFrames,
     AllModes, RunModes, PollModes
<1>8. ASSUME NEW c \in Contexts, Signal(c)
      PROVE  TypeOK'
  BY <1>8 DEF Signal, Waiting, TypeOK, TypeQueues, TypeCounts, TypeFlags, TypeFrames,
     AllModes, RunModes, PollModes
<1>9. ASSUME NEW c \in Contexts, StopLocked(c)
      PROVE  TypeOK'
  BY <1>9 DEF StopLocked, StopAllThreads, TypeOK, TypeQueues, TypeCounts, TypeFlags,
     TypeFrames, AllModes, RunModes, PollModes
<1>10. ASSUME NEW c \in Contexts, InitTask(c)
      PROVE  TypeOK'
  BY <1>10 DEF InitTask, TypeOK, TypeQueues, TypeCounts, TypeFlags, TypeFrames, AllModes,
     RunModes, PollModes
<1>11. ASSUME NEW c \in Contexts, StartIo(c)
      PROVE  TypeOK'
  BY <1>11 DEF StartIo, TypeOK, TypeQueues, TypeCounts, TypeFlags, TypeFrames, AllModes,
     RunModes, PollModes
<1>12. ASSUME NEW c \in Contexts, ScheduleTimer(c)
      PROVE  TypeOK'
  BY <1>12 DEF ScheduleTimer, TypeOK, TypeQueues, TypeCounts, TypeFlags, TypeFrames,
     AllModes, RunModes, PollModes
<1>13. ASSUME NEW c \in Contexts, AcquireGuard(c)
      PROVE  TypeOK'
  BY <1>13 DEF AcquireGuard, TypeOK, TypeQueues, TypeCounts, TypeFlags, TypeFrames,
     AllModes, RunModes, PollModes
<1>14. ASSUME NEW c \in Contexts, ReleaseGuard(c)
      PROVE  TypeOK'
  BY <1>14 DEF ReleaseGuard, TypeOK, TypeQueues, TypeCounts, TypeFlags, TypeFrames,
     AllModes, RunModes, PollModes
<1>15. ASSUME NEW c \in Contexts, Stop(c)
      PROVE  TypeOK'
  BY <1>15 DEF Stop, TypeOK, TypeQueues, TypeCounts, TypeFlags, TypeFrames, AllModes,
     RunModes, PollModes
<1>16. ASSUME NEW c \in Contexts, Restart(c)
      PROVE  TypeOK'
  BY <1>16 DEF Restart, TypeOK, TypeQueues, TypeCounts, TypeFlags, TypeFrames, AllModes,
     RunModes, PollModes
<1>17. ASSUME NEW c \in Contexts, Timeout(c)
      PROVE  TypeOK'
  BY <1>17 DEF Timeout, TypeOK, TypeQueues, TypeCounts, TypeFlags, TypeFrames, AllModes,
     RunModes, PollModes
<1>18. ASSUME NEW c \in Contexts, Enter(c)
      PROVE  TypeOK'
  <2>1. TypeQueues'
    <3>1. CASE OneThread /\ Outer[c] # NoContext /\ mode[c] \in PollModes
      <4>1. op_queue_ \o private_op_queue[Outer[c]] \in Seq(Queueable)
        BY <3>1, ConcatType DEF TypeOK, TypeQueues
      <4>2. private_op_queue' \in [Contexts -> Seq(Ops \cup {Desc})]
        <5>1. private_op_queue' = [private_op_queue EXCEPT ![Outer[c]] = <<>>]
          BY <1>18, <3>1 DEF Enter, OuterTaken
        <5>2. Outer[c] \in Contexts /\ <<>> \in Seq(Ops \cup {Desc})
          BY <3>1
        <5> QED BY <5>1, <5>2 DEF TypeOK, TypeQueues
      <4> QED BY <1>18, <3>1, <4>1, <4>2 DEF TypeOK, TypeQueues, Enter
    <3>2. CASE ~(OneThread /\ Outer[c] # NoContext /\ mode[c] \in PollModes)
      BY <1>18, <3>2 DEF TypeOK, TypeQueues, Enter
    <3> QED BY <3>1, <3>2
  <2>2. TypeCounts' /\ TypeFlags' /\ TypeFrames'
    BY <1>18 DEF TypeOK, TypeCounts, TypeFlags, TypeFrames, Enter
  <2> QED BY <2>1, <2>2 DEF TypeOK
<1>19. ASSUME NEW c \in Contexts, TakeTask(c)
      PROVE  TypeOK'
  <2>1. TypeQueues'
    BY <1>19 DEF TypeOK, TypeQueues, TakeTask, Looking, FrontIsTask, Holding
  <2>2. TypeCounts'
    BY <1>19 DEF TypeOK, TypeCounts, TakeTask, Looking, FrontIsTask, Holding
  <2>3. TypeFlags'
    BY <1>19 DEF TypeOK, TypeFlags, TakeTask, Looking, FrontIsTask, Holding
  <2>4. TypeFrames'
    BY <1>19 DEF TypeOK, TypeFrames, AllModes, RunModes, PollModes, TakeTask, Looking,
       FrontIsTask, Holding
  <2> QED
    BY <2>1, <2>2, <2>3, <2>4 DEF TypeOK
<1>20. ASSUME NEW c \in Contexts, RunTask(c)
      PROVE  TypeOK'
  <2>a1. private_op_queue[c] \o (IF event THEN <<Desc>> ELSE <<>>) \o expired
           \in Seq(Ops \cup {Desc})
    <3>1. (IF event THEN <<Desc>> ELSE <<>>) \in Seq(Ops \cup {Desc})
      <4>1. CASE event
        BY <4>1
      <4>2. CASE ~event
        BY <4>2
      <4> QED BY <4>1, <4>2
    <3>2. private_op_queue[c] \o (IF event THEN <<Desc>> ELSE <<>>) \in Seq(Ops \cup {Desc})
      BY <3>1, ConcatType DEF TypeOK, TypeQueues
    <3> QED BY <3>2, ConcatType DEF TypeOK, TypeQueues
  <2>1. TypeQueues'
    BY <1>20, <2>a1 DEF TypeOK, TypeQueues, RunTask
  <2>2. TypeCounts'
    BY <1>20 DEF TypeOK, TypeCounts, RunTask
  <2>3. TypeFlags'
    BY <1>20 DEF TypeOK, TypeFlags, RunTask
  <2>4. TypeFrames'
    BY <1>20, <2>a1 DEF TypeOK, TypeFrames, TypeQueues, AllModes, RunModes, PollModes,
       RunTask
  <2> QED
    BY <2>1, <2>2, <2>3, <2>4 DEF TypeOK
<1>21. ASSUME NEW c \in Contexts, TaskCleanup(c)
      PROVE  TypeOK'
  <2>a1. op_queue_ \o CompletedThenTask(c) \in Seq(Queueable)
    BY SeqSubset DEF TypeOK, TypeQueues, CompletedThenTask
  <2>1. TypeQueues'
    BY <1>21, <2>a1 DEF TypeOK, TypeQueues, TaskCleanup, CompletedThenTask
  <2>2. TypeCounts'
    BY <1>21 DEF TypeOK, TypeCounts, TaskCleanup, CompletedThenTask
  <2>3. TypeFlags'
    BY <1>21 DEF TypeOK, TypeFlags, TaskCleanup, CompletedThenTask
  <2>4. TypeFrames'
    BY <1>21, <2>a1 DEF TypeOK, TypeFrames, TypeQueues, AllModes, RunModes, PollModes,
       TaskCleanup, CompletedThenTask
  <2> QED
    BY <2>1, <2>2, <2>3, <2>4 DEF TypeOK
<1>22. ASSUME NEW c \in Contexts, TakeHandler(c)
      PROVE  TypeOK'
  <2>a1. Tail(op_queue_) \in Seq(Queueable) /\ Head(op_queue_) \in Ops \cup {Desc}
    BY <1>22, TailHas DEF TypeOK, TypeQueues, TakeHandler, FrontIsHandler
  <2>1. TypeQueues'
    BY <1>22, <2>a1 DEF TypeOK, TypeQueues, TakeHandler, Looking, FrontIsHandler,
       PassOnWakeUp, WakeOne, WakeNone, Holding
  <2>2. TypeCounts'
    BY <1>22 DEF TypeOK, TypeCounts, TakeHandler, Looking, FrontIsHandler, PassOnWakeUp,
       WakeOne, WakeNone, Holding
  <2>3. TypeFlags'
    BY <1>22 DEF TypeOK, TypeFlags, TakeHandler, Looking, FrontIsHandler, PassOnWakeUp,
       WakeOne, WakeNone, Holding
  <2>4. TypeFrames'
    BY <1>22, <2>a1 DEF TypeOK, TypeFrames, TypeQueues, AllModes, RunModes, PollModes,
       TakeHandler, Looking, FrontIsHandler, PassOnWakeUp, WakeOne, WakeNone,
       Holding
  <2> QED
    BY <2>1, <2>2, <2>3, <2>4 DEF TypeOK
<1>23. ASSUME NEW c \in Contexts, PerformIo(c)
      PROVE  TypeOK'
  <2>1. PICK n \in 1 .. Len(io) :
            /\ io' = SubSeq(io, n + 1, Len(io))
            /\ cur' = [cur EXCEPT ![c] = io[1]]
            /\ IF n > 1 THEN PostDeferred(c, SubSeq(io, 2, n))
                        ELSE UNCHANGED <<private_op_queue, pend, arg>>
    BY <1>23 DEF PerformIo
  <2>2. /\ SubSeq(io, n + 1, Len(io)) \in Seq(Ops) /\ SubSeq(io, 2, n) \in Seq(Ops)
        /\ io[1] \in Ops
    BY SMTT(30) DEF TypeOK, TypeQueues
  <2>3. DeferredType'
    BY <2>1, <2>2, PostDeferredType DEF TypeOK, TypeQueues, TypeFrames, DeferredType
  <2>4. TypeQueues'
    BY <1>23, <2>1, <2>2, <2>3 DEF TypeOK, TypeQueues, DeferredType, PerformIo
  <2>5. TypeCounts' /\ TypeFlags'
    BY <1>23 DEF TypeOK, TypeCounts, TypeFlags, PerformIo
  <2>6. TypeFrames'
    BY <1>23, <2>1, <2>2, <2>3 DEF TypeOK, TypeFrames, DeferredType, PerformIo
  <2> QED BY <2>4, <2>5, <2>6 DEF TypeOK
<1>24. ASSUME NEW c \in Contexts, WorkCleanup(c)
      PROVE  TypeOK'
  <2>1. done' \subseteq Ops
    BY <1>24 DEF TypeOK, TypeCounts, TypeFrames, CurrentOperation, WorkCleanup
  <2>2. outstanding_work_' \in Int /\ private_outstanding_work' \in [Contexts -> Nat]
    BY <1>24 DEF TypeOK, TypeCounts, WorkCleanup, CleanupDelta
  <2>3. TypeQueues' /\ TypeFlags'
    BY <1>24 DEF TypeOK, TypeQueues, TypeFlags, WorkCleanup
  <2>4. TypeCounts'
    BY <1>24, <2>1, <2>2 DEF TypeOK, TypeCounts, WorkCleanup
  <2>5. TypeFrames'
    BY <1>24 DEF TypeOK, TypeFrames, WorkCleanup
  <2> QED BY <2>3, <2>4, <2>5 DEF TypeOK
<1>25. ASSUME NEW c \in Contexts, Flush(c)
      PROVE  TypeOK'
  <2>a1. op_queue_ \o private_op_queue[c] \in Seq(Queueable)
    BY ConcatType DEF TypeOK, TypeQueues
  <2>1. TypeQueues'
    BY <1>25, <2>a1 DEF TypeOK, TypeQueues, Flush, Return
  <2>2. TypeCounts'
    BY <1>25 DEF TypeOK, TypeCounts, Flush, Return
  <2>3. TypeFlags'
    BY <1>25 DEF TypeOK, TypeFlags, Flush, Return
  <2>4. TypeFrames'
    <3>1. pc[c] = "flush" /\ UNCHANGED <<cur, usec, pend>>
      BY <1>25 DEF Flush
    <3>2. CASE mode[c] \in Loops
      <4>1. pc' = [pc EXCEPT ![c] = "loop"] /\ mode' = mode
        BY <1>25, <3>2 DEF Flush
      <4> QED
        BY <3>1, <4>1 DEF TypeOK, TypeFrames
    <3>3. CASE mode[c] \notin Loops
      <4>1. pc' = [pc EXCEPT ![c] = "idle"] /\ mode' = [mode EXCEPT ![c] = "run"]
        BY <1>25, <3>3 DEF Flush, Return
      <4>2. "run" \in AllModes /\ "idle" \in Points
        BY DEF AllModes, RunModes
      <4> QED
        BY <3>1, <4>1, <4>2 DEF TypeOK, TypeFrames
    <3> QED
      BY <3>2, <3>3
  <2> QED
    BY <2>1, <2>2, <2>3, <2>4 DEF TypeOK
<1>26. ASSUME NEW c \in Contexts, Push(c)
      PROVE  TypeOK'
  <2>a1. op_queue_ \o arg[c] \in Seq(Queueable)
    BY ConcatType DEF TypeOK, TypeQueues
  <2>1. TypeQueues'
    BY <1>26, <2>a1 DEF TypeOK, TypeQueues, Push, WakeOne
  <2>2. TypeCounts'
    BY <1>26 DEF TypeOK, TypeCounts, Push, WakeOne
  <2>3. TypeFlags'
    BY <1>26 DEF TypeOK, TypeFlags, Push, WakeOne
  <2>4. TypeFrames'
    BY <1>26, <2>a1 DEF TypeOK, TypeFrames, TypeQueues, AllModes, RunModes, PollModes,
       Push, WakeOne
  <2> QED
    BY <2>1, <2>2, <2>3, <2>4 DEF TypeOK
<1>27. ASSUME NEW c \in Contexts, CancelIo(c)
      PROVE  TypeOK'
  <2>1. io \in Seq(Ops)
    BY DEF TypeOK, TypeQueues
  <2>2. DeferredType'
    BY <1>27, <2>1, PostDeferredType DEF CancelIo
  <2>3. TypeQueues'
    BY <1>27, <2>2 DEF TypeOK, TypeQueues, DeferredType, CancelIo
  <2>4. TypeCounts' /\ TypeFlags' /\ TypeFrames'
    BY <1>27, <2>2 DEF TypeOK, TypeCounts, TypeFlags, TypeFrames, DeferredType, CancelIo
  <2> QED BY <2>3, <2>4 DEF TypeOK
<1>28. ASSUME NEW c \in Contexts, NEW m \in Modes, Call(c, m)
      PROVE  TypeOK'
  <2>1. TypeQueues'
    BY <1>28 DEF TypeOK, TypeQueues, Call
  <2>2. TypeCounts'
    BY <1>28 DEF TypeOK, TypeCounts, Call
  <2>3. TypeFlags'
    BY <1>28 DEF TypeOK, TypeFlags, Call
  <2>4. TypeFrames'
    BY <1>28 DEF TypeOK, TypeFrames, AllModes, RunModes, PollModes, Call
  <2> QED
    BY <2>1, <2>2, <2>3, <2>4 DEF TypeOK
<1>29. ASSUME NEW c \in Contexts, NEW kind \in {"post", "continuation", "dispatch"},
            NEW n \in 1 .. MaxBatch, Post(c, kind, n)
      PROVE  TypeOK'
  <2>a1. [i \in 1 .. n |-> issued + i] \in Seq(Ops)
    BY <1>29 DEF TypeOK, TypeCounts, Post
  <2>a2. private_op_queue[c] \o [i \in 1 .. n |-> issued + i] \in Seq(Ops \cup {Desc})
    BY <2>a1, ConcatType DEF TypeOK, TypeQueues
  <2>1. TypeQueues'
    BY <1>29, <2>a1, <2>a2 DEF TypeOK, TypeQueues, Post
  <2>2. TypeCounts'
    BY <1>29 DEF TypeOK, TypeCounts, Post
  <2>3. TypeFlags'
    BY <1>29 DEF TypeOK, TypeFlags, Post
  <2>4. TypeFrames'
    BY <1>29, <2>a1, <2>a2 DEF TypeOK, TypeFrames, TypeQueues, AllModes, RunModes,
       PollModes, Post
  <2> QED
    BY <2>1, <2>2, <2>3, <2>4 DEF TypeOK
<1>30. ASSUME NEW c \in Contexts, NEW o \in Ops, CancelTimer(c, o)
      PROVE  TypeOK'
  <2>0. ExpiredWithout(o) \in Seq(Ops)
    BY UnlinkedFacts DEF ExpiredWithout, TypeOK, TypeQueues
  <2>1. <<o>> \in Seq(Ops)
    BY DEF TypeOK, TypeQueues
  <2>2. DeferredType'
    BY <1>30, <2>1, PostDeferredType DEF CancelTimer
  <2>3. TypeQueues'
    BY <1>30, <2>2, <2>0 DEF TypeOK, TypeQueues, DeferredType, CancelTimer
  <2>4. TypeCounts' /\ TypeFlags' /\ TypeFrames'
    BY <1>30, <2>2 DEF TypeOK, TypeCounts, TypeFlags, TypeFrames, DeferredType, CancelTimer
  <2> QED BY <2>3, <2>4 DEF TypeOK
<1>31. ASSUME Shutdown
      PROVE  TypeOK'
  <2>1. TypeQueues'
    BY <1>31 DEF TypeOK, TypeQueues, Shutdown, StopAllThreads
  <2>2. TypeCounts'
    BY <1>31 DEF TypeOK, TypeCounts, Shutdown, StopAllThreads
  <2>3. TypeFlags'
    BY <1>31 DEF TypeOK, TypeFlags, Shutdown, StopAllThreads
  <2>4. TypeFrames'
    BY <1>31 DEF TypeOK, TypeFrames, AllModes, RunModes, PollModes, Shutdown,
       StopAllThreads
  <2> QED
    BY <2>1, <2>2, <2>3, <2>4 DEF TypeOK
<1>32. ASSUME DestroyOps
      PROVE  TypeOK'
  <2>1. TypeQueues'
    BY <1>32 DEF TypeOK, TypeQueues, DestroyOps, OpsIn, AbandonedOps
  <2>2. TypeCounts'
    BY <1>32 DEF TypeOK, TypeCounts, DestroyOps, OpsIn, AbandonedOps
  <2>3. TypeFlags'
    BY <1>32 DEF TypeOK, TypeFlags, DestroyOps, OpsIn, AbandonedOps
  <2>4. TypeFrames'
    BY <1>32 DEF TypeOK, TypeFrames, AllModes, RunModes, PollModes, DestroyOps, OpsIn,
       AbandonedOps
  <2> QED
    BY <2>1, <2>2, <2>3, <2>4 DEF TypeOK
<1>33. ASSUME NEW o \in Ops, Expire(o)
      PROVE  TypeOK'
  BY <1>33 DEF Expire, TypeOK, TypeQueues, TypeCounts, TypeFlags, TypeFrames, AllModes,
     RunModes, PollModes
<1>34. ASSUME Ready \/ UNCHANGED vars
      PROVE  TypeOK'
  BY <1>34, ZenonT(60) DEF Ready, TypeOK, TypeQueues, TypeCounts, TypeFlags, TypeFrames, AllModes,
     RunModes, PollModes, vars
<1> QED
  BY <1>1, <1>2, <1>3, <1>4, <1>5, <1>6, <1>7, <1>8, <1>9, <1>10, <1>11, <1>12, <1>13,
     <1>14, <1>15, <1>16, <1>17, <1>18, <1>19, <1>20, <1>21, <1>22, <1>23, <1>24,
     <1>25, <1>26, <1>27, <1>28, <1>29, <1>30, <1>31, <1>32, <1>33, <1>34 DEF Next,
     Internal, ProgramCall

-----------------------------------------------------------------------------
(* The control of the frames.                                              *)

\* TakeHandler and PerformIo set the current operation, ~work_cleanup clears it.
LEMMA CurrentStep ==
  ASSUME TypeOK, CurrentOperation, [Next]_vars
  PROVE  CurrentOperation'
<1> USE DEF shared, reactor, program, local, Ops, Desc, NoOp
<1>1. ASSUME NEW c \in Contexts, Enter(c) \/ ReturnStopped(c) \/ Wait(c)
      PROVE  CurrentOperation'
  BY <1>1 DEF Enter, OuterTaken, ReturnStopped, Return, Wait, WaitForEvent, TypeOK,
     TypeFrames, CurrentOperation, TypeQueues
<1>2. ASSUME NEW c \in Contexts,
             ReturnEmpty(c) \/ Reacquire(c) \/ TakeTask(c)
      PROVE  CurrentOperation'
  BY <1>2 DEF ReturnEmpty, Return, Reacquire, TakeTask, Looking, FrontIsTask, Holding,
     TypeOK, TypeFrames, CurrentOperation, TypeQueues
<1>3. ASSUME NEW c \in Contexts,
             RunTask(c) \/ TaskCleanup(c) \/ ReturnPolled(c)
      PROVE  CurrentOperation'
  BY <1>3 DEF RunTask, TaskCleanup, CompletedThenTask, ReturnPolled, Return, FrontIsTask,
     TypeOK, TypeFrames, CurrentOperation, TypeQueues
<1>4. ASSUME NEW c \in Contexts,
             PerformNone(c) \/ PerformIo(c) \/ HandlerEnds(c)
      PROVE  CurrentOperation'
  BY <1>4, SMTT(30) DEF PerformNone, CompensatingWorkStarted, PerformIo, PostDeferred, HandlerEnds,
     InHandler, TypeOK, TypeFrames, CurrentOperation, TypeQueues
<1>5. ASSUME NEW c \in Contexts, WorkCleanup(c) \/ Flush(c) \/ Signal(c)
      PROVE  CurrentOperation'
  BY <1>5 DEF WorkCleanup, CleanupDelta, Flush, Return, Signal, Waiting, TypeOK,
     TypeFrames, CurrentOperation, TypeQueues
<1>6. ASSUME NEW c \in Contexts, Push(c) \/ StopLocked(c) \/ InitTask(c)
      PROVE  CurrentOperation'
  BY <1>6 DEF Push, WakeOne, StopLocked, StopAllThreads, InitTask, TypeOK, TypeFrames,
     CurrentOperation, TypeQueues
<1>7. ASSUME NEW c \in Contexts,
             StartIo(c) \/ ScheduleTimer(c) \/ CancelIo(c)
      PROVE  CurrentOperation'
  BY <1>7 DEF StartIo, ScheduleTimer, CancelIo, PostDeferred, TypeOK, TypeFrames,
     CurrentOperation, TypeQueues
<1>8. ASSUME NEW c \in Contexts,
             AcquireGuard(c) \/ ReleaseGuard(c) \/ Stop(c)
      PROVE  CurrentOperation'
  BY <1>8 DEF AcquireGuard, ReleaseGuard, Stop, TypeOK, TypeFrames, CurrentOperation,
     TypeQueues
<1>9. ASSUME NEW c \in Contexts, Restart(c) \/ Timeout(c)
      PROVE  CurrentOperation'
  BY <1>9 DEF Restart, Timeout, TypeOK, TypeFrames, CurrentOperation, TypeQueues
<1>10. ASSUME NEW c \in Contexts, TakeHandler(c)
      PROVE  CurrentOperation'
  <2>1. Head(op_queue_) \in Queueable
    BY <1>10 DEF TakeHandler, FrontIsHandler, TypeOK, TypeQueues
  <2>2. Head(op_queue_) # NoOp
    BY <2>1 DEF Ops, Task, Desc, NoOp, Queueable
  <2> QED
    BY <1>10, <2>2 DEF TakeHandler, TypeOK, TypeFrames, CurrentOperation
<1>11. ASSUME NEW c \in Contexts, NEW m \in Modes, Call(c, m)
      PROVE  CurrentOperation'
  BY <1>11 DEF Call, TypeOK, TypeFrames, CurrentOperation, TypeQueues
<1>12. ASSUME NEW c \in Contexts, NEW kind \in {"post", "continuation", "dispatch"},
            NEW n \in 1 .. MaxBatch, Post(c, kind, n)
      PROVE  CurrentOperation'
  BY <1>12 DEF Post, TypeOK, TypeFrames, CurrentOperation, TypeQueues
<1>13. ASSUME NEW c \in Contexts, NEW o \in Ops, CancelTimer(c, o)
      PROVE  CurrentOperation'
  BY <1>13 DEF CancelTimer, PostDeferred, TypeOK, TypeFrames,
     CurrentOperation, TypeQueues
<1>14. ASSUME NEW o \in Ops, Expire(o)
      PROVE  CurrentOperation'
  BY <1>14 DEF Expire, TypeOK, TypeFrames, CurrentOperation, TypeQueues
<1>15. ASSUME Shutdown \/ DestroyOps \/ Ready \/ UNCHANGED vars
      PROVE  CurrentOperation'
  BY <1>15 DEF Shutdown, StopAllThreads, TypeOK, TypeFrames, CurrentOperation, TypeQueues,
     DestroyOps, OpsIn, AbandonedOps, Ready, vars
<1> QED
  BY <1>1, <1>2, <1>3, <1>4, <1>5, <1>6, <1>7, <1>8, <1>9, <1>10, <1>11, <1>12, <1>13,
     <1>14, <1>15 DEF Next, Internal, ProgramCall

\* Once shutdown() has begun no call starts; only the own thread moves.
LEMMA QuietStep ==
  ASSUME TypeOK, ShutdownQuiet, [Next]_vars
  PROVE  ShutdownQuiet'
<1> USE DEF shared, reactor, program, local
<1>1. ASSUME NEW c \in Contexts, Enter(c) \/ ReturnStopped(c) \/ Wait(c)
      PROVE  ShutdownQuiet'
  BY <1>1 DEF Enter, OuterTaken, ReturnStopped, Return, Wait, WaitForEvent, TypeOK,
     TypeFrames, TypeFlags, ShutdownQuiet
<1>2. ASSUME NEW c \in Contexts,
             ReturnEmpty(c) \/ Reacquire(c) \/ TakeTask(c)
      PROVE  ShutdownQuiet'
  BY <1>2 DEF ReturnEmpty, Return, Reacquire, TakeTask, Looking, FrontIsTask, Holding,
     TypeOK, TypeFrames, TypeFlags, ShutdownQuiet
<1>3. ASSUME NEW c \in Contexts,
             RunTask(c) \/ TaskCleanup(c) \/ ReturnPolled(c)
      PROVE  ShutdownQuiet'
  BY <1>3, ZenonT(60) DEF RunTask, TaskCleanup, CompletedThenTask, ReturnPolled, Return, FrontIsTask,
     TypeOK, TypeFrames, TypeFlags, ShutdownQuiet
<1>4. ASSUME NEW c \in Contexts,
             TakeHandler(c) \/ PerformNone(c) \/ PerformIo(c)
      PROVE  ShutdownQuiet'
  BY <1>4, ZenonT(60) DEF TakeHandler, Looking, FrontIsHandler, PassOnWakeUp, WakeOne, WakeNone,
     Holding, PerformNone, CompensatingWorkStarted, PerformIo, PostDeferred, TypeOK,
     TypeFrames, TypeFlags, ShutdownQuiet
<1>5. ASSUME NEW c \in Contexts,
             HandlerEnds(c) \/ WorkCleanup(c) \/ Flush(c)
      PROVE  ShutdownQuiet'
  BY <1>5, ZenonT(60) DEF HandlerEnds, InHandler, WorkCleanup, CleanupDelta, Flush, Return, TypeOK,
     TypeFrames, TypeFlags, ShutdownQuiet
<1>6. ASSUME NEW c \in Contexts, Signal(c) \/ Push(c) \/ InitTask(c)
      PROVE  ShutdownQuiet'
  BY <1>6 DEF Signal, Waiting, Push, WakeOne, InitTask, MayCall, InHandler, TypeOK,
     TypeFrames, TypeFlags, ShutdownQuiet
<1>7. ASSUME NEW c \in Contexts,
             StartIo(c) \/ ScheduleTimer(c) \/ CancelIo(c)
      PROVE  ShutdownQuiet'
  BY <1>7 DEF StartIo, ScheduleTimer, CancelIo, MayCall, InHandler, PostDeferred, TypeOK,
     TypeFrames, TypeFlags, ShutdownQuiet
<1>8. ASSUME NEW c \in Contexts,
             AcquireGuard(c) \/ ReleaseGuard(c) \/ Stop(c)
      PROVE  ShutdownQuiet'
  BY <1>8 DEF AcquireGuard, ReleaseGuard, MayCall, InHandler, Stop, TypeOK, TypeFrames,
     TypeFlags, ShutdownQuiet
<1>9. ASSUME NEW c \in Contexts, Restart(c) \/ Timeout(c)
      PROVE  ShutdownQuiet'
  BY <1>9 DEF Restart, Timeout, TypeOK, TypeFrames, TypeFlags, ShutdownQuiet
<1>10. ASSUME NEW c \in Contexts, StopLocked(c)
      PROVE  ShutdownQuiet'
  BY <1>10 DEF StopLocked, StopAllThreads, TypeOK, TypeFrames, TypeFlags, ShutdownQuiet
<1>11. ASSUME NEW c \in Contexts, NEW m \in Modes, Call(c, m)
      PROVE  ShutdownQuiet'
  BY <1>11 DEF Call, TypeOK, TypeFrames, TypeFlags, ShutdownQuiet
<1>12. ASSUME NEW c \in Contexts, NEW kind \in {"post", "continuation", "dispatch"},
            NEW n \in 1 .. MaxBatch, Post(c, kind, n)
      PROVE  ShutdownQuiet'
  BY <1>12 DEF Post, MayCall, InHandler, TypeOK, TypeFrames, TypeFlags, ShutdownQuiet
<1>13. ASSUME NEW c \in Contexts, NEW o \in Ops, CancelTimer(c, o)
      PROVE  ShutdownQuiet'
  BY <1>13 DEF CancelTimer, MayCall, InHandler, PostDeferred, TypeOK,
     TypeFrames, TypeFlags, ShutdownQuiet
<1>14. ASSUME Shutdown
      PROVE  ShutdownQuiet'
  BY <1>14 DEF Shutdown, StopAllThreads, TypeOK, TypeFrames, TypeFlags, ShutdownQuiet
<1>15. ASSUME NEW o \in Ops, Expire(o)
      PROVE  ShutdownQuiet'
  BY <1>15 DEF Expire, TypeOK, TypeFrames, TypeFlags, ShutdownQuiet
<1>16. ASSUME DestroyOps \/ Ready \/ UNCHANGED vars
      PROVE  ShutdownQuiet'
  BY <1>16 DEF DestroyOps, OpsIn, AbandonedOps, TypeOK, TypeFrames, TypeFlags,
     ShutdownQuiet, Ready, vars
<1> QED
  BY <1>1, <1>2, <1>3, <1>4, <1>5, <1>6, <1>7, <1>8, <1>9, <1>10, <1>11, <1>12, <1>13,
     <1>14, <1>15, <1>16 DEF Next, Internal, ProgramCall

\* A handler does not end while a poll nested in it is running.
LEMMA NestedStep ==
  ASSUME TypeOK, NestedInHandler, [Next]_vars
  PROVE  NestedInHandler'
<1> USE DEF shared, reactor, program, local
<1>1. ASSUME NEW c \in Contexts, Enter(c) \/ ReturnStopped(c) \/ Wait(c)
      PROVE  NestedInHandler'
  BY <1>1 DEF Enter, OuterTaken, ReturnStopped, Return, Wait, WaitForEvent, TypeOK,
     TypeFrames, NestedInHandler, InHandler
<1>2. ASSUME NEW c \in Contexts,
             ReturnEmpty(c) \/ Reacquire(c) \/ TakeTask(c)
      PROVE  NestedInHandler'
  BY <1>2 DEF ReturnEmpty, Return, Reacquire, TakeTask, Looking, FrontIsTask, Holding,
     TypeOK, TypeFrames, NestedInHandler, InHandler
<1>3. ASSUME NEW c \in Contexts,
             RunTask(c) \/ TaskCleanup(c) \/ ReturnPolled(c)
      PROVE  NestedInHandler'
  BY <1>3 DEF RunTask, TaskCleanup, CompletedThenTask, ReturnPolled, Return, FrontIsTask,
     TypeOK, TypeFrames, NestedInHandler, InHandler
<1>4. ASSUME NEW c \in Contexts,
             PerformNone(c) \/ HandlerEnds(c) \/ WorkCleanup(c)
      PROVE  NestedInHandler'
  BY <1>4 DEF PerformNone, CompensatingWorkStarted, HandlerEnds, InHandler, Innermost,
     WorkCleanup, CleanupDelta, TypeOK, TypeFrames, NestedInHandler
<1>5. ASSUME NEW c \in Contexts, Flush(c) \/ Signal(c) \/ Push(c)
      PROVE  NestedInHandler'
  BY <1>5 DEF Flush, Return, Signal, Waiting, Push, WakeOne, TypeOK, TypeFrames,
     NestedInHandler, InHandler
<1>6. ASSUME NEW c \in Contexts,
             StopLocked(c) \/ InitTask(c) \/ StartIo(c)
      PROVE  NestedInHandler'
  BY <1>6 DEF StopLocked, StopAllThreads, InitTask, StartIo, TypeOK, TypeFrames,
     NestedInHandler, InHandler
<1>7. ASSUME NEW c \in Contexts,
             ScheduleTimer(c) \/ CancelIo(c) \/ AcquireGuard(c)
      PROVE  NestedInHandler'
  BY <1>7 DEF ScheduleTimer, CancelIo, PostDeferred, AcquireGuard, TypeOK, TypeFrames,
     NestedInHandler, InHandler
<1>8. ASSUME NEW c \in Contexts, ReleaseGuard(c) \/ Stop(c) \/ Restart(c)
      PROVE  NestedInHandler'
  BY <1>8 DEF ReleaseGuard, Stop, Restart, TypeOK, TypeFrames, NestedInHandler, InHandler
<1>9. ASSUME NEW c \in Contexts, Timeout(c)
      PROVE  NestedInHandler'
  BY <1>9 DEF Timeout, TypeOK, TypeFrames, NestedInHandler, InHandler
<1>10. ASSUME NEW c \in Contexts, TakeHandler(c)
      PROVE  NestedInHandler'
  BY <1>10 DEF TakeHandler, Looking, FrontIsHandler, PassOnWakeUp, WakeOne, WakeNone,
     Holding, TypeOK, TypeFrames, NestedInHandler, InHandler
<1>11. ASSUME NEW c \in Contexts, PerformIo(c)
      PROVE  NestedInHandler'
  BY <1>11 DEF PerformIo, PostDeferred, TypeOK, TypeFrames, NestedInHandler, InHandler
<1>12. ASSUME NEW c \in Contexts, NEW m \in Modes, Call(c, m)
      PROVE  NestedInHandler'
  BY <1>12 DEF Call, TypeOK, TypeFrames, NestedInHandler, InHandler
<1>13. ASSUME NEW c \in Contexts, NEW kind \in {"post", "continuation", "dispatch"},
            NEW n \in 1 .. MaxBatch, Post(c, kind, n)
      PROVE  NestedInHandler'
  BY <1>13 DEF Post, TypeOK, TypeFrames, NestedInHandler, InHandler
<1>14. ASSUME NEW c \in Contexts, NEW o \in Ops, CancelTimer(c, o)
      PROVE  NestedInHandler'
  BY <1>14 DEF CancelTimer, PostDeferred, TypeOK, TypeFrames,
     NestedInHandler, InHandler
<1>15. ASSUME NEW o \in Ops, Expire(o)
      PROVE  NestedInHandler'
  BY <1>15 DEF Expire, TypeOK, TypeFrames, NestedInHandler, InHandler
<1>16. ASSUME Shutdown \/ DestroyOps \/ Ready \/ UNCHANGED vars
      PROVE  NestedInHandler'
  BY <1>16 DEF Shutdown, StopAllThreads, TypeOK, TypeFrames, NestedInHandler, InHandler,
     DestroyOps, OpsIn, AbandonedOps, Ready, vars
<1> QED
  BY <1>1, <1>2, <1>3, <1>4, <1>5, <1>6, <1>7, <1>8, <1>9, <1>10, <1>11, <1>12, <1>13,
     <1>14, <1>15, <1>16 DEF Next, Internal, ProgramCall

\* Only do_wait_one and do_poll_one look at the queue without testing stopped_.
LEMMA RerunStep ==
  ASSUME TypeOK, RerunsLoop, [Next]_vars
  PROVE  RerunsLoop'
<1> USE DEF shared, reactor, program, local
<1>1. ASSUME NEW c \in Contexts, Enter(c) \/ ReturnStopped(c) \/ Wait(c)
      PROVE  RerunsLoop'
  BY <1>1 DEF Enter, OuterTaken, ReturnStopped, Return, Wait, WaitForEvent, TypeOK,
     TypeFrames, RerunsLoop, RunModes
<1>2. ASSUME NEW c \in Contexts,
             ReturnEmpty(c) \/ Reacquire(c) \/ TakeTask(c)
      PROVE  RerunsLoop'
  BY <1>2 DEF ReturnEmpty, Return, Reacquire, TakeTask, Looking, FrontIsTask, Holding,
     TypeOK, TypeFrames, RerunsLoop, RunModes
<1>3. ASSUME NEW c \in Contexts,
             RunTask(c) \/ TaskCleanup(c) \/ ReturnPolled(c)
      PROVE  RerunsLoop'
  BY <1>3 DEF RunTask, TaskCleanup, CompletedThenTask, ReturnPolled, Return, FrontIsTask,
     TypeOK, TypeFrames, RerunsLoop, RunModes
<1>4. ASSUME NEW c \in Contexts,
             TakeHandler(c) \/ PerformNone(c) \/ PerformIo(c)
      PROVE  RerunsLoop'
  BY <1>4 DEF TakeHandler, Looking, FrontIsHandler, PassOnWakeUp, WakeOne, WakeNone,
     Holding, PerformNone, CompensatingWorkStarted, PerformIo, PostDeferred, TypeOK,
     TypeFrames, RerunsLoop, RunModes
<1>5. ASSUME NEW c \in Contexts,
             HandlerEnds(c) \/ WorkCleanup(c) \/ Flush(c)
      PROVE  RerunsLoop'
  BY <1>5 DEF HandlerEnds, InHandler, WorkCleanup, CleanupDelta, Flush, Return, TypeOK,
     TypeFrames, RerunsLoop, RunModes
<1>6. ASSUME NEW c \in Contexts, Signal(c) \/ Push(c) \/ StopLocked(c)
      PROVE  RerunsLoop'
  BY <1>6 DEF Signal, Waiting, Push, WakeOne, StopLocked, StopAllThreads, TypeOK,
     TypeFrames, RerunsLoop, RunModes
<1>7. ASSUME NEW c \in Contexts,
             InitTask(c) \/ StartIo(c) \/ ScheduleTimer(c)
      PROVE  RerunsLoop'
  BY <1>7 DEF InitTask, StartIo, ScheduleTimer, TypeOK, TypeFrames, RerunsLoop, RunModes
<1>8. ASSUME NEW c \in Contexts,
             CancelIo(c) \/ AcquireGuard(c) \/ ReleaseGuard(c)
      PROVE  RerunsLoop'
  BY <1>8 DEF CancelIo, PostDeferred, AcquireGuard, ReleaseGuard, TypeOK, TypeFrames,
     RerunsLoop, RunModes
<1>9. ASSUME NEW c \in Contexts, Stop(c) \/ Restart(c) \/ Timeout(c)
      PROVE  RerunsLoop'
  BY <1>9 DEF Stop, Restart, Timeout, TypeOK, TypeFrames, RerunsLoop, RunModes
<1>10. ASSUME NEW c \in Contexts, NEW m \in Modes, Call(c, m)
      PROVE  RerunsLoop'
  BY <1>10 DEF Call, TypeOK, TypeFrames, RerunsLoop, RunModes
<1>11. ASSUME NEW c \in Contexts, NEW kind \in {"post", "continuation", "dispatch"},
            NEW n \in 1 .. MaxBatch, Post(c, kind, n)
      PROVE  RerunsLoop'
  BY <1>11 DEF Post, TypeOK, TypeFrames, RerunsLoop, RunModes
<1>12. ASSUME NEW c \in Contexts, NEW o \in Ops, CancelTimer(c, o)
      PROVE  RerunsLoop'
  BY <1>12 DEF CancelTimer, PostDeferred, TypeOK, TypeFrames, RerunsLoop,
     RunModes
<1>13. ASSUME NEW o \in Ops, Expire(o)
      PROVE  RerunsLoop'
  BY <1>13 DEF Expire, TypeOK, TypeFrames, RerunsLoop, RunModes
<1>14. ASSUME Shutdown \/ DestroyOps \/ Ready \/ UNCHANGED vars
      PROVE  RerunsLoop'
  BY <1>14 DEF Shutdown, StopAllThreads, TypeOK, TypeFrames, RerunsLoop, RunModes,
     DestroyOps, OpsIn, AbandonedOps, Ready, vars
<1> QED
  BY <1>1, <1>2, <1>3, <1>4, <1>5, <1>6, <1>7, <1>8, <1>9, <1>10, <1>11, <1>12, <1>13,
     <1>14 DEF Next, Internal, ProgramCall

-----------------------------------------------------------------------------
(* The reactor.                                                            *)

\* The task token moves between the queue and one thread, and is never copied.
LEMMA ExclusiveStep ==
  ASSUME TypeOK, ShutdownQuiet, ReactorExclusive, [Next]_vars
  PROVE  ReactorExclusive'
<1> USE DEF shared, reactor, program, local
<1>1. ASSUME NEW c \in Contexts,
             ReturnStopped(c) \/ Wait(c) \/ ReturnEmpty(c)
      PROVE  ReactorExclusive'
  BY <1>1 DEF ReturnStopped, Return, Wait, WaitForEvent, ReturnEmpty, TypeOK, TypeFrames,
     TypeFlags, ReactorExclusive, InTask
<1>2. ASSUME NEW c \in Contexts,
             Reacquire(c) \/ ReturnPolled(c) \/ PerformNone(c)
      PROVE  ReactorExclusive'
  BY <1>2 DEF Reacquire, ReturnPolled, Return, FrontIsTask, PerformNone,
     CompensatingWorkStarted, TypeOK, TypeFrames, TypeFlags, ReactorExclusive, InTask
<1>3. ASSUME NEW c \in Contexts,
             HandlerEnds(c) \/ WorkCleanup(c) \/ Signal(c)
      PROVE  ReactorExclusive'
  BY <1>3 DEF HandlerEnds, InHandler, WorkCleanup, CleanupDelta, Signal, Waiting, TypeOK,
     TypeFrames, TypeFlags, ReactorExclusive, InTask
<1>4. ASSUME NEW c \in Contexts,
             StopLocked(c) \/ StartIo(c) \/ ScheduleTimer(c)
      PROVE  ReactorExclusive'
  BY <1>4 DEF StopLocked, StopAllThreads, StartIo, ScheduleTimer, TypeOK, TypeFrames,
     TypeFlags, ReactorExclusive, InTask
<1>5. ASSUME NEW c \in Contexts,
             CancelIo(c) \/ AcquireGuard(c) \/ ReleaseGuard(c)
      PROVE  ReactorExclusive'
  BY <1>5 DEF CancelIo, PostDeferred, AcquireGuard, ReleaseGuard, TypeOK, TypeFrames,
     TypeFlags, ReactorExclusive, InTask
<1>6. ASSUME NEW c \in Contexts, Stop(c) \/ Restart(c) \/ Timeout(c)
      PROVE  ReactorExclusive'
  BY <1>6 DEF Stop, Restart, Timeout, TypeOK, TypeFrames, TypeFlags, ReactorExclusive,
     InTask
<1>7. ASSUME NEW c \in Contexts, Enter(c)
      PROVE  ReactorExclusive'
  <2>1. CASE op_queue_' = op_queue_
    BY <1>7, <2>1 DEF Enter, TypeOK, TypeFrames, ReactorExclusive, InTask
  <2>2. CASE Outer[c] # NoContext /\ op_queue_' = op_queue_ \o private_op_queue[Outer[c]]
    <3>1. private_op_queue[Outer[c]] \in Seq(Queueable) /\ ~Has(private_op_queue[Outer[c]], Task)
      BY <2>2, NoTask DEF TypeOK, TypeQueues
    <3>2. /\ Has(op_queue_', Task) <=> Has(op_queue_, Task)
          /\ AtMostOnce(op_queue_, Task) => AtMostOnce(op_queue_', Task)
      BY <2>2, <3>1, ConcatHas, ConcatOnce DEF TypeOK, TypeQueues
    <3> QED
      BY <1>7, <3>2 DEF Enter, TypeOK, TypeFrames, ReactorExclusive, InTask
  <2> QED
    BY <1>7, <2>1, <2>2 DEF Enter
<1>8. ASSUME NEW c \in Contexts, TakeTask(c)
      PROVE  ReactorExclusive'
  <2>1. Has(op_queue_, Task) /\ op_queue_ # <<>> /\ Head(op_queue_) = Task
    BY <1>8 DEF TakeTask, FrontIsTask, Has, TypeOK, TypeQueues
  <2>2. ~Has(Tail(op_queue_), Task) /\ AtMostOnce(Tail(op_queue_), Task)
    BY <2>1, TailHas DEF ReactorExclusive, TypeOK, TypeQueues
  <2> QED
    BY <1>8, <2>1, <2>2 DEF TakeTask, TypeOK, TypeFrames, ReactorExclusive, InTask
<1>9. ASSUME NEW c \in Contexts, RunTask(c)
      PROVE  ReactorExclusive'
  BY <1>9 DEF RunTask, TypeOK, TypeFrames, TypeFlags, ReactorExclusive, InTask
<1>10. ASSUME NEW c \in Contexts, TaskCleanup(c)
      PROVE  ReactorExclusive'
  <2>1. /\ private_op_queue[c] \in Seq(Queueable) /\ ~Has(private_op_queue[c], Task)
        /\ op_queue_ \in Seq(Queueable) /\ Task \in Queueable
    BY NoTask DEF TypeOK, TypeQueues, Queueable
  <2>2. ~Has(op_queue_, Task) /\ task_ /\ \A d \in Contexts : InTask(d) => d = c
    BY <1>10 DEF TaskCleanup, ReactorExclusive, InTask
  <2>3. op_queue_ \o private_op_queue[c] \in Seq(Queueable)
    BY <2>1, ConcatProperties
  <2>4. ~Has(op_queue_ \o private_op_queue[c], Task)
    BY <2>1, <2>2, ConcatHas
  <2>5. op_queue_' = (op_queue_ \o private_op_queue[c]) \o <<Task>>
    BY <1>10, <2>1, ConcatAppend, SMTT(30) DEF TaskCleanup, CompletedThenTask, TypeOK, TypeQueues
  <2>6. AtMostOnce(op_queue_', Task) /\ Has(op_queue_', Task)
    BY <2>1, <2>3, <2>4, <2>5, AppendOnce
  <2>7. \A d \in Contexts : ~InTask(d)'
    BY <1>10, <2>2 DEF TaskCleanup, TypeOK, TypeFrames, InTask
  <2>8. task_'
    BY <1>10, <2>2 DEF TaskCleanup
  <2> QED
    BY <2>6, <2>7, <2>8 DEF ReactorExclusive
<1>11. ASSUME NEW c \in Contexts, TakeHandler(c)
      PROVE  ReactorExclusive'
  <2>1. op_queue_ # <<>> /\ Head(op_queue_) # Task
    BY <1>11 DEF TakeHandler, FrontIsHandler
  <2>2. /\ Has(Tail(op_queue_), Task) <=> Has(op_queue_, Task)
        /\ AtMostOnce(op_queue_, Task) => AtMostOnce(Tail(op_queue_), Task)
    BY <2>1, TailHas DEF TypeOK, TypeQueues
  <2> QED
    BY <1>11, <2>2 DEF TakeHandler, Looking, Holding, TypeOK, TypeFrames, ReactorExclusive, InTask
<1>12. ASSUME NEW c \in Contexts, PerformIo(c)
      PROVE  ReactorExclusive'
  BY <1>12 DEF PerformIo, PostDeferred, TypeOK, TypeFrames, TypeFlags, ReactorExclusive,
     InTask
<1>13. ASSUME NEW c \in Contexts, Flush(c)
      PROVE  ReactorExclusive'
  <2>1. private_op_queue[c] \in Seq(Queueable) /\ ~Has(private_op_queue[c], Task)
    BY NoTask DEF TypeOK, TypeQueues
  <2>2. /\ Has(op_queue_ \o private_op_queue[c], Task) <=> Has(op_queue_, Task)
        /\ AtMostOnce(op_queue_, Task) => AtMostOnce(op_queue_ \o private_op_queue[c], Task)
    BY <2>1, ConcatHas, ConcatOnce DEF TypeOK, TypeQueues
  <2> QED
    BY <1>13, <2>2 DEF Flush, Return, TypeOK, TypeFrames, ReactorExclusive, InTask
<1>14. ASSUME NEW c \in Contexts, Push(c)
      PROVE  ReactorExclusive'
  <2>1. arg[c] \in Seq(Queueable) /\ ~Has(arg[c], Task)
    BY NoTask DEF TypeOK, TypeQueues
  <2>2. /\ Has(op_queue_ \o arg[c], Task) <=> Has(op_queue_, Task)
        /\ AtMostOnce(op_queue_, Task) => AtMostOnce(op_queue_ \o arg[c], Task)
    BY <2>1, ConcatHas, ConcatOnce DEF TypeOK, TypeQueues
  <2> QED
    BY <1>14, <2>2 DEF Push, WakeOne, TypeOK, TypeFrames, ReactorExclusive, InTask
<1>15. ASSUME NEW c \in Contexts, InitTask(c)
      PROVE  ReactorExclusive'
  <2>1. ~Has(op_queue_, Task) /\ \A d \in Contexts : ~InTask(d)
    BY <1>15 DEF InitTask, TaskWanted, ReactorExclusive
  <2>2. op_queue_' = op_queue_ \o <<Task>>
    BY <1>15 DEF InitTask, TypeOK, TypeQueues
  <2>3. AtMostOnce(op_queue_', Task) /\ Has(op_queue_', Task)
    BY <2>1, <2>2, AppendOnce DEF TypeOK, TypeQueues, Queueable
  <2> QED
    BY <1>15, <2>1, <2>3 DEF InitTask, InTask, ReactorExclusive
<1>16. ASSUME NEW c \in Contexts, NEW m \in Modes, Call(c, m)
      PROVE  ReactorExclusive'
  BY <1>16 DEF Call, TypeOK, TypeFrames, TypeFlags, ReactorExclusive, InTask
<1>17. ASSUME NEW c \in Contexts, NEW kind \in {"post", "continuation", "dispatch"},
            NEW n \in 1 .. MaxBatch, Post(c, kind, n)
      PROVE  ReactorExclusive'
  BY <1>17 DEF Post, TypeOK, TypeFrames, TypeFlags, ReactorExclusive, InTask
<1>18. ASSUME NEW c \in Contexts, NEW o \in Ops, CancelTimer(c, o)
      PROVE  ReactorExclusive'
  BY <1>18 DEF CancelTimer, PostDeferred, TypeOK, TypeFrames, TypeFlags,
     ReactorExclusive, InTask
<1>19. ASSUME DestroyOps
      PROVE  ReactorExclusive'
  <2>1. \A c \in Contexts : pc[c] = "idle"
    BY <1>19 DEF DestroyOps, ShutdownQuiet
  <2> QED
    BY <1>19, <2>1 DEF DestroyOps, InTask, ReactorExclusive, Has, AtMostOnce
<1>20. ASSUME NEW o \in Ops, Expire(o)
      PROVE  ReactorExclusive'
  BY <1>20 DEF Expire, TypeOK, TypeFrames, TypeFlags, ReactorExclusive, InTask
<1>21. ASSUME Shutdown \/ Ready \/ UNCHANGED vars
      PROVE  ReactorExclusive'
  BY <1>21 DEF Shutdown, StopAllThreads, TypeOK, TypeFrames, TypeFlags, ReactorExclusive,
     InTask, Ready, vars
<1> QED
  BY <1>1, <1>2, <1>3, <1>4, <1>5, <1>6, <1>7, <1>8, <1>9, <1>10, <1>11, <1>12, <1>13,
     <1>14, <1>15, <1>16, <1>17, <1>18, <1>19, <1>20, <1>21 DEF Next, Internal,
     ProgramCall

\* Whoever sets task_interrupted_ or stopped_ interrupts the thread in the reactor.
LEMMA InterruptStep ==
  ASSUME TypeOK, ReactorExclusive, ReactorInterruptible, [Next]_vars
  PROVE  ReactorInterruptible'
<1> USE DEF shared, reactor, program, local
<1>1. ASSUME NEW c \in Contexts, Enter(c) \/ ReturnStopped(c) \/ Wait(c)
      PROVE  ReactorInterruptible'
  BY <1>1 DEF Enter, OuterTaken, ReturnStopped, Return, Wait, WaitForEvent, TypeOK,
     TypeFrames, TypeFlags, ReactorExclusive, InTask, ReactorInterruptible
<1>2. ASSUME NEW c \in Contexts,
             ReturnEmpty(c) \/ Reacquire(c) \/ RunTask(c)
      PROVE  ReactorInterruptible'
  BY <1>2, ZenonT(60) DEF ReturnEmpty, Return, Reacquire, RunTask, TypeOK, TypeFrames, TypeFlags,
     ReactorExclusive, InTask, ReactorInterruptible
<1>3. ASSUME NEW c \in Contexts,
             TaskCleanup(c) \/ ReturnPolled(c) \/ TakeHandler(c)
      PROVE  ReactorInterruptible'
  BY <1>3 DEF TaskCleanup, CompletedThenTask, ReturnPolled, Return, FrontIsTask,
     TakeHandler, Looking, FrontIsHandler, PassOnWakeUp, WakeOne, WakeNone, Holding,
     TypeOK, TypeFrames, TypeFlags, ReactorExclusive, InTask, ReactorInterruptible
<1>4. ASSUME NEW c \in Contexts,
             PerformNone(c) \/ PerformIo(c) \/ HandlerEnds(c)
      PROVE  ReactorInterruptible'
  BY <1>4 DEF PerformNone, CompensatingWorkStarted, PerformIo, PostDeferred, HandlerEnds,
     InHandler, TypeOK, TypeFrames, TypeFlags, ReactorExclusive, InTask,
     ReactorInterruptible
<1>5. ASSUME NEW c \in Contexts, WorkCleanup(c) \/ Flush(c) \/ Signal(c)
      PROVE  ReactorInterruptible'
  BY <1>5 DEF WorkCleanup, CleanupDelta, Flush, Return, Signal, Waiting, TypeOK,
     TypeFrames, TypeFlags, ReactorExclusive, InTask, ReactorInterruptible
<1>6. ASSUME NEW c \in Contexts, Push(c) \/ StopLocked(c) \/ InitTask(c)
      PROVE  ReactorInterruptible'
  BY <1>6 DEF Push, WakeOne, StopLocked, StopAllThreads, InitTask, TypeOK, TypeFrames,
     TypeFlags, ReactorExclusive, InTask, ReactorInterruptible
<1>7. ASSUME NEW c \in Contexts,
             StartIo(c) \/ ScheduleTimer(c) \/ CancelIo(c)
      PROVE  ReactorInterruptible'
  BY <1>7 DEF StartIo, ScheduleTimer, CancelIo, PostDeferred, TypeOK, TypeFrames,
     TypeFlags, ReactorExclusive, InTask, ReactorInterruptible
<1>8. ASSUME NEW c \in Contexts,
             AcquireGuard(c) \/ ReleaseGuard(c) \/ Stop(c)
      PROVE  ReactorInterruptible'
  BY <1>8 DEF AcquireGuard, ReleaseGuard, Stop, TypeOK, TypeFrames, TypeFlags,
     ReactorExclusive, InTask, ReactorInterruptible
<1>9. ASSUME NEW c \in Contexts, Restart(c) \/ Timeout(c)
      PROVE  ReactorInterruptible'
  BY <1>9 DEF Restart, Timeout, TypeOK, TypeFrames, TypeFlags, ReactorExclusive, InTask,
     ReactorInterruptible
<1>10. ASSUME NEW c \in Contexts, TakeTask(c)
      PROVE  ReactorInterruptible'
  <2>1. Has(op_queue_, Task)
    BY <1>10 DEF TakeTask, FrontIsTask, Has, TypeOK, TypeQueues
  <2> QED
    BY <1>10, <2>1 DEF TakeTask, Looking, Holding, TypeOK, TypeFrames, TypeFlags,
       ReactorExclusive, InTask, ReactorInterruptible
<1>11. ASSUME NEW c \in Contexts, NEW m \in Modes, Call(c, m)
      PROVE  ReactorInterruptible'
  BY <1>11 DEF Call, TypeOK, TypeFrames, TypeFlags, ReactorExclusive, InTask,
     ReactorInterruptible
<1>12. ASSUME NEW c \in Contexts, NEW kind \in {"post", "continuation", "dispatch"},
            NEW n \in 1 .. MaxBatch, Post(c, kind, n)
      PROVE  ReactorInterruptible'
  BY <1>12 DEF Post, TypeOK, TypeFrames, TypeFlags, ReactorExclusive, InTask,
     ReactorInterruptible
<1>13. ASSUME NEW c \in Contexts, NEW o \in Ops, CancelTimer(c, o)
      PROVE  ReactorInterruptible'
  BY <1>13 DEF CancelTimer, PostDeferred, TypeOK, TypeFrames, TypeFlags,
     ReactorExclusive, InTask, ReactorInterruptible
<1>14. ASSUME NEW o \in Ops, Expire(o)
      PROVE  ReactorInterruptible'
  BY <1>14 DEF Expire, TypeOK, TypeFrames, TypeFlags, ReactorExclusive, InTask,
     ReactorInterruptible
<1>15. ASSUME Shutdown \/ DestroyOps \/ Ready \/ UNCHANGED vars
      PROVE  ReactorInterruptible'
  BY <1>15 DEF Shutdown, StopAllThreads, TypeOK, TypeFrames, TypeFlags, ReactorExclusive,
     InTask, ReactorInterruptible, DestroyOps, OpsIn, AbandonedOps, Ready, vars
<1> QED
  BY <1>1, <1>2, <1>3, <1>4, <1>5, <1>6, <1>7, <1>8, <1>9, <1>10, <1>11, <1>12, <1>13,
     <1>14, <1>15 DEF Next, Internal, ProgramCall

\* Only the reactor puts the descriptor on a private queue, and the task follows it.
LEMMA PrivateStep ==
  ASSUME TypeOK, PrivateDesc, [Next]_vars
  PROVE  PrivateDesc'
<1> USE DEF shared, reactor, program, local
<1>1. ASSUME NEW c \in Contexts,
             ReturnStopped(c) \/ Wait(c) \/ ReturnEmpty(c)
      PROVE  PrivateDesc'
  BY <1>1 DEF ReturnStopped, Return, Wait, WaitForEvent, ReturnEmpty, TypeOK, TypeFrames,
     PrivateDesc
<1>2. ASSUME NEW c \in Contexts,
             Reacquire(c) \/ TakeTask(c) \/ ReturnPolled(c)
      PROVE  PrivateDesc'
  BY <1>2 DEF Reacquire, TakeTask, Looking, FrontIsTask, Holding, ReturnPolled, Return,
     TypeOK, TypeFrames, PrivateDesc
<1>3. ASSUME NEW c \in Contexts,
             TakeHandler(c) \/ PerformNone(c) \/ HandlerEnds(c)
      PROVE  PrivateDesc'
  BY <1>3 DEF TakeHandler, Looking, FrontIsHandler, PassOnWakeUp, WakeOne, WakeNone,
     Holding, PerformNone, CompensatingWorkStarted, HandlerEnds, InHandler, TypeOK,
     TypeFrames, PrivateDesc
<1>4. ASSUME NEW c \in Contexts, WorkCleanup(c) \/ Signal(c) \/ Push(c)
      PROVE  PrivateDesc'
  BY <1>4 DEF WorkCleanup, CleanupDelta, Signal, Waiting, Push, WakeOne, TypeOK,
     TypeFrames, PrivateDesc
<1>5. ASSUME NEW c \in Contexts,
             StopLocked(c) \/ InitTask(c) \/ StartIo(c)
      PROVE  PrivateDesc'
  BY <1>5 DEF StopLocked, StopAllThreads, InitTask, StartIo, TypeOK, TypeFrames,
     PrivateDesc
<1>6. ASSUME NEW c \in Contexts,
             ScheduleTimer(c) \/ AcquireGuard(c) \/ ReleaseGuard(c)
      PROVE  PrivateDesc'
  BY <1>6 DEF ScheduleTimer, AcquireGuard, ReleaseGuard, TypeOK, TypeFrames, PrivateDesc
<1>7. ASSUME NEW c \in Contexts, Stop(c) \/ Restart(c) \/ Timeout(c)
      PROVE  PrivateDesc'
  BY <1>7 DEF Stop, Restart, Timeout, TypeOK, TypeFrames, PrivateDesc
<1>8. ASSUME NEW c \in Contexts, Enter(c)
      PROVE  PrivateDesc'
  <2>1. \/ private_op_queue' = private_op_queue
        \/ private_op_queue' = [private_op_queue EXCEPT ![Outer[c]] = <<>>]
    BY <1>8 DEF Enter, OuterTaken
  <2>2. \A d \in Contexts : Has(private_op_queue'[d], Desc) => Has(private_op_queue[d], Desc)
    <3>1. \A d \in Contexts : private_op_queue'[d] \in {private_op_queue[d], <<>>}
      BY <2>1 DEF TypeOK, TypeQueues
    <3> QED
      BY <3>1, EmptyHas
  <2> QED
    BY <1>8, <2>2 DEF Enter, PrivateDesc, TypeOK, TypeFrames
<1>9. ASSUME NEW c \in Contexts, RunTask(c)
      PROVE  PrivateDesc'
  BY <1>9 DEF RunTask, TypeOK, TypeFrames, TypeQueues, PrivateDesc
<1>10. ASSUME NEW c \in Contexts, TaskCleanup(c)
      PROVE  PrivateDesc'
  <2>1. ~Has(private_op_queue'[c], Desc)
    BY <1>10, EmptyHas DEF TaskCleanup, TypeOK, TypeQueues
  <2> QED
    BY <1>10, <2>1 DEF TaskCleanup, PrivateDesc, TypeOK, TypeQueues, TypeFrames
<1>11. ASSUME NEW c \in Contexts, PerformIo(c)
      PROVE  PrivateDesc'
  <2>1. PICK n \in 1 .. Len(io) : IF n > 1 THEN PostDeferred(c, SubSeq(io, 2, n))
                                   ELSE UNCHANGED <<private_op_queue, pend, arg>>
    BY <1>11 DEF PerformIo
  <2>2. SubSeq(io, 2, n) \in Seq(Ops)
    BY DEF TypeOK, TypeQueues
  <2>3. \A d \in Contexts : Has(private_op_queue'[d], Desc) => Has(private_op_queue[d], Desc)
    BY <2>1, <2>2, DeferredNoDesc
  <2> QED
    BY <1>11, <2>3 DEF PerformIo, PrivateDesc
<1>12. ASSUME NEW c \in Contexts, Flush(c)
      PROVE  PrivateDesc'
  <2>1. ~Has(private_op_queue'[c], Desc)
    BY <1>12, EmptyHas DEF Flush, TypeOK, TypeQueues
  <2> QED
    BY <1>12, <2>1 DEF Flush, Return, PrivateDesc, TypeOK, TypeQueues, TypeFrames
<1>13. ASSUME NEW c \in Contexts, CancelIo(c)
      PROVE  PrivateDesc'
  <2>1. io \in Seq(Ops)
    BY DEF TypeOK, TypeQueues
  <2>2. \A d \in Contexts : Has(private_op_queue'[d], Desc) => Has(private_op_queue[d], Desc)
    BY <1>13, <2>1, DeferredNoDesc DEF CancelIo
  <2> QED
    BY <1>13, <2>2 DEF CancelIo, PrivateDesc
<1>14. ASSUME NEW c \in Contexts, NEW m \in Modes, Call(c, m)
      PROVE  PrivateDesc'
  BY <1>14 DEF Call, TypeOK, TypeFrames, PrivateDesc
<1>15. ASSUME NEW c \in Contexts, NEW kind \in {"post", "continuation", "dispatch"},
            NEW n \in 1 .. MaxBatch, Post(c, kind, n)
      PROVE  PrivateDesc'
  <2> DEFINE ops == [i \in 1 .. n |-> issued + i]
             new == private_op_queue[c] \o ops
  <2>1. ops \in Seq(Ops)
    BY <1>15 DEF Post, TypeOK, TypeCounts, Ops
  <2>2. \/ private_op_queue' = private_op_queue
        \/ private_op_queue' = [private_op_queue EXCEPT ![c] = new]
    BY <1>15 DEF Post
  <2> HIDE DEF ops
  <2>3. ~Has(ops, Desc) /\ ops \in Seq(Ops \cup {Desc})
    BY <2>1, NoDesc, SeqSubset
  <2>4. Has(new, Desc) <=> Has(private_op_queue[c], Desc)
    BY <2>3, ConcatHas DEF TypeOK, TypeQueues
  <2> HIDE DEF new
  <2> QED
    BY <1>15, <2>2, <2>4 DEF Post, PrivateDesc, TypeOK, TypeQueues
<1>16. ASSUME NEW c \in Contexts, NEW o \in Ops, CancelTimer(c, o)
      PROVE  PrivateDesc'
  <2>1. <<o>> \in Seq(Ops)
    BY DEF TypeOK, TypeQueues
  <2>2. \A d \in Contexts : Has(private_op_queue'[d], Desc) => Has(private_op_queue[d], Desc)
    BY <1>16, <2>1, DeferredNoDesc DEF CancelTimer
  <2> QED
    BY <1>16, <2>2 DEF CancelTimer, PrivateDesc
<1>17. ASSUME NEW o \in Ops, Expire(o)
      PROVE  PrivateDesc'
  BY <1>17 DEF Expire, TypeOK, TypeFrames, PrivateDesc
<1>18. ASSUME Shutdown \/ DestroyOps \/ Ready \/ UNCHANGED vars
      PROVE  PrivateDesc'
  BY <1>18 DEF Shutdown, StopAllThreads, TypeOK, TypeFrames, PrivateDesc, DestroyOps,
     OpsIn, AbandonedOps, Ready, vars
<1> QED
  BY <1>1, <1>2, <1>3, <1>4, <1>5, <1>6, <1>7, <1>8, <1>9, <1>10, <1>11, <1>12, <1>13,
     <1>14, <1>15, <1>16, <1>17, <1>18 DEF Next, Internal, ProgramCall

\* The descriptor enters the queue only together with the task, in front of it.
LEMMA OrderStep ==
  ASSUME TypeOK, NestedInHandler, PrivateDesc, DescBeforeTask, [Next]_vars
  PROVE  DescBeforeTask'
<1> USE DEF shared, reactor, program, local
<1>1. ASSUME NEW c \in Contexts,
             ReturnStopped(c) \/ Wait(c) \/ ReturnEmpty(c) \/ Reacquire(c) \/ RunTask(c) \/
             ReturnPolled(c) \/ PerformNone(c) \/ PerformIo(c) \/ HandlerEnds(c)
      PROVE  DescBeforeTask'
  BY <1>1 DEF ReturnStopped, Return, Wait, WaitForEvent, ReturnEmpty, Reacquire, RunTask,
     ReturnPolled, FrontIsTask, PerformNone, CompensatingWorkStarted, PerformIo,
     PostDeferred, HandlerEnds, InHandler, DescBeforeTask
<1>2. ASSUME NEW c \in Contexts,
             WorkCleanup(c) \/ Signal(c) \/ StopLocked(c) \/ StartIo(c) \/ ScheduleTimer(c) \/
             CancelIo(c) \/ AcquireGuard(c) \/ ReleaseGuard(c) \/ Stop(c)
      PROVE  DescBeforeTask'
  BY <1>2 DEF WorkCleanup, CleanupDelta, Signal, Waiting, StopLocked, StopAllThreads,
     StartIo, ScheduleTimer, CancelIo, PostDeferred, AcquireGuard, ReleaseGuard, Stop,
     DescBeforeTask
<1>3. ASSUME NEW c \in Contexts, Restart(c) \/ Timeout(c)
      PROVE  DescBeforeTask'
  BY <1>3 DEF Restart, Timeout, DescBeforeTask
<1>4. ASSUME NEW c \in Contexts, Enter(c)
      PROVE  DescBeforeTask'
  <2>1. CASE op_queue_' = op_queue_
    BY <2>1 DEF DescBeforeTask
  <2>2. CASE Outer[c] # NoContext /\ op_queue_' = op_queue_ \o private_op_queue[Outer[c]]
    <3>1. Outer[c] \in Contexts /\ pc[Outer[c]] = "handler"
      BY <1>4, <2>2 DEF Enter, NestedInHandler, InHandler
    <3>2. /\ private_op_queue[Outer[c]] \in Seq(Queueable)
          /\ ~Has(private_op_queue[Outer[c]], Desc)
      BY <3>1, NoTask DEF PrivateDesc, TypeOK, TypeQueues
    <3> QED
      BY <2>2, <3>2, BeforeConcat DEF DescBeforeTask, TypeOK, TypeQueues
  <2> QED
    BY <1>4, <2>1, <2>2 DEF Enter
<1>5. ASSUME NEW c \in Contexts, TakeTask(c)
      PROVE  DescBeforeTask'
  <2>1. op_queue_ # <<>> /\ op_queue_' = Tail(op_queue_)
    BY <1>5 DEF TakeTask, FrontIsTask
  <2> QED
    BY <2>1, BeforeTail DEF DescBeforeTask, TypeOK, TypeQueues
<1>6. ASSUME NEW c \in Contexts, TaskCleanup(c)
      PROVE  DescBeforeTask'
  <2>1. private_op_queue[c] \in Seq(Queueable) /\ Task \in Queueable
    BY NoTask DEF TypeOK, TypeQueues, Queueable
  <2>2. op_queue_ \o private_op_queue[c] \in Seq(Queueable)
    BY <2>1, ConcatProperties DEF TypeOK, TypeQueues
  <2>3. op_queue_' = (op_queue_ \o private_op_queue[c]) \o <<Task>>
    BY <1>6, <2>1, ConcatAppend, SMTT(30) DEF TaskCleanup, CompletedThenTask, TypeOK, TypeQueues
  <2>4. Desc # Task
    BY DEF Desc, Task
  <2> QED
    BY <2>1, <2>2, <2>3, <2>4, BeforeAppend DEF DescBeforeTask
<1>7. ASSUME NEW c \in Contexts, TakeHandler(c)
      PROVE  DescBeforeTask'
  <2>1. op_queue_ # <<>> /\ op_queue_' = Tail(op_queue_)
    BY <1>7 DEF TakeHandler, FrontIsHandler
  <2> QED
    BY <2>1, BeforeTail DEF DescBeforeTask, TypeOK, TypeQueues
<1>8. ASSUME NEW c \in Contexts, Flush(c)
      PROVE  DescBeforeTask'
  <2>1. private_op_queue[c] \in Seq(Queueable) /\ ~Has(private_op_queue[c], Desc)
    BY <1>8, NoTask DEF Flush, PrivateDesc, TypeOK, TypeQueues
  <2> QED
    BY <1>8, <2>1, BeforeConcat DEF Flush, DescBeforeTask, TypeOK, TypeQueues
<1>9. ASSUME NEW c \in Contexts, Push(c)
      PROVE  DescBeforeTask'
  <2>1. arg[c] \in Seq(Queueable) /\ ~Has(arg[c], Desc)
    BY NoTask, NoDesc DEF TypeOK, TypeQueues
  <2> QED
    BY <1>9, <2>1, BeforeConcat DEF Push, DescBeforeTask, TypeOK, TypeQueues
<1>10. ASSUME NEW c \in Contexts, InitTask(c)
      PROVE  DescBeforeTask'
  <2>1. op_queue_' = op_queue_ \o <<Task>>
    BY <1>10 DEF InitTask, TypeOK, TypeQueues
  <2>2. Desc # Task /\ Task \in Queueable
    BY DEF Desc, Task, Queueable
  <2> QED
    BY <2>1, <2>2, BeforeAppend DEF DescBeforeTask, TypeOK, TypeQueues
<1>11. ASSUME NEW c \in Contexts, NEW m \in Modes, Call(c, m)
      PROVE  DescBeforeTask'
  BY <1>11 DEF Call, DescBeforeTask
<1>12. ASSUME NEW c \in Contexts, NEW kind \in {"post", "continuation", "dispatch"},
            NEW n \in 1 .. MaxBatch, Post(c, kind, n)
      PROVE  DescBeforeTask'
  BY <1>12 DEF Post, DescBeforeTask
<1>13. ASSUME NEW c \in Contexts, NEW o \in Ops, CancelTimer(c, o)
      PROVE  DescBeforeTask'
  BY <1>13 DEF CancelTimer, PostDeferred, DescBeforeTask
<1>14. ASSUME DestroyOps
      PROVE  DescBeforeTask'
  BY <1>14 DEF DestroyOps, DescBeforeTask, EveryBefore
<1>15. ASSUME NEW o \in Ops, Expire(o)
      PROVE  DescBeforeTask'
  BY <1>15 DEF Expire, DescBeforeTask
<1>16. ASSUME Shutdown \/ Ready \/ UNCHANGED vars
      PROVE  DescBeforeTask'
  BY <1>16 DEF Shutdown, StopAllThreads, DescBeforeTask, Ready, vars
<1> QED
  BY <1>1, <1>2, <1>3, <1>4, <1>5, <1>6, <1>7, <1>8, <1>9, <1>10, <1>11, <1>12, <1>13,
     <1>14, <1>15, <1>16 DEF Next, Internal, ProgramCall

-----------------------------------------------------------------------------
(* The theorems.                                                           *)

\* The constructed scheduler satisfies the invariant.
LEMMA InitIInv == ASSUME Init PROVE IInv
<1>1. TypeOK
  <2> USE DEF Init, Ops, Task, Desc, NoOp, Queueable, Points
  <2>1. TypeQueues
    BY DEF TypeQueues
  <2>2. TypeCounts
    BY DEF TypeCounts
  <2>3. TypeFlags
    BY DEF TypeFlags
  <2>4. TypeFrames
    BY DEF TypeFrames, AllModes, RunModes
  <2> QED
    BY <2>1, <2>2, <2>3, <2>4 DEF TypeOK
<1>2. CurrentOperation /\ ShutdownQuiet /\ NestedInHandler /\ RerunsLoop
  BY DEF Init, CurrentOperation, ShutdownQuiet, NestedInHandler, RerunsLoop
<1>3. ReactorExclusive /\ ReactorInterruptible
  BY DEF Init, ReactorExclusive, ReactorInterruptible, InTask, Has, AtMostOnce
<1>4. PrivateDesc /\ DescBeforeTask
  BY EmptyHas DEF Init, PrivateDesc, DescBeforeTask, EveryBefore
<1> QED
  BY <1>1, <1>2, <1>3, <1>4 DEF IInv

\* Every step preserves it.
LEMMA StepIInv == ASSUME IInv, [Next]_vars PROVE IInv'
BY TypeStep, CurrentStep, QuietStep, NestedStep, RerunStep, ExclusiveStep, InterruptStep,
   PrivateStep, OrderStep DEF IInv

\* The invariant holds throughout.
THEOREM Invariance == Spec => []IInv
<1>1. Init => IInv
  BY InitIInv
<1>2. IInv /\ [Next]_vars => IInv'
  BY StepIInv
<1> QED
  BY <1>1, <1>2, PTL DEF Spec

\* The variables keep their types; the task is never completed as a handler.
THEOREM TypeCorrect == Spec => []TypeOK
<1>1. IInv => TypeOK
  BY DEF IInv
<1> QED
  BY <1>1, Invariance, PTL

\* At most one thread runs the reactor, and the task token is never lost.
THEOREM ReactorIsExclusive == Spec => []ReactorExclusive
<1>1. IInv => ReactorExclusive
  BY DEF IInv
<1> QED
  BY <1>1, Invariance, PTL

\* A thread blocked in the reactor is never left behind by a wake-up or by stop().
THEOREM ReactorIsInterruptible == Spec => []ReactorInterruptible
<1>1. IInv => ReactorInterruptible
  BY DEF IInv
<1> QED
  BY <1>1, Invariance, PTL

\* The reactor never returns a descriptor operation that is still queued.
THEOREM DescriptorIsDequeued == Spec => []DescriptorDequeued
<1>1. ASSUME IInv PROVE DescriptorDequeued
  <2> SUFFICES ASSUME NEW c \in Contexts, InTask(c), Has(op_queue_, Desc) PROVE FALSE
    BY <1>1 DEF DescriptorDequeued, IInv
  <2>1. ~Has(op_queue_, Task)
    BY <1>1 DEF IInv, ReactorExclusive
  <2>2. PICK i \in 1 .. Len(op_queue_) : op_queue_[i] = Desc
    BY DEF Has
  <2>3. PICK j \in i + 1 .. Len(op_queue_) : op_queue_[j] = Task
    BY <1>1, <2>2 DEF IInv, DescBeforeTask, EveryBefore
  <2>4. j \in 1 .. Len(op_queue_)
    BY <1>1, <2>2, <2>3 DEF IInv, TypeOK, TypeQueues
  <2> QED
    BY <2>1, <2>3, <2>4 DEF Has
<1> QED
  BY <1>1, Invariance, PTL

\* After stop() neither run() nor run_one() starts another handler.
THEOREM StopDispatch == Spec => StopPreventsDispatch
<1> DEFINE Quiet == \A c \in Contexts : stopped_ /\ pc[c] # "handler" /\ pc'[c] = "handler"
                                           => mode[c] \notin RunModes
<1>1. ASSUME IInv, [Next]_vars PROVE Quiet
  <2> USE DEF shared, reactor, program, local
  <2>0. TypeOK /\ RerunsLoop
    BY <1>1 DEF IInv
  <2>1. ASSUME NEW c \in Contexts,
               Enter(c) \/ ReturnStopped(c) \/ Wait(c) \/ ReturnEmpty(c)
        PROVE  Quiet
    BY <2>0, <2>1 DEF Enter, OuterTaken, ReturnStopped, Return, Wait, WaitForEvent, ReturnEmpty,
       TypeOK, TypeFrames
  <2>2. ASSUME NEW c \in Contexts,
               Reacquire(c) \/ TakeTask(c) \/ RunTask(c) \/ TaskCleanup(c)
        PROVE  Quiet
    BY <2>0, <2>2 DEF Reacquire, TakeTask, Looking, FrontIsTask, Holding, RunTask, TaskCleanup,
       CompletedThenTask, TypeOK, TypeFrames
  <2>3. ASSUME NEW c \in Contexts,
               ReturnPolled(c) \/ PerformNone(c) \/ PerformIo(c) \/ HandlerEnds(c)
        PROVE  Quiet
    BY <2>0, <2>3 DEF ReturnPolled, Return, FrontIsTask, PerformNone, CompensatingWorkStarted,
       PerformIo, PostDeferred, HandlerEnds, InHandler, TypeOK, TypeFrames
  <2>4. ASSUME NEW c \in Contexts,
               WorkCleanup(c) \/ Flush(c) \/ Signal(c) \/ Push(c)
        PROVE  Quiet
    BY <2>0, <2>4 DEF WorkCleanup, CleanupDelta, Flush, Return, Signal, Waiting, Push, WakeOne,
       TypeOK, TypeFrames
  <2>5. ASSUME NEW c \in Contexts,
               StopLocked(c) \/ InitTask(c) \/ StartIo(c) \/ ScheduleTimer(c)
        PROVE  Quiet
    BY <2>0, <2>5 DEF StopLocked, StopAllThreads, InitTask, StartIo, ScheduleTimer, TypeOK,
       TypeFrames
  <2>6. ASSUME NEW c \in Contexts,
               CancelIo(c) \/ AcquireGuard(c) \/ ReleaseGuard(c) \/ Stop(c)
        PROVE  Quiet
    BY <2>0, <2>6 DEF CancelIo, PostDeferred, AcquireGuard, ReleaseGuard, Stop, TypeOK,
       TypeFrames
  <2>7. ASSUME NEW c \in Contexts, Restart(c) \/ Timeout(c)
        PROVE  Quiet
    BY <2>0, <2>7 DEF Restart, Timeout, TypeOK, TypeFrames
  <2>8. ASSUME NEW c \in Contexts, TakeHandler(c)
        PROVE  Quiet
    BY <2>0, <2>8 DEF TakeHandler, Looking, FrontIsHandler, PassOnWakeUp, WakeOne, WakeNone,
       Holding, TypeOK, TypeFrames, RerunsLoop
  <2>9. ASSUME NEW c \in Contexts, NEW m \in Modes, Call(c, m)
        PROVE  Quiet
    BY <2>0, <2>9 DEF Call, TypeOK, TypeFrames
  <2>10. ASSUME NEW c \in Contexts, NEW kind \in {"post", "continuation", "dispatch"},
              NEW n \in 1 .. MaxBatch, Post(c, kind, n)
        PROVE  Quiet
    BY <2>0, <2>10 DEF Post, TypeOK, TypeFrames
  <2>11. ASSUME NEW c \in Contexts, NEW o \in Ops, CancelTimer(c, o)
        PROVE  Quiet
    BY <2>0, <2>11 DEF CancelTimer, PostDeferred, TypeOK, TypeFrames
  <2>12. ASSUME Shutdown
        PROVE  Quiet
    <3>1. pc' = pc \/ pc' = [d \in Contexts |-> IF pc[d] = "wait" THEN "woken" ELSE pc[d]]
      BY <2>0, <2>12 DEF Shutdown, StopAllThreads
    <3> QED
      BY <3>1
  <2>13. ASSUME NEW o \in Ops, Expire(o)
        PROVE  Quiet
    BY <2>0, <2>13 DEF Expire, TypeOK, TypeFrames
  <2>14. ASSUME DestroyOps \/ Ready \/ UNCHANGED vars
        PROVE  Quiet
    BY <2>0, <2>14 DEF DestroyOps, OpsIn, AbandonedOps, TypeOK, TypeFrames, Ready, vars
  <2> QED
    BY <1>1, <2>1, <2>2, <2>3, <2>4, <2>5, <2>6, <2>7, <2>8, <2>9, <2>10, <2>11, <2>12, <2>13,
       <2>14 DEF Next, Internal, ProgramCall
<1> QED
  BY <1>1, Invariance, PTL DEF Spec, StopPreventsDispatch
-----------------------------------------------------------------------------
(* No lost wake-up.                                                        *)

\* Every run function goes round its loop, and more than one thread may run: run() and
\* poll() only, and no handler throws.  The functions that complete one handler, and a
\* handler that throws, put what was posted meanwhile back without waking anybody.
LoopsOnly == ~OneThread /\ Modes \subseteq Loops /\ "throw" \notin Uses

\* It waits, will wait again, or is in epoll_wait without a time-out.
Asleep(c) ==
    \/ pc[c] = "wait"
    \/ pc[c] = "woken" /\ ~signalled
    \/ pc[c] = "task" /\ usec[c] = "forever"

\* The frame looks at the queue without anybody's help, whatever the timers do.
LooksItself(c) ==
    \/ pend[c] = "stop"
    \/ pc[c] \in {"enter", "loop", "waited", "polled", "task_cleanup", "cleanup", "flush"}
    \/ pc[c] = "task" /\ (usec[c] # "forever" \/ interrupt)

\* A waiting thread has been or will be woken, and will find the event set.
WakeUpComes ==
    /\ signalled /\ Waiters # {}
    /\ \E c \in Contexts : pend[c] = "signal" \/ pc[c] = "woken"

Alert == WakeUpComes \/ \E c \in Contexts : LooksItself(c)

\* What is queued is looked at: the inductive form of NoStrandedHandler.
QueueWatched ==
    op_queue_ = <<>> \/ stopped_ \/ (\A c \in Contexts : ~Asleep(c)) \/ Alert

ModesLoop == \A c \in Contexts : mode[c] \in Loops

LEMMA ModesStep ==
  ASSUME TypeOK, LoopsOnly, ModesLoop, [Next]_vars
  PROVE  ModesLoop'
<1> USE DEF shared, reactor, program, local
<1>1. ASSUME mode' = mode PROVE ModesLoop'
  BY <1>1 DEF ModesLoop
<1>2. ASSUME NEW c \in Contexts, Return(c) PROVE ModesLoop'
  BY <1>2 DEF Return, ModesLoop, TypeOK, TypeFrames, Loops
<1>3. ASSUME NEW c \in Contexts, NEW m \in Modes, Call(c, m) PROVE ModesLoop'
  BY <1>3 DEF Call, ModesLoop, TypeOK, TypeFrames, LoopsOnly
<1>4. ASSUME NEW c \in Contexts, Internal(c) PROVE ModesLoop'
  <2>1. mode' = mode \/ Return(c)
    BY <1>4 DEF Internal, Enter, ReturnStopped, Wait, ReturnEmpty, Reacquire, TakeTask, RunTask,
       TaskCleanup, ReturnPolled, TakeHandler, PerformNone, PerformIo, HandlerEnds, WorkCleanup,
       Flush, Signal, Push, StopLocked, LoopsOnly
  <2> QED BY <1>1, <1>2, <2>1
<1>5. ASSUME NEW c \in Contexts, ProgramCall(c), ~ \E m \in Modes : Call(c, m) PROVE ModesLoop'
  <2>1. mode' = mode
    BY <1>5 DEF ProgramCall, InitTask, Post, StartIo, ScheduleTimer, CancelIo, CancelTimer,
       AcquireGuard, ReleaseGuard, Stop, Restart
  <2> QED BY <1>1, <2>1
<1>6. ASSUME (\E c \in Contexts : Timeout(c)) \/ Shutdown \/ DestroyOps \/ Ready
             \/ (\E o \in Ops : Expire(o)) \/ UNCHANGED vars
      PROVE  mode' = mode
  BY <1>6 DEF Timeout, Shutdown, DestroyOps, Ready, Expire, vars
<1> QED
  BY <1>1, <1>3, <1>4, <1>5, <1>6 DEF Next

\* A frame on its way to the queue is enough.
LEMMA OneLooks == ASSUME NEW c \in Contexts, LooksItself(c)' PROVE QueueWatched'
BY DEF QueueWatched, Alert

\* A step that wakes nobody up and puts nobody to sleep.
LEMMA NothingMoves ==
  ASSUME QueueWatched, UNCHANGED <<op_queue_, stopped_, pc, usec, signalled>>, interrupt => interrupt',
         \A d \in Contexts : pend[d] \in {"signal", "stop"} => pend'[d] = pend[d]
  PROVE  QueueWatched'
BY DEF QueueWatched, Alert, WakeUpComes, LooksItself, Asleep, Waiters

\* Whoever queues an operation, or leaves one, wakes a waiting thread, or else interrupts
\* the one in the reactor.
LEMMA OneWoken ==
  ASSUME TypeOK, ReactorExclusive', ReactorInterruptible', NEW c \in Contexts,
         signalled' = TRUE, pend' = [pend EXCEPT ![c] = IF Waiters # {} THEN "signal" ELSE "none"],
         Waiters' = Waiters,
         Waiters = {} /\ task_' => task_interrupted_' \/ Has(op_queue_', Task)
  PROVE  QueueWatched'
<1>1. CASE Waiters # {}
  <2>1. pend'[c] = "signal"
    BY <1>1 DEF TypeOK, TypeFrames
  <2> QED BY <1>1, <2>1 DEF QueueWatched, Alert, WakeUpComes
<1>2. CASE Waiters = {}
  <2> SUFFICES ASSUME NEW d \in Contexts, Asleep(d)' PROVE LooksItself(d)'
    BY DEF QueueWatched, Alert
  <2>1. pc'[d] = "task" /\ usec'[d] = "forever"
    BY <1>2 DEF Asleep, Waiters
  <2>2. task_' /\ ~Has(op_queue_', Task)
    BY <2>1 DEF ReactorExclusive, InTask
  <2>3. interrupt'
    BY <1>2, <2>1, <2>2 DEF ReactorInterruptible
  <2> QED BY <2>1, <2>3 DEF LooksItself
<1> QED BY <1>1, <1>2

\* Every step keeps the queue watched.
LEMMA WatchedStep ==
  ASSUME IInv, IInv', LoopsOnly, ModesLoop, QueueWatched, [Next]_vars
  PROVE  QueueWatched'
<1> USE DEF shared, reactor, program, local
<1>0. TypeOK /\ ReactorExclusive' /\ ReactorInterruptible'
  BY DEF IInv
<1>1. ASSUME NEW c \in Contexts, Enter(c) \/ RunTask(c) \/ TaskCleanup(c) \/ PerformNone(c)
                                 \/ HandlerEnds(c) \/ WorkCleanup(c) \/ Flush(c)
      PROVE  QueueWatched'
  <2>1. pc'[c] \in {"loop", "task_cleanup", "polled", "cleanup", "flush"}
    BY <1>0, <1>1 DEF Enter, RunTask, TaskCleanup, PerformNone, HandlerEnds, WorkCleanup, Flush,
       ModesLoop, TypeOK, TypeFrames
  <2> QED BY <2>1, OneLooks DEF LooksItself
<1>2. ASSUME NEW c \in Contexts, ReturnStopped(c) \/ Wait(c) \/ ReturnEmpty(c) \/ StopLocked(c)
      PROVE  QueueWatched'
  BY <1>2 DEF ReturnStopped, Wait, ReturnEmpty, StopLocked, StopAllThreads, QueueWatched
<1>3. ASSUME NEW c \in Contexts, Reacquire(c)
      PROVE  QueueWatched'
  <2>1. /\ pc[c] = "woken" /\ UNCHANGED <<op_queue_, stopped_, signalled, interrupt, usec, pend>>
        /\ pc' = [pc EXCEPT ![c] = IF signalled THEN "loop" ELSE "wait"]
    BY <1>3 DEF Reacquire, ModesLoop, Loops
  <2>2. CASE signalled
    <3>1. pc'[c] = "loop"
      BY <1>0, <2>1, <2>2 DEF TypeOK, TypeFrames
    <3> QED BY <3>1, OneLooks DEF LooksItself
  <2>3. CASE ~signalled
    <3>1. Asleep(c)
      BY <2>1, <2>3 DEF Asleep
    <3>2. ASSUME NEW d \in Contexts, LooksItself(d) PROVE LooksItself(d)'
      BY <1>0, <2>1, <3>2 DEF LooksItself, TypeOK, TypeFrames
    <3> QED BY <2>1, <2>3, <3>1, <3>2 DEF QueueWatched, Alert, WakeUpComes
  <2> QED BY <2>2, <2>3
<1>4. ASSUME NEW c \in Contexts, Timeout(c)
      PROVE  QueueWatched'
  <2>1. /\ pc[c] = "wait" /\ UNCHANGED <<op_queue_, stopped_, signalled, interrupt, usec, pend>>
        /\ pc' = [pc EXCEPT ![c] = "woken"]
    BY <1>4 DEF Timeout
  <2>2. pc'[c] = "woken"
    BY <1>0, <2>1 DEF TypeOK, TypeFrames
  <2>3. CASE signalled
    BY <2>1, <2>2, <2>3 DEF QueueWatched, Alert, WakeUpComes, Waiters
  <2>4. CASE ~signalled
    <3>1. Asleep(c)
      BY <2>1 DEF Asleep
    <3>2. ASSUME NEW d \in Contexts, LooksItself(d) PROVE LooksItself(d)'
      BY <1>0, <2>1, <3>2 DEF LooksItself, TypeOK, TypeFrames
    <3> QED BY <2>1, <2>4, <3>1, <3>2 DEF QueueWatched, Alert, WakeUpComes
  <2> QED BY <2>3, <2>4
<1>5. ASSUME NEW c \in Contexts, Signal(c)
      PROVE  QueueWatched'
  <2>1. /\ UNCHANGED <<op_queue_, stopped_, signalled, interrupt, usec>>
        /\ pend[c] = "signal" /\ pend' = [pend EXCEPT ![c] = "none"]
    BY <1>5 DEF Signal
  <2>2. CASE Waiting = {}
    <3>1. pc' = pc
      BY <1>5, <2>2 DEF Signal
    <3>2. ASSUME NEW d \in Contexts, LooksItself(d) PROVE LooksItself(d)'
      BY <1>0, <2>1, <3>1, <3>2 DEF LooksItself, TypeOK, TypeFrames
    <3>3. ASSUME NEW d \in Contexts, ~Asleep(d) PROVE ~Asleep(d)'
      BY <2>1, <3>1, <3>3 DEF Asleep
    <3>4. WakeUpComes => WakeUpComes'
      BY <2>1, <2>2, <3>1 DEF WakeUpComes, Waiters, Waiting
    <3> QED BY <2>1, <3>2, <3>3, <3>4 DEF QueueWatched, Alert
  <2>3. CASE Waiting # {}
    <3>1. PICK w \in Waiting : pc' = [pc EXCEPT ![w] = "woken"]
      BY <1>5, <2>3 DEF Signal
    <3>2. w \in Contexts /\ pc[w] = "wait" /\ pc'[w] = "woken"
      BY <1>0, <3>1 DEF Waiting, TypeOK, TypeFrames
    <3>3. ASSUME NEW d \in Contexts, LooksItself(d) PROVE LooksItself(d)'
      BY <1>0, <2>1, <3>1, <3>2, <3>3 DEF LooksItself, TypeOK, TypeFrames
    <3>4. Asleep(w)
      BY <3>2 DEF Asleep
    <3>5. CASE signalled
      BY <2>1, <3>2, <3>5 DEF QueueWatched, Alert, WakeUpComes, Waiters
    <3>6. CASE ~signalled
      BY <2>1, <3>2, <3>3, <3>4, <3>6 DEF QueueWatched, Alert, WakeUpComes
    <3> QED BY <3>5, <3>6
  <2> QED BY <2>2, <2>3
<1>6. ASSUME NEW c \in Contexts, TakeTask(c)
      PROVE  QueueWatched'
  <2>1. /\ op_queue_' = Tail(op_queue_)
        /\ pc' = [pc EXCEPT ![c] = "task"]
        /\ Tail(op_queue_) # <<>> => usec' = [usec EXCEPT ![c] = "zero"]
    BY <1>6 DEF TakeTask
  <2>2. CASE Tail(op_queue_) = <<>>
    BY <2>1, <2>2 DEF QueueWatched
  <2>3. CASE Tail(op_queue_) # <<>>
    <3>1. pc'[c] = "task" /\ usec'[c] = "zero"
      BY <1>0, <2>1, <2>3 DEF TypeOK, TypeFrames
    <3> QED BY <3>1, OneLooks DEF LooksItself
  <2> QED BY <2>2, <2>3
<1>7. ASSUME NEW c \in Contexts, TakeHandler(c)
      PROVE  QueueWatched'
  <2>1. /\ op_queue_' = Tail(op_queue_) /\ task_' = task_
        /\ pc[c] \in Holding /\ pc' = [pc EXCEPT ![c] = "handler"]
        /\ Tail(op_queue_) # <<>> => WakeOne(c)
    BY <1>7 DEF TakeHandler, Looking, PassOnWakeUp, LoopsOnly
  <2>2. CASE Tail(op_queue_) = <<>>
    BY <2>1, <2>2 DEF QueueWatched
  <2>3. CASE Tail(op_queue_) # <<>>
    <3>1. Waiters' = Waiters
      BY <1>0, <2>1 DEF Waiters, Holding, TypeOK, TypeFrames
    <3>2. /\ signalled' = TRUE
          /\ pend' = [pend EXCEPT ![c] = IF Waiters # {} THEN "signal" ELSE "none"]
          /\ Waiters = {} /\ task_' => task_interrupted_'
      BY <1>0, <2>1, <2>3 DEF WakeOne, TypeOK, TypeFlags
    <3> QED BY <1>0, <3>1, <3>2, OneWoken
  <2> QED BY <2>2, <2>3
<1>8. ASSUME NEW c \in Contexts, Push(c) \/ InitTask(c) \/ ReturnPolled(c)
      PROVE  QueueWatched'
  <2>1. Waiters' = Waiters
    BY <1>0, <1>8 DEF Push, InitTask, ReturnPolled, Return, Waiters, TypeOK, TypeFrames
  <2>2. /\ signalled' = TRUE
        /\ pend' = [pend EXCEPT ![c] = IF Waiters # {} THEN "signal" ELSE "none"]
    BY <1>8 DEF Push, WakeOne, InitTask, ReturnPolled, LoopsOnly
  <2>3. Waiters = {} /\ task_' => task_interrupted_' \/ Has(op_queue_', Task)
    <3>1. CASE Push(c)
      BY <1>0, <3>1 DEF Push, WakeOne, TypeOK, TypeFlags
    <3>2. CASE InitTask(c)
      BY <1>0, <3>2 DEF InitTask, Has, TypeOK, TypeQueues, Queueable
    <3>3. CASE ReturnPolled(c)
      BY <1>0, <3>3 DEF ReturnPolled, FrontIsTask, Has, TypeOK, TypeQueues
    <3> QED BY <1>8, <3>1, <3>2, <3>3
  <2> QED BY <1>0, <2>1, <2>2, <2>3, OneWoken
<1>9. ASSUME NEW c \in Contexts, NEW m \in Modes, Call(c, m)
      PROVE  QueueWatched'
  <2>1. pc' = [pc EXCEPT ![c] = "enter"] \/ pend' = [pend EXCEPT ![c] = "stop"]
    BY <1>9 DEF Call
  <2>2. pc'[c] = "enter" \/ pend'[c] = "stop"
    BY <1>0, <2>1 DEF TypeOK, TypeFrames
  <2> QED BY <2>2, OneLooks DEF LooksItself
<1>10. ASSUME NEW c \in Contexts, PerformIo(c) \/ StartIo(c) \/ ScheduleTimer(c) \/ CancelIo(c)
                                  \/ AcquireGuard(c) \/ ReleaseGuard(c) \/ Stop(c)
                                  \/ (\E o \in Ops : CancelTimer(c, o))
                                  \/ (\E kind \in {"post", "continuation", "dispatch"},
                                         n \in 1 .. MaxBatch : Post(c, kind, n))
      PROVE  QueueWatched'
  <2>1. UNCHANGED <<op_queue_, stopped_, pc, usec, signalled, interrupt>>
    BY <1>10 DEF PerformIo, StartIo, ScheduleTimer, CancelIo, AcquireGuard, ReleaseGuard, Stop,
       CancelTimer, Post
  <2>2. pend[c] = "none" \/ pend' = pend
    BY <1>10 DEF PerformIo, StartIo, ScheduleTimer, CancelIo, AcquireGuard, ReleaseGuard, Stop,
       CancelTimer, Post, MayCall, Innermost
  <2>3. \A d \in Contexts \ {c} : pend'[d] = pend[d]
    BY <1>0, <1>10 DEF PerformIo, PostDeferred, StartIo, ScheduleTimer, CancelIo, AcquireGuard,
       ReleaseGuard, Stop, CancelTimer, Post, TypeOK, TypeFrames
  <2> QED BY <2>1, <2>2, <2>3, NothingMoves
<1>11. ASSUME NEW c \in Contexts, Restart(c)
      PROVE  QueueWatched'
  BY <1>11 DEF Restart, QueueWatched, Asleep
<1>12. ASSUME Shutdown \/ DestroyOps \/ Ready \/ (\E o \in Ops : Expire(o)) \/ UNCHANGED vars
      PROVE  QueueWatched'
  <2>1. \/ stopped_' \/ op_queue_' = <<>>
        \/ UNCHANGED <<op_queue_, stopped_, pc, usec, signalled, interrupt, pend>>
    BY <1>12 DEF Shutdown, StopAllThreads, DestroyOps, Ready, Expire, vars
  <2> QED BY <2>1, NothingMoves DEF QueueWatched
<1> QED
  BY <1>1, <1>2, <1>3, <1>4, <1>5, <1>6, <1>7, <1>8, <1>9, <1>10, <1>11, <1>12
     DEF Next, Internal, ProgramCall

\* While operations are queued no thread of the pool sleeps on without another that is on
\* its way to them, whatever run(), poll(), stop(), restart(), shutdown(), posts, timers,
\* cancellations and spurious wake-ups do, in any order and from any number of threads.
THEOREM NoHandlerStranded == ASSUME LoopsOnly PROVE Spec => []NoStrandedHandler
<1>1. Init => ModesLoop /\ QueueWatched
  BY DEF Init, ModesLoop, Loops, QueueWatched
<1>2. ASSUME IInv, IInv', ModesLoop, QueueWatched, [Next]_vars PROVE ModesLoop' /\ QueueWatched'
  <2>1. TypeOK
    BY <1>2 DEF IInv
  <2> QED BY <1>2, <2>1, ModesStep, WatchedStep
<1>3. IInv /\ ModesLoop /\ QueueWatched => NoStrandedHandler
  <2> SUFFICES ASSUME TypeOK, ModesLoop, QueueWatched, op_queue_ # <<>>, ~stopped_,
                      \E c \in Contexts : pc[c] = "wait" \/ (pc[c] = "task" /\ usec[c] = "forever")
               PROVE  \E c \in Contexts : WillLook(c)
    BY DEF IInv, NoStrandedHandler
  <2>1. Alert
    BY DEF QueueWatched, Asleep
  <2>2. \A c \in Contexts : LooksItself(c) => WillLook(c)
    BY DEF LooksItself, WillLook, ModesLoop
  <2>3. WakeUpComes => \E c \in Contexts : WillLook(c)
    BY DEF WakeUpComes, WillLook
  <2> QED BY <2>1, <2>2, <2>3 DEF Alert
<1> QED
  BY <1>1, <1>2, <1>3, Invariance, PTL DEF Spec
-----------------------------------------------------------------------------
(* Every handler once.                                                     *)

\* What a frame still has to push is pushed next: nothing overwrites it.
ArgPending ==
    \A c \in Contexts : /\ arg[c] # <<>> => pend[c] = "push"
                        /\ pend[c] = "push" => pc[c] \in {"idle", "handler"}

QueuedOnce == \A o \in Ops : LinkedOnce(o)

\* Started, its handler neither run nor destroyed.
Live(o) == o \in 1 .. issued /\ o \notin done \cup destroyed
EndedStarted == done \cup destroyed \subseteq 1 .. issued

\* The live operations have exactly one place, the others none.
OneHome ==
    \A o \in Ops : /\ Live(o) <=> \E p \in Places : Holds(p, o)
                   /\ \A p, q \in Places : Holds(p, o) /\ Holds(q, o) => p = q

HomeInv == ArgPending /\ QueuedOnce /\ EndedStarted /\ OneHome

LEMMA ArgStep ==
  ASSUME TypeOK, ArgPending, [Next]_vars
  PROVE  ArgPending'
<1> USE DEF shared, reactor, program, local
<1>1. ASSUME NEW c \in Contexts,
             Enter(c) \/ ReturnStopped(c) \/ Wait(c) \/ ReturnEmpty(c) \/ Reacquire(c) \/ Timeout(c)
      PROVE  ArgPending'
  BY <1>1 DEF Enter, ReturnStopped, Return, Wait, WaitForEvent, ReturnEmpty, Reacquire, Timeout,
     ArgPending, TypeOK, TypeFrames
<1>2. ASSUME NEW c \in Contexts, TakeTask(c) \/ TakeHandler(c) \/ ReturnPolled(c)
      PROVE  ArgPending'
  <2>1. pc[c] \in Holding /\ arg' = arg /\ pc' \in {[pc EXCEPT ![c] = p] : p \in Points}
    BY <1>2 DEF TakeTask, TakeHandler, ReturnPolled, Return, Looking, Holding, Points
  <2>2. pend' = pend \/ \E s \in {"signal", "none"} : pend' = [pend EXCEPT ![c] = s]
    BY <1>2 DEF TakeTask, TakeHandler, ReturnPolled, PassOnWakeUp, WakeOne, WakeNone
  <2>3. arg[c] = <<>> /\ pend[c] # "push"
    BY <2>1 DEF ArgPending, Holding
  <2> QED BY <2>1, <2>2, <2>3 DEF ArgPending, TypeOK, TypeFrames
<1>3. ASSUME NEW c \in Contexts, RunTask(c) \/ TaskCleanup(c) \/ PerformNone(c) \/ HandlerEnds(c)
                                 \/ Flush(c)
      PROVE  ArgPending'
  BY <1>3 DEF RunTask, TaskCleanup, PerformNone, HandlerEnds, Innermost, Flush, Return,
     ArgPending, TypeOK, TypeFrames
<1>4. ASSUME NEW c \in Contexts, WorkCleanup(c)
      PROVE  ArgPending'
  <2>1. /\ pc[c] = "cleanup" /\ arg' = arg /\ pc' = [pc EXCEPT ![c] = "flush"]
        /\ \E s \in {"stop", "none"} : pend' = [pend EXCEPT ![c] = s]
    BY <1>4 DEF WorkCleanup
  <2> QED BY <2>1 DEF ArgPending, TypeOK, TypeFrames
<1>5. ASSUME NEW c \in Contexts, Signal(c)
      PROVE  ArgPending'
  BY <1>5 DEF Signal, Waiting, ArgPending, TypeOK, TypeFrames
<1>6. ASSUME NEW c \in Contexts, Push(c)
      PROVE  ArgPending'
  <2>1. /\ arg' = [arg EXCEPT ![c] = <<>>] /\ pc' = pc
        /\ \E s \in {"signal", "none"} : pend' = [pend EXCEPT ![c] = s]
    BY <1>6 DEF Push, WakeOne
  <2> QED BY <2>1 DEF ArgPending, TypeOK, TypeFrames, TypeQueues
<1>7. ASSUME NEW c \in Contexts, StopLocked(c)
      PROVE  ArgPending'
  BY <1>7 DEF StopLocked, StopAllThreads, ArgPending, TypeOK, TypeFrames
<1>8. ASSUME NEW c \in Contexts, NEW m \in Modes, Call(c, m)
      PROVE  ArgPending'
  BY <1>8 DEF Call, ArgPending, TypeOK, TypeFrames
<1>9. ASSUME NEW c \in Contexts, InitTask(c) \/ ReleaseGuard(c) \/ Stop(c)
      PROVE  ArgPending'
  <2>1. /\ pend[c] = "none" /\ arg' = arg /\ pc' = pc
        /\ \E s \in {"signal", "stop", "none"} : pend' = [pend EXCEPT ![c] = s]
    BY <1>9 DEF InitTask, ReleaseGuard, Stop, MayCall, Innermost
  <2> QED BY <2>1 DEF ArgPending, TypeOK, TypeFrames
<1>10. ASSUME NEW c \in Contexts, PerformIo(c) \/ CancelIo(c) \/ (\E o \in Ops : CancelTimer(c, o))
                                  \/ (\E kind \in {"post", "continuation", "dispatch"},
                                         n \in 1 .. MaxBatch : Post(c, kind, n))
      PROVE  ArgPending'
  <2>1. /\ pend[c] = "none" /\ pc[c] \in {"idle", "handler"} /\ pc' = pc
        /\ \/ arg' = arg /\ pend' = pend
           \/ \E ops : arg' = [arg EXCEPT ![c] = ops] /\ pend' = [pend EXCEPT ![c] = "push"]
    BY <1>10 DEF PerformIo, CancelIo, CancelTimer, Post, PostDeferred, MayCall, Innermost, InHandler
  <2> QED BY <2>1 DEF ArgPending, TypeOK, TypeFrames, TypeQueues
<1>11. ASSUME NEW c \in Contexts,
              StartIo(c) \/ ScheduleTimer(c) \/ AcquireGuard(c) \/ Restart(c)
       PROVE  ArgPending'
  BY <1>11 DEF StartIo, ScheduleTimer, AcquireGuard, Restart, ArgPending
<1>12. ASSUME Shutdown
       PROVE  ArgPending'
  <2>1. /\ arg' = arg /\ pend' = pend
        /\ \A c \in Contexts : pc[c] \in {"idle", "handler"} => pc'[c] = pc[c]
    BY <1>12 DEF Shutdown, StopAllThreads
  <2> QED BY <2>1 DEF ArgPending
<1>13. ASSUME DestroyOps \/ Ready \/ (\E o \in Ops : Expire(o)) \/ UNCHANGED vars
       PROVE  ArgPending'
  BY <1>13 DEF DestroyOps, Ready, Expire, vars, ArgPending
<1> QED
  BY <1>1, <1>2, <1>3, <1>4, <1>5, <1>6, <1>7, <1>8, <1>9, <1>10, <1>11, <1>12, <1>13
     DEF Next, Internal, ProgramCall

Queue == <<"queue", NoContext>>
Io == <<"io", NoContext>>
Timers == <<"timers", NoContext>>
Expired == <<"expired", NoContext>>
Private(c) == <<"private", c>>
Argument(c) == <<"arg", c>>
Handler(c) == <<"handler", c>>

Completing(c) == pc[c] \in {"handler", "cleanup"}

\* What each place holds.
LEMMA PlaceFacts ==
  /\ {Queue, Io, Timers, Expired} \subseteq Places
  /\ \A c \in Contexts : {Private(c), Argument(c), Handler(c)} \subseteq Places
  /\ \A p \in Places : \/ p \in {Queue, Io, Timers, Expired}
                       \/ \E c \in Contexts : p \in {Private(c), Argument(c), Handler(c)}
  /\ \A o : /\ Holds(Queue, o) <=> Has(op_queue_, o)
            /\ Holds(Io, o) <=> Has(io, o)
            /\ Holds(Timers, o) <=> o \in timers
            /\ Holds(Expired, o) <=> Has(expired, o)
  /\ \A o, c : /\ Holds(Private(c), o) <=> Has(private_op_queue[c], o)
               /\ Holds(Argument(c), o) <=> Has(arg[c], o)
               /\ Holds(Handler(c), o) <=> Completing(c) /\ cur[c] = o
BY DEF Places, Holds, Queue, Io, Timers, Expired, Private, Argument, Handler, Completing

LEMMA PlaceFactsNext ==
  \A p, o :
    /\ p = Queue => (Holds(p, o)' <=> Has(op_queue_', o))
    /\ p = Io => (Holds(p, o)' <=> Has(io', o))
    /\ p = Timers => (Holds(p, o)' <=> o \in timers')
    /\ p = Expired => (Holds(p, o)' <=> Has(expired', o))
    /\ \A c : /\ p = Private(c) => (Holds(p, o)' <=> Has(private_op_queue'[c], o))
              /\ p = Argument(c) => (Holds(p, o)' <=> Has(arg'[c], o))
              /\ p = Handler(c) => (Holds(p, o)' <=> Completing(c)' /\ cur'[c] = o)
BY DEF Places, Holds, Queue, Io, Timers, Expired, Private, Argument, Handler, Completing

\* Outside M, which holds the places of the frame c or of the queues that a step assigns,
\* nothing changes.
LEMMA Elsewhere ==
  ASSUME NEW M, NEW c,
         op_queue_' = op_queue_ \/ Queue \in M, io' = io \/ Io \in M,
         timers' = timers \/ Timers \in M, expired' = expired \/ Expired \in M,
         \A d \in Contexts : /\ private_op_queue'[d] = private_op_queue[d] \/ (d = c /\ Private(c) \in M)
                             /\ arg'[d] = arg[d] \/ (d = c /\ Argument(c) \in M)
                             /\ \/ (Completing(d) <=> Completing(d)') /\ cur'[d] = cur[d]
                                \/ d = c /\ Handler(c) \in M
  PROVE  \A p \in Places \ M, o \in Ops : Holds(p, o)' <=> Holds(p, o)
<1> SUFFICES ASSUME NEW p \in Places, p \notin M, NEW o \in Ops PROVE Holds(p, o)' <=> Holds(p, o)
  OBVIOUS
<1>1. CASE p \in {Queue, Io, Timers, Expired}
  BY <1>1, PlaceFacts, PlaceFactsNext
<1>2. ASSUME NEW d \in Contexts, p \in {Private(d), Argument(d), Handler(d)}
      PROVE  Holds(p, o)' <=> Holds(p, o)
  BY <1>2, PlaceFacts, PlaceFactsNext
<1> QED BY <1>1, <1>2, PlaceFacts

\* The operations that a step moves are in the places of M before and after it, or were not
\* live before, or are not live after.
Moves(M) ==
    /\ M \subseteq Places
    /\ \A p \in Places \ M, o \in Ops : Holds(p, o)' <=> Holds(p, o)
    /\ \A o \in Ops, p, q \in M : Holds(p, o)' /\ Holds(q, o)' => p = q
    /\ \A o \in Ops, p \in M : Holds(p, o)' => ~Live(o) \/ \E q \in M : Holds(q, o)
    /\ \A o \in Ops : Live(o)' <=> \/ \E p \in M : Holds(p, o)'
                                   \/ Live(o) /\ ~ \E q \in M : Holds(q, o)

LEMMA Moved == ASSUME OneHome, NEW M, Moves(M) PROVE OneHome'
<1>1. Places' = Places
  BY DEF Places
<1> SUFFICES ASSUME NEW o \in Ops
             PROVE  /\ Live(o)' <=> \E p \in Places : Holds(p, o)'
                    /\ \A p, q \in Places : Holds(p, o)' /\ Holds(q, o)' => p = q
  BY <1>1 DEF OneHome
<1> USE DEF Moves
<1>2. ASSUME NEW p \in M, NEW q \in Places \ M, Holds(p, o)', Holds(q, o)' PROVE FALSE
  BY <1>2 DEF OneHome
<1>3. \A p, q \in Places : Holds(p, o)' /\ Holds(q, o)' => p = q
  BY <1>2 DEF OneHome
<1>4. ASSUME Live(o)' PROVE \E p \in Places : Holds(p, o)'
  BY <1>4 DEF OneHome
<1>5. ASSUME NEW p \in Places, Holds(p, o)' PROVE Live(o)'
  <2>1. CASE p \in M
    BY <1>5, <2>1
  <2>2. CASE p \notin M
    <3>1. Holds(p, o)
      BY <1>5, <2>2
    <3> QED BY <2>2, <3>1 DEF OneHome
  <2> QED BY <2>1, <2>2
<1> QED BY <1>3, <1>4, <1>5

\* A step that starts and ends no operation: those in M stay in M.
MovesWithin(M) ==
    /\ M \subseteq Places /\ UNCHANGED <<issued, done, destroyed>>
    /\ \A p \in Places \ M, o \in Ops : Holds(p, o)' <=> Holds(p, o)
    /\ \A o \in Ops, p, q \in M : Holds(p, o)' /\ Holds(q, o)' => p = q
    /\ \A o \in Ops : (\E p \in M : Holds(p, o)') <=> (\E p \in M : Holds(p, o))

LEMMA MovedWithin == ASSUME OneHome, NEW M, MovesWithin(M) PROVE OneHome'
<1>1. \A o \in Ops : Live(o)' <=> Live(o)
  BY DEF Live, MovesWithin
<1>2. \A o \in Ops, p \in M : Holds(p, o) => Live(o)
  BY DEF OneHome, MovesWithin
<1>3. Moves(M)
  BY <1>1, <1>2 DEF Moves, MovesWithin
<1> QED BY <1>3, Moved

\* A place holds what no other place holds.
LEMMA Apart ==
  ASSUME OneHome, NEW o \in Ops, NEW c \in Contexts
  PROVE  /\ ~(Has(op_queue_, o) /\ Has(private_op_queue[c], o))
         /\ ~(Has(op_queue_, o) /\ Has(arg[c], o))
         /\ ~(Has(op_queue_, o) /\ Completing(c) /\ cur[c] = o)
         /\ ~(Has(expired, o) /\ Has(private_op_queue[c], o)) /\ ~(Has(expired, o) /\ o \in timers)
         /\ ~(o \in timers /\ Has(private_op_queue[c], o))
         /\ ~(Has(io, o) /\ Has(private_op_queue[c], o))
         /\ ~(Has(private_op_queue[c], o) /\ Has(arg[c], o))
<1>1. /\ Queue # Private(c) /\ Queue # Argument(c) /\ Queue # Handler(c)
      /\ Expired # Private(c) /\ Expired # Timers /\ Timers # Private(c) /\ Io # Private(c)
      /\ Private(c) # Argument(c)
  BY DEF Queue, Io, Timers, Expired, Private, Argument, Handler
<1>2. \A p, q \in Places : Holds(p, o) /\ Holds(q, o) => p = q
  BY DEF OneHome
<1>3. {Queue, Io, Timers, Expired, Private(c), Argument(c), Handler(c)} \subseteq Places
  BY PlaceFacts
<1>4. /\ (Holds(Queue, o) <=> Has(op_queue_, o)) /\ (Holds(Io, o) <=> Has(io, o))
      /\ (Holds(Timers, o) <=> o \in timers) /\ (Holds(Expired, o) <=> Has(expired, o))
      /\ (Holds(Private(c), o) <=> Has(private_op_queue[c], o))
      /\ (Holds(Argument(c), o) <=> Has(arg[c], o))
      /\ (Holds(Handler(c), o) <=> Completing(c) /\ cur[c] = o)
  BY PlaceFacts
<1> HIDE DEF Queue, Io, Timers, Expired, Private, Argument, Handler
<1> QED BY <1>1, <1>2, <1>3, <1>4

\* No frame's operation changes hands.
SameHandlers == \A d \in Contexts : (Completing(d) <=> Completing(d)') /\ cur'[d] = cur[d]

\* What enters or leaves the queue is not the program's.
LEMMA QueueKept ==
  ASSUME TypeOK, QueuedOnce, OneHome, SameHandlers,
         UNCHANGED <<issued, done, destroyed, io, timers, expired, private_op_queue, arg>>,
         \A o \in Ops : (Has(op_queue_', o) <=> Has(op_queue_, o)) /\ AtMostOnce(op_queue_', o)
  PROVE  QueuedOnce' /\ OneHome'
<1>1. QueuedOnce'
  BY DEF QueuedOnce, LinkedOnce
<1>2. \A p \in Places \ {Queue}, o \in Ops : Holds(p, o)' <=> Holds(p, o)
  BY Elsewhere DEF SameHandlers
<1>3. \A p \in {Queue}, o \in Ops : Holds(p, o)' <=> Holds(p, o)
  BY PlaceFacts, PlaceFactsNext
<1>4. {Queue} \subseteq Places
  BY PlaceFacts
<1> HIDE DEF Queue
<1>5. OneHome'
  <2>1. MovesWithin({Queue})
    BY <1>2, <1>3, <1>4 DEF MovesWithin
  <2> QED BY <2>1, MovedWithin
<1> QED BY <1>1, <1>5

\* A private queue is moved to the main one.
LEMMA PrivateMoves ==
  ASSUME TypeOK, QueuedOnce, OneHome, SameHandlers, NEW c \in Contexts,
         UNCHANGED <<issued, done, destroyed, io, timers, expired, arg>>,
         private_op_queue' = [private_op_queue EXCEPT ![c] = <<>>],
         op_queue_' = op_queue_ \o private_op_queue[c] \/ op_queue_' = op_queue_ \o CompletedThenTask(c)
  PROVE  QueuedOnce' /\ OneHome'
<1> DEFINE q == private_op_queue[c]
<1>1. /\ op_queue_ \in Seq(Queueable) /\ q \in Seq(Queueable) /\ ~Has(q, Task)
      /\ Task \in Queueable /\ <<Task>> \in Seq(Queueable) /\ q \o <<Task>> \in Seq(Queueable)
  <2>1. q \in Seq(Queueable) /\ ~Has(q, Task) /\ Task \in Queueable
    BY NoTask DEF TypeOK, TypeQueues, Queueable
  <2>2. <<Task>> \in Seq(Queueable)
    BY <2>1
  <2> QED BY <2>1, <2>2, ConcatProperties DEF TypeOK, TypeQueues
<1>2. ASSUME NEW o \in Ops
      PROVE  /\ Has(op_queue_', o) <=> Has(op_queue_, o) \/ Has(q, o)
             /\ AtMostOnce(op_queue_', o) /\ AtMostOnce(q, o) /\ ~(Has(op_queue_, o) /\ Has(q, o))
  <2>1. /\ ~(Has(op_queue_, o) /\ Has(q, o)) /\ AtMostOnce(q, o) /\ AtMostOnce(op_queue_, o)
        /\ o # Task
    BY Apart DEF QueuedOnce, LinkedOnce, Ops, Task
  <2>2. /\ Has(q \o <<Task>>, o) <=> Has(q, o)
        /\ AtMostOnce(q \o <<Task>>, o)
    <3>1. ~Has(<<Task>>, o)
      BY <2>1, OneHas
    <3> HIDE DEF q
    <3> QED BY <1>1, <2>1, <3>1, ConcatHas, ConcatOnce
  <2> HIDE DEF q
  <2>3. CASE op_queue_' = op_queue_ \o q
    BY <1>1, <2>1, <2>3, ConcatHas, JoinOnce
  <2>4. CASE op_queue_' = op_queue_ \o (q \o <<Task>>)
    BY <1>1, <2>1, <2>2, <2>4, ConcatHas, JoinOnce
  <2> QED BY <2>1, <2>3, <2>4 DEF CompletedThenTask, q
<1>3. private_op_queue'[c] = <<>> /\ \A d \in Contexts \ {c} : private_op_queue'[d] = private_op_queue[d]
  BY DEF TypeOK, TypeQueues
<1>4. QueuedOnce'
  BY <1>2, <1>3, NoneHas DEF QueuedOnce, LinkedOnce
<1>5. \A p \in Places \ {Queue, Private(c)}, o \in Ops : Holds(p, o)' <=> Holds(p, o)
  BY <1>3, Elsewhere DEF SameHandlers
<1>6. /\ {Queue, Private(c)} \subseteq Places
      /\ \A p \in Places, o \in Ops :
            /\ p = Private(c) => ~Holds(p, o)'
            /\ p = Queue => (Holds(p, o)' <=> Holds(Queue, o) \/ Holds(Private(c), o))
  BY <1>2, <1>3, NoneHas, PlaceFacts, PlaceFactsNext
<1> HIDE DEF Queue, Private
<1>7. OneHome'
  <2>1. MovesWithin({Queue, Private(c)})
    BY <1>5, <1>6 DEF MovesWithin
  <2> QED BY <2>1, MovedWithin
<1> QED BY <1>4, <1>7

\* post_immediate_completions and their like push what the frame has for them.
LEMMA ArgumentMoves ==
  ASSUME TypeOK, QueuedOnce, OneHome, NEW c \in Contexts, Push(c)
  PROVE  QueuedOnce' /\ OneHome'
<1> DEFINE q == arg[c]
<1>0. /\ UNCHANGED <<issued, done, destroyed, io, timers, expired, private_op_queue>>
      /\ SameHandlers
      /\ arg' = [arg EXCEPT ![c] = <<>>] /\ op_queue_' = op_queue_ \o q
  BY DEF Push, SameHandlers, Completing, shared, reactor, program, local
<1>1. op_queue_ \in Seq(Queueable) /\ q \in Seq(Queueable)
  BY NoTask DEF TypeOK, TypeQueues
<1>2. ASSUME NEW o \in Ops
      PROVE  /\ Has(op_queue_', o) <=> Has(op_queue_, o) \/ Has(q, o)
             /\ AtMostOnce(op_queue_', o)
  <2>1. ~(Has(op_queue_, o) /\ Has(q, o)) /\ AtMostOnce(q, o) /\ AtMostOnce(op_queue_, o)
    BY Apart DEF QueuedOnce, LinkedOnce
  <2> HIDE DEF q
  <2> QED BY <1>0, <1>1, <2>1, ConcatHas, JoinOnce
<1>3. arg'[c] = <<>> /\ \A d \in Contexts \ {c} : arg'[d] = arg[d]
  BY <1>0 DEF TypeOK, TypeQueues
<1>4. QueuedOnce'
  BY <1>0, <1>2, <1>3, NoneHas DEF QueuedOnce, LinkedOnce
<1>5. \A p \in Places \ {Queue, Argument(c)}, o \in Ops : Holds(p, o)' <=> Holds(p, o)
  BY <1>0, <1>3, Elsewhere DEF SameHandlers
<1>6. /\ {Queue, Argument(c)} \subseteq Places
      /\ \A p \in Places, o \in Ops :
            /\ p = Argument(c) => ~Holds(p, o)'
            /\ p = Queue => (Holds(p, o)' <=> Holds(Queue, o) \/ Holds(Argument(c), o))
  BY <1>2, <1>3, NoneHas, PlaceFacts, PlaceFactsNext
<1> HIDE DEF Queue, Argument
<1>7. OneHome'
  <2>1. MovesWithin({Queue, Argument(c)})
    BY <1>0, <1>5, <1>6 DEF MovesWithin
  <2> QED BY <2>1, MovedWithin
<1> QED BY <1>4, <1>7

\* The front of the queue becomes the frame's operation.
LEMMA HandlerTaken ==
  ASSUME TypeOK, QueuedOnce, OneHome, NEW c \in Contexts, TakeHandler(c)
  PROVE  QueuedOnce' /\ OneHome'
<1>0. /\ UNCHANGED <<issued, done, destroyed, io, timers, expired, private_op_queue, arg>>
      /\ op_queue_ # <<>> /\ op_queue_' = Tail(op_queue_)
      /\ cur' = [cur EXCEPT ![c] = Head(op_queue_)] /\ pc' = [pc EXCEPT ![c] = "handler"]
      /\ pc[c] \in Holding
  BY DEF TakeHandler, Looking, FrontIsHandler, shared, reactor, program, local
<1>1. /\ cur'[c] = Head(op_queue_) /\ Completing(c)' /\ ~Completing(c)
      /\ \A d \in Contexts \ {c} : cur'[d] = cur[d] /\ (Completing(d) <=> Completing(d)')
  BY <1>0 DEF Completing, Holding, TypeOK, TypeFrames
<1>2. ASSUME NEW o \in Ops
      PROVE  /\ Has(op_queue_, o) <=> Has(op_queue_', o) \/ o = Head(op_queue_)
             /\ AtMostOnce(op_queue_', o) /\ ~(Has(op_queue_', o) /\ o = Head(op_queue_))
  <2>1. AtMostOnce(op_queue_, o) /\ op_queue_ \in Seq(Queueable)
    BY DEF QueuedOnce, LinkedOnce, TypeOK, TypeQueues
  <2>2. Has(op_queue_, Head(op_queue_))
    BY <1>0, <2>1 DEF Has
  <2> QED BY <1>0, <2>1, <2>2, TailHas
<1>3. QueuedOnce'
  BY <1>0, <1>2 DEF QueuedOnce, LinkedOnce
<1>4. \A p \in Places \ {Queue, Handler(c)}, o \in Ops : Holds(p, o)' <=> Holds(p, o)
  BY <1>0, <1>1, Elsewhere
<1>5. /\ {Queue, Handler(c)} \subseteq Places
      /\ \A p, q \in Places, o \in Ops :
            /\ ~Holds(Handler(c), o)
            /\ p = Queue /\ q = Handler(c) => /\ ~(Holds(p, o)' /\ Holds(q, o)')
                                              /\ Holds(Queue, o) <=> Holds(p, o)' \/ Holds(q, o)'
  BY <1>1, <1>2, PlaceFacts, PlaceFactsNext
<1> HIDE DEF Queue, Handler
<1>6. OneHome'
  <2>1. MovesWithin({Queue, Handler(c)})
    BY <1>0, <1>4, <1>5 DEF MovesWithin
  <2> QED BY <2>1, MovedWithin
<1> QED BY <1>3, <1>6

\* The reactor hands out the timers that have expired.
LEMMA ExpiredTaken ==
  ASSUME TypeOK, QueuedOnce, OneHome, NEW c \in Contexts, RunTask(c)
  PROVE  QueuedOnce' /\ OneHome'
<1> DEFINE q == private_op_queue[c]
           d1 == IF event THEN <<Desc>> ELSE <<>>
<1>0. /\ UNCHANGED <<issued, done, destroyed, op_queue_, io, timers, arg>> /\ SameHandlers
      /\ expired' = <<>> /\ private_op_queue' = [private_op_queue EXCEPT ![c] = (q \o d1) \o expired]
  BY DEF RunTask, SameHandlers, Completing, shared, reactor, program, local, TypeOK, TypeFrames
<1>1. /\ q \in Seq(Queueable) /\ expired \in Seq(Queueable) /\ d1 \in Seq(Queueable)
      /\ q \o d1 \in Seq(Queueable)
  <2>1. q \in Seq(Queueable) /\ expired \in Seq(Queueable) /\ Desc \in Queueable
    BY NoTask DEF TypeOK, TypeQueues, Queueable
  <2>2. d1 \in Seq(Queueable)
    BY <2>1
  <2> QED BY <2>1, <2>2, ConcatProperties
<1>2. ASSUME NEW o \in Ops
      PROVE  /\ Has((q \o d1) \o expired, o) <=> Has(q, o) \/ Has(expired, o)
             /\ AtMostOnce((q \o d1) \o expired, o)
  <2>1. /\ ~(Has(expired, o) /\ Has(q, o)) /\ AtMostOnce(q, o) /\ AtMostOnce(expired, o)
        /\ o # Desc
    BY Apart DEF QueuedOnce, LinkedOnce, Ops, Desc
  <2>2. ~Has(d1, o)
    BY <2>1, OneHas, NoneHas
  <2> HIDE DEF q, d1
  <2>3. (Has(q \o d1, o) <=> Has(q, o)) /\ AtMostOnce(q \o d1, o)
    BY <1>1, <2>1, <2>2, ConcatHas, ConcatOnce
  <2> QED BY <1>1, <2>1, <2>3, ConcatHas, JoinOnce
<1>3. /\ private_op_queue'[c] = (q \o d1) \o expired
      /\ \A d \in Contexts \ {c} : private_op_queue'[d] = private_op_queue[d]
  BY <1>0 DEF TypeOK, TypeQueues
<1> HIDE DEF d1
<1>4. QueuedOnce'
  BY <1>0, <1>2, <1>3, NoneHas DEF QueuedOnce, LinkedOnce
<1>5. \A p \in Places \ {Expired, Private(c)}, o \in Ops : Holds(p, o)' <=> Holds(p, o)
  BY <1>0, <1>3, Elsewhere DEF SameHandlers
<1>6. /\ {Expired, Private(c)} \subseteq Places
      /\ \A p \in Places, o \in Ops :
            /\ p = Expired => ~Holds(p, o)'
            /\ p = Private(c) => (Holds(p, o)' <=> Holds(Private(c), o) \/ Holds(Expired, o))
  BY <1>0, <1>2, <1>3, NoneHas, PlaceFacts, PlaceFactsNext
<1> HIDE DEF Expired, Private
<1>7. OneHome'
  <2>1. MovesWithin({Expired, Private(c)})
    BY <1>0, <1>5, <1>6 DEF MovesWithin
  <2> QED BY <2>1, MovedWithin
<1> QED BY <1>4, <1>7

\* The frame c is given ops, on its private queue or to push.
Given(c, ops) ==
    \/ private_op_queue' = [private_op_queue EXCEPT ![c] = @ \o ops] /\ arg' = arg
    \/ arg' = [arg EXCEPT ![c] = ops] /\ private_op_queue' = private_op_queue
    \/ ops = <<>> /\ UNCHANGED <<private_op_queue, arg>>

LEMMA GivenFacts ==
  ASSUME TypeOK, QueuedOnce, NEW c \in Contexts, arg[c] = <<>>, NEW ops \in Seq(Ops), Given(c, ops),
         \A o \in Ops : AtMostOnce(ops, o) /\ ~(Has(ops, o) /\ Has(private_op_queue[c], o))
  PROVE  /\ \A o \in Ops :
               /\ Has(private_op_queue'[c], o) \/ Has(arg'[c], o)
                     <=> Has(private_op_queue[c], o) \/ Has(ops, o)
               /\ ~(Has(private_op_queue'[c], o) /\ Has(arg'[c], o))
               /\ AtMostOnce(private_op_queue'[c], o) /\ AtMostOnce(arg'[c], o)
         /\ \A d \in Contexts \ {c} : private_op_queue'[d] = private_op_queue[d] /\ arg'[d] = arg[d]
<1>1. /\ private_op_queue[c] \in Seq(Queueable) /\ ops \in Seq(Queueable)
      /\ \A o \in Ops : AtMostOnce(private_op_queue[c], o) /\ ~Has(arg[c], o) /\ AtMostOnce(arg[c], o)
  BY NoTask, NoneHas DEF TypeOK, TypeQueues, QueuedOnce, LinkedOnce
<1>2. CASE private_op_queue' = [private_op_queue EXCEPT ![c] = @ \o ops] /\ arg' = arg
  <2>1. /\ private_op_queue'[c] = private_op_queue[c] \o ops
        /\ \A d \in Contexts \ {c} : private_op_queue'[d] = private_op_queue[d]
    BY <1>2 DEF TypeOK, TypeQueues
  <2>2. \A o \in Ops : /\ Has(private_op_queue[c] \o ops, o) <=> Has(private_op_queue[c], o) \/ Has(ops, o)
                       /\ AtMostOnce(private_op_queue[c] \o ops, o)
    BY <1>1, ConcatHas, JoinOnce
  <2> QED BY <1>1, <1>2, <2>1, <2>2
<1>3. CASE arg' = [arg EXCEPT ![c] = ops] /\ private_op_queue' = private_op_queue
  <2>1. arg'[c] = ops /\ \A d \in Contexts \ {c} : arg'[d] = arg[d]
    BY <1>3 DEF TypeOK, TypeQueues
  <2> QED BY <1>1, <1>3, <2>1
<1>4. CASE ops = <<>> /\ UNCHANGED <<private_op_queue, arg>>
  BY <1>1, <1>4, NoneHas
<1> QED BY <1>2, <1>3, <1>4 DEF Given

\* The operations given to c come from the places of M; g holds of them.
LEMMA GivenPlaces ==
  ASSUME TypeOK, QueuedOnce, OneHome, NEW c \in Contexts, arg[c] = <<>>, NEW ops \in Seq(Ops),
         Given(c, ops),
         \A o \in Ops : AtMostOnce(ops, o) /\ ~(Has(ops, o) /\ Has(private_op_queue[c], o))
  PROVE  \A p, q \in Places, o \in Ops :
            /\ ~Holds(Argument(c), o)
            /\ p = Private(c) /\ q = Argument(c) =>
                  /\ Holds(p, o)' \/ Holds(q, o)' <=> Holds(Private(c), o) \/ Has(ops, o)
                  /\ ~(Holds(p, o)' /\ Holds(q, o)')
BY GivenFacts, PlaceFacts, PlaceFactsNext, NoneHas

\* Cancelling what waits on the descriptor.
LEMMA IoCancelled ==
  ASSUME TypeOK, ArgPending, QueuedOnce, OneHome, NEW c \in Contexts, CancelIo(c)
  PROVE  QueuedOnce' /\ OneHome'
<1>0. /\ UNCHANGED <<issued, done, destroyed, op_queue_, timers, expired>> /\ SameHandlers
      /\ io' = <<>> /\ Given(c, io) /\ pend[c] = "none" /\ io \in Seq(Ops)
  BY DEF CancelIo, PostDeferred, Given, MayCall, Innermost, SameHandlers, Completing, shared,
     program, TypeOK, TypeQueues
<1>1. arg[c] = <<>>
  BY <1>0 DEF ArgPending
<1>2. \A o \in Ops : AtMostOnce(io, o) /\ ~(Has(io, o) /\ Has(private_op_queue[c], o))
  BY Apart DEF QueuedOnce, LinkedOnce
<1>3. QueuedOnce'
  BY <1>0, <1>1, <1>2, GivenFacts, NoneHas DEF QueuedOnce, LinkedOnce
<1>4. \A p \in Places \ {Io, Private(c), Argument(c)}, o \in Ops : Holds(p, o)' <=> Holds(p, o)
  <2>1. \A d \in Contexts \ {c} : private_op_queue'[d] = private_op_queue[d] /\ arg'[d] = arg[d]
    BY <1>0, <1>1, <1>2, GivenFacts
  <2> QED BY <1>0, <2>1, Elsewhere DEF SameHandlers
<1>5. /\ {Io, Private(c), Argument(c)} \subseteq Places
      /\ \A p \in Places, o \in Ops : /\ p = Io => ~Holds(p, o)'
                                      /\ Holds(Io, o) <=> Has(io, o)
  BY <1>0, NoneHas, PlaceFacts, PlaceFactsNext
<1>6. \A p, q \in Places, o \in Ops :
            /\ ~Holds(Argument(c), o)
            /\ p = Private(c) /\ q = Argument(c) =>
                  /\ Holds(p, o)' \/ Holds(q, o)' <=> Holds(Private(c), o) \/ Has(io, o)
                  /\ ~(Holds(p, o)' /\ Holds(q, o)')
  BY <1>0, <1>1, <1>2, GivenPlaces
<1> HIDE DEF Io, Private, Argument
<1>7. MovesWithin({Io, Private(c), Argument(c)})
  BY <1>0, <1>4, <1>5, <1>6 DEF MovesWithin
<1> QED BY <1>3, <1>7, MovedWithin

\* Cancelling a timer, expired or not.
LEMMA TimerCancelled ==
  ASSUME TypeOK, ArgPending, QueuedOnce, OneHome, NEW c \in Contexts, NEW t \in Ops,
         CancelTimer(c, t)
  PROVE  QueuedOnce' /\ OneHome'
<1>0. /\ UNCHANGED <<issued, done, destroyed, op_queue_, io>> /\ SameHandlers
      /\ timers' = timers \ {t} /\ expired' = Unlinked(expired, {t})
      /\ t \in timers \cup OpsIn(expired)
      /\ Given(c, <<t>>) /\ pend[c] = "none" /\ <<t>> \in Seq(Ops) /\ expired \in Seq(Ops)
  <2>1. /\ UNCHANGED <<issued, done, destroyed, op_queue_, io, pc>>
        /\ timers' = timers \ {t} /\ expired' = Unlinked(expired, {t})
        /\ t \in timers \cup OpsIn(expired) /\ pend[c] = "none" /\ PostDeferred(c, <<t>>)
        /\ UNCHANGED <<private_outstanding_work, cur>>
    BY DEF CancelTimer, ExpiredWithout, MayCall, Innermost, shared, program
  <2>2. SameHandlers
    BY <2>1 DEF SameHandlers, Completing
  <2>3. <<t>> \in Seq(Ops) /\ expired \in Seq(Ops)
    BY DEF TypeOK, TypeQueues
  <2>4. Given(c, <<t>>)
    BY <2>1 DEF PostDeferred, Given
  <2> QED BY <2>1, <2>2, <2>3, <2>4
<1>1. arg[c] = <<>>
  BY <1>0 DEF ArgPending
<1>2. t \in timers \/ Has(expired, t)
  BY <1>0 DEF OpsIn, Has
<1>3. \A o \in Ops : /\ Has(<<t>>, o) <=> o = t
                     /\ AtMostOnce(<<t>>, o) /\ ~(Has(<<t>>, o) /\ Has(private_op_queue[c], o))
  BY <1>2, OneHas, Apart
<1>4. \A o \in Ops : /\ Has(expired', o) <=> Has(expired, o) /\ o # t
                     /\ AtMostOnce(expired', o)
  BY <1>0, UnlinkedFacts DEF QueuedOnce, LinkedOnce
<1>5. QueuedOnce'
  BY <1>0, <1>1, <1>3, <1>4, GivenFacts DEF QueuedOnce, LinkedOnce
<1>6. \A p \in Places \ {Timers, Expired, Private(c), Argument(c)}, o \in Ops :
         Holds(p, o)' <=> Holds(p, o)
  <2>1. \A d \in Contexts \ {c} : private_op_queue'[d] = private_op_queue[d] /\ arg'[d] = arg[d]
    BY <1>0, <1>1, <1>3, GivenFacts
  <2> QED BY <1>0, <2>1, Elsewhere DEF SameHandlers
<1>7. /\ {Timers, Expired, Private(c), Argument(c)} \subseteq Places
      /\ \A p \in Places, o \in Ops : /\ p = Timers => (Holds(p, o)' <=> Holds(Timers, o) /\ o # t)
                                      /\ p = Expired => (Holds(p, o)' <=> Holds(Expired, o) /\ o # t)
      /\ Holds(Timers, t) \/ Holds(Expired, t)
  <2>1. \A o \in Ops : /\ o \in timers' <=> o \in timers /\ o # t
                       /\ Holds(Timers, o) <=> o \in timers
                       /\ Holds(Expired, o) <=> Has(expired, o)
    BY <1>0, PlaceFacts
  <2>2. \A p \in Places, o \in Ops : /\ p = Timers => (Holds(p, o)' <=> o \in timers')
                                     /\ p = Expired => (Holds(p, o)' <=> Has(expired', o))
    BY PlaceFactsNext
  <2>3. {Timers, Expired, Private(c), Argument(c)} \subseteq Places
    BY PlaceFacts
  <2> QED BY <1>2, <1>4, <2>1, <2>2, <2>3
<1>8. \A p, q \in Places, o \in Ops :
            /\ ~Holds(Argument(c), o)
            /\ p = Private(c) /\ q = Argument(c) =>
                  /\ Holds(p, o)' \/ Holds(q, o)' <=> Holds(Private(c), o) \/ o = t
                  /\ ~(Holds(p, o)' /\ Holds(q, o)')
  BY <1>0, <1>1, <1>3, GivenPlaces
<1>9. \A p, q \in Places, o \in Ops : Holds(p, o) /\ Holds(q, o) => p = q
  BY DEF OneHome
<1>10. /\ Timers # Expired /\ Timers # Private(c) /\ Expired # Private(c)
  BY DEF Timers, Expired, Private
<1> HIDE DEF Timers, Expired, Private, Argument
<1>11. ~Holds(Private(c), t) /\ \A o \in Ops : /\ ~(Holds(Timers, o) /\ Holds(Expired, o))
                                               /\ ~(Holds(Timers, o) /\ Holds(Private(c), o))
                                               /\ ~(Holds(Expired, o) /\ Holds(Private(c), o))
  BY <1>7, <1>9, <1>10
<1>12. MovesWithin({Timers, Expired, Private(c), Argument(c)})
  BY <1>0, <1>6, <1>7, <1>8, <1>11 DEF MovesWithin
<1> QED BY <1>5, <1>12, MovedWithin

\* A descriptor event performs the first operations that wait.
LEMMA IoPerformed ==
  ASSUME TypeOK, ArgPending, QueuedOnce, OneHome, NEW c \in Contexts, PerformIo(c)
  PROVE  QueuedOnce' /\ OneHome'
<1>1. PICK n \in 1 .. Len(io) :
         /\ io' = SubSeq(io, n + 1, Len(io)) /\ cur' = [cur EXCEPT ![c] = io[1]]
         /\ IF n > 1 THEN PostDeferred(c, SubSeq(io, 2, n))
                     ELSE UNCHANGED <<private_op_queue, pend, arg>>
  BY DEF PerformIo
<1> DEFINE ops == SubSeq(io, 2, n)
<1>2. /\ UNCHANGED <<issued, done, destroyed, op_queue_, timers, expired, pc>>
      /\ pend[c] = "none" /\ pc[c] = "handler" /\ cur[c] = Desc
      /\ io \in Seq(Ops) /\ n \in Nat /\ Len(io) \in Nat
  BY DEF PerformIo, shared, program, TypeOK, TypeQueues
<1>3. arg[c] = <<>>
  BY <1>2 DEF ArgPending
<1>4. ops \in Seq(Ops) /\ Given(c, ops)
  <2>1. ops \in Seq(Ops)
    BY <1>2
  <2>2. CASE n > 1
    BY <1>1, <2>1, <2>2 DEF PostDeferred, Given
  <2>3. CASE ~(n > 1)
    <3>1. ops = <<>>
      BY <1>2, <2>3
    <3> QED BY <1>1, <2>1, <2>3, <3>1 DEF Given
  <2> QED BY <2>1, <2>2, <2>3
<1>5. \A o \in Ops : /\ Has(io, o) <=> o = io[1] \/ Has(ops, o) \/ Has(io', o)
                     /\ AtMostOnce(ops, o) /\ AtMostOnce(io', o)
                     /\ ~(o = io[1] /\ Has(ops, o)) /\ ~(o = io[1] /\ Has(io', o))
                     /\ ~(Has(ops, o) /\ Has(io', o))
  <2> SUFFICES ASSUME NEW o \in Ops
               PROVE  /\ Has(io, o) <=> o = io[1] \/ Has(ops, o) \/ Has(io', o)
                      /\ AtMostOnce(ops, o) /\ AtMostOnce(io', o)
                      /\ ~(o = io[1] /\ Has(ops, o)) /\ ~(o = io[1] /\ Has(io', o))
                      /\ ~(Has(ops, o) /\ Has(io', o))
    OBVIOUS
  <2>1. AtMostOnce(io, o)
    BY DEF QueuedOnce, LinkedOnce
  <2> QED BY <1>1, <1>2, <2>1, SplitHas
<1>6. \A o \in Ops : ~(Has(io, o) /\ Has(private_op_queue[c], o))
  BY Apart
<1>7. \A o \in Ops : AtMostOnce(ops, o) /\ ~(Has(ops, o) /\ Has(private_op_queue[c], o))
  BY <1>5, <1>6
<1>8. /\ cur'[c] = io[1] /\ Completing(c)' /\ \A o \in Ops : cur[c] # o
      /\ \A d \in Contexts \ {c} : cur'[d] = cur[d]
      /\ \A d \in Contexts : Completing(d) <=> Completing(d)'
  BY <1>1, <1>2 DEF Completing, Desc, Ops, TypeOK, TypeFrames
<1> HIDE DEF ops
<1>9. QueuedOnce'
  BY <1>2, <1>3, <1>4, <1>5, <1>7, GivenFacts DEF QueuedOnce, LinkedOnce
<1>10. \A p \in Places \ {Io, Handler(c), Private(c), Argument(c)}, o \in Ops :
          Holds(p, o)' <=> Holds(p, o)
  <2>1. \A d \in Contexts \ {c} : private_op_queue'[d] = private_op_queue[d] /\ arg'[d] = arg[d]
    BY <1>3, <1>4, <1>7, GivenFacts
  <2> QED BY <1>2, <1>8, <2>1, Elsewhere
<1>11. /\ {Io, Handler(c), Private(c), Argument(c)} \subseteq Places
       /\ \A p \in Places, o \in Ops : /\ p = Io => (Holds(p, o)' <=> Has(io', o))
                                       /\ p = Handler(c) => (Holds(p, o)' <=> o = io[1])
                                       /\ ~Holds(Handler(c), o)
                                       /\ Holds(Io, o) <=> Has(io, o)
                                       /\ Holds(Private(c), o) <=> Has(private_op_queue[c], o)
  BY <1>8, PlaceFacts, PlaceFactsNext
<1>12. \A p, q \in Places, o \in Ops :
            /\ ~Holds(Argument(c), o)
            /\ p = Private(c) /\ q = Argument(c) =>
                  /\ Holds(p, o)' \/ Holds(q, o)' <=> Holds(Private(c), o) \/ Has(ops, o)
                  /\ ~(Holds(p, o)' /\ Holds(q, o)')
  BY <1>3, <1>4, <1>7, GivenPlaces
<1> HIDE DEF Io, Handler, Private, Argument
<1>13. MovesWithin({Io, Handler(c), Private(c), Argument(c)})
  <2>1. \A o \in Ops, p, q \in {Io, Handler(c), Private(c), Argument(c)} :
           Holds(p, o)' /\ Holds(q, o)' => p = q
    BY <1>5, <1>6, <1>11, <1>12
  <2>2. \A o \in Ops : (\E p \in {Io, Handler(c), Private(c), Argument(c)} : Holds(p, o)')
                          <=> (\E p \in {Io, Handler(c), Private(c), Argument(c)} : Holds(p, o))
    BY <1>5, <1>11, <1>12
  <2> QED BY <1>2, <1>10, <1>11, <2>1, <2>2 DEF MovesWithin
<1> QED BY <1>9, <1>13, MovedWithin

\* The handler has run.
LEMMA HandlerDone ==
  ASSUME TypeOK, CurrentOperation, QueuedOnce, EndedStarted, OneHome, NEW c \in Contexts,
         WorkCleanup(c)
  PROVE  QueuedOnce' /\ EndedStarted' /\ OneHome'
<1>0. /\ UNCHANGED <<issued, destroyed, op_queue_, io, timers, expired, private_op_queue, arg>>
      /\ done' = IF cur[c] = Desc THEN done ELSE done \cup {cur[c]}
      /\ pc[c] = "cleanup" /\ pc' = [pc EXCEPT ![c] = "flush"] /\ cur' = [cur EXCEPT ![c] = NoOp]
  BY DEF WorkCleanup, reactor
<1>1. /\ ~Completing(c)' /\ Completing(c)
      /\ \A d \in Contexts \ {c} : cur'[d] = cur[d] /\ (Completing(d) <=> Completing(d)')
  BY <1>0 DEF Completing, TypeOK, TypeFrames
<1>2. \A p \in Places \ {Handler(c)}, o \in Ops : Holds(p, o)' <=> Holds(p, o)
  BY <1>0, <1>1, Elsewhere
<1>3. /\ {Handler(c)} \subseteq Places
      /\ \A p \in Places, o \in Ops : /\ Holds(Handler(c), o) <=> cur[c] = o
                                      /\ p = Handler(c) => ~Holds(p, o)'
  BY <1>1, PlaceFacts, PlaceFactsNext
<1>4. \A o \in Ops : o \in done' <=> o \in done \/ cur[c] = o
  BY <1>0 DEF Ops, Desc
<1>5. \A o \in Ops : Live(o)' <=> Live(o) /\ cur[c] # o
  BY <1>0, <1>4 DEF Live
<1> HIDE DEF Handler
<1>6. Moves({Handler(c)})
  BY <1>2, <1>3, <1>5 DEF Moves
<1>7. QueuedOnce'
  BY <1>0 DEF QueuedOnce, LinkedOnce
<1>8. EndedStarted'
  <2>1. CASE cur[c] \in Ops
    <3>1. Holds(Handler(c), cur[c]) /\ Handler(c) \in Places
      BY <1>3, <2>1
    <3>2. Live(cur[c])
      BY <2>1, <3>1 DEF OneHome
    <3> QED BY <1>0, <3>2 DEF EndedStarted, Live
  <2>2. CASE cur[c] = Desc
    BY <1>0, <2>2 DEF EndedStarted
  <2>3. cur[c] # NoOp
    BY <1>0 DEF CurrentOperation
  <2> QED BY <2>1, <2>2, <2>3 DEF TypeOK, TypeFrames
<1> QED BY <1>6, <1>7, <1>8, Moved

\* A timer's time has come.
LEMMA TimerExpired ==
  ASSUME TypeOK, QueuedOnce, OneHome, NEW t \in Ops, Expire(t)
  PROVE  QueuedOnce' /\ OneHome'
<1>0. /\ UNCHANGED <<issued, done, destroyed, op_queue_, io, private_op_queue, arg>> /\ SameHandlers
      /\ t \in timers /\ timers' = timers \ {t} /\ expired' = Append(expired, t)
      /\ expired \in Seq(Ops)
  BY DEF Expire, SameHandlers, Completing, shared, program, local, TypeOK, TypeQueues
<1>1. expired' = expired \o <<t>> /\ <<t>> \in Seq(Ops)
  BY <1>0
<1>2. \A o \in Ops : ~(o \in timers /\ Has(expired, o))
  <2>1. Timers # Expired
    BY DEF Timers, Expired
  <2> QED BY <2>1, PlaceFacts DEF OneHome
<1>3. \A o \in Ops : /\ Has(expired', o) <=> Has(expired, o) \/ o = t
                     /\ AtMostOnce(expired', o)
  <2> SUFFICES ASSUME NEW o \in Ops
               PROVE  (Has(expired', o) <=> Has(expired, o) \/ o = t) /\ AtMostOnce(expired', o)
    OBVIOUS
  <2>1. ~(Has(expired, o) /\ o \in timers) /\ AtMostOnce(expired, o)
    BY <1>2 DEF QueuedOnce, LinkedOnce
  <2>2. (Has(<<t>>, o) <=> o = t) /\ AtMostOnce(<<t>>, o)
    BY OneHas
  <2>3. (Has(expired \o <<t>>, o) <=> Has(expired, o) \/ o = t) /\ AtMostOnce(expired \o <<t>>, o)
    <3>1. PICK q \in Seq(Ops), r \in Seq(Ops) : q = expired /\ r = <<t>>
      BY <1>0, <1>1
    <3>2. AtMostOnce(q, o) /\ AtMostOnce(r, o) /\ ~(Has(q, o) /\ Has(r, o))
      BY <1>0, <2>1, <2>2, <3>1
    <3>3. (Has(q \o r, o) <=> Has(q, o) \/ Has(r, o)) /\ AtMostOnce(q \o r, o)
      BY <3>2, ConcatHas, JoinOnce
    <3> QED BY <2>2, <3>1, <3>3
  <2> QED BY <1>1, <2>3
<1>4. QueuedOnce'
  BY <1>0, <1>3 DEF QueuedOnce, LinkedOnce
<1>5. \A p \in Places \ {Timers, Expired}, o \in Ops : Holds(p, o)' <=> Holds(p, o)
  BY <1>0, Elsewhere DEF SameHandlers
<1>6. /\ {Timers, Expired} \subseteq Places
      /\ \A p \in Places, o \in Ops :
            /\ p = Timers => (Holds(p, o)' <=> o \in timers /\ o # t)
            /\ p = Expired => (Holds(p, o)' <=> Has(expired, o) \/ o = t)
            /\ Holds(Timers, o) <=> o \in timers
            /\ Holds(Expired, o) <=> Has(expired, o)
  <2>1. \A o \in Ops : o \in timers' <=> o \in timers /\ o # t
    BY <1>0
  <2> QED BY <1>3, <2>1, PlaceFacts, PlaceFactsNext
<1> HIDE DEF Timers, Expired
<1>7. MovesWithin({Timers, Expired})
  BY <1>0, <1>2, <1>5, <1>6 DEF MovesWithin
<1> QED BY <1>4, <1>7, MovedWithin

\* An operation that starts to wait, on the descriptor or on a timer.
LEMMA WaitStarted ==
  ASSUME TypeOK, QueuedOnce, EndedStarted, OneHome, NEW c \in Contexts, StartIo(c) \/ ScheduleTimer(c)
  PROVE  QueuedOnce' /\ EndedStarted' /\ OneHome'
<1> DEFINE t == issued + 1
<1>0. /\ UNCHANGED <<done, destroyed, op_queue_, expired, private_op_queue, arg>> /\ SameHandlers
      /\ issued' = t /\ issued \in Nat /\ t \in Ops
      /\ \/ io' = Append(io, t) /\ timers' = timers
         \/ io' = io /\ timers' = timers \cup {t}
  BY DEF StartIo, ScheduleTimer, SameHandlers, Completing, local, TypeOK, TypeCounts, Ops
<1>1. ~Live(t) /\ \A o \in Ops : Live(o)' <=> Live(o) \/ o = t
  BY <1>0 DEF Live, EndedStarted, Ops
<1> HIDE DEF t
<1>2. \A o \in Ops : /\ ~(o = t /\ Has(io, o)) /\ ~(o = t /\ o \in timers) /\ ~(o \in timers /\ Has(io, o))
  <2>1. Timers # Io
    BY DEF Timers, Io
  <2> QED BY <1>1, <2>1, PlaceFacts DEF OneHome
<1>3. \A o \in Ops : /\ AtMostOnce(io', o)
                     /\ Has(io', o) \/ o \in timers' <=> Has(io, o) \/ o \in timers \/ o = t
                     /\ ~(Has(io', o) /\ o \in timers')
  <2>1. CASE io' = Append(io, t) /\ timers' = timers
    <3>1. io' = io \o <<t>> /\ <<t>> \in Seq(Ops) /\ io \in Seq(Ops)
      BY <1>0, <2>1 DEF TypeOK, TypeQueues
    <3>2. \A o \in Ops : (Has(<<t>>, o) <=> o = t) /\ AtMostOnce(<<t>>, o) /\ AtMostOnce(io, o)
      BY OneHas DEF QueuedOnce, LinkedOnce
    <3>3. \A o \in Ops : AtMostOnce(io', o) /\ (Has(io', o) <=> Has(io, o) \/ o = t)
      BY <1>2, <3>1, <3>2, ConcatHas, JoinOnce
    <3> QED BY <1>2, <2>1, <3>3
  <2>2. CASE io' = io /\ timers' = timers \cup {t}
    BY <1>2, <2>2 DEF QueuedOnce, LinkedOnce
  <2> QED BY <1>0, <2>1, <2>2
<1>4. QueuedOnce'
  BY <1>0, <1>3 DEF QueuedOnce, LinkedOnce
<1>5. EndedStarted'
  BY <1>0 DEF EndedStarted, t
<1>6. \A p \in Places \ {Io, Timers}, o \in Ops : Holds(p, o)' <=> Holds(p, o)
  BY <1>0, Elsewhere DEF SameHandlers
<1>7. /\ {Io, Timers} \subseteq Places
      /\ \A p \in Places, o \in Ops :
            /\ p = Timers => (Holds(p, o)' <=> o \in timers')
            /\ p = Io => (Holds(p, o)' <=> Has(io', o))
            /\ Holds(Timers, o) <=> o \in timers
            /\ Holds(Io, o) <=> Has(io, o)
  BY PlaceFacts, PlaceFactsNext
<1> HIDE DEF Timers, Io
<1>8. Moves({Io, Timers})
  <2>1. \A o \in Ops, p, q \in {Io, Timers} : Holds(p, o)' /\ Holds(q, o)' => p = q
    BY <1>3, <1>7
  <2>2. \A o \in Ops, p \in {Io, Timers} :
           Holds(p, o)' => ~Live(o) \/ \E q \in {Io, Timers} : Holds(q, o)
    BY <1>1, <1>3, <1>7
  <2>3. \A o \in Ops : (\E p \in {Io, Timers} : Holds(p, o)')
                          <=> (\E q \in {Io, Timers} : Holds(q, o)) \/ o = t
    BY <1>3, <1>7
  <2>4. \A o \in Ops, p \in {Io, Timers} : Holds(p, o) => Live(o)
    BY <1>7 DEF OneHome
  <2> QED BY <1>1, <1>6, <1>7, <2>1, <2>2, <2>3, <2>4 DEF Moves
<1> QED BY <1>4, <1>5, <1>8, Moved

\* Operations are posted.
LEMMA OpsPosted ==
  ASSUME TypeOK, ArgPending, QueuedOnce, EndedStarted, OneHome, NEW c \in Contexts,
         NEW kind \in {"post", "continuation", "dispatch"}, NEW n \in 1 .. MaxBatch, Post(c, kind, n)
  PROVE  QueuedOnce' /\ EndedStarted' /\ OneHome'
<1> DEFINE ops == [i \in 1 .. n |-> issued + i]
<1>0. /\ UNCHANGED <<done, destroyed, op_queue_, io, timers, expired>> /\ SameHandlers
      /\ issued' = issued + n /\ issued + n <= MaxOps /\ issued \in Nat /\ n \in Nat
      /\ pend[c] = "none"
      /\ Given(c, ops)
  <2>1. Given(c, ops)
    BY Zenon DEF Post, Given
  <2>2. issued \in Nat /\ n \in Nat
    BY DEF TypeOK, TypeCounts
  <2>3. pend[c] = "none" /\ SameHandlers
    BY DEF Post, MayCall, Innermost, SameHandlers, Completing
  <2>4. /\ UNCHANGED <<done, destroyed, op_queue_, io, timers, expired>>
        /\ issued' = issued + n /\ issued + n <= MaxOps
    BY DEF Post, reactor
  <2> QED BY <2>1, <2>2, <2>3, <2>4
<1>1. ops \in Seq(Ops)
  BY <1>0 DEF Ops
<1>2. arg[c] = <<>>
  BY <1>0 DEF ArgPending
<1>3. \A o \in Ops : /\ Has(ops, o) <=> issued < o /\ o <= issued + n
                     /\ AtMostOnce(ops, o)
  <2>1. Len(ops) = n /\ \A i \in 1 .. n : ops[i] = issued + i
    BY <1>0
  <2> HIDE DEF ops
  <2> SUFFICES ASSUME NEW o \in Ops
               PROVE  (Has(ops, o) <=> issued < o /\ o <= issued + n) /\ AtMostOnce(ops, o)
    OBVIOUS
  <2>2. AtMostOnce(ops, o)
    BY <1>0, <2>1 DEF AtMostOnce
  <2>3. Has(ops, o) => issued < o /\ o <= issued + n
    BY <1>0, <2>1 DEF Has
  <2>4. ASSUME issued < o, o <= issued + n PROVE Has(ops, o)
    <3>1. o - issued \in 1 .. n /\ issued + (o - issued) = o
      BY <1>0, <2>4 DEF Ops
    <3> QED BY <2>1, <3>1 DEF Has
  <2> QED BY <2>2, <2>3, <2>4
<1>4. \A o \in Ops : /\ Live(o)' <=> Live(o) \/ Has(ops, o)
                     /\ Has(ops, o) => ~Live(o)
  BY <1>0, <1>3 DEF Live, EndedStarted, Ops
<1> HIDE DEF ops
<1>5. \A o \in Ops : AtMostOnce(ops, o) /\ ~(Has(ops, o) /\ Has(private_op_queue[c], o))
  BY <1>3, <1>4, PlaceFacts DEF OneHome
<1>6. /\ \A o \in Ops : /\ AtMostOnce(private_op_queue'[c], o) /\ AtMostOnce(arg'[c], o)
      /\ \A d \in Contexts \ {c} : private_op_queue'[d] = private_op_queue[d] /\ arg'[d] = arg[d]
  BY <1>0, <1>1, <1>2, <1>5, GivenFacts
<1>7. QueuedOnce'
  BY <1>0, <1>6 DEF QueuedOnce, LinkedOnce
<1>8. EndedStarted'
  BY <1>0 DEF EndedStarted
<1>9. \A p \in Places \ {Private(c), Argument(c)}, o \in Ops : Holds(p, o)' <=> Holds(p, o)
  BY <1>0, <1>6, Elsewhere DEF SameHandlers
<1>10. {Private(c), Argument(c)} \subseteq Places
  BY PlaceFacts
<1>11. \A p, q \in Places, o \in Ops :
            /\ ~Holds(Argument(c), o)
            /\ p = Private(c) /\ q = Argument(c) =>
                  /\ Holds(p, o)' \/ Holds(q, o)' <=> Holds(Private(c), o) \/ Has(ops, o)
                  /\ ~(Holds(p, o)' /\ Holds(q, o)')
  BY <1>0, <1>1, <1>2, <1>5, GivenPlaces
<1>12. \A o \in Ops, p \in Places : Holds(p, o) => Live(o)
  BY DEF OneHome
<1> HIDE DEF Private, Argument
<1>13. Moves({Private(c), Argument(c)})
  <2>1. \A o \in Ops, p, q \in {Private(c), Argument(c)} : Holds(p, o)' /\ Holds(q, o)' => p = q
    BY <1>10, <1>11
  <2>2. \A o \in Ops : (\E p \in {Private(c), Argument(c)} : Holds(p, o)')
                          <=> (\E q \in {Private(c), Argument(c)} : Holds(q, o)) \/ Has(ops, o)
    BY <1>10, <1>11
  <2>3. \A o \in Ops, p \in {Private(c), Argument(c)} :
           Holds(p, o)' => ~Live(o) \/ \E q \in {Private(c), Argument(c)} : Holds(q, o)
    BY <1>4, <2>2
  <2>4. \A o \in Ops : Live(o)' <=> \/ \E p \in {Private(c), Argument(c)} : Holds(p, o)'
                                    \/ Live(o) /\ ~ \E q \in {Private(c), Argument(c)} : Holds(q, o)
    BY <1>4, <1>10, <1>12, <2>2
  <2> QED BY <1>9, <1>10, <2>1, <2>3, <2>4 DEF Moves
<1> QED BY <1>7, <1>8, <1>13, Moved

\* shutdown() destroys what is queued or waits.
LEMMA OpsDestroyed ==
  ASSUME TypeOK, QueuedOnce, EndedStarted, OneHome, DestroyOps
  PROVE  QueuedOnce' /\ EndedStarted' /\ OneHome'
<1>0. /\ UNCHANGED <<issued, done, private_op_queue, arg>> /\ SameHandlers
      /\ op_queue_' = <<>> /\ io' = <<>> /\ timers' = {} /\ expired' = <<>>
      /\ destroyed' = destroyed \cup OpsIn(op_queue_) \cup AbandonedOps
  BY DEF DestroyOps, SameHandlers, Completing, local
<1>1. \A o \in Ops : o \in destroyed' <=> \/ o \in destroyed \/ o \in timers
                                          \/ Has(op_queue_, o) \/ Has(io, o) \/ Has(expired, o)
  BY <1>0 DEF AbandonedOps, OpsIn, Has
<1>2. {Queue, Io, Timers, Expired} \subseteq Places
  BY PlaceFacts
<1>3. \A o \in Ops : (\E q \in {Queue, Io, Timers, Expired} : Holds(q, o))
                        <=> Has(op_queue_, o) \/ Has(io, o) \/ o \in timers \/ Has(expired, o)
  BY PlaceFacts
<1>4. \A o \in Ops, p \in {Queue, Io, Timers, Expired} : ~Holds(p, o)'
  BY <1>0, PlaceFactsNext, NoneHas
<1>5. \A p \in Places \ {Queue, Io, Timers, Expired}, o \in Ops : Holds(p, o)' <=> Holds(p, o)
  BY <1>0, Elsewhere DEF SameHandlers
<1>6. \A o \in Ops : Live(o)' <=> Live(o) /\ ~ \E q \in {Queue, Io, Timers, Expired} : Holds(q, o)
  BY <1>0, <1>1, <1>3 DEF Live
<1>7. Moves({Queue, Io, Timers, Expired})
  BY <1>2, <1>4, <1>5, <1>6 DEF Moves
<1>8. QueuedOnce'
  BY <1>0, NoneHas DEF QueuedOnce, LinkedOnce
<1>9. EndedStarted'
  <2>1. \A o \in Ops : o \in destroyed' => o \in 1 .. issued
    BY <1>1, <1>2, <1>3 DEF OneHome, Live, EndedStarted
  <2>2. destroyed' \subseteq Ops
    BY <1>0 DEF TypeOK, TypeCounts, OpsIn, AbandonedOps
  <2> QED BY <1>0, <2>1, <2>2 DEF EndedStarted
<1> QED BY <1>7, <1>8, <1>9, Moved

\* A step that moves no operation.
LEMMA NothingMoved ==
  ASSUME TypeOK, QueuedOnce, EndedStarted, OneHome, SameHandlers,
         UNCHANGED <<issued, done, destroyed, op_queue_, io, timers, expired, private_op_queue, arg>>
  PROVE  QueuedOnce' /\ EndedStarted' /\ OneHome'
<1>1. \A o \in Ops : (Has(op_queue_', o) <=> Has(op_queue_, o)) /\ AtMostOnce(op_queue_', o)
  BY DEF QueuedOnce, LinkedOnce
<1>2. EndedStarted'
  BY DEF EndedStarted
<1> QED BY <1>1, <1>2, QueueKept

\* Every step keeps every live operation in its one place.
LEMMA HomeStep ==
  ASSUME IInv, HomeInv, [Next]_vars
  PROVE  HomeInv'
<1>0. /\ TypeOK /\ CurrentOperation /\ NestedInHandler
      /\ ArgPending /\ QueuedOnce /\ EndedStarted /\ OneHome
  BY DEF IInv, HomeInv
<1> DEFINE Kept == QueuedOnce' /\ EndedStarted' /\ OneHome'
<1> USE DEF shared, reactor, program, local
<1>1. ArgPending'
  BY <1>0, ArgStep
<1>2. ASSUME UNCHANGED <<issued, done, destroyed>> PROVE EndedStarted'
  BY <1>0, <1>2 DEF EndedStarted
<1>3. ASSUME NEW c \in Contexts,
             ReturnStopped(c) \/ Wait(c) \/ ReturnEmpty(c) \/ Reacquire(c) \/ ReturnPolled(c) \/
             HandlerEnds(c) \/ PerformNone(c) \/ Timeout(c)
      PROVE  Kept
  <2>1. UNCHANGED <<issued, done, destroyed, op_queue_, io, timers, expired, private_op_queue, arg>>
    BY <1>3 DEF ReturnStopped, Wait, ReturnEmpty, Reacquire, ReturnPolled, HandlerEnds,
       PerformNone, Timeout
  <2>2. SameHandlers
    BY <1>0, <1>3 DEF ReturnStopped, Return, Wait, WaitForEvent, ReturnEmpty, Reacquire,
       ReturnPolled, HandlerEnds, InHandler, PerformNone, Timeout, SameHandlers, Completing,
       TypeOK, TypeFrames
  <2> QED BY <1>0, <2>1, <2>2, NothingMoved
<1>4. ASSUME NEW c \in Contexts,
             Signal(c) \/ StopLocked(c) \/ AcquireGuard(c) \/ ReleaseGuard(c) \/ Stop(c) \/
             Restart(c) \/ (\E m \in Modes : Call(c, m))
      PROVE  Kept
  <2>1. UNCHANGED <<issued, done, destroyed, op_queue_, io, timers, expired, private_op_queue, arg>>
    BY <1>4 DEF Signal, StopLocked, AcquireGuard, ReleaseGuard, Stop, Restart, Call
  <2>2. SameHandlers
    BY <1>0, <1>4 DEF Signal, Waiting, StopLocked, StopAllThreads, AcquireGuard, ReleaseGuard,
       Stop, Restart, Call, SameHandlers, Completing, TypeOK, TypeFrames
  <2> QED BY <1>0, <2>1, <2>2, NothingMoved
<1>5. ASSUME Shutdown \/ Ready \/ UNCHANGED vars
      PROVE  Kept
  <2>1. UNCHANGED <<issued, done, destroyed, op_queue_, io, timers, expired, private_op_queue, arg>>
    BY <1>5 DEF Shutdown, Ready, vars
  <2>2. SameHandlers
    BY <1>5 DEF Shutdown, StopAllThreads, Ready, vars, SameHandlers, Completing
  <2> QED BY <1>0, <2>1, <2>2, NothingMoved
<1>6. ASSUME NEW c \in Contexts, TakeTask(c) \/ InitTask(c)
      PROVE  Kept
  <2>1. /\ UNCHANGED <<issued, done, destroyed, io, timers, expired, private_op_queue, arg>>
        /\ SameHandlers
    BY <1>0, <1>6 DEF TakeTask, Looking, Holding, InitTask, SameHandlers, Completing, TypeOK,
       TypeFrames
  <2>2. ASSUME NEW o \in Ops PROVE (Has(op_queue_', o) <=> Has(op_queue_, o)) /\ AtMostOnce(op_queue_', o)
    <3>1. /\ op_queue_ \in Seq(Queueable) /\ o # Task /\ AtMostOnce(op_queue_, o)
          /\ <<Task>> \in Seq(Queueable)
      BY <1>0 DEF TypeOK, TypeQueues, QueuedOnce, LinkedOnce, Ops, Task, Queueable
    <3>2. CASE TakeTask(c)
      <4>1. op_queue_ # <<>> /\ Head(op_queue_) = Task /\ op_queue_' = Tail(op_queue_)
        BY <3>2 DEF TakeTask, FrontIsTask
      <4> QED BY <3>1, <4>1, TailHas
    <3>3. CASE InitTask(c)
      <4>1. op_queue_' = op_queue_ \o <<Task>>
        BY <3>1, <3>3 DEF InitTask
      <4>2. ~Has(<<Task>>, o)
        BY <3>1, OneHas
      <4> QED BY <3>1, <4>1, <4>2, ConcatHas, ConcatOnce
    <3> QED BY <1>6, <3>2, <3>3
  <2> QED BY <1>0, <1>2, <2>1, <2>2, QueueKept
<1>7. ASSUME NEW c \in Contexts, Flush(c) \/ TaskCleanup(c)
      PROVE  Kept
  <2>1. /\ UNCHANGED <<issued, done, destroyed, io, timers, expired, arg>> /\ SameHandlers
        /\ private_op_queue' = [private_op_queue EXCEPT ![c] = <<>>]
        /\ \/ op_queue_' = op_queue_ \o private_op_queue[c]
           \/ op_queue_' = op_queue_ \o CompletedThenTask(c)
    BY <1>0, <1>7 DEF Flush, Return, TaskCleanup, SameHandlers, Completing, TypeOK, TypeFrames
  <2> QED BY <1>0, <1>2, <2>1, PrivateMoves
<1>8. ASSUME NEW c \in Contexts, Enter(c)
      PROVE  Kept
  <2>1. UNCHANGED <<issued, done, destroyed, io, timers, expired, arg>> /\ SameHandlers
    BY <1>0, <1>8 DEF Enter, SameHandlers, Completing, TypeOK, TypeFrames
  <2>2. CASE OneThread /\ Outer[c] # NoContext /\ mode[c] \in PollModes
    <3>1. /\ Outer[c] \in Contexts
          /\ private_op_queue' = [private_op_queue EXCEPT ![Outer[c]] = <<>>]
          /\ op_queue_' = op_queue_ \o private_op_queue[Outer[c]]
      BY <1>8, <2>2 DEF Enter, OuterTaken
    <3> QED BY <1>0, <1>2, <2>1, <3>1, PrivateMoves
  <2>3. CASE ~(OneThread /\ Outer[c] # NoContext /\ mode[c] \in PollModes)
    <3>1. UNCHANGED <<op_queue_, private_op_queue>>
      BY <1>8, <2>3 DEF Enter
    <3> QED BY <1>0, <2>1, <3>1, NothingMoved
  <2> QED BY <2>2, <2>3
<1>9. ASSUME NEW c \in Contexts, TakeHandler(c) \/ RunTask(c) \/ Push(c)
      PROVE  Kept
  <2>1. UNCHANGED <<issued, done, destroyed>>
    BY <1>9 DEF TakeHandler, RunTask, Push
  <2> QED BY <1>0, <1>2, <1>9, <2>1, HandlerTaken, ExpiredTaken, ArgumentMoves
<1>10. ASSUME NEW c \in Contexts, PerformIo(c) \/ CancelIo(c) \/ (\E o \in Ops : CancelTimer(c, o))
      PROVE  Kept
  <2>1. UNCHANGED <<issued, done, destroyed>>
    BY <1>10 DEF PerformIo, CancelIo, CancelTimer
  <2> QED BY <1>0, <1>2, <1>10, <2>1, IoPerformed, IoCancelled, TimerCancelled
<1>11. ASSUME NEW c \in Contexts, WorkCleanup(c) \/ StartIo(c) \/ ScheduleTimer(c)
      PROVE  Kept
  BY <1>0, <1>11, HandlerDone, WaitStarted
<1>12. ASSUME NEW c \in Contexts, NEW kind \in {"post", "continuation", "dispatch"},
              NEW n \in 1 .. MaxBatch, Post(c, kind, n)
       PROVE  Kept
  BY <1>0, <1>12, OpsPosted
<1>13. ASSUME NEW o \in Ops, Expire(o)
       PROVE  Kept
  <2>1. UNCHANGED <<issued, done, destroyed>>
    BY <1>13 DEF Expire
  <2> QED BY <1>0, <1>2, <1>13, <2>1, TimerExpired
<1>14. ASSUME DestroyOps
       PROVE  Kept
  BY <1>0, <1>14, OpsDestroyed
<1> HIDE DEF Kept
<1>15. Kept
  BY <1>3, <1>4, <1>5, <1>6, <1>7, <1>8, <1>9, <1>10, <1>11, <1>12, <1>13, <1>14
     DEF Next, Internal, ProgramCall
<1> QED BY <1>1, <1>15 DEF Kept, HomeInv

\* Nothing has been started.
LEMMA HomeInit == ASSUME Init PROVE HomeInv
<1>1. \A o \in Ops, p \in Places : ~Holds(p, o)
  BY NoneHas DEF Init, Holds, Places
<1>2. \A o \in Ops : ~Live(o)
  BY DEF Init, Live
<1>3. ArgPending /\ EndedStarted
  BY DEF Init, ArgPending, EndedStarted
<1>4. QueuedOnce
  BY NoneHas DEF Init, QueuedOnce, LinkedOnce
<1> QED BY <1>1, <1>2, <1>3, <1>4 DEF HomeInv, OneHome

\* The places of the operations are accounted for throughout.
THEOREM HomeInvariance == Spec => []HomeInv
<1>1. Init => HomeInv
  BY HomeInit
<1>2. IInv /\ HomeInv /\ [Next]_vars => HomeInv'
  BY HomeStep
<1> QED BY <1>1, <1>2, Invariance, PTL DEF Spec

\* No handler is lost and none runs twice: a started operation is linked in one place, once,
\* until its handler has run or shutdown() has destroyed it, and nowhere afterwards.
THEOREM HandlersOnce == Spec => []HandlerOnce
<1>1. IInv /\ HomeInv => HandlerOnce
  <2> SUFFICES ASSUME IInv, HomeInv, NEW o \in 1 .. issued
               PROVE  /\ LinkedOnce(o)
                      /\ \A p, q \in Places : Holds(p, o) /\ Holds(q, o) => p = q
                      /\ (\E p \in Places : Holds(p, o)) <=> o \notin done \cup destroyed
    BY DEF HandlerOnce
  <2>1. o \in Ops
    BY DEF IInv, TypeOK, TypeCounts, Ops
  <2>2. Live(o) <=> o \notin done \cup destroyed
    BY DEF Live
  <2> QED BY <2>1, <2>2 DEF HomeInv, QueuedOnce, OneHome
<1> QED BY <1>1, Invariance, HomeInvariance, PTL

-----------------------------------------------------------------------------
(* The count of outstanding work.                                          *)

WorkInv == IsFiniteSet(PrivateWork) /\ IsFiniteSet(Uncompleted) /\ WorkConserved

\* The units of work of one frame.
LEMMA FrameWork ==
  ASSUME NEW c, NEW n \in Nat
  PROVE  IsFiniteSet({c} \X (1 .. n)) /\ Cardinality({c} \X (1 .. n)) = n
<1>1. IsFiniteSet({c}) /\ Cardinality({c}) = 1
  BY FS_Singleton
<1>2. IsFiniteSet(1 .. n) /\ Cardinality(1 .. n) = n
  BY FS_Interval
<1>3. /\ IsFiniteSet({c} \X (1 .. n))
      /\ Cardinality({c} \X (1 .. n)) = Cardinality({c}) * Cardinality(1 .. n)
  BY <1>1, <1>2, FS_Product, Zenon
<1> QED BY <1>1, <1>2, <1>3

\* Disjoint finite sets.
LEMMA JoinedCount ==
  ASSUME NEW S, NEW T, IsFiniteSet(S), IsFiniteSet(T), S \cap T = {}
  PROVE  /\ IsFiniteSet(S \cup T) /\ Cardinality(S \cup T) = Cardinality(S) + Cardinality(T)
         /\ Cardinality(S) \in Nat /\ Cardinality(T) \in Nat
<1>1. /\ IsFiniteSet(S \cup T)
      /\ Cardinality(S \cup T) = Cardinality(S) + Cardinality(T) - Cardinality(S \cap T)
  BY FS_Union
<1>2. Cardinality(S \cap T) = 0
  BY FS_EmptySet
<1>3. Cardinality(S) \in Nat /\ Cardinality(T) \in Nat
  BY FS_CardinalityType
<1> QED BY <1>1, <1>2, <1>3

\* The private count of one frame changes.
LEMMA WorkCounted ==
  ASSUME TypeOK, IsFiniteSet(PrivateWork), NEW c \in Contexts, NEW n \in Nat,
         private_outstanding_work' = [private_outstanding_work EXCEPT ![c] = n]
  PROVE  /\ IsFiniteSet(PrivateWork') /\ Cardinality(PrivateWork) \in Nat
         /\ Cardinality(PrivateWork') = Cardinality(PrivateWork) - private_outstanding_work[c] + n
<1> DEFINE rest == UNION {{d} \X (1 .. private_outstanding_work[d]) : d \in Contexts \ {c}}
           before == {c} \X (1 .. private_outstanding_work[c])
           after == {c} \X (1 .. n)
<1>1. private_outstanding_work[c] \in Nat
  BY DEF TypeOK, TypeCounts
<1>2. /\ IsFiniteSet(before) /\ Cardinality(before) = private_outstanding_work[c]
      /\ IsFiniteSet(after) /\ Cardinality(after) = n
  BY <1>1, FrameWork
<1>3. PrivateWork = rest \cup before
  BY DEF PrivateWork
<1>4. PrivateWork' = rest \cup after
  <2>1. /\ private_outstanding_work'[c] = n
        /\ \A d \in Contexts \ {c} : private_outstanding_work'[d] = private_outstanding_work[d]
    BY DEF TypeOK, TypeCounts
  <2>2. PrivateWork' = UNION {{d} \X (1 .. private_outstanding_work'[d]) : d \in Contexts}
    BY DEF PrivateWork
  <2> QED BY <2>1, <2>2
<1>5. rest \cap before = {} /\ rest \cap after = {}
  <2>1. \A x \in rest : x[1] # c
    OBVIOUS
  <2>2. \A x \in before \cup after : x[1] = c
    OBVIOUS
  <2> HIDE DEF rest, before, after
  <2> QED BY <2>1, <2>2
<1> HIDE DEF rest, before, after
<1>6. IsFiniteSet(rest)
  BY <1>3, FS_Subset
<1>7. /\ Cardinality(PrivateWork) = Cardinality(rest) + Cardinality(before)
      /\ Cardinality(rest) \in Nat
  BY <1>2, <1>3, <1>5, <1>6, JoinedCount
<1>8. /\ IsFiniteSet(PrivateWork')
      /\ Cardinality(PrivateWork') = Cardinality(rest) + Cardinality(after)
  <2>1. /\ IsFiniteSet(rest \cup after)
        /\ Cardinality(rest \cup after) = Cardinality(rest) + Cardinality(after)
    BY <1>2, <1>5, <1>6, JoinedCount
  <2> QED BY <1>4, <2>1
<1> QED BY <1>1, <1>2, <1>7, <1>8

\* A step that changes no count.
LEMMA WorkSame ==
  ASSUME WorkInv, Uncompleted' = Uncompleted,
         UNCHANGED <<outstanding_work_, private_outstanding_work, issued, done, guards>>
  PROVE  WorkInv'
<1>1. PrivateWork' = PrivateWork
  BY DEF PrivateWork
<1> QED BY <1>1 DEF WorkInv, WorkConserved

\* Every step that changes one count changes another.
LEMMA WorkStep ==
  ASSUME IInv, HomeInv, WorkInv, [Next]_vars
  PROVE  WorkInv'
<1> USE DEF shared, reactor, program, local
<1> DEFINE own == IF OwnThread = NoContext THEN 0 ELSE 1
<1>0. /\ TypeOK /\ IsFiniteSet(PrivateWork) /\ IsFiniteSet(Uncompleted)
      /\ outstanding_work_ \in Int /\ issued \in Nat /\ guards \in Nat
      /\ Cardinality(PrivateWork) \in Nat /\ Cardinality(Uncompleted) \in Nat
      /\ IsFiniteSet(done) /\ Cardinality(done) \in Nat /\ own \in Nat
      /\ outstanding_work_ + Cardinality(PrivateWork)
            = (issued - Cardinality(done)) + guards + own + Cardinality(Uncompleted)
  <2>1. IsFiniteSet(Ops) /\ done \subseteq Ops
    BY FS_Interval DEF Ops, IInv, TypeOK, TypeCounts
  <2>2. IsFiniteSet(done)
    BY <2>1, FS_Subset
  <2> QED BY <2>2, FS_CardinalityType DEF IInv, TypeOK, TypeCounts, WorkInv, WorkConserved
<1> HIDE DEF own
<1>1. ASSUME IsFiniteSet(PrivateWork'), IsFiniteSet(Uncompleted'),
             outstanding_work_' + Cardinality(PrivateWork')
               = (issued' - Cardinality(done')) + guards' + own + Cardinality(Uncompleted')
      PROVE  WorkInv'
  BY <1>1 DEF WorkInv, WorkConserved, own
<1>2. ASSUME UNCHANGED private_outstanding_work PROVE PrivateWork' = PrivateWork
  BY <1>2 DEF PrivateWork
<1>3. ASSUME NEW c \in Contexts,
             Enter(c) \/ ReturnStopped(c) \/ Wait(c) \/ ReturnEmpty(c) \/ Reacquire(c) \/ Timeout(c)
             \/ TakeTask(c) \/ RunTask(c) \/ ReturnPolled(c) \/ TakeHandler(c) \/ Flush(c)
      PROVE  WorkInv'
  <2>1. UNCHANGED <<outstanding_work_, private_outstanding_work, issued, done, guards>>
    BY <1>3 DEF Enter, ReturnStopped, Wait, ReturnEmpty, Reacquire, Timeout, TakeTask, RunTask,
       ReturnPolled, TakeHandler, Flush
  <2>2. /\ pc[c] # "cleanup" /\ pc'[c] # "cleanup"
        /\ \A d \in Contexts \ {c} : pc'[d] = pc[d] /\ cur'[d] = cur[d]
    BY <1>0, <1>3 DEF Enter, ReturnStopped, Return, Wait, WaitForEvent, ReturnEmpty, Reacquire,
       Timeout, TakeTask, Looking, Holding, RunTask, ReturnPolled, TakeHandler, Flush, TypeOK,
       TypeFrames
  <2>3. Uncompleted' = Uncompleted
    BY <2>2 DEF Uncompleted
  <2> QED BY <2>1, <2>3, WorkSame
<1>4. ASSUME NEW c \in Contexts,
             PerformIo(c) \/ HandlerEnds(c) \/ Signal(c) \/ Push(c) \/ StopLocked(c) \/ InitTask(c)
             \/ CancelIo(c) \/ Stop(c) \/ Restart(c) \/ (\E m \in Modes : Call(c, m))
             \/ (\E o \in Ops : CancelTimer(c, o))
      PROVE  WorkInv'
  <2>1. UNCHANGED <<outstanding_work_, private_outstanding_work, issued, done, guards>>
    BY <1>4 DEF PerformIo, HandlerEnds, Signal, Push, StopLocked, InitTask, CancelIo, Stop,
       Restart, Call, CancelTimer
  <2>2. Uncompleted' = Uncompleted
    <3>1. CASE PerformIo(c)
      <4>1. /\ pc' = pc /\ pc[c] = "handler"
            /\ \A d \in Contexts \ {c} : cur'[d] = cur[d]
        BY <1>0, <3>1 DEF PerformIo, TypeOK, TypeFrames
      <4> QED BY <4>1 DEF Uncompleted
    <3>2. CASE HandlerEnds(c)
      <4>1. /\ cur' = cur /\ cur[c] # Desc
            /\ \A d \in Contexts \ {c} : pc'[d] = pc[d]
        BY <1>0, <3>2 DEF HandlerEnds, InHandler, TypeOK, TypeFrames
      <4> QED BY <4>1 DEF Uncompleted
    <3>3. CASE Signal(c) \/ Push(c) \/ StopLocked(c)
      <4>1. cur' = cur /\ \A d \in Contexts : pc'[d] = "cleanup" <=> pc[d] = "cleanup"
        BY <1>0, <3>3 DEF Signal, Waiting, Push, StopLocked, StopAllThreads, TypeOK, TypeFrames
      <4> QED BY <4>1 DEF Uncompleted
    <3>4. CASE \E m \in Modes : Call(c, m)
      <4>1. /\ cur' = cur /\ pc'[c] # "cleanup" /\ pc[c] # "cleanup"
            /\ \A d \in Contexts \ {c} : pc'[d] = pc[d]
        BY <1>0, <3>4 DEF Call, TypeOK, TypeFrames
      <4> QED BY <4>1 DEF Uncompleted
    <3>5. CASE InitTask(c) \/ CancelIo(c) \/ Stop(c) \/ Restart(c) \/ (\E o \in Ops : CancelTimer(c, o))
      <4>1. UNCHANGED <<pc, cur>>
        BY <3>5 DEF InitTask, CancelIo, Stop, Restart, CancelTimer
      <4> QED BY <4>1 DEF Uncompleted
    <3> QED BY <1>4, <3>1, <3>2, <3>3, <3>4, <3>5
  <2> QED BY <2>1, <2>2, WorkSame
<1>5. ASSUME Shutdown \/ DestroyOps \/ Ready \/ (\E o \in Ops : Expire(o)) \/ UNCHANGED vars
      PROVE  WorkInv'
  <2>1. UNCHANGED <<outstanding_work_, private_outstanding_work, issued, done, guards>>
    BY <1>5 DEF Shutdown, DestroyOps, Ready, Expire, vars
  <2>2. \A d \in Contexts : pc'[d] = "cleanup" /\ cur'[d] = Desc <=> pc[d] = "cleanup" /\ cur[d] = Desc
    BY <1>5 DEF Shutdown, StopAllThreads, DestroyOps, Ready, Expire, vars
  <2>3. Uncompleted' = Uncompleted
    BY <2>2 DEF Uncompleted
  <2> QED BY <2>1, <2>3, WorkSame
<1>6. ASSUME NEW c \in Contexts, StartIo(c) \/ ScheduleTimer(c) \/ AcquireGuard(c) \/ ReleaseGuard(c)
      PROVE  WorkInv'
  <2>1. UNCHANGED <<private_outstanding_work, done, pc, cur>>
    BY <1>6 DEF StartIo, ScheduleTimer, AcquireGuard, ReleaseGuard
  <2>2. \/ outstanding_work_' = outstanding_work_ + 1 /\ issued' = issued + 1 /\ guards' = guards
        \/ outstanding_work_' = outstanding_work_ + 1 /\ issued' = issued /\ guards' = guards + 1
        \/ outstanding_work_' = outstanding_work_ - 1 /\ issued' = issued /\ guards' = guards - 1
    BY <1>6 DEF StartIo, ScheduleTimer, AcquireGuard, ReleaseGuard
  <2>3. Uncompleted' = Uncompleted /\ PrivateWork' = PrivateWork
    BY <1>2, <2>1 DEF Uncompleted
  <2> QED BY <1>0, <1>1, <2>1, <2>2, <2>3
<1>7. ASSUME NEW c \in Contexts, TaskCleanup(c)
      PROVE  WorkInv'
  <2>1. /\ UNCHANGED <<issued, done, guards, cur>>
        /\ outstanding_work_' = outstanding_work_ + private_outstanding_work[c]
        /\ private_outstanding_work' = [private_outstanding_work EXCEPT ![c] = 0]
        /\ private_outstanding_work[c] \in Nat
    BY <1>0, <1>7 DEF TaskCleanup, TypeOK, TypeCounts
  <2>2. /\ pc[c] # "cleanup" /\ pc'[c] # "cleanup"
        /\ \A d \in Contexts \ {c} : pc'[d] = pc[d]
    BY <1>0, <1>7 DEF TaskCleanup, TypeOK, TypeFrames
  <2>3. Uncompleted' = Uncompleted
    BY <2>1, <2>2 DEF Uncompleted
  <2>4. /\ IsFiniteSet(PrivateWork')
        /\ Cardinality(PrivateWork') = Cardinality(PrivateWork) - private_outstanding_work[c] + 0
    BY <1>0, <2>1, WorkCounted
  <2> QED BY <1>0, <1>1, <2>1, <2>3, <2>4
<1>8. ASSUME NEW c \in Contexts, PerformNone(c)
      PROVE  WorkInv'
  <2>1. /\ UNCHANGED <<outstanding_work_, issued, done, guards, cur>>
        /\ private_outstanding_work' =
              [private_outstanding_work EXCEPT ![c] = private_outstanding_work[c] + 1]
        /\ private_outstanding_work[c] \in Nat
    BY <1>0, <1>8 DEF PerformNone, CompensatingWorkStarted, TypeOK, TypeCounts
  <2>2. /\ pc[c] # "cleanup" /\ pc'[c] = "cleanup" /\ cur[c] = Desc
        /\ \A d \in Contexts \ {c} : pc'[d] = pc[d]
    BY <1>0, <1>8 DEF PerformNone, TypeOK, TypeFrames
  <2>3. Uncompleted' = Uncompleted \cup {c} /\ c \notin Uncompleted
    BY <2>1, <2>2 DEF Uncompleted
  <2>4. IsFiniteSet(Uncompleted') /\ Cardinality(Uncompleted') = Cardinality(Uncompleted) + 1
    BY <1>0, <2>3, FS_AddElement
  <2>5. /\ IsFiniteSet(PrivateWork')
        /\ Cardinality(PrivateWork') = Cardinality(PrivateWork) - private_outstanding_work[c]
                                         + (private_outstanding_work[c] + 1)
    <3>1. PICK k \in Nat : k = private_outstanding_work[c] + 1
      BY <2>1
    <3> QED BY <1>0, <2>1, <3>1, WorkCounted
  <2> QED BY <1>0, <1>1, <2>1, <2>4, <2>5
<1>9. ASSUME NEW c \in Contexts, WorkCleanup(c)
      PROVE  WorkInv'
  <2> DEFINE n == private_outstanding_work[c]
  <2>1. /\ UNCHANGED <<issued, guards>>
        /\ outstanding_work_' = outstanding_work_ + (n - 1)
        /\ private_outstanding_work' = [private_outstanding_work EXCEPT ![c] = 0] /\ n \in Nat
        /\ done' = IF cur[c] = Desc THEN done ELSE done \cup {cur[c]}
    BY <1>0, <1>9 DEF WorkCleanup, CleanupDelta, TypeOK, TypeCounts
  <2>2. /\ pc[c] = "cleanup" /\ pc'[c] = "flush"
        /\ \A d \in Contexts \ {c} : pc'[d] = pc[d] /\ cur'[d] = cur[d]
    BY <1>0, <1>9 DEF WorkCleanup, TypeOK, TypeFrames
  <2>3. IsFiniteSet(PrivateWork') /\ Cardinality(PrivateWork') = Cardinality(PrivateWork) - n + 0
    BY <1>0, <2>1, WorkCounted
  <2> HIDE DEF n
  <2>4. CASE cur[c] = Desc
    <3>1. Uncompleted' = Uncompleted \ {c} /\ c \in Uncompleted
      BY <2>2, <2>4 DEF Uncompleted
    <3>2. IsFiniteSet(Uncompleted') /\ Cardinality(Uncompleted') = Cardinality(Uncompleted) - 1
      BY <1>0, <3>1, FS_RemoveElement
    <3> QED BY <1>0, <1>1, <2>1, <2>3, <2>4, <3>2
  <2>5. CASE cur[c] # Desc
    <3>1. Uncompleted' = Uncompleted
      BY <2>2, <2>5 DEF Uncompleted
    <3>2. cur[c] \in Ops
      BY <1>0, <2>2, <2>5 DEF IInv, CurrentOperation, TypeOK, TypeFrames
    <3>3. cur[c] \notin done
      <4>1. Holds(Handler(c), cur[c]) /\ Handler(c) \in Places
        BY <2>2, PlaceFacts DEF Completing
      <4> QED BY <3>2, <4>1 DEF HomeInv, OneHome, Live
    <3>4. Cardinality(done') = Cardinality(done) + 1
      BY <1>0, <2>1, <2>5, <3>3, FS_AddElement
    <3> QED BY <1>0, <1>1, <2>1, <2>3, <3>1, <3>4
  <2> QED BY <2>4, <2>5
<1>10. ASSUME NEW c \in Contexts, NEW kind \in {"post", "continuation", "dispatch"},
              NEW n \in 1 .. MaxBatch, Post(c, kind, n)
       PROVE  WorkInv'
  <2>1. /\ UNCHANGED <<done, guards, pc, cur>> /\ issued' = issued + n
        /\ n \in Nat /\ private_outstanding_work[c] \in Nat
    BY <1>0, <1>10 DEF Post, TypeOK, TypeCounts
  <2>2. \/ /\ private_outstanding_work' =
                [private_outstanding_work EXCEPT ![c] = private_outstanding_work[c] + n]
           /\ outstanding_work_' = outstanding_work_
        \/ /\ private_outstanding_work' = private_outstanding_work
           /\ outstanding_work_' = outstanding_work_ + n
    BY <1>10, Zenon DEF Post
  <2>3. Uncompleted' = Uncompleted
    BY <2>1 DEF Uncompleted
  <2>4. CASE /\ private_outstanding_work' =
                   [private_outstanding_work EXCEPT ![c] = private_outstanding_work[c] + n]
             /\ outstanding_work_' = outstanding_work_
    <3>1. /\ IsFiniteSet(PrivateWork')
          /\ Cardinality(PrivateWork') = Cardinality(PrivateWork) - private_outstanding_work[c]
                                           + (private_outstanding_work[c] + n)
      <4>1. PICK k \in Nat : k = private_outstanding_work[c] + n
        BY <2>1
      <4> QED BY <1>0, <2>1, <2>4, <4>1, WorkCounted
    <3> QED BY <1>0, <1>1, <2>1, <2>3, <2>4, <3>1
  <2>5. CASE /\ private_outstanding_work' = private_outstanding_work
             /\ outstanding_work_' = outstanding_work_ + n
    <3>1. PrivateWork' = PrivateWork
      BY <1>2, <2>5
    <3> QED BY <1>0, <1>1, <2>1, <2>3, <2>5, <3>1
  <2> QED BY <2>2, <2>4, <2>5
<1> QED
  BY <1>3, <1>4, <1>5, <1>6, <1>7, <1>8, <1>9, <1>10 DEF Next, Internal, ProgramCall

\* The count with which a scheduler is constructed.
LEMMA WorkInit == ASSUME Init PROVE WorkInv
<1>1. PrivateWork = {} /\ Uncompleted = {}
  BY DEF Init, PrivateWork, Uncompleted
<1>2. IsFiniteSet({}) /\ Cardinality({}) = 0
  BY FS_EmptySet
<1> QED BY <1>1, <1>2 DEF Init, WorkInv, WorkConserved

\* The counts and the sets counted, inductively.
THEOREM WorkInvariance == Spec => []WorkInv
<1>1. Init => WorkInv
  BY WorkInit
<1>2. IInv /\ HomeInv /\ WorkInv /\ [Next]_vars => WorkInv'
  BY WorkStep
<1> QED BY <1>1, <1>2, Invariance, HomeInvariance, PTL DEF Spec

\* outstanding_work_ and the private counts together are exactly the operations that have not
\* completed, the work guards and the scheduler's own thread, so neither a run function that
\* returns early nor one that never returns can come from a miscount.
THEOREM WorkIsConserved == Spec => []WorkConserved
<1>1. WorkInv => WorkConserved
  BY DEF WorkInv
<1> QED BY <1>1, WorkInvariance, PTL

-----------------------------------------------------------------------------
(* Who can stop the scheduler.                                             *)

\* One thread runs the scheduler and calls it, in frames nested in each other, and does
\* not ask it to stop.
OneRunner ==
    /\ "stop" \notin Uses /\ OwnThread = NoContext
    /\ \A c, d \in Contexts : Outer[c] = NoContext /\ Outer[d] = NoContext => c = d

Active(c) == pc[c] # "idle" \/ pend[c] # "none"
Actives == {c \in Contexts : Active(c)}

\* What is active lies in a handler that waits for it, and has nobody beside it.
ActiveNested ==
    \A c \in Contexts : Active(c) /\ Outer[c] # NoContext
        => /\ InHandler(Outer[c]) /\ pend[Outer[c]] = "none"
           /\ \A d \in Contexts : Active(d) /\ Outer[d] = Outer[c] => d = c

\* The frames lie on a stack: going outwards from any set of them leaves it.
Grounded == \A F \in SUBSET Actives : F # {} => \E c \in F : Outer[c] \notin F

\* It has one top.
Top(c) == Active(c) /\ \A d \in Contexts : Outer[d] = c => ~Active(d)
OneTop == \A c, d \in Contexts : Top(c) /\ Top(d) => c = d

StackInv == ActiveNested /\ Grounded /\ OneTop

\* A frame counts privately while it completes an operation; stop() is called when there is
\* no work, and before anything else happens.
StopInv ==
    \A c \in Contexts :
        /\ private_outstanding_work[c] > 0 => InHandler(c) \/ pc[c] = "cleanup"
        /\ pc[c] = "cleanup" => pend[c] = "none"
        /\ pend[c] = "stop" => outstanding_work_ = 0 /\ pc[c] \in {"idle", "flush", "handler"}

\* What a frame's step leaves of the others, and who can take one.
OthersStay(c) ==
    \A d \in Contexts \ {c} :
        /\ pend'[d] = pend[d] /\ cur'[d] = cur[d]
        /\ private_outstanding_work'[d] = private_outstanding_work[d]
        /\ pc'[d] = pc[d] \/ (pc[d] = "wait" /\ pc'[d] = "woken")
NoneInside(c) == \A d \in Contexts : Outer[d] = c => ~Active(d)
Begins(c) == ~Active(c) /\ (Outer[c] # NoContext => InHandler(Outer[c]) /\ Innermost(Outer[c]))

LEMMA Inside ==
  ASSUME ActiveNested, NEW c \in Contexts, ~InHandler(c) \/ pend[c] # "none" \/ Innermost(c)
  PROVE  NoneInside(c)
BY DEF ActiveNested, NoneInside, Innermost, Active

LEMMA FrameStep ==
  ASSUME TypeOK, ActiveNested, NEW c \in Contexts, Internal(c) \/ ProgramCall(c) \/ Timeout(c)
  PROVE  OthersStay(c) /\ NoneInside(c) /\ (Active(c) \/ Begins(c))
<1> USE DEF shared, reactor, program, local, InHandler, Active
<1>1. CASE Enter(c) \/ ReturnStopped(c) \/ Wait(c) \/ ReturnEmpty(c) \/ Reacquire(c)
             \/ TakeTask(c) \/ RunTask(c)
  <2>1. OthersStay(c)
    BY <1>1 DEF Enter, ReturnStopped, Return, Wait, WaitForEvent, ReturnEmpty, Reacquire, TakeTask,
       RunTask, TypeOK, TypeFrames, TypeCounts, OthersStay
  <2>2. pc[c] \notin {"handler", "idle"}
    BY <1>1 DEF Enter, ReturnStopped, Wait, ReturnEmpty, Reacquire, TakeTask, Looking, Holding, RunTask
  <2> QED BY <2>1, <2>2, Inside
<1>2. CASE TaskCleanup(c) \/ ReturnPolled(c) \/ TakeHandler(c) \/ WorkCleanup(c) \/ Flush(c)
             \/ Timeout(c)
  <2>1. OthersStay(c)
    BY <1>2 DEF TaskCleanup, ReturnPolled, Return, TakeHandler, PassOnWakeUp, WakeOne, WakeNone,
       WorkCleanup, Flush, Timeout, TypeOK, TypeFrames, TypeCounts, OthersStay
  <2>2. pc[c] \notin {"handler", "idle"}
    BY <1>2 DEF TaskCleanup, ReturnPolled, TakeHandler, Looking, Holding, WorkCleanup, Flush, Timeout
  <2> QED BY <2>1, <2>2, Inside
<1>3. CASE PerformNone(c) \/ PerformIo(c)
  <2>1. OthersStay(c)
    BY <1>3 DEF PerformNone, CompensatingWorkStarted, PerformIo, PostDeferred, TypeOK, TypeFrames,
       TypeCounts, OthersStay
  <2>2. pc[c] = "handler" /\ ~InHandler(c)
    BY <1>3 DEF PerformNone, PerformIo
  <2> QED BY <2>1, <2>2, Inside
<1>4. CASE HandlerEnds(c)
  <2>1. OthersStay(c)
    BY <1>4 DEF HandlerEnds, TypeOK, TypeFrames, TypeCounts, OthersStay
  <2> QED BY <1>4, <2>1, Inside DEF HandlerEnds
<1>5. CASE Signal(c) \/ Push(c) \/ StopLocked(c)
  <2>1. OthersStay(c)
    BY <1>5 DEF Signal, Waiting, Push, WakeOne, StopLocked, StopAllThreads, TypeOK, TypeFrames,
       TypeCounts, OthersStay
  <2>2. pend[c] # "none"
    BY <1>5 DEF Signal, Push, StopLocked
  <2> QED BY <2>1, <2>2, Inside
<1>6. ASSUME NEW m \in Modes, Call(c, m) PROVE OthersStay(c) /\ NoneInside(c) /\ (Active(c) \/ Begins(c))
  <2>1. OthersStay(c)
    BY <1>6 DEF Call, TypeOK, TypeFrames, TypeCounts, OthersStay
  <2> QED BY <1>6, <2>1, Inside DEF Call, Begins
<1>7. CASE InitTask(c) \/ StartIo(c) \/ ScheduleTimer(c) \/ CancelIo(c) \/ AcquireGuard(c)
             \/ ReleaseGuard(c) \/ Stop(c) \/ Restart(c) \/ (\E o \in Ops : CancelTimer(c, o))
             \/ (\E kind \in {"post", "continuation", "dispatch"}, n \in 1 .. MaxBatch : Post(c, kind, n))
  <2>1. OthersStay(c)
    BY <1>7 DEF InitTask, StartIo, ScheduleTimer, CancelIo, CancelTimer, PostDeferred, AcquireGuard,
       ReleaseGuard, Stop, Restart, Post, TypeOK, TypeFrames, TypeCounts, OthersStay
  <2>2. MayCall(c)
    BY <1>7 DEF InitTask, StartIo, ScheduleTimer, CancelIo, CancelTimer, AcquireGuard, ReleaseGuard,
       Stop, Restart, Post
  <2> QED BY <2>1, <2>2, Inside DEF MayCall, Begins
<1> QED BY <1>1, <1>2, <1>3, <1>4, <1>5, <1>6, <1>7 DEF Internal, ProgramCall

\* A frame without an outer one that begins finds nothing under way.
LEMMA Alone ==
  ASSUME OneRunner, ActiveNested, Grounded, NEW c \in Contexts, ~Active(c), Outer[c] = NoContext
  PROVE  Actives = {}
<1> SUFFICES ASSUME Actives # {} PROVE FALSE
  OBVIOUS
<1>1. PICK d \in Actives : Outer[d] \notin Actives
  BY DEF Grounded
<1>2. Outer[d] # NoContext
  BY <1>1 DEF OneRunner, Actives
<1>3. InHandler(Outer[d]) /\ Outer[d] \in Contexts
  BY <1>1, <1>2 DEF ActiveNested, Actives
<1> QED BY <1>1, <1>3 DEF Actives, Active, InHandler

LEMMA StackStep ==
  ASSUME TypeOK, OneRunner, StackInv, NEW c \in Contexts, OthersStay(c), NoneInside(c),
         Active(c) \/ Begins(c)
  PROVE  StackInv'
<1>1. ActiveNested /\ Grounded /\ OneTop
  BY DEF StackInv
<1>2. \A d \in Contexts \ {c} : (Active(d)' <=> Active(d)) /\ (InHandler(d) => InHandler(d)')
  BY DEF OthersStay, Active, InHandler
<1>3. \A d \in Contexts : Active(d)' => Outer[d] # c
  <2> SUFFICES ASSUME NEW d \in Contexts, Active(d)', Outer[d] = c PROVE FALSE
    OBVIOUS
  <2>1. ~Active(d)
    BY DEF NoneInside
  <2>2. d = c
    BY <1>2, <2>1
  <2>3. c # NoContext /\ InHandler(c)
    BY <2>1, <2>2 DEF Begins
  <2> QED BY <2>1, <2>2, <2>3 DEF InHandler, Active
<1>4. Actives' \subseteq Actives \cup {c} /\ c \in Contexts
  BY <1>2 DEF Actives
<1>5. \A d \in Contexts : Active(d)' /\ Outer[d] # NoContext
        => /\ InHandler(Outer[d]) /\ pend[Outer[d]] = "none"
           /\ \A e \in Contexts : Active(e)' /\ Outer[e] = Outer[d] => e = d
  <2> SUFFICES ASSUME NEW d \in Contexts, Active(d)', Outer[d] # NoContext
               PROVE  /\ InHandler(Outer[d]) /\ pend[Outer[d]] = "none"
                      /\ \A e \in Contexts : Active(e)' /\ Outer[e] = Outer[d] => e = d
    OBVIOUS
  <2>1. CASE Active(d)
    <3>1. /\ InHandler(Outer[d]) /\ pend[Outer[d]] = "none"
          /\ \A e \in Contexts : Active(e) /\ Outer[e] = Outer[d] => e = d
      BY <1>1, <2>1 DEF ActiveNested
    <3>2. ASSUME NEW e \in Contexts, Active(e)', Outer[e] = Outer[d], ~Active(e) PROVE FALSE
      <4>1. e = c /\ Begins(c)
        BY <1>2, <3>2
      <4>2. ~Active(d)
        BY <3>2, <4>1 DEF Begins, Innermost, Active
      <4> QED BY <2>1, <4>2
    <3> QED BY <3>1, <3>2
  <2>2. CASE ~Active(d)
    <3>1. d = c /\ Begins(c)
      BY <1>2, <2>2
    <3>2. InHandler(Outer[c]) /\ Innermost(Outer[c])
      BY <3>1 DEF Begins
    <3>3. \A e \in Contexts \ {c} : Outer[e] = Outer[c] => ~Active(e)'
      BY <1>2, <3>2 DEF Innermost, Active
    <3> QED BY <3>1, <3>2, <3>3 DEF Innermost
  <2> QED BY <2>1, <2>2
<1>6. ActiveNested'
  <2> SUFFICES ASSUME NEW d \in Contexts, Active(d)', Outer[d] # NoContext
               PROVE  InHandler(Outer[d])' /\ pend'[Outer[d]] = "none"
    BY <1>5 DEF ActiveNested
  <2>1. Outer[d] \in Contexts \ {c} /\ InHandler(Outer[d]) /\ pend[Outer[d]] = "none"
    BY <1>3, <1>5
  <2> QED BY <1>2, <2>1 DEF OthersStay
<1>7. Grounded'
  <2> SUFFICES ASSUME NEW F \in SUBSET Actives', F # {} PROVE \E d \in F : Outer[d] \notin F
    BY DEF Grounded
  <2>1. CASE F \subseteq {c}
    BY <1>3, <2>1 DEF Actives
  <2>2. CASE ~(F \subseteq {c})
    <3>1. F \ {c} \in SUBSET Actives /\ F \ {c} # {}
      BY <1>4, <2>2
    <3>2. PICK d \in F \ {c} : Outer[d] \notin F \ {c}
      BY <1>1, <3>1 DEF Grounded
    <3>3. Outer[d] # c
      BY <1>3, <3>2 DEF Actives
    <3> QED BY <3>2, <3>3
  <2> QED BY <2>1, <2>2
<1>8. OneTop'
  <2> SUFFICES ASSUME NEW d \in Contexts, NEW e \in Contexts, Top(d)', Top(e)' PROVE d = e
    BY DEF OneTop
  <2>1. CASE Active(c)
    <3>1. Top(c)
      BY <2>1 DEF Top, NoneInside
    <3>2. ASSUME NEW f \in Contexts \ {c}, Top(f)' PROVE f = Outer[c] /\ ~Active(c)'
      <4>1. Active(f) /\ ~Top(f)
        BY <1>1, <1>2, <3>1, <3>2 DEF OneTop, Top
      <4>2. PICK g \in Contexts : Outer[g] = f /\ Active(g)
        BY <4>1 DEF Top
      <4>3. ~Active(g)'
        BY <3>2, <4>2 DEF Top
      <4> QED BY <1>2, <4>2, <4>3
    <3> QED BY <3>2 DEF Top
  <2>2. CASE Begins(c) /\ Outer[c] = NoContext
    <3>1. Actives = {}
      BY <1>1, <2>2, Alone DEF Begins
    <3>2. Actives' \subseteq {c}
      BY <1>4, <3>1
    <3> QED BY <3>2 DEF Top, Actives
  <2>3. CASE Begins(c) /\ Outer[c] # NoContext
    <3>1. InHandler(Outer[c]) /\ Innermost(Outer[c]) /\ Outer[c] \in Contexts
      BY <2>3 DEF Begins
    <3>2. Top(Outer[c])
      BY <3>1 DEF Top, Innermost, Active, InHandler
    <3>3. ASSUME NEW f \in Contexts \ {c}, Top(f)' PROVE f = Outer[c] /\ ~Active(c)'
      <4>1. Active(f) /\ \A g \in Contexts \ {c} : Outer[g] = f => ~Active(g)
        BY <1>2, <3>3 DEF Top
      <4>2. Top(f)
        BY <2>3, <4>1 DEF Top, Begins
      <4>3. f = Outer[c]
        BY <1>1, <3>1, <3>2, <4>2 DEF OneTop
      <4> QED BY <3>3, <4>3 DEF Top
    <3> QED BY <3>3 DEF Top
  <2> QED BY <2>1, <2>2, <2>3
<1> QED BY <1>6, <1>7, <1>8 DEF StackInv

LEMMA StackKept == ASSUME StackInv, UNCHANGED <<pc, pend, cur>> PROVE StackInv'
BY DEF StackInv, ActiveNested, Grounded, OneTop, Top, Actives, Active, InHandler

\* While a frame is about to stop the scheduler nobody else's step changes the count.
LEMMA Undisturbed ==
  ASSUME TypeOK, OneRunner, StackInv, NEW c \in Contexts, Internal(c) \/ ProgramCall(c) \/ Timeout(c),
         NEW d \in Contexts \ {c}, pend[d] = "stop"
  PROVE  outstanding_work_' = outstanding_work_
<1>1. ActiveNested /\ Grounded /\ OneTop
  BY DEF StackInv
<1>2. NoneInside(c) /\ (Active(c) \/ Begins(c))
  BY <1>1, FrameStep
<1>3. Active(d) /\ NoneInside(d)
  BY <1>1, Inside DEF Active
<1>4. ~Active(c)
  BY <1>1, <1>2, <1>3 DEF OneTop, Top, NoneInside
<1>5. Outer[c] # NoContext
  BY <1>1, <1>3, <1>4, Alone DEF Actives
<1>6. pc[c] = "idle" /\ pend[c] = "none" /\ ~MayCall(c)
  BY <1>4, <1>5 DEF Active, MayCall, InHandler
<1>7. ~Internal(c) /\ ~Timeout(c)
  BY <1>6 DEF Internal, Timeout, Enter, ReturnStopped, Wait, ReturnEmpty, Reacquire, TakeTask, Looking,
     Holding, RunTask, TaskCleanup, ReturnPolled, TakeHandler, PerformNone, PerformIo, HandlerEnds,
     InHandler, WorkCleanup, Flush, Signal, Push, StopLocked
<1>8. \E m \in Modes : Call(c, m)
  BY <1>6, <1>7 DEF ProgramCall, InitTask, StartIo, ScheduleTimer, CancelIo, CancelTimer,
     AcquireGuard, ReleaseGuard, Stop, Restart, Post
<1> QED BY <1>8 DEF Call, shared

LEMMA StopStep ==
  ASSUME TypeOK, OneRunner, StackInv, StopInv, NEW c \in Contexts,
         Internal(c) \/ ProgramCall(c) \/ Timeout(c)
  PROVE  StopInv'
<1> DEFINE Right(d) == /\ private_outstanding_work[d] > 0 => InHandler(d) \/ pc[d] = "cleanup"
                       /\ pc[d] = "cleanup" => pend[d] = "none"
                       /\ pend[d] = "stop" => /\ outstanding_work_ = 0
                                              /\ pc[d] \in {"idle", "flush", "handler"}
<1>1. OthersStay(c)
  BY FrameStep DEF StackInv
<1>2. ASSUME NEW d \in Contexts \ {c} PROVE Right(d)'
  <2>1. Right(d)
    BY DEF StopInv
  <2>2. pend[d] = "stop" => outstanding_work_' = outstanding_work_
    BY Undisturbed
  <2> QED BY <1>1, <2>1, <2>2 DEF OthersStay, InHandler
<1>3. Right(c)'
  <2>0. Right(c) /\ private_outstanding_work[c] \in Nat /\ pend[c] \in {"none", "signal", "push", "stop"}
    BY DEF StopInv, TypeOK, TypeCounts, TypeFrames
  <2> USE DEF shared, reactor, program, local, InHandler
  <2>1. CASE Enter(c) \/ ReturnStopped(c) \/ Wait(c) \/ ReturnEmpty(c) \/ Reacquire(c)
               \/ TakeTask(c) \/ RunTask(c)
    BY <2>0, <2>1 DEF Enter, ReturnStopped, Return, Wait, WaitForEvent, ReturnEmpty, Reacquire, TakeTask,
       Looking, Holding, RunTask, TypeOK, TypeFrames, TypeCounts
  <2>2. CASE TaskCleanup(c) \/ ReturnPolled(c) \/ TakeHandler(c) \/ Timeout(c)
    BY <2>0, <2>2 DEF TaskCleanup, ReturnPolled, Return, TakeHandler, PassOnWakeUp, WakeOne, WakeNone,
       Looking, Holding, Timeout, TypeOK, TypeFrames, TypeCounts
  <2>3. CASE WorkCleanup(c) \/ Flush(c) \/ PerformNone(c)
    BY <2>0, <2>3 DEF WorkCleanup, CleanupDelta, Flush, Return, PerformNone, CompensatingWorkStarted,
       TypeOK, TypeFrames, TypeCounts
  <2>10. CASE PerformIo(c)
    <3>1. /\ private_outstanding_work'[c] = 0 /\ pc'[c] = "handler" /\ outstanding_work_' = outstanding_work_
          /\ pend[c] = "none"
      BY <2>0, <2>10 DEF PerformIo
    <3>2. pend'[c] # "stop"
      BY <2>10, <3>1 DEF PerformIo, PostDeferred, TypeOK, TypeFrames
    <3> QED BY <3>1, <3>2
  <2>4. CASE HandlerEnds(c) \/ Push(c)
    BY <2>0, <2>4 DEF HandlerEnds, Innermost, Push, WakeOne, TypeOK, TypeFrames, TypeCounts
  <2>5. CASE Signal(c) \/ StopLocked(c)
    BY <2>0, <2>5 DEF Signal, Waiting, StopLocked, StopAllThreads, TypeOK, TypeFrames, TypeCounts
  <2>6. ASSUME NEW m \in Modes, Call(c, m) PROVE Right(c)'
    BY <2>0, <2>6 DEF Call, TypeOK, TypeFrames, TypeCounts
  <2>7. CASE InitTask(c) \/ StartIo(c) \/ ScheduleTimer(c) \/ CancelIo(c) \/ AcquireGuard(c)
               \/ ReleaseGuard(c) \/ Restart(c) \/ (\E o \in Ops : CancelTimer(c, o))
    BY <2>0, <2>7 DEF InitTask, StartIo, ScheduleTimer, CancelIo, CancelTimer, PostDeferred,
       AcquireGuard, ReleaseGuard, Restart, MayCall, Innermost, TypeOK, TypeFrames, TypeCounts
  <2>8. ASSUME NEW kind \in {"post", "continuation", "dispatch"}, NEW n \in 1 .. MaxBatch,
               Post(c, kind, n)
        PROVE  Right(c)'
    BY <2>0, <2>8 DEF Post, InPool, MayCall, Innermost, TypeOK, TypeFrames, TypeCounts
  <2>9. ~Stop(c)
    BY DEF Stop, OneRunner
  <2> HIDE DEF Right
  <2> QED BY <2>1, <2>2, <2>3, <2>4, <2>5, <2>6, <2>7, <2>8, <2>9, <2>10 DEF Internal, ProgramCall
<1> QED BY <1>2, <1>3 DEF StopInv

\* Who has work that is counted only privately completes an operation, which is not among
\* what it has queued: so there is more left to do than has been counted.
LEMMA AllDone ==
  ASSUME IInv, HomeInv, WorkInv, ActiveNested, StopInv, OneTop, NEW c \in Contexts, pend[c] = "stop",
         TakenOver = {}
  PROVE  done = 1 .. issued
<1> DEFINE left == (1 .. issued) \ done
<1>0. TypeOK /\ outstanding_work_ = 0 /\ issued \in Nat /\ guards \in Nat
  BY DEF IInv, TypeOK, TypeCounts, StopInv
<1>1. done \subseteq 1 .. issued
  BY DEF HomeInv, EndedStarted
<1>2. /\ IsFiniteSet(1 .. issued) /\ Cardinality(1 .. issued) = issued
      /\ IsFiniteSet(done) /\ IsFiniteSet(left)
  <2>1. IsFiniteSet(1 .. issued) /\ Cardinality(1 .. issued) = issued
    BY <1>0, FS_Interval
  <2> QED BY <1>1, <2>1, FS_Subset
<1>3. /\ issued = Cardinality(done) + Cardinality(left)
      /\ Cardinality(done) \in Nat /\ Cardinality(left) \in Nat
  <2>1. 1 .. issued = done \cup left /\ done \cap left = {}
    BY <1>1
  <2> HIDE DEF left
  <2> QED BY <1>2, <2>1, JoinedCount
<1>4. Cardinality(PrivateWork) \in Nat /\ Cardinality(Uncompleted) \in Nat
  BY FS_CardinalityType DEF WorkInv
<1>5. Cardinality(PrivateWork) = Cardinality(left) + guards + Cardinality(Uncompleted)
                                   + (IF OwnThread = NoContext THEN 0 ELSE 1)
  <2> HIDE DEF left
  <2> QED BY <1>0, <1>3, <1>4 DEF WorkInv, WorkConserved
<1>6. PrivateWork = {}
  <2> SUFFICES ASSUME PrivateWork # {} PROVE FALSE
    OBVIOUS
  <2>1. \A p \in PrivateWork :
           /\ p[1] \in Contexts /\ p[2] \in 1 .. private_outstanding_work[p[1]] /\ p = <<p[1], p[2]>>
           /\ InHandler(p[1])
    <3> SUFFICES ASSUME NEW d \in Contexts, NEW i \in 1 .. private_outstanding_work[d]
                 PROVE  InHandler(d)
      BY DEF PrivateWork
    <3>1. InHandler(d) \/ pc[d] = "cleanup"
      BY <1>0 DEF StopInv, TypeOK, TypeCounts
    <3>2. ASSUME pc[d] = "cleanup" PROVE FALSE
      <4>1. pend[d] = "none" /\ ~InHandler(d)
        BY <3>2 DEF StopInv, InHandler
      <4>2. NoneInside(d) /\ NoneInside(c)
        BY <4>1, Inside
      <4> QED BY <3>2, <4>1, <4>2 DEF OneTop, Top, NoneInside, Active
    <3> QED BY <3>1, <3>2
  <2>2. \A d \in Contexts : /\ private_op_queue[d] \in Seq(Ops \cup {Desc})
                            /\ private_outstanding_work[d] \in Nat
                            /\ private_outstanding_work[d] <= Len(private_op_queue[d])
    BY <1>0, LenProperties DEF TakenOver, TypeOK, TypeQueues, TypeCounts
  <2> DEFINE op == [p \in PrivateWork |-> private_op_queue[p[1]][p[2]]]
  <2>3. ASSUME NEW p \in PrivateWork
        PROVE  /\ op[p] \in Ops /\ Has(private_op_queue[p[1]], op[p])
               /\ p[1] \in Contexts /\ p[2] \in 1 .. Len(private_op_queue[p[1]])
    <3>1. p[1] \in Contexts /\ p[2] \in 1 .. Len(private_op_queue[p[1]]) /\ InHandler(p[1])
      BY <2>1, <2>2
    <3>2. Has(private_op_queue[p[1]], op[p]) /\ op[p] \in Ops \cup {Desc}
      BY <2>2, <3>1, ElementOfSeq DEF Has
    <3>3. ~Has(private_op_queue[p[1]], Desc)
      BY <3>1 DEF IInv, PrivateDesc, InHandler
    <3> QED BY <3>1, <3>2, <3>3
  <2>4. PICK r \in PrivateWork : TRUE
    OBVIOUS
  <2> DEFINE d == r[1]
  <2>5. d \in Contexts /\ InHandler(d) /\ cur[d] \in Ops
    BY <1>0, <2>1, <2>4 DEF InHandler, IInv, CurrentOperation, TypeOK, TypeFrames
  <2>6. \A e \in Contexts, o \in Ops :
           Has(private_op_queue[e], o) =>
              /\ o \in left /\ o # cur[d] /\ AtMostOnce(private_op_queue[e], o)
              /\ \A f \in Contexts : Has(private_op_queue[f], o) => e = f
    <3> SUFFICES ASSUME NEW e \in Contexts, NEW o \in Ops, Has(private_op_queue[e], o)
                 PROVE  /\ o \in left /\ o # cur[d] /\ AtMostOnce(private_op_queue[e], o)
                        /\ \A f \in Contexts : Has(private_op_queue[f], o) => e = f
      OBVIOUS
    <3>1. Private(e) \in Places /\ Holds(Private(e), o)
      BY PlaceFacts
    <3>2. Live(o) /\ \A p, q \in Places : Holds(p, o) /\ Holds(q, o) => p = q
      BY <3>1 DEF HomeInv, OneHome
    <3>3. o # cur[d]
      <4>1. Handler(d) \in Places /\ (Holds(Handler(d), o) <=> Completing(d) /\ cur[d] = o)
        BY <2>5, PlaceFacts
      <4>2. Private(e) # Handler(d)
        BY DEF Private, Handler
      <4> QED BY <2>5, <3>1, <3>2, <4>1, <4>2 DEF Completing, InHandler
    <3>4. \A f \in Contexts : Has(private_op_queue[f], o) => e = f
      <4> SUFFICES ASSUME NEW f \in Contexts, Has(private_op_queue[f], o) PROVE e = f
        OBVIOUS
      <4>1. Private(f) \in Places /\ Holds(Private(f), o)
        BY PlaceFacts
      <4>2. Private(e) = Private(f)
        BY <3>1, <3>2, <4>1
      <4> QED BY <4>2 DEF Private
    <3> QED BY <3>2, <3>3, <3>4 DEF Live, HomeInv, QueuedOnce, LinkedOnce
  <2>7. cur[d] \in left
    <3>1. Handler(d) \in Places /\ Holds(Handler(d), cur[d])
      BY <2>5, PlaceFacts DEF Completing, InHandler
    <3>2. Live(cur[d])
      BY <2>5, <3>1 DEF HomeInv, OneHome
    <3> QED BY <3>2 DEF Live
  <2>8. op \in Injection(PrivateWork, left \ {cur[d]})
    <3>1. \A p \in PrivateWork : op[p] \in left \ {cur[d]}
      BY <2>3, <2>6
    <3>2. ASSUME NEW p \in PrivateWork, NEW q \in PrivateWork, op[p] = op[q] PROVE p = q
      <4>1. p[1] = q[1]
        BY <2>3, <2>6, <3>2
      <4>2. AtMostOnce(private_op_queue[p[1]], op[p])
        BY <2>3, <2>6
      <4>3. p[2] = q[2]
        BY <2>3, <3>2, <4>1, <4>2 DEF AtMostOnce
      <4> QED BY <2>1, <4>1, <4>3
    <3> HIDE DEF left
    <3> QED BY <3>1, <3>2 DEF Injection, IsInjective
  <2> HIDE DEF op, left, d
  <2>9. IsFiniteSet(left \ {cur[d]}) /\ Cardinality(left \ {cur[d]}) = Cardinality(left) - 1
    BY <1>2, <2>7, FS_RemoveElement
  <2>10. Cardinality(PrivateWork) <= Cardinality(left \ {cur[d]})
    BY <2>8, <2>9, FS_Injection
  <2> QED BY <1>0, <1>3, <1>4, <1>5, <2>9, <2>10
<1>7. Cardinality(PrivateWork) = 0
  BY <1>6, FS_EmptySet
<1> HIDE DEF left
<1>8. Cardinality(left) = 0
  BY <1>0, <1>3, <1>4, <1>5, <1>7
<1>9. left = {}
  BY <1>2, <1>8, FS_EmptySet
<1> QED BY <1>1, <1>9 DEF left

\* Where nobody calls stop() and all posting is done by the one thread that runs the
\* scheduler, whatever it nests, the scheduler stops itself only when every operation that
\* was started has completed, unless a nested poll has taken over a handler's posts.
THEOREM StopsWhenFinished == ASSUME OneRunner PROVE Spec => StopsOnlyWhenFinished
<1>1. Init => StackInv /\ StopInv
  <2> SUFFICES ASSUME Init PROVE StackInv /\ StopInv
    OBVIOUS
  <2>1. \A c \in Contexts : /\ pc[c] = "idle" /\ pend[c] = "none" /\ private_outstanding_work[c] = 0
    BY DEF Init, OneRunner
  <2>2. Actives = {}
    BY <2>1 DEF Actives, Active
  <2>3. StackInv
    BY <2>1, <2>2 DEF StackInv, ActiveNested, Grounded, OneTop, Top, Active
  <2> QED BY <2>1, <2>3 DEF StopInv
<1>2. ASSUME IInv, StackInv, StopInv, [Next]_vars PROVE StackInv' /\ StopInv'
  <2>1. ASSUME NEW c \in Contexts, Internal(c) \/ ProgramCall(c) \/ Timeout(c)
        PROVE  StackInv' /\ StopInv'
    <3>1. TypeOK /\ ActiveNested
      BY <1>2 DEF IInv, StackInv
    <3>2. OthersStay(c) /\ NoneInside(c) /\ (Active(c) \/ Begins(c))
      BY <2>1, <3>1, FrameStep
    <3> QED BY <1>2, <2>1, <3>1, <3>2, StackStep, StopStep
  <2>2. CASE UNCHANGED <<pc, pend, cur, private_outstanding_work, outstanding_work_>>
    BY <1>2, <2>2, StackKept DEF StopInv, InHandler
  <2>3. CASE Shutdown \/ DestroyOps \/ Ready \/ \E o \in Ops : Expire(o)
    <3>1. UNCHANGED <<pc, pend, cur, private_outstanding_work, outstanding_work_>>
      BY <2>3 DEF Shutdown, DestroyOps, Ready, Expire, OneRunner, shared, local
    <3> QED BY <2>2, <3>1
  <2>4. CASE UNCHANGED vars
    BY <2>2, <2>4 DEF vars, shared, local
  <2> QED BY <1>2, <2>1, <2>3, <2>4 DEF Next
<1>3. ASSUME IInv, HomeInv, WorkInv, StackInv, StopInv, [Next]_vars, ~stopped_, stopped_', TakenOver = {}
      PROVE  done = 1 .. issued
  <2>1. PICK c \in Contexts : StopLocked(c)
    <3>1. stopped_' # stopped_
      BY <1>3
    <3> USE DEF shared, reactor, program, local
    <3>2. Next
      BY <1>3, <3>1 DEF vars
    <3>3. ~Shutdown /\ ~DestroyOps /\ ~Ready /\ \A o \in Ops : ~Expire(o)
      BY <3>1 DEF Shutdown, DestroyOps, Ready, Expire, OneRunner
    <3>4. PICK c \in Contexts : Internal(c) \/ ProgramCall(c) \/ Timeout(c)
      BY <3>2, <3>3 DEF Next
    <3>5. ~ProgramCall(c) /\ ~Timeout(c)
      BY <1>3, <3>1 DEF ProgramCall, Timeout, Call, InitTask, StartIo, ScheduleTimer, CancelIo, CancelTimer,
         AcquireGuard, ReleaseGuard, Stop, Restart, Post
    <3>6. StopLocked(c)
      BY <3>1, <3>4, <3>5 DEF Internal, Enter, ReturnStopped, Wait, ReturnEmpty, Reacquire, TakeTask,
         RunTask, TaskCleanup, ReturnPolled, TakeHandler, PerformNone, PerformIo, HandlerEnds,
         WorkCleanup, Flush, Signal, Push
    <3> QED BY <3>6
  <2>2. pend[c] = "stop"
    BY <2>1 DEF StopLocked
  <2> QED BY <1>3, <2>2, AllDone DEF StackInv
<1>4. IInv /\ HomeInv /\ WorkInv /\ StackInv /\ StopInv /\ [Next]_vars
        => [~stopped_ /\ stopped_' /\ TakenOver = {} => done = 1 .. issued]_vars
  BY <1>3
<1> QED
  BY <1>1, <1>2, <1>4, Invariance, HomeInvariance, WorkInvariance, PTL DEF Spec, StopsOnlyWhenFinished
=============================================================================
