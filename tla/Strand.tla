------------------------------- MODULE Strand -------------------------------
(***************************************************************************)
(* Strands: strand<Executor> (detail/strand_executor_service.hpp, .ipp)    *)
(* and io_context::strand (detail/strand_service.hpp, .ipp).               *)
(*                                                                         *)
(* A strand does not own a thread.  Whoever finds it unlocked locks it and *)
(* submits one "invoker" to the underlying executor; the invoker runs the  *)
(* ready handlers, moves the waiting ones over and submits itself again,   *)
(* or unlocks.  The ready queue is used without the strand's mutex.        *)
(*                                                                         *)
(* The executor is modelled by what the code uses of it: a submitted       *)
(* invoker is run once, by any thread of the pool, at any time (an         *)
(* io_context; ordering between different strands is not promised).        *)
(* Each thread has a stack of frames: calls into the strand that have not  *)
(* returned, invokers, and handlers run in place.                          *)
(***************************************************************************)
EXTENDS Integers, Sequences, OpQueue

CONSTANTS
    Threads,
    Pool,          \* the threads that run the executor
    Strands,
    MaxHandlers,   \* bound on the handlers the program submits
    MaxDepth,      \* bound on the frames of one thread
    Immediate,     \* the strands that are an io_context::strand
    Uses           \* the calls the program makes

ASSUME ConstantsAssumption ==
    /\ Pool \subseteq Threads
    /\ MaxHandlers \in Nat /\ MaxDepth \in Nat \ {0}
    /\ Immediate \subseteq Strands
    /\ Uses \subseteq {"post", "dispatch", "poll", "throw", "shutdown"}

Handlers == 1 .. MaxHandlers

VARIABLES
    locked_, shutdown_, waiting_queue_, ready_queue_,   \* per strand; shutdown_ is common
    submitted,    \* per strand, the invokers the executor has accepted
    stack,        \* per thread
    issued, done, destroyed

vars == <<locked_, shutdown_, waiting_queue_, ready_queue_, submitted, stack, issued, done,
          destroyed>>

-----------------------------------------------------------------------------
Frames == [s : Strands, h : 0 .. MaxHandlers,
           kind : {"post", "dispatch", "invoker", "nested", "now"},
           pc : {"push", "submit", "run", "handler", "exit", "resubmit"}]
Top(t) == stack[t][Len(stack[t])]
At(t, pc) == stack[t] # <<>> /\ Top(t).pc = pc
Pushed(t, f) == [stack EXCEPT ![t] = Append(@, f)]
Popped(t) == [stack EXCEPT ![t] = SubSeq(@, 1, Len(@) - 1)]
\* The top frame of t goes on at pc, with h as its handler.
Moved(t, pc, h) == [stack EXCEPT ![t][Len(stack[t])] = [Top(t) EXCEPT !.pc = pc, !.h = h]]
\* Program code runs: a handler of a strand, or something outside any strand.
UserCode(t) == (stack[t] = <<>> \/ At(t, "handler")) /\ Len(stack[t]) < MaxDepth

\* running_in_this_thread
InStrand(t, s) == \E i \in 1 .. Len(stack[t]) : stack[t][i].s = s /\ stack[t][i].pc = "handler"

Init ==
    /\ locked_ = [s \in Strands |-> FALSE] /\ shutdown_ = FALSE
    /\ waiting_queue_ = [s \in Strands |-> <<>>]
    /\ ready_queue_ = [s \in Strands |-> <<>>]
    /\ submitted = [s \in Strands |-> 0]
    /\ stack = [t \in Threads |-> <<>>]
    /\ issued = 0 /\ done = {} /\ destroyed = {}

-----------------------------------------------------------------------------
(* Submitting a handler.                                                   *)

\* dispatch() and execute() from inside the strand: no queue, no lock.
RunNested(t, s) ==
    /\ "dispatch" \in Uses /\ UserCode(t) /\ issued < MaxHandlers /\ InStrand(t, s)
    /\ issued' = issued + 1
    /\ stack' = Pushed(t, [s |-> s, h |-> issued + 1, kind |-> "nested", pc |-> "handler"])
    /\ UNCHANGED <<locked_, shutdown_, waiting_queue_, ready_queue_, submitted, done, destroyed>>

\* Every other call takes a new handler to the strand's mutex.
Submits(t, s, how) ==
    /\ how \in Uses /\ UserCode(t) /\ issued < MaxHandlers
    /\ how = "dispatch" => ~InStrand(t, s)
    /\ issued' = issued + 1

\* enqueue, the strand being shut down
EnqueueShutdown(t, s, how) ==
    /\ Submits(t, s, how) /\ shutdown_
    /\ destroyed' = destroyed \cup {issued + 1}
    /\ UNCHANGED <<locked_, shutdown_, waiting_queue_, ready_queue_, submitted, stack, done>>

NeverLocked(s) == FALSE              \* mutant: locked_ is not tested
IsLocked(s) == locked_[s]

\* enqueue, do_post, do_dispatch: some other handler holds the strand.
EnqueueWaiting(t, s, how) ==
    /\ Submits(t, s, how) /\ ~shutdown_ /\ IsLocked(s)
    /\ waiting_queue_' = [waiting_queue_ EXCEPT ![s] = Append(@, issued + 1)]
    /\ UNCHANGED <<locked_, shutdown_, ready_queue_, submitted, stack, done, destroyed>>

\* mutant: the caller need not be a thread of the executor
RunsNowOutside(t, s, how) == s \in Immediate /\ how = "dispatch"
\* can_dispatch
RunsNow(t, s, how) == s \in Immediate /\ how = "dispatch" /\ t \in Pool

\* The caller locks the strand and is responsible for scheduling it; or it
\* runs the handler itself (strand_service::do_dispatch).
EnqueueFirst(t, s, how) ==
    /\ Submits(t, s, how) /\ ~shutdown_ /\ ~IsLocked(s)
    /\ locked_' = [locked_ EXCEPT ![s] = TRUE]
    /\ stack' = Pushed(t, IF RunsNow(t, s, how)
                          THEN [s |-> s, h |-> issued + 1, kind |-> "now", pc |-> "handler"]
                          ELSE [s |-> s, h |-> issued + 1, kind |-> how, pc |-> "push"])
    /\ UNCHANGED <<shutdown_, waiting_queue_, ready_queue_, submitted, done, destroyed>>

\* The mutex is already released.
PushReady(t) ==
    /\ At(t, "push")
    /\ ready_queue_' = [ready_queue_ EXCEPT ![Top(t).s] = Append(@, Top(t).h)]
    /\ stack' = Moved(t, "submit", 0)
    /\ UNCHANGED <<locked_, shutdown_, waiting_queue_, submitted, issued, done, destroyed>>

\* The executor queues the invoker ...
Submit(t) ==
    /\ At(t, "submit") /\ ~(Top(t).kind = "dispatch" /\ t \in Pool /\ Top(t).s \notin Immediate)
    /\ submitted' = [submitted EXCEPT ![Top(t).s] = @ + 1]
    /\ stack' = Popped(t)
    /\ UNCHANGED <<locked_, shutdown_, waiting_queue_, ready_queue_, issued, done, destroyed>>

\* ... or, asked to dispatch by one of its own threads, runs it in place.
SubmitInPlace(t) ==
    /\ At(t, "submit") /\ Top(t).kind = "dispatch" /\ t \in Pool /\ Top(t).s \notin Immediate
    /\ stack' = [stack EXCEPT ![t][Len(stack[t])].kind = "invoker",
                              ![t][Len(stack[t])].pc = "run"]
    /\ UNCHANGED <<locked_, shutdown_, waiting_queue_, ready_queue_, submitted, issued, done,
                   destroyed>>

-----------------------------------------------------------------------------
(* Running the strand.                                                     *)

AnInvoker(s) == submitted[s] > 0

\* A pool thread, or a poll nested in a handler, takes an invoker.
RunInvoker(t, s) ==
    /\ t \in Pool /\ AnInvoker(s) /\ ~shutdown_
    /\ stack[t] = <<>> \/ ("poll" \in Uses /\ UserCode(t))
    /\ submitted' = [submitted EXCEPT ![s] = @ - 1]
    /\ stack' = Pushed(t, [s |-> s, h |-> 0, kind |-> "invoker", pc |-> "run"])
    /\ UNCHANGED <<locked_, shutdown_, waiting_queue_, ready_queue_, issued, done, destroyed>>

\* run_ready_handlers
RunReady(t) ==
    /\ At(t, "run")
    /\ LET s == Top(t).s
       IN  IF ready_queue_[s] = <<>>
           THEN stack' = Moved(t, "exit", 0) /\ UNCHANGED ready_queue_
           ELSE /\ stack' = Moved(t, "handler", Head(ready_queue_[s]))
                /\ ready_queue_' = [ready_queue_ EXCEPT ![s] = Tail(@)]
    /\ UNCHANGED <<locked_, shutdown_, waiting_queue_, submitted, issued, done, destroyed>>

\* The handler returns, or throws: an exception leaves the loop, not the strand.
HandlerEnds(t, throws) ==
    /\ At(t, "handler")
    /\ throws => "throw" \in Uses
    /\ done' = done \cup {Top(t).h}
    /\ stack' = IF Top(t).kind = "nested" THEN Popped(t)
                ELSE Moved(t, IF throws \/ Top(t).kind = "now" THEN "exit" ELSE "run", 0)
    /\ UNCHANGED <<locked_, shutdown_, waiting_queue_, ready_queue_, submitted, issued,
                   destroyed>>

\* Transfers the waiting handlers behind those an exception has left over.
ReadyFirst(s) == ready_queue_[s] \o waiting_queue_[s]

\* more_handlers
ReadyBeforePush(s) == ready_queue_[s] # <<>>                  \* mutant: tested too early
MoreHandlers(s) == ready_queue_[s] # <<>> \/ waiting_queue_[s] # <<>>

\* push_waiting_to_ready, on_do_complete_exit, on_dispatch_exit
PushWaitingToReady(t) ==
    /\ At(t, "exit")
    /\ LET s == Top(t).s
       IN  /\ ready_queue_' = [ready_queue_ EXCEPT ![s] = ReadyFirst(s)]
           /\ waiting_queue_' = [waiting_queue_ EXCEPT ![s] = <<>>]
           /\ locked_' = [locked_ EXCEPT ![s] = MoreHandlers(s)]
           /\ stack' = IF MoreHandlers(s) THEN Moved(t, "resubmit", 0) ELSE Popped(t)
    /\ UNCHANGED <<shutdown_, submitted, issued, done, destroyed>>

\* The invoker submits itself again, never to be run in place.
Resubmit(t) ==
    /\ At(t, "resubmit")
    /\ submitted' = [submitted EXCEPT ![Top(t).s] = @ + 1]
    /\ stack' = Popped(t)
    /\ UNCHANGED <<locked_, shutdown_, waiting_queue_, ready_queue_, issued, done, destroyed>>

QueuedOps(s) == {x \in Handlers : Has(waiting_queue_[s], x) \/ Has(ready_queue_[s], x)}

\* shutdown(), when the executor's threads have left; it destroys its invokers.
Shutdown ==
    /\ "shutdown" \in Uses /\ ~shutdown_ /\ \A t \in Threads : stack[t] = <<>>
    /\ shutdown_' = TRUE
    /\ destroyed' = destroyed \cup UNION {QueuedOps(s) : s \in Strands}
    /\ waiting_queue_' = [s \in Strands |-> <<>>]
    /\ ready_queue_' = [s \in Strands |-> <<>>]
    /\ submitted' = [s \in Strands |-> 0]
    /\ UNCHANGED <<locked_, stack, issued, done>>

-----------------------------------------------------------------------------
\* The steps the library takes once a call or an invoker has begun.
Internal(t) ==
    \/ PushReady(t) \/ Submit(t) \/ SubmitInPlace(t) \/ RunReady(t)
    \/ PushWaitingToReady(t) \/ Resubmit(t)
    \/ \E throws \in BOOLEAN : HandlerEnds(t, throws)

ProgramCall(t) ==
    \E s \in Strands :
        \/ RunNested(t, s)
        \/ \E how \in {"post", "dispatch"} :
             EnqueueShutdown(t, s, how) \/ EnqueueWaiting(t, s, how) \/ EnqueueFirst(t, s, how)

Next ==
    \/ \E t \in Threads : Internal(t) \/ ProgramCall(t) \/ \E s \in Strands : RunInvoker(t, s)
    \/ Shutdown

Spec == Init /\ [][Next]_vars

(***************************************************************************)
(* Fairness: threads are scheduled and handlers return, and the executor   *)
(* runs what was submitted to it as long as a thread of the pool comes     *)
(* back for more.                                                          *)
(***************************************************************************)
FairSpec == /\ Spec
            /\ \A t \in Threads : WF_vars(Internal(t))
            /\ \A s \in Strands : SF_vars(\E t \in Pool : stack[t] = <<>> /\ RunInvoker(t, s))

-----------------------------------------------------------------------------
(* Properties.                                                             *)

\* The variables have their types.
TypeOK ==
    /\ locked_ \in [Strands -> BOOLEAN] /\ shutdown_ \in BOOLEAN
    /\ waiting_queue_ \in [Strands -> Seq(Handlers)]
    /\ ready_queue_ \in [Strands -> Seq(Handlers)]
    /\ submitted \in [Strands -> Nat]
    /\ stack \in [Threads -> Seq(Frames)]
    /\ issued \in 0 .. MaxHandlers /\ done \subseteq Handlers /\ destroyed \subseteq Handlers

\* The frames that hold the strand: all but those nested in another one.
Holds(t, i, s) == i \in 1 .. Len(stack[t]) /\ stack[t][i].s = s /\ stack[t][i].kind # "nested"
Holders(s) == {f \in Threads \X (1 .. MaxDepth) : Holds(f[1], f[2], s)}

\* The lock comment of strand_impl: locked_ means that a handler upcall is in
\* progress or the strand has been scheduled to run its handlers, and there is
\* only one of these at a time; so the ready queue, which is used without the
\* mutex, has one user, and no handler is queued on a strand nobody will run.
LockedByOne ==
    /\ TypeOK
    /\ ~shutdown_ => \A s \in Strands :
        /\ \A f, g \in Holders(s) : f = g
        /\ submitted[s] <= 1
        /\ Holders(s) # {} => submitted[s] = 0
        /\ locked_[s] <=> (Holders(s) # {} \/ submitted[s] = 1)
        /\ MoreHandlers(s) => locked_[s]

\* The mapping to the promise: where in its stack t has a frame of s at pc.
Places(t, s, pc) == {i \in 1 .. Len(stack[t]) : stack[t][i].s = s /\ stack[t][i].pc = pc}
Active == [s \in Strands |->
    UNION {{[h |-> stack[t][i].h, at |-> i] : i \in Places(t, s, "handler")} : t \in Threads}]
Owner == [s \in Strands |-> {t \in Threads : Places(t, s, "handler") # {}}]
\* The handler that has taken the strand's lock and is not in a queue yet.
Pushing(s) == UNION {{stack[t][i].h : i \in Places(t, s, "push")} : t \in Threads}
Held(s) == IF Pushing(s) = {} THEN <<>> ELSE <<CHOOSE h \in Pushing(s) : TRUE>>
Accepted == [s \in Strands |-> Held(s) \o ready_queue_[s] \o waiting_queue_[s]]

Promise == INSTANCE SerialExecutor WITH
    pending <- Accepted,
    active <- Active,
    owner <- Owner,
    closed <- shutdown_,
    Workers <- Pool,
    Depths <- 1 .. MaxDepth

\* A strand keeps the promise of SerialExecutor: its handlers never run on two
\* threads at once, only on threads of the executor, each at most once, and in the
\* order of their acceptance.
Serial == Promise!Spec

\* A handler accepted by a strand is eventually run, or destroyed with the context.
AcceptedEventuallyRuns ==
    \A h \in Handlers : []<>(h <= issued => h \in done \cup destroyed)
=============================================================================
