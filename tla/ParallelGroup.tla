--------------------------- MODULE ParallelGroup ---------------------------
(***************************************************************************)
(* asio::experimental::parallel_group: several operations, one handler.    *)
(*                                                                         *)
(* The operations complete on any thread, from the moment they have been   *)
(* launched, and meet in the four atomic words of the shared state; every  *)
(* access to one of them is a step.  Cancellation may be asked for by an   *)
(* operation's result and through the slot of the group's own handler.     *)
(* Whoever asks first emits a signal for each operation, except that until *)
(* all have been launched it is left to the launching function.            *)
(***************************************************************************)
EXTENDS Integers, Sequences

CONSTANTS
    N,              \* sizeof...(Ops)
    Strands,        \* executors of operations; each runs one function at a time
    Executor,       \* the associated executor of an operation, or NoExecutor
    NoExecutor,
    Types,          \* the cancellation types in use, without none
    MaxCancels      \* bound on the signals the program emits for the group

Ops == 0 .. N - 1
UnsignedMax == 65536      \* of unsigned int, no wider than on any platform
\* There are not as many requests as the counter of them can hold.
ASSUME GroupAssumption ==
    /\ N \in Nat \ {0} /\ MaxCancels \in Nat /\ "none" \notin Types
    /\ 2 * N + MaxCancels < UnsignedMax
    /\ NoExecutor \notin Strands /\ Executor \in [Ops -> Strands \cup {NoExecutor}]

VARIABLES
    completed_, cancel_type_, cancellations_requested_, outstanding_,
    completion_order_,
    args_,       \* the operations whose result is stored
    pc,          \* of each operation, and of the launching function
    place,       \* the index in completion_order_ an operation has drawn
    asks,        \* the type its result asks for
    slot,        \* the group's handler is in the slot of the user's handler
    cancels,     \* signals emitted by the program for the group
    emitting,    \* per emitter: the type and the operations still to be signalled
    dispatched,  \* signals on their way through the executor of an operation
    signals,     \* the types that have reached the slot of an operation
    called       \* invocations of the user's handler

counters == <<completed_, cancel_type_, cancellations_requested_, outstanding_>>
results == <<completion_order_, args_, place, asks>>
emission == <<emitting, dispatched, signals>>
group == <<slot, cancels>>
vars == <<counters, results, pc, emission, group, called>>

Launcher == N
User == N + 1
NoEmission == [type |-> "none", to |-> {}]
Goto(p, at) == pc' = [pc EXCEPT ![p] = at]

Init ==
    /\ completed_ = 0 /\ cancel_type_ = "none"
    /\ cancellations_requested_ = N /\ outstanding_ = N
    /\ completion_order_ = [k \in Ops |-> 0] /\ args_ = {}
    /\ pc = [p \in 0 .. Launcher |-> IF p = Launcher THEN "launch" ELSE "unlaunched"]
    /\ place = [i \in Ops |-> 0] /\ asks = [i \in Ops |-> "none"]
    /\ slot = FALSE /\ cancels = 0
    /\ emitting = [p \in 0 .. User |-> NoEmission]
    /\ dispatched = [i \in Ops |-> <<>>] /\ signals = [i \in Ops |-> <<>>]
    /\ called = 0

-----------------------------------------------------------------------------
(* cancellation_signal::emit for one operation after the other. *)

\* The function an executor has begun and not yet returned from.
Running(i) == pc[i] \notin {"unlaunched", "pending", "done"}
Busy(e) == \E i \in Ops : Executor[i] = e /\ Running(i)

\* Where an operation has an executor its proxy dispatches the signal there: at once
\* if the emitter is running there itself.
Direct(p, i) == Executor[i] = NoExecutor \/ (p \in Ops /\ Executor[p] = Executor[i])
Reach(f, i, type) == [f EXCEPT ![i] = Append(@, type)]
Emission(type, to) == [type |-> type, to |-> to]
EmitNext(p, i, type) ==
    /\ i \in emitting[p].to /\ \A j \in emitting[p].to : i <= j
    /\ emitting' = [emitting EXCEPT ![p].to = @ \ {i}]
    /\ IF Direct(p, i) THEN signals' = Reach(signals, i, type) /\ UNCHANGED dispatched
                       ELSE dispatched' = Reach(dispatched, i, type) /\ UNCHANGED signals

\* The function dispatched by the proxy: the signal reaches the operation's own slot.
Deliver(i) ==
    /\ dispatched[i] # <<>> /\ ~Busy(Executor[i])
    /\ signals' = Reach(signals, i, Head(dispatched[i]))
    /\ dispatched' = [dispatched EXCEPT ![i] = Tail(@)]
    /\ UNCHANGED <<counters, results, pc, emitting, group, called>>

-----------------------------------------------------------------------------
(* parallel_group_launch *)

\* One initiating function; from then on the operation may complete.
Launch(i) ==
    /\ pc[Launcher] = "launch" /\ pc[i] = "unlaunched"
    /\ \A j \in Ops : j < i => pc[j] # "unlaunched"
    /\ Goto(i, "pending")
    /\ UNCHANGED <<counters, results, emission, group, called>>

\* mutant: what was asked for during the launch is forgotten
NobodyAsked(r) == FALSE
AskedMeanwhile(r) == r > 0

Check ==
    LET r == (cancellations_requested_ - N) % UnsignedMax
    IN  /\ pc[Launcher] = "launch" /\ \A i \in Ops : pc[i] # "unlaunched"
        /\ cancellations_requested_' = r
        /\ emitting' = [emitting EXCEPT ![Launcher].to = IF AskedMeanwhile(r) THEN Ops ELSE {}]
        /\ Goto(Launcher, "emit")
        /\ UNCHANGED <<completed_, cancel_type_, outstanding_, results, dispatched, signals, group, called>>

LauncherEmits(i) ==
    /\ pc[Launcher] = "emit" /\ EmitNext(Launcher, i, cancel_type_)
    /\ UNCHANGED <<counters, results, pc, group, called>>

\* The group's cancellation handler is put into the slot of the user's handler.
Register ==
    /\ pc[Launcher] = "emit" /\ emitting[Launcher].to = {}
    /\ slot' = TRUE
    /\ Goto(Launcher, "done")
    /\ UNCHANGED <<counters, results, emission, cancels, called>>

-----------------------------------------------------------------------------
(* parallel_group_op_handler::operator() *)

\* The operation completes; its executor calls the handler.
Complete(i) ==
    /\ pc[i] = "pending"
    /\ Executor[i] # NoExecutor => ~Busy(Executor[i])
    /\ place' = [place EXCEPT ![i] = completed_] /\ completed_' = completed_ + 1
    /\ Goto(i, "capture")
    /\ UNCHANGED <<cancel_type_, cancellations_requested_, outstanding_, completion_order_, args_, asks,
                   emission, group, called>>

\* Completion order and result; the condition decides.
Capture(i, type) ==
    /\ pc[i] = "capture"
    /\ completion_order_' = [completion_order_ EXCEPT ![place[i]] = i]
    /\ args_' = args_ \cup {i}
    /\ asks' = [asks EXCEPT ![i] = type]
    /\ Goto(i, IF type = "none" THEN "finish" ELSE "ask")
    /\ UNCHANGED <<counters, place, emission, group, called>>

SaveType(i) ==
    /\ pc[i] = "ask"
    /\ cancel_type_' = asks[i]
    /\ Goto(i, "request")
    /\ UNCHANGED <<completed_, cancellations_requested_, outstanding_, results, emission, group, called>>

\* mutant: everyone who asks emits
AlwaysFirst == TRUE
FirstToAsk == cancellations_requested_ = 0

OtherOps(i) == Ops \ {i}
Request(i) ==
    /\ pc[i] = "request"
    /\ cancellations_requested_' = (cancellations_requested_ + 1) % UnsignedMax
    /\ emitting' = [emitting EXCEPT ![i] = Emission(asks[i], IF FirstToAsk THEN OtherOps(i) ELSE {})]
    /\ Goto(i, "finish")
    /\ UNCHANGED <<completed_, cancel_type_, outstanding_, results, dispatched, signals, group, called>>

OpEmits(i, j) ==
    /\ pc[i] = "finish" /\ EmitNext(i, j, emitting[i].type)
    /\ UNCHANGED <<counters, results, pc, group, called>>

\* mutant: the last in the completion order is taken for the last to finish
LastInOrder == completed_ = N /\ called = 0
LastToFinish == outstanding_ = 1

\* The last one dispatches the user's handler.
Finish(i) ==
    /\ pc[i] = "finish" /\ emitting[i].to = {}
    /\ outstanding_' = outstanding_ - 1
    /\ called' = IF LastToFinish THEN called + 1 ELSE called
    /\ Goto(i, "done")
    /\ UNCHANGED <<completed_, cancel_type_, cancellations_requested_, results, emission, group>>

-----------------------------------------------------------------------------
(* parallel_group_cancellation_handler: the program emits a signal for the group. *)

\* The shared state lives as long as somebody holds it.
Alive == \/ pc[Launcher] # "done" \/ \E i \in Ops : pc[i] # "done" \/ dispatched[i] # <<>>

CancelGroup(type) ==
    /\ slot /\ emitting[User].to = {} /\ cancels < MaxCancels
    /\ cancels' = cancels + 1
    /\ IF Alive
       THEN /\ cancellations_requested_' = (cancellations_requested_ + 1) % UnsignedMax
            /\ emitting' = [emitting EXCEPT ![User] = Emission(type, IF FirstToAsk THEN Ops ELSE {})]
       ELSE UNCHANGED <<cancellations_requested_, emitting>>
    /\ UNCHANGED <<completed_, cancel_type_, outstanding_, results, pc, dispatched, signals, slot, called>>

UserEmits(i) ==
    /\ EmitNext(User, i, emitting[User].type)
    /\ UNCHANGED <<counters, results, pc, group, called>>

Emits(i) == LauncherEmits(i) \/ UserEmits(i) \/ \E j \in Ops : OpEmits(j, i)
OpStep(i) ==
    \/ \E type \in Types \cup {"none"} : Capture(i, type)
    \/ SaveType(i) \/ Request(i) \/ Finish(i)
Next ==
    \/ \E i \in Ops : Launch(i) \/ Complete(i) \/ OpStep(i) \/ Emits(i) \/ Deliver(i)
    \/ Check \/ Register
    \/ \E type \in Types : CancelGroup(type)

Spec == Init /\ [][Next]_vars

\* Threads go on and executors run what they are given.
GroupFairness ==
    /\ WF_vars(Check) /\ WF_vars(Register)
    /\ \A i \in Ops : WF_vars(Launch(i)) /\ WF_vars(OpStep(i)) /\ WF_vars(Emits(i)) /\ SF_vars(Deliver(i))
\* An operation that has been signalled completes; otherwise it need not.
EndsOnceSignalled(i) == SF_vars(signals[i] # <<>> /\ Complete(i))
FairSpec == Spec /\ GroupFairness /\ \A i \in Ops : EndsOnceSignalled(i)

-----------------------------------------------------------------------------
\* The variables have their types: no counter wraps around, no index leaves the array,
\* and every signal that is emitted carries a type to act on.
TypeOK ==
    /\ completed_ \in 0 .. N /\ outstanding_ \in 0 .. N /\ called \in Nat
    /\ cancellations_requested_ \in 0 .. 2 * N + MaxCancels
    /\ cancel_type_ \in Types \cup {"none"} /\ asks \in [Ops -> Types \cup {"none"}]
    /\ completion_order_ \in [Ops -> Ops] /\ args_ \subseteq Ops /\ place \in [Ops -> Ops]
    /\ signals \in [Ops -> Seq(Types)] /\ dispatched \in [Ops -> Seq(Types)]
    /\ slot \in BOOLEAN /\ cancels \in 0 .. MaxCancels

\* The user's handler is called once, when every operation has stored its result and
\* its place in the completion order and no longer uses the shared state.
CalledWhenComplete ==
    /\ called = IF outstanding_ = 0 THEN 1 ELSE 0
    /\ called > 0 => /\ args_ = Ops
                     /\ \A i \in Ops : pc[i] = "done" /\ \E k \in Ops : completion_order_[k] = i

\* However many operations ask for cancellation, during the launch and after it, and
\* the program as well, no operation is signalled twice, and none without a type.
SignalledOnce == TypeOK /\ \A i \in Ops : Len(signals[i]) + Len(dispatched[i]) <= 1

\* A request for cancellation ends the group, also one made while operations were
\* still being launched: the signal reaches everyone who needs it.
Asked == (\E i \in Ops : asks[i] # "none") \/ (cancels > 0 /\ cancellations_requested_ > 0)
CancelEndsGroup == []<>(Asked => called = 1)
=============================================================================
