----------------------------- MODULE TimerQueue -----------------------------
(***************************************************************************)
(* Timers: timer_queue (detail/timer_queue.hpp), deadline_timer_service    *)
(* (detail/deadline_timer_service.hpp) and what epoll_reactor does for     *)
(* them (detail/impl/epoll_reactor.hpp, .ipp), with timerfd or without.    *)
(*                                                                         *)
(* The reactor's mutex makes every function of a timer one step.  The      *)
(* reactor is entered by one thread at a time (Scheduler) and stays in     *)
(* epoll_wait until something wakes it; the step in which it returns       *)
(* includes the timer queue's turn.  An operation taken from the queue is  *)
(* handed to the scheduler: its outcome is recorded here.                  *)
(*                                                                         *)
(* Indices into the heap are those of the code, from 0.  The list of       *)
(* active timers is a sequence, its head first.                            *)
(***************************************************************************)
EXTENDS Integers, Sequences, FiniteSets, OpQueue
LOCAL INSTANCE SequencesExt

CONSTANTS
    Timers,
    Waits,       \* the wait operations, each started once
    MaxTime,     \* bound on the clock
    MaxWait,     \* the reactor waits no longer than this, "5 minutes"
    Never,       \* positive infinity
    Preset,      \* waits started before the first step, as <<timer, wait, time>>
    Active,      \* the timers the program goes on using
    Expiries,    \* the times it sets them to
    Uses         \* the calls it makes

Times == 0 .. Never
NoIndex == Cardinality(Timers)      \* the largest std::size_t, for any heap there can be

ASSUME ConstantsAssumption ==
    /\ MaxTime \in Nat /\ MaxWait \in Nat \ {0} /\ Never \in Nat /\ MaxTime + MaxWait < Never
    /\ Active \subseteq Timers /\ Expiries \subseteq Times
    /\ \A n \in DOMAIN Preset : Preset[n] \in Timers \X Waits \X Times
    /\ Uses \subseteq {"cancel", "cancel_one", "cancel_by_key", "move", "shutdown"}

VARIABLES
    queue,       \* timer_queue_: its heap_, timers_ and the data of its timers
    expiry, might_have_pending_waits,       \* per timer
    due,         \* per wait, the expiry it was started with
    key,         \* per wait, the timer its cancellation slot refers to
    outcome,     \* per wait
    now,         \* the clock
    timer_fd_,   \* the reactor has a timerfd
    armed,       \* when the timerfd becomes readable
    inside,      \* the reactor is in epoll_wait ...
    deadline,    \* ... until this time
    interrupted, \* an interrupt the reactor has not seen
    shutdown_

vars == <<queue, expiry, might_have_pending_waits, due, key, outcome, now, timer_fd_, armed,
          inside, deadline, interrupted, shutdown_>>
clock == <<now, timer_fd_>>

-----------------------------------------------------------------------------
(* The heap.  q is the queue, [heap_, heap_index_, timers_, op_queue_].    *)

Parent(i) == (i - 1) \div 2
TimeAt(q, i) == q.heap_[i + 1].time_
Size(q) == Len(q.heap_)
Smaller(x, y) == IF x < y THEN x ELSE y

\* A loop that needs at most n rounds, Step having no effect once it is over.  (The
\* CHOOSE has TLC evaluate a round once.)
Repeat(Step(_), n, x) ==
    LET f[k \in 0 .. n] == IF k = 0 THEN x
                           ELSE CHOOSE s \in {Step(r) : r \in {f[k - 1]}} : TRUE
    IN  f[n]

\* swap_heap
Swap(q, i, j) ==
    LET a == q.heap_[i + 1]
        b == q.heap_[j + 1]
    IN  [q EXCEPT !.heap_ = [@ EXCEPT ![i + 1] = b, ![j + 1] = a],
                  !.heap_index_ = [@ EXCEPT ![b.timer_] = i, ![a.timer_] = j]]

UpHeap(q, index) ==
    LET Step(s) == IF s.i > 0 /\ TimeAt(s.q, s.i) < TimeAt(s.q, Parent(s.i))
                   THEN [q |-> Swap(s.q, s.i, Parent(s.i)), i |-> Parent(s.i)]
                   ELSE s
    IN  Repeat(Step, Size(q), [q |-> q, i |-> index]).q

DownHeap(q, index) ==
    LET MinChild(s) == LET child == 2 * s.i + 1
                       IN  IF child + 1 = Size(q) \/ TimeAt(s.q, child) < TimeAt(s.q, child + 1)
                           THEN child ELSE child + 1
        Step(s) == IF 2 * s.i + 1 < Size(q) /\ ~(TimeAt(s.q, s.i) < TimeAt(s.q, MinChild(s)))
                   THEN [q |-> Swap(s.q, s.i, MinChild(s)), i |-> MinChild(s)]
                   ELSE s
    IN  Repeat(Step, Size(q), [q |-> q, i |-> index]).q

\* mutant: what fills the gap can only go down
RepairDown(q, i) == DownHeap(q, i)
\* The entry at i has replaced another one.
Repair(q, i) == IF i > 0 /\ TimeAt(q, i) < TimeAt(q, Parent(i)) THEN UpHeap(q, i)
                ELSE DownHeap(q, i)

Listed(q, t) == Has(q.timers_, t)

\* remove_timer
RemoveTimer(q, t) ==
    LET i == q.heap_index_[t]
        last == Size(q) - 1
        Pop(p) == [p EXCEPT !.heap_ = Front(@), !.heap_index_ = [@ EXCEPT ![t] = NoIndex]]
        r == IF i > last THEN q
             ELSE IF i = last THEN Pop(q)
             ELSE Repair(Pop(Swap(q, i, last)), i)
    IN  [r EXCEPT !.timers_ = SelectSeq(@, LAMBDA x : x # t)]

\* enqueue_timer
EnqueueTimer(q, t, w, time) ==
    LET entered == IF Listed(q, t) THEN q
                   ELSE IF time = Never
                   THEN [q EXCEPT !.heap_index_ = [@ EXCEPT ![t] = NoIndex],
                                  !.timers_ = <<t>> \o @]
                   ELSE UpHeap([q EXCEPT !.heap_index_ = [@ EXCEPT ![t] = Size(q)],
                                         !.heap_ = Append(@, [time_ |-> time, timer_ |-> t]),
                                         !.timers_ = <<t>> \o @], Size(q))
    IN  [entered EXCEPT !.op_queue_ = [@ EXCEPT ![t] = Append(@, w)]]

\* mutant: the new timer counts as the earliest only if it is alone
IsEarliestAlone(q, t, w) == Size(q) = 1 /\ Head(q.op_queue_[t]) = w
\* What enqueue_timer returns.
IsEarliest(q, t, w) == q.heap_index_[t] = 0 /\ Head(q.op_queue_[t]) = w

\* mutant: a timer is ready only after its time
DueLate(q, time) == q.heap_ # <<>> /\ TimeAt(q, 0) < time
\* The first timer is not later than the given time.
Due(q, time) == q.heap_ # <<>> /\ ~(time < TimeAt(q, 0))

\* get_ready_timers: [q, the operations taken]
ReadyTimers(q, time) ==
    LET Step(s) == IF Due(s.q, time)
                   THEN LET t == s.q.heap_[1].timer_
                        IN  [q |-> RemoveTimer([s.q EXCEPT !.op_queue_ = [@ EXCEPT ![t] = <<>>]], t),
                             ops |-> s.ops \o s.q.op_queue_[t]]
                   ELSE s
    IN  Repeat(Step, Size(q), [q |-> q, ops |-> <<>>])

\* cancel_timer, of at most n operations: [q, the operations taken]
CancelTimer(q, t, n) ==
    LET k == Smaller(n, Len(q.op_queue_[t]))
        rest == SubSeq(q.op_queue_[t], k + 1, Len(q.op_queue_[t]))
        p == [q EXCEPT !.op_queue_ = [@ EXCEPT ![t] = rest]]
    IN  IF Listed(q, t) THEN [q |-> IF rest = <<>> THEN RemoveTimer(p, t) ELSE p,
                              ops |-> SubSeq(q.op_queue_[t], 1, k)]
        ELSE [q |-> q, ops |-> <<>>]

\* cancel_timer_by_key
CancelTimerByKey(q, t, w) ==
    LET rest == SelectSeq(q.op_queue_[t], LAMBDA x : x # w)
        p == [q EXCEPT !.op_queue_ = [@ EXCEPT ![t] = rest]]
    IN  IF Listed(q, t) THEN [q |-> IF rest = <<>> THEN RemoveTimer(p, t) ELSE p,
                              ops |-> SelectSeq(q.op_queue_[t], LAMBDA x : x = w)]
        ELSE [q |-> q, ops |-> <<>>]

\* move_timer, of the queue: target is empty
MoveTimer(q, target, source) ==
    LET i == q.heap_index_[source]
    IN  [q EXCEPT
           !.op_queue_ = [@ EXCEPT ![target] = @ \o q.op_queue_[source], ![source] = <<>>],
           !.heap_index_ = [@ EXCEPT ![target] = i, ![source] = NoIndex],
           !.heap_ = IF i < Len(@) THEN [@ EXCEPT ![i + 1].timer_ = target] ELSE @,
           !.timers_ = [n \in DOMAIN @ |-> IF @[n] = source THEN target ELSE @[n]]]

-----------------------------------------------------------------------------
(* The reactor's clock.                                                    *)

\* get_timeout, as a point in time: the earliest expiry, but no more than MaxWait from now.
GetTimeout(q, limit) ==
    Smaller(now + limit, IF q.heap_ = <<>> THEN Never ELSE TimeAt(q, 0))

\* update_timeout: sets the timerfd, or has the reactor compute its timeout anew
UpdateTimeout(q) ==
    IF timer_fd_ THEN armed' = GetTimeout(q, MaxWait) /\ UNCHANGED interrupted
    ELSE interrupted' = TRUE /\ UNCHANGED armed

EmptyQueue == [heap_ |-> <<>>, heap_index_ |-> [t \in Timers |-> NoIndex],
               timers_ |-> <<>>, op_queue_ |-> [t \in Timers |-> <<>>]]

PresetQueue ==
    LET f[n \in 0 .. Len(Preset)] ==
            IF n = 0 THEN EmptyQueue
            ELSE EnqueueTimer(f[n - 1], Preset[n][1], Preset[n][2], Preset[n][3])
    IN  f[Len(Preset)]
PresetTime(t) == LET s == SelectSeq(Preset, LAMBDA p : p[1] = t)
                 IN  IF s = <<>> THEN 0 ELSE s[1][3]

\* A new context whose program has started the waits of Preset.
Init ==
    /\ queue = PresetQueue
    /\ expiry = [t \in Timers |-> PresetTime(t)]
    /\ might_have_pending_waits = [t \in Timers |-> \E n \in DOMAIN Preset : Preset[n][1] = t]
    /\ outcome = [w \in Waits |-> IF \E n \in DOMAIN Preset : Preset[n][2] = w
                                  THEN "waits" ELSE "new"]
    /\ due = [w \in Waits |-> LET s == SelectSeq(Preset, LAMBDA p : p[2] = w)
                              IN  IF s = <<>> THEN 0 ELSE s[1][3]]
    /\ key = [w \in Waits |-> LET s == SelectSeq(Preset, LAMBDA p : p[2] = w)
                              IN  IF s = <<>> THEN CHOOSE t \in Timers : TRUE ELSE s[1][1]]
    /\ now = 0
    /\ timer_fd_ \in BOOLEAN
    /\ armed = IF timer_fd_ /\ Preset # <<>>
               THEN Smaller(MaxWait, TimeAt(PresetQueue, 0)) ELSE Never
    /\ inside = FALSE /\ deadline = 0
    /\ interrupted = TRUE           \* by the reactor's constructor
    /\ shutdown_ = FALSE

-----------------------------------------------------------------------------
(* The timers of the program.                                              *)

\* The operations ops leave the queue with the result how.
Completed(ops, how) == [w \in Waits |-> IF Has(ops, w) THEN how ELSE outcome[w]]

\* Nothing but the queue and the outcomes changes: r is [q, ops].
Takes(r) == /\ queue' = r.q /\ outcome' = Completed(r.ops, "aborted")
            /\ UNCHANGED <<due, key, clock, armed, inside, deadline, interrupted, shutdown_>>

Forever == Cardinality(Waits)       \* more than any timer has operations

\* cancel(), also by the destructor; the flag spares timers nobody waits on the mutex.
CancelPending(t) == IF might_have_pending_waits[t] THEN CancelTimer(queue, t, Forever)
                    ELSE [q |-> queue, ops |-> <<>>]

Cancel(t) ==
    /\ "cancel" \in Uses /\ might_have_pending_waits[t]
    /\ Takes(CancelPending(t))
    /\ might_have_pending_waits' = [might_have_pending_waits EXCEPT ![t] = FALSE]
    /\ UNCHANGED expiry

\* mutant: the flag is cleared although others may wait
FlagAfterOneFalse(t, count) == FALSE
\* might_have_pending_waits after cancel_one
FlagAfterOne(t, count) == count # 0

CancelOne(t) ==
    /\ "cancel_one" \in Uses /\ might_have_pending_waits[t]
    /\ LET r == CancelTimer(queue, t, 1)
       IN  /\ Takes(r)
           /\ might_have_pending_waits' =
                  [might_have_pending_waits EXCEPT ![t] = FlagAfterOne(t, Len(r.ops))]
    /\ UNCHANGED expiry

\* expires_at, expires_after
ExpiresAt(t, time) ==
    /\ Takes(CancelPending(t))
    /\ might_have_pending_waits' = [might_have_pending_waits EXCEPT ![t] = FALSE]
    /\ expiry' = [expiry EXCEPT ![t] = time]

\* async_wait, schedule_timer
AsyncWait(t, w) ==
    /\ outcome[w] = "new"
    /\ might_have_pending_waits' = [might_have_pending_waits EXCEPT ![t] = TRUE]
    /\ due' = [due EXCEPT ![w] = expiry[t]] /\ key' = [key EXCEPT ![w] = t]
    /\ IF shutdown_
       THEN outcome' = [outcome EXCEPT ![w] = "abandoned"] /\ UNCHANGED <<queue, armed, interrupted>>
       ELSE LET q == EnqueueTimer(queue, t, w, expiry[t])
            IN  /\ queue' = q
                /\ outcome' = [outcome EXCEPT ![w] = "waits"]
                /\ IF IsEarliest(q, t, w) THEN UpdateTimeout(q) ELSE UNCHANGED <<armed, interrupted>>
    /\ UNCHANGED <<expiry, clock, inside, deadline, shutdown_>>

\* op_cancellation, cancel_timer_by_key: the slot of w knows the timer it was started on
CancelByKey(w) ==
    /\ "cancel_by_key" \in Uses /\ outcome[w] = "waits" /\ key[w] \in Active
    /\ Takes(CancelTimerByKey(queue, key[w], w))
    /\ UNCHANGED <<expiry, might_have_pending_waits>>

\* move_construct and move_assign: epoll_reactor::move_timer cancels what waits on the target.
Move(target, source) ==
    /\ "move" \in Uses /\ target # source
    /\ LET r == CancelTimer(queue, target, Forever)
       IN  Takes([q |-> MoveTimer(r.q, target, source), ops |-> r.ops])
    /\ expiry' = [expiry EXCEPT ![target] = expiry[source], ![source] = 0]
    /\ might_have_pending_waits' =
           [might_have_pending_waits EXCEPT ![target] = might_have_pending_waits[source],
                                            ![source] = FALSE]

-----------------------------------------------------------------------------
(* The reactor.                                                            *)

\* mutant: epoll_wait blocks whether the timers have a descriptor or not
DeadlineNever(limit) == IF limit = 0 THEN now ELSE Never
\* The timeout of epoll_wait, as a point in time
Deadline(limit) == IF limit = 0 THEN now
                   ELSE IF timer_fd_ THEN Never
                   ELSE GetTimeout(queue, limit)

\* run() up to epoll_wait; limit is 0 for a poll, and MaxWait for no limit at all.
Enter(limit) ==
    /\ ~inside /\ ~shutdown_ /\ inside' = TRUE
    /\ deadline' = Deadline(limit)
    /\ UNCHANGED <<queue, expiry, might_have_pending_waits, due, key, outcome, clock, armed,
                   interrupted, shutdown_>>

\* epoll_wait has a reason to return.
Woken == now >= deadline \/ interrupted \/ (timer_fd_ /\ now >= armed)

\* check_timers
CheckTimers == ~timer_fd_ \/ now >= armed

\* epoll_wait returns, for such a reason or for an event of a descriptor.
Return ==
    /\ inside /\ inside' = FALSE /\ interrupted' = FALSE
    /\ IF CheckTimers
       THEN \E r \in {ReadyTimers(queue, now)} :
                /\ queue' = r.q /\ outcome' = Completed(r.ops, "fired")
                /\ armed' = IF timer_fd_ THEN GetTimeout(r.q, MaxWait) ELSE armed
       ELSE UNCHANGED <<queue, outcome, armed>>
    /\ UNCHANGED <<expiry, might_have_pending_waits, due, key, clock, deadline, shutdown_>>

Tick == /\ now < MaxTime /\ now' = now + 1
        /\ UNCHANGED <<queue, expiry, might_have_pending_waits, due, key, outcome, timer_fd_,
                       armed, inside, deadline, interrupted, shutdown_>>

\* shutdown(), get_all_timers: the operations are destroyed
Shutdown ==
    /\ "shutdown" \in Uses /\ ~inside /\ ~shutdown_ /\ shutdown_' = TRUE
    /\ queue' = [queue EXCEPT !.timers_ = <<>>, !.heap_ = <<>>,
                              !.op_queue_ = [t \in Timers |-> <<>>]]
    /\ outcome' = [w \in Waits |-> IF outcome[w] = "waits" THEN "abandoned" ELSE outcome[w]]
    /\ UNCHANGED <<expiry, might_have_pending_waits, due, key, clock, armed, inside, deadline,
                   interrupted>>

-----------------------------------------------------------------------------
Next ==
    \/ \E t \in Active :
         \/ Cancel(t) \/ CancelOne(t)
         \/ \E time \in Expiries : ExpiresAt(t, time)
         \/ \E w \in Waits : AsyncWait(t, w)
         \/ \E u \in Active : Move(t, u)
    \/ \E w \in Waits : CancelByKey(w)
    \/ \E limit \in {0, MaxWait} : Enter(limit)
    \/ Return
    \/ Tick
    \/ Shutdown

Spec == Init /\ [][Next]_vars

(***************************************************************************)
(* Fairness: time passes, the scheduler keeps calling the reactor with no  *)
(* limit while it has work (Scheduler), and a reactor with a reason to     *)
(* return does so.                                                         *)
(***************************************************************************)
FairSpec == /\ Spec
            /\ WF_vars(Tick) /\ WF_vars(Enter(MaxWait)) /\ WF_vars(Woken /\ Return)

-----------------------------------------------------------------------------
(* Properties.                                                             *)

\* The variables have their types.
TypeOK ==
    /\ queue.heap_ \in Seq([time_ : Times, timer_ : Timers])
    /\ queue.heap_index_ \in [Timers -> 0 .. NoIndex]
    /\ queue.timers_ \in Seq(Timers) /\ queue.op_queue_ \in [Timers -> Seq(Waits)]
    /\ expiry \in [Timers -> Times] /\ might_have_pending_waits \in [Timers -> BOOLEAN]
    /\ due \in [Waits -> Times] /\ key \in [Waits -> Timers]
    /\ outcome \in [Waits -> {"new", "waits", "fired", "aborted", "abandoned"}]
    /\ now \in 0 .. MaxTime /\ armed \in Times /\ deadline \in Times
    /\ timer_fd_ \in BOOLEAN /\ inside \in BOOLEAN /\ interrupted \in BOOLEAN
    /\ shutdown_ \in BOOLEAN

\* heap_ is a heap, with the earliest timer at the front, of the active timers that
\* expire, each of which knows its place in it; the active timers are those with
\* operations, and each of these waits for the time the heap has for it.
HeapConsistent ==
    /\ TypeOK
    /\ \A i \in 1 .. Size(queue) - 1 : TimeAt(queue, Parent(i)) <= TimeAt(queue, i)
    /\ \A t \in Timers :
         /\ Listed(queue, t) <=> queue.op_queue_[t] # <<>>
         /\ AtMostOnce(queue.timers_, t)
         /\ \A i \in 0 .. Size(queue) - 1 :
              queue.heap_[i + 1].timer_ = t <=> Listed(queue, t) /\ queue.heap_index_[t] = i
         /\ Listed(queue, t) /\ queue.heap_index_[t] >= Size(queue)
              => \A w \in ToSet(queue.op_queue_[t]) : due[w] = Never
         /\ Listed(queue, t) /\ queue.heap_index_[t] < Size(queue)
              => \A w \in ToSet(queue.op_queue_[t]) : due[w] = TimeAt(queue, queue.heap_index_[t])

\* The operations that wait are those in the queue, and they wait on a timer that
\* still has their expiry and whose flag tells cancel() to look for them.
WaitsAreKept ==
    \A w \in Waits : outcome[w] = "waits" <=>
        \E t \in Timers : /\ Has(queue.op_queue_[t], w)
                          /\ expiry[t] = due[w] /\ might_have_pending_waits[t]

\* The reactor wakes up in time for the first timer, whenever the timer was added:
\* the timerfd is set to its expiry or before, or epoll_wait's own timeout is, or
\* an interrupt is on its way.
WokenInTime ==
    queue.heap_ # <<>> =>
        IF timer_fd_ THEN armed <= TimeAt(queue, 0)
        ELSE inside => deadline <= TimeAt(queue, 0) \/ deadline <= now \/ interrupted

\* "Dequeue all timers not later than the current time": a wait is completed for no
\* time before its own, whichever timers left the heap's root before, and having looked
\* at the timers the reactor leaves none behind whose time has come.
FiredWhenDue ==
    [][\A w \in Waits :
          /\ outcome[w] = "waits" /\ outcome'[w] = "fired" => due[w] <= now
          /\ outcome'[w] = "waits" /\ inside /\ ~inside' /\ CheckTimers => now < due[w]]_vars

\* Every wait completes, unless its timer never expires or the clock stops before.
WaitEnds == \A w \in Waits : []<>~(outcome[w] = "waits" /\ due[w] <= MaxTime)
=============================================================================
