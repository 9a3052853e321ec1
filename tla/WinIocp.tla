------------------------------ MODULE WinIocp ------------------------------
(***************************************************************************)
(* asio::detail::win_iocp_io_context: the scheduler on Windows, where the  *)
(* queue is a completion port of the system and every shared word is       *)
(* changed by an interlocked operation, each a step here.                  *)
(*                                                                         *)
(* An operation started by an overlapped call may come out of the port     *)
(* before the call has returned; ready_ decides, between the initiating    *)
(* thread and the completing one, who comes last and dispatches it.        *)
(* Posting to the port may fail for want of resources: the operation goes  *)
(* to completed_ops_ and dispatch_required_ tells some thread to post it.  *)
(* One stop event circulates among the threads.                            *)
(***************************************************************************)
EXTENDS Integers, Sequences, FiniteSets, OpQueue

CONSTANTS
    Threads,
    MaxOps,         \* bound on the operations started
    MaxFails,       \* bound on the failures of PostQueuedCompletionStatus
    FiniteTimeout,  \* gqcs_timeout_ is finite
    Modes,          \* the run functions the program calls
    Uses            \* the other calls it makes

Ops == 1 .. MaxOps
NoOp == 0
Loops == {"run", "poll"}
AllModes == {"run", "run_one", "wait_one", "poll", "poll_one"}
AllUses == {"post", "io", "timer", "cancel", "stop", "restart", "throw", "shutdown"}

ASSUME IocpAssumption ==
    /\ {"none", "returned"} \cap Threads = {}
    /\ MaxOps \in Nat /\ MaxFails \in Nat /\ FiniteTimeout \in BOOLEAN
    /\ Modes \subseteq AllModes /\ Uses \subseteq AllUses

VARIABLES
    outstanding_work_, stopped_, stop_event_posted_, shutdown_, dispatch_required_,
    completed_ops_,
    port,        \* the packets in the completion port
    fails,       \* the failed posts so far
    issued,      \* the number of operations started
    ready_,      \* per operation
    overlapped,  \* the result saved in its OVERLAPPED structure
    call,        \* the thread in the overlapped call that starts it, or "returned"
    device,      \* what the system does with it
    seen,        \* the result given to its handler; "destroyed" by shutdown()
    timers,      \* the waiting timer operations
    due,         \* those of them whose time has come
    waitable_timer_, timer_thread_,
    pc, mode, cur,
    ret          \* where stop() returns to

control == <<outstanding_work_, stopped_, stop_event_posted_, shutdown_>>
queues == <<port, completed_ops_, dispatch_required_, fails>>
ops == <<issued, ready_, overlapped, call, device, seen>>
timing == <<timers, due, waitable_timer_, timer_thread_>>
threads == <<pc, mode, cur, ret>>
vars == <<control, queues, ops, timing, threads>>

-----------------------------------------------------------------------------
\* A packet holds an operation and its result, or says that it is in the structure.
Packet(o, res) == [op |-> o, res |-> res]
StopPacket == Packet(NoOp, "stop")
WakePacket == Packet(NoOp, "wake_for_dispatch")
InOverlapped == "overlapped_contains_result"

NoPacket == Packet(NoOp, "none")

Goto(t, p) == /\ pc' = [pc EXCEPT ![t] = p]
              /\ mode' = [mode EXCEPT ![t] = IF p = "idle" THEN "none" ELSE @]
\* The next do_one of a loop; otherwise the function returns.
AfterOne(t) == IF mode[t] \in Loops THEN "top" ELSE "idle"
Calling(t) == \E o \in Ops : call[o] = t
MayCall(t) == pc[t] \in {"idle", "handler"} /\ ~Calling(t) /\ ~shutdown_

Init ==
    /\ outstanding_work_ = 0 /\ stopped_ = FALSE /\ stop_event_posted_ = FALSE /\ shutdown_ = FALSE
    /\ dispatch_required_ = FALSE /\ completed_ops_ = <<>> /\ port = <<>> /\ fails = 0
    /\ issued = 0 /\ ready_ = [o \in Ops |-> FALSE]
    /\ overlapped = [o \in Ops |-> "none"] /\ call = [o \in Ops |-> "none"]
    /\ device = [o \in Ops |-> "none"] /\ seen = [o \in Ops |-> "none"]
    /\ timers = {} /\ due = {} /\ waitable_timer_ = "off" /\ timer_thread_ = "waits"
    /\ pc = [t \in Threads |-> "idle"] /\ mode = [t \in Threads |-> "none"]
    /\ cur = [t \in Threads |-> NoPacket] /\ ret = [t \in Threads |-> "idle"]

\* mutant: an operation on completed_ops_ waits for somebody else to set the flag
RequiredAsBefore(kept) == dispatch_required_
Required(kept) == dispatch_required_ \/ kept

OpsOf(packets) == [i \in 1 .. Len(packets) |-> packets[i].op]

\* PostQueuedCompletionStatus for a list of packets, as post_deferred_completions does:
\* the first n succeed; the next one, if any, fails and is put on completed_ops_ with
\* those after it.  The operations it has come to are ready.
Fail == fails < MaxFails /\ fails' = fails + 1
Post(packets, left) ==
    \E n \in 0 .. Len(packets) :
        /\ IF n = Len(packets) THEN UNCHANGED fails ELSE Fail
        /\ port' = port \o SubSeq(packets, 1, n)
        /\ completed_ops_' = left \o OpsOf(SubSeq(packets, n + 1, Len(packets)))
        /\ dispatch_required_' = Required(n < Len(packets))
        /\ ready_' = [o \in Ops |-> ready_[o] \/ \E i \in DOMAIN packets : i <= n + 1 /\ packets[i].op = o]

-----------------------------------------------------------------------------
(* stop(), called from several places; ret says where it was called. *)

Return(t) == Goto(t, ret[t]) /\ ret' = [ret EXCEPT ![t] = "idle"]
OnTo(t, p) == Goto(t, p) /\ UNCHANGED ret

StopFlag(t) ==
    /\ pc[t] = "stop"
    /\ stopped_' = TRUE
    /\ IF stopped_ THEN Return(t) ELSE OnTo(t, "stop_event")
    /\ UNCHANGED <<outstanding_work_, stop_event_posted_, shutdown_, queues, ops, timing, cur>>

StopEvent(t) ==
    /\ pc[t] = "stop_event"
    /\ stop_event_posted_' = TRUE
    /\ IF stop_event_posted_ THEN Return(t) ELSE OnTo(t, "stop_post")
    /\ UNCHANGED <<outstanding_work_, stopped_, shutdown_, queues, ops, timing, cur>>

\* If posting fails, stop() throws and do_one() returns an error; the flag stays set.
StopPost(t) ==
    /\ pc[t] = "stop_post"
    /\ \/ port' = Append(port, StopPacket) /\ UNCHANGED fails /\ Return(t)
       \/ Fail /\ UNCHANGED port
          /\ IF ret[t] = "handler" THEN Return(t) ELSE Goto(t, "idle") /\ ret' = [ret EXCEPT ![t] = "idle"]
    /\ UNCHANGED <<control, completed_ops_, dispatch_required_, ops, timing, cur>>

CallStop(t, back) == Goto(t, "stop") /\ ret' = [ret EXCEPT ![t] = back]

-----------------------------------------------------------------------------
(* run(), run_one(), wait_one(), poll(), poll_one() and do_one(). *)

Enter(t, m) ==
    /\ pc[t] = "idle" /\ MayCall(t) /\ m \in Modes
    /\ mode' = [mode EXCEPT ![t] = m]
    /\ pc' = [pc EXCEPT ![t] = IF outstanding_work_ = 0 THEN "stop" ELSE "top"]
    /\ UNCHANGED <<control, queues, ops, timing, cur, ret>>

\* Try to acquire responsibility for dispatching timers and completed operations.
Top(t) ==
    /\ pc[t] = "top"
    /\ dispatch_required_' = FALSE
    /\ Goto(t, IF dispatch_required_ THEN "dispatch" ELSE "get")
    /\ UNCHANGED <<control, completed_ops_, port, fails, ops, timing, cur, ret>>

Posted(q) == [i \in 1 .. Len(q) |-> Packet(q[i], "ok")]
Dispatch(t) ==
    /\ pc[t] = "dispatch"
    /\ \E ready \in {q \in [1 .. Cardinality(due) -> due] : \A i, j \in DOMAIN q : q[i] = q[j] => i = j} :
          Post(Posted(completed_ops_ \o ready), <<>>)
    /\ timers' = timers \ due /\ due' = {}
    /\ waitable_timer_' = IF timers \ due = {} THEN waitable_timer_ ELSE "set"   \* update_timeout
    /\ Goto(t, "get")
    /\ UNCHANGED <<control, issued, overlapped, call, device, seen, timer_thread_, cur, ret>>

\* GetQueuedCompletionStatus returns a packet.
Get(t) ==
    /\ pc[t] = "get" /\ port # <<>>
    /\ port' = Tail(port)
    /\ \/ Head(port) = StopPacket /\ Goto(t, "stop_seen") /\ UNCHANGED cur
       \/ Head(port) = WakePacket /\ Goto(t, "top") /\ UNCHANGED cur
       \/ Head(port).op \in Ops /\ Goto(t, "got") /\ cur' = [cur EXCEPT ![t] = Head(port)]
    /\ UNCHANGED <<control, completed_ops_, dispatch_required_, fails, ops, timing, ret>>

\* It times out: at once for poll(), after a while for wait_one(); a thread that
\* waits indefinitely goes on.
GetNothing(t) ==
    /\ pc[t] = "get" /\ port = <<>>
    /\ mode[t] \in {"run", "run_one"} => FiniteTimeout
    /\ Goto(t, IF mode[t] \in {"run", "run_one"} THEN "top" ELSE "idle")
    /\ UNCHANGED <<control, queues, ops, timing, cur, ret>>

\* mutant: the completion key is not consulted
SavedAgain(t) == [overlapped EXCEPT ![cur[t].op] = cur[t].res]
Saved(t) == IF cur[t].res = InOverlapped THEN overlapped
                                         ELSE [overlapped EXCEPT ![cur[t].op] = cur[t].res]

\* mutant: ready_ is not consulted
DispatchableAlways(o) == TRUE
Dispatchable(o) == ready_[o]

\* Dispatch the operation only if ready; otherwise the initiating thread will post it.
Claim(t) ==
    LET o == cur[t].op
    IN  /\ pc[t] = "got"
        /\ IF Dispatchable(o)
           THEN /\ Goto(t, "handler")
                /\ seen' = [seen EXCEPT ![o] = Saved(t)[o]]
                /\ ready_' = [ready_ EXCEPT ![o] = FALSE]             \* the operation is gone
                /\ overlapped' = [overlapped EXCEPT ![o] = "none"]
           ELSE /\ Goto(t, "top")
                /\ ready_' = [ready_ EXCEPT ![o] = TRUE]
                /\ overlapped' = Saved(t)
                /\ UNCHANGED seen
        /\ cur' = [cur EXCEPT ![t] = NoPacket]
        /\ UNCHANGED <<control, queues, issued, call, device, timing, ret>>

\* The handler returns, or throws out of the run function; work_finished() either way.
HandlerEnds(t, throws) ==
    /\ pc[t] = "handler" /\ ~Calling(t)
    /\ throws => "throw" \in Uses
    /\ outstanding_work_' = outstanding_work_ - 1
    /\ LET back == IF throws THEN "idle" ELSE AfterOne(t)
       IN  IF outstanding_work_ = 1 THEN CallStop(t, back) ELSE OnTo(t, back)
    /\ UNCHANGED <<stopped_, stop_event_posted_, shutdown_, queues, ops, timing, cur>>

\* A stop event: it is no longer in flight; if it is not left over, pass it on and return.
StopSeen(t) ==
    /\ pc[t] = "stop_seen"
    /\ stop_event_posted_' = FALSE
    /\ Goto(t, "stop_check")
    /\ UNCHANGED <<outstanding_work_, stopped_, shutdown_, queues, ops, timing, cur, ret>>

\* mutant: the thread leaves without waking the next one
PassOnNothing(t) == OnTo(t, "idle")
PassOn(t) == OnTo(t, "stop_event")
StopCheck(t) ==
    /\ pc[t] = "stop_check"
    /\ IF stopped_ THEN PassOn(t) ELSE OnTo(t, "top")
    /\ UNCHANGED <<control, queues, ops, timing, cur>>

-----------------------------------------------------------------------------
(* Starting and completing operations. *)

Issue(t, o) == MayCall(t) /\ o = issued + 1 /\ o \in Ops /\ issued' = o

WorkStarted == outstanding_work_ + 1

\* post_immediate_completion: work_started, then post_deferred_completion.
PostImmediate(t, o) ==
    /\ "post" \in Uses /\ Issue(t, o)
    /\ outstanding_work_' = WorkStarted
    /\ Post(<<Packet(o, "ok")>>, completed_ops_)
    /\ UNCHANGED <<stopped_, stop_event_posted_, shutdown_, overlapped, call, device, seen,
                   timing, threads>>

\* An initiating function, after work_started: the system has the operation.
StartIo(t, o) ==
    /\ "io" \in Uses /\ Issue(t, o)
    /\ outstanding_work_' = WorkStarted
    /\ call' = [call EXCEPT ![o] = t] /\ device' = [device EXCEPT ![o] = "busy"]
    /\ UNCHANGED <<stopped_, stop_event_posted_, shutdown_, queues, ready_, overlapped, seen,
                   timing, threads>>

\* External: the operation completes; the system adds the packet and cannot fail.
DeviceCompletes(o) ==
    /\ device[o] = "busy"
    /\ device' = [device EXCEPT ![o] = "completed"]
    /\ port' = Append(port, Packet(o, "io"))
    /\ UNCHANGED <<control, completed_ops_, dispatch_required_, fails, issued, ready_, overlapped,
                   call, seen, timing, threads>>

TakenOut(o) == ready_[o]

\* on_pending: the call has returned and the operation was accepted.
OnPending(o) ==
    /\ call[o] \in Threads
    /\ call' = [call EXCEPT ![o] = "returned"]
    /\ IF TakenOut(o) THEN Post(<<Packet(o, InOverlapped)>>, completed_ops_)
                      ELSE ready_' = [ready_ EXCEPT ![o] = TRUE] /\ UNCHANGED queues
    /\ UNCHANGED <<control, issued, overlapped, device, seen, timing, threads>>

\* on_completion: the call has failed, and the system forgets the operation.
OnCompletion(o) ==
    /\ call[o] \in Threads /\ device[o] = "busy"
    /\ call' = [call EXCEPT ![o] = "returned"] /\ device' = [device EXCEPT ![o] = "refused"]
    /\ overlapped' = [overlapped EXCEPT ![o] = "failed"]
    /\ Post(<<Packet(o, InOverlapped)>>, completed_ops_)
    /\ UNCHANGED <<control, issued, seen, timing, threads>>

-----------------------------------------------------------------------------
(* Timers: a waitable timer, and a thread that waits for it.  The timer's period of    *)
(* several minutes, which makes up for a signal that was lost, is left out.            *)

\* The waitable timer is set again if the new one is the earliest.
ScheduleTimer(t, o) ==
    /\ "timer" \in Uses /\ Issue(t, o)
    /\ outstanding_work_' = WorkStarted
    /\ timers' = timers \cup {o}
    /\ \/ waitable_timer_' = "set"
       \/ timers # {} /\ UNCHANGED waitable_timer_
    /\ UNCHANGED <<stopped_, stop_event_posted_, shutdown_, queues, ready_, overlapped, call, device,
                   seen, due, timer_thread_, threads>>

CancelTimer(t, o) ==
    /\ "cancel" \in Uses /\ MayCall(t) /\ o \in timers
    /\ timers' = timers \ {o} /\ due' = due \ {o}
    /\ Post(<<Packet(o, "ok")>>, completed_ops_)
    /\ UNCHANGED <<control, issued, overlapped, call, device, seen, waitable_timer_, timer_thread_, threads>>

\* External: the time of a timer comes.
TimerDue(o) ==
    /\ o \in timers \ due
    /\ due' = due \cup {o}
    /\ UNCHANGED <<control, queues, ops, timers, waitable_timer_, timer_thread_, threads>>

\* The waitable timer is signalled, also for a timer that has been cancelled since.
TimerThreadRequires ==
    /\ timer_thread_ = "waits" /\ waitable_timer_ = "set" /\ (due # {} \/ timers = {})
    /\ waitable_timer_' = "off" /\ timer_thread_' = "posts"
    /\ dispatch_required_' = TRUE
    /\ UNCHANGED <<control, completed_ops_, port, fails, ops, timers, due, threads>>

\* The result of this post is not looked at.
TimerThreadPosts ==
    /\ timer_thread_ = "posts"
    /\ timer_thread_' = "waits"
    /\ \/ port' = Append(port, WakePacket) /\ UNCHANGED fails
       \/ Fail /\ UNCHANGED port
    /\ UNCHANGED <<control, completed_ops_, dispatch_required_, ops, timers, due, waitable_timer_, threads>>

-----------------------------------------------------------------------------
Stop(t) == /\ "stop" \in Uses /\ MayCall(t)
           /\ CallStop(t, pc[t])
           /\ UNCHANGED <<control, queues, ops, timing, cur>>

\* Not while a run function is being executed.
Restart == /\ "restart" \in Uses /\ stopped_ /\ ~shutdown_ /\ \A t \in Threads : pc[t] = "idle"
           /\ stopped_' = FALSE
           /\ UNCHANGED <<outstanding_work_, stop_event_posted_, shutdown_, queues, ops, timing, threads>>

\* shutdown(), after the threads and all initiating calls have returned.
Shutdown == /\ "shutdown" \in Uses /\ ~shutdown_
            /\ \A t \in Threads : pc[t] = "idle"
            /\ \A t \in Threads : ~Calling(t)
            /\ shutdown_' = TRUE
            /\ UNCHANGED <<outstanding_work_, stopped_, stop_event_posted_, queues, ops, timing, threads>>

Held == timers \cup {o \in Ops : Has(completed_ops_, o)}
Destroy(os) == /\ seen' = [o \in Ops |-> IF o \in os THEN "destroyed" ELSE seen[o]]
               /\ outstanding_work_' = outstanding_work_ - Cardinality(os)

\* One turn of its loop: what is held here, otherwise what comes out of the port.
ShutdownLoop ==
    /\ shutdown_ /\ outstanding_work_ > 0
    /\ IF Held # {}
       THEN /\ Destroy(Held)
            /\ timers' = {} /\ due' = {} /\ completed_ops_' = <<>>
            /\ UNCHANGED port
       ELSE /\ port # <<>>
            /\ port' = Tail(port)
            /\ Destroy({Head(port).op} \ {NoOp})
            /\ UNCHANGED <<timers, due, completed_ops_>>
    /\ UNCHANGED <<stopped_, stop_event_posted_, shutdown_, dispatch_required_, fails, issued, ready_,
                   overlapped, call, device, waitable_timer_, timer_thread_, threads>>

\* The library's own steps.
Step(t) ==
    \/ StopFlag(t) \/ StopEvent(t) \/ StopPost(t)
    \/ Top(t) \/ Dispatch(t) \/ Get(t) \/ GetNothing(t) \/ Claim(t)
    \/ \E throws \in BOOLEAN : HandlerEnds(t, throws)
    \/ StopSeen(t) \/ StopCheck(t)

Program(t) ==
    \/ \E m \in Modes : Enter(t, m)
    \/ \E o \in Ops : PostImmediate(t, o) \/ StartIo(t, o) \/ ScheduleTimer(t, o) \/ CancelTimer(t, o)
    \/ Stop(t)

System == \E o \in Ops : DeviceCompletes(o) \/ OnPending(o) \/ OnCompletion(o) \/ TimerDue(o)
TimerThread == TimerThreadRequires \/ TimerThreadPosts

Next ==
    \/ \E t \in Threads : Step(t) \/ Program(t)
    \/ System
    \/ TimerThread
    \/ Restart
    \/ Shutdown
    \/ ShutdownLoop

Spec == Init /\ [][Next]_vars

-----------------------------------------------------------------------------
\* The variables have their types; outstanding_work_ never falls below zero.
TypeOK ==
    /\ outstanding_work_ \in 0 .. MaxOps
    /\ stopped_ \in BOOLEAN /\ stop_event_posted_ \in BOOLEAN /\ shutdown_ \in BOOLEAN
    /\ dispatch_required_ \in BOOLEAN
    /\ port \in Seq([op : Ops, res : {"ok", "io", InOverlapped}] \cup {StopPacket, WakePacket})
    /\ completed_ops_ \in Seq(Ops) /\ fails \in 0 .. MaxFails /\ issued \in 0 .. MaxOps
    /\ ready_ \in [Ops -> BOOLEAN]
    /\ overlapped \in [Ops -> {"none", "ok", "io", "failed"}]
    /\ call \in [Ops -> Threads \cup {"none", "returned"}]
    /\ device \in [Ops -> {"none", "busy", "completed", "refused"}]
    /\ seen \in [Ops -> {"none", "ok", "io", "failed", "destroyed"}]
    /\ due \subseteq timers /\ timers \subseteq Ops
    /\ waitable_timer_ \in {"off", "set"} /\ timer_thread_ \in {"waits", "posts"}

\* Where an operation can be.
Places == ({"port", "completed_ops", "timers", "device", "initiator"} \X {NoOp})
          \cup ({"thread"} \X Threads)
Holds(p, o) ==
    \/ p[1] = "port" /\ Has(OpsOf(port), o)
    \/ p[1] = "completed_ops" /\ Has(completed_ops_, o)
    \/ p[1] = "timers" /\ o \in timers
    \/ p[1] = "device" /\ device[o] = "busy"
    \/ p[1] = "initiator" /\ call[o] \in Threads /\ ready_[o]
    \/ p[1] = "thread" /\ pc[p[2]] = "got" /\ cur[p[2]].op = o

\* Every started operation is in exactly one place until it is dispatched or destroyed,
\* once, and in none afterwards: the two claims on ready_, failed posts and shutdown()
\* neither lose an operation nor complete it twice.  Nor is it dispatched, which destroys
\* it, while the function that started it has yet to return (ready_ in do_one).
OnePlace ==
    /\ TypeOK
    /\ \A o \in 1 .. issued :
         /\ AtMostOnce(OpsOf(port), o) /\ AtMostOnce(completed_ops_, o)
         /\ \A p \in Places : Holds(p, o) => \A q \in Places : Holds(q, o) => p = q
         /\ (\E p \in Places : Holds(p, o)) <=> seen[o] = "none"
    /\ \A o \in Ops : seen[o] # "none" => call[o] \notin Threads

\* The handler is given the result of the operation, although the packet that carried
\* it may have been consumed before the operation could be dispatched.  (A post that
\* has failed loses the result: completed_ops_ is posted without it.)
ResultKept ==
    fails = 0 => \A o \in Ops :
        /\ device[o] = "completed" /\ seen[o] # "none" => seen[o] \in {"io", "destroyed"}
        /\ device[o] = "refused" /\ seen[o] # "none" => seen[o] \in {"failed", "destroyed"}

\* Together: an operation is dispatched once or destroyed, and what it is dispatched with
\* is what the system said of it, whichever of the two threads at ready_ came first.
DispatchedOnce == OnePlace /\ ResultKept

\* No thread stays in a run function of a stopped context: as long as one is inside,
\* the stop event is in the port, or a thread is about to post it or pass it on; and
\* there is never a second one, which would stop a run function of a restarted context.
\* (A failed post of the stop event loses it: its flag stays set.)
StopInFlight ==
    /\ AtMostOnce(port, StopPacket)
    /\ fails = 0 /\ stopped_ /\ (\E t \in Threads : pc[t] \notin {"idle", "stop", "stop_event"})
         => \/ Has(port, StopPacket)
            \/ \E t \in Threads : pc[t] \in {"stop_event", "stop_post", "stop_seen", "stop_check"}

\* An operation whose post failed, or whose time has come, is not forgotten: some
\* thread has been asked to post it, or is doing so, or the timer thread will ask.
DispatchAsked ==
    /\ completed_ops_ # <<>> => dispatch_required_ \/ shutdown_ \/ \E t \in Threads : pc[t] = "dispatch"
    /\ due # {} => \/ dispatch_required_ \/ shutdown_ \/ waitable_timer_ = "set"
                   \/ \E t \in Threads : pc[t] = "dispatch"

\* Neither the stop event nor an operation waits for a thread that nobody will send.
NothingStranded == StopInFlight /\ DispatchAsked
=============================================================================
