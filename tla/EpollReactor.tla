---------------------------- MODULE EpollReactor ----------------------------
(***************************************************************************)
(* The descriptor half of asio::detail::epoll_reactor and the part of      *)
(* reactive_socket_service_base that uses it: sockets are opened, assigned,*)
(* moved, cancelled, released and closed while the reactor, on other       *)
(* threads, returns events for them and performs their operations.         *)
(*                                                                         *)
(* A descriptor_state outlives its socket in the reactor's object pool and *)
(* is handed to the next one, while an event taken from the kernel for its *)
(* former owner may still be on its way.  Files are open file descriptions:*)
(* epoll registers those, and one that another process shares keeps its    *)
(* registration after close().                                             *)
(*                                                                         *)
(* The scheduler appears as queued (the descriptor operations in its queue)*)
(* and job (those its threads complete); it runs the reactor again only    *)
(* once queued is empty, which is Scheduler!DescriptorDequeued.  A         *)
(* descriptor's mutex is held across PerformOp steps by the thread whose   *)
(* job has begun; every other critical section is one step.                *)
(***************************************************************************)
EXTENDS Integers, Sequences, FiniteSets, OpQueue
LOCAL INSTANCE SequencesExt

CONSTANTS
    Sockets,     \* the socket objects
    Threads,     \* the scheduler's threads
    MaxFiles,    \* bound on the files ever opened
    MaxStates,   \* bound on the descriptor states the pool creates
    MaxOps,      \* bound on the operations started
    MaxData,     \* bound on the data waiting in a file
    MaxEvents,   \* size of the array given to epoll_wait
    MaxExtras,   \* bound on what happens beside opening, starting, closing, running;
                 \* an end of file or out-of-band data use it up
    Kinds,       \* the operations the program starts
    Uses         \* the other calls it makes

Files == 1 .. MaxFiles
States == 1 .. MaxStates
Ops == 1 .. MaxOps
None == 0
AllKinds == {"read", "write", "connect", "wait_read", "wait_error"}  \* and "internal"
AllUses == {"assign", "move", "release", "cancel", "cancel_key", "plain_file", "add_fails",
            "fork", "fork_throws", "eof", "shutdown", "internal"}
Types == {"read", "write", "except"}       \* op_types

ASSUME ReactorAssumption ==
    /\ MaxFiles \in Nat /\ MaxStates \in Nat /\ MaxOps \in Nat /\ MaxData \in Nat \ {0}
    /\ MaxEvents \in Nat \ {0} /\ MaxExtras \in Nat
    /\ Kinds \subseteq AllKinds /\ Uses \subseteq AllUses

VARIABLES
    file,        \* the kernel's side of a file: what can be read, space to write, ...
    item,        \* its entry in the epoll set: ev.data.ptr, events, on the ready list
    opened,      \* the number of files opened so far
    extras,      \* arrivals and unusual calls so far, counted for MaxExtras
    sock,        \* base_implementation_type: socket_, reactor_data_, possible_dup
    closing,     \* how far close(), destroy() or release() of a socket has come
    state,       \* the descriptor_state objects
    live, free,  \* the pool's live_list_ and free_list_, first element first
    queued, task_result_,
    job,         \* the descriptor operation a thread is completing
    issued,      \* the number of operations started
    op,          \* of each that is not completed: kind, file, the socket of its slot
    last,        \* per file and type, the operation performed last
    down         \* epoll_reactor::shutdown() has run

kernel == <<file, item, opened, extras>>
pool == <<state, live, free>>
sched == <<queued, task_result_, job>>
program == <<issued, op, last>>
vars == <<kernel, sock, closing, pool, sched, program, down>>

-----------------------------------------------------------------------------
TypeOf(k) == CASE k \in {"read", "wait_read", "internal"} -> "read"
               [] k \in {"write", "connect"} -> "write"
               [] OTHER -> "except"
\* allow_speculative, as the calls of start_op pass it
Speculative(k) == k \in {"read", "write"}
Flag(t) == CASE t = "read" -> "in" [] t = "write" -> "out" [] OTHER -> "pri"
DefaultEvents == {"in", "pri"}             \* and EPOLLERR, EPOLLHUP, EPOLLET

\* External: what poll() would report for a file.
Readiness(f) == (IF file[f].data > 0 \/ file[f].eof THEN {"in"} ELSE {})
                \cup (IF file[f].space > 0 THEN {"out"} ELSE {})
                \cup (IF file[f].urgent THEN {"pri"} ELSE {})

\* External: an entry is put on the ready list when it is added or modified and
\* its file is ready, and whenever something happens to the file.
Entry(d, events, f) == [ptr |-> d, events |-> events,
                        ready |-> d # None /\ Readiness(f) \cap events # {}]
NoFile == [data |-> 0, space |-> 0, eof |-> FALSE, urgent |-> FALSE,
           open |-> FALSE, shared |-> FALSE, plain |-> FALSE]
NoEntry == [ptr |-> None, events |-> {}, ready |-> FALSE]

Locked(d) == \E t \in Threads : job[t].state = d /\ job[t].begun
Waiting(d) == {o \in Ops : \E t \in Types : Has(state[d].op_queue_[t], o)}
IsOpen(s) == sock[s].socket_ # None
Usable(s) == closing[s] = "no" /\ ~down
NoSocket == [socket_ |-> None, reactor_data_ |-> None, possible_dup |-> FALSE, internal |-> FALSE]
NoOp == [kind |-> "none", file |-> None, slot |-> None]
NonePerformed == [t \in Types |-> None]
NoJob == [state |-> None, events |-> {}, begun |-> FALSE, todo |-> {}]

Extra == extras < MaxExtras /\ extras' = extras + 1
OnlyExtra == extras = 0 /\ MaxExtras > 0 /\ extras' = MaxExtras
ExtraIf(unusual) == IF unusual THEN Extra ELSE UNCHANGED extras

Init ==
    /\ file = [f \in Files |-> NoFile]
    /\ item = [f \in Files |-> NoEntry]
    /\ opened = 0 /\ extras = 0
    /\ sock = [s \in Sockets |-> NoSocket]
    /\ closing = [s \in Sockets |-> "no"]
    /\ state = [d \in States |-> [op_queue_ |-> [t \in Types |-> <<>>],
                                  try_speculative_ |-> [t \in Types |-> FALSE],
                                  registered_events_ |-> {}, descriptor_ |-> None,
                                  shutdown_ |-> FALSE]]
    /\ live = <<>> /\ free = <<>>
    /\ queued = {} /\ task_result_ = [d \in States |-> {}]
    /\ job = [t \in Threads |-> NoJob]
    /\ issued = 0 /\ op = [o \in Ops |-> NoOp] /\ last = [f \in Files |-> NonePerformed]
    /\ down = FALSE

-----------------------------------------------------------------------------
(* Registration. *)

\* object_pool::alloc takes the state freed last, or creates one.
Allocated == IF free # <<>> THEN Head(free) ELSE Len(live) + Len(free) + 1

\* The fields of a state as register_descriptor leaves them.
Registered(d, f, events) ==
    [state[d] EXCEPT !.descriptor_ = f, !.shutdown_ = FALSE,
                     !.try_speculative_ = [t \in Types |-> TRUE],
                     !.registered_events_ = events]

Allocate(d) ==
    /\ d = Allocated /\ d \in States
    /\ live' = <<d>> \o live
    /\ free' = IF free = <<>> THEN free ELSE Tail(free)

\* do_open: a new socket.  do_assign: a file the program has, which may be shared,
\* or a plain file, which epoll refuses with EPERM.
Open(s, dup, plain) ==
    LET f == opened + 1
        d == Allocated
        events == IF plain THEN {} ELSE DefaultEvents
    IN  /\ Usable(s) /\ ~IsOpen(s) /\ f \in Files
        /\ dup => "assign" \in Uses
        /\ plain => dup /\ "plain_file" \in Uses
        /\ Allocate(d)
        /\ state' = [state EXCEPT ![d] = Registered(d, f, events)]
        /\ opened' = f
        /\ file' = [file EXCEPT ![f].open = TRUE, ![f].shared = dup, ![f].plain = plain]
        /\ item' = [item EXCEPT ![f] = IF plain THEN NoEntry ELSE Entry(d, events, f)]
        /\ sock' = [sock EXCEPT ![s] = [NoSocket EXCEPT !.socket_ = f, !.reactor_data_ = d,
                                                        !.possible_dup = dup]]
        /\ ExtraIf(dup)
        /\ UNCHANGED <<closing, sched, program, down>>

\* The epoll set refuses a new socket.  It is closed again (socket_holder), but the
\* descriptor state stays allocated, and reactor_data_ keeps its address.
OpenFails(s) ==
    LET f == opened + 1
        d == Allocated
    IN  /\ "add_fails" \in Uses /\ Usable(s) /\ ~IsOpen(s) /\ f \in Files
        /\ Allocate(d)
        /\ state' = [state EXCEPT ![d] = Registered(d, f, DefaultEvents)]
        /\ opened' = f
        /\ sock' = [sock EXCEPT ![s].reactor_data_ = d]
        /\ Extra
        /\ UNCHANGED <<file, item, closing, sched, program, down>>

\* register_internal_descriptor: an operation that is performed and never completes
\* (signal sets read their pipe with one).
RegisterInternal(s) ==
    LET f == opened + 1
        d == Allocated
        o == issued + 1
    IN  /\ "internal" \in Uses /\ Usable(s) /\ ~IsOpen(s) /\ f \in Files /\ o \in Ops
        /\ Allocate(d)
        /\ state' = [state EXCEPT ![d] = [Registered(d, f, DefaultEvents)
                                            EXCEPT !.op_queue_["read"] = Append(@, o)]]
        /\ issued' = o /\ op' = [op EXCEPT ![o] = [kind |-> "internal", file |-> f, slot |-> s]]
        /\ opened' = f
        /\ file' = [file EXCEPT ![f].open = TRUE]
        /\ item' = [item EXCEPT ![f] = Entry(d, DefaultEvents, f)]
        /\ sock' = [sock EXCEPT ![s] = [NoSocket EXCEPT !.socket_ = f, !.reactor_data_ = d,
                                                        !.internal = TRUE]]
        /\ Extra
        /\ UNCHANGED <<closing, sched, last, down>>

\* base_move_construct, and the move in base_move_assign once the target is destroyed.
Move(s, r) ==
    /\ "move" \in Uses /\ s # r
    /\ Usable(s) /\ Usable(r) /\ IsOpen(s) /\ ~sock[s].internal /\ ~IsOpen(r)
    /\ sock' = [sock EXCEPT ![r] = sock[s], ![s] = NoSocket]
    /\ Extra
    /\ UNCHANGED <<file, item, opened, closing, pool, sched, program, down>>

-----------------------------------------------------------------------------
(* Closing.  deregister_descriptor and what follows it are separate steps.   *)

\* These operations are completed, or destroyed.
Without(ops) == [o \in Ops |-> IF o \in ops THEN NoOp ELSE op[o]]

\* mutant: only the first of the three queues is emptied into ops
AbortedReadable(d) == {o \in Waiting(d) : Has(state[d].op_queue_["read"], o)}
AbortedBy(d) == Waiting(d)

Deregistered(d) == [state[d] EXCEPT !.op_queue_ = [t \in Types |-> <<>>],
                                    !.descriptor_ = None, !.shutdown_ = TRUE]

\* closing: the descriptor leaves the epoll set by being closed
MustDelete(s, releasing) == releasing \/ sock[s].internal \/ sock[s].possible_dup

Deregister(s, releasing) ==
    LET d == sock[s].reactor_data_
    IN  /\ IsOpen(s) /\ closing[s] = "no"
        /\ releasing => "release" \in Uses /\ ~down /\ ~sock[s].internal
        /\ closing' = [closing EXCEPT ![s] = IF releasing THEN "release" ELSE "close"]
        /\ d # None => ~Locked(d)
        /\ IF d # None /\ ~state[d].shutdown_
           THEN /\ item' = IF MustDelete(s, releasing)
                           THEN [item EXCEPT ![sock[s].socket_] = NoEntry] ELSE item
                /\ op' = Without(AbortedBy(d))
                /\ last' = [last EXCEPT ![sock[s].socket_] = NonePerformed]
                /\ state' = [state EXCEPT ![d] = Deregistered(d)]
                /\ UNCHANGED sock
           ELSE /\ sock' = [sock EXCEPT ![s].reactor_data_ = None]
                /\ UNCHANGED <<item, state, op, last>>
        /\ ExtraIf(releasing)
        /\ UNCHANGED <<file, opened, live, free, sched, issued, down>>

\* free_descriptor_state, if there is one
Freed(d) == IF d = None THEN free ELSE <<d>> \o free

\* socket_ops::close and cleanup_descriptor_data, and construct.  A file is followed
\* as long as it has an entry.
Cleanup(s) ==
    LET d == sock[s].reactor_data_
        f == sock[s].socket_
    IN  /\ closing[s] # "no"
        /\ IF closing[s] = "close" /\ file[f].shared /\ item[f] # NoEntry
           THEN file' = [file EXCEPT ![f].open = FALSE] /\ UNCHANGED item
           ELSE file' = [file EXCEPT ![f] = NoFile] /\ item' = [item EXCEPT ![f] = NoEntry]
        /\ free' = Freed(d) /\ live' = Remove(live, d)
        /\ sock' = [sock EXCEPT ![s] = NoSocket]
        /\ closing' = [closing EXCEPT ![s] = "no"]
        /\ UNCHANGED <<opened, extras, state, sched, program, down>>

\* epoll_reactor::shutdown, after the scheduler's threads are gone: the sockets are
\* destroyed later and find their states shut down.
Shutdown ==
    /\ "shutdown" \in Uses /\ ~down
    /\ \A s \in Sockets : closing[s] = "no"
    /\ \A t \in Threads : job[t] = NoJob
    /\ down' = TRUE
    /\ state' = [d \in States |-> IF Has(live, d)
                                  THEN [state[d] EXCEPT !.op_queue_ = [t \in Types |-> <<>>],
                                                        !.shutdown_ = TRUE]
                                  ELSE state[d]]
    /\ free' = Reverse(live) \o free /\ live' = <<>>
    /\ queued' = {} /\ op' = [o \in Ops |-> NoOp]
    /\ UNCHANGED <<kernel, sock, closing, task_result_, job, issued, last>>

-----------------------------------------------------------------------------
(* Operations. *)

Result(status, f) == [status |-> status, file |-> f]

\* What performing an operation of this kind may return, and do to the file.
PerformReady(k, f) ==
    CASE k = "read" /\ f.plain -> {Result("done", f)}
      [] k = "read" /\ f.data > 0 -> {Result("done", [f EXCEPT !.data = n]) : n \in 0 .. f.data - 1}
      [] k = "read" /\ f.data = 0 /\ f.eof -> {Result("done_and_exhausted", f)}
      [] k = "write" /\ f.plain -> {Result("done", f)}
      [] k = "write" /\ f.space > 0 -> {Result("done", f), Result("done", [f EXCEPT !.space = 0]),
                                        Result("done_and_exhausted", [f EXCEPT !.space = 0])}
      [] k = "connect" /\ f.space > 0 -> {Result("done", f)}
      [] k \in {"wait_read", "wait_error"} -> {Result("done", f)}
      [] k = "internal" -> {Result("not_done", [f EXCEPT !.data = 0])}
      [] OTHER -> {Result("not_done", f)}
perform(o) == PerformReady(op[o].kind, file[op[o].file])

QueueEmpty(d, t) == state[d].op_queue_[t] = <<>>

\* The first branch of start_op: nothing of this kind waits, and out-of-band data is
\* not to be overtaken.
Attempts(d, k) == /\ QueueEmpty(d, TypeOf(k)) /\ Speculative(k)
                  /\ TypeOf(k) = "read" => QueueEmpty(d, "except")
\* mutant: an operation is attempted although others wait
TriesAlways(d, k) == Speculative(k) /\ state[d].try_speculative_[TypeOf(k)]
Tries(d, k) == Attempts(d, k) /\ state[d].try_speculative_[TypeOf(k)]
Performs(d, k, f) == Tries(d, k) /\ \A r \in PerformReady(k, file[f]) : r.status # "not_done"

\* The events asked for once an operation is queued, and whether epoll is told, which
\* also puts a ready descriptor on the ready list again.
EventsAfter(d, k, f) ==
    IF QueueEmpty(d, TypeOf(k)) /\ TypeOf(k) = "write" THEN state[d].registered_events_ \cup {"out"}
                                                       ELSE state[d].registered_events_
Rearmed(d, k) == \/ Attempts(d, k) /\ TypeOf(k) = "write" /\ "out" \notin state[d].registered_events_
                 \/ QueueEmpty(d, TypeOf(k)) /\ ~Attempts(d, k)

\* The operation is given number o; k, f, s are its kind, file and the owner of the
\* reactor_data_ that its cancellation slot keeps.
Issue(s, k, o) == /\ o = issued + 1 /\ o \in Ops /\ k \in Kinds
                  /\ Usable(s) /\ ~sock[s].internal
                  /\ issued' = o

\* Completed by an error, or by connect() at once, without the reactor.
StartFailed(s, k, o) ==
    /\ Issue(s, k, o)
    /\ ~IsOpen(s) \/ k = "connect"
    /\ UNCHANGED <<kernel, sock, closing, pool, sched, op, last, down>>

StartPerformed(s, k, o) ==
    LET d == sock[s].reactor_data_
        f == sock[s].socket_
        t == TypeOf(k)
    IN  /\ Issue(s, k, o) /\ IsOpen(s)
        /\ ~Locked(d) /\ Performs(d, k, f)
        /\ \E r \in PerformReady(k, file[f]) :
              /\ file' = [file EXCEPT ![f] = r.file]
              /\ state' = [state EXCEPT ![d].try_speculative_[t] =
                              @ /\ (r.status = "done_and_exhausted" => state[d].registered_events_ = {})]
        /\ last' = [last EXCEPT ![f][t] = o]
        /\ UNCHANGED <<item, opened, extras, sock, closing, live, free, sched, op, down>>

\* A plain file cannot wait: operation_not_supported.
StartUnsupported(s, k, o) ==
    LET d == sock[s].reactor_data_
    IN  /\ Issue(s, k, o) /\ IsOpen(s)
        /\ ~Locked(d) /\ ~Performs(d, k, sock[s].socket_)
        /\ QueueEmpty(d, TypeOf(k)) /\ state[d].registered_events_ = {}
        /\ UNCHANGED <<kernel, sock, closing, pool, sched, op, last, down>>

StartQueued(s, k, o) ==
    LET d == sock[s].reactor_data_
        f == sock[s].socket_
        t == TypeOf(k)
    IN  /\ Issue(s, k, o) /\ IsOpen(s)
        /\ ~Locked(d) /\ ~Performs(d, k, f) /\ state[d].registered_events_ # {}
        /\ op' = [op EXCEPT ![o] = [kind |-> k, file |-> f, slot |-> s]]
        /\ state' = [state EXCEPT ![d].op_queue_[t] = Append(@, o),
                                  ![d].registered_events_ = EventsAfter(d, k, f)]
        /\ item' = IF Rearmed(d, k) THEN [item EXCEPT ![f] = Entry(d, EventsAfter(d, k, f), f)]
                                    ELSE item
        /\ UNCHANGED <<file, opened, extras, sock, closing, live, free, sched, last, down>>

Abort(d, ops) ==
    /\ state' = [state EXCEPT ![d].op_queue_ =
                    [t \in Types |-> SelectSeq(@[t], LAMBDA o : o \notin ops)]]
    /\ op' = Without(ops)
    /\ UNCHANGED <<kernel, sock, closing, live, free, sched, issued, last, down>>

CancelOps(s) ==
    /\ "cancel" \in Uses /\ Usable(s) /\ IsOpen(s) /\ ~sock[s].internal
    /\ ~Locked(sock[s].reactor_data_)
    /\ Abort(sock[s].reactor_data_, Waiting(sock[s].reactor_data_))

\* cancel_ops_by_key, by the slot of o: it looks where the socket was when o was started.
CancelOpsByKey(o) ==
    LET s == op[o].slot
        d == sock[s].reactor_data_
    IN  /\ "cancel_key" \in Uses /\ op[o] # NoOp /\ Usable(s) /\ ~sock[s].internal
        /\ d # None /\ ~Locked(d)
        /\ Has(state[d].op_queue_[TypeOf(op[o].kind)], o)
        /\ Abort(d, {o})

-----------------------------------------------------------------------------
(* The reactor and the scheduler's threads. *)

\* The events of one epoll_wait for state d, those of a former file of d included.
\* mutant: set_ready_events where add_ready_events is needed
ReadyEventsSet(d, batch) ==
    LET f == CHOOSE f \in batch : item[f].ptr = d IN Readiness(f) \cap item[f].events
ReadyEvents(d, batch) == UNION {Readiness(f) \cap item[f].events : f \in {f \in batch : item[f].ptr = d}}

\* epoll_reactor::run
Run(batch) ==
    /\ ~down /\ queued = {}
    /\ batch # {} /\ Cardinality(batch) <= MaxEvents
    /\ \A f \in batch : item[f].ready
    /\ \/ Cardinality(batch) = MaxEvents
       \/ \A f \in Files : item[f].ready => f \in batch
    /\ LET reported == {f \in batch : Readiness(f) \cap item[f].events # {}}
       IN  /\ queued' = {item[f].ptr : f \in reported}
           /\ task_result_' = [d \in States |-> IF d \in queued' THEN ReadyEvents(d, reported)
                                                                  ELSE task_result_[d]]
    /\ item' = [f \in Files |-> IF f \in batch THEN [item[f] EXCEPT !.ready = FALSE] ELSE item[f]]
    /\ UNCHANGED <<file, opened, extras, sock, closing, pool, job, program, down>>

\* A thread takes the descriptor operation from the queue with its task_result_, which
\* nobody reads again before it is set.
Take(t, d) ==
    /\ ~down /\ job[t] = NoJob /\ d \in queued
    /\ queued' = queued \ {d} /\ task_result_' = [task_result_ EXCEPT ![d] = {}]
    /\ job' = [job EXCEPT ![t] = [NoJob EXCEPT !.state = d, !.events = task_result_[d]]]
    /\ UNCHANGED <<kernel, sock, closing, pool, program, down>>

\* perform_io takes the descriptor's lock.
Begin(t) ==
    LET d == job[t].state
        todo == {y \in Types : Flag(y) \in job[t].events}
    IN  /\ d # None /\ ~job[t].begun /\ ~Locked(d)
        /\ job' = [job EXCEPT ![t].begun = TRUE, ![t].todo = todo]
        /\ state' = [state EXCEPT ![d].try_speculative_ = [y \in Types |-> y \in todo \/ @[y]]]
        /\ UNCHANGED <<kernel, sock, closing, live, free, queued, task_result_, program, down>>

\* Exceptional conditions first, so that out-of-band data is read before normal data.
First(todo) == CASE "except" \in todo -> "except" [] "write" \in todo -> "write" [] OTHER -> "read"
JobWithout(t, y) == IF job[t].todo = {y} THEN NoJob ELSE [job[t] EXCEPT !.todo = @ \ {y}]

\* One turn of the inner loop of perform_io.
PerformOp(t) ==
    LET d == job[t].state
        y == First(job[t].todo)
        q == state[d].op_queue_[y]
    IN  /\ job[t].begun
        /\ \/ /\ q = <<>>
              /\ job' = [job EXCEPT ![t] = JobWithout(t, y)]
              /\ UNCHANGED <<file, state, op, last>>
           \/ /\ q # <<>>
              /\ \E r \in perform(Head(q)) :
                    /\ file' = [file EXCEPT ![op[Head(q)].file] = r.file]
                    /\ job' = [job EXCEPT ![t] = IF r.status = "done" THEN @ ELSE JobWithout(t, y)]
                    /\ IF r.status = "not_done"
                       THEN UNCHANGED <<state, op, last>>
                       ELSE /\ op' = Without({Head(q)})
                            /\ last' = [last EXCEPT ![op[Head(q)].file][y] = Head(q)]
                            /\ state' = [state EXCEPT ![d].op_queue_[y] = Tail(@),
                                           ![d].try_speculative_[y] = r.status = "done"]
        /\ UNCHANGED <<item, opened, extras, sock, closing, live, free, queued, task_result_, issued, down>>

-----------------------------------------------------------------------------
(* The kernel and other processes (external). *)

InUse(f) == file[f].open \/ file[f].shared
\* Something happened to f that a waiter for this event is told of.
Notified(f, event) == [item EXCEPT ![f].ready = @ \/ event \in item[f].events]

Arrive(f) == /\ InUse(f) /\ ~file[f].plain /\ ~file[f].eof /\ file[f].data < MaxData
             /\ file' = [file EXCEPT ![f].data = @ + 1]
             /\ item' = Notified(f, "in")
             /\ Extra
             /\ UNCHANGED <<opened, sock, closing, pool, sched, program, down>>
EndOfFile(f) == /\ "eof" \in Uses /\ InUse(f) /\ ~file[f].plain /\ ~file[f].eof
                /\ file' = [file EXCEPT ![f].eof = TRUE]
                /\ item' = Notified(f, "in")
                /\ OnlyExtra
                /\ UNCHANGED <<opened, sock, closing, pool, sched, program, down>>
MakeSpace(f) == /\ InUse(f) /\ ~file[f].plain /\ file[f].space = 0
                /\ file' = [file EXCEPT ![f].space = 1]
                /\ item' = Notified(f, "out")
                /\ Extra
                /\ UNCHANGED <<opened, sock, closing, pool, sched, program, down>>
Urgent(f) == /\ "wait_error" \in Kinds /\ InUse(f) /\ ~file[f].plain /\ ~file[f].urgent
             /\ file' = [file EXCEPT ![f].urgent = TRUE]
             /\ item' = Notified(f, "pri")
             /\ OnlyExtra
             /\ UNCHANGED <<opened, sock, closing, pool, sched, program, down>>

SharedFiles == [f \in Files |-> [file[f] EXCEPT !.shared = @ \/ file[f].open]]
-----------------------------------------------------------------------------
\* A state that cannot be registered again: of a plain file, or of an open that failed.
Refused(d) == state[d].registered_events_ = {} \/ ~file[state[d].descriptor_].open
\* The states re-registered before the first refusal throws.
Readded == {live[i] : i \in {i \in 1 .. Len(live) : \A j \in 1 .. i : ~Refused(live[j])}}

\* notify_fork(fork_child): a new epoll set, in a process whose only thread is here and
\* whose files the parent shares.  (Bounds: only when some file becomes shared by it, and
\* MaxExtras unless nothing was counted before.)
NotifyFork ==
    /\ "fork" \in Uses /\ ~down /\ SharedFiles # file
    /\ \A s \in Sockets : closing[s] = "no"
    /\ \A t \in Threads : job[t] = NoJob
    /\ "fork_throws" \in Uses \/ \A i \in 1 .. Len(live) : ~Refused(live[i])
    /\ file' = SharedFiles
    /\ item' = [f \in Files |->
                  IF \E d \in Readded : state[d].descriptor_ = f
                  THEN LET d == CHOOSE d \in Readded : state[d].descriptor_ = f
                       IN  Entry(d, state[d].registered_events_, f)
                  ELSE NoEntry]
    /\ ExtraIf(extras > 0)
    /\ UNCHANGED <<opened, sock, closing, pool, sched, program, down>>

Program ==
    \E s \in Sockets :
        \/ \E dup, plain \in BOOLEAN : Open(s, dup, plain)
        \/ OpenFails(s)
        \/ RegisterInternal(s)
        \/ \E r \in Sockets : Move(s, r)
        \/ \E releasing \in BOOLEAN : Deregister(s, releasing)
        \/ Cleanup(s)
        \/ \E k \in Kinds, o \in Ops : StartFailed(s, k, o)
        \/ \E k \in Kinds, o \in Ops : StartPerformed(s, k, o)
        \/ \E k \in Kinds, o \in Ops : StartUnsupported(s, k, o)
        \/ \E k \in Kinds, o \in Ops : StartQueued(s, k, o)
        \/ CancelOps(s)

Reactor ==
    \/ \E batch \in SUBSET {f \in Files : item[f].ready} : Run(batch)
    \/ \E t \in Threads : \/ \E d \in States : Take(t, d)
                          \/ Begin(t)
                          \/ PerformOp(t)

Kernel == \E f \in Files : Arrive(f) \/ EndOfFile(f) \/ MakeSpace(f) \/ Urgent(f)

Next ==
    \/ Program
    \/ \E o \in Ops : CancelOpsByKey(o)
    \/ Reactor
    \/ Kernel
    \/ NotifyFork
    \/ Shutdown

Spec == Init /\ [][Next]_vars

-----------------------------------------------------------------------------
\* The variables have their types; a socket is in reach of the reactor only
\* through a state the pool has created.
TypeOK ==
    /\ file \in [Files -> [data : 0 .. MaxData, space : 0 .. 1, eof : BOOLEAN, urgent : BOOLEAN,
                           open : BOOLEAN, shared : BOOLEAN, plain : BOOLEAN]]
    /\ item \in [Files -> [ptr : States \cup {None}, events : SUBSET {"in", "out", "pri"},
                           ready : BOOLEAN]]
    /\ opened \in 0 .. MaxFiles /\ extras \in 0 .. MaxExtras
    /\ sock \in [Sockets -> [socket_ : Files \cup {None}, reactor_data_ : States \cup {None},
                             possible_dup : BOOLEAN, internal : BOOLEAN]]
    /\ closing \in [Sockets -> {"no", "close", "release"}]
    /\ state \in [States -> [op_queue_ : [Types -> Seq(Ops)], try_speculative_ : [Types -> BOOLEAN],
                             registered_events_ : SUBSET {"in", "out", "pri"},
                             descriptor_ : Files \cup {None}, shutdown_ : BOOLEAN]]
    /\ live \in Seq(States) /\ free \in Seq(States)
    /\ queued \subseteq States /\ task_result_ \in [States -> SUBSET {"in", "out", "pri"}]
    /\ job \in [Threads -> [state : States \cup {None}, events : SUBSET {"in", "out", "pri"},
                            begun : BOOLEAN, todo : SUBSET Types]]
    /\ issued \in 0 .. MaxOps
    /\ op \in [Ops -> [kind : AllKinds \cup {"internal"}, file : Files, slot : Sockets] \cup {NoOp}]
    /\ last \in [Files -> [Types -> 0 .. MaxOps]] /\ down \in BOOLEAN

\* Descriptor states are never lost, freed twice or given to two sockets, and an
\* operation waits only in the state that its own socket holds: none is left behind
\* in the pool when a socket is closed, released, moved or shut down, nor found
\* there by the next owner of the state (deregister_descriptor, object_pool).
StatesOwned ==
    LET pooled == live \o free
    IN  /\ TypeOK
        /\ IsInjective(pooled)
        /\ \A s \in Sockets : IsOpen(s) /\ ~down /\ closing[s] = "no" =>
              /\ Has(live, sock[s].reactor_data_)
              /\ state[sock[s].reactor_data_].descriptor_ = sock[s].socket_
              /\ \A r \in Sockets : sock[r].reactor_data_ = sock[s].reactor_data_ => r = s
        /\ \A o \in Ops, d \in States :
              o \in Waiting(d) <=> \E s \in Sockets : /\ op[o] # NoOp /\ IsOpen(s) /\ ~down
                                                    /\ sock[s].reactor_data_ = d
                                                    /\ sock[s].socket_ = op[o].file
        /\ \A o \in Ops : op[o] # NoOp => \E d \in States : o \in Waiting(d)

\* Some step that is bound to happen will look at the operations of type t of d.
OnItsWay(d, t) ==
    \/ LET f == state[d].descriptor_
       IN  item[f].ptr = d /\ item[f].ready /\ Flag(t) \in item[f].events
    \/ d \in queued /\ Flag(t) \in task_result_[d]
    \/ \E u \in Threads : /\ job[u].state = d /\ Flag(t) \in job[u].events
                          /\ job[u].begun => t \in job[u].todo

Ready(o) == LET f == file[op[o].file]
            IN  CASE op[o].kind \in {"read", "wait_read", "internal"} -> f.data > 0
                  [] op[o].kind \in {"write", "connect"} -> f.space > 0
                  [] OTHER -> f.urgent

\* With edge-triggered events nobody is told twice: an operation waits on a
\* descriptor that is ready for it only while an event for it is on its way
\* (start_op, perform_io, try_speculative_, EPOLL_CTL_MOD, notify_fork).
NoMissedEvent ==
    \A d \in States, t \in Types :
        LET q == state[d].op_queue_[t]
        IN  q # <<>> /\ Ready(Head(q)) => OnItsWay(d, t)

\* Operations of one type on one socket are performed in the order in which they
\* were started, whether by start_op or by the reactor's threads: none that waits
\* was started before one that has been performed.
PerformedInOrder ==
    \A o \in Ops : op[o] # NoOp => last[op[o].file][TypeOf(op[o].kind)] < o

\* basic_socket.hpp: a wait is for a socket "to enter a ready to read, write or error
\* condition state".  A wait for reading is performed only on a readable socket: not so
\* for a socket that takes over the descriptor state of one that had events pending.
WaitMeansReadable ==
    [][\A o \in Ops : LET f == op[o].file
                      IN  op[o].kind = "wait_read" /\ last'[f]["read"] = o => "in" \in Readiness(f)]_vars
=============================================================================
