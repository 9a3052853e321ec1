----------------------------- MODULE SignalSet -----------------------------
(***************************************************************************)
(* asio::detail::signal_set_service on POSIX systems.                      *)
(*                                                                         *)
(* One signal_state for the process, under a mutex, is shared by the       *)
(* services of all contexts: the list of services, the count of sets that  *)
(* registered each signal, and a pipe.  The signal handler writes the      *)
(* number into the pipe; every service has the read end registered with    *)
(* its own reactor, and whichever reads a number delivers it to all of     *)
(* them.  A reactor holds the mutex of its descriptor while it reads and   *)
(* delivers (epoll_reactor::descriptor_state::perform_io), and takes it to *)
(* deregister the descriptor.                                              *)
(***************************************************************************)
EXTENDS Integers, Sequences, FiniteSets, OpQueue

CONSTANTS
    Services,       \* signal_set_service objects
    Sets,           \* signal_set objects
    SetOwner,       \* the service of a set
    NoService,
    Signals,        \* signal numbers
    Wanted,         \* those the program adds to a set
    MaxWaits,       \* bound on the async_wait operations
    MaxRaises,      \* bound on the signals that occur
    MaxPipe,        \* the capacity of the pipe
    MaxForks,       \* bound on the forks
    SignalUses      \* optional calls of the program

Ops == 1 .. MaxWaits
AllUses == {"fork_shared"}
ASSUME SignalAssumption ==
    /\ IsFiniteSet(Sets) /\ SetOwner \in [Sets -> Services] /\ NoService \notin Services /\ Signals \subseteq Nat
    /\ Wanted \in [Sets -> SUBSET Signals]
    /\ MaxWaits \in Nat /\ MaxRaises \in Nat /\ MaxPipe \in Nat /\ MaxForks \in Nat
    /\ SignalUses \subseteq AllUses

VARIABLES
    mutex_,              \* the service that holds it between two steps
    service_list_, fork_prepared_, registration_count_,
    descriptors,         \* the number of the pipe that is open, or Closed
    pipe,                \* the signals in it
    handler,             \* signals for which asio_signal_handler is installed
    undelivered_,        \* per set and signal; NotRegistered without a registration
    queue_,              \* per set: the waiting operations
    result,              \* per operation
    state,               \* the progress of each service
    watched,             \* the pipe its reactor has registered, or Closed
    edge,                \* epoll has an event for it
    reading,             \* a thread of its context is in pipe_read_op::do_perform
    holding,             \* the signal that thread has read and not yet delivered
    role,                \* of the process after a fork, until all have been notified
    raised, forks        \* counts, for the bounds

global == <<service_list_, fork_prepared_, descriptors, role, forks>>
registrations == <<registration_count_, handler, undelivered_>>
waits == <<queue_, result>>
reactor == <<watched, edge, reading, holding>>
signalVars == <<mutex_, global, registrations, waits, pipe, raised, state, reactor>>

Closed == 0
NotRegistered == -1
NoSignal == -1
Free == mutex_ = NoService
Registered(x, n) == undelivered_[x][n] # NotRegistered
Waiting(x) == {o \in Ops : Has(queue_[x], o)}
Running(s) == state[s] = "running"
Forking == role # "none" \/ \E s \in Services : state[s] = "prepared"
Usable(x) == Free /\ Running(SetOwner[x]) /\ ~Forking

SignalInit ==
    /\ mutex_ = NoService
    /\ service_list_ = <<>> /\ fork_prepared_ = FALSE /\ descriptors = Closed /\ role = "none" /\ forks = 0
    /\ registration_count_ = [n \in Signals |-> 0] /\ handler = {}
    /\ undelivered_ = [x \in Sets |-> [n \in Signals |-> NotRegistered]]
    /\ queue_ = [x \in Sets |-> <<>>] /\ result = [o \in Ops |-> "none"]
    /\ pipe = <<>> /\ raised = 0
    /\ state = [s \in Services |-> "none"]
    /\ watched = [s \in Services |-> Closed] /\ edge = [s \in Services |-> FALSE]
    /\ reading = [s \in Services |-> FALSE] /\ holding = [s \in Services |-> NoSignal]

-----------------------------------------------------------------------------
(* Services come and go. *)

Goto(s, at) == state' = [state EXCEPT ![s] = at]

\* register_internal_descriptor: epoll reports what is in the pipe already.
Watch(s, d, content) ==
    /\ watched' = [watched EXCEPT ![s] = d]
    /\ edge' = [edge EXCEPT ![s] = content # <<>>]
    /\ UNCHANGED <<reading, holding>>

\* deregister_internal_descriptor, which waits for a thread that is reading.
Unwatch(s) ==
    /\ ~reading[s]
    /\ watched' = [watched EXCEPT ![s] = Closed] /\ edge' = [edge EXCEPT ![s] = FALSE]
    /\ UNCHANGED <<reading, holding>>

\* Pipes are numbered so that a descriptor of an earlier one can be told apart.
NewPipe == 1 + forks

AddService(s) ==
    /\ Free /\ state[s] = "none" /\ ~Forking
    /\ descriptors' = IF service_list_ = <<>> THEN NewPipe ELSE descriptors
    /\ service_list_' = <<s>> \o service_list_
    /\ Goto(s, "adding")
    /\ UNCHANGED <<mutex_, fork_prepared_, role, forks, registrations, waits, pipe, raised, reactor>>

AddServiceRegisters(s) ==
    /\ state[s] = "adding"
    /\ Watch(s, descriptors, pipe)
    /\ Goto(s, "running")
    /\ UNCHANGED <<mutex_, global, registrations, waits, pipe, raised>>

\* remove_service, from shutdown() or from the destructor of a service that use_service()
\* has constructed in vain while the context was running.
RemoveService(s) ==
    /\ Free /\ Running(s) /\ ~Forking
    /\ mutex_' = s
    /\ Goto(s, "removing")
    /\ UNCHANGED <<global, registrations, waits, pipe, raised, reactor>>

\* mutant: the mutex is kept while the descriptor is taken out of the reactor
StillLocked(s) == s
Unlocked(s) == NoService
RemoveUnlocks(s) ==
    /\ state[s] = "removing"
    /\ mutex_' = Unlocked(s)
    /\ Goto(s, "unlocked")
    /\ UNCHANGED <<global, registrations, waits, pipe, raised, reactor>>

RemoveDeregisters(s) ==
    /\ state[s] = "unlocked"
    /\ Unwatch(s)
    /\ Goto(s, "deregistered")
    /\ UNCHANGED <<mutex_, global, registrations, waits, pipe, raised>>

\* mutant: the pipe is closed with any service
AnyService(list) == TRUE
LastService(list) == list = <<>>

\* The operations shutdown() destroys are found through the registrations.
Abandoned(s) == {o \in Ops : \E x \in Sets : /\ SetOwner[x] = s /\ Has(queue_[x], o)
                                            /\ \E n \in Signals : Registered(x, n)}
RemoveFinishes(s) ==
    /\ state[s] = "deregistered" /\ mutex_ \in {NoService, s} /\ ~Forking
    /\ service_list_' = Unlinked(service_list_, {s})
    /\ IF LastService(service_list_') THEN descriptors' = Closed /\ pipe' = <<>>
                                      ELSE UNCHANGED <<descriptors, pipe>>
    /\ queue_' = [x \in Sets |-> Unlinked(queue_[x], Abandoned(s))]
    /\ result' = [o \in Ops |-> IF o \in Abandoned(s) THEN "destroyed" ELSE result[o]]
    /\ mutex_' = NoService
    /\ Goto(s, "closed")
    /\ UNCHANGED <<fork_prepared_, role, forks, registrations, raised, reactor>>

-----------------------------------------------------------------------------
(* Signals: asio_signal_handler, pipe_read_op and deliver_signal. *)

\* A number that does not fit into the pipe is lost.
Raise(n) ==
    /\ n \in handler /\ raised < MaxRaises
    /\ raised' = raised + 1
    /\ IF descriptors # Closed /\ Len(pipe) < MaxPipe
       THEN /\ pipe' = Append(pipe, n)
            /\ edge' = [s \in Services |-> edge[s] \/ watched[s] = descriptors]
       ELSE UNCHANGED <<pipe, edge>>
    /\ UNCHANGED <<mutex_, global, registrations, waits, state, watched, reading, holding>>

\* A thread of the context gets the event and locks the descriptor.
ReadBegins(s) ==
    /\ edge[s] /\ ~reading[s] /\ ~Forking
    /\ edge' = [edge EXCEPT ![s] = FALSE] /\ reading' = [reading EXCEPT ![s] = TRUE]
    /\ UNCHANGED <<mutex_, global, registrations, waits, pipe, raised, state, watched, holding>>

Read(s) ==
    /\ reading[s] /\ holding[s] = NoSignal
    /\ IF pipe = <<>> THEN reading' = [reading EXCEPT ![s] = FALSE] /\ UNCHANGED <<pipe, holding>>
       ELSE holding' = [holding EXCEPT ![s] = Head(pipe)] /\ pipe' = Tail(pipe) /\ UNCHANGED reading
    /\ UNCHANGED <<mutex_, global, registrations, waits, raised, state, watched, edge>>

\* To every set of every service: its waiting operations complete, or the signal is kept.
Notified(n) == {x \in Sets : Has(service_list_, SetOwner[x]) /\ Registered(x, n)}
DeliverSignal(s) ==
    LET n == holding[s]
        woken == {o \in Ops : \E x \in Notified(n) : Has(queue_[x], o)}
    IN  /\ n # NoSignal /\ Free
        /\ undelivered_' = [x \in Sets |-> IF x \in Notified(n) /\ queue_[x] = <<>>
                                           THEN [undelivered_[x] EXCEPT ![n] = @ + 1]
                                           ELSE undelivered_[x]]
        /\ queue_' = [x \in Sets |-> IF x \in Notified(n) THEN <<>> ELSE queue_[x]]
        /\ result' = [o \in Ops |-> IF o \in woken THEN "signal" ELSE result[o]]
        /\ holding' = [holding EXCEPT ![s] = NoSignal]
        /\ UNCHANGED <<mutex_, global, registration_count_, handler, pipe, raised, state,
                       watched, edge, reading>>

-----------------------------------------------------------------------------
(* The functions of a set, each under the mutex. *)

Add(x, n) ==
    /\ Usable(x) /\ n \in Wanted[x] /\ ~Registered(x, n)
    /\ undelivered_' = [undelivered_ EXCEPT ![x][n] = 0]
    /\ handler' = handler \cup {n}
    /\ registration_count_' = [registration_count_ EXCEPT ![n] = @ + 1]
    /\ UNCHANGED <<mutex_, global, waits, pipe, raised, state, reactor>>

\* mutant: the default action is restored by the first set that does not want the signal
RestoresAlways(n) == TRUE
RestoresDefault(n) == registration_count_[n] = 1
Deregister(x, ns) ==
    /\ undelivered_' = [undelivered_ EXCEPT ![x] = [n \in Signals |-> IF n \in ns THEN NotRegistered ELSE @[n]]]
    /\ handler' = handler \ {n \in ns : RestoresDefault(n)}
    /\ registration_count_' = [n \in Signals |-> registration_count_[n] - (IF n \in ns THEN 1 ELSE 0)]

Abort(x, os) ==
    /\ queue_' = [queue_ EXCEPT ![x] = Unlinked(@, os)]
    /\ result' = [o \in Ops |-> IF o \in os THEN "aborted" ELSE result[o]]

Remove(x, n) ==
    /\ Usable(x) /\ Registered(x, n)
    /\ Deregister(x, {n})
    /\ UNCHANGED <<mutex_, global, waits, pipe, raised, state, reactor>>

RegisteredSignals(x) == {n \in Signals : Registered(x, n)}
Clear(x) ==
    /\ Usable(x) /\ RegisteredSignals(x) # {}
    /\ Deregister(x, RegisteredSignals(x))
    /\ UNCHANGED <<mutex_, global, waits, pipe, raised, state, reactor>>

Cancel(x) ==
    /\ Usable(x) /\ queue_[x] # <<>>
    /\ Abort(x, Waiting(x))
    /\ UNCHANGED <<mutex_, global, registrations, pipe, raised, state, reactor>>

\* cancel_ops_by_key, through the cancellation slot of one operation.
CancelByKey(x, o) ==
    /\ Usable(x) /\ Has(queue_[x], o)
    /\ Abort(x, {o})
    /\ UNCHANGED <<mutex_, global, registrations, pipe, raised, state, reactor>>

\* destroy(): clear and cancel, also after the service has been shut down.
DestroySet(x) ==
    /\ Free /\ state[SetOwner[x]] \in {"running", "closed"} /\ ~Forking
    /\ RegisteredSignals(x) # {} \/ queue_[x] # <<>>
    /\ Deregister(x, RegisteredSignals(x)) /\ Abort(x, Waiting(x))
    /\ UNCHANGED <<mutex_, global, pipe, raised, state, reactor>>

\* mutant: only the first registration of the set is looked at
KeptForFirst(x) == {n \in RegisteredSignals(x) : undelivered_[x][n] > 0
                                              /\ \A k \in RegisteredSignals(x) : n <= k}
KeptFor(x) == {n \in RegisteredSignals(x) : undelivered_[x][n] > 0}

\* async_wait, start_wait_op: the lowest signal that was kept, or wait.
AsyncWait(x, o) ==
    /\ Usable(x) /\ result[o] = "none" /\ \A p \in Ops : p < o => result[p] # "none"
    /\ \/ \E n \in KeptFor(x) :
             /\ \A k \in KeptFor(x) : n <= k
             /\ undelivered_' = [undelivered_ EXCEPT ![x][n] = @ - 1]
             /\ result' = [result EXCEPT ![o] = "signal"]
             /\ UNCHANGED queue_
       \/ /\ KeptFor(x) = {}
          /\ queue_' = [queue_ EXCEPT ![x] = Append(@, o)]
          /\ result' = [result EXCEPT ![o] = "waiting"]
          /\ UNCHANGED undelivered_
    /\ UNCHANGED <<mutex_, global, registration_count_, handler, pipe, raised, state, reactor>>

-----------------------------------------------------------------------------
(* Fork: the program notifies each context before and after, while nothing else runs. *)

ForkPrepare(s) ==
    /\ Free /\ Running(s) /\ role = "none" /\ forks < MaxForks
    /\ \A r \in Services : state[r] \in {"none", "running", "prepared", "closed"} /\ ~reading[r]
    /\ service_list_ = <<s>> \/ "fork_shared" \in SignalUses
    /\ fork_prepared_' = TRUE
    /\ Unwatch(s)
    /\ Goto(s, "prepared")
    /\ UNCHANGED <<mutex_, service_list_, descriptors, role, forks, registrations, waits, pipe, raised>>

\* The process whose steps follow is the parent or the child.
Fork ==
    /\ role = "none" /\ service_list_ # <<>>
    /\ \A i \in 1 .. Len(service_list_) : state[service_list_[i]] = "prepared"
    /\ role' \in {"parent", "child"} /\ forks' = forks + 1
    /\ UNCHANGED <<mutex_, service_list_, fork_prepared_, descriptors, registrations, waits, pipe,
                   raised, state, reactor>>

\* fork_parent and fork_child; the child opens a pipe of its own.
ForkNotify(s) ==
    /\ role # "none" /\ state[s] = "prepared"
    /\ IF fork_prepared_
       THEN /\ fork_prepared_' = FALSE
            /\ descriptors' = IF role = "child" THEN NewPipe ELSE descriptors
            /\ pipe' = IF role = "child" THEN <<>> ELSE pipe
            /\ Watch(s, descriptors', pipe')
       ELSE UNCHANGED <<fork_prepared_, descriptors, pipe, reactor>>
    /\ Goto(s, "running")
    /\ role' = IF \A r \in Services \ {s} : state[r] # "prepared" THEN "none" ELSE role
    /\ UNCHANGED <<mutex_, service_list_, forks, registrations, waits, raised>>

-----------------------------------------------------------------------------
ServiceStep(s) ==
    AddServiceRegisters(s) \/ RemoveUnlocks(s) \/ RemoveDeregisters(s) \/ RemoveFinishes(s)
ReaderStep(s) == Read(s) \/ DeliverSignal(s)

SignalNext ==
    \/ \E s \in Services :
         \/ AddService(s) \/ RemoveService(s) \/ ServiceStep(s)
         \/ ReadBegins(s) \/ ReaderStep(s)
         \/ ForkPrepare(s) \/ ForkNotify(s)
    \/ \E n \in Signals : Raise(n)
    \/ \E x \in Sets :
         \/ \E n \in Signals : Add(x, n) \/ Remove(x, n)
         \/ Clear(x) \/ Cancel(x) \/ DestroySet(x)
         \/ \E o \in Ops : CancelByKey(x, o) \/ AsyncWait(x, o)
    \/ Fork

SignalSpec == SignalInit /\ [][SignalNext]_signalVars

-----------------------------------------------------------------------------
\* The variables have their types.
SignalTypeOK ==
    /\ mutex_ \in Services \cup {NoService} /\ service_list_ \in Seq(Services)
    /\ fork_prepared_ \in BOOLEAN /\ role \in {"none", "parent", "child"}
    /\ descriptors \in 0 .. MaxForks + 1 /\ pipe \in Seq(Signals) /\ handler \subseteq Signals
    /\ registration_count_ \in [Signals -> Nat]
    /\ undelivered_ \in [Sets -> [Signals -> {NotRegistered} \cup Nat]]
    /\ queue_ \in [Sets -> Seq(Ops)]
    /\ result \in [Ops -> {"none", "waiting", "signal", "aborted", "destroyed"}]
    /\ watched \in [Services -> 0 .. MaxForks + 1] /\ holding \in [Services -> Signals \cup {NoSignal}]

\* The counts shared by the services of the process are exact, and the handler is
\* installed for the signals some set has registered: an error of one takes a signal
\* from another context, or leaves it to a pipe that nobody reads.
CountsAgree ==
    /\ SignalTypeOK
    /\ \A n \in Signals :
         /\ registration_count_[n] = Cardinality({x \in Sets : Registered(x, n)})
         /\ n \in handler <=> registration_count_[n] > 0

\* An operation does not wait on a set that has been notified of a signal it has not
\* handed out; and exactly the waiting operations are in a queue, of one set.
NoWaitPassedOver ==
    /\ \A x \in Sets : queue_[x] # <<>> => \A n \in Signals : undelivered_[x][n] <= 0
    /\ \A o \in Ops : IF result[o] = "waiting"
                       THEN \E x \in Sets : /\ Has(queue_[x], o) /\ AtMostOnce(queue_[x], o)
                                            /\ \A y \in Sets \ {x} : ~Has(queue_[y], o)
                       ELSE \A x \in Sets : ~Has(queue_[x], o)

\* Registrations and notifications add up, in the process and in every set.
SignalsAccounted == CountsAgree /\ NoWaitPassedOver

\* The pipe is open as long as there is a service, and no signal stays in it unseen:
\* every running service has the current pipe in its reactor, with an event pending or
\* a thread reading while it holds something; nobody reads a pipe that was closed.
PipeWatched ==
    /\ service_list_ = <<>> <=> descriptors = Closed
    /\ \A s \in Services :
         /\ Running(s) => watched[s] = descriptors
         /\ Running(s) /\ pipe # <<>> => edge[s] \/ reading[s]
         /\ reading[s] => watched[s] = descriptors

\* A service that is being added or removed, or a thread that reads the pipe for it.
Busy(s) == state[s] \in {"adding", "removing", "unlocked", "deregistered"} \/ reading[s]

\* remove_service() waits for a thread that reads the pipe, which holds the descriptor's
\* mutex and waits for the process-wide one in order to deliver; as does every other
\* reader, and every service that comes or goes.  One of them can always go on.
NoCircularWait ==
    (\E s \in Services : Busy(s)) => ENABLED (\E s \in Services : ServiceStep(s) \/ ReaderStep(s))
=============================================================================
