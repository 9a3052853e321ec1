--------------------------- MODULE ResolverService ---------------------------
(***************************************************************************)
(* asio::detail::resolver_service as one of the services of a context.     *)
(*                                                                         *)
(* A resolve operation is posted to a private scheduler whose only thread  *)
(* calls getaddrinfo(), and comes back to the scheduler of the context for *)
(* its handler.  Cancelling replaces the token a resolver shares with its  *)
(* operations; the thread looks at it once, before the blocking call.  The *)
(* thread is stopped for a fork and for shutdown.                          *)
(*                                                                         *)
(* A handler may own the resolver it was started on, as programs do with   *)
(* shared_ptr: the resolver is destroyed with the handler, wherever the    *)
(* handler is destroyed.                                                   *)
(***************************************************************************)
EXTENDS ServiceRegistry, OpQueue

CONSTANTS
    Resolvers,      \* resolver objects
    MaxOps,         \* bound on the resolve operations
    Made,           \* the services the program adds itself
    Uses            \* optional calls of the program

Ops == 1 .. MaxOps
Tokens == 1 .. MaxOps + Cardinality(Resolvers)
AllUses == {"resolve_moved"}
NoResolver == 0
ASSUME ResolverAssumption ==
    /\ {"scheduler", "resolver"} \subseteq Keys /\ "scheduler" \notin Made
    /\ Needs["scheduler"] = <<>> /\ Needs["resolver"] = <<"scheduler">>
    /\ MaxServices > 0 /\ MaxOps \in Nat /\ IsFiniteSet(Resolvers) /\ NoResolver \notin Resolvers
    /\ Made \subseteq Keys /\ Uses \subseteq AllUses

VARIABLES
    work,               \* per service object: the private scheduler and its thread
    op_queue_,          \* per service object of key "scheduler"
    outstanding_work_,  \* of the scheduler of the context
    impl,               \* per resolver: service, token, owner
    op,                 \* per operation: token and resolver while it waits, then its answer
    issued, done, destroyed,
    cancelled           \* waiting operations whose resolver has been cancelled or destroyed

ops == <<op, issued, done, destroyed, cancelled>>
resolverVars == <<work, op_queue_, outstanding_work_, impl, ops>>
vars == <<registryVars, resolverVars>>

NoOp == 0
NoToken == 0
Program == 0
Gone == [svc |-> NoObject, token |-> NoToken, owner |-> Program]
Idle == [open |-> FALSE, queue |-> <<>>, stopped |-> FALSE, thread |-> "none", cur |-> NoOp]
Exists(r) == impl[r].svc # NoObject
Held(r) == Exists(r) /\ impl[r].owner = Program     \* the program can call it
Blank == [token |-> NoToken, res |-> NoResolver, answer |-> "none"]
Finished == done \cup destroyed
\* No resolver holds the token; a weak pointer to nothing has always expired.
Expired(n) == n = NoToken \/ \A r \in Resolvers : impl[r].token # n
\* A token no other resolver has and no waiting operation remembers.
IsFresh(n, r) == (\A q \in Resolvers \ {r} : impl[q].token # n) /\ \A o \in Ops : op[o].token # n
FreshToken(r) == CHOOSE n \in Tokens : IsFresh(n, r) /\ \A m \in 1 .. n - 1 : ~IsFresh(m, r)

\* The scheduler a resolver_service got from use_service in its constructor.
SchedulerOf(s) == svc[s].uses[1]

Init ==
    /\ RegistryInit
    /\ work = [s \in Objects |-> Idle] /\ op_queue_ = [s \in Objects |-> <<>>]
    /\ outstanding_work_ = 0
    /\ impl = [r \in Resolvers |-> Gone]
    /\ op = [o \in Ops |-> Blank]
    /\ issued = 0 /\ done = {} /\ destroyed = {} /\ cancelled = {}

-----------------------------------------------------------------------------
(* The registry's steps, with what the constructor and the destructor do.  *)

\* The constructor of the resolver service makes the private scheduler.
Constructed(t) ==
    /\ ConstructorEnds(t)
    /\ work' = IF Top(t).key = "resolver" THEN [work EXCEPT ![Top(t).obj].open = TRUE] ELSE work
    /\ UNCHANGED <<op_queue_, outstanding_work_, impl, ops>>

\* The destructor calls base_shutdown(): a service made in vain has no thread to join.
Discarded(t) ==
    /\ Discard(t)
    /\ work' = [work EXCEPT ![Top(t).obj] = Idle]
    /\ UNCHANGED <<op_queue_, outstanding_work_, impl, ops>>

UseServices(t) ==
    \/ \E k \in Keys : UseService(t, k) /\ UNCHANGED resolverVars
    \/ \E k \in Made : MakeService(t, k) /\ UNCHANGED resolverVars
    \/ ConstructorThrows(t) /\ UNCHANGED resolverVars

Registering(t) ==
    \/ (Find(t) \/ ConstructorUses(t) \/ Insert(t)) /\ UNCHANGED resolverVars
    \/ Constructed(t) \/ Discarded(t)

-----------------------------------------------------------------------------
(* Resolver objects.                                                       *)

\* The waiting operations that are the business of r: started on it, or moved to it.
OpsOf(r) == {o \in Ops : op[o].res = r}

\* io_object_impl has called use_service(); construct() makes a token.
Create(t, r) ==
    /\ Open /\ ~Exists(r)
    /\ \E s \in found[t] : /\ svc[s].key = "resolver"
                           /\ impl' = [impl EXCEPT ![r] = [svc |-> s, token |-> FreshToken(r), owner |-> Program]]
    /\ UNCHANGED <<registryVars, work, op_queue_, outstanding_work_, ops>>

Cancel(r) ==
    /\ Open /\ Held(r)
    /\ impl' = [impl EXCEPT ![r].token = FreshToken(r)]
    /\ cancelled' = cancelled \cup OpsOf(r)
    /\ UNCHANGED <<registryVars, work, op_queue_, outstanding_work_, op, issued, done, destroyed>>

DestroyResolver(r) ==
    /\ Open /\ Held(r)
    /\ impl' = [impl EXCEPT ![r] = Gone]
    /\ cancelled' = cancelled \cup OpsOf(r)
    /\ UNCHANGED <<registryVars, work, op_queue_, outstanding_work_, op, issued, done, destroyed>>

\* move_construct, or move_assign, which destroys the target's implementation first.
\* The shared_ptr that is moved from is left empty.
Move(r, to) ==
    /\ Open /\ Held(r) /\ r # to /\ (Held(to) \/ ~Exists(to))
    /\ impl' = [impl EXCEPT ![to] = impl[r], ![r].token = NoToken]
    /\ cancelled' = cancelled \cup OpsOf(to)
    /\ op' = [o \in Ops |-> IF o \in OpsOf(r) THEN [op[o] EXCEPT !.res = to] ELSE op[o]]
    /\ UNCHANGED <<registryVars, work, op_queue_, outstanding_work_, issued, done, destroyed>>

\* start_resolve_op: start the thread unless there is one, count the work, post.
AsyncResolve(r, owned) ==
    LET s == impl[r].svc
        o == issued + 1
    IN
    /\ Open /\ Held(r) /\ issued < MaxOps
    /\ impl[r].token # NoToken \/ "resolve_moved" \in Uses
    /\ issued' = o
    /\ op' = [op EXCEPT ![o].token = impl[r].token, ![o].res = r]
    /\ work' = [work EXCEPT ![s].queue = Append(@, o),
                            ![s].thread = IF @ = "none" THEN "running" ELSE @]
    /\ outstanding_work_' = outstanding_work_ + 1
    /\ impl' = [impl EXCEPT ![r].owner = IF owned THEN o ELSE Program]
    /\ UNCHANGED <<registryVars, op_queue_, done, destroyed, cancelled>>

-----------------------------------------------------------------------------
(* The work thread, and the threads in run().                              *)

\* background_getaddrinfo: the only look at the token.
Take(s) ==
    LET o == Head(work[s].queue) IN
    /\ work[s].thread = "running" /\ work[s].cur = NoOp
    /\ ~work[s].stopped /\ work[s].queue # <<>>
    /\ work' = [work EXCEPT ![s].queue = Tail(@), ![s].cur = o]
    /\ op' = [op EXCEPT ![o] = [Blank EXCEPT !.answer = IF Expired(op[o].token) THEN "aborted" ELSE "result"]]
    /\ cancelled' = cancelled \ {o}
    /\ UNCHANGED <<registryVars, op_queue_, outstanding_work_, impl, issued, done, destroyed>>

\* The answer is there: post_deferred_completion on the context's scheduler.
PassBack(s) ==
    /\ work[s].cur # NoOp
    /\ op_queue_' = [op_queue_ EXCEPT ![SchedulerOf(s)] = Append(@, work[s].cur)]
    /\ work' = [work EXCEPT ![s].cur = NoOp]
    /\ UNCHANGED <<registryVars, outstanding_work_, impl, ops>>

\* run() returns.
ThreadEnds(s) ==
    /\ work[s].thread = "running" /\ work[s].cur = NoOp /\ work[s].stopped
    /\ work' = [work EXCEPT ![s].thread = "ended"]
    /\ UNCHANGED <<registryVars, op_queue_, outstanding_work_, impl, ops>>

\* A handler that owns a resolver destroys it: the destructor calls the service.
Orphans(gone) == {r \in Resolvers : Exists(r) /\ impl[r].owner \in gone}
WithoutOwner(gone) == [r \in Resolvers |-> IF r \in Orphans(gone) THEN Gone ELSE impl[r]]
CancelledWith(gone) == cancelled \cup UNION {OpsOf(r) : r \in Orphans(gone)}

RunHandler ==
    /\ Open
    /\ \E s \in Registered("scheduler") :
         LET o == Head(op_queue_[s]) IN
         /\ op_queue_[s] # <<>>
         /\ op_queue_' = [op_queue_ EXCEPT ![s] = Tail(@)]
         /\ done' = done \cup {o}
         /\ op' = [op EXCEPT ![o] = Blank]
         /\ impl' = WithoutOwner({o}) /\ cancelled' = CancelledWith({o})
    /\ outstanding_work_' = outstanding_work_ - 1
    /\ UNCHANGED <<registryVars, work, issued, destroyed>>

-----------------------------------------------------------------------------
(* notify_fork, shutdown and destruction, service by service.              *)

HasThread(s) == work[s].thread # "none"
\* work_scheduler_->stop(), before a fork and in base_shutdown.
MustStop(s) ==
    \/ phase = "fork_prepare" /\ HasThread(s)
    \/ phase = "shutdown" /\ work[s].open

StopWork(s) ==
    /\ Visiting(s) /\ MustStop(s) /\ ~work[s].stopped
    /\ work' = [work EXCEPT ![s].stopped = TRUE]
    /\ UNCHANGED <<registryVars, op_queue_, outstanding_work_, impl, ops>>

NotJoined(s) == TRUE                  \* mutant: the thread is detached
\* work_thread_->join() waits for the thread, in the middle of getaddrinfo() perhaps.
Joined(s) == work[s].thread # "running"

DestroyOps(gone) ==
    /\ destroyed' = destroyed \cup gone
    /\ op' = [o \in Ops |-> IF o \in gone THEN Blank ELSE op[o]]
    /\ impl' = WithoutOwner(gone) /\ cancelled' = CancelledWith(gone) \ gone
    /\ UNCHANGED <<issued, done>>

ForkJoin(s) ==
    /\ Visiting(s) /\ phase = "fork_prepare"
    /\ MustStop(s) => work[s].stopped /\ Joined(s)
    /\ work' = [work EXCEPT ![s].thread = "none"]
    /\ Visited
    /\ UNCHANGED <<op_queue_, outstanding_work_, impl, ops>>

NotRestarted(s) == work               \* mutant: restart() is forgotten
Restarted(s) == IF HasThread(s) THEN work ELSE [work EXCEPT ![s].stopped = FALSE]

\* fork_parent, fork_child: restart() the scheduler; the next operation starts a thread.
ForkResume(s) ==
    /\ Visiting(s) /\ phase = "forked"
    /\ work' = Restarted(s)
    /\ Visited
    /\ UNCHANGED <<op_queue_, outstanding_work_, impl, ops>>

\* base_shutdown joins and deletes the private scheduler with the operations in its
\* queue; scheduler::shutdown destroys what came back.
ShutdownService(s) ==
    /\ Visiting(s) /\ phase = "shutdown"
    /\ MustStop(s) => work[s].stopped /\ Joined(s)
    /\ DestroyOps(ToSet(work[s].queue) \cup ToSet(op_queue_[s]))
    /\ work' = [work EXCEPT ![s] = Idle]
    /\ op_queue_' = [op_queue_ EXCEPT ![s] = <<>>]
    /\ Visited
    /\ UNCHANGED outstanding_work_

\* The destructors: an op_queue destroys what is left in it.
DestroyService(s) ==
    /\ DestroyNext(s)
    /\ DestroyOps(ToSet(op_queue_[s]))
    /\ op_queue_' = [op_queue_ EXCEPT ![s] = <<>>]
    /\ UNCHANGED <<work, outstanding_work_>>

\* The program destroys the context only when nobody uses it and every resolver
\* left is owned by a handler.
BeginWalk ==
    /\ \/ ForkPrepare \/ Fork \/ ForkEnds \/ Destroy
       \/ Shutdown /\ \A r \in Resolvers : ~Held(r)
    /\ UNCHANGED resolverVars

Walk(s) == StopWork(s) \/ ForkJoin(s) \/ ForkResume(s) \/ ShutdownService(s) \/ DestroyService(s)
WorkThread(s) == Take(s) \/ PassBack(s) \/ ThreadEnds(s)

Next ==
    \/ \E t \in Threads : UseServices(t) \/ Registering(t) \/ \E r \in Resolvers : Create(t, r)
    \/ \E r \in Resolvers : \/ Cancel(r) \/ DestroyResolver(r)
                            \/ \E to \in Resolvers : Move(r, to)
                            \/ \E owned \in BOOLEAN : AsyncResolve(r, owned)
    \/ RunHandler
    \/ \E s \in Objects : WorkThread(s) \/ Walk(s)
    \/ BeginWalk

Spec == Init /\ [][Next]_vars

(***************************************************************************)
(* Fairness: the library and its threads go on.  getaddrinfo() returns, a  *)
(* thread of the program is in run(), and a fork or a destruction that has *)
(* begun is carried through.  The program owes no call.                    *)
(***************************************************************************)
Serving ==
    \/ RunHandler
    \/ phase # "open" /\ BeginWalk
    \/ \E s \in Objects : WorkThread(s) \/ Walk(s)
FairSpec == Spec /\ WF_vars(Serving)

-----------------------------------------------------------------------------
\* The variables have their types.
TypeOK ==
    /\ list \in Seq(Objects) /\ todo \in Seq(Objects) /\ forks \in 0 .. MaxForks
    /\ svc \in [Objects -> [key : Keys \cup {"none"}, uses : Seq(Objects),
                            state : {"none", "constructing", "alive", "shutdown"}]]
    /\ found \in [Threads -> SUBSET Objects]
    /\ phase \in {"open", "fork_prepare", "forked", "shutdown", "destroy"}
    /\ work \in [Objects -> [open : BOOLEAN, queue : Seq(Ops), stopped : BOOLEAN,
                             thread : {"none", "running", "ended"}, cur : Ops \cup {NoOp}]]
    /\ op_queue_ \in [Objects -> Seq(Ops)] /\ outstanding_work_ \in Int
    /\ impl \in [Resolvers -> [svc : Objects \cup {NoObject}, token : Tokens \cup {NoToken},
                               owner : Ops \cup {Program}]]
    /\ issued \in 0 .. MaxOps /\ done \subseteq Ops /\ destroyed \subseteq Ops /\ cancelled \subseteq Ops

\* One service per key, and each stands in front of those its constructor obtained,
\* however many threads construct services at the same time.
Ordered ==
    \A i \in DOMAIN list :
        /\ \A j \in DOMAIN list \ {i} : svc[list[i]].key # svc[list[j]].key
        /\ \A u \in ToSet(svc[list[i]].uses) : \E j \in i + 1 .. Len(list) : list[j] = u

\* Nothing outlives what it uses: references that use_service() returned are good
\* as long as the context exists, a resolver (owned by a handler that shutdown() is
\* destroying, perhaps) always finds its service, a work thread an open scheduler to
\* post to; and no thread lives through a fork.
NothingOutlives ==
    /\ TypeOK /\ Ordered
    /\ \A s \in Objects : \A u \in ToSet(svc[s].uses) : Has(list, u)
    /\ \A t \in Threads : \A s \in found[t] : Has(list, s) \/ phase = "destroy"
    /\ \A r \in Resolvers : Exists(r) => Has(list, impl[r].svc)
    /\ \A s \in Objects : HasThread(s) => phase # "forked" /\ svc[SchedulerOf(s)].state = "alive"

\* Where operation o is: the positions in the queues, and the hands of the work threads.
Positions(o, q) == {i \in DOMAIN q : q[i] = o}
Places(o) ==
    UNION {{<<"waiting", s, i>> : i \in Positions(o, work[s].queue)}
           \cup {<<"resolving", s, i>> : i \in Positions(o, <<work[s].cur>>)}
           \cup {<<"answered", s, i>> : i \in Positions(o, op_queue_[s])} : s \in Objects}

\* A resolve operation is in one place until its handler has run or been destroyed,
\* across both schedulers, forks and shutdown, where none is left when the first
\* service is deleted; the context has work exactly as long as there is one.  And the
\* token of one that waits for the work thread has expired if and only if the resolver
\* responsible for it was cancelled or destroyed, across moves.
ResolvedOnce ==
    /\ \A o \in 1 .. issued : Cardinality(Places(o)) = IF o \in Finished THEN 0 ELSE 1
    /\ done \cap destroyed = {}
    /\ Open => outstanding_work_ = Cardinality((1 .. issued) \ Finished)
    /\ phase = "destroy" => Finished = 1 .. issued
    /\ \A s \in Objects : \A o \in ToSet(work[s].queue) : Expired(op[o].token) <=> o \in cancelled

\* A fork takes the work thread away; what was queued waits for the next operation.
AwaitsThread(o) == \E s \in Objects : Has(work[s].queue, o) /\ ~HasThread(s)

\* A resolve operation ends, unless a fork leaves it without a thread.
ResolveEnds ==
    \A o \in Ops : []<>(o \in 1 .. issued => o \in Finished \/ AwaitsThread(o))

\* Without the exception it does not hold: after a fork nobody starts a thread for
\* what is queued (execution_context.hpp promises "correct operation following a fork").
ResolveEndsAnyway == \A o \in Ops : o \in 1 .. issued ~> o \in Finished
=============================================================================
