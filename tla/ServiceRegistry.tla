--------------------------- MODULE ServiceRegistry ---------------------------
(***************************************************************************)
(* asio::detail::service_registry and the execution_context that owns it.  *)
(*                                                                         *)
(* A service is an object found by its key.  use_service() looks for it    *)
(* under the registry's mutex, releases the mutex to construct one, since  *)
(* the constructor calls use_service() for what it needs itself, and looks *)
(* again before it links the new object in front of the list.  The list is *)
(* walked from its head by shutdown(), destroy() and fork_prepare, and     *)
(* from its end by the other fork events.                                  *)
(*                                                                         *)
(* The module has no specification of its own: ResolverService adds what   *)
(* the services do when they are visited.                                  *)
(***************************************************************************)
EXTENDS Integers, Sequences, FiniteSets, SequencesExt

CONSTANTS
    Threads,        \* of the program
    Keys,           \* the types of service
    Needs,          \* the services the constructor of each type obtains, in order
    Wants,          \* per thread the services the program asks for there
    MaxServices,    \* bound on the service objects that exist together
    MaxForks

Objects == 1 .. MaxServices
ASSUME RegistryAssumption ==
    /\ Needs \in [Keys -> Seq(Keys)] /\ Wants \in [Threads -> SUBSET Keys] /\ MaxServices \in Nat /\ MaxForks \in Nat

VARIABLES
    list,       \* the services, from first_service_
    svc,        \* the service objects
    stack,      \* per thread the calls in progress, the innermost first
    found,      \* per thread the services it has references to
    phase,      \* what the context is doing
    todo,       \* the services still to be visited
    forks       \* their number, for the bound

registry == <<list, svc, stack, found>>
walk == <<phase, todo, forks>>
registryVars == <<registry, walk>>

NoObject == 0
NoService == [key |-> "none", state |-> "none", uses |-> <<>>]     \* no object at this address
New(k) == [key |-> k, state |-> "constructing", uses |-> <<>>]
FreeAddress(s) == svc[s] = NoService /\ \A r \in Objects : svc[r] = NoService => s <= r
Registered(k) == {s \in ToSet(list) : svc[s].key = k}
Quiet == \A t \in Threads : stack[t] = <<>>
Open == phase = "open"
Top(t) == Head(stack[t])
At(t, where) == stack[t] # <<>> /\ Top(t).at = where

\* The constructors of io_context, thread_pool and system_context add their scheduler.
RegistryInit ==
    /\ list = <<1>>
    /\ svc = [s \in Objects |-> IF s = 1 THEN [New("scheduler") EXCEPT !.state = "alive"] ELSE NoService]
    /\ stack = [t \in Threads |-> <<>>] /\ found = [t \in Threads |-> {}]
    /\ phase = "open" /\ todo = <<>> /\ forks = 0

-----------------------------------------------------------------------------
(* use_service, make_service.                                              *)

\* The call returns s, to the constructor that made it or to the program.
Return(t, s) ==
    LET rest == Tail(stack[t]) IN
    /\ stack' = [stack EXCEPT ![t] = rest]
    /\ found' = IF rest = <<>> THEN [found EXCEPT ![t] = @ \cup {s}] ELSE found

\* The effect of that on the object whose constructor is waiting.
Given(t, s, objects) ==
    IF Len(stack[t]) = 1 THEN objects
    ELSE [objects EXCEPT ![stack[t][2].obj].uses = Append(@, s)]

\* The program asks for a service it has no reference to yet.
Asks(t, k) == Open /\ stack[t] = <<>> /\ k \in Wants[t] /\ \A s \in found[t] : svc[s].key # k

UseService(t, k) ==
    /\ Asks(t, k)
    /\ stack' = [stack EXCEPT ![t] = <<[call |-> "use", key |-> k, obj |-> NoObject, at |-> "find"]>>]
    /\ UNCHANGED <<list, svc, found, walk>>

\* do_use_service: the first look; without success, a new object.
Find(t) ==
    /\ At(t, "find")
    /\ LET k == Top(t).key IN
       \/ \E s \in Registered(k) : Return(t, s) /\ svc' = Given(t, s, svc)
       \/ /\ Registered(k) = {}
          /\ \E s \in Objects :
               /\ FreeAddress(s)
               /\ svc' = [svc EXCEPT ![s] = New(k)]
               /\ stack' = [stack EXCEPT ![t][1].obj = s, ![t][1].at = "construct"]
          /\ UNCHANGED found
    /\ UNCHANGED <<list, walk>>

\* make_service: the object comes first, then do_add_service.
MakeService(t, k) ==
    /\ Asks(t, k)
    /\ \E s \in Objects :
         /\ FreeAddress(s)
         /\ svc' = [svc EXCEPT ![s] = New(k)]
         /\ stack' = [stack EXCEPT ![t] = <<[call |-> "make", key |-> k, obj |-> s, at |-> "construct"]>>]
    /\ UNCHANGED <<list, found, walk>>

Missing(s) == Len(svc[s].uses) < Len(Needs[svc[s].key])

\* The constructor obtains the next service it needs.
ConstructorUses(t) ==
    /\ At(t, "construct") /\ Missing(Top(t).obj)
    /\ LET s == Top(t).obj
           k == Needs[svc[s].key][Len(svc[s].uses) + 1]
       IN  stack' = [stack EXCEPT ![t] =
                       <<[call |-> "use", key |-> k, obj |-> NoObject, at |-> "find"]>> \o @]
    /\ UNCHANGED <<list, svc, found, walk>>

\* It has all of them.
ConstructorEnds(t) ==
    /\ At(t, "construct") /\ ~Missing(Top(t).obj)
    /\ svc' = [svc EXCEPT ![Top(t).obj].state = "alive"]
    /\ stack' = [stack EXCEPT ![t][1].at = "insert"]
    /\ UNCHANGED <<list, found, walk>>

\* Nobody may refer to the object any more: its address is used again.
Delete(s, objects) == [objects EXCEPT ![s] = NoService]

\* It throws, and every constructor around it with it; what they obtained stays registered.
ConstructorThrows(t) ==
    /\ At(t, "construct")
    /\ LET lost == {stack[t][i].obj : i \in 1 .. Len(stack[t])}
       IN  svc' = [s \in Objects |-> IF s \in lost THEN NoService ELSE svc[s]]
    /\ stack' = [stack EXCEPT ![t] = <<>>]
    /\ UNCHANGED <<list, found, walk>>

LinkedLast(s) == Append(list, s)      \* mutant: at the end of the list
LinkedFirst(s) == <<s>> \o list

\* The second look: nobody else has been faster ...
Insert(t) ==
    /\ At(t, "insert") /\ Registered(Top(t).key) = {}
    /\ list' = LinkedFirst(Top(t).obj)
    /\ Return(t, Top(t).obj) /\ svc' = Given(t, Top(t).obj, svc)
    /\ UNCHANGED walk

\* ... or somebody has: auto_service_ptr deletes the new object and the other is
\* returned; do_add_service throws service_already_exists.
Discard(t) ==
    /\ At(t, "insert")
    /\ \E s \in Registered(Top(t).key) :
         IF Top(t).call = "use"
         THEN Return(t, s) /\ svc' = Given(t, s, Delete(Top(t).obj, svc))
         ELSE /\ svc' = Delete(Top(t).obj, svc)
              /\ stack' = [stack EXCEPT ![t] = <<>>] /\ UNCHANGED found
    /\ UNCHANGED <<list, walk>>

-----------------------------------------------------------------------------
(* notify_fork, and the destructor of the context.  The program makes no   *)
(* other call on the context meanwhile (execution_context.hpp:147).        *)

Begin(from, to, services) ==
    /\ phase = from /\ todo = <<>> /\ Quiet
    /\ phase' = to /\ todo' = services
    /\ UNCHANGED registry

\* notify_fork(fork_prepare) makes a copy of the list, newest first ...
ForkPrepare == forks < MaxForks /\ forks' = forks + 1 /\ Begin("open", "fork_prepare", list)
\* ... the process forks, and the parent or the child calls notify_fork, oldest first.
Fork == UNCHANGED forks /\ Begin("fork_prepare", "forked", Reverse(list))
ForkEnds == UNCHANGED forks /\ Begin("forked", "open", <<>>)

\* shutdown_services walks the list ...
Shutdown == UNCHANGED forks /\ Begin("open", "shutdown", list)
\* ... and only when it is through does destroy_services begin.
Destroy == UNCHANGED forks /\ Begin("shutdown", "destroy", <<>>)

Visiting(s) == todo # <<>> /\ s = Head(todo)
\* The call into the service at the head returns.
Visited ==
    /\ todo' = Tail(todo)
    /\ svc' = IF phase = "shutdown" THEN [svc EXCEPT ![Head(todo)].state = "shutdown"] ELSE svc
    /\ UNCHANGED <<list, stack, found, phase, forks>>

DestroyNext(s) ==
    /\ phase = "destroy" /\ list # <<>> /\ s = Head(list)
    /\ list' = Tail(list) /\ svc' = Delete(s, svc)
    /\ UNCHANGED <<stack, found, walk>>

=============================================================================
