--------------------------- MODULE SerialExecutor ---------------------------
(***************************************************************************)
(* What a strand promises (strand.hpp, io_context_strand.hpp): its         *)
(* handlers run only on threads of the executor, never concurrently, and   *)
(* in the order in which they were accepted, except that a handler         *)
(* dispatched from inside the strand runs at once, within the one that     *)
(* dispatches it.                                                          *)
(***************************************************************************)
EXTENDS Naturals, Sequences

CONSTANTS
    Workers,     \* the threads of the underlying executor
    Strands, Handlers,
    Depths       \* numbers: how deep in its thread a handler runs

VARIABLES
    pending,     \* per strand, the accepted handlers in order
    active,      \* per strand, the running handler and those nested in it, each with its depth
    owner,       \* per strand, the threads running them: none or one
    closed,      \* the context has been shut down
    done, destroyed

vars == <<pending, active, owner, closed, done, destroyed>>

Init ==
    /\ pending = [s \in Strands |-> <<>>]
    /\ active = [s \in Strands |-> {}]
    /\ owner = [s \in Strands |-> {}]
    /\ closed = FALSE /\ done = {} /\ destroyed = {}

Fresh(h) == /\ h \notin done \cup destroyed
            /\ \A s \in Strands : /\ \A i \in 1 .. Len(pending[s]) : pending[s][i] # h
                                  /\ \A r \in active[s] : r.h # h

Accept(s, h) ==
    /\ ~closed /\ Fresh(h)
    /\ pending' = [pending EXCEPT ![s] = Append(@, h)]
    /\ UNCHANGED <<active, owner, closed, done, destroyed>>

Begin(t, s, d) ==
    /\ active[s] = {} /\ pending[s] # <<>>
    /\ active' = [active EXCEPT ![s] = {[h |-> Head(pending[s]), at |-> d]}]
    /\ owner' = [owner EXCEPT ![s] = {t}]
    /\ pending' = [pending EXCEPT ![s] = Tail(@)]
    /\ UNCHANGED <<closed, done, destroyed>>

\* Dispatch to a strand with nothing to do may run the handler directly.
BeginNow(t, s, h, d) ==
    /\ ~closed /\ Fresh(h) /\ active[s] = {} /\ pending[s] = <<>>
    /\ active' = [active EXCEPT ![s] = {[h |-> h, at |-> d]}]
    /\ owner' = [owner EXCEPT ![s] = {t}]
    /\ UNCHANGED <<pending, closed, done, destroyed>>

\* Dispatch from inside the strand: the new handler runs above the others.
Nest(t, s, h, d) ==
    /\ Fresh(h) /\ owner[s] = {t} /\ \A r \in active[s] : r.at < d
    /\ active' = [active EXCEPT ![s] = @ \cup {[h |-> h, at |-> d]}]
    /\ UNCHANGED <<pending, owner, closed, done, destroyed>>

\* The innermost of them returns.
End(s) ==
    /\ \E r \in active[s] :
         /\ \A q \in active[s] \ {r} : q.at < r.at
         /\ active' = [active EXCEPT ![s] = @ \ {r}]
         /\ owner' = [owner EXCEPT ![s] = IF active[s] = {r} THEN {} ELSE @]
         /\ done' = done \cup {r.h}
    /\ UNCHANGED <<pending, closed, destroyed>>

\* The context goes away with the handlers that never ran.
Close ==
    /\ ~closed /\ closed' = TRUE
    /\ \A s \in Strands : active[s] = {}
    /\ destroyed' = destroyed \cup
           UNION {{pending[s][i] : i \in 1 .. Len(pending[s])} : s \in Strands}
    /\ pending' = [s \in Strands |-> <<>>]
    /\ UNCHANGED <<active, owner, done>>

Refuse(h) ==
    /\ closed /\ Fresh(h)
    /\ destroyed' = destroyed \cup {h}
    /\ UNCHANGED <<pending, active, owner, closed, done>>

Next ==
    \/ \E s \in Strands, h \in Handlers : Accept(s, h)
    \/ \E t \in Workers, s \in Strands, d \in Depths :
         Begin(t, s, d) \/ \E h \in Handlers : BeginNow(t, s, h, d) \/ Nest(t, s, h, d)
    \/ \E s \in Strands : End(s)
    \/ Close
    \/ \E h \in Handlers : Refuse(h)

Spec == Init /\ [][Next]_vars
=============================================================================
