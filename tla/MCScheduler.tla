---------------------------- MODULE MCScheduler ----------------------------
EXTENDS Scheduler

CONSTANTS t1, t2, none

\* No context is nested.
FlatOuter == [c \in Contexts |-> none]
\* t2 is a poll() or poll_one() called from a handler that t1 runs.
NestedOuter == [c \in Contexts |-> IF c = t2 THEN t1 ELSE none]
=============================================================================
