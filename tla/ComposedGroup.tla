--------------------------- MODULE ComposedGroup ---------------------------
(***************************************************************************)
(* A parallel group one of whose operations is a composed one, such as an  *)
(* async_read_until next to a timer.                                       *)
(*                                                                         *)
(* ParallelGroup assumes that an operation ends once it has been           *)
(* signalled.  Here the first one is ComposedOps, which has to: the signal *)
(* meets it between two operations of its stream or during one.  Its       *)
(* intermediate handlers run in its executor like the last one, which is   *)
(* the group's.                                                            *)
(***************************************************************************)
EXTENDS ParallelGroup, ComposedOps

Me == 0       \* the composed operation

\* The types of cancellation_type.
ASSUME ComposedGroupAssumption == Types \subseteq {"terminal", "partial", "total"}

ExecutorFree == Executor[Me] # NoExecutor => ~Busy(Executor[Me])

InitComposed == Init /\ ComposedInit

\* A signal that reaches the operation's slot.
SignalsMe(A) ==
    /\ A
    /\ IF signals'[Me] = signals[Me] \/ ~InProgress THEN UNCHANGED opVars
       ELSE Emit(signals'[Me][Len(signals'[Me])])

LaunchMe == Launch(Me) /\ Begin
FinishMe == Complete(Me) /\ Finishes
ContinueMe == ExecutorFree /\ Continues /\ UNCHANGED vars

NextComposed ==
    \/ LaunchMe \/ FinishMe \/ ContinueMe
    \/ Outside /\ UNCHANGED vars
    \/ \E i \in Ops : SignalsMe(Emits(i)) \/ SignalsMe(Deliver(i))
    \/ /\ \/ \E i \in Ops \ {Me} : Launch(i) \/ Complete(i)
          \/ \E i \in Ops : OpStep(i)
          \/ Check \/ Register \/ \E type \in Types : CancelGroup(type)
       /\ UNCHANGED opVars

SpecComposed == InitComposed /\ [][NextComposed]_<<vars, opVars>>

\* The handlers of the composed operation run; its stream owes it nothing.
FairComposed ==
    /\ SpecComposed /\ GroupFairness
    /\ \A i \in Ops \ {Me} : EndsOnceSignalled(i)
    /\ SF_opVars(LaunchMe \/ FinishMe \/ ContinueMe)
=============================================================================
