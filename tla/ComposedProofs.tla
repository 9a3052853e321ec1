--------------------------- MODULE ComposedProofs ---------------------------
(***************************************************************************)
(* What a composed operation reports is true, for every text, delimiter,   *)
(* size, sequence of buffers, condition and set of endpoints, whatever the *)
(* stream does and whenever a cancellation comes; and it stays true when   *)
(* the operation is one of a parallel group.  A group of any number of     *)
(* operations, with any executors, calls its handler once, when everything *)
(* is complete, and signals no operation twice.                            *)
(*                                                                         *)
(* What a group promises rests on different words.  CompletionInv is about *)
(* completed_ and outstanding_, which count the operations that have drawn *)
(* a place and those that still use the shared state.  SignalInv is about  *)
(* cancellations_requested_, which stands above N until all have been      *)
(* launched, and is zero only as long as nobody has emitted a signal.      *)
(***************************************************************************)
EXTENDS ComposedGroup, FiniteSetTheorems, SequenceTheorems, WellFoundedInduction, TLAPS

USE GroupAssumption DEF GroupAssumption

OpPoints == {"unlaunched", "pending", "capture", "ask", "request", "finish", "done"}
LauncherPoints == {"launch", "emit", "done"}
Points == OpPoints \cup LauncherPoints

\* The control points of the operations and of the launching function.
ControlOK ==
    /\ pc \in [0 .. Launcher -> Points]
    /\ \A i \in Ops : pc[i] \in OpPoints
    /\ pc[Launcher] \in LauncherPoints

-----------------------------------------------------------------------------
(* Completion.                                                             *)

Drawn == {i \in Ops : pc[i] \notin {"unlaunched", "pending"}}    \* have a place
Using == {i \in Ops : pc[i] # "done"}                            \* use the shared state

CompletionTypes ==
    /\ completed_ \in 0 .. N /\ outstanding_ \in 0 .. N /\ called \in Nat
    /\ completion_order_ \in [Ops -> Ops] /\ args_ \subseteq Ops /\ place \in [Ops -> Ops]

CountsRight == completed_ = Cardinality(Drawn) /\ outstanding_ = Cardinality(Using)

\* No two operations have drawn the same place.
OwnPlace ==
    \A i \in Drawn : place[i] < completed_ /\ \A j \in Drawn : place[i] = place[j] => i = j

\* An operation past Capture has left its result and its place.
Recorded ==
    \A i \in Drawn : pc[i] # "capture" => i \in args_ /\ completion_order_[place[i]] = i

CalledAtZero == called = IF outstanding_ = 0 THEN 1 ELSE 0

CompletionInv ==
    ControlOK /\ CompletionTypes /\ CountsRight /\ OwnPlace /\ Recorded /\ CalledAtZero

\* The sets that are counted are finite.
LEMMA OpsFinite ==
  /\ IsFiniteSet(Ops) /\ Cardinality(Ops) = N
  /\ \A S \in SUBSET Ops : IsFiniteSet(S) /\ Cardinality(S) \in 0 .. N
<1>1. IsFiniteSet(Ops) /\ Cardinality(Ops) = N
  BY FS_Interval DEF Ops
<1>2. ASSUME NEW S \in SUBSET Ops PROVE IsFiniteSet(S) /\ Cardinality(S) \in 0 .. N
  BY <1>1, FS_Subset, FS_CardinalityType
<1> QED
  BY <1>1, <1>2

\* The launching function is none of the operations.
LEMMA OpsBelow == \A i \in Ops : i \in 0 .. Launcher /\ i # Launcher /\ i \in Int
BY DEF Ops, Launcher

LEMMA InitCompletion == Init => CompletionInv
<1> SUFFICES ASSUME Init PROVE CompletionInv
  OBVIOUS
<1>0. pc = [p \in 0 .. Launcher |-> IF p = Launcher THEN "launch" ELSE "unlaunched"]
  BY DEF Init
<1>1. Drawn = {} /\ Using = Ops
  BY <1>0, OpsBelow DEF Drawn, Using
<1>2. CountsRight
  BY <1>1, OpsFinite, FS_EmptySet DEF CountsRight, Init
<1>3. OwnPlace /\ Recorded
  BY <1>1 DEF OwnPlace, Recorded
<1>4. ControlOK
  <2>1. Launcher \in 0 .. Launcher
    BY DEF Launcher
  <2> QED
    BY <1>0, <2>1, OpsBelow DEF ControlOK, Points, OpPoints, LauncherPoints
<1>5. CompletionTypes /\ CalledAtZero
  BY DEF Init, CompletionTypes, CalledAtZero, Ops
<1> QED
  BY <1>2, <1>3, <1>4, <1>5 DEF CompletionInv

\* Steps that leave the words, the results and the places alone, and move no operation
\* across the boundaries that are counted.
completionVars == <<completed_, outstanding_, called, completion_order_, args_, place>>
LEMMA NothingCounted ==
  ASSUME CompletionInv, UNCHANGED completionVars, ControlOK',
         \A i \in Ops : \/ pc'[i] = pc[i]
                        \/ {pc[i], pc'[i]} \subseteq {"unlaunched", "pending"}
                        \/ {pc[i], pc'[i]} \subseteq {"ask", "request", "finish"}
  PROVE  CompletionInv'
<1>1. Drawn' = Drawn /\ Using' = Using
  BY DEF Drawn, Using
<1>2. \A i \in Drawn : pc'[i] = "capture" <=> pc[i] = "capture"
  BY DEF Drawn
<1>3. CompletionTypes' /\ CountsRight' /\ CalledAtZero'
  BY <1>1 DEF CompletionInv, CompletionTypes, CountsRight, CalledAtZero, completionVars
<1>4. OwnPlace' /\ Recorded'
  BY <1>1, <1>2 DEF CompletionInv, OwnPlace, Recorded, completionVars
<1> QED
  BY <1>3, <1>4 DEF CompletionInv

\* A place is drawn.
LEMMA CompleteStep ==
  ASSUME CompletionInv, NEW i \in Ops, Complete(i)
  PROVE  CompletionInv'
<1> USE DEF CompletionInv
<1>1. /\ pc[i] = "pending" /\ pc' = [pc EXCEPT ![i] = "capture"]
      /\ place' = [place EXCEPT ![i] = completed_] /\ completed_' = completed_ + 1
      /\ UNCHANGED <<outstanding_, called, completion_order_, args_>>
  BY DEF Complete, Goto, group
<1>2. ControlOK'
  BY <1>1 DEF ControlOK, OpPoints, Points, Ops, Launcher
<1>3. i \notin Drawn /\ Drawn' = Drawn \cup {i} /\ Using' = Using
  BY <1>1 DEF Drawn, Using, ControlOK, Ops, Launcher
<1>4. CountsRight'
  BY <1>1, <1>3, OpsFinite, FS_AddElement DEF CountsRight, Drawn
<1>5. completed_ + 1 \in 0 .. N
  <2>1. Drawn' \in SUBSET Ops /\ completed_' = Cardinality(Drawn')
    BY <1>4 DEF CountsRight, Drawn
  <2> QED
    BY <1>1, <2>1, OpsFinite
<1>6. CompletionTypes'
  <2>1. completed_ \in Ops
    BY <1>5 DEF CompletionTypes, Ops
  <2> QED
    BY <1>1, <1>5, <2>1 DEF CompletionTypes
<1>7. OwnPlace'
  <2>1. place'[i] = completed_ /\ \A j \in Drawn : place'[j] = place[j]
    BY <1>1, <1>3 DEF CompletionTypes, Drawn
  <2>2. \A j \in Drawn : place[j] \in Int /\ place[j] < completed_
    <3>1. \A j \in Drawn : j \in Ops /\ place[j] \in Ops
      BY DEF CompletionTypes, Drawn
    <3> QED
      BY <3>1, OpsBelow DEF OwnPlace
  <2>3. completed_ \in Int
    BY DEF CompletionTypes
  <2> QED
    BY <1>1, <1>3, <2>1, <2>2, <2>3 DEF OwnPlace
<1>8. Recorded'
  BY <1>1, <1>3 DEF Recorded, CompletionTypes, Drawn, ControlOK, Ops, Launcher
<1>9. CalledAtZero'
  BY <1>1 DEF CalledAtZero
<1> QED
  BY <1>2, <1>4, <1>6, <1>7, <1>8, <1>9

\* The result and the place are left.
LEMMA CaptureStep ==
  ASSUME CompletionInv, NEW i \in Ops, NEW type, Capture(i, type)
  PROVE  CompletionInv'
<1> USE DEF CompletionInv
<1>1. /\ pc[i] = "capture" /\ \E at \in {"finish", "ask"} : pc' = [pc EXCEPT ![i] = at]
      /\ completion_order_' = [completion_order_ EXCEPT ![place[i]] = i]
      /\ args_' = args_ \cup {i}
      /\ UNCHANGED <<completed_, outstanding_, called, place>>
  BY DEF Capture, Goto, group, counters
<1>2. ControlOK'
  BY <1>1 DEF ControlOK, OpPoints, Points, Ops, Launcher
<1>3. i \in Drawn /\ Drawn' = Drawn /\ Using' = Using
  BY <1>1 DEF Drawn, Using, ControlOK, Ops, Launcher
<1>4. CompletionTypes' /\ CountsRight' /\ CalledAtZero'
  BY <1>1, <1>3 DEF CompletionTypes, CountsRight, CalledAtZero
<1>5. OwnPlace'
  BY <1>1, <1>3 DEF OwnPlace
<1>6. ASSUME NEW j \in Drawn, pc'[j] # "capture"
      PROVE  j \in args_' /\ completion_order_'[place[j]] = j
  <2>1. CASE j = i
    BY <1>1, <2>1 DEF CompletionTypes
  <2>2. CASE j # i
    <3>1. place[j] # place[i]
      BY <1>3, <2>2 DEF OwnPlace
    <3>2. pc[j] # "capture"
      BY <1>1, <1>6, <2>2 DEF ControlOK, Drawn, Ops, Launcher
    <3> QED
      BY <1>1, <3>1, <3>2 DEF Recorded, CompletionTypes, Drawn
  <2> QED
    BY <2>1, <2>2
<1>7. Recorded'
  BY <1>1, <1>3, <1>6 DEF Recorded
<1> QED
  BY <1>2, <1>4, <1>5, <1>7

\* The shared state is released, and the last calls the handler.
LEMMA FinishStep ==
  ASSUME CompletionInv, NEW i \in Ops, Finish(i)
  PROVE  CompletionInv'
<1> USE DEF CompletionInv
<1>1. /\ pc[i] = "finish" /\ pc' = [pc EXCEPT ![i] = "done"]
      /\ outstanding_' = outstanding_ - 1
      /\ called' = IF outstanding_ = 1 THEN called + 1 ELSE called
      /\ UNCHANGED <<completed_, completion_order_, args_, place>>
  BY DEF Finish, Goto, LastToFinish, results
<1>2. ControlOK'
  BY <1>1 DEF ControlOK, OpPoints, Points, Ops, Launcher
<1>3. i \in Using /\ Drawn' = Drawn /\ Using' = Using \ {i}
  BY <1>1 DEF Drawn, Using, ControlOK, Ops, Launcher
<1>4. CountsRight'
  <2>1. IsFiniteSet(Using)
    BY OpsFinite DEF Using
  <2>2. Cardinality(Using \ {i}) = Cardinality(Using) - 1
    BY <1>3, <2>1, FS_RemoveElement
  <2> QED
    BY <1>1, <1>3, <2>2 DEF CountsRight
<1>5. outstanding_ # 0
  BY <1>3, OpsFinite, FS_EmptySet DEF CountsRight, Using
<1>6. CompletionTypes' /\ CalledAtZero'
  BY <1>1, <1>5 DEF CompletionTypes, CalledAtZero
<1>7. OwnPlace' /\ Recorded'
  BY <1>1, <1>3 DEF OwnPlace, Recorded, ControlOK, Drawn, Ops, Launcher
<1> QED
  BY <1>2, <1>4, <1>6, <1>7

LEMMA NextCompletion == CompletionInv /\ [Next]_vars => CompletionInv'
<1> SUFFICES ASSUME CompletionInv, [Next]_vars PROVE CompletionInv'
  OBVIOUS
<1> USE DEF CompletionInv, Goto, group, counters, results, emission, completionVars
<1>1. ASSUME NEW i \in Ops, Launch(i) PROVE CompletionInv'
  <2>1. ControlOK'
    BY <1>1 DEF Launch, ControlOK, OpPoints, LauncherPoints, Points, Ops, Launcher
  <2> QED
    BY <1>1, <2>1, NothingCounted DEF Launch, ControlOK, Ops, Launcher
<1>2. ASSUME NEW i \in Ops, Complete(i) PROVE CompletionInv'
  BY <1>2, CompleteStep
<1>3. ASSUME NEW i \in Ops, NEW type, Capture(i, type) PROVE CompletionInv'
  BY <1>3, CaptureStep
<1>4. ASSUME NEW i \in Ops, SaveType(i) \/ Request(i) PROVE CompletionInv'
  <2>1. ControlOK'
    BY <1>4 DEF SaveType, Request, ControlOK, OpPoints, LauncherPoints, Points, Ops, Launcher
  <2> QED
    BY <1>4, <2>1, NothingCounted DEF SaveType, Request, ControlOK, Ops, Launcher
<1>5. ASSUME NEW i \in Ops, Finish(i) PROVE CompletionInv'
  BY <1>5, FinishStep
<1>6. ASSUME Check \/ Register PROVE CompletionInv'
  <2>1. ControlOK'
    BY <1>6, SMTT(30) DEF Check, Register, ControlOK, OpPoints, LauncherPoints, Points, Ops, Launcher
  <2> QED
    BY <1>6, <2>1, NothingCounted DEF Check, Register, ControlOK, Ops, Launcher
<1>7. ASSUME UNCHANGED <<completed_, outstanding_, results, pc, called>> PROVE CompletionInv'
  <2>1. ControlOK'
    BY <1>7 DEF ControlOK
  <2> QED
    BY <1>7, <2>1, NothingCounted
<1>8. ASSUME NEW i \in Ops, Emits(i) \/ Deliver(i) PROVE CompletionInv'
  BY <1>7, <1>8 DEF Emits, LauncherEmits, UserEmits, OpEmits, Deliver
<1>9. ASSUME NEW type \in Types, CancelGroup(type) PROVE CompletionInv'
  BY <1>7, <1>9 DEF CancelGroup
<1>10. CASE UNCHANGED vars
  BY <1>7, <1>10 DEF vars
<1> QED
  BY <1>1, <1>2, <1>3, <1>4, <1>5, <1>6, <1>8, <1>9, <1>10 DEF Next, OpStep

\* The handler runs once, after every operation has stored its result and its place and
\* has let go of the shared state, whoever finishes last.
THEOREM HandlerCalledOnce == Spec => []CalledWhenComplete
<1>1. CompletionInv => CalledWhenComplete
  <2> SUFFICES ASSUME CompletionInv PROVE CalledWhenComplete
    OBVIOUS
  <2> USE DEF CompletionInv
  <2>1. called = IF outstanding_ = 0 THEN 1 ELSE 0
    BY DEF CalledAtZero
  <2>2. ASSUME called > 0
        PROVE  args_ = Ops /\ \A i \in Ops : pc[i] = "done" /\ \E k \in Ops : completion_order_[k] = i
    <3>1. Using = {}
      BY <2>1, <2>2, OpsFinite, FS_EmptySet DEF CountsRight, Using
    <3>2. \A i \in Ops : pc[i] = "done" /\ i \in Drawn
      BY <3>1 DEF Using, Drawn
    <3>3. \A i \in Ops : i \in args_ /\ completion_order_[place[i]] = i /\ place[i] \in Ops
      BY <3>2 DEF Recorded, CompletionTypes
    <3> QED
      BY <3>2, <3>3 DEF CompletionTypes
  <2> QED
    BY <2>1, <2>2 DEF CalledWhenComplete
<1> QED
  BY InitCompletion, NextCompletion, <1>1, PTL DEF Spec

-----------------------------------------------------------------------------
(* Cancellation.                                                           *)

Emitters == 0 .. User
Emitting == {p \in Emitters : emitting[p].to # {}}
Requested == {i \in Ops : pc[i] \in {"finish", "done"} /\ asks[i] # "none"}

SignalTypes ==
    /\ cancellations_requested_ \in Nat /\ cancel_type_ \in Types \cup {"none"}
    /\ asks \in [Ops -> Types \cup {"none"}]
    /\ emitting \in [Emitters -> [type : Types \cup {"none"}, to : SUBSET Ops]]
    /\ signals \in [Ops -> Seq(Types)] /\ dispatched \in [Ops -> Seq(Types)]
    /\ slot \in BOOLEAN /\ cancels \in 0 .. MaxCancels

\* What an emission carries: Launcher's is cancel_type_, saved before the request.
TypeSaved ==
    /\ \A i \in Ops : pc[i] \in {"ask", "request"} => asks[i] \in Types
    /\ (\E i \in Ops : pc[i] = "request" \/ i \in Requested) => cancel_type_ \in Types
    /\ \A p \in Emitting : IF p = Launcher THEN Requested # {} ELSE emitting[p].type \in Types

\* The counter stands above N until everything is launched; the program can ask only then.
RequestsCounted ==
    /\ slot => pc[Launcher] # "launch"
    /\ IF pc[Launcher] = "launch"
       THEN cancellations_requested_ = N + Cardinality(Requested)
       ELSE cancellations_requested_ \in Cardinality(Requested) .. Cardinality(Requested) + cancels

\* Nobody emits during the launch, nor before there is a request; and only one does.
QuietBefore ==
    pc[Launcher] = "launch" \/ cancellations_requested_ = 0 =>
        Emitting = {} /\ \A i \in Ops : signals[i] = <<>> /\ dispatched[i] = <<>>
OneEmitter == \A p, q \in Emitting : p = q

\* An operation that is still to be signalled has not been; and at most once.
Fresh == \A p \in Emitters : \A i \in emitting[p].to : signals[i] = <<>> /\ dispatched[i] = <<>>
AtMostOneSignal == \A i \in Ops : Len(signals[i]) + Len(dispatched[i]) <= 1

SignalInv ==
    /\ ControlOK /\ SignalTypes /\ TypeSaved /\ RequestsCounted /\ QuietBefore /\ OneEmitter
    /\ Fresh /\ AtMostOneSignal

LEMMA InitSignal == Init => SignalInv
<1> SUFFICES ASSUME Init PROVE SignalInv
  OBVIOUS
<1>1. ControlOK
  BY InitCompletion DEF CompletionInv
<1>2. /\ emitting = [p \in Emitters |-> NoEmission] /\ asks = [i \in Ops |-> "none"]
      /\ dispatched = [i \in Ops |-> <<>>] /\ signals = [i \in Ops |-> <<>>]
      /\ cancellations_requested_ = N /\ cancel_type_ = "none" /\ slot = FALSE /\ cancels = 0
  BY DEF Init, Emitters
<1>3. pc[Launcher] = "launch" /\ \A i \in Ops : pc[i] = "unlaunched"
  <2>1. pc = [p \in 0 .. Launcher |-> IF p = Launcher THEN "launch" ELSE "unlaunched"]
    BY DEF Init
  <2>2. Launcher \in 0 .. Launcher
    BY DEF Launcher
  <2> QED
    BY <2>1, <2>2, OpsBelow
<1>4. Emitting = {} /\ Requested = {}
  BY <1>2 DEF Emitting, Requested, NoEmission
<1>5. SignalTypes
  <2>1. NoEmission \in [type : Types \cup {"none"}, to : SUBSET Ops]
    BY DEF NoEmission
  <2>2. emitting \in [Emitters -> [type : Types \cup {"none"}, to : SUBSET Ops]]
    BY <1>2, <2>1
  <2>3. signals \in [Ops -> Seq(Types)] /\ dispatched \in [Ops -> Seq(Types)]
    BY <1>2
  <2>4. asks \in [Ops -> Types \cup {"none"}] /\ cancel_type_ \in Types \cup {"none"}
    BY <1>2
  <2>5. cancellations_requested_ \in Nat /\ cancels \in 0 .. MaxCancels
    BY <1>2
  <2>6. slot \in BOOLEAN
    BY <1>2
  <2> QED
    BY <2>2, <2>3, <2>4, <2>5, <2>6 DEF SignalTypes
<1>6. TypeSaved /\ OneEmitter
  BY <1>3, <1>4 DEF TypeSaved, OneEmitter
<1>7. RequestsCounted
  BY <1>2, <1>3, <1>4, FS_EmptySet DEF RequestsCounted
<1>8. QuietBefore /\ Fresh /\ AtMostOneSignal
  BY <1>2, <1>4 DEF QuietBefore, Fresh, AtMostOneSignal, NoEmission
<1> QED
  BY <1>1, <1>5, <1>6, <1>7, <1>8 DEF SignalInv

\* Steps of an operation or the launching function that neither ask nor emit.
signalVars == <<cancellations_requested_, emitting, signals, dispatched, cancels>>
LEMMA NothingAsked ==
  ASSUME SignalInv, UNCHANGED signalVars, ControlOK',
         Requested' = Requested,
         pc'[Launcher] = "launch" <=> pc[Launcher] = "launch",
         SignalTypes', TypeSaved', slot' => pc'[Launcher] # "launch"
  PROVE  SignalInv'
<1>1. Emitting' = Emitting
  BY DEF Emitting, signalVars
<1>2. RequestsCounted'
  BY DEF SignalInv, RequestsCounted, signalVars
<1>3. QuietBefore' /\ OneEmitter'
  BY <1>1 DEF SignalInv, QuietBefore, OneEmitter, signalVars
<1>4. Fresh' /\ AtMostOneSignal'
  BY DEF SignalInv, Fresh, AtMostOneSignal, signalVars
<1> QED
  BY <1>2, <1>3, <1>4 DEF SignalInv

\* One signal, to the operation or to its executor, where there was none.
LEMMA FirstSignal ==
  ASSUME NEW S, NEW x \in S
  PROVE  Len(Append(<<>>, x)) + Len(<<>>) <= 1 /\ Len(<<>>) + Len(Append(<<>>, x)) <= 1
<1>1. <<>> \in Seq(S) /\ Append(<<>>, x) \in Seq(S)
  OBVIOUS
<1>2. Len(<<>>) = 0 /\ Len(Append(<<>>, x)) = 1
  OBVIOUS
<1> QED
  BY <1>1, <1>2

\* A signal is emitted to one operation, by the only emitter there is.
LEMMA EmitStep ==
  ASSUME SignalInv, NEW p \in Emitters, NEW i \in Ops, NEW type \in Types, EmitNext(p, i, type),
         UNCHANGED <<counters, results, pc, group>>
  PROVE  SignalInv'
<1> USE DEF SignalInv
<1>1. /\ i \in emitting[p].to /\ emitting' = [emitting EXCEPT ![p].to = @ \ {i}]
      /\ \/ signals' = [signals EXCEPT ![i] = Append(@, type)] /\ UNCHANGED dispatched
         \/ dispatched' = [dispatched EXCEPT ![i] = Append(@, type)] /\ UNCHANGED signals
  BY DEF EmitNext, Reach
<1>2. signals[i] = <<>> /\ dispatched[i] = <<>> /\ p \in Emitting
  BY <1>1 DEF Fresh, Emitting
<1>3. UNCHANGED <<cancellations_requested_, cancel_type_, asks, pc, slot, cancels>>
  BY DEF counters, results, group
<1>4. ControlOK' /\ Requested' = Requested
  BY <1>3 DEF ControlOK, Requested
<1>5. emitting'[p].to = emitting[p].to \ {i} /\ emitting'[p].type = emitting[p].type
      /\ \A q \in Emitters \ {p} : emitting'[q] = emitting[q]
  BY <1>1 DEF SignalTypes
<1>6. Emitting' \subseteq Emitting
  BY <1>5 DEF Emitting
<1>7. SignalTypes'
  <2>1. emitting' \in [Emitters -> [type : Types \cup {"none"}, to : SUBSET Ops]]
    <3> DEFINE e == [emitting[p] EXCEPT !.to = emitting[p].to \ {i}]
    <3>1. emitting[p] \in [type : Types \cup {"none"}, to : SUBSET Ops]
      BY DEF SignalTypes
    <3>2. e \in [type : Types \cup {"none"}, to : SUBSET Ops]
      BY <3>1
    <3>3. emitting' = [emitting EXCEPT ![p] = e]
      BY <1>1
    <3> HIDE DEF e
    <3> QED
      BY <3>2, <3>3 DEF SignalTypes
  <2>2. signals' \in [Ops -> Seq(Types)] /\ dispatched' \in [Ops -> Seq(Types)]
    <3>1. Append(signals[i], type) \in Seq(Types) /\ Append(dispatched[i], type) \in Seq(Types)
      BY DEF SignalTypes
    <3>2. signals \in [Ops -> Seq(Types)] /\ dispatched \in [Ops -> Seq(Types)]
      BY DEF SignalTypes
    <3>3. [signals EXCEPT ![i] = Append(@, type)] \in [Ops -> Seq(Types)]
      BY <3>1, <3>2
    <3>4. [dispatched EXCEPT ![i] = Append(@, type)] \in [Ops -> Seq(Types)]
      BY <3>1, <3>2
    <3> QED
      BY <1>1, <3>2, <3>3, <3>4, Zenon
  <2> QED
    BY <1>3, <2>1, <2>2 DEF SignalTypes
<1>8. TypeSaved'
  BY <1>3, <1>4, <1>5, <1>6 DEF TypeSaved, Emitting
<1>9. RequestsCounted'
  BY <1>3, <1>4 DEF RequestsCounted
<1>10. QuietBefore' /\ OneEmitter'
  BY <1>2, <1>3, <1>6 DEF QuietBefore, OneEmitter
<1>11. Fresh'
  <2> SUFFICES ASSUME NEW q \in Emitters, NEW j \in emitting'[q].to
               PROVE  signals'[j] = <<>> /\ dispatched'[j] = <<>>
    BY DEF Fresh
  <2>1. j \in emitting[q].to /\ j # i
    <3>1. CASE q = p
      BY <1>5, <3>1
    <3>2. CASE q # p
      BY <1>2, <1>5, <3>2 DEF OneEmitter, Emitting
    <3> QED
      BY <3>1, <3>2
  <2>2. j \in Ops
    BY <2>1 DEF SignalTypes
  <2> QED
    BY <1>1, <2>1, <2>2 DEF Fresh, SignalTypes
<1>12. AtMostOneSignal'
  <2> SUFFICES ASSUME NEW j \in Ops PROVE Len(signals'[j]) + Len(dispatched'[j]) <= 1
    BY DEF AtMostOneSignal
  <2>1. CASE j # i
    BY <1>1, <2>1 DEF AtMostOneSignal, SignalTypes
  <2>2. CASE j = i
    <3>1. \/ signals'[i] = Append(<<>>, type) /\ dispatched'[i] = <<>>
          \/ dispatched'[i] = Append(<<>>, type) /\ signals'[i] = <<>>
      BY <1>1, <1>2 DEF SignalTypes
    <3> QED
      BY <2>2, <3>1, FirstSignal, Zenon
  <2> QED
    BY <2>1, <2>2
<1> QED
  BY <1>4, <1>7, <1>8, <1>9, <1>10, <1>11, <1>12

\* Whoever emits, the signal carries a type.
LEMMA EmitsStep ==
  ASSUME SignalInv, NEW i \in Ops, Emits(i)
  PROVE  SignalInv'
<1> USE DEF SignalInv
<1>1. Launcher \in Emitters /\ User \in Emitters /\ User # Launcher /\ Ops \subseteq Emitters
  BY DEF Emitters, Launcher, User, Ops
<1>2. CASE LauncherEmits(i)
  <2>1. EmitNext(Launcher, i, cancel_type_) /\ UNCHANGED <<counters, results, pc, group, called>>
    BY <1>2 DEF LauncherEmits
  <2>2. Launcher \in Emitting
    BY <1>1, <2>1 DEF EmitNext, Emitting
  <2>3. cancel_type_ \in Types
    BY <2>2 DEF TypeSaved, Requested
  <2> QED
    BY <1>1, <2>1, <2>3, EmitStep
<1>3. CASE UserEmits(i)
  <2>1. EmitNext(User, i, emitting[User].type) /\ UNCHANGED <<counters, results, pc, group, called>>
    BY <1>3 DEF UserEmits
  <2>2. User \in Emitting
    BY <1>1, <2>1 DEF EmitNext, Emitting
  <2>3. emitting[User].type \in Types
    BY <1>1, <2>2 DEF TypeSaved
  <2> QED
    BY <1>1, <2>1, <2>3, EmitStep
<1>4. CASE \E j \in Ops : OpEmits(j, i)
  <2>1. PICK j \in Ops : OpEmits(j, i)
    BY <1>4
  <2>2. EmitNext(j, i, emitting[j].type) /\ UNCHANGED <<counters, results, pc, group, called>>
    BY <2>1 DEF OpEmits
  <2>3. j \in Emitting /\ j # Launcher
    BY <1>1, <2>2, OpsBelow DEF EmitNext, Emitting
  <2>4. emitting[j].type \in Types
    BY <2>3 DEF TypeSaved
  <2> QED
    BY <1>1, <2>2, <2>4, EmitStep
<1> QED
  BY <1>2, <1>3, <1>4 DEF Emits

\* A signal that is passed on is not a new one.
LEMMA PassedOn ==
  ASSUME NEW S, NEW a \in Seq(S), NEW b \in Seq(S), b # <<>>, Len(a) + Len(b) <= 1
  PROVE  /\ Append(a, Head(b)) \in Seq(S) /\ Tail(b) \in Seq(S)
         /\ Len(Append(a, Head(b))) + Len(Tail(b)) <= 1
<1>1. Head(b) \in S /\ Tail(b) \in Seq(S) /\ Len(Tail(b)) = Len(b) - 1
  OBVIOUS
<1>2. Append(a, Head(b)) \in Seq(S) /\ Len(Append(a, Head(b))) = Len(a) + 1
  BY <1>1
<1>3. {Len(a), Len(b), Len(Append(a, Head(b))), Len(Tail(b))} \subseteq Nat
  BY <1>1, <1>2
<1> QED
  BY <1>1, <1>2, <1>3

\* An executor hands on the signal it was given.
LEMMA DeliverStep ==
  ASSUME SignalInv, NEW i \in Ops, Deliver(i)
  PROVE  SignalInv'
<1> USE DEF SignalInv
<1>1. /\ dispatched[i] # <<>>
      /\ signals' = [signals EXCEPT ![i] = Append(@, Head(dispatched[i]))]
      /\ dispatched' = [dispatched EXCEPT ![i] = Tail(@)]
  BY DEF Deliver, Reach
<1>2. UNCHANGED <<cancellations_requested_, cancel_type_, asks, pc, slot, cancels, emitting>>
  BY DEF Deliver, counters, results, group
<1>3. ControlOK' /\ Requested' = Requested /\ Emitting' = Emitting
  BY <1>2 DEF ControlOK, Requested, Emitting
<1>4. dispatched[i] \in Seq(Types) /\ signals[i] \in Seq(Types) /\ Len(signals[i]) + Len(dispatched[i]) <= 1
  BY DEF SignalTypes, AtMostOneSignal
<1>5. /\ Append(signals[i], Head(dispatched[i])) \in Seq(Types) /\ Tail(dispatched[i]) \in Seq(Types)
      /\ Len(Append(signals[i], Head(dispatched[i]))) + Len(Tail(dispatched[i])) <= 1
  BY <1>1, <1>4, PassedOn
<1>6. SignalTypes'
  <2>1. signals' \in [Ops -> Seq(Types)] /\ dispatched' \in [Ops -> Seq(Types)]
    BY <1>1, <1>5 DEF SignalTypes
  <2> QED
    BY <1>2, <2>1 DEF SignalTypes
<1>7. TypeSaved' /\ RequestsCounted' /\ OneEmitter'
  BY <1>2, <1>3 DEF TypeSaved, RequestsCounted, OneEmitter
<1>8. QuietBefore'
  BY <1>1, <1>2, <1>3 DEF QuietBefore
<1>9. Fresh'
  BY <1>1, <1>2 DEF Fresh, SignalTypes
<1>10. AtMostOneSignal'
  <2> SUFFICES ASSUME NEW j \in Ops PROVE Len(signals'[j]) + Len(dispatched'[j]) <= 1
    BY DEF AtMostOneSignal
  <2>1. CASE j # i
    BY <1>1, <2>1 DEF AtMostOneSignal, SignalTypes
  <2>2. CASE j = i
    <3>1. signals'[i] = Append(signals[i], Head(dispatched[i])) /\ dispatched'[i] = Tail(dispatched[i])
      BY <1>1 DEF SignalTypes
    <3> QED
      BY <1>5, <2>2, <3>1, Zenon
  <2> QED
    BY <2>1, <2>2
<1> QED
  BY <1>3, <1>6, <1>7, <1>8, <1>9, <1>10

\* The counter does not reach its width.
LEMMA NoWrap == ASSUME NEW n \in Nat, n <= 2 * N + MaxCancels PROVE n % UnsignedMax = n
<1>1. n < 65536 /\ 0 <= n
  BY DEF UnsignedMax
<1> QED
  BY <1>1 DEF UnsignedMax

\* A group that asks for cancellation: the first to do so emits, nobody else.
LEMMA AskStep ==
  ASSUME SignalInv, NEW p \in Emitters, p # Launcher, NEW type \in Types, NEW to \in SUBSET Ops,
         pc[Launcher] = "launch" => cancellations_requested_ # 0,
         cancellations_requested_' = cancellations_requested_ + 1,
         emitting' = [emitting EXCEPT ![p] = Emission(type, IF cancellations_requested_ = 0 THEN to ELSE {})],
         UNCHANGED <<cancel_type_, asks, dispatched, signals, slot>>,
         cancels' \in 0 .. MaxCancels, ControlOK', pc'[Launcher] = pc[Launcher],
         RequestsCounted', TypeSaved'
  PROVE  SignalInv'
<1> USE DEF SignalInv
<1> DEFINE e == Emission(type, IF cancellations_requested_ = 0 THEN to ELSE {})
<1>1. e \in [type : Types \cup {"none"}, to : SUBSET Ops]
  BY DEF Emission
<1>2. e.to = IF cancellations_requested_ = 0 THEN to ELSE {}
  BY DEF Emission
<1>3. emitting'[p] = e /\ \A q \in Emitters \ {p} : emitting'[q] = emitting[q]
  BY DEF SignalTypes
<1>4. emitting' \in [Emitters -> [type : Types \cup {"none"}, to : SUBSET Ops]]
  BY <1>1 DEF SignalTypes
<1> HIDE DEF e
<1>5. SignalTypes'
  BY <1>4 DEF SignalTypes
<1>6. cancellations_requested_ \in Nat
  BY DEF SignalTypes
<1>7. QuietBefore'
  <2>1. pc[Launcher] = "launch" => Emitting' = {}
    BY <1>2, <1>3 DEF QuietBefore, Emitting
  <2> QED
    BY <1>6, <2>1 DEF QuietBefore
<1>8. OneEmitter'
  <2>1. CASE cancellations_requested_ = 0
    <3>1. Emitting' \subseteq {p}
      BY <1>3, <2>1 DEF QuietBefore, Emitting
    <3> QED
      BY <3>1 DEF OneEmitter
  <2>2. CASE cancellations_requested_ # 0
    <3>1. Emitting' \subseteq Emitting
      BY <1>2, <1>3, <2>2 DEF Emitting
    <3> QED
      BY <3>1 DEF OneEmitter
  <2> QED
    BY <2>1, <2>2
<1>9. Fresh'
  <2>1. CASE cancellations_requested_ = 0
    BY <1>4, <2>1 DEF QuietBefore, Fresh
  <2>2. CASE cancellations_requested_ # 0
    BY <1>2, <1>3, <2>2 DEF Fresh
  <2> QED
    BY <2>1, <2>2
<1>10. AtMostOneSignal'
  BY DEF AtMostOneSignal
<1> QED
  BY <1>5, <1>7, <1>8, <1>9, <1>10

LEMMA RequestStep ==
  ASSUME SignalInv, NEW i \in Ops, Request(i), ControlOK'
  PROVE  SignalInv'
<1> USE DEF SignalInv
<1>1. /\ pc[i] = "request" /\ pc' = [pc EXCEPT ![i] = "finish"]
      /\ cancellations_requested_' = (cancellations_requested_ + 1) % UnsignedMax
      /\ emitting' = [emitting EXCEPT ![i] =
                        Emission(asks[i], IF cancellations_requested_ = 0 THEN OtherOps(i) ELSE {})]
      /\ UNCHANGED <<cancel_type_, asks, dispatched, signals, slot, cancels>>
  BY DEF Request, Goto, results, group, FirstToAsk
<1>2. i \in Emitters /\ i # Launcher /\ pc'[Launcher] = pc[Launcher] /\ OtherOps(i) \in SUBSET Ops
  BY <1>1 DEF Emitters, Launcher, User, Ops, ControlOK, OtherOps
<1>3. pc'[i] = "finish" /\ \A j \in Ops \ {i} : pc'[j] = pc[j]
  BY <1>1, OpsBelow DEF ControlOK
<1>4. asks[i] \in Types /\ asks[i] # "none"
  BY <1>1 DEF TypeSaved
<1>5. i \notin Requested /\ Requested' = Requested \cup {i}
  BY <1>1, <1>3, <1>4 DEF Requested
<1>6. Cardinality(Requested') = Cardinality(Requested) + 1 /\ Cardinality(Requested) \in 0 .. N
      /\ Cardinality(Requested') \in 0 .. N
  <2>1. IsFiniteSet(Requested) /\ Cardinality(Requested) \in 0 .. N
    BY OpsFinite DEF Requested
  <2>2. Requested' \in SUBSET Ops
    BY DEF Requested
  <2> QED
    BY <1>5, <2>1, <2>2, OpsFinite, FS_AddElement
<1>7. cancels \in 0 .. MaxCancels
  BY DEF SignalTypes
<1>8. /\ cancellations_requested_ \in Nat /\ cancellations_requested_ + 1 <= 2 * N + MaxCancels
      /\ pc[Launcher] = "launch" => cancellations_requested_ # 0
  BY <1>6, <1>7 DEF RequestsCounted
<1>9. cancellations_requested_' = cancellations_requested_ + 1
  BY <1>1, <1>8, NoWrap
<1>10. RequestsCounted'
  BY <1>1, <1>2, <1>6, <1>7, <1>9 DEF RequestsCounted
<1>11. TypeSaved'
  <2>1. \A j \in Ops : pc'[j] \in {"ask", "request"} => asks'[j] \in Types
    BY <1>1, <1>3 DEF TypeSaved
  <2>2. cancel_type_' \in Types
    BY <1>1 DEF TypeSaved
  <2>3. ASSUME NEW p \in Emitting'
        PROVE  IF p = Launcher THEN Requested' # {} ELSE emitting'[p].type \in Types
    <3>1. CASE p = i
      BY <1>1, <1>2, <1>4, <3>1 DEF SignalTypes, Emission
    <3>2. CASE p # i
      <4>1. p \in Emitting /\ emitting'[p] = emitting[p]
        BY <1>1, <2>3, <3>2 DEF Emitting, SignalTypes
      <4> QED
        BY <1>5, <4>1 DEF TypeSaved
    <3> QED
      BY <3>1, <3>2
  <2> QED
    BY <2>1, <2>2, <2>3 DEF TypeSaved
<1> QED
  BY <1>1, <1>2, <1>4, <1>7, <1>8, <1>9, <1>10, <1>11, AskStep

LEMMA CancelGroupStep ==
  ASSUME SignalInv, NEW type \in Types, CancelGroup(type)
  PROVE  SignalInv'
<1> USE DEF SignalInv
<1>1. /\ slot /\ cancels < MaxCancels /\ cancels' = cancels + 1
      /\ UNCHANGED <<cancel_type_, asks, dispatched, signals, slot, pc>>
  BY DEF CancelGroup, results
<1>2. cancels' \in 0 .. MaxCancels /\ cancels \in Nat
  BY <1>1 DEF SignalTypes
<1>3. ControlOK' /\ Requested' = Requested /\ pc[Launcher] # "launch"
  BY <1>1 DEF ControlOK, Requested, RequestsCounted
<1>4. Cardinality(Requested) \in 0 .. N
  BY OpsFinite DEF Requested
<1>5. CASE Alive
  <2>1. /\ cancellations_requested_' = (cancellations_requested_ + 1) % UnsignedMax
        /\ emitting' = [emitting EXCEPT ![User] =
                          Emission(type, IF cancellations_requested_ = 0 THEN Ops ELSE {})]
    BY <1>5 DEF CancelGroup, FirstToAsk
  <2>2. cancellations_requested_ \in Nat /\ cancellations_requested_ + 1 <= 2 * N + MaxCancels
    BY <1>1, <1>2, <1>3, <1>4 DEF RequestsCounted
  <2>3. cancellations_requested_' = cancellations_requested_ + 1
    BY <2>1, <2>2, NoWrap
  <2>4. RequestsCounted'
    BY <1>1, <1>2, <1>3, <1>4, <2>3 DEF RequestsCounted
  <2>5. User \in Emitters /\ User # Launcher
    BY DEF User, Launcher, Emitters
  <2>6. TypeSaved'
    <3>1. ASSUME NEW p \in Emitting'
          PROVE  IF p = Launcher THEN Requested # {} ELSE emitting'[p].type \in Types
      <4>1. CASE p = User
        BY <2>1, <2>5, <4>1 DEF SignalTypes, Emission
      <4>2. CASE p # User
        <5>1. p \in Emitting /\ emitting'[p] = emitting[p]
          BY <2>1, <3>1, <4>2 DEF Emitting, SignalTypes
        <5> QED
          BY <5>1 DEF TypeSaved
      <4> QED
        BY <4>1, <4>2
    <3> QED
      BY <1>1, <1>3, <3>1 DEF TypeSaved
  <2> QED
    BY <1>1, <1>2, <1>3, <2>1, <2>3, <2>4, <2>5, <2>6, AskStep
<1>6. CASE ~Alive
  <2>1. UNCHANGED <<cancellations_requested_, emitting>>
    BY <1>6 DEF CancelGroup
  <2>2. SignalTypes' /\ TypeSaved'
    BY <1>1, <1>2, <1>3, <2>1 DEF SignalTypes, TypeSaved, Emitting
  <2>3. RequestsCounted'
    BY <1>1, <1>2, <1>3, <1>4, <2>1 DEF RequestsCounted
  <2>4. QuietBefore' /\ OneEmitter' /\ Fresh' /\ AtMostOneSignal'
    BY <1>1, <2>1 DEF QuietBefore, OneEmitter, Fresh, AtMostOneSignal, Emitting
  <2> QED
    BY <1>3, <2>2, <2>3, <2>4
<1> QED
  BY <1>5, <1>6

\* Everything is launched; the launching function emits if there is a request.
LEMMA CheckStep ==
  ASSUME SignalInv, Check, ControlOK'
  PROVE  SignalInv'
<1> USE DEF SignalInv
<1> DEFINE r == cancellations_requested_ - N
           to == IF r > 0 THEN Ops ELSE {}
<1>1. /\ pc[Launcher] = "launch" /\ pc' = [pc EXCEPT ![Launcher] = "emit"]
      /\ cancellations_requested_' = r % UnsignedMax
      /\ emitting' = [emitting EXCEPT ![Launcher].to = IF r % UnsignedMax > 0 THEN Ops ELSE {}]
      /\ UNCHANGED <<cancel_type_, asks, dispatched, signals, slot, cancels>>
  BY DEF Check, Goto, AskedMeanwhile, results, group
<1>2. pc'[Launcher] = "emit" /\ \A i \in Ops : pc'[i] = pc[i]
  BY <1>1, OpsBelow DEF ControlOK, Launcher
<1>3. Requested' = Requested
  BY <1>1, <1>2 DEF Requested
<1>4. Cardinality(Requested) \in 0 .. N /\ IsFiniteSet(Requested)
  BY OpsFinite DEF Requested
<1>5. r = Cardinality(Requested)
  BY <1>1, <1>4 DEF RequestsCounted
<1>6. r % UnsignedMax = r
  <2>1. r \in Nat /\ r <= 2 * N + MaxCancels
    BY <1>4, <1>5
  <2> HIDE DEF r
  <2> QED
    BY <2>1, NoWrap
<1>7. cancellations_requested_' = r /\ emitting' = [emitting EXCEPT ![Launcher].to = to]
  BY <1>1, <1>6
<1>8. r # 0 => Requested # {}
  BY <1>4, <1>5, FS_EmptySet
<1>9. Emitting = {} /\ \A i \in Ops : signals[i] = <<>> /\ dispatched[i] = <<>>
  BY <1>1 DEF QuietBefore
<1>10. Launcher \in Emitters /\ to \in SUBSET Ops /\ r \in Nat /\ cancels \in 0 .. MaxCancels
  BY <1>4, <1>5 DEF Emitters, Launcher, User, SignalTypes
<1>11. to # {} => r # 0
  BY <1>10
<1>12. RequestsCounted'
  BY <1>1, <1>2, <1>3, <1>4, <1>5, <1>7, <1>10 DEF RequestsCounted
<1> HIDE DEF r, to
<1>13. emitting'[Launcher].to = to /\ \A q \in Emitters \ {Launcher} : emitting'[q] = emitting[q]
  BY <1>7, <1>10 DEF SignalTypes
<1>14. emitting' \in [Emitters -> [type : Types \cup {"none"}, to : SUBSET Ops]]
  <2> DEFINE e == [emitting[Launcher] EXCEPT !.to = to]
  <2>1. emitting[Launcher] \in [type : Types \cup {"none"}, to : SUBSET Ops]
    BY <1>10 DEF SignalTypes
  <2>2. e \in [type : Types \cup {"none"}, to : SUBSET Ops]
    BY <1>10, <2>1
  <2>3. emitting' = [emitting EXCEPT ![Launcher] = e]
    BY <1>7
  <2> HIDE DEF e
  <2> QED
    BY <2>2, <2>3 DEF SignalTypes
<1>15. SignalTypes'
  BY <1>1, <1>7, <1>10, <1>14 DEF SignalTypes
<1>16. Emitting' = IF to = {} THEN {} ELSE {Launcher}
  BY <1>9, <1>10, <1>13 DEF Emitting
<1>17. TypeSaved'
  BY <1>1, <1>2, <1>3, <1>8, <1>11, <1>16 DEF TypeSaved
<1>18. QuietBefore' /\ OneEmitter'
  BY <1>1, <1>2, <1>7, <1>9, <1>11, <1>16 DEF QuietBefore, OneEmitter
<1>19. Fresh' /\ AtMostOneSignal'
  BY <1>1, <1>9, <1>14 DEF Fresh, AtMostOneSignal
<1> QED
  BY <1>12, <1>15, <1>17, <1>18, <1>19

LEMMA NextSignal == SignalInv /\ ControlOK' /\ [Next]_vars => SignalInv'
<1> SUFFICES ASSUME SignalInv, ControlOK', [Next]_vars PROVE SignalInv'
  OBVIOUS
<1> USE DEF SignalInv
<1>1. ASSUME NEW i \in Ops, Launch(i) \/ Complete(i) \/ Finish(i) PROVE SignalInv'
  <2>1. /\ UNCHANGED <<signalVars, cancel_type_, asks, slot>>
        /\ \E at \in {"pending", "capture", "done"} : pc' = [pc EXCEPT ![i] = at]
        /\ pc'[i] = "done" <=> pc[i] = "finish"
        /\ pc[i] \in {"unlaunched", "pending", "finish"}
    BY <1>1, OpsBelow DEF Launch, Complete, Finish, Goto, counters, results, emission, group, signalVars, ControlOK
  <2>2. pc'[Launcher] = pc[Launcher] /\ \A j \in Ops \ {i} : pc'[j] = pc[j]
    BY <2>1, OpsBelow DEF ControlOK
  <2>3. Requested' = Requested
    BY <2>1, <2>2, OpsBelow DEF Requested, ControlOK
  <2>4. SignalTypes'
    BY <2>1 DEF SignalTypes, signalVars
  <2>5. \A j \in Ops : pc'[j] \in {"ask", "request"} => pc'[j] = pc[j]
    BY <2>1, <2>2, OpsBelow DEF ControlOK
  <2>6. TypeSaved'
    BY <2>1, <2>3, <2>5 DEF TypeSaved, Emitting, signalVars
  <2> QED
    BY <2>1, <2>2, <2>3, <2>4, <2>6, NothingAsked DEF RequestsCounted
<1>2. ASSUME NEW i \in Ops, NEW type \in Types \cup {"none"}, Capture(i, type) PROVE SignalInv'
  <2>1. /\ UNCHANGED <<signalVars, cancel_type_, slot>>
        /\ pc[i] = "capture" /\ pc' = [pc EXCEPT ![i] = IF type = "none" THEN "finish" ELSE "ask"]
        /\ asks' = [asks EXCEPT ![i] = type]
    BY <1>2 DEF Capture, Goto, counters, emission, group, signalVars
  <2>2. pc'[Launcher] = pc[Launcher] /\ \A j \in Ops \ {i} : pc'[j] = pc[j] /\ asks'[j] = asks[j]
    BY <2>1, OpsBelow DEF ControlOK, SignalTypes
  <2>3. pc'[i] = (IF type = "none" THEN "finish" ELSE "ask") /\ asks'[i] = type
    BY <2>1, OpsBelow DEF ControlOK, SignalTypes
  <2>4. Requested' = Requested
    BY <2>1, <2>2, <2>3 DEF Requested
  <2>5. SignalTypes'
    BY <2>1 DEF SignalTypes, signalVars
  <2>6. TypeSaved'
    <3>1. \A j \in Ops : pc'[j] \in {"ask", "request"} => asks'[j] \in Types
      BY <2>2, <2>3 DEF TypeSaved
    <3>2. \A j \in Ops : pc'[j] = "request" => pc[j] = "request"
      BY <2>2, <2>3
    <3> QED
      BY <2>1, <2>4, <3>1, <3>2 DEF TypeSaved, Emitting, signalVars
  <2> QED
    BY <2>1, <2>2, <2>4, <2>5, <2>6, NothingAsked DEF RequestsCounted
<1>3. ASSUME NEW i \in Ops, SaveType(i) PROVE SignalInv'
  <2>1. /\ UNCHANGED <<signalVars, asks, slot>> /\ cancel_type_' = asks[i]
        /\ pc[i] = "ask" /\ pc' = [pc EXCEPT ![i] = "request"]
    BY <1>3 DEF SaveType, Goto, results, emission, group, signalVars
  <2>2. pc'[Launcher] = pc[Launcher] /\ pc'[i] = "request" /\ \A j \in Ops \ {i} : pc'[j] = pc[j]
    BY <2>1, OpsBelow DEF ControlOK
  <2>3. Requested' = Requested /\ asks[i] \in Types
    BY <2>1, <2>2 DEF Requested, TypeSaved
  <2>4. SignalTypes' /\ TypeSaved'
    BY <2>1, <2>2, <2>3 DEF SignalTypes, TypeSaved, Emitting, signalVars
  <2> QED
    BY <2>1, <2>2, <2>3, <2>4, NothingAsked DEF RequestsCounted
<1>4. ASSUME NEW i \in Ops, Request(i) PROVE SignalInv'
  BY <1>4, RequestStep
<1>5. ASSUME Check PROVE SignalInv'
  BY <1>5, CheckStep
<1>6. ASSUME Register PROVE SignalInv'
  <2>1. /\ UNCHANGED <<signalVars, cancel_type_, asks>> /\ slot' = TRUE
        /\ pc[Launcher] = "emit" /\ pc' = [pc EXCEPT ![Launcher] = "done"]
    BY <1>6 DEF Register, Goto, counters, results, emission, signalVars
  <2>2. pc'[Launcher] = "done" /\ \A j \in Ops : pc'[j] = pc[j]
    BY <2>1, OpsBelow DEF ControlOK, Launcher
  <2>3. Requested' = Requested
    BY <2>1, <2>2 DEF Requested
  <2>4. SignalTypes' /\ TypeSaved'
    BY <2>1, <2>2, <2>3 DEF SignalTypes, TypeSaved, Emitting, signalVars
  <2> QED
    BY <2>1, <2>2, <2>3, <2>4, NothingAsked
<1>7. ASSUME NEW i \in Ops, Emits(i) PROVE SignalInv'
  BY <1>7, EmitsStep
<1>8. ASSUME NEW i \in Ops, Deliver(i) PROVE SignalInv'
  BY <1>8, DeliverStep
<1>9. ASSUME NEW type \in Types, CancelGroup(type) PROVE SignalInv'
  BY <1>9, CancelGroupStep
<1>10. CASE UNCHANGED vars
  <2>1. UNCHANGED <<signalVars, cancel_type_, asks, slot, pc>>
    BY <1>10 DEF vars, counters, results, emission, group, signalVars
  <2>2. Requested' = Requested /\ SignalTypes'
    BY <2>1 DEF Requested, SignalTypes, signalVars
  <2>3. TypeSaved'
    BY <2>1, <2>2 DEF TypeSaved, Emitting, signalVars
  <2> QED
    BY <2>1, <2>2, <2>3, NothingAsked DEF RequestsCounted
<1> QED
  BY <1>1, <1>2, <1>3, <1>4, <1>5, <1>6, <1>7, <1>8, <1>9, <1>10 DEF Next, OpStep

\* Both halves together.
Inv == CompletionInv /\ SignalInv
LEMMA Invariance == Spec => []Inv
<1>1. Init => Inv
  BY InitCompletion, InitSignal DEF Inv
<1>2. Inv /\ [Next]_vars => Inv'
  BY NextCompletion, NextSignal DEF Inv, CompletionInv
<1> QED
  BY <1>1, <1>2, PTL DEF Spec

\* No counter wraps around, no index leaves the array, and no operation is signalled
\* twice or without a type, however many results and signals ask for cancellation.
THEOREM NobodySignalledTwice == Spec => []SignalledOnce
<1>1. Inv => SignalledOnce
  <2> SUFFICES ASSUME Inv PROVE SignalledOnce
    OBVIOUS
  <2> USE DEF Inv, CompletionInv, SignalInv
  <2>1. Cardinality(Requested) \in 0 .. N
    BY OpsFinite DEF Requested
  <2>2. cancellations_requested_ \in 0 .. 2 * N + MaxCancels
    BY <2>1 DEF RequestsCounted, SignalTypes
  <2> QED
    BY <2>2 DEF SignalledOnce, TypeOK, CompletionTypes, SignalTypes, AtMostOneSignal
<1> QED
  BY Invariance, <1>1, PTL

\* What follows is about the operation: it knows nothing of the group.
HIDE GroupAssumption DEF GroupAssumption

-----------------------------------------------------------------------------
(* Least and greatest numbers.                                             *)

\* Least returns the least element.
LEMMA LeastElement ==
    ASSUME NEW S \in SUBSET Nat, S # {}
    PROVE  Least(S) \in S /\ \A j \in S : Least(S) <= j
<1>1. PICK i \in S : \A j \in S : ~(<<j, i>> \in OpToRel(<, Nat))
  BY NatLessThanWellFounded, WFMin
<1>2. \A j \in S : i <= j
  <2>1. TAKE j \in S
  <2>2. ~(<<j, i>> \in {ss \in Nat \X Nat : ss[1] < ss[2]})
    BY <1>1 DEF OpToRel
  <2>3. QED BY <2>2
<1>3. QED BY <1>2 DEF Least

\* A set of numbers with a bound has a greatest element.
LEMMA GreatestElement ==
    ASSUME NEW n \in Nat, NEW S \in SUBSET (0 .. n), S # {}
    PROVE  \E i \in S : \A j \in S : j <= i
<1> DEFINE T == {k \in 0 .. n : n - k \in S}
<1>1. T \in SUBSET Nat /\ \A j \in S : n - j \in T
  <2>1. ASSUME NEW j \in S PROVE n - j \in T
    <3>1. j \in 0 .. n /\ n - j \in 0 .. n /\ n - (n - j) = j
      OBVIOUS
    <3>2. QED BY <3>1
  <2>2. QED BY <2>1
<1>2. T # {}
  BY <1>1
<1> HIDE DEF T
<1>3. Least(T) \in T /\ \A j \in T : Least(T) <= j
  BY <1>1, <1>2, LeastElement
<1>4. n - Least(T) \in S /\ Least(T) \in 0 .. n
  BY <1>3 DEF T
<1>5. ASSUME NEW j \in S PROVE j <= n - Least(T)
  BY <1>1, <1>3, <1>4
<1>6. QED BY <1>4, <1>5

-----------------------------------------------------------------------------
(* The invariant.                                                          *)

CommonInv ==
    /\ kind \in Kinds /\ phase \in {"initial", "waiting", "queued", "ended"}
    /\ inner = [ec |-> inner.ec, n |-> inner.n]

\* Connect: the endpoints before the one that is tried have refused, and an attempt ends
\* without a refusal only if it has been cancelled or the socket closed.
Trying ==
    /\ index_ \in condition /\ \A i \in condition : i < index_ => i \in refused
    /\ refused \subseteq 1 .. index_
ConnectInv ==
    kind = "connect" =>
      /\ condition \subseteq 1 .. Endpoints /\ index_ \in 1 .. Endpoints + 1
      /\ phase = "initial" => index_ = 1 /\ refused = {} /\ open
      /\ phase = "waiting" => open /\ Trying /\ index_ \notin refused
      /\ phase = "queued" /\ index_ <= Endpoints =>
           /\ Trying /\ inner.ec \in {"none", "refused", "aborted"}
           /\ index_ \in refused <=> inner.ec = "refused"
           /\ inner.ec = "aborted" => cancelled_ # "none" \/ ~open
      /\ phase = "queued" /\ index_ > Endpoints =>
           condition = {} /\ open /\ inner.ec = "not_found"
      /\ ConnectTrue

\* Read and write: the position is the number of bytes consumed, and behind it are those
\* of the operation that has ended.
Pending == IF phase = "queued" THEN inner.n ELSE 0
NextOK(at) ==
    /\ at \in [elem : 1 .. Len(Ends) + 1, offset : Nat, total : Nat]
    /\ at.elem <= Len(Ends) => StartOf(at.elem) + at.offset <= Ends[at.elem]
    /\ Position(at) = at.total
Limit == IF condition.until = "exactly" THEN Smaller(condition.size, Total) ELSE Total
TransferInv ==
    kind \in {"read", "write"} =>
      /\ condition \in Conditions /\ NextOK(next)
      /\ taken \in Nat /\ inner.n \in Nat /\ asked \in Int
      /\ taken = next.total + Pending /\ taken <= Limit
      /\ moved = [i \in 1 .. taken |-> i]
      /\ phase = "initial" => taken = 0
      /\ phase = "waiting" => taken + asked <= Limit
      /\ phase = "queued" /\ inner = NoResult => Enough
      /\ TransferTrue

\* Read until: the data begins at one place of the stream, and no match begins before the
\* position of the search.
Valid(s) ==
    /\ s \in [mem : Seq(Nat), gnext : Nat, pnext : Nat]
    /\ s.gnext <= s.pnext /\ s.pnext <= Len(s.mem)
InOrder(s, b) == \A i \in 1 .. Size(s) : s.mem[s.gnext + i] = b + i
First == taken - Pending - Size(sb)
Mismatch(b, n, i) == \E j \in 1 .. Len(Delim) : i + j <= n /\ Text[b + i + j] # Delim[j]
Match(b, n, m) ==
    m \in Len(Delim) .. n /\ \A j \in 1 .. Len(Delim) : Text[b + m - Len(Delim) + j] = Delim[j]
Searching(b, n, position) ==
    position \in 0 .. n /\ \A i \in 0 .. position - 1 : Mismatch(b, n, i)
Decided(b, n, position) ==
    IF position = NotFound THEN n = MaxSize /\ \A m \in 1 .. MaxSize : ~Match(b, n, m)
    ELSE Match(b, n, position) /\ \A m \in 1 .. position - 1 : ~Match(b, n, m)
ReadUntilInv ==
    kind = "read_until" =>
      /\ Valid(sb) /\ taken \in Nat /\ inner.n \in Nat /\ asked \in Int
      /\ First \in Nat /\ InOrder(sb, First) /\ Size(sb) + Pending <= MaxSize
      /\ phase = "initial" => search_position_ = 0
      /\ phase = "waiting" => /\ asked > 0 /\ Size(sb) + asked <= MaxSize
                              /\ sb.pnext + asked <= Len(sb.mem)
                              /\ Searching(First, Size(sb), search_position_)
      /\ phase = "queued" =>
           /\ inner.ec # "not_found" /\ sb.pnext + inner.n <= Len(sb.mem)
           /\ \A i \in 1 .. inner.n : sb.mem[sb.pnext + i] = First + Size(sb) + i
           /\ IF inner = NoResult THEN Decided(First, Size(sb), search_position_)
              ELSE Searching(First, Size(sb), search_position_)
      /\ ReadUntilTrue

ComposedInv == CommonInv /\ ConnectInv /\ TransferInv /\ ReadUntilInv

-----------------------------------------------------------------------------
(* async_connect.                                                          *)

\* The next endpoint is the first one, from i on, that the condition lets through.
LEMMA AcceptedFacts ==
    ASSUME NEW i \in 1 .. Endpoints + 1
    PROVE  /\ Accepted(i) \in i .. Endpoints + 1
           /\ Accepted(i) <= Endpoints => Accepted(i) \in condition
           /\ \A j \in condition : j \in i .. Endpoints => Accepted(i) <= j
<1> DEFINE rest == {j \in i .. Endpoints : j \in condition}
<1> USE ComposedAssumption
<1>1. CASE rest = {}
  <2>1. Accepted(i) = Endpoints + 1
    BY <1>1 DEF Accepted
  <2>2. QED BY <1>1, <2>1
<1>2. CASE rest # {}
  <2>1. Accepted(i) = Least(rest)
    BY <1>2 DEF Accepted
  <2>2. rest \in SUBSET Nat
    OBVIOUS
  <2>3. Least(rest) \in rest /\ \A j \in rest : Least(rest) <= j
    BY <1>2, <2>2, LeastElement
  <2>4. QED BY <2>1, <2>3
<1>3. QED BY <1>1, <1>2

\* A new attempt is at an endpoint that has not refused, and all before it have.
LEMMA AttemptTries ==
    ASSUME kind = "connect", condition \subseteq 1 .. Endpoints, NEW i \in 1 .. Endpoints + 1,
           refused \subseteq 1 .. i - 1, \A j \in condition : j < i => j \in refused,
           Accepted(i) <= Endpoints, Attempt(Accepted(i)), UNCHANGED <<kind, condition, cancelled_>>
    PROVE  ConnectInv'
<1>1. /\ Accepted(i) \in i .. Endpoints /\ Accepted(i) \in condition
      /\ \A j \in condition : j < Accepted(i) => j \in refused
  BY AcceptedFacts, ComposedAssumption
<1>2. /\ phase' = "waiting" /\ open' /\ index_' = Accepted(i)
      /\ refused' = refused /\ condition' = condition
  BY DEF Attempt
<1>3. refused \subseteq 1 .. Accepted(i) /\ Accepted(i) \notin refused
  BY <1>1, ComposedAssumption
<1>4. ConnectTrue'
  BY <1>2 DEF ConnectTrue
<1>5. QED BY <1>1, <1>2, <1>3, <1>4, ComposedAssumption DEF ConnectInv, Trying

\* A step of one of the other operations.
LEMMA NotConnect ==
    ASSUME kind # "connect", kind' = kind
    PROVE  ConnectInv'
BY DEF ConnectInv

LEMMA BeginConnects ==
    ASSUME CommonInv, ConnectInv, Begin
    PROVE  ConnectInv'
<1>1. SUFFICES ASSUME kind = "connect" PROVE ConnectInv'
  BY NotConnect DEF Begin
<1>2. BeginConnect /\ UNCHANGED <<kind, condition, cancelled_>>
  BY <1>1 DEF Begin
<1>3. condition \subseteq 1 .. Endpoints /\ refused = {} /\ open
  BY <1>1 DEF Begin, ConnectInv
<1>4. CASE Accepted(1) <= Endpoints
  BY <1>1, <1>2, <1>3, <1>4, AttemptTries, ComposedAssumption DEF BeginConnect
<1>5. CASE ~(Accepted(1) <= Endpoints)
  <2>1. Accepted(1) = Endpoints + 1 /\ condition = {}
    <3>1. Accepted(1) \in 1 .. Endpoints + 1 /\ \A j \in condition : j \in 1 .. Endpoints => Accepted(1) <= j
      BY AcceptedFacts, ComposedAssumption
    <3>2. QED BY <1>3, <1>5, <3>1, ComposedAssumption
  <2>2. /\ index_' = Endpoints + 1 /\ phase' = "queued" /\ inner'.ec = "not_found"
        /\ open' = open /\ refused' = refused
    BY <1>2, <1>5, <2>1 DEF BeginConnect
  <2>3. QED BY <1>2, <1>3, <2>1, <2>2, ComposedAssumption DEF ConnectInv, ConnectTrue
<1>6. QED BY <1>4, <1>5

LEMMA HandlerConnects ==
    ASSUME CommonInv, ConnectInv, Handle
    PROVE  ConnectInv'
<1>1. SUFFICES ASSUME kind = "connect" PROVE ConnectInv'
  BY NotConnect DEF Handle
<1>2. HandleConnect /\ UNCHANGED <<kind, condition, cancelled_>> /\ phase = "queued"
  BY <1>1 DEF Handle
<1>3. condition \subseteq 1 .. Endpoints /\ index_ \in 1 .. Endpoints + 1
  BY <1>1 DEF ConnectInv
<1>4. CASE index_ > Endpoints
  <2>1. condition = {} /\ open /\ inner.ec = "not_found"
    BY <1>1, <1>2, <1>4 DEF ConnectInv
  <2>2. /\ phase' = "ended" /\ result' = [ec |-> "not_found", n |-> 0]
        /\ UNCHANGED <<index_, open, refused>>
    BY <1>2, <1>4, <2>1 DEF HandleConnect, End, connectVars
  <2>3. QED BY <1>2, <1>3, <2>1, <2>2 DEF ConnectInv, ConnectTrue
<1>5. CASE index_ <= Endpoints
  <2>1. /\ Trying /\ inner.ec \in {"none", "refused", "aborted"}
        /\ index_ \in refused <=> inner.ec = "refused"
        /\ inner.ec = "aborted" => cancelled_ # "none" \/ ~open
    BY <1>1, <1>2, <1>5 DEF ConnectInv
  <2>2. CASE End("aborted", 0) /\ UNCHANGED connectVars
    BY <1>2, <1>3, <2>2 DEF ConnectInv, ConnectTrue, End, connectVars
  <2>3. CASE IsOpen /\ inner.ec = "none" /\ End("none", index_) /\ UNCHANGED connectVars
    BY <1>2, <1>3, <2>1, <2>3 DEF ConnectInv, ConnectTrue, End, connectVars, Trying, IsOpen
  <2>4. CASE IsOpen /\ ~Cancelled /\ inner.ec # "none"
    <3>1. inner.ec = "refused" /\ index_ \in refused /\ open
      BY <2>1, <2>4 DEF Cancelled, IsOpen
    <3>2. \A j \in condition : j < index_ + 1 => j \in refused
      BY <1>3, <2>1, <3>1, ComposedAssumption DEF Trying
    <3>3. refused \subseteq 1 .. (index_ + 1) - 1
      BY <1>3, <2>1, ComposedAssumption DEF Trying
    <3>4. CASE Accepted(index_ + 1) <= Endpoints
      BY <1>1, <1>2, <1>3, <1>5, <2>4, <3>1, <3>2, <3>3, <3>4, AttemptTries, ComposedAssumption
         DEF HandleConnect
    <3>5. CASE ~(Accepted(index_ + 1) <= Endpoints)
      <4> DEFINE last == End(inner.ec, 0) /\ index_' = Endpoints + 1 /\ UNCHANGED <<open, refused>>
      <4>1. last
        <5>1. ~(index_ > Endpoints)
          BY <1>3, <1>5, ComposedAssumption
        <5>2. QED BY <1>2, <2>4, <3>5, <5>1, Zenon DEF HandleConnect
      <4>2. condition \subseteq refused
        <5>1. \A j \in condition : j \in index_ + 1 .. Endpoints => Accepted(index_ + 1) <= j
          BY <1>3, <1>5, AcceptedFacts, ComposedAssumption
        <5>2. Accepted(index_ + 1) \in index_ + 1 .. Endpoints + 1
          BY <1>3, <1>5, AcceptedFacts, ComposedAssumption
        <5>3. QED BY <1>3, <3>2, <3>5, <5>1, <5>2, ComposedAssumption
      <4>3. QED BY <1>2, <1>3, <3>1, <4>1, <4>2, ComposedAssumption DEF ConnectInv, ConnectTrue, End
    <3>6. QED BY <3>4, <3>5
  <2>5. QED BY <1>2, <1>3, <1>5, <2>2, <2>3, <2>4, ComposedAssumption DEF HandleConnect
<1>6. QED BY <1>3, <1>4, <1>5, ComposedAssumption

LEMMA OutsideConnects ==
    ASSUME CommonInv, ConnectInv, Outside \/ Signalled
    PROVE  ConnectInv'
<1>1. SUFFICES ASSUME kind = "connect" PROVE ConnectInv'
  BY NotConnect DEF Outside, MovesSome, EndOfFile, Fails, Connected, Refused, CloseSocket,
                    Completes, Signalled, Emit
<1>2. CASE Connected \/ Refused
  <2>1. /\ phase = "waiting" /\ phase' = "queued" /\ inner'.ec \in {"none", "refused"}
        /\ refused' = IF inner'.ec = "refused" THEN refused \cup {index_} ELSE refused
        /\ UNCHANGED <<kind, condition, index_, open, cancelled_>>
    BY <1>2 DEF Connected, Refused, Completes
  <2>2. QED BY <1>1, <2>1, ComposedAssumption DEF ConnectInv, Trying, ConnectTrue
<1>3. CASE CloseSocket
  <2>1. /\ phase \in {"waiting", "queued"} /\ phase' = "queued" /\ index_ <= Endpoints /\ ~open'
        /\ phase = "waiting" => inner'.ec = "aborted"
        /\ phase = "queued" => inner' = inner
        /\ UNCHANGED <<kind, condition, index_, refused, cancelled_>>
    BY <1>3 DEF CloseSocket, Completes, InProgress
  <2>2. QED BY <1>1, <2>1, ComposedAssumption DEF ConnectInv, Trying, ConnectTrue
<1>4. CASE Signalled
  <2>1. PICK type \in {"terminal", "partial", "total"} : cancelled_ = "none" /\ Emit(type)
    BY <1>4 DEF Signalled
  <2>2. /\ phase \in {"waiting", "queued"}
        /\ UNCHANGED <<kind, condition, index_, open, refused>>
        /\ \/ phase = "waiting" /\ phase' = "queued" /\ inner'.ec = "aborted" /\ cancelled_' # "none"
           \/ phase' = phase /\ inner' = inner
    BY <2>1 DEF Emit, InProgress, connectVars
  <2>3. QED BY <1>1, <2>1, <2>2, ComposedAssumption DEF ConnectInv, Trying, ConnectTrue
<1>5. QED BY <1>1, <1>2, <1>3, <1>4 DEF Outside, MovesSome, EndOfFile, Fails

-----------------------------------------------------------------------------
(* async_read and async_write.                                             *)

LEMMA EndsFacts ==
    /\ Len(Ends) \in Nat /\ Total \in Nat
    /\ \A e \in 1 .. Len(Ends) : /\ Ends[e] \in Nat /\ Ends[e] <= Total
                                 /\ StartOf(e) \in Nat /\ StartOf(e) <= Ends[e]
    /\ \A d, e \in 1 .. Len(Ends) : /\ d <= e => Ends[d] <= Ends[e]
                                    /\ d < e => Ends[d] <= StartOf(e)
    /\ Len(Ends) > 0 => Total = Ends[Len(Ends)]
<1>1. /\ Ends \in Seq(Nat) /\ Len(Ends) \in Nat
      /\ \A d, e \in 1 .. Len(Ends) : d <= e => Ends[d] <= Ends[e]
  BY ComposedAssumption
<1>2. \A e \in 1 .. Len(Ends) : Ends[e] \in Nat
  BY <1>1
<1>3. Len(Ends) > 0 => Ends # <<>>
  BY <1>1
<1>4. Total \in Nat /\ (Len(Ends) > 0 => Total = Ends[Len(Ends)])
  BY <1>1, <1>2, <1>3 DEF Total
<1>5. \A e \in 1 .. Len(Ends) : Ends[e] <= Total
  BY <1>1, <1>2, <1>4
<1>6. \A e \in 1 .. Len(Ends) : StartOf(e) \in Nat /\ StartOf(e) <= Ends[e]
  BY <1>1, <1>2 DEF StartOf
<1>7. \A d, e \in 1 .. Len(Ends) : d < e => Ends[d] <= StartOf(e)
  BY <1>1, <1>2 DEF StartOf
<1>8. QED BY <1>1, <1>2, <1>4, <1>5, <1>6, <1>7

\* consume() moves the position by as many bytes, to an element with room or past the last.
LEMMA ConsumedFacts ==
    ASSUME NEW at, NextOK(at), NEW n \in Nat, at.total + n <= Total
    PROVE  NextOK(Consumed(at, n)) /\ Consumed(at, n).total = at.total + n
<1> DEFINE S == {e \in at.elem .. Len(Ends) : Position(at) + n <= Ends[e]}
           target == Position(at) + n
<1>1. /\ at.elem \in 1 .. Len(Ends) + 1 /\ at.offset \in Nat /\ at.total \in Nat
      /\ Position(at) = at.total /\ target \in Nat /\ target <= Total
  BY DEF NextOK
<1>2. CASE n = 0
  <2>1. Consumed(at, n) = [elem |-> at.elem, offset |-> at.offset, total |-> at.total]
    BY <1>1, <1>2 DEF Consumed
  <2>2. Position(Consumed(at, n)) = Position(at)
    BY <2>1 DEF Position
  <2>3. QED BY <1>1, <1>2, <2>1, <2>2 DEF NextOK
<1>3. CASE n # 0
  <2>1. at.elem <= Len(Ends)
    BY <1>1, <1>3, EndsFacts DEF Position
  <2>2. S \in SUBSET Nat /\ Len(Ends) \in S
    BY <1>1, <2>1, EndsFacts
  <2>3. PICK e \in S : e = Least(S) /\ \A d \in S : e <= d
    BY <2>2, LeastElement
  <2>4. e \in at.elem .. Len(Ends) /\ target <= Ends[e] /\ e \in 1 .. Len(Ends)
    BY <1>1, <2>3, EndsFacts
  <2>5. StartOf(e) <= target
    <3>1. CASE e = at.elem
      BY <1>1, <2>1, <2>4, <3>1, EndsFacts DEF Position
    <3>2. CASE e # at.elem
      <4>1. e - 1 \in at.elem .. Len(Ends) /\ e # 1 /\ Ends[e - 1] \in Nat
        BY <1>1, <2>4, <3>2, EndsFacts, SMTT(30)
      <4>2. ~(target <= Ends[e - 1])
        <5>1. SUFFICES ASSUME Position(at) + n <= Ends[e - 1] PROVE FALSE
          OBVIOUS
        <5>2. e - 1 \in S
          BY <4>1, <5>1
        <5>3. e <= e - 1
          BY <2>3, <5>2
        <5>4. e \in Nat
          BY <2>2
        <5>5. QED BY <5>3, <5>4
      <4>3. QED BY <1>1, <4>1, <4>2 DEF StartOf
    <3>3. QED BY <3>1, <3>2
  <2>6. Consumed(at, n) = [elem |-> Advanced(e, target).elem, offset |-> Advanced(e, target).offset,
                           total |-> at.total + n]
    BY <1>3, <2>3 DEF Consumed
  <2>7. CASE target = Ends[e]
    <3>1. Consumed(at, n) = [elem |-> e + 1, offset |-> 0, total |-> at.total + n]
      BY <2>6, <2>7 DEF Advanced
    <3>2. StartOf(e + 1) = Ends[e]
      BY <2>4, EndsFacts DEF StartOf
    <3>3. Position(Consumed(at, n)) = target
      BY <2>4, <2>7, <3>1, <3>2, EndsFacts DEF Position
    <3>4. e + 1 <= Len(Ends) => StartOf(e + 1) + 0 <= Ends[e + 1]
      BY <2>4, EndsFacts
    <3>5. QED BY <1>1, <2>4, <3>1, <3>3, <3>4, EndsFacts DEF NextOK
  <2>8. CASE target # Ends[e]
    <3>1. Consumed(at, n) = [elem |-> e, offset |-> target - StartOf(e), total |-> at.total + n]
      BY <2>6, <2>8 DEF Advanced
    <3>2. Position(Consumed(at, n)) = target
      BY <1>1, <2>4, <3>1, EndsFacts DEF Position
    <3>3. QED BY <1>1, <2>4, <2>5, <3>1, <3>2, EndsFacts, SMTT(30) DEF NextOK
  <2>9. QED BY <2>7, <2>8
<1>4. QED BY <1>2, <1>3

\* prepare() returns no more than was asked for and is there, and something if it can.
LEMMA PreparedFacts ==
    ASSUME NEW at, NextOK(at), NEW m \in Nat
    PROVE  /\ Prepared(at, m) \in Int /\ Prepared(at, m) <= m
           /\ at.total + Prepared(at, m) <= Total
           /\ m > 0 /\ at.total < Total => Prepared(at, m) > 0
<1> DEFINE used(e) == {d \in at.elem .. e : Ends[d] > Larger(StartOf(d), Position(at))}
           last == {e \in at.elem .. Len(Ends) : Cardinality(used(e)) <= MaxBuffers}
           end == IF last = {} THEN Position(at)
                  ELSE Ends[CHOOSE e \in last : \A d \in last : d <= e]
<1>1. /\ at.elem \in 1 .. Len(Ends) + 1 /\ at.offset \in Nat /\ at.total \in Nat
      /\ Position(at) = at.total
  BY DEF NextOK
<1>2. Prepared(at, m) = Smaller(m, end - Position(at))
  BY DEF Prepared
<1> HIDE DEF last
<1>3. last \in SUBSET (0 .. Len(Ends)) /\ last \subseteq 1 .. Len(Ends)
  BY <1>1, EndsFacts DEF last
<1>4. ASSUME last # {}
      PROVE  \E e \in last : end = Ends[e] /\ \A d \in last : d <= e
  <2>1. \E e \in last : \A d \in last : d <= e
    BY <1>3, <1>4, EndsFacts, GreatestElement
  <2>2. QED BY <1>4, <2>1
<1> HIDE DEF end
<1>5. end \in Nat
  BY <1>1, <1>3, <1>4, EndsFacts DEF end
<1>6. at.total <= Total
  BY <1>1, EndsFacts DEF Position, NextOK
<1>7. end <= Total
  BY <1>1, <1>3, <1>4, <1>6, EndsFacts DEF end
<1>8. ASSUME m > 0, at.total < Total
      PROVE  end > Position(at)
  <2> DEFINE S == {e \in at.elem .. Len(Ends) : Ends[e] > Position(at)}
  <2>1. at.elem <= Len(Ends) /\ Len(Ends) \in S /\ S \in SUBSET Nat
    BY <1>1, <1>8, EndsFacts DEF Position
  <2>2. PICK f \in S : \A d \in S : f <= d
    BY <2>1, LeastElement
  <2>3. f \in at.elem .. Len(Ends) /\ f \in 1 .. Len(Ends) /\ Ends[f] > Position(at)
    BY <1>1, <2>2, EndsFacts
  <2>4. StartOf(f) <= Position(at)
    <3>1. CASE f = at.elem
      BY <1>1, <2>1, <2>3, <3>1, EndsFacts DEF Position
    <3>2. CASE f # at.elem
      <4>1. f - 1 \in at.elem .. Len(Ends) /\ f # 1 /\ Ends[f - 1] \in Nat
        BY <1>1, <2>3, <3>2, EndsFacts, SMTT(30)
      <4>2. ~(Ends[f - 1] > Position(at))
        <5>1. SUFFICES ASSUME Ends[f - 1] > Position(at) PROVE FALSE
          OBVIOUS
        <5>2. f - 1 \in S
          BY <4>1, <5>1
        <5>3. QED BY <2>2, <2>3, <5>2, EndsFacts
      <4>3. QED BY <1>1, <4>1, <4>2 DEF StartOf
    <3>3. QED BY <3>1, <3>2
  <2>5. used(f) = {f}
    <3>1. f \in used(f)
      BY <1>1, <2>3, <2>4, EndsFacts DEF Larger
    <3>2. ASSUME NEW d \in used(f) PROVE d = f
      <4>1. d \in at.elem .. Len(Ends) /\ d <= f /\ Ends[d] > Position(at)
        BY <1>1, <2>3, <3>2, EndsFacts DEF Larger
      <4>2. d \in S
        BY <4>1
      <4>3. QED BY <1>1, <2>2, <2>3, <4>1, <4>2, EndsFacts
    <3>3. QED BY <3>1, <3>2
  <2>6. Cardinality(used(f)) = 1
    BY <2>5, FS_Singleton
  <2>7. f \in last
    BY <2>3, <2>6, ComposedAssumption DEF last
  <2>8. PICK e \in last : end = Ends[e] /\ \A d \in last : d <= e
    BY <1>4, <2>7
  <2>9. QED BY <1>1, <1>3, <2>3, <2>7, <2>8, EndsFacts
<1>9. QED BY <1>1, <1>2, <1>5, <1>6, <1>7, <1>8, EndsFacts DEF Smaller

\* A condition that is not fulfilled yet never lets too much be moved.
LEMMA MoreFacts ==
    ASSUME condition \in Conditions, NEW total \in Nat, NEW ec
    PROVE  LET more == CheckForCompletion(ec, total)
           IN  /\ more \in Nat
               /\ ec # "none" => more = 0
               /\ condition.until = "exactly" /\ more > 0 => total + more <= condition.size
               /\ ec = "none" /\ more = 0 => condition.until # "all" /\ total >= condition.size
<1> DEFINE more == CheckForCompletion(ec, total)
<1>1. condition.until \in {"all", "at_least", "exactly"} /\ condition.size \in Nat
  BY ComposedAssumption
<1>2. CASE ec # "none"
  BY <1>2 DEF CheckForCompletion
<1>3. CASE ec = "none" /\ condition.until = "all"
  BY <1>3, ComposedAssumption DEF CheckForCompletion
<1>4. CASE ec = "none" /\ condition.until = "at_least"
  BY <1>1, <1>4, ComposedAssumption DEF CheckForCompletion
<1>5. CASE ec = "none" /\ condition.until = "exactly"
  <2>1. more = IF total >= condition.size THEN 0 ELSE Smaller(condition.size - total, MaxTransfer)
    BY <1>5 DEF CheckForCompletion
  <2>2. QED BY <1>1, <1>5, <2>1, ComposedAssumption DEF Smaller
<1>6. QED BY <1>1, <1>2, <1>3, <1>4, <1>5

\* What fulfils the condition.
LEMMA LimitFacts ==
    ASSUME condition \in Conditions
    PROVE  /\ Limit \in Nat /\ Limit <= Total
           /\ condition.until = "exactly" => Limit <= condition.size
           /\ \A t \in Nat : t <= Total /\ (condition.until = "exactly" => t <= condition.size) => t <= Limit
           /\ taken \in Nat /\ taken <= Limit
                /\ (taken >= Total \/ (condition.until # "all" /\ taken >= condition.size)) => Enough
<1>1. /\ condition.until \in {"all", "at_least", "exactly"} /\ condition.size \in Nat /\ Total \in Nat
  BY ComposedAssumption, EndsFacts
<1>2. CASE condition.until = "all"
  BY <1>1, <1>2 DEF Limit, Enough
<1>3. CASE condition.until = "at_least"
  BY <1>1, <1>3 DEF Limit, Enough, Smaller
<1>4. CASE condition.until = "exactly"
  BY <1>1, <1>4 DEF Limit, Enough, Smaller
<1>5. QED BY <1>1, <1>2, <1>3, <1>4

LEMMA NotTransfer ==
    ASSUME kind \notin {"read", "write"}, kind' = kind
    PROVE  TransferInv'
BY DEF TransferInv

\* An operation of the stream that moves what the buffers and the condition allow.
LEMMA IssueTransfers ==
    ASSUME kind \in {"read", "write"}, UNCHANGED <<kind, condition, moved>>, condition \in Conditions,
           NextOK(next'), taken = next'.total, taken \in Nat, taken <= Limit,
           moved = [i \in 1 .. taken |-> i],
           NEW more \in Nat, more = CheckForCompletion("none", taken),
           Issue(Prepared(next', more))
    PROVE  TransferInv'
<1> DEFINE n == Prepared(next', more)
<1>1. /\ n \in Int /\ n <= more /\ taken + n <= Total
      /\ more > 0 /\ taken < Total => n > 0
  BY PreparedFacts
<1>2. /\ condition.until = "exactly" /\ more > 0 => taken + more <= condition.size
      /\ more = 0 => condition.until # "all" /\ taken >= condition.size
  BY MoreFacts
<1>3. condition.size \in Nat /\ Limit \in Nat /\ Limit <= Total /\ Total \in Nat
  BY LimitFacts, EndsFacts, ComposedAssumption
<1>4. taken + n <= Limit \/ n = 0
  <2>1. CASE more = 0
    BY <1>1, <1>3, <2>1 DEF Limit, Smaller
  <2>2. CASE more > 0
    <3>1. condition.until = "exactly" => taken + n <= condition.size
      BY <1>1, <1>2, <1>3, <2>2
    <3>2. QED BY <1>1, <1>3, <3>1 DEF Limit, Smaller
  <2>3. QED BY <2>1, <2>2
<1>5. n = 0 => Enough
  <2>1. n = 0 => more = 0 \/ taken >= Total
    BY <1>1, <1>3
  <2>2. QED BY <1>2, <2>1, LimitFacts
<1>6. /\ asked' = n /\ inner' = [ec |-> "none", n |-> 0] /\ taken' = taken
      /\ phase' = IF n = 0 THEN "queued" ELSE "waiting"
  BY DEF Issue, NoResult
<1>7. Enough' = Enough /\ Limit' = Limit
  BY <1>6 DEF Enough, Limit
<1>8. TransferTrue'
  <2>1. condition.until = "exactly" => taken <= condition.size
    BY <1>3, LimitFacts
  <2>2. QED BY <1>3, <1>6, <2>1 DEF TransferTrue
<1>9. QED BY <1>1, <1>4, <1>5, <1>6, <1>7, <1>8 DEF TransferInv, Pending, NoResult

LEMMA BeginTransfers ==
    ASSUME CommonInv, TransferInv, Begin
    PROVE  TransferInv'
<1>1. SUFFICES ASSUME kind \in {"read", "write"} PROVE TransferInv'
  BY NotTransfer DEF Begin
<1>2. /\ phase = "initial" /\ BeginTransfer /\ UNCHANGED <<kind, condition, moved>>
  BY <1>1 DEF Begin
<1>3. /\ condition \in Conditions /\ NextOK(next) /\ taken = 0 /\ taken = next.total
      /\ taken <= Limit /\ moved = [i \in 1 .. taken |-> i]
  <2>1. next.total \in Nat /\ TransferInv
    BY <1>1 DEF TransferInv, NextOK
  <2>2. QED BY <1>1, <1>2, <2>1 DEF TransferInv, Pending
<1>4. CheckForCompletion("none", taken) \in Nat
  BY <1>3, MoreFacts
<1>5. next' = next /\ Issue(Prepared(next, CheckForCompletion("none", taken)))
  BY <1>2, <1>3 DEF BeginTransfer
<1>6. QED BY <1>1, <1>2, <1>3, <1>4, <1>5, IssueTransfers

LEMMA HandlerTransfers ==
    ASSUME CommonInv, TransferInv, Handle
    PROVE  TransferInv'
<1>1. SUFFICES ASSUME kind \in {"read", "write"} PROVE TransferInv'
  BY NotTransfer DEF Handle
<1>2. /\ phase = "queued" /\ HandleTransfer /\ UNCHANGED <<kind, condition, moved>>
  BY <1>1 DEF Handle
<1>3. /\ condition \in Conditions /\ NextOK(next) /\ inner.n \in Nat /\ taken \in Nat
      /\ taken = next.total + inner.n /\ taken <= Limit /\ moved = [i \in 1 .. taken |-> i]
      /\ inner = NoResult => Enough
  BY <1>1, <1>2 DEF TransferInv, Pending
<1> DEFINE at == Consumed(next, inner.n)
           more == CheckForCompletion(inner.ec, at.total)
<1>4. /\ Limit \in Nat /\ Limit <= Total /\ Total \in Nat /\ condition.size \in Nat
      /\ condition.until = "exactly" => taken <= condition.size
  BY <1>3, LimitFacts, EndsFacts, ComposedAssumption
<1>5. NextOK(at) /\ at.total = taken
  BY <1>3, <1>4, ConsumedFacts
<1>6. /\ more \in Nat
      /\ inner.ec # "none" => more = 0
      /\ inner.ec = "none" /\ more = 0 => condition.until # "all" /\ taken >= condition.size
  BY <1>3, <1>5, MoreFacts
<1>7. next' = at
  BY <1>2 DEF HandleTransfer
<1>8. ASSUME NEW ec, End(ec, at.total), ec = "none" => Enough
      PROVE  TransferInv'
  <2>1. /\ phase' = "ended" /\ result' = [ec |-> ec, n |-> taken]
        /\ UNCHANGED <<asked, inner, taken>>
    BY <1>5, <1>8 DEF End
  <2>2. Enough' = Enough /\ Limit' = Limit
    BY <1>2, <2>1 DEF Enough, Limit
  <2>3. TransferTrue'
    BY <1>2, <1>3, <1>4, <1>8, <2>1, <2>2 DEF TransferTrue
  <2>4. QED BY <1>1, <1>2, <1>3, <1>5, <1>7, <2>1, <2>2, <2>3 DEF TransferInv, Pending
<1>9. CASE (inner.ec = "none" /\ inner.n = 0) \/ at.total >= Total \/ more = 0
  <2>1. End(inner.ec, at.total)
    BY <1>2, <1>9 DEF HandleTransfer
  <2>2. inner.ec = "none" => Enough
    <3>1. CASE inner.ec = "none" /\ inner.n = 0
      BY <1>3, <3>1 DEF CommonInv, NoResult
    <3>2. CASE at.total >= Total \/ more = 0
      BY <1>3, <1>5, <1>6, <3>2, LimitFacts
    <3>3. QED BY <1>9, <3>1, <3>2
  <2>3. QED BY <1>8, <2>1, <2>2
<1>10. CASE ~((inner.ec = "none" /\ inner.n = 0) \/ at.total >= Total \/ more = 0)
  <2>1. inner.ec = "none"
    BY <1>6, <1>10
  <2>2. CASE Cancelled
    <3>1. End("aborted", at.total)
      BY <1>2, <1>10, <2>2 DEF HandleTransfer
    <3>2. QED BY <1>8, <3>1
  <2>3. CASE ~Cancelled
    <3>1. Issue(Prepared(at, more))
      BY <1>2, <1>10, <2>3 DEF HandleTransfer
    <3>2. more = CheckForCompletion("none", taken)
      BY <1>5, <2>1
    <3>3. QED BY <1>1, <1>2, <1>3, <1>5, <1>6, <1>7, <3>1, <3>2, IssueTransfers
  <2>4. QED BY <2>2, <2>3
<1>11. QED BY <1>9, <1>10

\* The places of the bytes that have been moved, when n more have.
LEMMA MovedFurther ==
    ASSUME NEW t \in Nat, NEW n \in Nat
    PROVE  [i \in 1 .. t |-> i] \o [i \in 1 .. n |-> t + i] = [i \in 1 .. t + n |-> i]
<1> DEFINE r == [i \in 1 .. t |-> i]  u == [i \in 1 .. n |-> t + i]
<1>1. r \in Seq(Int) /\ u \in Seq(Int) /\ Len(r) = t /\ Len(u) = n
  OBVIOUS
<1>2. r \o u = [i \in 1 .. t + n |-> IF i <= t THEN r[i] ELSE u[i - t]]
  BY <1>1
<1>3. \A i \in 1 .. t + n : (IF i <= t THEN r[i] ELSE u[i - t]) = i
  OBVIOUS
<1>4. QED BY <1>2, <1>3

LEMMA OutsideTransfers ==
    ASSUME CommonInv, TransferInv, Outside \/ Signalled
    PROVE  TransferInv'
<1>1. SUFFICES ASSUME kind \in {"read", "write"} PROVE TransferInv'
  BY NotTransfer DEF Outside, MovesSome, EndOfFile, Fails, Connected, Refused, CloseSocket,
                     Completes, Signalled, Emit
<1>2. /\ condition \in Conditions /\ NextOK(next) /\ inner.n \in Nat /\ taken \in Nat /\ asked \in Int
      /\ taken = next.total + Pending /\ taken <= Limit /\ moved = [i \in 1 .. taken |-> i]
      /\ phase = "waiting" => taken + asked <= Limit
      /\ phase = "queued" /\ inner = NoResult => Enough
  BY <1>1 DEF TransferInv
<1>3. Limit \in Nat /\ (condition.until = "exactly" => Limit <= condition.size) /\ Limit <= Total
      /\ Total \in Nat /\ condition.size \in Nat
  BY <1>2, LimitFacts, EndsFacts, ComposedAssumption
<1>4. CASE MovesSome
  <2>1. PICK n \in 1 .. asked : Completes(n, "none") /\ taken' = taken + n
                                /\ moved' = moved \o [i \in 1 .. n |-> Position(next) + i]
    BY <1>1, <1>4 DEF MovesSome
  <2>2. /\ phase = "waiting" /\ phase' = "queued" /\ inner' = [ec |-> "none", n |-> n]
        /\ UNCHANGED <<kind, condition, asked, next>> /\ n \in Nat /\ n # 0
    BY <1>2, <2>1 DEF Completes
  <2>3. Position(next) = taken
    BY <1>2, <2>2 DEF NextOK, Pending
  <2>4. moved' = [i \in 1 .. taken' |-> i]
    BY <1>2, <2>1, <2>2, <2>3, MovedFurther
  <2>5. taken' \in Nat /\ taken' <= Limit /\ Limit' = Limit /\ inner' # NoResult
    BY <1>2, <1>3, <2>1, <2>2, SMTT(30) DEF Limit, NoResult
  <2>6. TransferTrue'
    BY <1>2, <1>3, <2>2, <2>4, <2>5 DEF TransferTrue
  <2>7. taken' = next'.total + Pending'
    BY <1>2, <2>1, <2>2 DEF Pending, NextOK
  <2>8. QED BY <1>1, <1>2, <2>2, <2>4, <2>5, <2>6, <2>7 DEF TransferInv
<1>5. CASE EndOfFile \/ Fails \/ Signalled
  <2>1. /\ UNCHANGED <<kind, condition, taken, moved, asked, next, result>>
        /\ \/ phase = "waiting" /\ phase' = "queued" /\ inner'.ec # "none" /\ inner'.n = 0
           \/ phase' = phase /\ inner' = inner
    BY <1>5 DEF EndOfFile, Fails, Completes, Signalled, Emit, Filtered, transferVars
  <2>2. Enough' = Enough /\ Limit' = Limit
    BY <2>1 DEF Enough, Limit
  <2>3. TransferTrue'
    BY <1>1, <2>1, <2>2 DEF TransferInv, TransferTrue
  <2>4. QED BY <1>1, <1>2, <2>1, <2>2, <2>3 DEF TransferInv, Pending, NextOK, NoResult
<1>6. QED BY <1>1, <1>4, <1>5 DEF Outside, Connected, Refused, CloseSocket

-----------------------------------------------------------------------------
(* async_read_until.                                                       *)

LEMMA DataFacts ==
    ASSUME NEW s, Valid(s)
    PROVE  /\ Size(s) \in Nat /\ Data(s) \in Seq(Nat) /\ Len(Data(s)) = Size(s)
           /\ \A i \in 1 .. Size(s) : Data(s)[i] = s.mem[s.gnext + i]
<1>1. /\ s.mem \in Seq(Nat) /\ s.gnext \in Nat /\ s.pnext \in Nat /\ Len(s.mem) \in Nat
      /\ s.gnext <= s.pnext /\ s.pnext <= Len(s.mem)
  BY DEF Valid
<1> DEFINE mem == s.mem  m == s.gnext + 1  n == s.pnext
<1>2. m \in Int /\ n \in Int /\ \A i \in m .. n : mem[i] \in Nat
  BY <1>1
<1>3. Data(s) = SubSeq(mem, m, n)
  BY DEF Data
<1> HIDE DEF mem, m, n
<1>4. /\ SubSeq(mem, m, n) \in Seq(Nat)
      /\ Len(SubSeq(mem, m, n)) = IF m <= n THEN n - m + 1 ELSE 0
      /\ \A i \in 1 .. n - m + 1 : SubSeq(mem, m, n)[i] = mem[m + i - 1]
  BY <1>2, SubSeqProperties
<1>5. /\ n - m + 1 = Size(s) /\ Size(s) \in Nat /\ m <= n + 1
      /\ (IF m <= n THEN n - m + 1 ELSE 0) = Size(s)
      /\ \A i \in 1 .. Size(s) : mem[m + i - 1] = s.mem[s.gnext + i]
  <2>1. Size(s) = s.pnext - s.gnext
    BY DEF Size
  <2>2. Size(s) \in Nat
    BY <1>1, <2>1
  <2>3. n - m + 1 = Size(s) /\ m <= n + 1 /\ (IF m <= n THEN n - m + 1 ELSE 0) = Size(s)
    BY <1>1, <2>1 DEF m, n
  <2>4. \A i \in 1 .. Size(s) : m + i - 1 = s.gnext + i
    BY <1>1, <2>2 DEF m
  <2>5. QED BY <2>2, <2>3, <2>4 DEF mem
<1>6. QED BY <1>3, <1>4, <1>5

\* prepare() keeps the data and makes room for n more.
LEMMA ReservedFacts ==
    ASSUME NEW s, Valid(s), NEW n \in Nat, NEW b, InOrder(s, b)
    PROVE  /\ Valid(Reserved(s, n)) /\ Size(Reserved(s, n)) = Size(s) /\ InOrder(Reserved(s, n), b)
           /\ Reserved(s, n).pnext + n <= Len(Reserved(s, n).mem)
<1>1. /\ s.mem \in Seq(Nat) /\ s.gnext \in Nat /\ s.pnext \in Nat /\ Len(s.mem) \in Nat
      /\ s.gnext <= s.pnext /\ s.pnext <= Len(s.mem)
  BY DEF Valid
<1>2. CASE n <= Len(s.mem) - s.pnext
  BY <1>1, <1>2 DEF Reserved
<1>3. CASE ~(n <= Len(s.mem) - s.pnext)
  <2> DEFINE k == Larger(Len(s.mem) - Size(s), n)
             zeros == [i \in 1 .. k |-> 0]
             r == [mem |-> Data(s) \o zeros, gnext |-> 0, pnext |-> Size(s)]
  <2>1. Reserved(s, n) = r
    BY <1>3 DEF Reserved
  <2>2. Size(s) \in Nat /\ Data(s) \in Seq(Nat) /\ Len(Data(s)) = Size(s)
    BY DataFacts
  <2>3. k \in Nat /\ n <= k
    BY <1>1, <2>2 DEF Larger
  <2> HIDE DEF k
  <2>4. zeros \in Seq(Nat) /\ Len(zeros) = k
    BY <2>3
  <2> HIDE DEF zeros
  <2>5. /\ r.mem \in Seq(Nat) /\ Len(r.mem) = Size(s) + k
        /\ \A i \in 1 .. Size(s) : r.mem[i] = Data(s)[i]
    <3> DEFINE c == Data(s)
    <3>1. c \in Seq(Nat) /\ zeros \in Seq(Nat) /\ Len(c) = Size(s) /\ r.mem = c \o zeros
      BY <2>2, <2>4
    <3> HIDE DEF c, r
    <3>2. /\ c \o zeros \in Seq(Nat) /\ Len(c \o zeros) = Len(c) + Len(zeros)
          /\ \A i \in 1 .. Len(c) + Len(zeros) :
               (c \o zeros)[i] = IF i <= Len(c) THEN c[i] ELSE zeros[i - Len(c)]
      BY <3>1, ConcatProperties
    <3>3. \A i \in 1 .. Size(s) : i \in 1 .. Len(c) + Len(zeros) /\ i <= Len(c)
      BY <2>2, <2>3, <2>4, <3>1
    <3>4. \A i \in 1 .. Size(s) : r.mem[i] = c[i]
      BY <3>1, <3>2, <3>3
    <3>5. QED BY <2>4, <3>1, <3>2, <3>4 DEF c
  <2>6. Size(r) = Size(s)
    BY <2>2 DEF Size
  <2>7. Valid(r)
    BY <2>2, <2>3, <2>5 DEF Valid
  <2>8. InOrder(r, b)
    BY <2>2, <2>5, <2>6, DataFacts DEF InOrder
  <2>9. QED BY <2>1, <2>2, <2>3, <2>5, <2>6, <2>7, <2>8
<1>4. QED BY <1>2, <1>3

\* commit() of what has been read appends it to the data.
LEMMA CommittedFacts ==
    ASSUME NEW s, Valid(s), NEW n \in Nat, NEW b \in Nat, InOrder(s, b), s.pnext + n <= Len(s.mem),
           \A i \in 1 .. n : s.mem[s.pnext + i] = b + Size(s) + i
    PROVE  Valid(Committed(s, n)) /\ Size(Committed(s, n)) = Size(s) + n /\ InOrder(Committed(s, n), b)
<1>1. /\ s.mem \in Seq(Nat) /\ s.gnext \in Nat /\ s.pnext \in Nat /\ Len(s.mem) \in Nat
      /\ s.gnext <= s.pnext /\ s.pnext <= Len(s.mem)
      /\ s = [mem |-> s.mem, gnext |-> s.gnext, pnext |-> s.pnext]
  BY DEF Valid
<1>2. Committed(s, n) = [mem |-> s.mem, gnext |-> s.gnext, pnext |-> s.pnext + n]
  BY <1>1 DEF Committed, Smaller
<1>3. Valid(Committed(s, n)) /\ Size(Committed(s, n)) = Size(s) + n
  BY <1>1, <1>2 DEF Valid, Size
<1>4. ASSUME NEW i \in 1 .. Size(s) + n
      PROVE  s.mem[s.gnext + i] = b + i
  <2>1. CASE i <= Size(s)
    BY <1>1, <2>1 DEF InOrder, Size
  <2>2. CASE ~(i <= Size(s))
    <3>1. i - Size(s) \in 1 .. n /\ s.pnext + (i - Size(s)) = s.gnext + i
      BY <1>1, <2>2, SMTT(30) DEF Size
    <3>2. s.mem[s.pnext + (i - Size(s))] = b + Size(s) + (i - Size(s))
      BY <3>1
    <3>3. b + Size(s) + (i - Size(s)) = b + i
      BY <1>1 DEF Size
    <3>4. QED BY <3>1, <3>2, <3>3
  <2>3. QED BY <2>1, <2>2
<1>5. QED BY <1>2, <1>3, <1>4 DEF InOrder

\* A look at data that begins behind the b-th byte, from where no match begins before:
\* it decides, or it finds where to go on and that there is room to read something.
LEMMA LookedFacts ==
    ASSUME NEW s, Valid(s), NEW b \in Nat, InOrder(s, b), Size(s) <= MaxSize,
           Searching(b, Size(s), search_position_)
    PROVE  /\ Looked(s).bytes \in Nat /\ Size(s) + Looked(s).bytes <= MaxSize
           /\ Looked(s).bytes = 0 => Decided(b, Size(s), Looked(s).position)
           /\ Looked(s).bytes > 0 => Searching(b, Size(s), Looked(s).position)
<1> DEFINE d == Data(s)
           found == {i \in search_position_ .. Len(d) - 1 : Agrees(d, i)}
           p == PartialSearch(d, search_position_)
           L == Len(Delim)
<1>1. /\ Size(s) \in Nat /\ Len(d) = Size(s) /\ L \in Nat \ {0}
      /\ MaxSize \in Nat /\ Len(s.mem) \in Nat /\ Size(s) <= Len(s.mem)
      /\ search_position_ \in 0 .. Size(s)
  <2>1. Size(s) \in Nat /\ Len(d) = Size(s)
    BY DataFacts
  <2>2. Len(s.mem) \in Nat /\ Size(s) <= Len(s.mem)
    BY DEF Valid, Size
  <2>3. QED BY <2>1, <2>2, ComposedAssumption DEF Searching
<1>2. \A i \in 1 .. Size(s) : d[i] = b + i
  BY DataFacts DEF InOrder
<1> HIDE DEF d
<1>3. ASSUME NEW i \in 0 .. Size(s) - 1
      PROVE  Agrees(d, i) <=> ~Mismatch(b, Size(s), i)
  <2>1. \A j \in 1 .. L : j \in 1 .. Smaller(L, Len(d) - i) <=> i + j <= Size(s)
    BY <1>1 DEF Smaller
  <2>2. \A j \in 1 .. Smaller(L, Len(d) - i) : j \in 1 .. L /\ d[i + j] = b + i + j
    BY <1>1, <1>2 DEF Smaller
  <2>3. QED BY <2>1, <2>2 DEF Agrees, Mismatch
<1>4. /\ p \in 0 .. Size(s) /\ search_position_ <= p
      /\ p < Size(s) => ~Mismatch(b, Size(s), p)
      /\ \A i \in search_position_ .. Size(s) - 1 : i < p => Mismatch(b, Size(s), i)
  <2>1. found \in SUBSET Nat
    BY <1>1
  <2>2. CASE found = {}
    <3>1. p = Len(d)
      BY <2>2 DEF PartialSearch
    <3>2. QED BY <1>1, <1>3, <2>2, <3>1
  <2>3. CASE found # {}
    <3>1. p = Least(found)
      BY <2>3 DEF PartialSearch
    <3>2. p \in found /\ \A i \in found : p <= i
      BY <2>1, <2>3, <3>1, LeastElement
    <3> HIDE DEF p
    <3>3. p \in search_position_ .. Size(s) - 1 /\ Agrees(d, p)
      BY <1>1, <3>2
    <3>4. ASSUME NEW i \in search_position_ .. Size(s) - 1, i < p
          PROVE  Mismatch(b, Size(s), i)
      <4>1. i \notin found
        BY <1>1, <3>2, <3>3, <3>4
      <4>2. ~Agrees(d, i)
        BY <1>1, <4>1
      <4>3. QED BY <1>1, <1>3, <4>2
    <3>5. QED BY <1>1, <1>3, <3>3, <3>4
  <2>4. QED BY <2>2, <2>3
<1>5. \A i \in 0 .. p - 1 : Mismatch(b, Size(s), i)
  BY <1>1, <1>4 DEF Searching
<1> HIDE DEF p
<1>6. ASSUME NEW m \in Nat, Match(b, Size(s), m)
      PROVE  m - L \in 0 .. Size(s) - 1 /\ ~(m - L < p)
  <2>1. m \in L .. Size(s) /\ m - L \in 0 .. Size(s) - 1
    BY <1>1, <1>6 DEF Match
  <2>2. ~Mismatch(b, Size(s), m - L)
    <3>1. SUFFICES ASSUME NEW j \in 1 .. L, Text[b + (m - L) + j] # Delim[j]
                   PROVE  FALSE
      BY DEF Mismatch
    <3>2. b + (m - L) + j = b + m - L + j
      BY <1>1, <2>1
    <3>3. QED BY <1>6, <3>1, <3>2 DEF Match
  <2>3. QED BY <1>4, <1>5, <2>1, <2>2
<1>7. CASE p + L <= Len(d)
  <2>1. Looked(s).position = p + L /\ Looked(s).bytes = 0
    BY <1>7 DEF Looked, p, d
  <2>2. p < Size(s) /\ p + L \in L .. Size(s)
    BY <1>1, <1>4, <1>7
  <2>3. Match(b, Size(s), p + L)
    <3>1. ASSUME NEW j \in 1 .. L PROVE Text[b + (p + L) - L + j] = Delim[j]
      <4>1. p + j <= Size(s) /\ b + (p + L) - L + j = b + p + j
        BY <1>1, <1>4, <1>7
      <4>2. QED BY <1>4, <2>2, <4>1 DEF Mismatch
    <3>2. QED BY <2>2, <3>1 DEF Match
  <2>4. \A m \in 1 .. (p + L) - 1 : ~Match(b, Size(s), m)
    BY <1>1, <1>4, <1>6
  <2>5. p + L # NotFound
    BY <1>1, <1>4 DEF NotFound
  <2>6. Decided(b, Size(s), p + L)
    <3> DEFINE q == p + L
    <3>1. Match(b, Size(s), q)
      BY <2>3, Zenon
    <3>2. \A m \in 1 .. q - 1 : ~Match(b, Size(s), m)
      BY <2>4, Zenon
    <3>3. q # NotFound
      BY <2>5, Zenon
    <3> HIDE DEF q
    <3>4. Decided(b, Size(s), q)
      BY <3>1, <3>2, <3>3 DEF Decided
    <3>5. QED BY <3>4 DEF q
  <2>7. QED BY <1>1, <2>1, <2>6
<1>8. CASE ~(p + L <= Len(d)) /\ Len(d) = MaxSize
  <2>1. Looked(s).position = NotFound /\ Looked(s).bytes = 0
    BY <1>8 DEF Looked, p, d
  <2>2. \A m \in 1 .. MaxSize : ~Match(b, Size(s), m)
    <3>1. SUFFICES ASSUME NEW m \in 1 .. MaxSize, Match(b, Size(s), m) PROVE FALSE
      OBVIOUS
    <3>2. m \in L .. Size(s)
      BY <3>1 DEF Match
    <3>3. QED BY <1>1, <1>4, <1>6, <1>8, <3>1, <3>2
  <2>3. QED BY <1>1, <1>8, <2>1, <2>2 DEF Decided
<1>9. CASE ~(p + L <= Len(d)) /\ Len(d) # MaxSize
  <2>1. Looked(s).position = p /\ Looked(s).bytes = ReadSize(s)
    BY <1>9 DEF Looked, Resumed, p, d
  <2>2. ReadSize(s) \in Nat /\ ReadSize(s) > 0 /\ Size(s) + ReadSize(s) <= MaxSize
    BY <1>1, <1>9, ComposedAssumption, SMTT(30) DEF ReadSize, Smaller, Larger
  <2>3. QED BY <1>4, <1>5, <2>1, <2>2 DEF Searching
<1>10. QED BY <1>7, <1>8, <1>9

\* What the properties say of the data, in terms of the places in the stream.
LEMMA DataPlaces ==
    ASSUME NEW s, Valid(s), NEW b \in Nat, InOrder(s, b)
    PROVE  /\ \A i \in 1 .. Size(s) : Data(s)[i] = b + i
           /\ \A n : Match(b, Size(s), n) <=>
                     /\ n \in Len(Delim) .. Size(s)
                     /\ \A j \in 1 .. Len(Delim) : Text[Data(s)[n - Len(Delim) + j]] = Delim[j]
<1>1. Size(s) \in Nat /\ Len(Delim) \in Nat \ {0} /\ \A i \in 1 .. Size(s) : Data(s)[i] = b + i
  BY DataFacts, ComposedAssumption DEF InOrder
<1>2. ASSUME NEW n \in Len(Delim) .. Size(s), NEW j \in 1 .. Len(Delim)
      PROVE  Data(s)[n - Len(Delim) + j] = b + n - Len(Delim) + j
  <2>1. n - Len(Delim) + j \in 1 .. Size(s)
    BY <1>1
  <2>2. b + (n - Len(Delim) + j) = b + n - Len(Delim) + j
    BY <1>1
  <2>3. QED BY <1>1, <2>1, <2>2
<1>3. QED BY <1>1, <1>2 DEF Match

\* A step of one of the other operations.
LEMMA NotReadUntil ==
    ASSUME kind # "read_until", kind' = kind
    PROVE  ReadUntilInv'
BY DEF ReadUntilInv

\* The operation ends, with an error or with what has been decided.
LEMMA EndsReadUntil ==
    ASSUME kind' = "read_until", taken \in Nat, inner.n \in Nat, asked \in Int, Valid(sb'),
           NEW b \in Nat, b + Size(sb') = taken, InOrder(sb', b), Size(sb') <= MaxSize,
           NEW ec, NEW position, EndReadUntil(ec, position),
           ec = "none" => Decided(b, Size(sb'), position),
           ec # "none" => ec # "not_found" /\ position # NotFound
    PROVE  ReadUntilInv'
<1>1. /\ phase' = "ended" /\ UNCHANGED <<asked, inner, taken>>
      /\ result'.ec = (IF position = NotFound THEN "not_found" ELSE ec)
      /\ result'.n = IF ec # "none" \/ position = NotFound THEN 0 ELSE position
  BY DEF EndReadUntil, End
<1>2. Size(sb') \in Nat /\ MaxSize \in Nat
  BY DataFacts, ComposedAssumption
<1>3. Pending' = 0 /\ Committing' = 0 /\ First' = b
  BY <1>1, <1>2 DEF Pending, Committing, First
<1>4. DataInOrder'
  <2>1. \A i \in 1 .. Size(sb') : taken' - 0 - Size(sb') + i = b + i
    BY <1>1, <1>2
  <2>2. QED BY <1>3, <2>1, DataPlaces DEF DataInOrder
<1>5. \A n : MatchEnds(n)' <=> Match(b, Size(sb'), n)
  <2>1. PICK s : s = sb'
    OBVIOUS
  <2>2. Valid(s) /\ InOrder(s, b)
    BY <2>1
  <2>3. \A n : Match(b, Size(s), n) <=>
               /\ n \in Len(Delim) .. Size(s)
               /\ \A j \in 1 .. Len(Delim) : Text[Data(s)[n - Len(Delim) + j]] = Delim[j]
    BY <2>2, DataPlaces
  <2> QED BY <2>1, <2>3 DEF MatchEnds
<1>6. ASSUME result'.ec = "none"
      PROVE  MatchEnds(result.n)' /\ \A m \in 1 .. result'.n - 1 : ~MatchEnds(m)'
  <2>1. ec = "none" /\ position # NotFound /\ result'.n = position
    BY <1>1, <1>6
  <2>2. Match(b, Size(sb'), position) /\ \A m \in 1 .. position - 1 : ~Match(b, Size(sb'), m)
    BY <2>1 DEF Decided
  <2>3. MatchEnds(result.n)'
    BY <2>1, <2>2, DataPlaces DEF MatchEnds
  <2>4. QED BY <1>5, <2>1, <2>2, <2>3
<1>7. result'.ec = "not_found" => Size(sb') = MaxSize /\ \A m \in 1 .. MaxSize : ~MatchEnds(m)'
  BY <1>1, <1>5 DEF Decided
<1>8. result'.ec # "none" => result'.n = 0
  BY <1>1
<1>9. ReadUntilTrue'
  BY <1>1, <1>4, <1>6, <1>7, <1>8 DEF ReadUntilTrue
<1>10. QED BY <1>1, <1>2, <1>3, <1>9 DEF ReadUntilInv

\* The data has been looked at, and either it decides or there is another read.
LEMMA LooksFurther ==
    ASSUME kind' = "read_until", taken \in Nat, inner.n \in Nat, asked \in Int,
           NEW s, Valid(s), NEW b \in Nat, b + Size(s) = taken, InOrder(s, b), Size(s) <= MaxSize,
           Searching(b, Size(s), search_position_),
           search_position_' = Looked(s).position, sb' = Reserved(s, Looked(s).bytes),
           \/ Issue(Looked(s).bytes)
           \/ Looked(s).bytes = 0 /\ EndReadUntil("none", Looked(s).position)
    PROVE  ReadUntilInv'
<1> DEFINE n == Looked(s).bytes
           position == Looked(s).position
<1>1. /\ n \in Nat /\ Size(s) + n <= MaxSize
      /\ n = 0 => Decided(b, Size(s), position)
      /\ n > 0 => Searching(b, Size(s), position)
  BY LookedFacts
<1>2. /\ sb' = Reserved(s, n) /\ search_position_' = position
      /\ Issue(n) \/ (n = 0 /\ EndReadUntil("none", position))
  BY Zenon
<1> HIDE DEF n, position
<1>3. /\ Valid(sb') /\ Size(sb') = Size(s) /\ InOrder(sb', b)
      /\ sb'.pnext + n <= Len(sb'.mem)
  BY <1>1, <1>2, ReservedFacts
<1>4. Size(s) \in Nat /\ MaxSize \in Nat
  BY DataFacts, ComposedAssumption
<1>5. CASE n = 0 /\ EndReadUntil("none", position)
  BY <1>1, <1>3, <1>5, EndsReadUntil
<1>6. CASE Issue(n)
  <2>1. /\ asked' = n /\ inner' = NoResult /\ phase' = (IF n = 0 THEN "queued" ELSE "waiting")
        /\ UNCHANGED taken
    BY <1>6 DEF Issue
  <2>2. Pending' = 0 /\ Committing' = 0 /\ First' = b
    BY <1>3, <1>4, <2>1 DEF Pending, Committing, First, NoResult
  <2>3. DataInOrder'
    <3>1. \A i \in 1 .. Size(sb') : taken' - 0 - Size(sb') + i = b + i
      BY <1>3, <1>4, <2>1
    <3>2. QED BY <1>3, <2>2, <3>1, DataPlaces DEF DataInOrder
  <2>4. ReadUntilTrue'
    BY <1>1, <1>3, <2>1, <2>3 DEF ReadUntilTrue
  <2>5. CASE n = 0
    <3>1. phase' = "queued" /\ inner' = NoResult /\ inner'.n = 0 /\ inner'.ec = "none"
      BY <2>1, <2>5 DEF NoResult
    <3>2. sb'.pnext + inner'.n <= Len(sb'.mem)
      BY <1>3, <2>5, <3>1
    <3>3. Decided(First', Size(sb'), search_position_')
      BY <1>1, <1>2, <1>3, <2>2, <2>5
    <3>4. QED BY <1>1, <1>3, <1>4, <2>1, <2>2, <2>4, <3>1, <3>2, <3>3 DEF ReadUntilInv
  <2>6. CASE n > 0
    <3>1. phase' = "waiting" /\ inner'.n = 0
      BY <2>1, <2>6 DEF NoResult
    <3>2. Searching(First', Size(sb'), search_position_')
      BY <1>1, <1>2, <1>3, <2>2, <2>6
    <3>3. QED BY <1>1, <1>3, <1>4, <2>1, <2>2, <2>4, <2>6, <3>1, <3>2 DEF ReadUntilInv
  <2>7. QED BY <1>1, <2>5, <2>6
<1>7. QED BY <1>2, <1>5, <1>6

LEMMA BeginReadsUntil ==
    ASSUME CommonInv, ReadUntilInv, Begin
    PROVE  ReadUntilInv'
<1>1. SUFFICES ASSUME kind = "read_until" PROVE ReadUntilInv'
  BY NotReadUntil DEF Begin
<1>2. BeginReadUntil /\ kind' = "read_until" /\ phase = "initial"
  BY <1>1 DEF Begin
<1>3. /\ Valid(sb) /\ taken \in Nat /\ inner.n \in Nat /\ asked \in Int
      /\ First \in Nat /\ InOrder(sb, First) /\ Size(sb) + Pending <= MaxSize
      /\ search_position_ = 0
  BY <1>1, <1>2 DEF ReadUntilInv
<1>4. Pending = 0 /\ Size(sb) \in Nat /\ First + Size(sb) = taken /\ Size(sb) <= MaxSize
  <2>1. Size(sb) \in Nat
    BY <1>3, DataFacts
  <2>2. Pending = 0
    BY <1>2 DEF Pending
  <2>3. QED BY <1>3, <2>1, <2>2, ComposedAssumption DEF First
<1>5. Searching(First, Size(sb), search_position_)
  BY <1>3, <1>4 DEF Searching
<1>6. /\ search_position_' = Looked(sb).position /\ sb' = Reserved(sb, Looked(sb).bytes)
      /\ Issue(Looked(sb).bytes)
  BY <1>2 DEF BeginReadUntil
<1>7. QED BY <1>2, <1>3, <1>4, <1>5, <1>6, LooksFurther

LEMMA HandlerReadsUntil ==
    ASSUME CommonInv, ReadUntilInv, Handle
    PROVE  ReadUntilInv'
<1>1. SUFFICES ASSUME kind = "read_until" PROVE ReadUntilInv'
  BY NotReadUntil DEF Handle
<1>2. HandleReadUntil /\ kind' = "read_until" /\ phase = "queued"
  BY <1>1 DEF Handle
<1>3. /\ Valid(sb) /\ taken \in Nat /\ inner.n \in Nat /\ asked \in Int
      /\ First \in Nat /\ InOrder(sb, First) /\ Size(sb) + inner.n <= MaxSize
      /\ inner.ec # "not_found" /\ sb.pnext + inner.n <= Len(sb.mem)
      /\ \A i \in 1 .. inner.n : sb.mem[sb.pnext + i] = First + Size(sb) + i
  BY <1>1, <1>2 DEF ReadUntilInv, Pending
<1>4. IF inner = NoResult THEN Decided(First, Size(sb), search_position_)
      ELSE Searching(First, Size(sb), search_position_)
  BY <1>1, <1>2 DEF ReadUntilInv
<1> DEFINE s == Committed(sb, inner.n)
<1>5. Valid(s) /\ Size(s) = Size(sb) + inner.n /\ InOrder(s, First)
  BY <1>3, CommittedFacts
<1>6. Size(sb) \in Nat /\ First + Size(s) = taken /\ Size(s) <= MaxSize
  <2>1. Size(sb) \in Nat
    BY <1>3, DataFacts
  <2>2. Pending = inner.n
    BY <1>2 DEF Pending
  <2>3. QED BY <1>3, <1>5, <2>1, <2>2 DEF First
<1>7. inner # NoResult => search_position_ # NotFound /\ Searching(First, Size(s), search_position_)
  <2>1. SUFFICES ASSUME Searching(First, Size(sb), search_position_)
                 PROVE  search_position_ # NotFound /\ Searching(First, Size(s), search_position_)
    BY <1>4
  <2>2. search_position_ \in 0 .. Size(sb) /\ search_position_ \in 0 .. Size(s)
    BY <1>3, <1>5, <1>6, <2>1 DEF Searching
  <2>3. ASSUME NEW i \in 0 .. search_position_ - 1 PROVE Mismatch(First, Size(s), i)
    <3>1. PICK j \in 1 .. Len(Delim) : i + j <= Size(sb) /\ Text[First + i + j] # Delim[j]
      BY <2>1 DEF Searching, Mismatch
    <3>2. i + j <= Size(s)
      BY <1>3, <1>5, <1>6, <3>1, ComposedAssumption, SMTT(30)
    <3>3. QED BY <3>1, <3>2 DEF Mismatch
  <2>4. QED BY <2>2, <2>3 DEF Searching, NotFound
<1>8. CASE inner.ec # "none" \/ inner.n = 0
  <2>1. EndReadUntil(inner.ec, search_position_) /\ sb' = s
    BY <1>2, <1>8 DEF HandleReadUntil
  <2>2. inner.ec # "none" => inner # NoResult
    BY DEF NoResult
  <2>3. inner.ec = "none" => Decided(First, Size(s), search_position_)
    <3>1. SUFFICES ASSUME inner.ec = "none" PROVE Decided(First, Size(s), search_position_)
      OBVIOUS
    <3>2. inner = NoResult /\ Size(s) = Size(sb)
      BY <1>5, <1>6, <1>8, <3>1 DEF CommonInv, NoResult
    <3>3. QED BY <1>4, <3>2
  <2>4. QED BY <1>2, <1>3, <1>5, <1>6, <1>7, <2>1, <2>2, <2>3, EndsReadUntil
<1>9. CASE ~(inner.ec # "none" \/ inner.n = 0)
  <2>1. inner # NoResult
    BY <1>9 DEF NoResult
  <2>2. CASE Cancelled
    <3>1. EndReadUntil("aborted", search_position_) /\ sb' = s
      BY <1>2, <1>9, <2>2 DEF HandleReadUntil
    <3>2. QED BY <1>2, <1>3, <1>5, <1>6, <1>7, <2>1, <3>1, EndsReadUntil
  <2>3. CASE ~Cancelled
    <3>1. /\ search_position_' = Looked(s).position
          /\ sb' = Reserved(s, Looked(s).bytes)
          /\ \/ Issue(Looked(s).bytes)
             \/ Looked(s).bytes = 0 /\ EndReadUntil("none", Looked(s).position)
      BY <1>2, <1>9, <2>3 DEF HandleReadUntil
    <3>2. QED BY <1>2, <1>3, <1>5, <1>6, <1>7, <2>1, <3>1, LooksFurther
  <2>4. QED BY <2>2, <2>3
<1>10. QED BY <1>8, <1>9

\* What the stream reads goes behind the data.
LEMMA FilledFacts ==
    ASSUME NEW s, Valid(s), NEW n \in Nat, NEW b \in Nat, InOrder(s, b), taken = b + Size(s),
           s.pnext + n <= Len(s.mem)
    PROVE  /\ Valid(Filled(s, n)) /\ Size(Filled(s, n)) = Size(s) /\ InOrder(Filled(s, n), b)
           /\ Filled(s, n).pnext + n <= Len(Filled(s, n).mem)
           /\ \A i \in 1 .. n : Filled(s, n).mem[Filled(s, n).pnext + i] = b + Size(s) + i
<1>1. /\ s.mem \in Seq(Nat) /\ s.gnext \in Nat /\ s.pnext \in Nat /\ Len(s.mem) \in Nat
      /\ s.gnext <= s.pnext /\ s.pnext <= Len(s.mem)
      /\ s = [mem |-> s.mem, gnext |-> s.gnext, pnext |-> s.pnext]
  BY DEF Valid
<1>2. Size(s) \in Nat /\ taken \in Nat /\ s.pnext = s.gnext + Size(s)
  BY <1>1 DEF Size
<1> DEFINE mem == s.mem  g == s.gnext  p == s.pnext
           f == [i \in 1 .. Len(mem) |-> IF i \in p + 1 .. p + n THEN taken + i - p ELSE mem[i]]
<1>3. Filled(s, n) = [mem |-> f, gnext |-> g, pnext |-> p]
  <2>1. DOMAIN s.mem = 1 .. Len(s.mem)
    BY <1>1
  <2>2. Filled(s, n) = [s EXCEPT !.mem = f]
    BY <2>1 DEF Filled
  <2> HIDE DEF f
  <2>3. QED BY <1>1, <2>2
<1>4. /\ mem \in Seq(Nat) /\ g \in Nat /\ p \in Nat /\ Len(mem) \in Nat /\ p = g + Size(s)
       /\ p + n <= Len(mem) /\ taken = b + Size(s)
  BY <1>1, <1>2
<1> HIDE DEF mem, g, p
<1>5. f \in Seq(Nat) /\ Len(f) = Len(mem)
  <2>1. ASSUME NEW i \in 1 .. Len(mem)
        PROVE  (IF i \in p + 1 .. p + n THEN taken + i - p ELSE mem[i]) \in Nat
    <3>1. mem[i] \in Nat
      BY <1>4
    <3>2. ASSUME i \in p + 1 .. p + n PROVE taken + (i - p) \in Nat
      <4>1. i - p \in Nat
        BY <1>4, <3>2
      <4>2. QED BY <1>2, <4>1
    <3>3. QED BY <3>1, <3>2
  <2>2. QED BY <1>4, <2>1
<1>6. \A i \in 1 .. Size(s) : f[g + i] = mem[g + i]
  <2>1. \A a, k, l \in Nat : \A i \in 1 .. k :
          a + k + n <= l => a + i \in 1 .. l /\ a + i \notin a + k + 1 .. a + k + n
    OBVIOUS
  <2>2. \A i \in 1 .. Size(s) : g + i \in 1 .. Len(mem) /\ g + i \notin p + 1 .. p + n
    BY <1>2, <1>4, <2>1
  <2>3. QED BY <2>2
<1>7. \A i \in 1 .. n : f[p + i] = b + Size(s) + i
  <2>1. \A i \in 1 .. n : p + i \in 1 .. Len(mem)
    BY <1>4, SMTT(30)
  <2>2. \A i \in 1 .. n : p + i \in p + 1 .. p + n
    BY <1>4, SMTT(30)
  <2>3. \A i \in 1 .. n : taken + ((p + i) - p) = b + Size(s) + i
    BY <1>2, <1>4, SMTT(30)
  <2>4. QED BY <2>1, <2>2, <2>3
<1> HIDE DEF f
<1>8. Valid(Filled(s, n)) /\ Size(Filled(s, n)) = Size(s)
  BY <1>1, <1>3, <1>5 DEF Valid, Size, mem, g, p
<1>9. InOrder(Filled(s, n), b)
  BY <1>3, <1>6, <1>8 DEF InOrder, mem, g, p
<1>10. QED BY <1>3, <1>5, <1>7, <1>8, <1>9, <1>4

LEMMA OutsideReadsUntil ==
    ASSUME CommonInv, ReadUntilInv, Outside \/ Signalled
    PROVE  ReadUntilInv'
<1>1. SUFFICES ASSUME kind = "read_until" PROVE ReadUntilInv'
  BY NotReadUntil DEF Outside, MovesSome, EndOfFile, Fails, Connected, Refused, CloseSocket,
                      Completes, Signalled, Emit
<1>2. /\ Valid(sb) /\ taken \in Nat /\ inner.n \in Nat /\ asked \in Int
      /\ First \in Nat /\ InOrder(sb, First) /\ Size(sb) + Pending <= MaxSize
      /\ phase = "waiting" => /\ asked > 0 /\ Size(sb) + asked <= MaxSize
                              /\ sb.pnext + asked <= Len(sb.mem)
                              /\ Searching(First, Size(sb), search_position_)
      /\ Size(sb) \in Nat /\ sb.pnext \in Nat /\ Len(sb.mem) \in Nat /\ MaxSize \in Nat
  BY <1>1, DataFacts, ComposedAssumption, SMTT(30) DEF ReadUntilInv, Valid
<1>3. CASE MovesSome
  <2>1. PICK n \in 1 .. asked : Completes(n, "none") /\ taken' = taken + n /\ sb' = Filled(sb, n)
    BY <1>1, <1>3 DEF MovesSome
  <2>2. /\ phase = "waiting" /\ phase' = "queued" /\ inner' = [ec |-> "none", n |-> n]
        /\ UNCHANGED <<kind, condition, asked, search_position_>> /\ n \in Nat /\ n # 0 /\ n <= asked
    BY <1>2, <2>1 DEF Completes
  <2>3. Pending = 0 /\ First + Size(sb) = taken
    BY <1>2, <2>2 DEF Pending, First
  <2>4. /\ Valid(sb') /\ Size(sb') = Size(sb) /\ InOrder(sb', First)
        /\ sb'.pnext + n <= Len(sb'.mem)
        /\ \A i \in 1 .. n : sb'.mem[sb'.pnext + i] = First + Size(sb) + i
    <3>1. sb.pnext + n <= Len(sb.mem) /\ taken = First + Size(sb)
      BY <1>2, <2>2, <2>3
    <3>2. QED BY <1>2, <2>1, <2>2, <3>1, FilledFacts, ZenonT(30)
  <2>5. Pending' = n /\ Committing' = n /\ First' = First /\ taken' \in Nat
    <3>1. Pending' = n /\ Committing' = n
      BY <2>2 DEF Pending, Committing
    <3>2. (taken + n) - n - Size(sb) = taken - 0 - Size(sb)
      BY <1>2, <2>2
    <3>3. QED BY <1>2, <2>1, <2>2, <2>3, <2>4, <3>1, <3>2 DEF First
  <2>6. DataInOrder'
    <3>1. \A i \in 1 .. Size(sb') : taken' - n - Size(sb') + i = First + i
      BY <1>2, <2>1, <2>2, <2>3, <2>4
    <3>2. QED BY <1>2, <2>4, <2>5, <3>1, DataPlaces DEF DataInOrder
  <2>7. ReadUntilTrue'
    BY <2>2, <2>6 DEF ReadUntilTrue
  <2>8. inner' # NoResult /\ inner'.n = n /\ inner'.ec = "none"
    BY <2>2 DEF NoResult
  <2>9. Searching(First', Size(sb'), search_position_')
    BY <1>2, <2>2, <2>4, <2>5
  <2>10. QED BY <1>2, <2>2, <2>4, <2>5, <2>7, <2>8, <2>9 DEF ReadUntilInv
<1>4. CASE EndOfFile \/ Fails \/ Signalled
  <2>1. UNCHANGED <<kind, taken, sb, search_position_, asked, result>>
    BY <1>4 DEF EndOfFile, Fails, Completes, Signalled, Emit, untilVars
  <2>2. CASE phase' = phase /\ inner' = inner
    <3>1. Pending' = Pending /\ Committing' = Committing /\ First' = First
      BY <2>1, <2>2 DEF Pending, Committing, First
    <3>2. ReadUntilTrue'
      <4>1. ReadUntilTrue
        BY <1>1 DEF ReadUntilInv
      <4>2. DataInOrder' = DataInOrder /\ \A n : MatchEnds(n)' = MatchEnds(n)
        BY <2>1, <3>1 DEF DataInOrder, MatchEnds
      <4>3. QED BY <2>1, <2>2, <4>1, <4>2 DEF ReadUntilTrue
    <3>3. QED BY <1>1, <2>1, <2>2, <3>1, <3>2 DEF ReadUntilInv
  <2>3. CASE /\ phase = "waiting" /\ phase' = "queued" /\ inner'.n = 0
             /\ inner'.ec \notin {"none", "not_found"}
    <3>1. Pending = 0 /\ Pending' = 0 /\ Committing' = 0 /\ First' = First /\ First + Size(sb) = taken
      BY <1>2, <2>1, <2>3 DEF Pending, Committing, First
    <3>2. DataInOrder'
      <4>1. \A i \in 1 .. Size(sb) : taken - 0 - Size(sb) + i = First + i
        BY <1>2, <3>1
      <4>2. QED BY <1>2, <2>1, <3>1, <4>1, DataPlaces, ZenonT(30) DEF DataInOrder
    <3>3. ReadUntilTrue'
      BY <2>3, <3>2 DEF ReadUntilTrue
    <3>4. inner' # NoResult /\ sb.pnext + inner'.n <= Len(sb.mem)
      BY <1>2, <2>3 DEF NoResult
    <3>5. QED BY <1>2, <2>1, <2>3, <3>1, <3>3, <3>4 DEF ReadUntilInv
  <2>4. QED BY <1>4, <2>2, <2>3 DEF EndOfFile, Fails, Completes, Signalled, Emit
<1>5. QED BY <1>1, <1>3, <1>4 DEF Outside, Connected, Refused, CloseSocket

-----------------------------------------------------------------------------
(* The theorem.                                                            *)

LEMMA CommonKept ==
    ASSUME CommonInv, ComposedNext
    PROVE  CommonInv'
<1>1. CASE Begin
  <2>1. UNCHANGED kind /\ phase' \in {"waiting", "queued"} /\ \E ec, n : inner' = [ec |-> ec, n |-> n]
    BY <1>1 DEF Begin, BeginReadUntil, BeginTransfer, BeginConnect, Attempt, Issue, NoResult
  <2>2. QED BY <2>1 DEF CommonInv
<1>2. CASE Handle
  <2>1. UNCHANGED kind /\ phase' \in {"waiting", "queued", "ended"} /\ inner' \in {inner, NoResult}
    BY <1>2 DEF Handle, HandleReadUntil, EndReadUntil, HandleTransfer, HandleConnect, Attempt, Issue, End
  <2>2. QED BY <2>1 DEF CommonInv, NoResult
<1>3. CASE Outside \/ Signalled
  <2>1. /\ UNCHANGED kind
        /\ \/ UNCHANGED <<phase, inner>>
           \/ phase' = "queued" /\ \E ec, n : inner' = [ec |-> ec, n |-> n]
    BY <1>3 DEF Outside, MovesSome, EndOfFile, Fails, Connected, Refused, CloseSocket, Completes,
                Signalled, Emit
  <2>2. QED BY <2>1 DEF CommonInv
<1>4. QED BY <1>1, <1>2, <1>3 DEF ComposedNext

\* Before it begins: nothing has gone through the stream yet but what is left over.
LEMMA InitiallyTrue ==
    ASSUME ComposedInit
    PROVE  ComposedInv
<1>1. CommonInv
  BY DEF ComposedInit, CommonInv, NoResult
<1>2. ConnectInv
  BY ComposedAssumption DEF ComposedInit, ConnectInv, ConnectTrue
<1>3. TransferInv
  <2>1. SUFFICES ASSUME kind \in {"read", "write"} PROVE TransferInv
    BY DEF TransferInv
  <2>2. /\ condition \in Conditions /\ taken = 0 /\ moved = <<>> /\ phase = "initial" /\ asked = 0
        /\ inner = NoResult /\ next = [elem |-> 1, offset |-> 0, total |-> 0]
    BY <2>1 DEF ComposedInit
  <2>3. Len(Ends) \in Nat /\ Total \in Nat /\ Limit \in Nat /\ condition.size \in Nat
    BY <2>2, LimitFacts, EndsFacts, ComposedAssumption
  <2>4. NextOK(next)
    <3>1. Ends = <<>> => Total = 0
      BY DEF Total
    <3>2. Len(Ends) = 0 => Ends = <<>>
      BY ComposedAssumption, EmptySeq
    <3>3. Len(Ends) >= 1 => Ends[1] \in Nat
      BY <2>3, ComposedAssumption
    <3>4. QED BY <2>2, <2>3, <3>1, <3>2, <3>3 DEF NextOK, Position, StartOf
  <2>5. moved = [i \in 1 .. taken |-> i]
    BY <2>2
  <2>6. TransferTrue
    BY <2>2, <2>3, <2>5 DEF TransferTrue
  <2>7. QED BY <2>2, <2>3, <2>4, <2>5, <2>6 DEF TransferInv, Pending, NoResult
<1>4. ReadUntilInv
  <2>1. SUFFICES ASSUME kind = "read_until" PROVE ReadUntilInv
    BY DEF ReadUntilInv
  <2>2. PICK l \in Leftovers :
          /\ taken = l.consumed + l.size
          /\ sb = [mem |-> [i \in 1 .. Larger(taken, Smaller(MaxSize, BufferDelta)) |->
                             IF i <= taken THEN i ELSE 0],
                   gnext |-> l.consumed, pnext |-> taken]
    BY <2>1 DEF ComposedInit
  <2>3. phase = "initial" /\ asked = 0 /\ inner = NoResult /\ search_position_ = 0
    BY DEF ComposedInit
  <2>4. /\ l.consumed \in Nat /\ l.size \in Nat /\ taken \in Nat
        /\ taken <= MaxSize /\ MaxSize \in Nat /\ BufferDelta \in Nat
    BY <2>2, ComposedAssumption
  <2> DEFINE k == Larger(taken, Smaller(MaxSize, BufferDelta))
             mem == [i \in 1 .. k |-> IF i <= taken THEN i ELSE 0]
  <2>5. k \in Nat /\ taken <= k
    BY <2>4 DEF Larger, Smaller
  <2>6. sb = [mem |-> mem, gnext |-> l.consumed, pnext |-> taken]
    BY <2>2
  <2> HIDE DEF k
  <2>7. mem \in Seq(Nat) /\ Len(mem) = k /\ \A i \in 1 .. taken : mem[i] = i
    BY <2>4, <2>5
  <2> HIDE DEF mem
  <2>8. Valid(sb) /\ Size(sb) = l.size
    <3> DEFINE c == l.consumed
    <3>1. c \in Nat /\ l.size \in Nat /\ taken = c + l.size
      BY <2>2, <2>4
    <3>2. sb.mem = mem /\ sb.gnext = c /\ sb.pnext = taken
      BY <2>6
    <3>3. sb = [mem |-> mem, gnext |-> c, pnext |-> taken]
      BY <2>6
    <3> HIDE DEF c
    <3>4. sb \in [mem : Seq(Nat), gnext : Nat, pnext : Nat]
      BY <2>4, <2>7, <3>1, <3>3
    <3>5. c <= taken /\ taken <= Len(mem) /\ taken - c = l.size
      BY <2>4, <2>5, <2>7, <3>1
    <3>6. QED BY <3>2, <3>4, <3>5 DEF Valid, Size
  <2>9. Pending = 0 /\ Committing = 0 /\ First = l.consumed
    BY <2>2, <2>3, <2>4, <2>8 DEF Pending, Committing, First
  <2>10. InOrder(sb, First)
    <3>1. \A i \in 1 .. l.size : l.consumed + i \in 1 .. taken
      BY <2>2, <2>4
    <3>2. sb.mem = mem /\ sb.gnext = l.consumed
      BY <2>6
    <3>3. QED BY <2>7, <2>8, <2>9, <3>1, <3>2 DEF InOrder
  <2>11. ReadUntilTrue
    <3>1. \A i \in 1 .. Size(sb) : taken - 0 - Size(sb) + i = First + i
      BY <2>2, <2>4, <2>8, <2>9
    <3>2. DataInOrder
      BY <2>4, <2>8, <2>9, <2>10, <3>1, DataPlaces DEF DataInOrder
    <3>3. QED BY <2>3, <3>2 DEF ReadUntilTrue
  <2>12. QED BY <2>2, <2>3, <2>4, <2>8, <2>9, <2>10, <2>11 DEF ReadUntilInv, NoResult
<1>5. QED BY <1>1, <1>2, <1>3, <1>4 DEF ComposedInv

\* Every step of the operation, of its stream or of the program keeps the invariant.
LEMMA StepsTrue ==
    ASSUME ComposedInv, [ComposedNext]_opVars
    PROVE  ComposedInv'
<1>1. CASE ComposedNext
  <2>1. CommonInv'
    BY <1>1, CommonKept DEF ComposedInv
  <2>2. ConnectInv'
    BY <1>1, BeginConnects, HandlerConnects, OutsideConnects DEF ComposedInv, ComposedNext
  <2>3. TransferInv'
    BY <1>1, BeginTransfers, HandlerTransfers, OutsideTransfers DEF ComposedInv, ComposedNext
  <2>4. ReadUntilInv'
    BY <1>1, BeginReadsUntil, HandlerReadsUntil, OutsideReadsUntil DEF ComposedInv, ComposedNext
  <2>5. QED BY <2>1, <2>2, <2>3, <2>4 DEF ComposedInv
<1>2. CASE UNCHANGED opVars
  <2>1. UNCHANGED <<kind, condition, phase, inner, asked, taken, sb, search_position_, next, moved,
                    index_, open, refused, cancelled_, result>>
    BY <1>2 DEF opVars, streamVars, untilVars, transferVars, connectVars
  <2>2. CommonInv' /\ ConnectInv'
    BY <2>1 DEF ComposedInv, CommonInv, ConnectInv, Trying, ConnectTrue
  <2>3. TransferInv'
    BY <2>1 DEF ComposedInv, TransferInv, NextOK, Position, Pending, Limit, Enough, TransferTrue
  <2>4. ReadUntilInv'
    BY <2>1 DEF ComposedInv, ReadUntilInv, First, Pending, ReadUntilTrue, DataInOrder, Committing, MatchEnds
  <2>5. QED BY <2>2, <2>3, <2>4 DEF ComposedInv
<1>3. QED BY <1>1, <1>2

\* However the stream cuts the bytes into pieces and whenever a failure, a close or a
\* cancellation meets it, async_read_until ends at the first delimiter and keeps what it
\* has read, async_read and async_write move every byte once, in order and as many as the
\* condition demands, and async_connect connects to the first endpoint that has not refused.
THEOREM ComposedResults == ComposedSpec => []ComposedTrue
<1>1. ComposedInit => ComposedInv
  BY InitiallyTrue
<1>2. ComposedInv /\ [ComposedNext]_opVars => ComposedInv'
  BY StepsTrue
<1>3. ComposedInv => ComposedTrue
  BY DEF ComposedInv, ComposedTrue, ConnectInv, ConnectTrue, TransferInv, TransferTrue,
         ReadUntilInv, ReadUntilTrue
<1>4. QED BY <1>1, <1>2, <1>3, PTL DEF ComposedSpec

-----------------------------------------------------------------------------
(* In a parallel group.  Every step of the composition is one of the       *)
(* group, whose theorems then hold.  It is one of the operation as well,   *)
(* because the group signals nobody twice: no signal erases what an        *)
(* earlier one has left in the operation's cancellation_state.             *)

\* The composed operation is one of the group's.
LEMMA MeInOps == Me \in Ops
BY GroupAssumption DEF Me, Ops, GroupAssumption

\* What the composition does is, as far as the group goes, what the group does.
LEMMA GroupStep == [NextComposed]_<<vars, opVars>> => [Next]_vars
<1>1. SUFFICES ASSUME NextComposed PROVE Next \/ UNCHANGED vars
  OBVIOUS
<1>2. CASE LaunchMe \/ FinishMe
  BY <1>2, MeInOps DEF LaunchMe, FinishMe, Next
<1>3. CASE \E i \in Ops : SignalsMe(Emits(i)) \/ SignalsMe(Deliver(i))
  BY <1>3 DEF SignalsMe, Next
<1>4. CASE /\ \/ \E i \in Ops \ {Me} : Launch(i) \/ Complete(i)
              \/ \E i \in Ops : OpStep(i)
              \/ Check \/ Register \/ \E type \in Types : CancelGroup(type)
           /\ UNCHANGED opVars
  BY <1>4 DEF Next
<1>5. CASE ContinueMe \/ (Outside /\ UNCHANGED vars)
  BY <1>5 DEF ContinueMe
<1>6. QED BY <1>1, <1>2, <1>3, <1>4, <1>5 DEF NextComposed

\* So the group keeps its promises whatever one of its operations is.
LEMMA GroupImplemented == SpecComposed => Spec
<1>1. InitComposed => Init
  BY DEF InitComposed
<1>2. QED BY <1>1, GroupStep, PTL DEF SpecComposed, Spec

\* What reaches an operation's slot stays a signal it has had.
LEMMA SignalsGrow ==
    ASSUME TypeOK, [Next]_vars, NEW j \in Ops
    PROVE  \/ signals'[j] = signals[j]
           \/ Len(signals'[j]) = Len(signals[j]) + 1 /\ Len(signals[j]) \in Nat
<1>1. signals \in [Ops -> Seq(Types)]
  BY DEF TypeOK
<1>2. CASE UNCHANGED signals
  BY <1>2
<1>3. ASSUME NEW i \in Ops, NEW type, signals' = Reach(signals, i, type)
      PROVE  \/ signals'[j] = signals[j]
             \/ Len(signals'[j]) = Len(signals[j]) + 1 /\ Len(signals[j]) \in Nat
  <2>1. CASE i # j
    BY <1>1, <1>3, <2>1 DEF Reach
  <2>2. CASE i = j
    <3>1. signals'[j] = Append(signals[j], type) /\ signals[j] \in Seq(Types)
      BY <1>1, <1>3, <2>2 DEF Reach
    <3>2. QED BY <3>1
  <2>3. QED BY <2>1, <2>2
<1>4. ASSUME NEW i \in Ops, Emits(i)
      PROVE  UNCHANGED signals \/ \E type : signals' = Reach(signals, i, type)
  BY <1>4 DEF Emits, LauncherEmits, UserEmits, OpEmits, EmitNext
<1>5. ASSUME NEW i \in Ops, Deliver(i)
      PROVE  \E type : signals' = Reach(signals, i, type)
  BY <1>5 DEF Deliver
<1>6. CASE \E i \in Ops : Emits(i) \/ Deliver(i)
  BY <1>2, <1>3, <1>4, <1>5, <1>6
<1>7. CASE \E i \in Ops : Launch(i) \/ Complete(i) \/ OpStep(i)
  <2>1. UNCHANGED signals
    BY <1>7 DEF Launch, Complete, OpStep, Capture, SaveType, Request, Finish, emission
  <2>2. QED BY <1>2, <2>1
<1>8. CASE Check \/ Register \/ \E type \in Types : CancelGroup(type)
  <2>1. UNCHANGED signals
    BY <1>8 DEF Check, Register, CancelGroup, emission
  <2>2. QED BY <1>2, <2>1
<1>9. CASE UNCHANGED vars
  BY <1>2, <1>9 DEF vars, emission
<1>10. QED BY <1>6, <1>7, <1>8, <1>9 DEF Next

\* An operation that remembers a cancellation has been signalled.
CancelledBySignal == cancelled_ # "none" => signals[Me] # <<>>

\* Nothing but a signal leaves something in cancelled_, and nobody signals twice: a step of
\* the composition is one of the operation.
LEMMA OperationStep ==
    ASSUME SignalledOnce, SignalledOnce', CancelledBySignal, [NextComposed]_<<vars, opVars>>
    PROVE  [ComposedNext]_opVars /\ CancelledBySignal'
<1>1. Me \in Ops /\ TypeOK /\ TypeOK' /\ [Next]_vars
  BY MeInOps, GroupStep DEF SignalledOnce
<1>2. /\ signals[Me] \in Seq(Types) /\ signals'[Me] \in Seq(Types)
      /\ dispatched'[Me] \in Seq(Types) /\ Len(signals'[Me]) + Len(dispatched'[Me]) <= 1
  BY <1>1 DEF TypeOK, SignalledOnce
<1>3. \/ signals'[Me] = signals[Me]
      \/ signals[Me] = <<>> /\ Len(signals'[Me]) = 1
  <2>1. /\ Len(signals[Me]) \in Nat /\ Len(signals'[Me]) \in Nat /\ Len(dispatched'[Me]) \in Nat
        /\ Len(signals[Me]) = 0 => signals[Me] = <<>>
    <3>1. \A s \in Seq(Types) : Len(s) \in Nat /\ (Len(s) = 0 => s = <<>>)
      BY EmptySeq
    <3>2. QED BY <1>2, <3>1
  <2>2. \/ signals'[Me] = signals[Me]
        \/ Len(signals'[Me]) = Len(signals[Me]) + 1
    BY <1>1, SignalsGrow
  <2>3. \A a, b, c \in Nat : b = a + 1 /\ b + c <= 1 => a = 0 /\ b = 1
    OBVIOUS
  <2>4. \/ signals'[Me] = signals[Me]
        \/ Len(signals[Me]) = 0 /\ Len(signals'[Me]) = 1
    BY <1>2, <2>1, <2>2, <2>3
  <2>5. QED BY <2>1, <2>4
<1>4. signals'[Me] # signals[Me] => signals'[Me] # <<>> /\ signals'[Me][Len(signals'[Me])] \in Types
  BY <1>2, <1>3
<1>5. ASSUME UNCHANGED cancelled_ PROVE CancelledBySignal'
  BY <1>3, <1>4, <1>5 DEF CancelledBySignal
<1>6. CASE LaunchMe \/ FinishMe \/ ContinueMe
  <2>1. Begin \/ Handle
    BY <1>6 DEF LaunchMe, FinishMe, ContinueMe, Finishes, Continues
  <2>2. UNCHANGED cancelled_
    BY <2>1 DEF Begin, Handle
  <2>3. QED BY <1>5, <2>1, <2>2 DEF ComposedNext
<1>7. CASE Outside
  <2>1. UNCHANGED cancelled_
    BY <1>7 DEF Outside, MovesSome, EndOfFile, Fails, Connected, Refused, CloseSocket, Completes
  <2>2. QED BY <1>5, <1>7, <2>1 DEF ComposedNext
<1>8. CASE \E i \in Ops : SignalsMe(Emits(i)) \/ SignalsMe(Deliver(i))
  <2>1. \/ UNCHANGED opVars
        \/ signals'[Me] # signals[Me] /\ Emit(signals'[Me][Len(signals'[Me])])
    BY <1>8 DEF SignalsMe
  <2>2. CASE UNCHANGED opVars
    BY <1>5, <2>2 DEF opVars
  <2>3. CASE signals'[Me] # signals[Me] /\ Emit(signals'[Me][Len(signals'[Me])])
    <3>1. cancelled_ = "none"
      BY <1>3, <2>3 DEF CancelledBySignal
    <3>2. Signalled
      BY <1>4, <2>3, <3>1, ComposedGroupAssumption DEF Signalled
    <3>3. CancelledBySignal'
      BY <1>4, <2>3 DEF CancelledBySignal
    <3>4. QED BY <3>2, <3>3 DEF ComposedNext
  <2>4. QED BY <2>1, <2>2, <2>3
<1>9. CASE UNCHANGED opVars
  BY <1>5, <1>9 DEF opVars
<1>10. QED BY <1>6, <1>7, <1>8, <1>9 DEF NextComposed

\* A composed operation in a group, on whatever executors, with requests for cancellation from
\* the other operations and from the program at any time: the group's handler is called once
\* and with every result, nobody is signalled twice, and what the operation reports is true.
THEOREM ComposedInGroup == SpecComposed => [](CalledWhenComplete /\ SignalledOnce /\ ComposedTrue)
<1>1. SpecComposed => []CalledWhenComplete /\ []SignalledOnce
  BY GroupImplemented, HandlerCalledOnce, NobodySignalledTwice, PTL
<1>2. InitComposed => ComposedInv /\ CancelledBySignal
  <2>1. InitComposed => ComposedInv
    BY InitiallyTrue DEF InitComposed
  <2>2. InitComposed => CancelledBySignal
    BY DEF InitComposed, ComposedInit, CancelledBySignal
  <2>3. QED BY <2>1, <2>2
<1>3. /\ ComposedInv /\ CancelledBySignal
      /\ SignalledOnce /\ SignalledOnce' /\ [NextComposed]_<<vars, opVars>>
      => (ComposedInv /\ CancelledBySignal)'
  BY OperationStep, StepsTrue
<1>4. ComposedInv => ComposedTrue
  BY DEF ComposedInv, ComposedTrue, ConnectInv, ConnectTrue, TransferInv, TransferTrue,
         ReadUntilInv, ReadUntilTrue
<1>5. QED BY <1>1, <1>2, <1>3, <1>4, PTL DEF SpecComposed
=============================================================================
