---------------------------- MODULE ServiceProofs ---------------------------
(***************************************************************************)
(* Strands.  For every number of threads, strands and handlers and every  *)
(* depth of nested calls: a strand that is locked is held by exactly one   *)
(* frame or by one invoker that its executor has accepted, and nothing is  *)
(* queued on a strand that is not.                                         *)
(*                                                                         *)
(* LockedByOne is not inductive by itself: which steps release the strand  *)
(* depends on the frame on top of a stack, and FramesOK says which frames  *)
(* there can be.                                                           *)
(*                                                                         *)
(* And a strand keeps the promise of SerialExecutor.  That it has one      *)
(* holder is not enough: a step of the strand is one of the promise        *)
(* because of what the stacks look like below their top (a handler         *)
(* dispatched in place lies above the one that dispatches it, so on the    *)
(* same thread), because the ready queue is empty while the handler that   *)
(* took the lock is on its way to it, and because handlers are numbered in *)
(* the order of their submission.                                          *)
(*                                                                         *)
(* The second part is about signal sets.  For any number of services,      *)
(* sets, signals and waits: the counts shared by the services of the       *)
(* process are exact, no operation waits for a signal that was kept for    *)
(* it, and, as long as no two services are alive when the process forks, a *)
(* running service watches an open pipe.                                   *)
(***************************************************************************)
EXTENDS Strand, SignalSet, OpQueueTheorems

USE ConstantsAssumption DEF ConstantsAssumption

\* A frame nested in another one of its strand only runs its handler, and whoever is
\* about to push a handler or runs one has one.
FrameOK(f) ==
    /\ f.kind = "nested" => f.pc = "handler"
    /\ f.pc \in {"push", "handler"} => f.h \in Handlers
FramesOK ==
    \A t \in Threads :
        Len(stack[t]) <= MaxDepth /\ \A i \in 1 .. Len(stack[t]) : FrameOK(stack[t][i])

\* LockedByOne for one strand.
InUse(s) == \E t \in Threads : \E i \in Nat : Holds(t, i, s)
OneHolder(s) ==
    \A t, u \in Threads : \A i, j \in Nat : Holds(t, i, s) /\ Holds(u, j, s) => t = u /\ i = j
StrandOK(s) ==
    /\ OneHolder(s) /\ submitted[s] <= 1 /\ (InUse(s) => submitted[s] = 0)
    /\ locked_[s] <=> (InUse(s) \/ submitted[s] = 1)
    /\ MoreHandlers(s) => locked_[s]

IInv == TypeOK /\ FramesOK /\ (~shutdown_ => \A s \in Strands : StrandOK(s))

-----------------------------------------------------------------------------
(* Stacks.                                                                 *)

LEMMA SeqPush ==
  ASSUME NEW S, NEW q \in Seq(S), NEW x \in S
  PROVE  /\ Append(q, x) \in Seq(S) /\ Len(q) \in Nat /\ Len(Append(q, x)) = Len(q) + 1
         /\ Append(q, x)[Len(q) + 1] = x /\ \A i \in 1 .. Len(q) : Append(q, x)[i] = q[i]
OBVIOUS

LEMMA SeqPop ==
  ASSUME NEW S, NEW q \in Seq(S), q # <<>>
  PROVE  /\ SubSeq(q, 1, Len(q) - 1) \in Seq(S) /\ Len(q) \in Nat \ {0}
         /\ Len(SubSeq(q, 1, Len(q) - 1)) = Len(q) - 1
         /\ \A i \in 1 .. Len(q) - 1 : SubSeq(q, 1, Len(q) - 1)[i] = q[i]
<1>1. Len(q) \in Nat \ {0} /\ \A i \in 1 .. Len(q) - 1 : q[i] \in S
  OBVIOUS
<1> DEFINE n == Len(q) - 1
           r == SubSeq(q, 1, n)
<1>2. /\ r \in Seq(S) /\ Len(r) = (IF 1 <= n THEN n - 1 + 1 ELSE 0)
      /\ \A i \in 1 .. n - 1 + 1 : r[i] = q[1 + i - 1]
  <2>1. n \in Int /\ 1 \in Int
    BY <1>1
  <2> HIDE DEF n
  <2>2. \A i \in 1 .. n : q[i] \in S
    BY <1>1 DEF n
  <2> QED
    BY <2>1, <2>2, SubSeqProperties
<1>3. n \in Nat
  BY <1>1
<1> HIDE DEF n, r
<1>4. Len(r) = n /\ \A i \in 1 .. n : r[i] = q[i]
  <2>1. n - 1 + 1 = n /\ \A i \in 1 .. n : 1 + i - 1 = i
    BY <1>3
  <2> QED
    BY <1>2, <1>3, <2>1
<1> QED
  BY <1>1, <1>2, <1>4 DEF n, r

LEMMA SeqMove ==
  ASSUME NEW S, NEW q \in Seq(S), q # <<>>, NEW x \in S
  PROVE  LET r == [q EXCEPT ![Len(q)] = x]
         IN  /\ r \in Seq(S) /\ Len(q) \in Nat \ {0} /\ Len(r) = Len(q) /\ r[Len(q)] = x
             /\ \A i \in 1 .. Len(q) - 1 : r[i] = q[i]
OBVIOUS

\* What a stack holds after a frame has been pushed ...
LEMMA PushFacts ==
  ASSUME TypeOK, NEW t \in Threads, NEW f \in Frames, stack' = Pushed(t, f)
  PROVE  /\ stack' \in [Threads -> Seq(Frames)] /\ Len(stack[t]) \in Nat
         /\ \A u \in Threads \ {t} : stack'[u] = stack[u]
         /\ Len(stack'[t]) = Len(stack[t]) + 1 /\ stack'[t][Len(stack[t]) + 1] = f
         /\ \A i \in 1 .. Len(stack[t]) : stack'[t][i] = stack[t][i]
<1>1. stack[t] \in Seq(Frames) /\ stack \in [Threads -> Seq(Frames)]
  BY DEF TypeOK
<1>2. stack' = [stack EXCEPT ![t] = Append(stack[t], f)]
  BY DEF Pushed
<1>3. Append(stack[t], f) \in Seq(Frames)
  BY <1>1, SeqPush
<1>4. stack'[t] = Append(stack[t], f) /\ \A u \in Threads \ {t} : stack'[u] = stack[u]
  BY <1>1, <1>2
<1>5. stack' \in [Threads -> Seq(Frames)]
  BY <1>1, <1>2, <1>3
<1> QED
  BY <1>1, <1>4, <1>5, SeqPush

\* ... popped ...
LEMMA PopFacts ==
  ASSUME TypeOK, NEW t \in Threads, stack[t] # <<>>, stack' = Popped(t)
  PROVE  /\ stack' \in [Threads -> Seq(Frames)] /\ Len(stack[t]) \in Nat \ {0} /\ Top(t) \in Frames
         /\ \A u \in Threads \ {t} : stack'[u] = stack[u]
         /\ Len(stack'[t]) = Len(stack[t]) - 1
         /\ \A i \in 1 .. Len(stack[t]) - 1 : stack'[t][i] = stack[t][i]
<1>1. stack[t] \in Seq(Frames) /\ stack \in [Threads -> Seq(Frames)]
  BY DEF TypeOK
<1> DEFINE q == SubSeq(stack[t], 1, Len(stack[t]) - 1)
<1>2. stack' = [stack EXCEPT ![t] = q]
  BY DEF Popped
<1>3. /\ q \in Seq(Frames) /\ Len(stack[t]) \in Nat \ {0} /\ Len(q) = Len(stack[t]) - 1
      /\ \A i \in 1 .. Len(stack[t]) - 1 : q[i] = stack[t][i]
  BY <1>1, SeqPop
<1> HIDE DEF q
<1>4. stack'[t] = q /\ \A u \in Threads \ {t} : stack'[u] = stack[u]
  BY <1>1, <1>2
<1>5. stack' \in [Threads -> Seq(Frames)] /\ Top(t) \in Frames
  BY <1>1, <1>2, <1>3 DEF Top
<1> QED
  BY <1>3, <1>4, <1>5

\* ... or its top has gone on.
LEMMA MoveFacts ==
  ASSUME TypeOK, NEW t \in Threads, stack[t] # <<>>, NEW f \in Frames,
         stack' = [stack EXCEPT ![t][Len(stack[t])] = f]
  PROVE  /\ stack' \in [Threads -> Seq(Frames)] /\ Len(stack[t]) \in Nat \ {0}
         /\ \A u \in Threads \ {t} : stack'[u] = stack[u]
         /\ Len(stack'[t]) = Len(stack[t]) /\ stack'[t][Len(stack[t])] = f
         /\ \A i \in 1 .. Len(stack[t]) - 1 : stack'[t][i] = stack[t][i]
<1>1. stack[t] \in Seq(Frames) /\ stack \in [Threads -> Seq(Frames)]
  BY DEF TypeOK
<1> DEFINE q == [stack[t] EXCEPT ![Len(stack[t])] = f]
<1>2. stack' = [stack EXCEPT ![t] = q]
  OBVIOUS
<1>3. /\ q \in Seq(Frames) /\ Len(stack[t]) \in Nat \ {0} /\ Len(q) = Len(stack[t])
      /\ q[Len(stack[t])] = f /\ \A i \in 1 .. Len(stack[t]) - 1 : q[i] = stack[t][i]
  BY <1>1, SeqMove
<1> HIDE DEF q
<1>4. stack'[t] = q /\ \A u \in Threads \ {t} : stack'[u] = stack[u]
  BY <1>1, <1>2
<1>5. stack' \in [Threads -> Seq(Frames)]
  BY <1>1, <1>2, <1>3
<1> QED
  BY <1>3, <1>4, <1>5

\* Who holds which strand afterwards.
LEMMA PushHolds ==
  ASSUME TypeOK, FramesOK, NEW t \in Threads, NEW f \in Frames, FrameOK(f), stack' = Pushed(t, f),
         Len(stack[t]) < MaxDepth
  PROVE  /\ stack' \in [Threads -> Seq(Frames)] /\ FramesOK' /\ Len(stack[t]) \in Nat
         /\ \A s \in Strands, u \in Threads, i \in Nat :
              Holds(u, i, s)' <=> \/ Holds(u, i, s)
                                  \/ u = t /\ i = Len(stack[t]) + 1 /\ f.s = s /\ f.kind # "nested"
<1> DEFINE n == Len(stack[t])
<1>1. /\ stack' \in [Threads -> Seq(Frames)] /\ n \in Nat
      /\ \A u \in Threads \ {t} : stack'[u] = stack[u]
      /\ Len(stack'[t]) = n + 1 /\ stack'[t][n + 1] = f
      /\ \A i \in 1 .. n : stack'[t][i] = stack[t][i]
  BY PushFacts
<1> HIDE DEF n
<1>2. n < MaxDepth /\ n = Len(stack[t])
  BY DEF n
<1>3. FramesOK'
  <2> SUFFICES ASSUME NEW u \in Threads
               PROVE  Len(stack'[u]) <= MaxDepth /\ \A i \in 1 .. Len(stack'[u]) : FrameOK(stack'[u][i])
    BY DEF FramesOK, FrameOK
  <2>1. CASE u # t
    BY <1>1, <2>1 DEF FramesOK
  <2>2. CASE u = t
    BY <1>1, <1>2, <2>2, SMTT(30) DEF FramesOK
  <2> QED
    BY <2>1, <2>2
<1>4. ASSUME NEW s \in Strands, NEW u \in Threads, NEW i \in Nat
      PROVE  Holds(u, i, s)' <=> \/ Holds(u, i, s)
                                 \/ u = t /\ i = n + 1 /\ f.s = s /\ f.kind # "nested"
  <2>1. CASE u # t
    BY <1>1, <2>1 DEF Holds
  <2>2. CASE u = t
    BY <1>1, <1>2, <2>2 DEF Holds
  <2> QED
    BY <2>1, <2>2
<1> QED
  BY <1>1, <1>2, <1>3, <1>4

LEMMA PopHolds ==
  ASSUME TypeOK, FramesOK, NEW t \in Threads, stack[t] # <<>>, stack' = Popped(t)
  PROVE  /\ stack' \in [Threads -> Seq(Frames)] /\ FramesOK' /\ Len(stack[t]) \in Nat
         /\ \A s \in Strands, u \in Threads, i \in Nat :
              Holds(u, i, s)' <=> Holds(u, i, s) /\ ~(u = t /\ i = Len(stack[t]))
<1> DEFINE n == Len(stack[t])
<1>1. /\ stack' \in [Threads -> Seq(Frames)] /\ n \in Nat \ {0}
      /\ \A u \in Threads \ {t} : stack'[u] = stack[u]
      /\ Len(stack'[t]) = n - 1 /\ \A i \in 1 .. n - 1 : stack'[t][i] = stack[t][i]
  BY PopFacts
<1> HIDE DEF n
<1>2. n = Len(stack[t]) /\ n <= MaxDepth
  BY DEF n, FramesOK
<1>3. FramesOK'
  <2> SUFFICES ASSUME NEW u \in Threads
               PROVE  Len(stack'[u]) <= MaxDepth /\ \A i \in 1 .. Len(stack'[u]) : FrameOK(stack'[u][i])
    BY DEF FramesOK, FrameOK
  <2>1. CASE u # t
    BY <1>1, <2>1 DEF FramesOK
  <2>2. CASE u = t
    BY <1>1, <1>2, <2>2 DEF FramesOK
  <2> QED
    BY <2>1, <2>2
<1>4. ASSUME NEW s \in Strands, NEW u \in Threads, NEW i \in Nat
      PROVE  Holds(u, i, s)' <=> Holds(u, i, s) /\ ~(u = t /\ i = n)
  <2>1. CASE u # t
    BY <1>1, <2>1 DEF Holds
  <2>2. CASE u = t
    BY <1>1, <1>2, <2>2, SMTT(30) DEF Holds
  <2> QED
    BY <2>1, <2>2
<1> QED
  BY <1>1, <1>2, <1>3, <1>4

LEMMA MoveHolds ==
  ASSUME TypeOK, FramesOK, NEW t \in Threads, stack[t] # <<>>, NEW f \in Frames, FrameOK(f),
         stack' = [stack EXCEPT ![t][Len(stack[t])] = f],
         f.s = Top(t).s, f.kind = "nested" <=> Top(t).kind = "nested"
  PROVE  /\ stack' \in [Threads -> Seq(Frames)] /\ FramesOK'
         /\ \A s \in Strands, u \in Threads, i \in Nat : Holds(u, i, s)' <=> Holds(u, i, s)
<1> DEFINE n == Len(stack[t])
<1>1. /\ stack' \in [Threads -> Seq(Frames)] /\ n \in Nat \ {0}
      /\ \A u \in Threads \ {t} : stack'[u] = stack[u]
      /\ Len(stack'[t]) = n /\ stack'[t][n] = f
      /\ \A i \in 1 .. n - 1 : stack'[t][i] = stack[t][i]
  BY MoveFacts
<1> HIDE DEF n
<1>2. n = Len(stack[t]) /\ n <= MaxDepth /\ Top(t) = stack[t][n]
  BY DEF n, FramesOK, Top
<1>3. \A i \in 1 .. n : i = n \/ i \in 1 .. n - 1
  BY <1>1
<1>4. FramesOK'
  <2> SUFFICES ASSUME NEW u \in Threads
               PROVE  Len(stack'[u]) <= MaxDepth /\ \A i \in 1 .. Len(stack'[u]) : FrameOK(stack'[u][i])
    BY DEF FramesOK, FrameOK
  <2>1. CASE u # t
    BY <1>1, <2>1 DEF FramesOK
  <2>2. CASE u = t
    BY <1>1, <1>2, <1>3, <2>2 DEF FramesOK
  <2> QED
    BY <2>1, <2>2
<1>5. ASSUME NEW s \in Strands, NEW u \in Threads, NEW i \in Nat
      PROVE  Holds(u, i, s)' <=> Holds(u, i, s)
  <2>1. CASE u # t
    BY <1>1, <2>1 DEF Holds
  <2>2. CASE u = t
    BY <1>1, <1>2, <1>3, <2>2 DEF Holds
  <2> QED
    BY <2>1, <2>2
<1> QED
  BY <1>1, <1>4, <1>5

-----------------------------------------------------------------------------
(* The steps.                                                              *)

LEMMA InitInv == Init => IInv
<1> SUFFICES ASSUME Init PROVE IInv
  OBVIOUS
<1>1. TypeOK
  <2>1. <<>> \in Seq(Handlers) /\ <<>> \in Seq(Frames)
    OBVIOUS
  <2>2. waiting_queue_ \in [Strands -> Seq(Handlers)] /\ ready_queue_ \in [Strands -> Seq(Handlers)]
    BY <2>1 DEF Init
  <2>3. stack \in [Threads -> Seq(Frames)]
    BY <2>1 DEF Init
  <2>4. locked_ \in [Strands -> BOOLEAN] /\ shutdown_ \in BOOLEAN
    BY DEF Init
  <2>5. submitted \in [Strands -> Nat] /\ issued \in 0 .. MaxHandlers
    BY DEF Init
  <2>6. done \subseteq Handlers /\ destroyed \subseteq Handlers
    BY DEF Init
  <2> QED
    BY <2>2, <2>3, <2>4, <2>5, <2>6 DEF TypeOK
<1>2. \A t \in Threads : stack[t] = <<>> /\ Len(stack[t]) = 0
  BY DEF Init
<1>3. FramesOK
  BY <1>2 DEF FramesOK
<1>4. \A s \in Strands, t \in Threads, i \in Nat : ~Holds(t, i, s)
  BY <1>2 DEF Holds
<1>5. \A s \in Strands : StrandOK(s)
  BY <1>4 DEF StrandOK, InUse, OneHolder, Init, MoreHandlers
<1> QED
  BY <1>1, <1>3, <1>5 DEF IInv

\* A strand whose variables and holders are as before, or that has only got more waiting
\* handlers while it is locked.
Unmoved(s) ==
    /\ locked_'[s] = locked_[s] /\ submitted'[s] = submitted[s]
    /\ \A t \in Threads, i \in Nat : Holds(t, i, s)' <=> Holds(t, i, s)
LEMMA StaysOK ==
  ASSUME NEW s \in Strands, StrandOK(s), Unmoved(s), locked_[s] \/ (MoreHandlers(s)' => MoreHandlers(s))
  PROVE  StrandOK(s)'
<1>1. InUse(s)' <=> InUse(s)
  BY DEF Unmoved, InUse
<1>2. OneHolder(s)'
  BY DEF Unmoved, OneHolder, StrandOK
<1> QED
  BY <1>1, <1>2 DEF Unmoved, StrandOK

\* A frame or an invoker takes an unused strand.
LEMMA Taken ==
  ASSUME NEW s \in Strands, NEW t \in Threads, NEW n \in Nat, ~InUse(s), locked_'[s], submitted'[s] = 0,
         \A u \in Threads, i \in Nat : Holds(u, i, s)' <=> Holds(u, i, s) \/ (u = t /\ i = n)
  PROVE  StrandOK(s)'
<1>1. \A u \in Threads, i \in Nat : Holds(u, i, s)' <=> (u = t /\ i = n)
  BY DEF InUse
<1>2. OneHolder(s)' /\ InUse(s)'
  BY <1>1 DEF OneHolder, InUse
<1> QED
  BY <1>2 DEF StrandOK

\* The only frame that holds it leaves the strand to an invoker, or to nobody.
LEMMA Left ==
  ASSUME NEW s \in Strands, StrandOK(s), NEW t \in Threads, NEW n \in Nat, Holds(t, n, s),
         \A u \in Threads, i \in Nat : Holds(u, i, s)' <=> Holds(u, i, s) /\ ~(u = t /\ i = n),
         submitted'[s] \in {0, 1}, locked_'[s] <=> submitted'[s] = 1,
         MoreHandlers(s)' => locked_'[s]
  PROVE  StrandOK(s)'
<1>1. \A u \in Threads, i \in Nat : ~Holds(u, i, s)'
  BY DEF StrandOK, OneHolder
<1>2. OneHolder(s)' /\ ~InUse(s)'
  BY <1>1 DEF OneHolder, InUse
<1> QED
  BY <1>2 DEF StrandOK

\* The top of a stack, unless it is nested in another frame, holds its strand.
LEMMA TopHolds ==
  ASSUME TypeOK, FramesOK, NEW t \in Threads, stack[t] # <<>>
  PROVE  /\ Top(t) \in Frames /\ FrameOK(Top(t)) /\ Top(t).s \in Strands /\ Len(stack[t]) \in Nat
         /\ Top(t).kind # "nested" => Holds(t, Len(stack[t]), Top(t).s)
         /\ \A s \in Strands : Holds(t, Len(stack[t]), s) => s = Top(t).s /\ Top(t).kind # "nested"
<1>1. stack[t] \in Seq(Frames)
  BY DEF TypeOK
<1>2. Len(stack[t]) \in 1 .. Len(stack[t]) /\ Top(t) = stack[t][Len(stack[t])]
  BY <1>1 DEF Top
<1>3. Top(t) \in Frames /\ FrameOK(Top(t))
  BY <1>1, <1>2 DEF FramesOK
<1> QED
  BY <1>2, <1>3 DEF Holds, Frames

\* The strands a step does not touch.
LEMMA OthersOK ==
  ASSUME IInv, ~shutdown_, NEW x \in Strands,
         \A s \in Strands \ {x} :
            /\ Unmoved(s) /\ waiting_queue_'[s] = waiting_queue_[s] /\ ready_queue_'[s] = ready_queue_[s]
  PROVE  \A s \in Strands \ {x} : StrandOK(s)'
<1> SUFFICES ASSUME NEW s \in Strands \ {x} PROVE StrandOK(s)'
  OBVIOUS
<1>1. MoreHandlers(s)' => MoreHandlers(s)
  BY DEF MoreHandlers
<1>2. StrandOK(s) /\ Unmoved(s)
  BY DEF IInv
<1> QED
  BY <1>1, <1>2, StaysOK

LEMMA RunNestedInv == ASSUME IInv, NEW t \in Threads, NEW s \in Strands, RunNested(t, s) PROVE IInv'
<1> DEFINE f == [s |-> s, h |-> issued + 1, kind |-> "nested", pc |-> "handler"]
<1>1. TypeOK /\ FramesOK /\ issued + 1 \in Handlers /\ issued' = issued + 1 /\ Len(stack[t]) < MaxDepth
  BY DEF IInv, TypeOK, Handlers, RunNested, UserCode
<1>2. stack' = Pushed(t, f)
  BY DEF RunNested
<1>3. f \in Frames /\ FrameOK(f) /\ f.kind = "nested"
  BY <1>1 DEF Frames, FrameOK, Handlers
<1> HIDE DEF f
<1>4. /\ stack' \in [Threads -> Seq(Frames)] /\ FramesOK'
      /\ \A x \in Strands, u \in Threads, i \in Nat : Holds(u, i, x)' <=> Holds(u, i, x)
  BY <1>1, <1>2, <1>3, PushHolds
<1>5. TypeOK'
  BY <1>1, <1>4 DEF TypeOK, RunNested, Handlers
<1>6. ASSUME ~shutdown_', NEW x \in Strands PROVE StrandOK(x)'
  <2>1. StrandOK(x) /\ Unmoved(x) /\ (MoreHandlers(x)' => MoreHandlers(x))
    BY <1>4, <1>6 DEF IInv, Unmoved, RunNested, MoreHandlers
  <2> QED
    BY <2>1, StaysOK
<1> QED
  BY <1>4, <1>5, <1>6 DEF IInv

LEMMA EnqueueShutdownInv ==
  ASSUME IInv, NEW t \in Threads, NEW s \in Strands, NEW how, EnqueueShutdown(t, s, how) PROVE IInv'
<1>1. TypeOK'
  BY DEF IInv, TypeOK, EnqueueShutdown, Submits, Handlers
<1>2. FramesOK' /\ shutdown_'
  BY DEF IInv, FramesOK, FrameOK, EnqueueShutdown
<1> QED
  BY <1>1, <1>2 DEF IInv

LEMMA EnqueueWaitingInv ==
  ASSUME IInv, NEW t \in Threads, NEW s \in Strands, NEW how, EnqueueWaiting(t, s, how) PROVE IInv'
<1>1. issued + 1 \in Handlers /\ issued' = issued + 1 /\ issued' \in 0 .. MaxHandlers
  BY DEF IInv, TypeOK, Handlers, EnqueueWaiting, Submits
<1>2. Append(waiting_queue_[s], issued + 1) \in Seq(Handlers)
  BY <1>1 DEF IInv, TypeOK
<1>3. waiting_queue_' \in [Strands -> Seq(Handlers)]
  BY <1>2 DEF IInv, TypeOK, EnqueueWaiting
<1>4. TypeOK'
  BY <1>1, <1>3 DEF IInv, TypeOK, EnqueueWaiting
<1>5. FramesOK' /\ ~shutdown_
  BY DEF IInv, FramesOK, FrameOK, EnqueueWaiting
<1>6. \A x \in Strands : Unmoved(x)
  BY DEF Unmoved, Holds, EnqueueWaiting
<1>7. ASSUME NEW x \in Strands PROVE StrandOK(x)'
  <2>1. locked_[x] \/ (MoreHandlers(x)' => MoreHandlers(x))
    BY DEF EnqueueWaiting, IsLocked, MoreHandlers, IInv, TypeOK
  <2> QED
    BY <1>5, <1>6, <2>1, StaysOK DEF IInv
<1> QED
  BY <1>4, <1>5, <1>7 DEF IInv

LEMMA EnqueueFirstInv ==
  ASSUME IInv, NEW t \in Threads, NEW s \in Strands, NEW how \in {"post", "dispatch"},
         EnqueueFirst(t, s, how)
  PROVE  IInv'
<1> DEFINE f == IF RunsNow(t, s, how)
                THEN [s |-> s, h |-> issued + 1, kind |-> "now", pc |-> "handler"]
                ELSE [s |-> s, h |-> issued + 1, kind |-> how, pc |-> "push"]
           n == Len(stack[t])
<1>1. TypeOK /\ FramesOK /\ issued + 1 \in Handlers /\ issued' = issued + 1 /\ n < MaxDepth
  BY DEF IInv, TypeOK, Handlers, EnqueueFirst, Submits, UserCode
<1>2. stack' = Pushed(t, f)
  BY DEF EnqueueFirst
<1>3. f \in Frames /\ FrameOK(f) /\ f.kind # "nested" /\ f.s = s
  BY <1>1 DEF Frames, FrameOK, Handlers
<1> HIDE DEF f, n
<1>4. /\ stack' \in [Threads -> Seq(Frames)] /\ FramesOK' /\ n \in Nat
      /\ \A x \in Strands, u \in Threads, i \in Nat :
           Holds(u, i, x)' <=> Holds(u, i, x) \/ (u = t /\ i = n + 1 /\ x = s)
  BY <1>1, <1>2, <1>3, PushHolds DEF n
<1>5. TypeOK'
  <2>1. locked_' \in [Strands -> BOOLEAN] /\ shutdown_' \in BOOLEAN
    BY <1>1 DEF TypeOK, EnqueueFirst
  <2>2. /\ UNCHANGED <<waiting_queue_, ready_queue_, submitted, done, destroyed>>
        /\ issued' \in 0 .. MaxHandlers
    BY <1>1 DEF EnqueueFirst, Handlers
  <2> QED
    BY <1>1, <1>4, <2>1, <2>2 DEF TypeOK
<1>6. StrandOK(s) /\ ~locked_[s] /\ ~shutdown_
  BY DEF IInv, EnqueueFirst, IsLocked
<1>7. ~InUse(s) /\ submitted[s] = 0
  <2>1. ~InUse(s) /\ submitted[s] # 1 /\ submitted[s] <= 1
    BY <1>6, Zenon DEF StrandOK
  <2> QED
    BY <1>1, <2>1 DEF TypeOK
<1>8. locked_'[s] /\ submitted'[s] = 0 /\ n + 1 \in Nat
  BY <1>1, <1>4, <1>7 DEF EnqueueFirst, TypeOK
<1>9. StrandOK(s)'
  <2>1. \A u \in Threads, i \in Nat : Holds(u, i, s)' <=> Holds(u, i, s) \/ (u = t /\ i = n + 1)
    BY <1>4
  <2> QED
    BY <1>7, <1>8, <2>1, Taken
<1>10. ASSUME NEW x \in Strands \ {s}
       PROVE  Unmoved(x) /\ waiting_queue_'[x] = waiting_queue_[x] /\ ready_queue_'[x] = ready_queue_[x]
  <2>1. \A u \in Threads, i \in Nat : Holds(u, i, x)' <=> Holds(u, i, x)
    BY <1>4
  <2>2. UNCHANGED <<submitted, waiting_queue_, ready_queue_>> /\ locked_'[x] = locked_[x]
    BY <1>1 DEF EnqueueFirst, TypeOK
  <2> QED
    BY <2>1, <2>2 DEF Unmoved
<1>11. \A x \in Strands \ {s} : StrandOK(x)'
  BY <1>6, <1>10, OthersOK
<1> QED
  BY <1>4, <1>5, <1>9, <1>11 DEF IInv

\* The top frame goes on: the strand stays with it.
LEMMA MovedTop ==
  ASSUME IInv, NEW t \in Threads, stack[t] # <<>>, NEW h \in 0 .. MaxHandlers,
         NEW pc \in {"submit", "run", "handler", "exit", "resubmit"}, pc = "handler" => h \in Handlers,
         Top(t).kind = "nested" => pc = "handler", stack' = Moved(t, pc, h)
  PROVE  /\ stack' \in [Threads -> Seq(Frames)] /\ FramesOK'
         /\ \A s \in Strands, u \in Threads, i \in Nat : Holds(u, i, s)' <=> Holds(u, i, s)
<1> DEFINE f == [Top(t) EXCEPT !.pc = pc, !.h = h]
<1>1. TypeOK /\ FramesOK
  BY DEF IInv
<1>2. Top(t) \in Frames
  BY <1>1, TopHolds
<1>3. f \in Frames /\ f.s = Top(t).s /\ f.kind = Top(t).kind /\ f.pc = pc /\ f.h = h
  BY <1>2 DEF Frames
<1>4. stack' = [stack EXCEPT ![t][Len(stack[t])] = f]
  BY DEF Moved
<1> HIDE DEF f
<1>5. FrameOK(f)
  BY <1>3 DEF FrameOK
<1> QED
  BY <1>1, <1>3, <1>4, <1>5, MoveHolds

\* A step that leaves every strand where it is and queues nothing on an unlocked one.
LEMMA NothingMoves ==
  ASSUME IInv, NEW x, UNCHANGED <<locked_, submitted>>, ~shutdown_ => locked_[x],
         \A s \in Strands, u \in Threads, i \in Nat : Holds(u, i, s)' <=> Holds(u, i, s),
         \A s \in Strands \ {x} : MoreHandlers(s)' => MoreHandlers(s)
  PROVE  ~shutdown_ => \A s \in Strands : StrandOK(s)'
<1> SUFFICES ASSUME ~shutdown_, NEW s \in Strands PROVE StrandOK(s)'
  OBVIOUS
<1>1. StrandOK(s) /\ Unmoved(s)
  BY DEF IInv, Unmoved
<1>2. locked_[s] \/ (MoreHandlers(s)' => MoreHandlers(s))
  BY Zenon
<1> QED
  BY <1>1, <1>2, StaysOK

\* A strand whose frame is on top of a stack is locked.
LEMMA TopLocked ==
  ASSUME IInv, NEW t \in Threads, stack[t] # <<>>, Top(t).kind # "nested", ~shutdown_
  PROVE  StrandOK(Top(t).s) /\ locked_[Top(t).s]
<1>1. Holds(t, Len(stack[t]), Top(t).s) /\ Top(t).s \in Strands /\ Len(stack[t]) \in Nat
  BY TopHolds DEF IInv
<1>2. StrandOK(Top(t).s) /\ InUse(Top(t).s)
  BY <1>1 DEF IInv, InUse
<1> QED
  BY <1>2 DEF StrandOK

\* What is known of a frame at pc, when only handlers can be nested.
LEMMA TopAt ==
  ASSUME IInv, NEW t \in Threads, NEW pc, At(t, pc)
  PROVE  /\ stack[t] # <<>> /\ Top(t) \in Frames /\ Top(t).s \in Strands /\ Top(t).pc = pc
         /\ pc # "handler" => Top(t).kind # "nested"
         /\ pc \in {"push", "handler"} => Top(t).h \in Handlers
<1>1. stack[t] # <<>> /\ Top(t).pc = pc
  BY DEF At
<1> QED
  BY <1>1, TopHolds DEF IInv, FrameOK

LEMMA PushReadyInv == ASSUME IInv, NEW t \in Threads, PushReady(t) PROVE IInv'
<1> DEFINE x == Top(t).s
<1>1. At(t, "push") /\ stack' = Moved(t, "submit", 0)
  BY DEF PushReady
<1>2. stack[t] # <<>> /\ x \in Strands /\ Top(t).kind # "nested" /\ Top(t).h \in Handlers
  BY <1>1, TopAt
<1>3. /\ stack' \in [Threads -> Seq(Frames)] /\ FramesOK'
      /\ \A s \in Strands, u \in Threads, i \in Nat : Holds(u, i, s)' <=> Holds(u, i, s)
  BY <1>1, <1>2, MovedTop
<1>4. ready_queue_' \in [Strands -> Seq(Handlers)]
  BY <1>2 DEF PushReady, IInv, TypeOK
<1>5. TypeOK'
  BY <1>3, <1>4 DEF PushReady, IInv, TypeOK
<1>6. ~shutdown_ => locked_[x]
  BY <1>2, TopLocked
<1>7. \A s \in Strands \ {x} : MoreHandlers(s)' => MoreHandlers(s)
  BY <1>2 DEF PushReady, MoreHandlers, IInv, TypeOK
<1> HIDE DEF x
<1>8. ~shutdown_ => \A s \in Strands : StrandOK(s)'
  BY <1>3, <1>6, <1>7, NothingMoves DEF PushReady
<1> QED
  BY <1>3, <1>5, <1>8 DEF PushReady, IInv

LEMMA RunReadyInv == ASSUME IInv, NEW t \in Threads, RunReady(t) PROVE IInv'
<1> DEFINE x == Top(t).s
<1>1. At(t, "run")
  BY DEF RunReady
<1>2. stack[t] # <<>> /\ x \in Strands /\ Top(t).kind # "nested" /\ ready_queue_[x] \in Seq(Handlers)
  BY <1>1, TopAt DEF IInv, TypeOK
<1>3. /\ stack' \in [Threads -> Seq(Frames)] /\ FramesOK'
      /\ \A s \in Strands, u \in Threads, i \in Nat : Holds(u, i, s)' <=> Holds(u, i, s)
      /\ ready_queue_' \in [Strands -> Seq(Handlers)]
  <2>1. CASE ready_queue_[x] = <<>>
    BY <1>2, <2>1, MovedTop DEF RunReady, IInv, TypeOK
  <2>2. CASE ready_queue_[x] # <<>>
    <3>1. Head(ready_queue_[x]) \in Handlers /\ Tail(ready_queue_[x]) \in Seq(Handlers)
      BY <1>2, <2>2
    <3>2. Head(ready_queue_[x]) \in 0 .. MaxHandlers /\ stack' = Moved(t, "handler", Head(ready_queue_[x]))
      BY <2>2, <3>1 DEF Handlers, RunReady
    <3> QED
      BY <1>2, <2>2, <3>1, <3>2, MovedTop DEF RunReady, IInv, TypeOK
  <2> QED
    BY <2>1, <2>2
<1>4. TypeOK'
  BY <1>3 DEF RunReady, IInv, TypeOK
<1>5. ~shutdown_ => locked_[x]
  BY <1>2, TopLocked
<1>6. \A s \in Strands \ {x} : MoreHandlers(s)' => MoreHandlers(s)
  BY <1>2 DEF RunReady, MoreHandlers, IInv, TypeOK
<1> HIDE DEF x
<1>7. ~shutdown_ => \A s \in Strands : StrandOK(s)'
  BY <1>3, <1>5, <1>6, NothingMoves DEF RunReady
<1> QED
  BY <1>3, <1>4, <1>7 DEF RunReady, IInv

\* The frame on top leaves the strand to the invoker it has submitted.
LEMMA Hands ==
  ASSUME IInv, NEW t \in Threads, NEW pc, At(t, pc), pc # "handler",
         submitted' = [submitted EXCEPT ![Top(t).s] = @ + 1], stack' = Popped(t),
         UNCHANGED <<locked_, shutdown_, waiting_queue_, ready_queue_, issued, done, destroyed>>
  PROVE  IInv'
<1> DEFINE n == Len(stack[t])
<1>0. PICK x \in Strands : x = Top(t).s
  BY TopAt
<1>1. TypeOK /\ FramesOK /\ stack[t] # <<>> /\ Top(t).kind # "nested"
  BY TopAt DEF IInv
<1>2. n \in Nat /\ Holds(t, n, x) /\ \A s \in Strands : Holds(t, n, s) => s = x
  BY <1>0, <1>1, TopHolds
<1>3. /\ stack' \in [Threads -> Seq(Frames)] /\ FramesOK'
      /\ \A s \in Strands, u \in Threads, i \in Nat :
           Holds(u, i, s)' <=> Holds(u, i, s) /\ ~(u = t /\ i = n)
  BY <1>1, PopHolds
<1>4. TypeOK'
  <2>1. submitted' \in [Strands -> Nat]
    BY <1>0, <1>1 DEF TypeOK
  <2> QED
    BY <1>1, <1>3, <2>1 DEF TypeOK
<1> HIDE DEF n
<1>5. ASSUME ~shutdown_ PROVE \A s \in Strands : StrandOK(s)'
  <2>1. StrandOK(x) /\ submitted[x] = 0 /\ locked_[x]
    BY <1>1, <1>2, <1>5 DEF IInv, StrandOK, InUse
  <2>2. submitted'[x] = 1 /\ locked_'[x] /\ submitted'[x] \in {0, 1}
    BY <1>0, <1>1, <2>1 DEF TypeOK
  <2>3. StrandOK(x)'
    <3>1. \A u \in Threads, i \in Nat : Holds(u, i, x)' <=> Holds(u, i, x) /\ ~(u = t /\ i = n)
      BY <1>1, <1>3
    <3> QED
      BY <1>1, <1>2, <2>1, <2>2, <3>1, Left
  <2>4. ASSUME NEW s \in Strands \ {x}
        PROVE  Unmoved(s) /\ waiting_queue_'[s] = waiting_queue_[s] /\ ready_queue_'[s] = ready_queue_[s]
    <3>1. submitted'[s] = submitted[s]
      BY <1>0, <1>1 DEF TypeOK
    <3>2. \A u \in Threads, i \in Nat : Holds(u, i, s)' <=> Holds(u, i, s)
      BY <1>2, <1>3
    <3> QED
      BY <3>1, <3>2 DEF Unmoved
  <2>5. \A s \in Strands \ {x} : StrandOK(s)'
    BY <1>1, <1>5, <2>4, OthersOK
  <2> QED
    BY <2>3, <2>5
<1> QED
  BY <1>3, <1>4, <1>5 DEF IInv

LEMMA SubmitInPlaceInv == ASSUME IInv, NEW t \in Threads, SubmitInPlace(t) PROVE IInv'
<1> DEFINE x == Top(t).s
           n == Len(stack[t])
           f == [Top(t) EXCEPT !.kind = "invoker", !.pc = "run"]
<1>1. /\ TypeOK /\ FramesOK /\ stack[t] # <<>> /\ x \in Strands /\ Top(t) \in Frames
      /\ Top(t).kind # "nested"
  BY TopAt DEF IInv, SubmitInPlace
<1>2. f \in Frames /\ f.s = x /\ f.kind = "invoker" /\ f.pc = "run"
  BY <1>1 DEF Frames
<1>3. stack' = [stack EXCEPT ![t][n] = f]
  <2>1. stack[t] \in Seq(Frames) /\ stack \in [Threads -> Seq(Frames)] /\ n \in 1 .. Len(stack[t])
    BY <1>1 DEF TypeOK
  <2>2. stack[t][n] = Top(t)
    BY DEF Top
  <2> QED
    BY <2>1, <2>2 DEF SubmitInPlace
<1> HIDE DEF f
<1>4. FrameOK(f)
  BY <1>2 DEF FrameOK
<1>5. /\ stack' \in [Threads -> Seq(Frames)] /\ FramesOK'
      /\ \A s \in Strands, u \in Threads, i \in Nat : Holds(u, i, s)' <=> Holds(u, i, s)
  BY <1>1, <1>2, <1>3, <1>4, MoveHolds
<1>6. TypeOK'
  BY <1>1, <1>5 DEF TypeOK, SubmitInPlace
<1>7. ~shutdown_ => locked_[x]
  BY <1>1, TopLocked
<1>8. \A s \in Strands \ {x} : MoreHandlers(s)' => MoreHandlers(s)
  BY DEF SubmitInPlace, MoreHandlers
<1> HIDE DEF x
<1>9. ~shutdown_ => \A s \in Strands : StrandOK(s)'
  BY <1>5, <1>7, <1>8, NothingMoves DEF SubmitInPlace
<1> QED
  BY <1>5, <1>6, <1>9 DEF SubmitInPlace, IInv

LEMMA RunInvokerInv ==
  ASSUME IInv, NEW t \in Threads, NEW s \in Strands, RunInvoker(t, s) PROVE IInv'
<1> DEFINE f == [s |-> s, h |-> 0, kind |-> "invoker", pc |-> "run"]
           n == Len(stack[t])
<1>1. TypeOK /\ FramesOK /\ n < MaxDepth /\ submitted[s] > 0
  <2>1. CASE stack[t] = <<>>
    BY <2>1 DEF IInv, RunInvoker, AnInvoker
  <2>2. CASE UserCode(t)
    BY <2>2 DEF IInv, RunInvoker, AnInvoker, UserCode
  <2> QED
    BY <2>1, <2>2 DEF RunInvoker
<1>2. f \in Frames /\ FrameOK(f) /\ f.kind # "nested" /\ f.s = s /\ stack' = Pushed(t, f)
  BY DEF Frames, FrameOK, RunInvoker
<1> HIDE DEF f, n
<1>3. /\ stack' \in [Threads -> Seq(Frames)] /\ FramesOK' /\ n \in Nat
      /\ \A x \in Strands, u \in Threads, i \in Nat :
           Holds(u, i, x)' <=> Holds(u, i, x) \/ (u = t /\ i = n + 1 /\ x = s)
  BY <1>1, <1>2, PushHolds DEF n
<1>4. submitted' = [submitted EXCEPT ![s] = submitted[s] - 1] /\ submitted[s] - 1 \in Nat
  BY <1>1 DEF RunInvoker, TypeOK
<1>5. TypeOK'
  <2>1. submitted' \in [Strands -> Nat]
    BY <1>1, <1>4 DEF TypeOK
  <2> QED
    BY <1>1, <1>3, <2>1 DEF TypeOK, RunInvoker
<1>6. StrandOK(s) /\ ~shutdown_
  BY DEF IInv, RunInvoker
<1>7. ~InUse(s) /\ submitted[s] = 1 /\ locked_[s]
  <2>1. submitted[s] <= 1 /\ submitted[s] \in Nat /\ submitted[s] # 0
    BY <1>1, <1>6 DEF StrandOK, TypeOK
  <2>2. submitted[s] = 1
    BY <2>1
  <2> QED
    BY <1>6, <2>1, <2>2, Zenon DEF StrandOK
<1>8. locked_'[s] /\ submitted'[s] = 0 /\ n + 1 \in Nat
  BY <1>1, <1>3, <1>4, <1>7 DEF RunInvoker, TypeOK
<1>9. StrandOK(s)'
  <2>1. \A u \in Threads, i \in Nat : Holds(u, i, s)' <=> Holds(u, i, s) \/ (u = t /\ i = n + 1)
    BY <1>3
  <2> QED
    BY <1>7, <1>8, <2>1, Taken
<1>10. ASSUME NEW x \in Strands \ {s}
       PROVE  Unmoved(x) /\ waiting_queue_'[x] = waiting_queue_[x] /\ ready_queue_'[x] = ready_queue_[x]
  <2>1. \A u \in Threads, i \in Nat : Holds(u, i, x)' <=> Holds(u, i, x)
    BY <1>3
  <2>2. UNCHANGED <<locked_, waiting_queue_, ready_queue_>> /\ submitted'[x] = submitted[x]
    BY <1>1, <1>4 DEF RunInvoker, TypeOK
  <2> QED
    BY <2>1, <2>2 DEF Unmoved
<1>11. \A x \in Strands \ {s} : StrandOK(x)'
  BY <1>6, <1>10, OthersOK
<1> QED
  BY <1>3, <1>5, <1>9, <1>11 DEF IInv

LEMMA HandlerEndsInv ==
  ASSUME IInv, NEW t \in Threads, NEW throws \in BOOLEAN, HandlerEnds(t, throws) PROVE IInv'
<1>1. TypeOK /\ FramesOK /\ stack[t] # <<>> /\ Top(t).h \in Handlers
  BY TopAt DEF IInv, HandlerEnds
<1>2. /\ stack' \in [Threads -> Seq(Frames)] /\ FramesOK'
      /\ \A s \in Strands, u \in Threads, i \in Nat : Holds(u, i, s)' <=> Holds(u, i, s)
  <2>1. CASE Top(t).kind = "nested"
    <3>1. stack' = Popped(t)
      BY <2>1 DEF HandlerEnds
    <3>2. \A s \in Strands : ~Holds(t, Len(stack[t]), s)
      BY <1>1, <2>1, TopHolds
    <3> QED
      BY <1>1, <3>1, <3>2, PopHolds
  <2>2. CASE Top(t).kind # "nested"
    <3>1. PICK pc \in {"run", "exit"} : stack' = Moved(t, pc, 0)
      BY <2>2 DEF HandlerEnds
    <3> QED
      BY <1>1, <2>2, <3>1, MovedTop, SMTT(30)
  <2> QED
    BY <2>1, <2>2
<1>3. TypeOK'
  BY <1>1, <1>2 DEF HandlerEnds, TypeOK
<1>4. ASSUME ~shutdown_', NEW x \in Strands PROVE StrandOK(x)'
  <2>1. StrandOK(x) /\ Unmoved(x) /\ (MoreHandlers(x)' => MoreHandlers(x))
    BY <1>2, <1>4 DEF IInv, Unmoved, HandlerEnds, MoreHandlers
  <2> QED
    BY <2>1, StaysOK
<1> QED
  BY <1>2, <1>3, <1>4 DEF IInv

LEMMA PushWaitingToReadyInv == ASSUME IInv, NEW t \in Threads, PushWaitingToReady(t) PROVE IInv'
<1> DEFINE n == Len(stack[t])
<1>0. PICK x \in Strands : x = Top(t).s
  BY TopAt DEF PushWaitingToReady
<1>1. TypeOK /\ FramesOK /\ stack[t] # <<>> /\ Top(t).kind # "nested"
  BY TopAt DEF IInv, PushWaitingToReady
<1>2. n \in Nat /\ Holds(t, n, x) /\ \A s \in Strands : Holds(t, n, s) => s = x
  BY <1>0, <1>1, TopHolds
<1>3. /\ ready_queue_' = [ready_queue_ EXCEPT ![x] = ready_queue_[x] \o waiting_queue_[x]]
      /\ waiting_queue_' = [waiting_queue_ EXCEPT ![x] = <<>>]
      /\ locked_' = [locked_ EXCEPT ![x] = MoreHandlers(x)]
      /\ stack' = IF MoreHandlers(x) THEN Moved(t, "resubmit", 0) ELSE Popped(t)
      /\ UNCHANGED <<shutdown_, submitted, issued, done, destroyed>>
  BY <1>0 DEF PushWaitingToReady, ReadyFirst
<1> HIDE DEF n
<1>4. ready_queue_[x] \in Seq(Handlers) /\ waiting_queue_[x] \in Seq(Handlers)
  BY <1>1 DEF TypeOK
<1>5. ready_queue_' \in [Strands -> Seq(Handlers)] /\ waiting_queue_' \in [Strands -> Seq(Handlers)]
  <2>1. ready_queue_[x] \o waiting_queue_[x] \in Seq(Handlers) /\ <<>> \in Seq(Handlers)
    BY <1>4, ConcatProperties
  <2> QED
    BY <1>1, <1>3, <2>1 DEF TypeOK
<1>6. locked_' \in [Strands -> BOOLEAN] /\ locked_'[x] = MoreHandlers(x)
  <2>1. MoreHandlers(x) \in BOOLEAN
    BY DEF MoreHandlers
  <2> QED
    BY <1>1, <1>3, <2>1 DEF TypeOK
<1>7. \A s \in Strands \ {x} : /\ locked_'[s] = locked_[s] /\ ready_queue_'[s] = ready_queue_[s]
                                /\ waiting_queue_'[s] = waiting_queue_[s]
  BY <1>1, <1>3 DEF TypeOK
<1>8. CASE MoreHandlers(x)
  <2>1. /\ stack' \in [Threads -> Seq(Frames)] /\ FramesOK'
        /\ \A s \in Strands, u \in Threads, i \in Nat : Holds(u, i, s)' <=> Holds(u, i, s)
    <3>1. stack' = Moved(t, "resubmit", 0)
      BY <1>3, <1>8
    <3> QED
      BY <1>1, <3>1, MovedTop
  <2>2. TypeOK'
    BY <1>1, <1>3, <1>5, <1>6, <2>1 DEF TypeOK
  <2>3. ASSUME ~shutdown_ PROVE StrandOK(x)' /\ \A s \in Strands \ {x} : StrandOK(s)'
    <3>1. StrandOK(x) /\ locked_[x]
      BY <1>0, <1>1, <2>3, TopLocked
    <3>2. locked_'[x] = locked_[x]
      BY <1>1, <1>3, <1>8, <3>1 DEF TypeOK
    <3>3. Unmoved(x)
      BY <1>3, <2>1, <3>2 DEF Unmoved
    <3>4. StrandOK(x)'
      BY <3>1, <3>3, StaysOK
    <3>5. \A s \in Strands \ {x} : Unmoved(s)
      BY <1>3, <1>7, <2>1 DEF Unmoved
    <3> QED
      BY <1>7, <2>3, <3>4, <3>5, OthersOK
  <2> QED
    BY <1>3, <2>1, <2>2, <2>3 DEF IInv
<1>9. CASE ~MoreHandlers(x)
  <2>1. /\ stack' \in [Threads -> Seq(Frames)] /\ FramesOK'
        /\ \A s \in Strands, u \in Threads, i \in Nat :
             Holds(u, i, s)' <=> Holds(u, i, s) /\ ~(u = t /\ i = n)
    <3>1. stack' = Popped(t)
      BY <1>3, <1>9
    <3> QED
      BY <1>1, <3>1, PopHolds DEF n
  <2>2. TypeOK'
    BY <1>1, <1>3, <1>5, <1>6, <2>1 DEF TypeOK
  <2>3. ASSUME ~shutdown_ PROVE StrandOK(x)' /\ \A s \in Strands \ {x} : StrandOK(s)'
    <3>1. StrandOK(x) /\ submitted[x] = 0
      BY <1>2, <2>3 DEF IInv, StrandOK, InUse
    <3>2. submitted'[x] = 0 /\ ~locked_'[x]
      BY <1>1, <1>3, <1>9, <3>1 DEF TypeOK
    <3>3. ~MoreHandlers(x)'
      <4>1. ready_queue_[x] = <<>> /\ waiting_queue_[x] = <<>>
        BY <1>9 DEF MoreHandlers
      <4>2. ready_queue_'[x] = <<>> \o <<>> /\ waiting_queue_'[x] = <<>>
        BY <1>1, <1>3, <4>1 DEF TypeOK
      <4> QED
        BY <4>2 DEF MoreHandlers
    <3>4. StrandOK(x)'
      <4>1. \A u \in Threads, i \in Nat : Holds(u, i, x)' <=> Holds(u, i, x) /\ ~(u = t /\ i = n)
        BY <2>1
      <4> QED
        BY <1>2, <3>1, <3>2, <3>3, <4>1, Left
    <3>5. \A s \in Strands \ {x} : Unmoved(s)
      BY <1>2, <1>3, <1>7, <2>1 DEF Unmoved
    <3> QED
      BY <1>7, <2>3, <3>4, <3>5, OthersOK
  <2> QED
    BY <1>3, <2>1, <2>2, <2>3 DEF IInv
<1> QED
  BY <1>8, <1>9

LEMMA ShutdownInv == ASSUME IInv, Shutdown PROVE IInv'
<1>1. shutdown_' /\ FramesOK'
  BY DEF Shutdown, IInv, FramesOK, FrameOK
<1>2. <<>> \in Seq(Handlers)
  OBVIOUS
<1>3. waiting_queue_' \in [Strands -> Seq(Handlers)] /\ ready_queue_' \in [Strands -> Seq(Handlers)]
  BY <1>2 DEF Shutdown
<1>4. destroyed' \subseteq Handlers
  BY DEF Shutdown, QueuedOps, IInv, TypeOK
<1>5. TypeOK'
  BY <1>1, <1>3, <1>4 DEF Shutdown, IInv, TypeOK
<1> QED
  BY <1>1, <1>5 DEF IInv

LEMMA NextInv == ASSUME IInv, [Next]_vars PROVE IInv'
<1>1. CASE UNCHANGED vars
  <2>1. UNCHANGED <<locked_, shutdown_, waiting_queue_, ready_queue_, submitted, stack, issued, done, destroyed>>
    BY <1>1 DEF vars
  <2>2. TypeOK' /\ FramesOK'
    BY <2>1 DEF IInv, TypeOK, FramesOK, FrameOK
  <2>3. ASSUME ~shutdown_', NEW s \in Strands PROVE StrandOK(s)'
    <3>1. StrandOK(s) /\ Unmoved(s) /\ (MoreHandlers(s)' => MoreHandlers(s))
      BY <2>1, <2>3 DEF IInv, Unmoved, Holds, MoreHandlers
    <3> QED
      BY <3>1, StaysOK
  <2> QED
    BY <2>2, <2>3 DEF IInv
<1>2. CASE \E t \in Threads : Internal(t)
  <2> PICK t \in Threads : Internal(t)
    BY <1>2
  <2>1. CASE Submit(t) \/ Resubmit(t)
    BY <2>1, Hands DEF Submit, Resubmit
  <2>2. CASE PushReady(t) \/ SubmitInPlace(t) \/ RunReady(t) \/ PushWaitingToReady(t)
    BY <2>2, PushReadyInv, SubmitInPlaceInv, RunReadyInv, PushWaitingToReadyInv
  <2>3. CASE \E throws \in BOOLEAN : HandlerEnds(t, throws)
    BY <2>3, HandlerEndsInv
  <2> QED
    BY <2>1, <2>2, <2>3 DEF Internal
<1>3. CASE \E t \in Threads : ProgramCall(t)
  BY <1>3, RunNestedInv, EnqueueShutdownInv, EnqueueWaitingInv, EnqueueFirstInv DEF ProgramCall
<1>4. CASE \E t \in Threads, s \in Strands : RunInvoker(t, s)
  BY <1>4, RunInvokerInv
<1>5. CASE Shutdown
  BY <1>5, ShutdownInv
<1> QED
  BY <1>1, <1>2, <1>3, <1>4, <1>5 DEF Next

-----------------------------------------------------------------------------
\* IInv says LockedByOne: a frame that holds a strand is one of the MaxDepth places.
LEMMA InvImplies == IInv => LockedByOne
<1> SUFFICES ASSUME IInv PROVE LockedByOne
  OBVIOUS
<1> SUFFICES ASSUME ~shutdown_, NEW s \in Strands
             PROVE  /\ \A f, g \in Holders(s) : f = g
                    /\ submitted[s] <= 1
                    /\ Holders(s) # {} => submitted[s] = 0
                    /\ locked_[s] <=> (Holders(s) # {} \/ submitted[s] = 1)
                    /\ MoreHandlers(s) => locked_[s]
  BY DEF LockedByOne, IInv
<1>1. StrandOK(s) /\ TypeOK /\ FramesOK
  BY DEF IInv
<1>2. \A f \in Holders(s) : f[1] \in Threads /\ f[2] \in Nat /\ f = <<f[1], f[2]>> /\ Holds(f[1], f[2], s)
  BY DEF Holders
<1>3. \A f, g \in Holders(s) : f = g
  BY <1>1, <1>2 DEF StrandOK, OneHolder
<1>4. ASSUME NEW t \in Threads, NEW i \in Nat, Holds(t, i, s) PROVE <<t, i>> \in Holders(s)
  <2>1. stack[t] \in Seq(Frames) /\ Len(stack[t]) <= MaxDepth /\ i \in 1 .. Len(stack[t])
    BY <1>1, <1>4 DEF TypeOK, FramesOK, Holds
  <2>2. i \in 1 .. MaxDepth
    BY <2>1
  <2> QED
    BY <1>4, <2>2 DEF Holders
<1>5. Holders(s) # {} <=> InUse(s)
  BY <1>2, <1>4, Zenon DEF InUse
<1> QED
  BY <1>1, <1>3, <1>5, Zenon DEF StrandOK

\* For every pool of threads, every strand and every nesting of calls: a locked strand is
\* held by exactly one frame or by one invoker that its executor has accepted, and no
\* handler waits on an unlocked strand (strand_impl::locked_, do_post, enqueue,
\* push_waiting_to_ready).
THEOREM LockedByOneAlways == Spec => []LockedByOne
<1>1. Init => IInv
  BY InitInv
<1>2. IInv /\ [Next]_vars => IInv'
  BY NextInv
<1>3. IInv => LockedByOne
  BY InvImplies
<1> QED
  BY <1>1, <1>2, <1>3, PTL DEF Spec

-----------------------------------------------------------------------------
(* The strand implements SerialExecutor.                                   *)

\* The frame of t at depth i is at pc, on s, with handler h.
Frame(t, i, pc, s, h) ==
    /\ i \in 1 .. Len(stack[t])
    /\ stack[t][i].pc = pc /\ stack[t][i].s = s /\ stack[t][i].h = h

\* What is known of the frame of t at depth i.
FrameFits(t, i) ==
    LET f == stack[t][i]
    IN  /\ f.kind = "nested" => \E j \in 1 .. i - 1 : Holds(t, j, f.s)
        /\ f.pc \in {"run", "handler"} => t \in Pool
        /\ f.h <= issued
StacksOK == \A t \in Threads : \A i \in 1 .. Len(stack[t]) : FrameFits(t, i)
QueuesOK ==
    \A s \in Strands :
        /\ Pushing(s) # {} => ready_queue_[s] = <<>>
        /\ ready_queue_[s] \in Seq(1 .. issued) /\ waiting_queue_[s] \in Seq(1 .. issued)
ClosedOK ==
    shutdown_ => /\ \A t \in Threads : stack[t] = <<>>
                 /\ \A s \in Strands : ready_queue_[s] = <<>> /\ waiting_queue_[s] = <<>>

RInv == /\ IInv /\ StacksOK /\ QueuesOK /\ ClosedOK
        /\ done \cup destroyed \subseteq 1 .. issued

-----------------------------------------------------------------------------
(* The frames a step of a stack leaves.                                    *)

LEMMA FramePushed ==
  ASSUME TypeOK, NEW t \in Threads, NEW f \in Frames, stack' = Pushed(t, f)
  PROVE  /\ \A u \in Threads, i \in Nat : \A pc, s, h :
              Frame(u, i, pc, s, h)' <=>
                  \/ Frame(u, i, pc, s, h)
                  \/ u = t /\ i = Len(stack[t]) + 1 /\ f.pc = pc /\ f.s = s /\ f.h = h
         /\ Len(stack[t]) \in Nat
<1> DEFINE n == Len(stack[t])
<1>1. /\ n \in Nat /\ \A u \in Threads \ {t} : stack'[u] = stack[u]
      /\ Len(stack'[t]) = n + 1 /\ stack'[t][n + 1] = f
      /\ \A i \in 1 .. n : stack'[t][i] = stack[t][i]
  BY PushFacts
<1>2. n = Len(stack[t])
  OBVIOUS
<1> HIDE DEF n
<1>3. ASSUME NEW u \in Threads, NEW i \in Nat, NEW pc, NEW s, NEW h
      PROVE  Frame(u, i, pc, s, h)' <=>
                \/ Frame(u, i, pc, s, h)
                \/ u = t /\ i = n + 1 /\ f.pc = pc /\ f.s = s /\ f.h = h
  <2>1. CASE u # t
    BY <1>1, <2>1 DEF Frame
  <2>2. CASE u = t
    BY <1>1, <1>2, <2>2 DEF Frame
  <2> QED
    BY <2>1, <2>2
<1> QED
  BY <1>1, <1>2, <1>3

LEMMA FramePopped ==
  ASSUME TypeOK, NEW t \in Threads, stack[t] # <<>>, stack' = Popped(t)
  PROVE  /\ \A u \in Threads, i \in Nat : \A pc, s, h :
              Frame(u, i, pc, s, h)' <=> Frame(u, i, pc, s, h) /\ ~(u = t /\ i = Len(stack[t]))
         /\ Len(stack[t]) \in Nat \ {0}
<1> DEFINE n == Len(stack[t])
<1>1. /\ n \in Nat \ {0} /\ \A u \in Threads \ {t} : stack'[u] = stack[u]
      /\ Len(stack'[t]) = n - 1 /\ \A i \in 1 .. n - 1 : stack'[t][i] = stack[t][i]
  BY PopFacts
<1>2. n = Len(stack[t])
  OBVIOUS
<1> HIDE DEF n
<1>3. ASSUME NEW u \in Threads, NEW i \in Nat, NEW pc, NEW s, NEW h
      PROVE  Frame(u, i, pc, s, h)' <=> Frame(u, i, pc, s, h) /\ ~(u = t /\ i = n)
  <2>1. CASE u # t
    BY <1>1, <2>1 DEF Frame
  <2>2. CASE u = t
    BY <1>1, <1>2, <2>2 DEF Frame
  <2> QED
    BY <2>1, <2>2
<1> QED
  BY <1>1, <1>2, <1>3

LEMMA FrameMoved ==
  ASSUME TypeOK, NEW t \in Threads, stack[t] # <<>>, NEW f \in Frames,
         stack' = [stack EXCEPT ![t][Len(stack[t])] = f]
  PROVE  /\ \A u \in Threads, i \in Nat : \A pc, s, h :
              Frame(u, i, pc, s, h)' <=>
                  IF u = t /\ i = Len(stack[t]) THEN f.pc = pc /\ f.s = s /\ f.h = h
                                                ELSE Frame(u, i, pc, s, h)
         /\ Len(stack[t]) \in Nat \ {0}
<1> DEFINE n == Len(stack[t])
<1>1. /\ n \in Nat \ {0} /\ \A u \in Threads \ {t} : stack'[u] = stack[u]
      /\ Len(stack'[t]) = n /\ stack'[t][n] = f
      /\ \A i \in 1 .. n - 1 : stack'[t][i] = stack[t][i]
  BY MoveFacts
<1>2. n = Len(stack[t]) /\ \A i \in 1 .. n : i = n \/ i \in 1 .. n - 1
  BY <1>1
<1> HIDE DEF n
<1>3. ASSUME NEW u \in Threads, NEW i \in Nat, NEW pc, NEW s, NEW h
      PROVE  Frame(u, i, pc, s, h)' <=>
                IF u = t /\ i = n THEN f.pc = pc /\ f.s = s /\ f.h = h ELSE Frame(u, i, pc, s, h)
  <2>1. CASE u # t
    BY <1>1, <2>1 DEF Frame
  <2>2. CASE u = t /\ i = n
    BY <1>1, <2>2 DEF Frame
  <2>3. CASE u = t /\ i # n
    BY <1>1, <1>2, <2>3 DEF Frame
  <2> QED
    BY <2>1, <2>2, <2>3
<1> QED
  BY <1>1, <1>2, <1>3

-----------------------------------------------------------------------------
(* Whose frames they are.                                                  *)

\* Below every frame of a strand, or in its place, is one of its thread that holds it.
LEMMA FrameHolds ==
  ASSUME RInv, NEW s \in Strands, NEW t \in Threads, NEW i \in Nat, NEW pc, NEW h, Frame(t, i, pc, s, h)
  PROVE  \E j \in 1 .. i : Holds(t, j, s) /\ (stack[t][i].kind # "nested" => j = i)
<1>1. i \in 1 .. Len(stack[t]) /\ stack[t][i].s = s
  BY DEF Frame
<1>2. CASE stack[t][i].kind # "nested"
  BY <1>1, <1>2 DEF Holds
<1>3. CASE stack[t][i].kind = "nested"
  <2>1. PICK j \in 1 .. i - 1 : Holds(t, j, s)
    BY <1>1, <1>3 DEF RInv, StacksOK, FrameFits
  <2> QED
    BY <1>3, <2>1
<1> QED
  BY <1>2, <1>3

LEMMA NotClosed == ASSUME RInv, NEW t \in Threads, stack[t] # <<>> PROVE ~shutdown_
BY DEF RInv, ClosedOK

\* All frames of a strand are on one thread.
LEMMA OneThread ==
  ASSUME RInv, NEW s \in Strands, NEW t \in Threads, NEW u \in Threads, NEW i \in Nat, NEW j \in Nat,
         NEW pc, NEW h, NEW qc, NEW k, Frame(t, i, pc, s, h), Frame(u, j, qc, s, k)
  PROVE  t = u
<1>1. PICK a \in 1 .. i : Holds(t, a, s)
  BY FrameHolds
<1>2. PICK b \in 1 .. j : Holds(u, b, s)
  BY FrameHolds
<1>3. stack[t] # <<>>
  BY DEF Frame
<1>4. OneHolder(s)
  BY <1>3, NotClosed DEF RInv, IInv, StrandOK
<1>5. a \in Nat /\ b \in Nat
  OBVIOUS
<1> QED
  BY <1>1, <1>2, <1>4, <1>5 DEF OneHolder

\* A frame that holds its strand and is on top of its stack is the only one of the strand.
LEMMA TopAlone ==
  ASSUME RInv, NEW t \in Threads, stack[t] # <<>>, Top(t).kind # "nested",
         NEW u \in Threads, NEW i \in Nat, NEW pc, NEW h, Frame(u, i, pc, Top(t).s, h)
  PROVE  u = t /\ i = Len(stack[t])
<1> DEFINE n == Len(stack[t])
           s == Top(t).s
<1>1. n \in Nat /\ Holds(t, n, s) /\ s \in Strands
  BY TopHolds DEF RInv, IInv
<1>2. PICK j \in 1 .. i : Holds(u, j, s) /\ (stack[u][i].kind # "nested" => j = i)
  BY <1>1, FrameHolds
<1>3. OneHolder(s)
  BY <1>1, NotClosed DEF RInv, IInv, StrandOK
<1>4. j \in Nat /\ i \in 1 .. Len(stack[u])
  BY DEF Frame
<1> HIDE DEF n, s
<1>5. u = t /\ j = n
  BY <1>1, <1>2, <1>3, <1>4 DEF OneHolder
<1>6. i <= n /\ j <= i
  BY <1>2, <1>4, <1>5 DEF n
<1> QED
  BY <1>1, <1>4, <1>5, <1>6 DEF n

\* Nothing is queued on a strand that is not in use, and it has no frames.
LEMMA Unused ==
  ASSUME RInv, NEW s \in Strands, ~InUse(s), NEW t \in Threads, NEW i \in Nat, NEW pc, NEW h
  PROVE  ~Frame(t, i, pc, s, h)
<1> SUFFICES ASSUME Frame(t, i, pc, s, h) PROVE FALSE
  OBVIOUS
<1>1. PICK j \in 1 .. i : Holds(t, j, s)
  BY FrameHolds
<1>2. j \in Nat
  OBVIOUS
<1> QED
  BY <1>1, <1>2 DEF InUse

\* The place of a frame is one of the MaxDepth, and its handler one that was submitted.
LEMMA FrameBounds ==
  ASSUME RInv, NEW t \in Threads, NEW i \in Nat, NEW pc \in {"push", "handler"}, NEW s, NEW h,
         Frame(t, i, pc, s, h)
  PROVE  /\ i \in 1 .. MaxDepth /\ h \in Handlers /\ h \in 1 .. issued /\ s \in Strands
         /\ pc = "handler" => t \in Pool
<1>1. stack[t] \in Seq(Frames) /\ i \in 1 .. Len(stack[t]) /\ issued \in Nat
  BY DEF RInv, IInv, TypeOK, Frame
<1>2. stack[t][i] \in Frames /\ FrameOK(stack[t][i]) /\ Len(stack[t]) <= MaxDepth
  BY <1>1 DEF RInv, IInv, FramesOK
<1>3. h \in Handlers /\ s \in Strands /\ (pc = "handler" => t \in Pool) /\ h <= issued
  BY <1>1, <1>2 DEF Frame, Frames, FrameOK, RInv, StacksOK, FrameFits
<1>4. i \in 1 .. MaxDepth
  <2>1. Len(stack[t]) \in Nat
    BY <1>1, LenProperties
  <2> QED
    BY <1>1, <1>2, <2>1
<1> QED
  BY <1>1, <1>3, <1>4 DEF Handlers

-----------------------------------------------------------------------------
(* StacksOK after a step of a stack.                                       *)

\* A frame that was there before, at a place whose lower frames have not changed.
LEMMA StillFits ==
  ASSUME RInv, NEW t \in Threads, NEW i \in 1 .. Len(stack[t]), stack'[t][i] = stack[t][i],
         \A j \in 1 .. i - 1 : \A s : Holds(t, j, s) => Holds(t, j, s)',
         issued' \in Nat, issued <= issued'
  PROVE  FrameFits(t, i)'
<1>1. stack[t] \in Seq(Frames) /\ FrameFits(t, i) /\ issued \in Nat
  BY DEF RInv, IInv, TypeOK, StacksOK
<1>2. stack[t][i] \in Frames
  BY <1>1, ElementOfSeq
<1>3. stack[t][i].h <= issued'
  BY <1>1, <1>2 DEF FrameFits, Frames
<1>4. PICK s : s = stack[t][i].s
  OBVIOUS
<1>5. stack[t][i].kind = "nested" => \E j \in 1 .. i - 1 : Holds(t, j, s)'
  BY <1>1, <1>4 DEF FrameFits
<1> QED
  BY <1>1, <1>3, <1>4, <1>5 DEF FrameFits

LEMMA StacksPushed ==
  ASSUME RInv, NEW t \in Threads, NEW f \in Frames, stack' = Pushed(t, f),
         issued' \in Nat, issued <= issued', f.h <= issued',
         f.pc \in {"run", "handler"} => t \in Pool,
         f.kind = "nested" => \E j \in 1 .. Len(stack[t]) : Holds(t, j, f.s)
  PROVE  StacksOK'
<1> DEFINE n == Len(stack[t])
<1>1. /\ n \in Nat /\ \A u \in Threads \ {t} : stack'[u] = stack[u]
      /\ Len(stack'[t]) = n + 1 /\ stack'[t][n + 1] = f
      /\ \A i \in 1 .. n : stack'[t][i] = stack[t][i]
  BY PushFacts DEF RInv, IInv
<1>2. n = Len(stack[t]) /\ (f.kind = "nested" => \E j \in 1 .. n : Holds(t, j, f.s))
  OBVIOUS
<1> HIDE DEF n
<1>3. \A u \in Threads, j \in Nat : \A s : Holds(u, j, s) => Holds(u, j, s)'
  BY <1>1, <1>2 DEF Holds
<1> SUFFICES ASSUME NEW u \in Threads, NEW i \in 1 .. Len(stack'[u]) PROVE FrameFits(u, i)'
  BY DEF StacksOK
<1>4. CASE u = t /\ i = n + 1
  <2>1. f.kind = "nested" => \E j \in 1 .. i - 1 : Holds(t, j, f.s)'
    BY <1>1, <1>2, <1>3, <1>4
  <2> QED
    BY <1>1, <1>4, <2>1 DEF FrameFits
<1>5. CASE ~(u = t /\ i = n + 1)
  <2>1. i \in 1 .. Len(stack[u]) /\ stack'[u][i] = stack[u][i]
    BY <1>1, <1>2, <1>5
  <2>2. \A j \in 1 .. i - 1 : \A s : Holds(u, j, s) => Holds(u, j, s)'
    BY <1>3
  <2> QED
    BY <2>1, <2>2, StillFits
<1> QED
  BY <1>4, <1>5

LEMMA StacksPopped ==
  ASSUME RInv, NEW t \in Threads, stack[t] # <<>>, stack' = Popped(t), issued' = issued
  PROVE  StacksOK'
<1> DEFINE n == Len(stack[t])
<1>1. /\ n \in Nat \ {0} /\ \A u \in Threads \ {t} : stack'[u] = stack[u]
      /\ Len(stack'[t]) = n - 1 /\ \A i \in 1 .. n - 1 : stack'[t][i] = stack[t][i]
  BY PopFacts DEF RInv, IInv
<1>2. n = Len(stack[t]) /\ issued \in Nat
  BY DEF RInv, IInv, TypeOK
<1> HIDE DEF n
<1> SUFFICES ASSUME NEW u \in Threads, NEW i \in 1 .. Len(stack'[u]) PROVE FrameFits(u, i)'
  BY DEF StacksOK
<1>3. i \in 1 .. Len(stack[u]) /\ stack'[u][i] = stack[u][i]
  BY <1>1, <1>2
<1>4. \A j \in 1 .. i - 1 : \A s : Holds(u, j, s) => Holds(u, j, s)'
  BY <1>1, <1>2 DEF Holds
<1> QED
  BY <1>2, <1>3, <1>4, StillFits

LEMMA StacksMoved ==
  ASSUME RInv, NEW t \in Threads, stack[t] # <<>>, NEW f \in Frames,
         stack' = [stack EXCEPT ![t][Len(stack[t])] = f],
         f.s = Top(t).s, f.kind = "nested" <=> Top(t).kind = "nested",
         f.h <= issued, f.pc \in {"run", "handler"} => t \in Pool, issued' = issued
  PROVE  StacksOK'
<1> DEFINE n == Len(stack[t])
<1>1. /\ n \in Nat \ {0} /\ \A u \in Threads \ {t} : stack'[u] = stack[u]
      /\ Len(stack'[t]) = n /\ stack'[t][n] = f
      /\ \A i \in 1 .. n - 1 : stack'[t][i] = stack[t][i]
  BY MoveFacts DEF RInv, IInv
<1>2. n = Len(stack[t]) /\ Top(t) = stack[t][n] /\ issued \in Nat
  BY <1>1 DEF Top, RInv, IInv, TypeOK
<1> HIDE DEF n
<1> SUFFICES ASSUME NEW u \in Threads, NEW i \in 1 .. Len(stack'[u]) PROVE FrameFits(u, i)'
  BY DEF StacksOK
<1>3. i \in 1 .. Len(stack[u]) /\ \A j \in 1 .. i - 1 : stack'[u][j] = stack[u][j]
  BY <1>1, <1>2
<1>4. \A j \in 1 .. i - 1 : \A s : Holds(u, j, s) => Holds(u, j, s)'
  BY <1>1, <1>2, <1>3 DEF Holds
<1>5. CASE u = t /\ i = n
  <2>1. FrameFits(t, n)
    BY <1>3, <1>5 DEF RInv, StacksOK
  <2>2. PICK s : s = f.s
    OBVIOUS
  <2>3. f.kind = "nested" => \E j \in 1 .. n - 1 : Holds(t, j, f.s)
    BY <1>2, <2>1 DEF FrameFits
  <2>4. f.kind = "nested" => \E j \in 1 .. n - 1 : Holds(t, j, f.s)'
    BY <1>4, <1>5, <2>3
  <2> QED
    BY <1>1, <1>5, <2>4 DEF FrameFits
<1>6. CASE ~(u = t /\ i = n)
  <2>1. stack'[u][i] = stack[u][i]
    BY <1>1, <1>2, <1>3, <1>6
  <2> QED
    BY <1>2, <1>3, <1>4, <2>1, StillFits
<1> QED
  BY <1>5, <1>6

-----------------------------------------------------------------------------
(* What the mapping shows of a step.                                       *)

\* The mapping in terms of frames, before and after a step.
LEMMA ActiveFrames ==
  ASSUME NEW s \in Strands
  PROVE  /\ \A r : r \in Active[s] <=>
                \E t \in Threads, i \in Nat : \E h :
                    Frame(t, i, "handler", s, h) /\ r = [h |-> h, at |-> i]
         /\ \A r : r \in Active'[s] <=>
                \E t \in Threads, i \in Nat : \E h :
                    Frame(t, i, "handler", s, h)' /\ r = [h |-> h, at |-> i]
BY DEF Active, Places, Frame

LEMMA OwnerFrames ==
  ASSUME NEW s \in Strands
  PROVE  /\ \A t : t \in Owner[s] <=>
                t \in Threads /\ \E i \in Nat : \E h : Frame(t, i, "handler", s, h)
         /\ \A t : t \in Owner'[s] <=>
                t \in Threads /\ \E i \in Nat : \E h : Frame(t, i, "handler", s, h)'
<1>1. /\ Owner[s] = {t \in Threads : Places(t, s, "handler") # {}}
      /\ Owner'[s] = {t \in Threads : Places(t, s, "handler")' # {}}
  BY DEF Owner
<1>2. ASSUME NEW t
      PROVE  /\ Places(t, s, "handler") # {} <=> \E i \in Nat : \E h : Frame(t, i, "handler", s, h)
             /\ Places(t, s, "handler")' # {} <=> \E i \in Nat : \E h : Frame(t, i, "handler", s, h)'
  <2>1. /\ \A i : i \in Places(t, s, "handler") => i \in Nat /\ Frame(t, i, "handler", s, stack[t][i].h)
        /\ \A i : i \in Places(t, s, "handler")' =>
                    i \in Nat /\ Frame(t, i, "handler", s, stack[t][i].h)'
    BY DEF Places, Frame
  <2>2. /\ \A i, h : Frame(t, i, "handler", s, h) => i \in Places(t, s, "handler")
        /\ \A i, h : Frame(t, i, "handler", s, h)' => i \in Places(t, s, "handler")'
    BY DEF Places, Frame
  <2> QED
    BY <2>1, <2>2
<1> QED
  BY <1>1, <1>2

LEMMA PushingFrames ==
  ASSUME NEW s
  PROVE  /\ \A h : h \in Pushing(s) <=> \E t \in Threads, i \in Nat : Frame(t, i, "push", s, h)
         /\ \A h : h \in Pushing(s)' <=> \E t \in Threads, i \in Nat : Frame(t, i, "push", s, h)'
BY DEF Pushing, Places, Frame

LEMMA NoneActive ==
  ASSUME NEW s \in Strands, \A t \in Threads, i \in Nat : \A h : ~Frame(t, i, "handler", s, h)
  PROVE  Active[s] = {} /\ Owner[s] = {}
<1>1. (\A r : r \notin Active[s]) /\ (\A t : t \notin Owner[s])
  BY ActiveFrames, OwnerFrames
<1> QED
  BY <1>1

LEMMA MapsOnStrands ==
  /\ Active = [s \in Strands |-> Active[s]] /\ Active' = [s \in Strands |-> Active'[s]]
  /\ Owner = [s \in Strands |-> Owner[s]] /\ Owner' = [s \in Strands |-> Owner'[s]]
BY DEF Active, Owner

\* No handler starts or ends ...
LEMMA SameActive ==
  ASSUME \A u \in Threads, j \in Nat : \A s, k :
            Frame(u, j, "handler", s, k)' <=> Frame(u, j, "handler", s, k)
  PROVE  Active' = Active /\ Owner' = Owner
<1>1. ASSUME NEW s \in Strands PROVE Active'[s] = Active[s] /\ Owner'[s] = Owner[s]
  <2>1. \A r : r \in Active'[s] <=> r \in Active[s]
    BY ActiveFrames
  <2>2. \A t : t \in Owner'[s] <=> t \in Owner[s]
    BY OwnerFrames
  <2> QED
    BY <2>1, <2>2
<1> QED
  BY <1>1, MapsOnStrands

\* ... one starts ...
LEMMA OneMore ==
  ASSUME NEW t \in Threads, NEW i \in 1 .. MaxDepth, NEW x \in Strands, NEW h \in Handlers,
         \A u \in Threads, j \in Nat : \A s, k :
            Frame(u, j, "handler", s, k)' <=>
                Frame(u, j, "handler", s, k) \/ (u = t /\ j = i /\ s = x /\ k = h)
  PROVE  /\ Active' = [Active EXCEPT ![x] = Active[x] \cup {[h |-> h, at |-> i]}]
         /\ Owner' = [Owner EXCEPT ![x] = Owner[x] \cup {t}]
<1>1. ASSUME NEW s \in Strands
      PROVE  /\ Active'[s] = IF s = x THEN Active[x] \cup {[h |-> h, at |-> i]} ELSE Active[s]
             /\ Owner'[s] = IF s = x THEN Owner[x] \cup {t} ELSE Owner[s]
  <2>1. \A r : r \in Active'[s] <=> r \in Active[s] \/ (s = x /\ r = [h |-> h, at |-> i])
    BY ActiveFrames
  <2>2. \A u : u \in Owner'[s] <=> u \in Owner[s] \/ (s = x /\ u = t)
    BY OwnerFrames
  <2> QED
    BY <2>1, <2>2
<1> QED
  BY <1>1, MapsOnStrands

\* ... or one ends, and whether it was the last of its strand.
LEMMA OneLess ==
  ASSUME NEW t \in Threads, NEW i \in 1 .. MaxDepth, NEW x \in Strands, NEW h \in Handlers,
         Frame(t, i, "handler", x, h),
         \A u \in Threads, j \in Nat : \A k : Frame(u, j, "handler", x, k) => u = t,
         \A u \in Threads, j \in Nat : \A s, k :
            Frame(u, j, "handler", s, k)' <=> Frame(u, j, "handler", s, k) /\ ~(u = t /\ j = i)
  PROVE  LET r == [h |-> h, at |-> i]
         IN  /\ r \in Active[x]
             /\ Active' = [Active EXCEPT ![x] = Active[x] \ {r}]
             /\ Owner' = [Owner EXCEPT ![x] = IF Active[x] = {r} THEN {} ELSE Owner[x]]
<1> DEFINE r == [h |-> h, at |-> i]
<1>1. r.h = h /\ r.at = i /\ \A k, j : [h |-> k, at |-> j] = r <=> k = h /\ j = i
  OBVIOUS
<1>2. \A s, k : Frame(t, i, "handler", s, k) => s = x /\ k = h
  BY DEF Frame
<1>3. r \in Active[x]
  BY ActiveFrames
<1> HIDE DEF r
<1>4. ASSUME NEW s \in Strands \ {x} PROVE Active'[s] = Active[s] /\ Owner'[s] = Owner[s]
  <2>1. \A u \in Threads, j \in Nat : \A k : Frame(u, j, "handler", s, k)' <=> Frame(u, j, "handler", s, k)
    BY <1>2
  <2>2. \A q : q \in Active'[s] <=> q \in Active[s]
    BY <2>1, ActiveFrames
  <2>3. \A u : u \in Owner'[s] <=> u \in Owner[s]
    BY <2>1, OwnerFrames
  <2> QED
    BY <2>2, <2>3
<1>5. \A q : q \in Active[x] => \E j \in Nat : \E k : Frame(t, j, "handler", x, k) /\ q = [h |-> k, at |-> j]
  BY ActiveFrames
<1>6. \A q : q \in Active'[x] <=> q \in Active[x] /\ q # r
  <2> SUFFICES ASSUME NEW q PROVE q \in Active'[x] <=> q \in Active[x] /\ q # r
    OBVIOUS
  <2>1. ASSUME q \in Active'[x] PROVE q \in Active[x] /\ q # r
    <3>1. PICK u, j, k :
             u \in Threads /\ j \in Nat /\ Frame(u, j, "handler", x, k)' /\ q = [h |-> k, at |-> j]
      BY <2>1, ActiveFrames
    <3>2. Frame(u, j, "handler", x, k) /\ ~(u = t /\ j = i) /\ u = t
      BY <3>1
    <3> QED
      BY <1>1, <3>1, <3>2, ActiveFrames
  <2>2. ASSUME q \in Active[x], q # r PROVE q \in Active'[x]
    <3>1. PICK j, k : j \in Nat /\ Frame(t, j, "handler", x, k) /\ q = [h |-> k, at |-> j]
      BY <1>5, <2>2
    <3>2. j # i
      BY <1>1, <1>2, <2>2, <3>1
    <3>3. Frame(t, j, "handler", x, k)'
      BY <3>1, <3>2
    <3> QED
      BY <3>1, <3>3, ActiveFrames
  <2> QED
    BY <2>1, <2>2
<1>7. Active'[x] = Active[x] \ {r}
  BY <1>6
<1>8. Owner'[x] = IF Active[x] = {r} THEN {} ELSE Owner[x]
  <2>1. \A u : u \in Owner'[x] => u = t /\ \E q : q \in Active'[x]
    <3> SUFFICES ASSUME NEW u, u \in Owner'[x] PROVE u = t /\ \E q : q \in Active'[x]
      OBVIOUS
    <3>1. PICK j, k : j \in Nat /\ u \in Threads /\ Frame(u, j, "handler", x, k)'
      BY OwnerFrames
    <3>2. u = t
      BY <3>1
    <3>3. [h |-> k, at |-> j] \in Active'[x]
      BY <3>1, ActiveFrames
    <3> QED
      BY <3>2, <3>3
  <2>2. \A q : q \in Active'[x] => t \in Owner'[x]
    <3> SUFFICES ASSUME NEW q, q \in Active'[x] PROVE t \in Owner'[x]
      OBVIOUS
    <3>1. PICK u, j, k : u \in Threads /\ j \in Nat /\ Frame(u, j, "handler", x, k)'
      BY ActiveFrames
    <3> QED
      BY <3>1, OwnerFrames
  <2>3. \A u : u \in Owner[x] <=> u = t
    BY OwnerFrames
  <2>4. CASE Active[x] = {r}
    BY <1>7, <2>1, <2>4
  <2>5. CASE Active[x] # {r}
    <3>1. \E q : q \in Active'[x]
      BY <1>3, <1>7, <2>5
    <3>2. \A u : u \in Owner'[x] <=> u \in Owner[x]
      BY <2>1, <2>2, <2>3, <3>1
    <3> QED
      BY <2>5, <3>2
  <2> QED
    BY <2>4, <2>5
<1>9. /\ Active' = [Active EXCEPT ![x] = Active[x] \ {r}]
      /\ Owner' = [Owner EXCEPT ![x] = IF Active[x] = {r} THEN {} ELSE Owner[x]]
  BY <1>4, <1>7, <1>8, MapsOnStrands
<1> QED
  BY <1>3, <1>9 DEF r

\* The handler on its way to the ready queue, before and after a step.
LEMMA NonePushing ==
  ASSUME NEW s
  PROVE  /\ (\A u \in Threads, j \in Nat : \A k : ~Frame(u, j, "push", s, k))
               => Pushing(s) = {} /\ Held(s) = <<>>
         /\ (\A u \in Threads, j \in Nat : \A k : ~Frame(u, j, "push", s, k)')
               => Pushing(s)' = {} /\ Held(s)' = <<>>
<1>1. /\ (\A u \in Threads, j \in Nat : \A k : ~Frame(u, j, "push", s, k)) => Pushing(s) = {}
      /\ (\A u \in Threads, j \in Nat : \A k : ~Frame(u, j, "push", s, k)') => Pushing(s)' = {}
  BY PushingFrames
<1> QED
  BY <1>1 DEF Held

LEMMA OnePushing ==
  ASSUME NEW s, NEW h
  PROVE  /\ Pushing(s) = {h} => Held(s) = <<h>>
         /\ Pushing(s)' = {h} => Held(s)' = <<h>>
BY DEF Held

LEMMA SamePushing ==
  ASSUME NEW s, \A u \in Threads, j \in Nat : \A k : Frame(u, j, "push", s, k)' <=> Frame(u, j, "push", s, k)
  PROVE  Pushing(s)' = Pushing(s) /\ Held(s)' = Held(s)
<1>1. \A k : k \in Pushing(s)' <=> k \in Pushing(s)
  BY PushingFrames
<1>2. Pushing(s)' = Pushing(s)
  BY <1>1
<1> QED
  BY <1>2 DEF Held

\* The accepted handlers are among those submitted, ...
LEMMA AcceptedType ==
  ASSUME RInv, NEW s \in Strands
  PROVE  /\ Held(s) \in Seq(1 .. issued) /\ ready_queue_[s] \in Seq(1 .. issued)
         /\ waiting_queue_[s] \in Seq(1 .. issued)
         /\ Accepted[s] = Held(s) \o ready_queue_[s] \o waiting_queue_[s]
         /\ Accepted[s] \in Seq(1 .. issued) /\ issued \in Nat
<1>1. Pushing(s) \subseteq 1 .. issued
  <2>1. ASSUME NEW h \in Pushing(s) PROVE h \in 1 .. issued
    <3>1. PICK t \in Threads, i \in Nat : Frame(t, i, "push", s, h)
      BY <2>1, PushingFrames
    <3> QED
      BY <3>1, FrameBounds
  <2> QED
    BY <2>1
<1>2. Held(s) \in Seq(1 .. issued)
  <2>1. CASE Pushing(s) = {}
    BY <2>1 DEF Held
  <2>2. CASE Pushing(s) # {}
    <3>1. PICK h \in 1 .. issued : Held(s) = <<h>>
      BY <1>1, <2>2 DEF Held
    <3>2. <<h>> \in Seq(1 .. issued)
      OBVIOUS
    <3> QED
      BY <3>1, <3>2
  <2> QED
    BY <2>1, <2>2
<1>3. ready_queue_[s] \in Seq(1 .. issued) /\ waiting_queue_[s] \in Seq(1 .. issued)
  BY DEF RInv, QueuesOK
<1>4. Accepted[s] = Held(s) \o ready_queue_[s] \o waiting_queue_[s]
  BY DEF Accepted
<1>5. Accepted[s] \in Seq(1 .. issued)
  BY <1>2, <1>3, <1>4, ConcatProperties
<1> QED
  BY <1>2, <1>3, <1>4, <1>5 DEF RInv, IInv, TypeOK

\* ... so the next one submitted is new to the promise.
LEMMA NextFresh == ASSUME RInv, issued < MaxHandlers
                   PROVE  issued + 1 \in Handlers /\ Promise!Fresh(issued + 1)
<1>1. issued \in Nat
  BY DEF RInv, IInv, TypeOK
<1>2. issued + 1 \notin done \cup destroyed
  BY <1>1 DEF RInv
<1>3. ASSUME NEW s \in Strands PROVE \A i \in 1 .. Len(Accepted[s]) : Accepted[s][i] # issued + 1
  <2>1. Accepted[s] \in Seq(1 .. issued)
    BY AcceptedType
  <2> QED
    BY <1>1, <2>1
<1>4. ASSUME NEW s \in Strands, NEW r \in Active[s] PROVE r.h # issued + 1
  <2>1. PICK t, i, h :
           t \in Threads /\ i \in Nat /\ Frame(t, i, "handler", s, h) /\ r = [h |-> h, at |-> i]
    BY ActiveFrames
  <2>2. h \in 1 .. issued
    BY <2>1, FrameBounds
  <2> QED
    BY <1>1, <2>1, <2>2
<1> QED
  BY <1>1, <1>2, <1>3, <1>4 DEF Promise!Fresh, Handlers

\* Sequences.
LEMMA AppendOfConcat ==
  ASSUME NEW S, NEW q \in Seq(S), NEW r \in Seq(S), NEW x \in S
  PROVE  q \o Append(r, x) = Append(q \o r, x)
<1>1. <<x>> \in Seq(S) /\ q \o r \in Seq(S)
  BY ConcatProperties
<1>2. Append(r, x) = r \o <<x>> /\ Append(q \o r, x) = (q \o r) \o <<x>>
  BY <1>1, AppendIsConcat
<1> QED
  BY <1>1, <1>2, ConcatAssociative

LEMMA ConcatHeadTail ==
  ASSUME NEW S, NEW q \in Seq(S), NEW r \in Seq(S), q # <<>>
  PROVE  q \o r # <<>> /\ Head(q \o r) = Head(q) /\ Tail(q \o r) = Tail(q) \o r
<1>1. /\ Len(q) \in Nat \ {0} /\ Len(r) \in Nat /\ q \o r \in Seq(S) /\ Len(q \o r) = Len(q) + Len(r)
      /\ \A i \in 1 .. Len(q) + Len(r) : (q \o r)[i] = IF i <= Len(q) THEN q[i] ELSE r[i - Len(q)]
  BY ConcatProperties, LenProperties, EmptySeq
<1>2. /\ Tail(q) \in Seq(S) /\ Len(Tail(q)) = Len(q) - 1
      /\ \A i \in 1 .. Len(Tail(q)) : Tail(q)[i] = q[i + 1]
  BY HeadTailProperties
<1>3. q \o r # <<>>
  BY <1>1
<1>4. /\ Tail(q \o r) \in Seq(S) /\ Len(Tail(q \o r)) = Len(q \o r) - 1
      /\ \A i \in 1 .. Len(Tail(q \o r)) : Tail(q \o r)[i] = (q \o r)[i + 1]
  BY <1>1, <1>3, HeadTailProperties
<1>5. /\ Tail(q) \o r \in Seq(S) /\ Len(Tail(q) \o r) = Len(Tail(q)) + Len(r)
      /\ \A i \in 1 .. Len(Tail(q)) + Len(r) :
            (Tail(q) \o r)[i] = IF i <= Len(Tail(q)) THEN Tail(q)[i] ELSE r[i - Len(Tail(q))]
  BY <1>2, ConcatProperties
<1>6. Len(Tail(q \o r)) = Len(Tail(q) \o r)
  BY <1>1, <1>2, <1>4, <1>5
<1>7. ASSUME NEW i \in 1 .. Len(Tail(q \o r)) PROVE Tail(q \o r)[i] = (Tail(q) \o r)[i]
  BY <1>1, <1>2, <1>4, <1>5
<1>8. Tail(q \o r) = Tail(q) \o r
  BY <1>4, <1>5, <1>6, <1>7, SeqEqual
<1>9. Head(q \o r) = Head(q)
  BY <1>1, <1>3
<1> QED
  BY <1>3, <1>8, <1>9

-----------------------------------------------------------------------------
(* The steps the promise does not see.                                     *)

\* Frames come and go, none of them to run a handler or to push one.
LEMMA Quiet ==
  ASSUME RInv, IInv', StacksOK', ~shutdown_,
         UNCHANGED <<shutdown_, waiting_queue_, ready_queue_, issued, done, destroyed>>,
         \A u \in Threads, j \in Nat : \A s, k :
            /\ Frame(u, j, "push", s, k)' <=> Frame(u, j, "push", s, k)
            /\ Frame(u, j, "handler", s, k)' <=> Frame(u, j, "handler", s, k)
  PROVE  RInv' /\ UNCHANGED Promise!vars
<1>1. \A s \in Strands : Pushing(s)' = Pushing(s) /\ Held(s)' = Held(s)
  <2> SUFFICES ASSUME NEW s \in Strands PROVE Pushing(s)' = Pushing(s) /\ Held(s)' = Held(s)
    OBVIOUS
  <2> QED
    BY SamePushing
<1>2. Accepted' = Accepted
  BY <1>1 DEF Accepted
<1>3. Active' = Active /\ Owner' = Owner
  BY SameActive
<1>4. QueuesOK'
  BY <1>1 DEF RInv, QueuesOK
<1>5. ClosedOK' /\ (done \cup destroyed \subseteq 1 .. issued)'
  BY DEF RInv, ClosedOK
<1> QED
  BY <1>2, <1>3, <1>4, <1>5 DEF RInv, Promise!vars

LEMMA TopFits ==
  ASSUME RInv, NEW t \in Threads, stack[t] # <<>>
  PROVE  /\ Top(t).h <= issued /\ (Top(t).pc \in {"run", "handler"} => t \in Pool)
         /\ Frame(t, Len(stack[t]), Top(t).pc, Top(t).s, Top(t).h)
         /\ Len(stack[t]) \in 1 .. MaxDepth
<1>1. stack[t] \in Seq(Frames)
  BY DEF RInv, IInv, TypeOK
<1>2. Len(stack[t]) \in 1 .. Len(stack[t])
  BY <1>1
<1>3. FrameFits(t, Len(stack[t])) /\ Len(stack[t]) <= MaxDepth
  BY <1>2 DEF RInv, StacksOK, IInv, FramesOK
<1> QED
  BY <1>1, <1>2, <1>3 DEF FrameFits, Top, Frame

\* The top frame of t goes on.
LEMMA TopGoesOn ==
  ASSUME RInv, NEW t \in Threads, stack[t] # <<>>, NEW h \in 0 .. MaxHandlers, h <= issued,
         NEW pc \in {"submit", "run", "handler", "exit", "resubmit"},
         pc \in {"run", "handler"} => t \in Pool, stack' = Moved(t, pc, h), issued' = issued
  PROVE  /\ StacksOK' /\ Top(t) \in Frames
         /\ \A u \in Threads, i \in Nat : \A qc, s, k :
               Frame(u, i, qc, s, k)' <=>
                  IF u = t /\ i = Len(stack[t]) THEN qc = pc /\ s = Top(t).s /\ k = h
                                                ELSE Frame(u, i, qc, s, k)
<1> DEFINE f == [Top(t) EXCEPT !.pc = pc, !.h = h]
<1>1. Top(t) \in Frames
  BY TopHolds DEF RInv, IInv
<1>2. f \in Frames /\ f.s = Top(t).s /\ f.kind = Top(t).kind /\ f.pc = pc /\ f.h = h
  BY <1>1 DEF Frames
<1>3. stack' = [stack EXCEPT ![t][Len(stack[t])] = f]
  BY DEF Moved
<1> HIDE DEF f
<1>4. StacksOK'
  BY <1>2, <1>3, StacksMoved
<1>5. \A u \in Threads, i \in Nat : \A qc, s, k :
         Frame(u, i, qc, s, k)' <=>
             IF u = t /\ i = Len(stack[t]) THEN f.pc = qc /\ f.s = s /\ f.h = k
                                           ELSE Frame(u, i, qc, s, k)
  BY <1>2, <1>3, FrameMoved DEF RInv, IInv
<1> QED
  BY <1>1, <1>2, <1>4, <1>5

LEMMA SubmitStep ==
  ASSUME RInv, IInv', NEW t \in Threads, Submit(t) \/ Resubmit(t)
  PROVE  RInv' /\ UNCHANGED Promise!vars
<1>1. /\ stack[t] # <<>> /\ stack' = Popped(t) /\ Top(t).pc \in {"submit", "resubmit"}
      /\ UNCHANGED <<shutdown_, waiting_queue_, ready_queue_, issued, done, destroyed>>
  BY DEF Submit, Resubmit, At
<1>2. /\ \A u \in Threads, i \in Nat : \A pc, s, h :
            Frame(u, i, pc, s, h)' <=> Frame(u, i, pc, s, h) /\ ~(u = t /\ i = Len(stack[t]))
  BY <1>1, FramePopped DEF RInv, IInv
<1>3. \A s, h : ~Frame(t, Len(stack[t]), "push", s, h) /\ ~Frame(t, Len(stack[t]), "handler", s, h)
  BY <1>1 DEF Frame, Top
<1>4. StacksOK'
  BY <1>1, StacksPopped
<1> QED
  BY <1>1, <1>2, <1>3, <1>4, NotClosed, Quiet

LEMMA SubmitInPlaceStep ==
  ASSUME RInv, IInv', NEW t \in Threads, SubmitInPlace(t)
  PROVE  RInv' /\ UNCHANGED Promise!vars
<1> DEFINE f == [Top(t) EXCEPT !.kind = "invoker", !.pc = "run"]
<1>1. stack[t] # <<>> /\ Top(t) \in Frames /\ Top(t).pc = "submit" /\ Top(t).kind = "dispatch"
  BY TopAt DEF RInv, SubmitInPlace, At
<1>2. stack' = [stack EXCEPT ![t][Len(stack[t])] = f]
  <2>1. stack[t] \in Seq(Frames) /\ stack \in [Threads -> Seq(Frames)]
    BY DEF RInv, IInv, TypeOK
  <2> QED
    BY <1>1, <2>1 DEF SubmitInPlace, Top
<1>3. f \in Frames /\ f.s = Top(t).s /\ f.kind = "invoker" /\ f.pc = "run" /\ f.h = Top(t).h
  BY <1>1 DEF Frames
<1>4. f.h <= issued /\ t \in Pool
  BY <1>1, <1>3, TopFits DEF SubmitInPlace
<1> HIDE DEF f
<1>5. \A u \in Threads, i \in Nat : \A pc, s, h :
         Frame(u, i, pc, s, h)' <=>
             IF u = t /\ i = Len(stack[t]) THEN f.pc = pc /\ f.s = s /\ f.h = h
                                           ELSE Frame(u, i, pc, s, h)
  BY <1>1, <1>2, <1>3, FrameMoved DEF RInv, IInv
<1>6. \A s, h : ~Frame(t, Len(stack[t]), "push", s, h) /\ ~Frame(t, Len(stack[t]), "handler", s, h)
  BY <1>1 DEF Frame, Top
<1>7. StacksOK'
  BY <1>1, <1>2, <1>3, <1>4, StacksMoved DEF SubmitInPlace
<1>8. \A u \in Threads, i \in Nat : \A s, h :
         /\ Frame(u, i, "push", s, h)' <=> Frame(u, i, "push", s, h)
         /\ Frame(u, i, "handler", s, h)' <=> Frame(u, i, "handler", s, h)
  BY <1>3, <1>5, <1>6
<1> QED
  BY <1>1, <1>7, <1>8, NotClosed, Quiet DEF SubmitInPlace

LEMMA RunInvokerStep ==
  ASSUME RInv, IInv', NEW t \in Threads, NEW s \in Strands, RunInvoker(t, s)
  PROVE  RInv' /\ UNCHANGED Promise!vars
<1> DEFINE f == [s |-> s, h |-> 0, kind |-> "invoker", pc |-> "run"]
<1>1. f \in Frames /\ f.kind = "invoker" /\ f.pc = "run" /\ f.h = 0
  BY DEF Frames
<1>2. stack' = Pushed(t, f) /\ t \in Pool /\ issued \in Nat /\ issued' = issued
  BY DEF RunInvoker, RInv, IInv, TypeOK
<1> HIDE DEF f
<1>3. \A u \in Threads, i \in Nat : \A pc, x, h :
         Frame(u, i, pc, x, h)' <=>
             Frame(u, i, pc, x, h) \/ (u = t /\ i = Len(stack[t]) + 1 /\ f.pc = pc /\ f.s = x /\ f.h = h)
  BY <1>1, <1>2, FramePushed DEF RInv, IInv
<1>4. StacksOK'
  BY <1>1, <1>2, StacksPushed
<1> QED
  BY <1>1, <1>3, <1>4, Quiet DEF RunInvoker

\* The frame that holds a strand, on top of its stack, is all there is of the strand.
LEMMA TopFrame ==
  ASSUME RInv, NEW t \in Threads, stack[t] # <<>>, Top(t).kind # "nested"
  PROVE  \A u \in Threads, i \in Nat : \A pc, k :
            Frame(u, i, pc, Top(t).s, k) <=>
                u = t /\ i = Len(stack[t]) /\ pc = Top(t).pc /\ k = Top(t).h
<1> SUFFICES ASSUME NEW u \in Threads, NEW i \in Nat, NEW pc, NEW k
             PROVE  Frame(u, i, pc, Top(t).s, k) <=>
                        u = t /\ i = Len(stack[t]) /\ pc = Top(t).pc /\ k = Top(t).h
  OBVIOUS
<1>1. Frame(u, i, pc, Top(t).s, k) => u = t /\ i = Len(stack[t])
  BY TopAlone
<1>2. Frame(t, Len(stack[t]), pc, Top(t).s, k) => pc = Top(t).pc /\ k = Top(t).h
  BY DEF Frame, Top
<1> QED
  BY <1>1, <1>2, TopFits

\* Handlers that were submitted before are among those submitted later.
LEMMA MoreHandlersKnown ==
  ASSUME RInv, issued' \in Nat, issued <= issued'
  PROVE  \A s \in Strands : /\ ready_queue_[s] \in Seq(1 .. issued')
                            /\ waiting_queue_[s] \in Seq(1 .. issued')
<1>1. issued \in Nat /\ 1 .. issued \subseteq 1 .. issued'
  BY DEF RInv, IInv, TypeOK
<1> QED
  BY <1>1, SeqMonotonic DEF RInv, QueuesOK

LEMMA SameIssued == ASSUME RInv, issued' = issued PROVE issued' \in Nat /\ issued <= issued'
BY DEF RInv, IInv, TypeOK

\* A step that touches the queues of one strand.
LEMMA OneStrand ==
  ASSUME RInv, NEW x \in Strands, issued' \in Nat, issued <= issued',
         \A s \in Strands \ {x} :
            /\ Pushing(s)' = Pushing(s) /\ Held(s)' = Held(s)
            /\ ready_queue_'[s] = ready_queue_[s] /\ waiting_queue_'[s] = waiting_queue_[s],
         Pushing(x)' # {} => ready_queue_'[x] = <<>>,
         ready_queue_'[x] \in Seq(1 .. issued'), waiting_queue_'[x] \in Seq(1 .. issued')
  PROVE  /\ QueuesOK'
         /\ Accepted' = [Accepted EXCEPT ![x] = Held(x)' \o ready_queue_'[x] \o waiting_queue_'[x]]
<1>1. QueuesOK'
  <2>1. \A s \in Strands : /\ ready_queue_[s] \in Seq(1 .. issued')
                           /\ waiting_queue_[s] \in Seq(1 .. issued')
    BY MoreHandlersKnown
  <2> QED
    BY <2>1 DEF RInv, QueuesOK
<1>2. \A s \in Strands : Accepted'[s] = Held(s)' \o ready_queue_'[s] \o waiting_queue_'[s]
  BY DEF Accepted
<1>3. \A s \in Strands \ {x} : Accepted'[s] = Accepted[s]
  BY DEF Accepted
<1>4. Accepted' = [s \in Strands |-> Accepted'[s]] /\ Accepted = [s \in Strands |-> Accepted[s]]
  BY DEF Accepted
<1> QED
  BY <1>1, <1>2, <1>3, <1>4

LEMMA PushReadyStep ==
  ASSUME RInv, IInv', NEW t \in Threads, PushReady(t)
  PROVE  RInv' /\ UNCHANGED Promise!vars
<1>0. PICK x \in Strands, h \in Handlers : x = Top(t).s /\ h = Top(t).h
  BY TopAt DEF RInv, PushReady
<1>1. /\ stack[t] # <<>> /\ Top(t).pc = "push" /\ Top(t).kind # "nested" /\ h <= issued
      /\ Len(stack[t]) \in 1 .. MaxDepth /\ ~shutdown_
  BY <1>0, TopAt, TopFits, NotClosed DEF RInv, PushReady, At
<1>2. /\ ready_queue_' = [ready_queue_ EXCEPT ![x] = Append(ready_queue_[x], h)]
      /\ stack' = Moved(t, "submit", 0)
      /\ UNCHANGED <<shutdown_, waiting_queue_, issued, done, destroyed>>
  BY <1>0 DEF PushReady
<1>3. \A u \in Threads, i \in Nat : \A pc, k :
         Frame(u, i, pc, x, k) <=> u = t /\ i = Len(stack[t]) /\ pc = "push" /\ k = h
  <2>1. \A u \in Threads, i \in Nat : \A pc, k :
           Frame(u, i, pc, Top(t).s, k) <=>
               u = t /\ i = Len(stack[t]) /\ pc = Top(t).pc /\ k = Top(t).h
    BY <1>1, TopFrame
  <2> QED
    BY <1>0, <1>1, <2>1
<1>4. /\ StacksOK'
      /\ \A u \in Threads, i \in Nat : \A qc, s, k :
            Frame(u, i, qc, s, k)' <=>
               IF u = t /\ i = Len(stack[t]) THEN qc = "submit" /\ s = x /\ k = 0
                                             ELSE Frame(u, i, qc, s, k)
  <2>1. 0 <= issued
    BY DEF RInv, IInv, TypeOK
  <2> QED
    BY <1>0, <1>1, <1>2, <2>1, TopGoesOn
<1>5. \A k, s : Frame(t, Len(stack[t]), "push", s, k) => s = x
  BY <1>0 DEF Frame, Top
<1>6. ASSUME NEW s \in Strands \ {x} PROVE Pushing(s)' = Pushing(s) /\ Held(s)' = Held(s)
  <2>1. \A u \in Threads, j \in Nat : \A k : Frame(u, j, "push", s, k)' <=> Frame(u, j, "push", s, k)
    BY <1>4, <1>5
  <2> QED
    BY <2>1, SamePushing
<1>7. Pushing(x) = {h} /\ Held(x) = <<h>>
  <2>1. PICK n \in 1 .. MaxDepth : n = Len(stack[t])
    BY <1>1
  <2>2. \A u \in Threads, i \in Nat : \A k : Frame(u, i, "push", x, k) <=> u = t /\ i = n /\ k = h
    BY <1>3, <2>1
  <2>3. Pushing(x) = {h}
    BY <2>2, PushingFrames
  <2> QED
    BY <2>3, OnePushing
<1>8. Pushing(x)' = {} /\ Held(x)' = <<>>
  <2>1. \A u \in Threads, i \in Nat : \A k : ~Frame(u, i, "push", x, k)'
    BY <1>3, <1>4
  <2> QED
    BY <2>1, NonePushing
<1>9. ready_queue_[x] = <<>> /\ ready_queue_'[x] = <<h>>
  <2>1. ready_queue_[x] = <<>>
    BY <1>7 DEF RInv, QueuesOK
  <2>2. ready_queue_'[x] = Append(<<>>, h)
    BY <1>2, <2>1 DEF RInv, IInv, TypeOK
  <2> QED
    BY <2>1, <2>2
<1>10. \A s \in Strands \ {x} : ready_queue_'[s] = ready_queue_[s]
  BY <1>2 DEF RInv, IInv, TypeOK
<1>11. /\ waiting_queue_[x] \in Seq(1 .. issued) /\ <<h>> \in Seq(1 .. issued)
       /\ Accepted[x] = <<h>> \o <<>> \o waiting_queue_[x]
  <2>1. h \in 1 .. issued
    BY <1>1 DEF Handlers, RInv, IInv, TypeOK
  <2> QED
    BY <1>7, <1>9, <2>1, AcceptedType
<1>12. /\ QueuesOK'
       /\ Accepted' = [Accepted EXCEPT ![x] = <<>> \o <<h>> \o waiting_queue_[x]]
  <2>1. issued' \in Nat /\ issued <= issued' /\ issued' = issued
    BY <1>2, SameIssued
  <2> QED
    BY <1>2, <1>6, <1>8, <1>9, <1>10, <1>11, <2>1, OneStrand
<1>13. Accepted' = Accepted
  <2>1. <<>> \o <<h>> = <<h>> /\ <<h>> \o <<>> = <<h>>
    OBVIOUS
  <2> QED
    BY <1>11, <1>12, <2>1 DEF Accepted
<1>14. Active' = Active /\ Owner' = Owner
  <2>1. \A s, k : ~Frame(t, Len(stack[t]), "handler", s, k)
    BY <1>1 DEF Frame, Top
  <2>2. \A u \in Threads, j \in Nat : \A s, k :
           Frame(u, j, "handler", s, k)' <=> Frame(u, j, "handler", s, k)
    BY <1>4, <2>1
  <2> QED
    BY <2>2, SameActive
<1>15. ClosedOK' /\ (done \cup destroyed \subseteq 1 .. issued)'
  BY <1>1, <1>2 DEF RInv, ClosedOK
<1> QED
  BY <1>2, <1>4, <1>12, <1>13, <1>14, <1>15 DEF RInv, Promise!vars

LEMMA PushWaitingToReadyStep ==
  ASSUME RInv, IInv', NEW t \in Threads, PushWaitingToReady(t)
  PROVE  RInv' /\ UNCHANGED Promise!vars
<1>0. PICK x \in Strands : x = Top(t).s
  BY TopAt DEF RInv, PushWaitingToReady
<1>1. /\ stack[t] # <<>> /\ Top(t).pc = "exit" /\ Top(t).kind # "nested" /\ ~shutdown_
  BY TopAt, NotClosed DEF RInv, PushWaitingToReady, At
<1>2. /\ ready_queue_' = [ready_queue_ EXCEPT ![x] = ready_queue_[x] \o waiting_queue_[x]]
      /\ waiting_queue_' = [waiting_queue_ EXCEPT ![x] = <<>>]
      /\ stack' = Moved(t, "resubmit", 0) \/ stack' = Popped(t)
      /\ UNCHANGED <<shutdown_, issued, done, destroyed>>
  BY <1>0 DEF PushWaitingToReady, ReadyFirst
<1>3. \A u \in Threads, i \in Nat : \A pc, k : Frame(u, i, pc, x, k) => pc = "exit"
  <2>1. \A u \in Threads, i \in Nat : \A pc, k : Frame(u, i, pc, Top(t).s, k) => pc = Top(t).pc
    BY <1>1, TopFrame
  <2> QED
    BY <1>0, <1>1, <2>1
<1>4. \A s, k : ~Frame(t, Len(stack[t]), "push", s, k) /\ ~Frame(t, Len(stack[t]), "handler", s, k)
  BY <1>1 DEF Frame, Top
<1>5. /\ StacksOK'
      /\ \A u \in Threads, i \in Nat : \A s, k :
            /\ Frame(u, i, "push", s, k)' <=> Frame(u, i, "push", s, k)
            /\ Frame(u, i, "handler", s, k)' <=> Frame(u, i, "handler", s, k)
  <2>1. CASE stack' = Moved(t, "resubmit", 0)
    <3>1. 0 <= issued /\ 0 \in 0 .. MaxHandlers
      BY DEF RInv, IInv, TypeOK
    <3>2. /\ StacksOK'
          /\ \A u \in Threads, i \in Nat : \A qc, s, k :
                Frame(u, i, qc, s, k)' <=>
                   IF u = t /\ i = Len(stack[t]) THEN qc = "resubmit" /\ s = Top(t).s /\ k = 0
                                                 ELSE Frame(u, i, qc, s, k)
      BY <1>1, <1>2, <2>1, <3>1, TopGoesOn
    <3> QED
      BY <1>4, <3>2
  <2>2. CASE stack' = Popped(t)
    <3>1. \A u \in Threads, i \in Nat : \A pc, s, h :
             Frame(u, i, pc, s, h)' <=> Frame(u, i, pc, s, h) /\ ~(u = t /\ i = Len(stack[t]))
      BY <1>1, <2>2, FramePopped DEF RInv, IInv
    <3>2. StacksOK'
      BY <1>1, <1>2, <2>2, StacksPopped
    <3> QED
      BY <1>4, <3>1, <3>2
  <2> QED
    BY <1>2, <2>1, <2>2
<1>6. \A s \in Strands : Pushing(s)' = Pushing(s) /\ Held(s)' = Held(s)
  <2> SUFFICES ASSUME NEW s \in Strands PROVE Pushing(s)' = Pushing(s) /\ Held(s)' = Held(s)
    OBVIOUS
  <2> QED
    BY <1>5, SamePushing
<1>7. Pushing(x) = {} /\ Held(x) = <<>>
  BY <1>3, NonePushing
<1>8. /\ ready_queue_'[x] = ready_queue_[x] \o waiting_queue_[x] /\ waiting_queue_'[x] = <<>>
      /\ \A s \in Strands \ {x} : /\ ready_queue_'[s] = ready_queue_[s]
                                  /\ waiting_queue_'[s] = waiting_queue_[s]
  BY <1>2 DEF RInv, IInv, TypeOK
<1>9. /\ ready_queue_'[x] \in Seq(1 .. issued) /\ <<>> \in Seq(1 .. issued)
      /\ Accepted[x] = <<>> \o ready_queue_[x] \o waiting_queue_[x]
      /\ ready_queue_[x] \in Seq(1 .. issued) /\ waiting_queue_[x] \in Seq(1 .. issued)
  <2>1. /\ Accepted[x] = Held(x) \o ready_queue_[x] \o waiting_queue_[x]
        /\ ready_queue_[x] \in Seq(1 .. issued) /\ waiting_queue_[x] \in Seq(1 .. issued)
    BY AcceptedType
  <2>2. ready_queue_[x] \o waiting_queue_[x] \in Seq(1 .. issued)
    BY <2>1, ConcatProperties
  <2> QED
    BY <1>7, <1>8, <2>1, <2>2
<1>10. /\ QueuesOK'
       /\ Accepted' = [Accepted EXCEPT ![x] = <<>> \o ready_queue_'[x] \o <<>>]
  <2>1. issued' \in Nat /\ issued <= issued' /\ issued' = issued
    BY <1>2, SameIssued
  <2> QED
    BY <1>2, <1>6, <1>7, <1>8, <1>9, <2>1, OneStrand, ZenonT(30)
<1>11. Accepted' = Accepted
  <2>1. <<>> \o ready_queue_'[x] = ready_queue_'[x] /\ ready_queue_'[x] \o <<>> = ready_queue_'[x]
    BY <1>9, ConcatEmptySeq
  <2>2. <<>> \o ready_queue_[x] = ready_queue_[x]
    BY <1>9, ConcatEmptySeq
  <2>3. <<>> \o ready_queue_'[x] \o <<>> = Accepted[x]
    BY <1>8, <1>9, <2>1, <2>2
  <2> QED
    BY <1>10, <2>3 DEF Accepted
<1>12. Active' = Active /\ Owner' = Owner
  BY <1>5, SameActive
<1>13. ClosedOK' /\ (done \cup destroyed \subseteq 1 .. issued)'
  BY <1>1, <1>2 DEF RInv, ClosedOK
<1> QED
  BY <1>2, <1>5, <1>10, <1>11, <1>12, <1>13 DEF RInv, Promise!vars

LEMMA RunReadyStep ==
  ASSUME RInv, IInv', NEW t \in Threads, RunReady(t)
  PROVE  RInv' /\ [Promise!Next]_Promise!vars
<1>0. PICK x \in Strands, n \in 1 .. MaxDepth : x = Top(t).s /\ n = Len(stack[t])
  BY TopAt, TopFits DEF RInv, RunReady, At
<1>1. /\ stack[t] # <<>> /\ Top(t).pc = "run" /\ Top(t).kind # "nested" /\ ~shutdown_ /\ t \in Pool
      /\ UNCHANGED <<shutdown_, waiting_queue_, issued, done, destroyed>>
  BY TopAt, TopFits, NotClosed DEF RInv, RunReady, At
<1>2. \A u \in Threads, i \in Nat : \A pc, k : Frame(u, i, pc, x, k) => pc = "run"
  <2>1. \A u \in Threads, i \in Nat : \A pc, k : Frame(u, i, pc, Top(t).s, k) => pc = Top(t).pc
    BY <1>1, TopFrame
  <2> QED
    BY <1>0, <1>1, <2>1
<1>3. \A s, k : ~Frame(t, n, "push", s, k) /\ ~Frame(t, n, "handler", s, k)
  BY <1>0, <1>1 DEF Frame, Top
<1>4. Pushing(x) = {} /\ Held(x) = <<>>
  BY <1>2, NonePushing
<1>5. CASE ready_queue_[x] = <<>>
  <2>1. stack' = Moved(t, "exit", 0) /\ ready_queue_' = ready_queue_
    BY <1>0, <1>5 DEF RunReady
  <2>2. 0 <= issued /\ 0 \in 0 .. MaxHandlers
    BY DEF RInv, IInv, TypeOK
  <2>3. /\ StacksOK'
        /\ \A u \in Threads, i \in Nat : \A qc, s, k :
              Frame(u, i, qc, s, k)' <=>
                 IF u = t /\ i = n THEN qc = "exit" /\ s = Top(t).s /\ k = 0 ELSE Frame(u, i, qc, s, k)
    BY <1>0, <1>1, <2>1, <2>2, TopGoesOn
  <2>4. \A u \in Threads, i \in Nat : \A s, k :
              /\ Frame(u, i, "push", s, k)' <=> Frame(u, i, "push", s, k)
              /\ Frame(u, i, "handler", s, k)' <=> Frame(u, i, "handler", s, k)
    BY <1>3, <2>3
  <2> QED
    BY <1>1, <2>1, <2>3, <2>4, Quiet
<1>6. CASE ready_queue_[x] # <<>>
  <2>1. /\ ready_queue_[x] \in Seq(1 .. issued) /\ waiting_queue_[x] \in Seq(1 .. issued)
        /\ Accepted[x] = <<>> \o ready_queue_[x] \o waiting_queue_[x] /\ issued \in Nat
        /\ <<>> \in Seq(1 .. issued)
    BY <1>4, AcceptedType
  <2>2. PICK h \in Handlers : h = Head(ready_queue_[x]) /\ h <= issued
    <3>1. Head(ready_queue_[x]) \in 1 .. issued
      BY <1>6, <2>1
    <3> QED
      BY <2>1, <3>1 DEF RInv, IInv, TypeOK, Handlers
  <2>3. /\ stack' = Moved(t, "handler", h)
        /\ ready_queue_' = [ready_queue_ EXCEPT ![x] = Tail(ready_queue_[x])]
    BY <1>0, <1>6, <2>2 DEF RunReady
  <2>4. h \in 0 .. MaxHandlers
    BY DEF Handlers
  <2>5. /\ StacksOK'
        /\ \A u \in Threads, i \in Nat : \A qc, s, k :
              Frame(u, i, qc, s, k)' <=>
                 IF u = t /\ i = n THEN qc = "handler" /\ s = x /\ k = h ELSE Frame(u, i, qc, s, k)
    BY <1>0, <1>1, <2>2, <2>3, <2>4, TopGoesOn
  <2>6. \A u \in Threads, i \in Nat : \A s, k :
              /\ Frame(u, i, "push", s, k)' <=> Frame(u, i, "push", s, k)
              /\ Frame(u, i, "handler", s, k)' <=>
                    Frame(u, i, "handler", s, k) \/ (u = t /\ i = n /\ s = x /\ k = h)
    BY <1>3, <2>5
  <2>7. \A s \in Strands : Pushing(s)' = Pushing(s) /\ Held(s)' = Held(s)
    <3> SUFFICES ASSUME NEW s \in Strands PROVE Pushing(s)' = Pushing(s) /\ Held(s)' = Held(s)
      OBVIOUS
    <3> QED
      BY <2>6, SamePushing
  <2>8. /\ Active' = [Active EXCEPT ![x] = Active[x] \cup {[h |-> h, at |-> n]}]
        /\ Owner' = [Owner EXCEPT ![x] = Owner[x] \cup {t}]
    BY <2>6, OneMore
  <2>9. Active[x] = {} /\ Owner[x] = {}
    BY <1>2, NoneActive
  <2>10. /\ ready_queue_'[x] = Tail(ready_queue_[x]) /\ Tail(ready_queue_[x]) \in Seq(1 .. issued)
         /\ \A s \in Strands \ {x} : ready_queue_'[s] = ready_queue_[s]
    BY <1>6, <2>1, <2>3 DEF RInv, IInv, TypeOK
  <2>11. /\ QueuesOK'
         /\ Accepted' = [Accepted EXCEPT ![x] = <<>> \o Tail(ready_queue_[x]) \o waiting_queue_[x]]
    <3>1. issued' \in Nat /\ issued <= issued' /\ issued' = issued
      BY <1>1, SameIssued
    <3> QED
      BY <1>1, <1>4, <2>1, <2>7, <2>10, <3>1, OneStrand
  <2>12. /\ <<>> \o ready_queue_[x] = ready_queue_[x]
         /\ <<>> \o Tail(ready_queue_[x]) = Tail(ready_queue_[x])
    BY <2>1, <2>10, ConcatEmptySeq
  <2>13. /\ Accepted[x] # <<>> /\ Head(Accepted[x]) = h
         /\ Tail(Accepted[x]) = Tail(ready_queue_[x]) \o waiting_queue_[x]
    <3>1. LET q == ready_queue_[x] \o waiting_queue_[x]
          IN  /\ q # <<>> /\ Head(q) = Head(ready_queue_[x])
              /\ Tail(q) = Tail(ready_queue_[x]) \o waiting_queue_[x]
      BY <1>6, <2>1, ConcatHeadTail
    <3>2. Accepted[x] = ready_queue_[x] \o waiting_queue_[x]
      BY <2>1, <2>12
    <3> QED
      BY <2>2, <3>1, <3>2
  <2>14. Promise!Begin(t, x, n)
    BY <1>1, <2>8, <2>9, <2>11, <2>12, <2>13 DEF Promise!Begin
  <2>15. Promise!Next
    BY <1>1, <2>14 DEF Promise!Next
  <2>16. ClosedOK' /\ (done \cup destroyed \subseteq 1 .. issued)'
    BY <1>1 DEF RInv, ClosedOK
  <2> QED
    BY <2>5, <2>11, <2>15, <2>16 DEF RInv
<1> QED
  BY <1>5, <1>6

-----------------------------------------------------------------------------
(* The steps of the promise.                                               *)

\* A step that leaves the queues and the handler on its way to them alone.
LEMMA SameQueues ==
  ASSUME RInv, UNCHANGED <<waiting_queue_, ready_queue_>>, issued' \in Nat, issued <= issued',
         \A u \in Threads, j \in Nat : \A s, k : Frame(u, j, "push", s, k)' <=> Frame(u, j, "push", s, k)
  PROVE  QueuesOK' /\ Accepted' = Accepted
<1>1. \A s \in Strands : Pushing(s)' = Pushing(s) /\ Held(s)' = Held(s)
  <2> SUFFICES ASSUME NEW s \in Strands PROVE Pushing(s)' = Pushing(s) /\ Held(s)' = Held(s)
    OBVIOUS
  <2> QED
    BY SamePushing
<1>2. \A s \in Strands : /\ ready_queue_[s] \in Seq(1 .. issued')
                         /\ waiting_queue_[s] \in Seq(1 .. issued')
  BY MoreHandlersKnown
<1>3. QueuesOK'
  BY <1>1, <1>2 DEF RInv, QueuesOK
<1> QED
  BY <1>1, <1>3 DEF Accepted

LEMMA HandlerEndsStep ==
  ASSUME RInv, IInv', NEW t \in Threads, NEW throws \in BOOLEAN, HandlerEnds(t, throws)
  PROVE  RInv' /\ [Promise!Next]_Promise!vars
<1>0. PICK x \in Strands, n \in 1 .. MaxDepth, h \in Handlers :
         x = Top(t).s /\ n = Len(stack[t]) /\ h = Top(t).h
  BY TopAt, TopFits DEF RInv, HandlerEnds, At
<1>1. /\ stack[t] # <<>> /\ Top(t).pc = "handler" /\ ~shutdown_ /\ t \in Pool
      /\ done' = done \cup {h} /\ h \in 1 .. issued /\ issued \in Nat
      /\ UNCHANGED <<shutdown_, waiting_queue_, ready_queue_, issued, destroyed>>
  <2>1. stack[t] # <<>> /\ Top(t).pc = "handler"
    BY DEF HandlerEnds, At
  <2>2. h <= issued /\ issued \in Nat /\ t \in Pool /\ ~shutdown_
    BY <1>0, <2>1, TopFits, NotClosed, SMTT(30) DEF RInv, IInv, TypeOK
  <2> QED
    BY <1>0, <2>1, <2>2 DEF HandlerEnds, Handlers
<1>2. Frame(t, n, "handler", x, h) /\ \A s, k : ~Frame(t, n, "push", s, k)
  BY <1>0, <1>1, TopFits DEF Frame, Top
<1>3. /\ StacksOK'
      /\ \A u \in Threads, i \in Nat : \A s, k :
            /\ Frame(u, i, "push", s, k)' <=> Frame(u, i, "push", s, k)
            /\ Frame(u, i, "handler", s, k)' <=> Frame(u, i, "handler", s, k) /\ ~(u = t /\ i = n)
  <2>1. CASE Top(t).kind = "nested"
    <3>1. stack' = Popped(t)
      BY <2>1 DEF HandlerEnds
    <3>2. \A u \in Threads, i \in Nat : \A pc, s, k :
             Frame(u, i, pc, s, k)' <=> Frame(u, i, pc, s, k) /\ ~(u = t /\ i = n)
      BY <1>0, <1>1, <3>1, FramePopped DEF RInv, IInv
    <3>3. StacksOK'
      BY <1>1, <3>1, StacksPopped
    <3> QED
      BY <1>2, <3>2, <3>3
  <2>2. CASE Top(t).kind # "nested"
    <3>1. PICK pc \in {"run", "exit"} : stack' = Moved(t, pc, 0)
      BY <2>2 DEF HandlerEnds
    <3>2. 0 <= issued /\ 0 \in 0 .. MaxHandlers
      BY <1>1
    <3>3. /\ StacksOK'
          /\ \A u \in Threads, i \in Nat : \A qc, s, k :
                Frame(u, i, qc, s, k)' <=>
                   IF u = t /\ i = n THEN qc = pc /\ s = Top(t).s /\ k = 0 ELSE Frame(u, i, qc, s, k)
      BY <1>0, <1>1, <3>1, <3>2, TopGoesOn
    <3> QED
      BY <1>2, <3>3
  <2> QED
    BY <2>1, <2>2
<1>4. \A u \in Threads, j \in Nat : \A k : Frame(u, j, "handler", x, k) => u = t
  <2>1. n \in Nat
    OBVIOUS
  <2> QED
    BY <1>2, <2>1, OneThread
<1> DEFINE r == [h |-> h, at |-> n]
<1>5. /\ r \in Active[x] /\ r.h = h /\ r.at = n
      /\ Active' = [Active EXCEPT ![x] = Active[x] \ {r}]
      /\ Owner' = [Owner EXCEPT ![x] = IF Active[x] = {r} THEN {} ELSE Owner[x]]
  BY <1>2, <1>3, <1>4, OneLess
<1>6. \A q \in Active[x] \ {r} : q.at < r.at
  <2> SUFFICES ASSUME NEW q \in Active[x], q # r PROVE q.at < n
    BY <1>5
  <2>1. PICK u, j, k :
           u \in Threads /\ j \in Nat /\ Frame(u, j, "handler", x, k) /\ q = [h |-> k, at |-> j]
    BY ActiveFrames
  <2>2. u = t /\ stack[t] \in Seq(Frames)
    BY <1>4, <2>1 DEF RInv, IInv, TypeOK
  <2>3. j <= n
    BY <1>0, <2>1, <2>2 DEF Frame
  <2>4. j # n
    BY <1>2, <2>1, <2>2 DEF Frame
  <2> QED
    BY <2>1, <2>3, <2>4
<1> HIDE DEF r
<1>7. QueuesOK' /\ Accepted' = Accepted
  <2>1. \A u \in Threads, j \in Nat : \A s, k : Frame(u, j, "push", s, k)' <=> Frame(u, j, "push", s, k)
    BY <1>3
  <2>2. issued' \in Nat /\ issued <= issued'
    BY <1>1
  <2> QED
    BY <1>1, <2>1, <2>2, SameQueues
<1>8. Promise!End(x)
  BY <1>1, <1>5, <1>6, <1>7 DEF Promise!End
<1>9. Promise!Next
  BY <1>8 DEF Promise!Next
<1>10. ClosedOK' /\ (done \cup destroyed \subseteq 1 .. issued)'
  BY <1>1 DEF RInv, ClosedOK
<1> QED
  BY <1>3, <1>7, <1>9, <1>10 DEF RInv

\* Every call that submits a handler.
LEMMA Submission ==
  ASSUME RInv, IInv', issued < MaxHandlers, issued' = issued + 1, done' = done,
         destroyed' \subseteq destroyed \cup {issued + 1}
  PROVE  /\ issued \in Nat /\ issued' \in Nat /\ issued <= issued' /\ issued + 1 \in Handlers
         /\ Promise!Fresh(issued + 1) /\ (done \cup destroyed \subseteq 1 .. issued)'
<1>1. issued \in Nat /\ done \cup destroyed \subseteq 1 .. issued
  BY DEF RInv, IInv, TypeOK
<1>2. (done \cup destroyed \subseteq 1 .. issued)'
  BY <1>1
<1> QED
  BY <1>1, <1>2, NextFresh

LEMMA RunNestedStep ==
  ASSUME RInv, IInv', NEW t \in Threads, NEW s \in Strands, RunNested(t, s)
  PROVE  RInv' /\ [Promise!Next]_Promise!vars
<1> DEFINE f == [s |-> s, h |-> issued + 1, kind |-> "nested", pc |-> "handler"]
<1>0. /\ stack' = Pushed(t, f) /\ Len(stack[t]) < MaxDepth /\ issued < MaxHandlers
      /\ issued' = issued + 1
      /\ UNCHANGED <<shutdown_, waiting_queue_, ready_queue_, done, destroyed>>
  BY DEF RunNested, UserCode
<1>1. /\ issued \in Nat /\ issued' \in Nat /\ issued <= issued' /\ issued + 1 \in Handlers
      /\ Promise!Fresh(issued + 1) /\ (done \cup destroyed \subseteq 1 .. issued)'
  BY <1>0, Submission
<1>2. f \in Frames /\ f.kind = "nested" /\ f.pc = "handler" /\ f.h = issued + 1 /\ f.s = s
  BY <1>1 DEF Frames, Handlers
<1>3. PICK a, k : a \in 1 .. Len(stack[t]) /\ Frame(t, a, "handler", s, k)
  BY DEF RunNested, InStrand, Frame
<1> HIDE DEF f
<1>4. /\ t \in Pool /\ a \in 1 .. MaxDepth /\ k \in Handlers /\ stack[t] # <<>> /\ ~shutdown_
  <2>1. Len(stack[t]) \in Nat /\ (stack[t] = <<>> => Len(stack[t]) = 0)
    BY DEF RInv, IInv, TypeOK
  <2>2. a \in Nat /\ stack[t] # <<>>
    BY <1>3, <2>1
  <2> QED
    BY <1>3, <2>2, FrameBounds, NotClosed
<1>5. PICK n \in 1 .. MaxDepth : n = Len(stack[t]) + 1
  <2>1. Len(stack[t]) \in Nat
    BY DEF RInv, IInv, TypeOK
  <2> QED
    BY <1>0, <2>1
<1>6. \A u \in Threads, i \in Nat : \A pc, x, h :
         Frame(u, i, pc, x, h)' <=>
             Frame(u, i, pc, x, h) \/ (u = t /\ i = n /\ f.pc = pc /\ f.s = x /\ f.h = h)
  BY <1>0, <1>2, <1>5, FramePushed DEF RInv, IInv
<1>7. StacksOK'
  <2>1. \E j \in 1 .. Len(stack[t]) : Holds(t, j, s)
    <3>1. PICK j \in 1 .. a : Holds(t, j, s)
      BY <1>3, <1>4, FrameHolds
    <3> QED
      BY <3>1 DEF Holds
  <2> QED
    BY <1>0, <1>1, <1>2, <1>4, <2>1, StacksPushed
<1>8. QueuesOK' /\ Accepted' = Accepted
  <2>1. \A u \in Threads, j \in Nat : \A x, h : Frame(u, j, "push", x, h)' <=> Frame(u, j, "push", x, h)
    BY <1>2, <1>6
  <2> QED
    BY <1>0, <1>1, <2>1, SameQueues
<1>9. PICK h \in Handlers : h = issued + 1
  BY <1>1
<1>10. /\ Active' = [Active EXCEPT ![s] = Active[s] \cup {[h |-> h, at |-> n]}]
       /\ Owner' = [Owner EXCEPT ![s] = Owner[s] \cup {t}]
  <2>1. \A u \in Threads, i \in Nat : \A x, y :
           Frame(u, i, "handler", x, y)' <=>
               Frame(u, i, "handler", x, y) \/ (u = t /\ i = n /\ x = s /\ y = h)
    BY <1>2, <1>6, <1>9
  <2> QED
    BY <2>1, OneMore
<1>11. \A u \in Threads, i \in Nat : \A y : Frame(u, i, "handler", s, y) => u = t
  <2>1. a \in Nat
    BY <1>4
  <2> QED
    BY <1>3, <2>1, OneThread
<1>12. Owner[s] = {t} /\ Owner' = Owner
  <2>1. Owner[s] = {t}
    <3>1. \A u : u \in Owner[s] <=> u = t
      BY <1>3, <1>4, <1>11, OwnerFrames
    <3> QED
      BY <3>1
  <2> QED
    BY <1>10, <2>1, MapsOnStrands, SMTT(30)
<1>13. \A r \in Active[s] : r.at < n
  <2> SUFFICES ASSUME NEW r \in Active[s] PROVE r.at < n
    OBVIOUS
  <2>1. PICK u, j, y :
           u \in Threads /\ j \in Nat /\ Frame(u, j, "handler", s, y) /\ r = [h |-> y, at |-> j]
    BY ActiveFrames
  <2>2. u = t /\ stack[t] \in Seq(Frames)
    BY <1>11, <2>1 DEF RInv, IInv, TypeOK
  <2>3. Len(stack[t]) \in Nat
    BY <2>2, LenProperties
  <2>4. j <= Len(stack[t])
    BY <2>1, <2>2 DEF Frame
  <2> QED
    BY <1>5, <2>1, <2>3, <2>4
<1>14. Promise!Nest(t, s, h, n)
  BY <1>0, <1>1, <1>8, <1>9, <1>10, <1>12, <1>13 DEF Promise!Nest
<1>15. Promise!Next
  BY <1>4, <1>14 DEF Promise!Next
<1>16. ClosedOK'
  BY <1>0, <1>4 DEF ClosedOK
<1> QED
  BY <1>1, <1>7, <1>8, <1>15, <1>16 DEF RInv

LEMMA EnqueueShutdownStep ==
  ASSUME RInv, IInv', NEW t \in Threads, NEW s \in Strands, NEW how, EnqueueShutdown(t, s, how)
  PROVE  RInv' /\ [Promise!Next]_Promise!vars
<1>0. /\ issued < MaxHandlers /\ issued' = issued + 1 /\ shutdown_
      /\ destroyed' = destroyed \cup {issued + 1}
      /\ UNCHANGED <<shutdown_, waiting_queue_, ready_queue_, stack, done>>
  BY DEF EnqueueShutdown, Submits
<1>1. /\ issued \in Nat /\ issued' \in Nat /\ issued <= issued' /\ issued + 1 \in Handlers
      /\ Promise!Fresh(issued + 1) /\ (done \cup destroyed \subseteq 1 .. issued)'
  BY <1>0, Submission
<1>2. ClosedOK' /\ StacksOK'
  BY <1>0 DEF RInv, ClosedOK, StacksOK, FrameFits
<1>3. /\ QueuesOK' /\ Accepted' = Accepted /\ Active' = Active /\ Owner' = Owner
  <2>1. \A u \in Threads, j \in Nat : \A pc, x, h : Frame(u, j, pc, x, h)' <=> Frame(u, j, pc, x, h)
    BY <1>0 DEF Frame
  <2> QED
    BY <1>0, <1>1, <2>1, SameQueues, SameActive
<1>4. Promise!Refuse(issued + 1)
  BY <1>0, <1>1, <1>3 DEF Promise!Refuse
<1>5. Promise!Next
  BY <1>1, <1>4 DEF Promise!Next
<1> QED
  BY <1>1, <1>2, <1>3, <1>5 DEF RInv

LEMMA EnqueueWaitingStep ==
  ASSUME RInv, IInv', NEW t \in Threads, NEW s \in Strands, NEW how, EnqueueWaiting(t, s, how)
  PROVE  RInv' /\ [Promise!Next]_Promise!vars
<1>0. /\ issued < MaxHandlers /\ issued' = issued + 1 /\ ~shutdown_
      /\ waiting_queue_' = [waiting_queue_ EXCEPT ![s] = Append(waiting_queue_[s], issued + 1)]
      /\ UNCHANGED <<shutdown_, ready_queue_, stack, done, destroyed>>
  BY DEF EnqueueWaiting, Submits
<1>1. /\ issued \in Nat /\ issued' \in Nat /\ issued <= issued' /\ issued + 1 \in Handlers
      /\ Promise!Fresh(issued + 1) /\ (done \cup destroyed \subseteq 1 .. issued)'
  BY <1>0, Submission
<1>2. \A u \in Threads, j \in Nat : \A pc, x, h : Frame(u, j, pc, x, h)' <=> Frame(u, j, pc, x, h)
  BY <1>0 DEF Frame
<1>3. StacksOK'
  <2> SUFFICES ASSUME NEW u \in Threads, NEW i \in 1 .. Len(stack'[u]) PROVE FrameFits(u, i)'
    BY DEF StacksOK
  <2>1. i \in 1 .. Len(stack[u]) /\ \A j \in 1 .. i - 1 : \A x : Holds(u, j, x) => Holds(u, j, x)'
    BY <1>0 DEF Holds
  <2> QED
    BY <1>0, <1>1, <2>1, StillFits
<1>4. \A x \in Strands : Pushing(x)' = Pushing(x) /\ Held(x)' = Held(x)
  <2> SUFFICES ASSUME NEW x \in Strands PROVE Pushing(x)' = Pushing(x) /\ Held(x)' = Held(x)
    OBVIOUS
  <2> QED
    BY <1>2, SamePushing
<1>5. PICK h \in Handlers : h = issued + 1
  BY <1>1
<1>6. /\ Held(s) \in Seq(1 .. issued') /\ ready_queue_[s] \in Seq(1 .. issued')
      /\ waiting_queue_[s] \in Seq(1 .. issued')
      /\ Accepted[s] = Held(s) \o ready_queue_[s] \o waiting_queue_[s]
      /\ Pushing(s) # {} => ready_queue_[s] = <<>>
  <2>1. 1 .. issued \subseteq 1 .. issued'
    BY <1>1
  <2> QED
    BY <2>1, AcceptedType, SeqMonotonic DEF RInv, QueuesOK
<1>7. /\ Append(waiting_queue_[s], h) \in Seq(1 .. issued')
      /\ waiting_queue_'[s] = Append(waiting_queue_[s], h)
      /\ \A x \in Strands \ {s} : waiting_queue_'[x] = waiting_queue_[x]
  <2>1. h \in 1 .. issued'
    BY <1>0, <1>1, <1>5
  <2>2. waiting_queue_ \in [Strands -> Seq(Handlers)]
    BY DEF RInv, IInv, TypeOK
  <2> QED
    BY <1>0, <1>5, <1>6, <2>1, <2>2, AppendProperties
<1>8. /\ QueuesOK'
      /\ Accepted' = [Accepted EXCEPT ![s] = Held(s) \o ready_queue_[s] \o Append(waiting_queue_[s], h)]
  BY <1>0, <1>1, <1>4, <1>6, <1>7, OneStrand
<1>9. Held(s) \o ready_queue_[s] \o Append(waiting_queue_[s], h) = Append(Accepted[s], h)
  <2>1. Held(s) \o ready_queue_[s] \in Seq(1 .. issued') /\ h \in 1 .. issued'
    BY <1>0, <1>1, <1>5, <1>6, ConcatProperties
  <2> QED
    <3>1. PICK q \in Seq(1 .. issued') : q = Held(s) \o ready_queue_[s]
      BY <2>1
    <3>a. PICK S, w : S = 1 .. issued' /\ w = waiting_queue_[s] /\ q \in Seq(S) /\ w \in Seq(S) /\ h \in S
      BY <1>6, <2>1
    <3>b. q \o Append(w, h) = Append(q \o w, h)
      BY <3>a, AppendOfConcat
    <3>2. q \o Append(waiting_queue_[s], h) = Append(q \o waiting_queue_[s], h)
      BY <3>a, <3>b
    <3> QED
      BY <1>6, <3>1, <3>2
<1>10. Active' = Active /\ Owner' = Owner
  BY <1>2, SameActive
<1>11. Promise!Accept(s, h)
  BY <1>0, <1>1, <1>5, <1>8, <1>9, <1>10 DEF Promise!Accept
<1>12. Promise!Next
  BY <1>11 DEF Promise!Next
<1> QED
  BY <1>0, <1>1, <1>3, <1>8, <1>12 DEF RInv, ClosedOK

LEMMA EnqueueFirstStep ==
  ASSUME RInv, IInv', NEW t \in Threads, NEW s \in Strands, NEW how \in {"post", "dispatch"},
         EnqueueFirst(t, s, how)
  PROVE  RInv' /\ [Promise!Next]_Promise!vars
<1> DEFINE f == IF RunsNow(t, s, how)
                THEN [s |-> s, h |-> issued + 1, kind |-> "now", pc |-> "handler"]
                ELSE [s |-> s, h |-> issued + 1, kind |-> how, pc |-> "push"]
<1>0. /\ issued < MaxHandlers /\ issued' = issued + 1 /\ ~shutdown_ /\ ~locked_[s]
      /\ stack' = Pushed(t, f) /\ Len(stack[t]) < MaxDepth
      /\ UNCHANGED <<shutdown_, waiting_queue_, ready_queue_, done, destroyed>>
  BY DEF EnqueueFirst, Submits, IsLocked, UserCode
<1>1. /\ issued \in Nat /\ issued' \in Nat /\ issued <= issued' /\ issued + 1 \in Handlers
      /\ Promise!Fresh(issued + 1) /\ (done \cup destroyed \subseteq 1 .. issued)'
  BY <1>0, Submission
<1>2. /\ f \in Frames /\ f.kind # "nested" /\ f.h = issued + 1 /\ f.s = s
      /\ f.pc = IF RunsNow(t, s, how) THEN "handler" ELSE "push"
  <2>1. issued + 1 \in 0 .. MaxHandlers
    BY <1>1 DEF Handlers
  <2>2. CASE RunsNow(t, s, how)
    BY <2>1, <2>2 DEF Frames
  <2>3. CASE ~RunsNow(t, s, how)
    BY <2>1, <2>3 DEF Frames
  <2> QED
    BY <2>2, <2>3
<1> HIDE DEF f
<1>3. ~InUse(s) /\ ready_queue_[s] = <<>> /\ waiting_queue_[s] = <<>>
  <2>1. StrandOK(s)
    BY <1>0 DEF RInv, IInv
  <2> QED
    BY <1>0, <2>1 DEF StrandOK, MoreHandlers
<1>4. \A u \in Threads, i \in Nat : \A pc, k : ~Frame(u, i, pc, s, k)
  BY <1>3, Unused
<1>5. PICK n \in 1 .. MaxDepth, h \in Handlers : n = Len(stack[t]) + 1 /\ h = issued + 1
  <2>1. stack[t] \in Seq(Frames)
    BY DEF RInv, IInv, TypeOK
  <2>2. Len(stack[t]) \in Nat
    BY <2>1, LenProperties
  <2> QED
    BY <1>0, <1>1, <2>2
<1>6. \A u \in Threads, i \in Nat : \A pc, x, k :
         Frame(u, i, pc, x, k)' <=>
             Frame(u, i, pc, x, k) \/ (u = t /\ i = n /\ f.pc = pc /\ x = s /\ k = h)
  BY <1>0, <1>2, <1>5, FramePushed DEF RInv, IInv
<1>7. StacksOK'
  <2>1. f.pc \in {"run", "handler"} => t \in Pool
    BY <1>2 DEF RunsNow
  <2>2. f.h <= issued'
    BY <1>0, <1>1, <1>2
  <2> QED
    BY <1>0, <1>1, <1>2, <2>1, <2>2, StacksPushed
<1>8. Pushing(s) = {} /\ Held(s) = <<>>
  BY <1>4, NonePushing
<1>9. Accepted[s] = <<>>
  BY <1>3, <1>8 DEF Accepted
<1>10. ClosedOK'
  BY <1>0 DEF ClosedOK
<1>11. CASE RunsNow(t, s, how)
  <2>1. \A u \in Threads, i \in Nat : \A x, k :
           /\ Frame(u, i, "push", x, k)' <=> Frame(u, i, "push", x, k)
           /\ Frame(u, i, "handler", x, k)' <=>
                 Frame(u, i, "handler", x, k) \/ (u = t /\ i = n /\ x = s /\ k = h)
    BY <1>2, <1>6, <1>11
  <2>2. QueuesOK' /\ Accepted' = Accepted
    BY <1>0, <1>1, <2>1, SameQueues
  <2>3. /\ Active' = [Active EXCEPT ![s] = Active[s] \cup {[h |-> h, at |-> n]}]
        /\ Owner' = [Owner EXCEPT ![s] = Owner[s] \cup {t}]
    BY <2>1, OneMore
  <2>4. Active[s] = {} /\ Owner[s] = {}
    BY <1>4, NoneActive
  <2>5. Promise!BeginNow(t, s, h, n)
    BY <1>0, <1>1, <1>5, <1>9, <2>2, <2>3, <2>4 DEF Promise!BeginNow
  <2>6. Promise!Next
    BY <1>11, <2>5 DEF Promise!Next, RunsNow
  <2> QED
    BY <1>1, <1>7, <1>10, <2>2, <2>6 DEF RInv
<1>12. CASE ~RunsNow(t, s, how)
  <2>1. \A u \in Threads, i \in Nat : \A x, k :
           /\ Frame(u, i, "handler", x, k)' <=> Frame(u, i, "handler", x, k)
           /\ Frame(u, i, "push", x, k)' <=>
                 Frame(u, i, "push", x, k) \/ (u = t /\ i = n /\ x = s /\ k = h)
    BY <1>2, <1>6, <1>12
  <2>2. Pushing(s)' = {h}
    BY <1>4, <2>1, PushingFrames
  <2>3. Held(s)' = <<h>>
    BY <2>2, OnePushing
  <2>4. ASSUME NEW x \in Strands \ {s} PROVE Pushing(x)' = Pushing(x) /\ Held(x)' = Held(x)
    <3>1. \A u \in Threads, j \in Nat : \A k : Frame(u, j, "push", x, k)' <=> Frame(u, j, "push", x, k)
      BY <2>1
    <3> QED
      BY <3>1, SamePushing
  <2>5. ready_queue_'[s] = <<>> /\ waiting_queue_'[s] = <<>> /\ <<>> \in Seq(1 .. issued')
    BY <1>0, <1>3
  <2>6. /\ QueuesOK'
        /\ Accepted' = [Accepted EXCEPT ![s] = <<h>> \o <<>> \o <<>>]
    BY <1>0, <1>1, <2>3, <2>4, <2>5, OneStrand
  <2>7. <<h>> \o <<>> \o <<>> = Append(Accepted[s], h)
    BY <1>9
  <2>8. Active' = Active /\ Owner' = Owner
    BY <2>1, SameActive
  <2>9. Promise!Accept(s, h)
    BY <1>0, <1>1, <1>5, <2>6, <2>7, <2>8 DEF Promise!Accept
  <2>10. Promise!Next
    BY <2>9 DEF Promise!Next
  <2> QED
    BY <1>1, <1>7, <1>10, <2>6, <2>10 DEF RInv
<1> QED
  BY <1>11, <1>12

LEMMA ShutdownStep ==
  ASSUME RInv, IInv', Shutdown
  PROVE  RInv' /\ [Promise!Next]_Promise!vars
<1>1. /\ ~shutdown_ /\ shutdown_' = TRUE /\ \A t \in Threads : stack[t] = <<>>
      /\ destroyed' = destroyed \cup UNION {QueuedOps(s) : s \in Strands}
      /\ waiting_queue_' = [s \in Strands |-> <<>>] /\ ready_queue_' = [s \in Strands |-> <<>>]
      /\ UNCHANGED <<stack, issued, done>>
  BY DEF Shutdown
<1>2. /\ \A u \in Threads, j \in Nat : \A pc, s, h : ~Frame(u, j, pc, s, h)
      /\ \A u \in Threads, j \in Nat : \A pc, s, h : ~Frame(u, j, pc, s, h)'
  BY <1>1 DEF Frame
<1>3. \A s : Pushing(s) = {} /\ Held(s) = <<>> /\ Pushing(s)' = {} /\ Held(s)' = <<>>
  <2> SUFFICES ASSUME NEW s
               PROVE  Pushing(s) = {} /\ Held(s) = <<>> /\ Pushing(s)' = {} /\ Held(s)' = <<>>
    OBVIOUS
  <2> QED
    BY <1>2, NonePushing
<1>4. Active' = Active /\ Owner' = Owner /\ \A s \in Strands : Active[s] = {}
  BY <1>2, SameActive, NoneActive
<1>5. Accepted' = [s \in Strands |-> <<>>]
  BY <1>1, <1>3 DEF Accepted
<1>6. ASSUME NEW s \in Strands
      PROVE  /\ QueuedOps(s) = {Accepted[s][i] : i \in 1 .. Len(Accepted[s])}
             /\ QueuedOps(s) \subseteq 1 .. issued
  <2>1. /\ ready_queue_[s] \in Seq(Handlers) /\ waiting_queue_[s] \in Seq(Handlers)
        /\ Accepted[s] = ready_queue_[s] \o waiting_queue_[s]
        /\ Accepted[s] \in Seq(1 .. issued) /\ Accepted[s] \in Seq(Handlers)
    <3>1. ready_queue_[s] \in Seq(Handlers) /\ waiting_queue_[s] \in Seq(Handlers)
      BY DEF RInv, IInv, TypeOK
    <3>2. <<>> \o ready_queue_[s] = ready_queue_[s]
      BY <3>1, ConcatEmptySeq
    <3>3. /\ Accepted[s] = Held(s) \o ready_queue_[s] \o waiting_queue_[s]
          /\ Accepted[s] \in Seq(1 .. issued)
      BY AcceptedType
    <3>4. ready_queue_[s] \o waiting_queue_[s] \in Seq(Handlers)
      BY <3>1, ConcatProperties
    <3> QED
      BY <1>3, <3>1, <3>2, <3>3, <3>4
  <2>2. \A x : Has(Accepted[s], x) <=> Has(ready_queue_[s], x) \/ Has(waiting_queue_[s], x)
    BY <2>1, ConcatHas
  <2>3. \A i \in 1 .. Len(Accepted[s]) : Accepted[s][i] \in 1 .. issued /\ Accepted[s][i] \in Handlers
    BY <2>1, ElementOfSeq
  <2> QED
    BY <2>2, <2>3 DEF QueuedOps, Has
<1>7. /\ destroyed' = destroyed \cup
             UNION {{Accepted[s][i] : i \in 1 .. Len(Accepted[s])} : s \in Strands}
      /\ destroyed' \subseteq 1 .. issued
  <2>1. UNION {QueuedOps(s) : s \in Strands} =
            UNION {{Accepted[s][i] : i \in 1 .. Len(Accepted[s])} : s \in Strands}
    BY <1>6
  <2>2. UNION {QueuedOps(s) : s \in Strands} \subseteq 1 .. issued
    BY <1>6
  <2> QED
    BY <1>1, <2>1, <2>2 DEF RInv
<1>8. Promise!Close
  BY <1>1, <1>4, <1>5, <1>7 DEF Promise!Close
<1>9. Promise!Next
  BY <1>8 DEF Promise!Next
<1>10. StacksOK'
  BY <1>1 DEF StacksOK
<1>11. QueuesOK' /\ ClosedOK'
  BY <1>1, <1>3 DEF QueuesOK, ClosedOK
<1> QED
  BY <1>1, <1>7, <1>9, <1>10, <1>11 DEF RInv

LEMMA InitRefines == Init => RInv /\ Promise!Init
<1> SUFFICES ASSUME Init PROVE RInv /\ Promise!Init
  OBVIOUS
<1>1. /\ IInv /\ issued = 0 /\ done = {} /\ destroyed = {} /\ shutdown_ = FALSE
      /\ \A t \in Threads : stack[t] = <<>>
      /\ \A s \in Strands : ready_queue_[s] = <<>> /\ waiting_queue_[s] = <<>>
  BY InitInv DEF Init
<1>2. \A u \in Threads, j \in Nat : \A pc, s, h : ~Frame(u, j, pc, s, h)
  BY <1>1 DEF Frame
<1>3. \A s : Pushing(s) = {} /\ Held(s) = <<>>
  <2> SUFFICES ASSUME NEW s PROVE Pushing(s) = {} /\ Held(s) = <<>>
    OBVIOUS
  <2> QED
    BY <1>2, NonePushing
<1>4. StacksOK /\ QueuesOK /\ ClosedOK
  <2>1. <<>> \in Seq(1 .. issued)
    OBVIOUS
  <2>2. QueuesOK
    BY <1>1, <1>3, <2>1 DEF QueuesOK
  <2>3. StacksOK
    BY <1>1 DEF StacksOK
  <2>4. ClosedOK
    BY <1>1 DEF ClosedOK
  <2> QED
    BY <2>2, <2>3, <2>4
<1>5. Accepted = [s \in Strands |-> <<>>]
  BY <1>1, <1>3 DEF Accepted
<1>6. Active = [s \in Strands |-> {}] /\ Owner = [s \in Strands |-> {}]
  BY <1>2, NoneActive, MapsOnStrands
<1> QED
  BY <1>1, <1>4, <1>5, <1>6 DEF RInv, Promise!Init

LEMMA NextRefines == ASSUME RInv, [Next]_vars PROVE RInv' /\ [Promise!Next]_Promise!vars
<1>0. IInv'
  BY NextInv DEF RInv
<1>1. CASE UNCHANGED vars
  <2>1. UNCHANGED <<locked_, shutdown_, waiting_queue_, ready_queue_, submitted, stack, issued, done, destroyed>>
    BY <1>1 DEF vars
  <2>2. \A u \in Threads, j \in Nat : \A pc, s, h : Frame(u, j, pc, s, h)' <=> Frame(u, j, pc, s, h)
    BY <2>1 DEF Frame
  <2>3. StacksOK'
    BY <2>1 DEF RInv, StacksOK, FrameFits, Holds
  <2>4. QueuesOK' /\ Accepted' = Accepted
    BY <2>1, <2>2, SameIssued, SameQueues
  <2>5. Active' = Active /\ Owner' = Owner
    BY <2>2, SameActive
  <2>6. ClosedOK' /\ (done \cup destroyed \subseteq 1 .. issued)'
    BY <2>1 DEF RInv, ClosedOK
  <2> QED
    BY <1>0, <2>1, <2>3, <2>4, <2>5, <2>6 DEF RInv, Promise!vars
<1>2. CASE \E t \in Threads : Internal(t)
  <2> PICK t \in Threads : Internal(t)
    BY <1>2
  <2>1. CASE Submit(t) \/ Resubmit(t) \/ SubmitInPlace(t) \/ PushReady(t) \/ PushWaitingToReady(t)
    BY <1>0, <2>1, SubmitStep, SubmitInPlaceStep, PushReadyStep, PushWaitingToReadyStep
  <2>2. CASE RunReady(t)
    BY <1>0, <2>2, RunReadyStep
  <2>3. CASE \E throws \in BOOLEAN : HandlerEnds(t, throws)
    BY <1>0, <2>3, HandlerEndsStep
  <2> QED
    BY <2>1, <2>2, <2>3 DEF Internal
<1>3. CASE \E t \in Threads : ProgramCall(t)
  BY <1>0, <1>3, RunNestedStep, EnqueueShutdownStep, EnqueueWaitingStep, EnqueueFirstStep
     DEF ProgramCall
<1>4. CASE \E t \in Threads, s \in Strands : RunInvoker(t, s)
  BY <1>0, <1>4, RunInvokerStep
<1>5. CASE Shutdown
  BY <1>0, <1>5, ShutdownStep
<1> QED
  BY <1>1, <1>2, <1>3, <1>4, <1>5 DEF Next

\* Both kinds of strand keep the promise: for every pool of threads, every strand and every
\* nesting of calls, the handlers of a strand run on one thread of the executor at a time, one
\* inside the other or one after the other, in the order in which they were accepted, and each
\* at most once (strand_executor_service, strand_service).
THEOREM StrandIsSerial == Spec => Serial
<1>1. Init => RInv /\ Promise!Init
  BY InitRefines
<1>2. RInv /\ [Next]_vars => RInv' /\ [Promise!Next]_Promise!vars
  BY NextRefines
<1> QED
  BY <1>1, <1>2, PTL DEF Spec, Serial, Promise!Spec

HIDE ConstantsAssumption DEF ConstantsAssumption

-----------------------------------------------------------------------------
(* Signal sets.                                                            *)

USE SignalAssumption DEF SignalAssumption

\* A service that is in the list of the process.
Member == {"adding", "running", "removing", "unlocked", "deregistered", "prepared"}

TypeProgress ==
    /\ state \in [Services -> Member \cup {"none", "closed"}] /\ forks \in 0 .. MaxForks
    /\ edge \in [Services -> BOOLEAN] /\ reading \in [Services -> BOOLEAN]

\* A fork that is being prepared is within the bound.
ForkBound == (\E s \in Services : state[s] = "prepared") /\ role = "none" => forks < MaxForks

TypeProcess ==
    /\ mutex_ \in Services \cup {NoService} /\ service_list_ \in Seq(Services)
    /\ fork_prepared_ \in BOOLEAN /\ role \in {"none", "parent", "child"}
    /\ descriptors \in 0 .. MaxForks + 1 /\ pipe \in Seq(Signals)
    /\ watched \in [Services -> 0 .. MaxForks + 1]
    /\ holding \in [Services -> Signals \cup {NoSignal}]

TypeWaits ==
    /\ queue_ \in [Sets -> Seq(Ops)]
    /\ result \in [Ops -> {"none", "waiting", "signal", "aborted", "destroyed"}]

TypeRegistrations ==
    /\ handler \subseteq Signals
    /\ registration_count_ \in [Signals -> Nat]
    /\ undelivered_ \in [Sets -> [Signals -> {NotRegistered} \cup Nat]]

CountsExact ==
    \A n \in Signals :
         /\ registration_count_[n] = Cardinality({x \in Sets : Registered(x, n)})
         /\ n \in handler <=> registration_count_[n] > 0

ProcessInv == TypeProcess /\ TypeProgress /\ ForkBound
CountsInv == TypeRegistrations /\ CountsExact
CountInv == ProcessInv /\ TypeWaits /\ CountsInv

LEMMA TypeParts == SignalTypeOK <=> TypeProcess /\ TypeWaits /\ TypeRegistrations
BY DEF SignalTypeOK, TypeProcess, TypeWaits, TypeRegistrations

-----------------------------------------------------------------------------
(* The services of the process. *)

LEMMA ProcessInit == ASSUME SignalInit PROVE ProcessInv
<1>1. <<>> \in Seq(Services) /\ <<>> \in Seq(Signals)
  OBVIOUS
<1>2. 0 \in 0 .. MaxForks + 1
  OBVIOUS
<1>3. /\ watched \in [Services -> 0 .. MaxForks + 1]
      /\ holding \in [Services -> Signals \cup {NoSignal}]
  BY <1>2 DEF SignalInit, Closed
<1>4. TypeProcess
  BY <1>1, <1>2, <1>3 DEF SignalInit, TypeProcess, Closed
<1> QED BY <1>4 DEF SignalInit, ProcessInv, TypeProgress, ForkBound

\* Of a service.
LEMMA ServiceType ==
  ASSUME ProcessInv, TypeRegistrations, NEW s \in Services,
         \/ AddService(s) \/ RemoveService(s) \/ ServiceStep(s) \/ ReadBegins(s) \/ ReaderStep(s)
         \/ ForkPrepare(s) \/ ForkNotify(s)
  PROVE  ProcessInv'
<1> USE DEF global, registrations, waits, reactor, Goto, Member
<1>0. TypeProcess /\ TypeProgress /\ ForkBound
  BY DEF ProcessInv
<1>1. CASE AddService(s)
  <2>1. <<s>> \o service_list_ \in Seq(Services) /\ NewPipe \in 0 .. MaxForks + 1
    BY <1>0 DEF TypeProcess, NewPipe, TypeProgress
  <2>2. TypeProcess'
    BY <1>0, <1>1, <2>1 DEF AddService, TypeProcess
  <2>3. TypeProgress' /\ ForkBound'
    BY <1>0, <1>1 DEF AddService, TypeProgress, ForkBound
  <2> QED BY <2>2, <2>3 DEF ProcessInv
<1>2. CASE AddServiceRegisters(s)
  <2>2. TypeProcess'
    BY <1>0, <1>2 DEF AddServiceRegisters, Watch, TypeProcess
  <2>3. TypeProgress' /\ ForkBound'
    BY <1>0, <1>2 DEF AddServiceRegisters, Watch, TypeProgress, ForkBound
  <2> QED BY <2>2, <2>3 DEF ProcessInv
<1>3. CASE RemoveService(s) \/ RemoveUnlocks(s) \/ RemoveDeregisters(s)
  <2>2. TypeProcess'
    BY <1>0, <1>3 DEF RemoveService, RemoveUnlocks, Unlocked, RemoveDeregisters, Unwatch, Closed, TypeProcess
  <2>3. TypeProgress' /\ ForkBound'
    BY <1>0, <1>3 DEF RemoveService, RemoveUnlocks, RemoveDeregisters, Unwatch, Running, TypeProgress, ForkBound
  <2> QED BY <2>2, <2>3 DEF ProcessInv
<1>4. CASE RemoveFinishes(s)
  <2>1. Unlinked(service_list_, {s}) \in Seq(Services) /\ <<>> \in Seq(Signals)
    BY <1>0, UnlinkedFacts DEF TypeProcess
  <2>2. /\ descriptors' \in {descriptors, 0} /\ pipe' \in {pipe, <<>>} /\ 0 \in 0 .. MaxForks + 1
        /\ service_list_' = Unlinked(service_list_, {s}) /\ mutex_' = NoService
        /\ UNCHANGED <<fork_prepared_, role, watched, holding>>
    BY <1>4 DEF RemoveFinishes, Closed
  <2>4. TypeProcess'
    BY <1>0, <2>1, <2>2 DEF TypeProcess
  <2>3. TypeProgress' /\ ForkBound'
    BY <1>0, <1>4 DEF RemoveFinishes, TypeProgress, ForkBound
  <2> QED BY <2>3, <2>4 DEF ProcessInv
<1>5. CASE ReadBegins(s) \/ DeliverSignal(s)
  <2>2. TypeProcess'
    BY <1>0, <1>5 DEF ReadBegins, DeliverSignal, TypeProcess
  <2>3. TypeProgress' /\ ForkBound'
    BY <1>0, <1>5 DEF ReadBegins, DeliverSignal, TypeProgress, ForkBound
  <2> QED BY <2>2, <2>3 DEF ProcessInv
<1>6. CASE Read(s)
  <2>1. pipe # <<>> => Head(pipe) \in Signals /\ Tail(pipe) \in Seq(Signals)
    BY <1>0 DEF TypeProcess
  <2>2. TypeProcess'
    BY <1>0, <1>6, <2>1 DEF Read, TypeProcess
  <2>3. TypeProgress' /\ ForkBound'
    BY <1>0, <1>6 DEF Read, TypeProgress, ForkBound
  <2> QED BY <2>2, <2>3 DEF ProcessInv
<1>7. CASE ForkPrepare(s)
  <2>2. TypeProcess'
    BY <1>0, <1>7 DEF ForkPrepare, Unwatch, Closed, TypeProcess
  <2>3. TypeProgress' /\ ForkBound'
    BY <1>0, <1>7 DEF ForkPrepare, Unwatch, TypeProgress, ForkBound
  <2> QED BY <2>2, <2>3 DEF ProcessInv
<1>8. CASE ForkNotify(s)
  <2>1. NewPipe \in 0 .. MaxForks + 1 /\ <<>> \in Seq(Signals)
    BY <1>0 DEF NewPipe, TypeProgress
  <2>2. /\ descriptors' \in 0 .. MaxForks + 1 /\ pipe' \in Seq(Signals)
        /\ fork_prepared_' \in BOOLEAN /\ role' \in {"none", "parent", "child"}
    BY <1>0, <1>8, <2>1 DEF ForkNotify, TypeProcess
  <2>3. /\ watched' \in [Services -> 0 .. MaxForks + 1] /\ edge' \in [Services -> BOOLEAN]
        /\ UNCHANGED <<reading, holding, mutex_, service_list_, forks>>
    <3>1. \/ UNCHANGED <<watched, edge>>
          \/ /\ watched' = [watched EXCEPT ![s] = descriptors']
             /\ edge' = [edge EXCEPT ![s] = pipe' # <<>>]
      BY <1>8, Zenon DEF ForkNotify, Watch
    <3>2. UNCHANGED <<reading, holding, mutex_, service_list_, forks>>
      BY <1>8, Zenon DEF ForkNotify, Watch
    <3>3. PICK content \in BOOLEAN : content = (pipe' # <<>>)
      OBVIOUS
    <3>4. edge' = edge \/ edge' = [edge EXCEPT ![s] = content]
      BY <3>1, <3>3
    <3>5. edge' \in [Services -> BOOLEAN]
      BY <1>0, <3>4 DEF TypeProgress
    <3>6. watched' = watched \/ watched' = [watched EXCEPT ![s] = descriptors']
      BY <3>1
    <3>7. watched' \in [Services -> 0 .. MaxForks + 1]
      BY <1>0, <2>2, <3>6 DEF TypeProcess
    <3> QED BY <3>2, <3>5, <3>7
  <2>4. state' = [state EXCEPT ![s] = "running"]
    BY <1>8 DEF ForkNotify
  <2>5. ForkBound'
    <3>1. role' = "none" => \A r \in Services : state'[r] # "prepared"
      BY <1>0, <1>8, <2>4 DEF ForkNotify, TypeProgress
    <3> QED BY <3>1 DEF ForkBound
  <2> QED BY <1>0, <2>2, <2>3, <2>4, <2>5 DEF ProcessInv, TypeProcess, TypeProgress
<1> QED BY <1>1, <1>2, <1>3, <1>4, <1>5, <1>6, <1>7, <1>8 DEF ServiceStep, ReaderStep

LEMMA ProcessStep ==
  ASSUME ProcessInv, TypeRegistrations, [SignalNext]_signalVars
  PROVE  ProcessInv'
<1> USE DEF global, registrations, waits, reactor
<1>1. ASSUME UNCHANGED <<mutex_, global, pipe, state, reactor>>
      PROVE  ProcessInv'
  BY <1>1 DEF ProcessInv, TypeProcess, TypeProgress, ForkBound
<1>2. ASSUME NEW n \in Signals, Raise(n) PROVE ProcessInv'
  <2>1. Append(pipe, n) \in Seq(Signals)
    BY DEF ProcessInv, TypeProcess
  <2>2. pipe' \in Seq(Signals)
    BY <1>2, <2>1 DEF Raise, ProcessInv, TypeProcess
  <2>3. edge' \in [Services -> BOOLEAN]
    <3>1. edge' = edge \/ edge' = [s \in Services |-> edge[s] \/ watched[s] = descriptors]
      BY <1>2 DEF Raise
    <3> QED BY <3>1, Zenon DEF ProcessInv, TypeProgress
  <2>4. UNCHANGED <<mutex_, global, state, watched, reading, holding>>
    BY <1>2 DEF Raise
  <2> QED BY <2>2, <2>3, <2>4 DEF ProcessInv, TypeProcess, TypeProgress, ForkBound
<1>3. ASSUME NEW x \in Sets,
             \/ \E n \in Signals : Add(x, n) \/ Remove(x, n)
             \/ Clear(x) \/ Cancel(x) \/ DestroySet(x)
             \/ \E o \in Ops : CancelByKey(x, o) \/ AsyncWait(x, o)
      PROVE  ProcessInv'
  <2>1. UNCHANGED <<mutex_, global, pipe, state, reactor>>
    BY <1>3, Zenon DEF Add, Remove, Clear, Cancel, DestroySet, CancelByKey, AsyncWait
  <2> QED BY <1>1, <2>1
<1>4. ASSUME Fork PROVE ProcessInv'
  <2>1. PICK s \in Services : state[s] = "prepared"
    <3>1. 1 \in 1 .. Len(service_list_) /\ service_list_[1] \in Services
      BY <1>4 DEF Fork, ProcessInv, TypeProcess
    <3> QED BY <1>4, <3>1 DEF Fork
  <2>2. forks < MaxForks /\ forks \in 0 .. MaxForks
    BY <1>4, <2>1 DEF Fork, ProcessInv, ForkBound, TypeProgress
  <2>3. role' # "none" /\ forks' \in 0 .. MaxForks /\ role' \in {"none", "parent", "child"}
    BY <1>4, <2>2 DEF Fork
  <2>4. UNCHANGED <<mutex_, service_list_, fork_prepared_, descriptors, pipe, state, reactor>>
    BY <1>4 DEF Fork
  <2> QED BY <2>3, <2>4 DEF ProcessInv, TypeProcess, TypeProgress, ForkBound
<1>5. ASSUME UNCHANGED signalVars PROVE ProcessInv'
  BY <1>1, <1>5 DEF signalVars
<1> QED BY <1>2, <1>3, <1>4, <1>5, ServiceType DEF SignalNext

-----------------------------------------------------------------------------
(* The counts of registrations. *)

LEMMA CountsInit == ASSUME SignalInit PROVE CountsInv
<1>1. ASSUME NEW n \in Signals PROVE Cardinality({x \in Sets : Registered(x, n)}) = 0
  <2>1. {x \in Sets : Registered(x, n)} = {}
    BY DEF SignalInit, Registered
  <2> QED BY <2>1, FS_EmptySet
<1>2. CountsExact
  BY <1>1 DEF SignalInit, CountsExact
<1>3. TypeRegistrations
  BY DEF SignalInit, TypeRegistrations
<1> QED BY <1>2, <1>3 DEF CountsInv

\* Who has registered a signal is a finite set.
LEMMA Registrants ==
  ASSUME NEW n \in Signals
  PROVE  /\ IsFiniteSet({x \in Sets : Registered(x, n)})
         /\ Cardinality({x \in Sets : Registered(x, n)}) \in Nat
<1>1. {x \in Sets : Registered(x, n)} \subseteq Sets
  OBVIOUS
<1> QED BY <1>1, FS_Subset, FS_CardinalityType

\* No set registers a signal or gives one up.
LEMMA CountsKept ==
  ASSUME CountsInv, UNCHANGED <<registration_count_, handler>>,
         undelivered_' \in [Sets -> [Signals -> {NotRegistered} \cup Nat]],
         \A x \in Sets, n \in Signals : Registered(x, n)' <=> Registered(x, n)
  PROVE  CountsInv'
<1>1. ASSUME NEW n \in Signals
      PROVE  {x \in Sets : Registered(x, n)}' = {x \in Sets : Registered(x, n)}
  OBVIOUS
<1>2. CountsExact'
  BY <1>1 DEF CountsInv, CountsExact
<1> QED BY <1>2 DEF CountsInv, TypeRegistrations

LEMMA AddCounted ==
  ASSUME CountsInv, NEW x \in Sets, NEW n \in Signals, Add(x, n)
  PROVE  CountsInv'
<1>1. /\ undelivered_' = [undelivered_ EXCEPT ![x] = [undelivered_[x] EXCEPT ![n] = 0]]
      /\ handler' = handler \cup {n} /\ ~Registered(x, n)
      /\ registration_count_' = [registration_count_ EXCEPT ![n] = registration_count_[n] + 1]
  BY DEF Add
<1>2. TypeRegistrations'
  BY <1>1 DEF CountsInv, TypeRegistrations
<1>3. \A y \in Sets, k \in Signals : Registered(y, k)' <=> Registered(y, k) \/ (y = x /\ k = n)
  BY <1>1 DEF CountsInv, TypeRegistrations, Registered, NotRegistered
<1>4. ASSUME NEW k \in Signals
      PROVE  /\ registration_count_'[k] = Cardinality({y \in Sets : Registered(y, k)}')
             /\ k \in handler' <=> registration_count_'[k] > 0
  <2> DEFINE S == {y \in Sets : Registered(y, k)}
  <2>1. IsFiniteSet(S) /\ Cardinality(S) \in Nat /\ registration_count_[k] = Cardinality(S)
        /\ (k \in handler <=> registration_count_[k] > 0)
    BY Registrants DEF CountsInv, CountsExact
  <2>2. CASE k = n
    <3>1. S' = S \cup {x} /\ x \notin S
      BY <1>1, <1>3, <2>2
    <3>2. Cardinality(S') = Cardinality(S) + 1
      BY <2>1, <3>1, FS_AddElement
    <3>3. registration_count_'[k] = registration_count_[k] + 1
      BY <1>1, <2>2 DEF CountsInv, TypeRegistrations
    <3> QED BY <1>1, <2>1, <2>2, <3>2, <3>3
  <2>3. CASE k # n
    <3>1. S' = S
      BY <1>3, <2>3
    <3>2. registration_count_'[k] = registration_count_[k]
      BY <1>1, <2>3 DEF CountsInv, TypeRegistrations
    <3> QED BY <1>1, <2>1, <2>3, <3>1, <3>2
  <2> QED BY <2>2, <2>3
<1>5. CountsExact'
  BY <1>4 DEF CountsExact
<1> QED BY <1>2, <1>5 DEF CountsInv

LEMMA DeregisterCounted ==
  ASSUME CountsInv, NEW x \in Sets, NEW ns \in SUBSET RegisteredSignals(x), Deregister(x, ns)
  PROVE  CountsInv'
<1>1. /\ ns \subseteq Signals /\ \A n \in ns : Registered(x, n)
      /\ undelivered_' = [undelivered_ EXCEPT ![x] =
              [n \in Signals |-> IF n \in ns THEN NotRegistered ELSE undelivered_[x][n]]]
      /\ handler' = handler \ {n \in ns : registration_count_[n] = 1}
      /\ registration_count_' =
              [n \in Signals |-> registration_count_[n] - (IF n \in ns THEN 1 ELSE 0)]
  BY DEF Deregister, RegisteredSignals, RestoresDefault
<1>2. /\ undelivered_' \in [Sets -> [Signals -> {NotRegistered} \cup Nat]]
      /\ handler' \subseteq Signals
  BY <1>1 DEF CountsInv, TypeRegistrations
<1>3. \A y \in Sets, k \in Signals : Registered(y, k)' <=> Registered(y, k) /\ ~(y = x /\ k \in ns)
  BY <1>1 DEF CountsInv, TypeRegistrations, Registered, NotRegistered
<1>4. ASSUME NEW k \in Signals
      PROVE  /\ registration_count_'[k] = Cardinality({y \in Sets : Registered(y, k)}')
             /\ registration_count_'[k] \in Nat
             /\ k \in handler' <=> registration_count_'[k] > 0
  <2> DEFINE S == {y \in Sets : Registered(y, k)}
  <2>1. IsFiniteSet(S) /\ Cardinality(S) \in Nat /\ registration_count_[k] = Cardinality(S)
        /\ (k \in handler <=> registration_count_[k] > 0)
    BY Registrants DEF CountsInv, CountsExact
  <2>2. CASE k \in ns
    <3>1. S' = S \ {x} /\ x \in S
      BY <1>1, <1>3, <2>2
    <3>2. Cardinality(S') = Cardinality(S) - 1 /\ IsFiniteSet(S')
      <4>1. IsFiniteSet(S \ {x}) /\ Cardinality(S \ {x}) = Cardinality(S) - 1
        <5> HIDE DEF S
        <5> QED BY <2>1, <3>1, FS_RemoveElement
      <4> QED BY <3>1, <4>1
    <3>3. Cardinality(S') \in Nat
      BY <3>2, FS_CardinalityType
    <3>4. registration_count_'[k] = registration_count_[k] - 1
      BY <1>1, <2>2
    <3> QED BY <1>1, <2>1, <2>2, <3>2, <3>3, <3>4
  <2>3. CASE k \notin ns
    <3>1. S' = S
      BY <1>3, <2>3
    <3>2. registration_count_'[k] = registration_count_[k]
      BY <1>1, <2>1, <2>3
    <3> QED BY <1>1, <2>1, <2>3, <3>1, <3>2
  <2> QED BY <2>2, <2>3
<1>5. CountsExact'
  BY <1>4 DEF CountsExact
<1>6. registration_count_' \in [Signals -> Nat]
  BY <1>1, <1>4
<1> QED BY <1>2, <1>5, <1>6 DEF CountsInv, TypeRegistrations

LEMMA CountsStep ==
  ASSUME ProcessInv, CountsInv, [SignalNext]_signalVars
  PROVE  CountsInv'
<1> USE DEF global, registrations, waits, reactor
<1>1. ASSUME UNCHANGED registrations PROVE CountsInv'
  BY <1>1 DEF CountsInv, TypeRegistrations, CountsExact, Registered
<1>2. ASSUME NEW s \in Services, DeliverSignal(s) PROVE CountsInv'
  <2>1. UNCHANGED <<registration_count_, handler>>
    BY <1>2 DEF DeliverSignal
  <2>2. PICK n \in Signals : n = holding[s]
    BY <1>2 DEF DeliverSignal, ProcessInv, TypeProcess
  <2>3. undelivered_' = [x \in Sets |-> IF x \in Notified(n) /\ queue_[x] = <<>>
                                        THEN [undelivered_[x] EXCEPT ![n] = undelivered_[x][n] + 1]
                                        ELSE undelivered_[x]]
    BY <1>2, <2>2 DEF DeliverSignal
  <2>4. \A x \in Notified(n) : x \in Sets /\ undelivered_[x][n] \in Nat
    BY DEF Notified, Registered, CountsInv, TypeRegistrations
  <2>5. undelivered_' \in [Sets -> [Signals -> {NotRegistered} \cup Nat]]
    BY <2>3, <2>4 DEF CountsInv, TypeRegistrations
  <2>6. \A x \in Sets, k \in Signals : Registered(x, k)' <=> Registered(x, k)
    BY <2>3, <2>4 DEF CountsInv, TypeRegistrations, Registered, NotRegistered
  <2> QED BY <2>1, <2>5, <2>6, CountsKept
<1>3. ASSUME NEW x \in Sets, NEW o \in Ops, AsyncWait(x, o) PROVE CountsInv'
  <2>1. UNCHANGED <<registration_count_, handler>>
    BY <1>3 DEF AsyncWait
  <2>2. \/ UNCHANGED undelivered_
        \/ \E n \in KeptFor(x) :
             undelivered_' = [undelivered_ EXCEPT ![x] = [undelivered_[x] EXCEPT ![n] = undelivered_[x][n] - 1]]
    BY <1>3 DEF AsyncWait
  <2>3. CASE UNCHANGED undelivered_
    BY <1>1, <2>1, <2>3
  <2>4. ASSUME NEW n \in KeptFor(x),
               undelivered_' = [undelivered_ EXCEPT ![x] = [undelivered_[x] EXCEPT ![n] = undelivered_[x][n] - 1]]
        PROVE  CountsInv'
    <3>1. n \in Signals /\ undelivered_[x][n] \in Nat \ {0}
      BY DEF KeptFor, RegisteredSignals, Registered, CountsInv, TypeRegistrations
    <3>2. undelivered_' \in [Sets -> [Signals -> {NotRegistered} \cup Nat]]
      BY <2>4, <3>1 DEF CountsInv, TypeRegistrations
    <3>3. \A y \in Sets, k \in Signals : Registered(y, k)' <=> Registered(y, k)
      BY <2>4, <3>1 DEF CountsInv, TypeRegistrations, Registered, NotRegistered
    <3> QED BY <2>1, <3>2, <3>3, CountsKept
  <2> QED BY <2>2, <2>3, <2>4
<1>4. ASSUME NEW x \in Sets, NEW n \in Signals, Add(x, n) \/ Remove(x, n) PROVE CountsInv'
  <2>1. CASE Remove(x, n)
    <3>1. {n} \in SUBSET RegisteredSignals(x) /\ Deregister(x, {n})
      BY <2>1 DEF Remove, RegisteredSignals
    <3> QED BY <3>1, DeregisterCounted
  <2> QED BY <1>4, <2>1, AddCounted
<1>5. ASSUME NEW x \in Sets, Clear(x) \/ DestroySet(x) PROVE CountsInv'
  <2>1. Deregister(x, RegisteredSignals(x))
    BY <1>5 DEF Clear, DestroySet
  <2> QED BY <2>1, DeregisterCounted
<1>6. ASSUME NEW x \in Sets, Cancel(x) \/ (\E o \in Ops : CancelByKey(x, o)) PROVE CountsInv'
  <2>1. UNCHANGED registrations
    BY <1>6, Zenon DEF Cancel, CancelByKey
  <2> QED BY <1>1, <2>1
<1>7. ASSUME NEW s \in Services,
             \/ AddService(s) \/ RemoveService(s) \/ ServiceStep(s) \/ ReadBegins(s) \/ Read(s)
             \/ ForkPrepare(s) \/ ForkNotify(s)
      PROVE  CountsInv'
  <2>1. UNCHANGED registrations
    BY <1>7, Zenon DEF AddService, RemoveService, ServiceStep, AddServiceRegisters, RemoveUnlocks,
       RemoveDeregisters, RemoveFinishes, ReadBegins, Read, ForkPrepare, ForkNotify
  <2> QED BY <1>1, <2>1
<1>8. ASSUME Fork \/ (\E n \in Signals : Raise(n)) \/ UNCHANGED signalVars PROVE CountsInv'
  <2>1. UNCHANGED registrations
    BY <1>8, Zenon DEF Fork, Raise, signalVars
  <2> QED BY <1>1, <2>1
<1> QED BY <1>2, <1>3, <1>4, <1>5, <1>6, <1>7, <1>8 DEF SignalNext, ReaderStep

-----------------------------------------------------------------------------
(* The waiting operations. *)

\* Part of NoWaitPassedOver: no signal is kept for a set on which operations wait.
NothingKept == \A x \in Sets : queue_[x] # <<>> => \A n \in Signals : undelivered_[x][n] <= 0

\* The other part: the operations in the queues are those that wait, each in one place.
QueuedOnce ==
    /\ \A x \in Sets, o \in Ops : Has(queue_[x], o) => result[o] = "waiting" /\ AtMostOnce(queue_[x], o)
    /\ \A x, y \in Sets, o \in Ops : Has(queue_[x], o) /\ Has(queue_[y], o) => x = y
    /\ \A o \in Ops : result[o] = "waiting" => \E x \in Sets : Has(queue_[x], o)

WaitInv == TypeWaits /\ NothingKept /\ QueuedOnce

LEMMA WaitParts == WaitInv => NoWaitPassedOver
<1> SUFFICES ASSUME WaitInv PROVE NoWaitPassedOver
  OBVIOUS
<1>1. ASSUME NEW o \in Ops, result[o] = "waiting"
      PROVE  \E x \in Sets : /\ Has(queue_[x], o) /\ AtMostOnce(queue_[x], o)
                             /\ \A y \in Sets \ {x} : ~Has(queue_[y], o)
  BY <1>1 DEF WaitInv, QueuedOnce
<1>2. ASSUME NEW o \in Ops, result[o] # "waiting" PROVE \A x \in Sets : ~Has(queue_[x], o)
  BY <1>2 DEF WaitInv, QueuedOnce
<1> QED BY <1>1, <1>2 DEF WaitInv, NothingKept, NoWaitPassedOver

LEMMA WaitInit == ASSUME SignalInit PROVE WaitInv
<1>1. <<>> \in Seq(Ops)
  OBVIOUS
<1>2. TypeWaits
  BY <1>1 DEF SignalInit, TypeWaits
<1>3. /\ \A x \in Sets : queue_[x] = <<>> /\ \A o \in Ops : ~Has(queue_[x], o)
      /\ \A o \in Ops : result[o] = "none"
  BY NoneHas DEF SignalInit
<1> QED BY <1>2, <1>3 DEF WaitInv, NothingKept, QueuedOnce

\* The operations os leave the queues with the result r.
Leave(os, r) ==
    /\ queue_' \in [Sets -> Seq(Ops)]
    /\ \A x \in Sets : queue_'[x] # <<>> => queue_[x] # <<>>
    /\ \A x \in Sets, o \in Ops :
          /\ Has(queue_'[x], o) <=> Has(queue_[x], o) /\ o \notin os
          /\ AtMostOnce(queue_[x], o) => AtMostOnce(queue_'[x], o)
    /\ result' = [o \in Ops |-> IF o \in os THEN r ELSE result[o]]

LEMMA QueueLeft ==
  ASSUME WaitInv, NEW os, NEW r \in {"signal", "aborted", "destroyed"}, Leave(os, r)
  PROVE  TypeWaits' /\ QueuedOnce'
<1>1. TypeWaits'
  BY DEF Leave, WaitInv, TypeWaits
<1>2. \A x \in Sets, o \in Ops : Has(queue_[x], o) => result[o] = "waiting" /\ AtMostOnce(queue_[x], o)
  BY DEF WaitInv, QueuedOnce
<1>3. \A x \in Sets, o \in Ops : Has(queue_'[x], o) => result'[o] = "waiting" /\ AtMostOnce(queue_'[x], o)
  BY <1>2 DEF Leave
<1>4. \A x, y \in Sets, o \in Ops : Has(queue_'[x], o) /\ Has(queue_'[y], o) => x = y
  BY DEF Leave, WaitInv, QueuedOnce
<1>5. \A o \in Ops : result'[o] = "waiting" => o \notin os /\ result[o] = "waiting"
  BY DEF Leave
<1>6. \A o \in Ops : result'[o] = "waiting" => \E x \in Sets : Has(queue_'[x], o)
  BY <1>5 DEF Leave, WaitInv, QueuedOnce
<1> QED BY <1>1, <1>3, <1>4, <1>6 DEF QueuedOnce

\* A queue without some operations.
LEMMA Shortened ==
  ASSUME NEW q \in Seq(Ops), NEW os
  PROVE  /\ Unlinked(q, os) \in Seq(Ops) /\ (Unlinked(q, os) # <<>> => q # <<>>)
         /\ \A o \in Ops : /\ Has(Unlinked(q, os), o) <=> Has(q, o) /\ o \notin os
                           /\ AtMostOnce(q, o) => AtMostOnce(Unlinked(q, os), o)
<1>1. /\ Unlinked(q, os) \in Seq(Ops) /\ Len(Unlinked(q, os)) <= Len(q)
      /\ \A o : Has(Unlinked(q, os), o) <=> Has(q, o) /\ o \notin os
      /\ \A o : AtMostOnce(q, o) => AtMostOnce(Unlinked(q, os), o)
  BY UnlinkedFacts
<1>2. PICK r \in Seq(Ops) : r = Unlinked(q, os)
  BY <1>1
<1>3. r # <<>> => Len(r) > 0
  OBVIOUS
<1> QED BY <1>1, <1>2, <1>3

LEMMA Aborted ==
  ASSUME WaitInv, NEW x \in Sets, NEW os \in SUBSET Waiting(x), Abort(x, os)
  PROVE  Leave(os, "aborted")
<1>1. /\ queue_' = [queue_ EXCEPT ![x] = Unlinked(queue_[x], os)]
      /\ result' = [o \in Ops |-> IF o \in os THEN "aborted" ELSE result[o]]
  BY DEF Abort
<1>2. \A y \in Sets : queue_[y] \in Seq(Ops)
  BY DEF WaitInv, TypeWaits
<1>3. /\ queue_' \in [Sets -> Seq(Ops)] /\ queue_'[x] = Unlinked(queue_[x], os)
      /\ \A y \in Sets \ {x} : queue_'[y] = queue_[y]
  BY <1>1, <1>2, Shortened DEF WaitInv, TypeWaits
<1>4. ASSUME NEW y \in Sets, NEW o \in Ops
      PROVE  /\ queue_'[y] # <<>> => queue_[y] # <<>>
             /\ Has(queue_'[y], o) <=> Has(queue_[y], o) /\ o \notin os
             /\ AtMostOnce(queue_[y], o) => AtMostOnce(queue_'[y], o)
  <2>1. CASE y = x
    BY <1>2, <1>3, <2>1, Shortened
  <2>2. CASE y # x
    <3>1. o \in os => ~Has(queue_[y], o)
      BY <2>2 DEF Waiting, WaitInv, QueuedOnce
    <3> QED BY <1>3, <2>2, <3>1
  <2> QED BY <2>1, <2>2
<1>5. \A y \in Sets : queue_'[y] # <<>> => queue_[y] # <<>>
  BY <1>2, <1>3, Shortened
<1> QED BY <1>1, <1>3, <1>4, <1>5 DEF Leave

LEMMA Finished ==
  ASSUME WaitInv, NEW s \in Services, RemoveFinishes(s)
  PROVE  Leave(Abandoned(s), "destroyed")
<1>1. /\ queue_' = [x \in Sets |-> Unlinked(queue_[x], Abandoned(s))]
      /\ result' = [o \in Ops |-> IF o \in Abandoned(s) THEN "destroyed" ELSE result[o]]
  BY DEF RemoveFinishes
<1>2. \A x \in Sets : queue_[x] \in Seq(Ops)
  BY DEF WaitInv, TypeWaits
<1> HIDE DEF Abandoned
<1> QED BY <1>1, <1>2, Shortened DEF Leave

LEMMA Delivered ==
  ASSUME WaitInv, NEW s \in Services, DeliverSignal(s)
  PROVE  Leave({o \in Ops : \E x \in Notified(holding[s]) : Has(queue_[x], o)}, "signal")
<1> DEFINE n == holding[s]
           woken == {o \in Ops : \E x \in Notified(n) : Has(queue_[x], o)}
<1>1. /\ queue_' = [x \in Sets |-> IF x \in Notified(n) THEN <<>> ELSE queue_[x]]
      /\ result' = [o \in Ops |-> IF o \in woken THEN "signal" ELSE result[o]]
  BY DEF DeliverSignal
<1>2. \A x \in Sets : queue_[x] \in Seq(Ops) /\ <<>> \in Seq(Ops)
  BY DEF WaitInv, TypeWaits
<1>3. Notified(n) \subseteq Sets
  BY DEF Notified
<1>4. ASSUME NEW x \in Sets, NEW o \in Ops
      PROVE  /\ Has(queue_'[x], o) <=> Has(queue_[x], o) /\ o \notin woken
             /\ AtMostOnce(queue_[x], o) => AtMostOnce(queue_'[x], o)
  <2>1. CASE x \in Notified(n)
    BY <1>1, <2>1, NoneHas
  <2>2. CASE x \notin Notified(n)
    <3>1. Has(queue_[x], o) => o \notin woken
      BY <1>3, <2>2 DEF WaitInv, QueuedOnce
    <3> QED BY <1>1, <2>2, <3>1
  <2> QED BY <2>1, <2>2
<1> HIDE DEF woken
<1>5. Leave(woken, "signal")
  BY <1>1, <1>2, <1>4 DEF Leave
<1> QED BY <1>5 DEF woken

LEMMA WaitStep ==
  ASSUME ProcessInv, CountsInv, WaitInv, [SignalNext]_signalVars
  PROVE  WaitInv'
<1> USE DEF global, registrations, waits, reactor
<1>0. TypeWaits /\ NothingKept /\ QueuedOnce
  BY DEF WaitInv
<1>1. ASSUME UNCHANGED waits PROVE TypeWaits' /\ QueuedOnce'
  BY <1>0, <1>1 DEF TypeWaits, QueuedOnce
<1>2. ASSUME UNCHANGED <<waits, undelivered_>> PROVE WaitInv'
  BY <1>0, <1>1, <1>2 DEF NothingKept, WaitInv
\* Registering a signal, or giving it up, leaves none that was kept.
<1>3. ASSUME NEW x \in Sets, NEW ns \in SUBSET Signals,
             \/ Deregister(x, ns)
             \/ \E n \in Signals : undelivered_' = [undelivered_ EXCEPT ![x] = [undelivered_[x] EXCEPT ![n] = 0]],
             \A y \in Sets : queue_'[y] # <<>> => queue_[y] # <<>>
      PROVE  NothingKept'
  <2>1. \A y \in Sets, k \in Signals : undelivered_'[y][k] \in {undelivered_[y][k], 0, NotRegistered}
    BY <1>3 DEF Deregister, CountsInv, TypeRegistrations
  <2> QED BY <1>0, <1>3, <2>1 DEF NothingKept, NotRegistered
<1>4. ASSUME NEW x \in Sets, NEW n \in Signals, Add(x, n) \/ Remove(x, n) PROVE WaitInv'
  <2>1. UNCHANGED waits
    BY <1>4 DEF Add, Remove
  <2>2. \/ Deregister(x, {n})
        \/ \E k \in Signals : undelivered_' = [undelivered_ EXCEPT ![x] = [undelivered_[x] EXCEPT ![k] = 0]]
    BY <1>4 DEF Add, Remove
  <2>3. NothingKept'
    <3>1. (\A y \in Sets : queue_'[y] # <<>> => queue_[y] # <<>>) /\ {n} \in SUBSET Signals
      BY <1>4, <2>1
    <3>2. CASE Deregister(x, {n})
      BY <1>3, <3>1, <3>2
    <3>3. CASE \E k \in Signals : undelivered_' = [undelivered_ EXCEPT ![x] = [undelivered_[x] EXCEPT ![k] = 0]]
      BY <1>3, <3>1, <3>3
    <3> QED BY <2>2, <3>2, <3>3
  <2> QED BY <1>1, <2>1, <2>3 DEF WaitInv
<1>5. ASSUME NEW x \in Sets, Clear(x) PROVE WaitInv'
  <2>1. UNCHANGED waits /\ Deregister(x, RegisteredSignals(x)) /\ RegisteredSignals(x) \in SUBSET Signals
    BY <1>5 DEF Clear, RegisteredSignals
  <2>2. NothingKept'
    BY <1>3, <2>1
  <2> QED BY <1>1, <2>1, <2>2 DEF WaitInv
<1>6. ASSUME NEW x \in Sets, DestroySet(x) PROVE WaitInv'
  <2>1. /\ Abort(x, Waiting(x)) /\ Deregister(x, RegisteredSignals(x))
        /\ RegisteredSignals(x) \in SUBSET Signals
    BY <1>6 DEF DestroySet, RegisteredSignals
  <2>2. Leave(Waiting(x), "aborted")
    BY <2>1, Aborted
  <2>3. NothingKept'
    <3>1. \A y \in Sets : queue_'[y] # <<>> => queue_[y] # <<>>
      BY <2>2 DEF Leave
    <3> QED BY <1>3, <2>1, <3>1
  <2> QED BY <2>2, <2>3, QueueLeft DEF WaitInv
<1>7. ASSUME NEW x \in Sets, Cancel(x) \/ \E o \in Ops : CancelByKey(x, o) PROVE WaitInv'
  <2>1. PICK os \in SUBSET Waiting(x) : Abort(x, os)
    <3>1. CASE Cancel(x)
      <4>1. Abort(x, Waiting(x))
        BY <3>1 DEF Cancel
      <4> QED BY <4>1
    <3>2. ASSUME NEW o \in Ops, CancelByKey(x, o) PROVE \E os \in SUBSET Waiting(x) : Abort(x, os)
      <4>1. Abort(x, {o}) /\ {o} \in SUBSET Waiting(x)
        BY <3>2 DEF CancelByKey, Waiting
      <4> QED BY <4>1
    <3> QED BY <1>7, <3>1, <3>2
  <2>2. Leave(os, "aborted")
    BY <2>1, Aborted
  <2>3. UNCHANGED undelivered_
    BY <1>7, Zenon DEF Cancel, CancelByKey
  <2>4. NothingKept'
    BY <1>0, <2>2, <2>3 DEF Leave, NothingKept
  <2> QED BY <2>2, <2>4, QueueLeft DEF WaitInv
<1>8. ASSUME NEW s \in Services, RemoveFinishes(s) PROVE WaitInv'
  <2>1. Leave(Abandoned(s), "destroyed")
    BY <1>8, Finished
  <2>2. UNCHANGED undelivered_
    BY <1>8 DEF RemoveFinishes
  <2>3. NothingKept'
    BY <1>0, <2>1, <2>2 DEF Leave, NothingKept
  <2> QED BY <2>1, <2>3, QueueLeft DEF WaitInv
<1>9. ASSUME NEW s \in Services, DeliverSignal(s) PROVE WaitInv'
  <2>1. PICK os : Leave(os, "signal")
    BY <1>9, Delivered
  <2>2. NothingKept'
    <3>1. /\ queue_' = [x \in Sets |-> IF x \in Notified(holding[s]) THEN <<>> ELSE queue_[x]]
          /\ \A x \in Sets : ~(x \in Notified(holding[s]) /\ queue_[x] = <<>>) => undelivered_'[x] = undelivered_[x]
      BY <1>9 DEF DeliverSignal
    <3>2. \A x \in Sets : queue_'[x] # <<>> => queue_[x] # <<>> /\ undelivered_'[x] = undelivered_[x]
      BY <3>1
    <3> QED BY <1>0, <3>2 DEF NothingKept
  <2> QED BY <2>1, <2>2, QueueLeft DEF WaitInv
<1>10. ASSUME NEW x \in Sets, NEW o \in Ops, AsyncWait(x, o) PROVE WaitInv'
  <2>0. result[o] = "none" /\ \A y \in Sets : ~Has(queue_[y], o)
    BY <1>0, <1>10 DEF AsyncWait, QueuedOnce
  <2>1. ASSUME NEW n \in KeptFor(x),
               undelivered_' = [undelivered_ EXCEPT ![x] = [undelivered_[x] EXCEPT ![n] = undelivered_[x][n] - 1]],
               result' = [result EXCEPT ![o] = "signal"], UNCHANGED queue_
        PROVE  WaitInv'
    <3>1. \A p \in Ops : result'[p] = "waiting" <=> result[p] = "waiting"
      BY <1>0, <2>0, <2>1 DEF TypeWaits
    <3>2. TypeWaits' /\ QueuedOnce'
      BY <1>0, <2>1, <3>1 DEF TypeWaits, QueuedOnce
    <3>3. n \in Signals /\ undelivered_[x][n] \in Nat \ {0}
      BY DEF KeptFor, RegisteredSignals, Registered, CountsInv, TypeRegistrations
    <3>4. queue_[x] = <<>>
      BY <1>0, <3>3 DEF NothingKept
    <3>5. NothingKept'
      BY <1>0, <2>1, <3>4 DEF NothingKept, CountsInv, TypeRegistrations
    <3> QED BY <3>2, <3>5 DEF WaitInv
  <2>2. ASSUME KeptFor(x) = {}, queue_' = [queue_ EXCEPT ![x] = Append(queue_[x], o)],
               result' = [result EXCEPT ![o] = "waiting"], UNCHANGED undelivered_
        PROVE  WaitInv'
    <3>1. PICK q \in Seq(Ops) : q = queue_[x]
      BY <1>0 DEF TypeWaits
    <3>2. /\ Append(q, o) \in Seq(Ops)
          /\ \A p \in Ops : Has(Append(q, o), p) <=> Has(q, p) \/ p = o
          /\ \A p \in Ops : AtMostOnce(q, p) /\ (p = o => ~Has(q, o)) => AtMostOnce(Append(q, o), p)
      <4>1. Append(q, o) = q \o <<o>> /\ <<o>> \in Seq(Ops)
        OBVIOUS
      <4>2. \A p \in Ops : (Has(<<o>>, p) <=> p = o) /\ AtMostOnce(<<o>>, p)
        BY OneHas
      <4>3. \A p \in Ops : Has(q \o <<o>>, p) <=> Has(q, p) \/ Has(<<o>>, p)
        BY <4>1, ConcatHas
      <4>4. \A p \in Ops : AtMostOnce(q, p) /\ ~(Has(q, p) /\ Has(<<o>>, p)) => AtMostOnce(q \o <<o>>, p)
        BY <4>1, <4>2, JoinOnce
      <4>5. Append(q, o) \in Seq(Ops)
        OBVIOUS
      <4> QED BY <4>1, <4>2, <4>3, <4>4, <4>5
    <3>3. /\ queue_' \in [Sets -> Seq(Ops)] /\ queue_'[x] = Append(q, o)
          /\ \A y \in Sets \ {x} : queue_'[y] = queue_[y]
      BY <1>0, <2>2, <3>1, <3>2 DEF TypeWaits
    <3>4. /\ result' \in [Ops -> {"none", "waiting", "signal", "aborted", "destroyed"}]
          /\ result'[o] = "waiting" /\ \A p \in Ops \ {o} : result'[p] = result[p]
      BY <1>0, <2>2 DEF TypeWaits
    <3>5. \A y \in Sets, p \in Ops : Has(queue_'[y], p) <=> Has(queue_[y], p) \/ (y = x /\ p = o)
      BY <3>1, <3>2, <3>3
    <3>6. \A y \in Sets, p \in Ops : Has(queue_'[y], p) => result'[p] = "waiting" /\ AtMostOnce(queue_'[y], p)
      <4>1. ASSUME NEW p \in Ops, Has(queue_'[x], p) PROVE AtMostOnce(queue_'[x], p)
        <5>1. CASE p = o
          <6>1. AtMostOnce(q, o)
            BY <2>0, <3>1 DEF AtMostOnce, Has
          <6> QED BY <2>0, <3>1, <3>2, <3>3, <5>1, <6>1
        <5>2. CASE p # o
          <6>1. Has(q, p)
            BY <3>1, <3>5, <4>1, <5>2
          <6>2. AtMostOnce(q, p)
            BY <1>0, <3>1, <6>1 DEF QueuedOnce
          <6> QED BY <3>2, <3>3, <5>2, <6>2
        <5> QED BY <5>1, <5>2
      <4> QED BY <1>0, <3>3, <3>4, <3>5, <4>1 DEF QueuedOnce
    <3>7. QueuedOnce'
      BY <1>0, <2>0, <3>4, <3>5, <3>6 DEF QueuedOnce
    <3>8. NothingKept'
      <4>1. \A n \in Signals : undelivered_[x][n] <= 0
        BY <2>2 DEF KeptFor, RegisteredSignals, Registered, NotRegistered, CountsInv, TypeRegistrations
      <4> QED BY <1>0, <2>2, <3>3, <4>1 DEF NothingKept
    <3> QED BY <3>3, <3>4, <3>7, <3>8 DEF WaitInv, TypeWaits
  <2> QED BY <1>10, <2>1, <2>2 DEF AsyncWait
<1>11. ASSUME NEW s \in Services,
             \/ AddService(s) \/ RemoveService(s) \/ AddServiceRegisters(s) \/ RemoveUnlocks(s)
             \/ RemoveDeregisters(s) \/ ReadBegins(s) \/ Read(s) \/ ForkPrepare(s) \/ ForkNotify(s)
      PROVE  WaitInv'
  <2>1. UNCHANGED <<waits, undelivered_>>
    BY <1>11, Zenon DEF AddService, RemoveService, AddServiceRegisters, RemoveUnlocks,
       RemoveDeregisters, ReadBegins, Read, ForkPrepare, ForkNotify
  <2> QED BY <1>2, <2>1
<1>12. ASSUME Fork \/ (\E n \in Signals : Raise(n)) \/ UNCHANGED signalVars PROVE WaitInv'
  <2>1. UNCHANGED <<waits, undelivered_>>
    BY <1>12, Zenon DEF Fork, Raise, signalVars
  <2> QED BY <1>2, <2>1
<1> QED BY <1>4, <1>5, <1>6, <1>7, <1>8, <1>9, <1>10, <1>11, <1>12 DEF SignalNext, ReaderStep, ServiceStep

\* The variables of the signal sets have their types.
THEOREM SignalTypes == SignalSpec => []SignalTypeOK
<1>1. SignalInit => ProcessInv /\ CountsInv /\ WaitInv
  BY ProcessInit, CountsInit, WaitInit
<1>2. ProcessInv /\ CountsInv /\ WaitInv /\ [SignalNext]_signalVars => (ProcessInv /\ CountsInv /\ WaitInv)'
  BY ProcessStep, CountsStep, WaitStep DEF CountsInv
<1>3. ProcessInv /\ CountsInv /\ WaitInv => SignalTypeOK
  BY TypeParts DEF ProcessInv, CountsInv, WaitInv
<1> QED BY <1>1, <1>2, <1>3, PTL DEF SignalSpec

\* The counts of registrations that the services of the process share are exact, the handler is
\* installed for the signals some set wants, and no operation waits for a signal that was kept:
\* for every order of add(), remove(), clear(), destruction, delivery, shutdown and forks.
THEOREM SignalsAddUp == SignalSpec => []SignalsAccounted
<1>1. SignalInit => ProcessInv /\ CountsInv /\ WaitInv
  BY ProcessInit, CountsInit, WaitInit
<1>2. ProcessInv /\ CountsInv /\ WaitInv /\ [SignalNext]_signalVars => (ProcessInv /\ CountsInv /\ WaitInv)'
  BY ProcessStep, CountsStep, WaitStep DEF CountsInv
<1>3. ProcessInv /\ CountsInv /\ WaitInv => SignalsAccounted
  BY TypeParts, WaitParts DEF ProcessInv, CountsInv, WaitInv, CountsExact, CountsAgree, SignalsAccounted
<1> QED BY <1>1, <1>2, <1>3, PTL DEF SignalSpec

-----------------------------------------------------------------------------
(* The pipe. *)

\* The program forks with no second signal service alive: notify_fork closes and opens the
\* pipe of the process for the service it is called on, and leaves the others of
\* service_list_ with the registration of a descriptor that is gone.
NoSharedFork == "fork_shared" \notin SignalUses

\* The list of the process has exactly the services that take part.
ListExact ==
    \A s \in Services : Has(service_list_, s) <=> state[s] \in Member

\* Whoever may read the pipe has the one that is open.
ReadsCurrent ==
    \A s \in Services :
        /\ edge[s] \/ reading[s] \/ watched[s] # Closed => state[s] \in {"running", "removing", "unlocked"}
        /\ edge[s] \/ reading[s] => watched[s] = descriptors

\* A service that prepares a fork is alone.
ForkAlone ==
    \A s \in Services : state[s] = "prepared" => fork_prepared_ /\ service_list_ = <<s>>

\* Each of them watches it.
RunningWatched ==
    \A s \in Services : Running(s) =>
        watched[s] = descriptors /\ (pipe # <<>> => edge[s] \/ reading[s])

OpenForServices == service_list_ = <<>> <=> descriptors = Closed

PipeInv == ListExact /\ ReadsCurrent /\ ForkAlone /\ RunningWatched /\ OpenForServices

LEMMA PipeParts == PipeInv => PipeWatched
BY DEF PipeInv, PipeWatched, OpenForServices, RunningWatched, ReadsCurrent

LEMMA PipeInit == ASSUME SignalInit PROVE PipeInv
<1>1. \A s \in Services : state[s] = "none" /\ ~edge[s] /\ ~reading[s] /\ ~Has(service_list_, s)
  BY NoneHas DEF SignalInit
<1>2. \A s \in Services : watched[s] = Closed
  BY DEF SignalInit
<1> QED BY <1>1, <1>2 DEF SignalInit, PipeInv, ListExact, ReadsCurrent, ForkAlone, RunningWatched, Running,
    OpenForServices, Member

\* A step of no service, by which at most the pipe fills up.
LEMMA PipeKept ==
  ASSUME PipeInv, UNCHANGED <<service_list_, fork_prepared_, descriptors, state, watched>>,
         \A s \in Services : /\ reading'[s] => edge[s] \/ reading[s]
                             /\ edge'[s] => edge[s] \/ (watched[s] = descriptors /\ watched[s] # Closed)
                             /\ Running(s) /\ pipe' # <<>> => edge'[s] \/ reading'[s]
  PROVE  PipeInv'
<1>1. ListExact' /\ ForkAlone' /\ OpenForServices'
  BY DEF PipeInv, ListExact, ForkAlone, OpenForServices
<1>2. ReadsCurrent' /\ RunningWatched'
  BY DEF PipeInv, ReadsCurrent, RunningWatched, Running
<1> QED BY <1>1, <1>2 DEF PipeInv

LEMMA PipeService ==
  ASSUME NoSharedFork, ProcessInv, PipeInv, NEW s \in Services,
         \/ AddService(s) \/ RemoveService(s) \/ ServiceStep(s) \/ ReadBegins(s) \/ ReaderStep(s)
         \/ ForkPrepare(s) \/ ForkNotify(s)
  PROVE  PipeInv'
<1> USE DEF global, registrations, waits, reactor, Goto
<1>0. /\ service_list_ \in Seq(Services) /\ state \in [Services -> Member \cup {"none", "closed"}]
      /\ edge \in [Services -> BOOLEAN] /\ reading \in [Services -> BOOLEAN]
      /\ watched \in [Services -> 0 .. MaxForks + 1]
      /\ ListExact /\ ReadsCurrent /\ ForkAlone /\ RunningWatched /\ OpenForServices
  BY DEF ProcessInv, TypeProcess, TypeProgress, PipeInv
<1>9. service_list_ = <<>> => \A r \in Services : state[r] \notin Member
  BY <1>0, NoneHas DEF ListExact
<1>1. CASE AddService(s)
  <2>1. /\ state' = [state EXCEPT ![s] = "adding"] /\ state[s] = "none" /\ ~Forking
        /\ service_list_' = <<s>> \o service_list_
        /\ descriptors' = IF service_list_ = <<>> THEN 1 + forks ELSE descriptors
        /\ UNCHANGED <<fork_prepared_, pipe, reactor>>
    BY <1>1 DEF AddService, NewPipe
  <2>2. \A r \in Services : /\ state'[s] = "adding" /\ (r # s => state'[r] = state[r])
                            /\ state[r] # "prepared"
    BY <1>0, <2>1 DEF Forking
  <2>3. /\ service_list_' # <<>>
        /\ \A r \in Services : Has(service_list_', r) <=> r = s \/ Has(service_list_, r)
    <3>1. <<s>> \in Seq(Services) /\ <<s>> \o service_list_ # <<>>
      BY <1>0
    <3>2. \A r : Has(<<s>> \o service_list_, r) <=> Has(<<s>>, r) \/ Has(service_list_, r)
      BY <1>0, <3>1, ConcatHas
    <3>3. \A r : Has(<<s>>, r) <=> r = s
      BY OneHas
    <3> QED BY <2>1, <3>1, <3>2, <3>3
  <2>4. ListExact'
    BY <1>0, <2>2, <2>3 DEF ListExact, Member
  <2>5. descriptors' # Closed
    BY <1>0, <2>1 DEF OpenForServices, Closed, ProcessInv, TypeProgress
  <2>6. \A r \in Services : state[r] \in Member => descriptors' = descriptors
    BY <1>9, <2>1
  <2>7. ReadsCurrent' /\ RunningWatched'
    BY <1>0, <2>1, <2>2, <2>6 DEF ReadsCurrent, RunningWatched, Running, Member
  <2>8. ForkAlone' /\ OpenForServices'
    BY <2>2, <2>3, <2>5 DEF ForkAlone, OpenForServices
  <2> QED BY <2>4, <2>7, <2>8 DEF PipeInv
<1>2. CASE AddServiceRegisters(s)
  <2>1. /\ state' = [state EXCEPT ![s] = "running"] /\ state[s] = "adding"
        /\ watched' = [watched EXCEPT ![s] = descriptors]
        /\ edge' = [edge EXCEPT ![s] = pipe # <<>>]
        /\ UNCHANGED <<service_list_, descriptors, fork_prepared_, pipe, reading>>
    BY <1>2 DEF AddServiceRegisters, Watch
  <2>2. \A r \in Services : /\ state'[s] = "running" /\ watched'[s] = descriptors /\ (edge'[s] <=> pipe # <<>>)
                            /\ r # s => state'[r] = state[r] /\ watched'[r] = watched[r] /\ edge'[r] = edge[r]
    BY <1>0, <2>1
  <2>3. ListExact' /\ ForkAlone' /\ OpenForServices'
    BY <1>0, <2>1, <2>2 DEF ListExact, Member, ForkAlone, OpenForServices
  <2>4. ReadsCurrent'
    BY <1>0, <2>1, <2>2 DEF ReadsCurrent, Closed
  <2>5. RunningWatched'
    BY <1>0, <2>1, <2>2 DEF RunningWatched, Running
  <2> QED BY <2>3, <2>4, <2>5 DEF PipeInv
<1>3. CASE RemoveService(s) \/ RemoveUnlocks(s)
  <2>1. /\ \/ state[s] = "running" /\ state' = [state EXCEPT ![s] = "removing"]
           \/ state[s] = "removing" /\ state' = [state EXCEPT ![s] = "unlocked"]
        /\ UNCHANGED <<service_list_, descriptors, fork_prepared_, pipe, reactor>>
    BY <1>3 DEF RemoveService, RemoveUnlocks, Running
  <2>2. \A r \in Services : /\ {state[s], state'[s]} \subseteq {"running", "removing", "unlocked"}
                            /\ r # s => state'[r] = state[r]
                            /\ state'[s] # "running"
    BY <1>0, <2>1
  <2>3. ListExact' /\ ForkAlone' /\ OpenForServices'
    BY <1>0, <2>1, <2>2 DEF ListExact, Member, ForkAlone, OpenForServices
  <2>4. ReadsCurrent' /\ RunningWatched'
    BY <1>0, <2>1, <2>2 DEF ReadsCurrent, RunningWatched, Running
  <2> QED BY <2>3, <2>4 DEF PipeInv
<1>4. CASE RemoveDeregisters(s) \/ ForkPrepare(s)
  <2>1. /\ \/ state[s] = "unlocked" /\ state' = [state EXCEPT ![s] = "deregistered"]
              /\ fork_prepared_' = fork_prepared_
           \/ state[s] = "running" /\ state' = [state EXCEPT ![s] = "prepared"]
              /\ service_list_ = <<s>> /\ fork_prepared_'
        /\ watched' = [watched EXCEPT ![s] = Closed] /\ edge' = [edge EXCEPT ![s] = FALSE]
        /\ ~reading[s]
        /\ UNCHANGED <<service_list_, descriptors, pipe, reading>>
    BY <1>4 DEF RemoveDeregisters, ForkPrepare, Unwatch, Running, NoSharedFork
  <2>2. \A r \in Services : /\ state'[s] \in {"deregistered", "prepared"} /\ ~edge'[s]
                            /\ r # s => state'[r] = state[r] /\ watched'[r] = watched[r] /\ edge'[r] = edge[r]
                            /\ state[s] \in {"running", "unlocked"}
    BY <1>0, <2>1
  <2>3. ListExact' /\ OpenForServices'
    BY <1>0, <2>1, <2>2 DEF ListExact, Member, OpenForServices
  <2>4. ForkAlone'
    <3>1. \A r \in Services : state'[r] = "prepared" /\ r # s => fork_prepared_' /\ service_list_' = <<r>>
      BY <1>0, <2>1, <2>2 DEF ForkAlone
    <3>2. state'[s] = "prepared" => fork_prepared_' /\ service_list_' = <<s>>
      BY <1>0, <2>1
    <3> QED BY <3>1, <3>2 DEF ForkAlone
  <2>5. ReadsCurrent'
    BY <1>0, <2>1, <2>2 DEF ReadsCurrent
  <2>6. RunningWatched'
    BY <1>0, <2>1, <2>2 DEF RunningWatched, Running
  <2> QED BY <2>3, <2>4, <2>5, <2>6 DEF PipeInv
<1>5. CASE RemoveFinishes(s)
  <2>1. /\ state' = [state EXCEPT ![s] = "closed"] /\ state[s] = "deregistered" /\ ~Forking
        /\ service_list_' = Unlinked(service_list_, {s})
        /\ IF service_list_' = <<>> THEN descriptors' = Closed /\ pipe' = <<>>
                                    ELSE UNCHANGED <<descriptors, pipe>>
        /\ UNCHANGED <<fork_prepared_, reactor>>
    BY <1>5 DEF RemoveFinishes, LastService
  <2>2. \A r \in Services : /\ state'[s] = "closed" /\ (r # s => state'[r] = state[r])
                            /\ state[r] # "prepared"
    BY <1>0, <2>1 DEF Forking
  <2>3. \A r \in Services : Has(service_list_', r) <=> Has(service_list_, r) /\ r # s
    BY <1>0, <2>1, UnlinkedFacts
  <2>4. ListExact'
    BY <1>0, <2>1, <2>2, <2>3 DEF ListExact, Member
  <2>5. ASSUME NEW r \in Services, r # s, state[r] \in Member PROVE UNCHANGED <<descriptors, pipe>>
    <3>1. Has(service_list_', r)
      BY <1>0, <2>3, <2>5 DEF ListExact
    <3>2. service_list_' # <<>>
      BY <3>1, NoneHas
    <3> QED BY <2>1, <3>2
  <2>6. ReadsCurrent' /\ RunningWatched'
    BY <1>0, <2>1, <2>2, <2>5 DEF ReadsCurrent, RunningWatched, Running, Member
  <2>7. ForkAlone'
    BY <2>2 DEF ForkAlone
  <2>8. service_list_ # <<>>
    BY <1>9, <2>1 DEF Member
  <2>9. OpenForServices'
    BY <1>0, <2>1, <2>8 DEF OpenForServices
  <2> QED BY <2>4, <2>6, <2>7, <2>9 DEF PipeInv
<1>6. CASE ReadBegins(s) \/ Read(s) \/ DeliverSignal(s)
  <2>1. UNCHANGED <<service_list_, fork_prepared_, descriptors, state, watched>>
    BY <1>6 DEF ReadBegins, Read, DeliverSignal
  <2>2. pipe' # <<>> => pipe # <<>>
    BY <1>6, Zenon DEF ReadBegins, Read, DeliverSignal
  <2>3. \/ /\ edge' = [edge EXCEPT ![s] = FALSE] /\ reading' = [reading EXCEPT ![s] = TRUE] /\ edge[s]
        \/ edge' = edge /\ reading' = reading
        \/ edge' = edge /\ reading' = [reading EXCEPT ![s] = FALSE] /\ pipe' = <<>>
    BY <1>6 DEF ReadBegins, Read, DeliverSignal
  <2>4. \A r \in Services : /\ reading'[r] => edge[r] \/ reading[r]
                            /\ edge'[r] => edge[r]
                            /\ Running(r) /\ pipe' # <<>> => edge'[r] \/ reading'[r]
    BY <1>0, <2>2, <2>3 DEF RunningWatched
  <2> QED BY <2>1, <2>4, PipeKept
<1>7. CASE ForkNotify(s)
  <2>1. /\ state' = [state EXCEPT ![s] = "running"] /\ state[s] = "prepared"
        /\ UNCHANGED <<service_list_, reading>>
    BY <1>7, Zenon DEF ForkNotify, Watch
  <2>2. fork_prepared_ /\ service_list_ = <<s>>
    BY <1>0, <2>1 DEF ForkAlone
  <2>3. /\ descriptors' = IF role = "child" THEN 1 + forks ELSE descriptors
        /\ watched' = [watched EXCEPT ![s] = descriptors']
        /\ edge' = [edge EXCEPT ![s] = pipe' # <<>>]
    BY <1>7, <2>2, Zenon DEF ForkNotify, Watch, NewPipe
  <2>4. \A r \in Services : state[r] \in Member => r = s
    <3>1. \A r : Has(<<s>>, r) => r = s
      BY OneHas
    <3> QED BY <1>0, <2>2, <3>1 DEF ListExact
  <2>5. PICK content \in BOOLEAN : content = (pipe' # <<>>)
    OBVIOUS
  <2>6. \A r \in Services : /\ state'[s] = "running" /\ watched'[s] = descriptors' /\ edge'[s] = content
                            /\ r # s => state'[r] = state[r] /\ watched'[r] = watched[r] /\ edge'[r] = edge[r]
    BY <1>0, <2>1, <2>3, <2>5
  <2>7. ListExact'
    BY <1>0, <2>1, <2>6 DEF ListExact, Member
  <2>8. ForkAlone'
    BY <2>4, <2>6 DEF ForkAlone, Member
  <2>9. ReadsCurrent' /\ RunningWatched'
    <3>1. \A r \in Services : r # s => /\ state'[r] \notin Member /\ ~edge'[r] /\ ~reading'[r]
                                       /\ watched'[r] = Closed
      BY <1>0, <2>1, <2>4, <2>6 DEF ReadsCurrent, Member
    <3> QED BY <2>5, <2>6, <3>1 DEF ReadsCurrent, RunningWatched, Running, Member
  <2>10. OpenForServices'
    <3>1. service_list_ # <<>>
      BY <2>2
    <3>2. descriptors' # 0
      BY <1>0, <2>3, <3>1 DEF OpenForServices, Closed, ProcessInv, TypeProgress
    <3> QED BY <2>1, <3>1, <3>2 DEF OpenForServices, Closed
  <2> QED BY <2>7, <2>8, <2>9, <2>10 DEF PipeInv
<1> QED BY <1>1, <1>2, <1>3, <1>4, <1>5, <1>6, <1>7 DEF ServiceStep, ReaderStep

LEMMA PipeStep ==
  ASSUME NoSharedFork, ProcessInv, PipeInv, [SignalNext]_signalVars
  PROVE  PipeInv'
<1> USE DEF global, registrations, waits, reactor
<1>1. ASSUME UNCHANGED <<service_list_, fork_prepared_, descriptors, pipe, state, reactor>>
      PROVE  PipeInv'
  BY <1>1 DEF PipeInv, ListExact, ReadsCurrent, ForkAlone, RunningWatched, Running, OpenForServices
<1>2. ASSUME NEW n \in Signals, Raise(n) PROVE PipeInv'
  <2>1. UNCHANGED <<service_list_, fork_prepared_, descriptors, state, watched, reading, holding>>
    BY <1>2 DEF Raise
  <2>2. \/ UNCHANGED <<pipe, edge>>
        \/ /\ edge' = [s \in Services |-> edge[s] \/ watched[s] = descriptors]
           /\ descriptors # Closed
    BY <1>2, Zenon DEF Raise
  <2>3. CASE UNCHANGED <<pipe, edge>>
    BY <1>1, <2>1, <2>3
  <2>4. CASE /\ edge' = [s \in Services |-> edge[s] \/ watched[s] = descriptors]
             /\ descriptors # Closed
    <3>1. \A s \in Services : edge'[s] <=> edge[s] \/ watched[s] = descriptors
      BY <2>4
    <3>2. \A s \in Services : Running(s) => watched[s] = descriptors
      BY DEF PipeInv, RunningWatched
    <3> QED BY <2>1, <2>4, <3>1, <3>2, PipeKept
  <2> QED BY <2>2, <2>3, <2>4
<1>3. ASSUME NEW x \in Sets,
             \/ \E n \in Signals : Add(x, n) \/ Remove(x, n)
             \/ Clear(x) \/ Cancel(x) \/ DestroySet(x)
             \/ \E o \in Ops : CancelByKey(x, o) \/ AsyncWait(x, o)
      PROVE  PipeInv'
  <2>1. UNCHANGED <<mutex_, global, pipe, state, reactor>>
    BY <1>3, Zenon DEF Add, Remove, Clear, Cancel, DestroySet, CancelByKey, AsyncWait
  <2> QED BY <1>1, <2>1
<1>4. ASSUME Fork \/ UNCHANGED signalVars PROVE PipeInv'
  <2>1. UNCHANGED <<service_list_, fork_prepared_, descriptors, pipe, state, reactor>>
    BY <1>4 DEF Fork, signalVars
  <2> QED BY <1>1, <2>1
<1> QED BY <1>2, <1>3, <1>4, PipeService DEF SignalNext

\* The pipe is open as long as a service needs it, every running service watches the open one
\* with an event or a thread for what is in it, and nobody reads one that was closed: in every
\* order of services that come and go, signals, reads and forks.
THEOREM PipeIsWatched == ASSUME NoSharedFork PROVE SignalSpec => []PipeWatched
<1>1. SignalInit => ProcessInv /\ CountsInv /\ PipeInv
  BY ProcessInit, CountsInit, PipeInit
<1>2. ProcessInv /\ CountsInv /\ PipeInv /\ [SignalNext]_signalVars => (ProcessInv /\ CountsInv /\ PipeInv)'
  BY ProcessStep, CountsStep, PipeStep DEF CountsInv
<1>3. PipeInv => PipeWatched
  BY PipeParts
<1> QED BY <1>1, <1>2, <1>3, PTL DEF SignalSpec
=============================================================================
