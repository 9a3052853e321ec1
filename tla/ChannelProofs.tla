--------------------------- MODULE ChannelProofs ---------------------------
(***************************************************************************)
(* For every number of channels, capacities, sends and receives: the two   *)
(* states of a channel describe what it holds, as long as the program does *)
(* not move channels on which operations wait, close them while sends wait *)
(* or reset them while they are open.                                      *)
(*                                                                         *)
(* The states are kept by hand in every function of channel_service, and   *)
(* each keeps StatesDescribe for one reason: what waits is of one kind.    *)
(* On that rests the second half: the channels implement MessageChannel.   *)
(***************************************************************************)
EXTENDS Channel, OpQueueTheorems
LOCAL INSTANCE SequencesExt

\* The calls after which the states of a channel describe something else (section 3.3 of
\* the README).
Unsafe == {"move_waiting", "close_senders_waiting", "reset_open"}

Impl == [receive_state_ : States, send_state_ : States, max_buffer_size_ : Capacities \cup {0},
         buffer_ : Seq(Messages), waiters_ : Seq(Operations)]
Outcomes == {"new", "waits", "ok", "refused", "cancelled", "closed", "abandoned", "undefined"}

\* A channel is as it should be.
Sound(i) == i \in Impl /\ StatesDescribe(i)

\* StatesAgree, and that what is being reset has been closed, in a service that is up.
ChannelInv ==
    /\ TypeOK /\ (~down => \A c \in impl_list_ : StatesDescribe(impl[c]))
    /\ \A c \in resetting : impl[c].send_state_ = "closed"
    /\ down => resetting = {}

-----------------------------------------------------------------------------
(* The queue of waiting operations, as the set of those in it.             *)

LEMMA WaitersFacts ==
  ASSUME NEW S, NEW w \in Seq(S)
  PROVE  /\ w = <<>> <=> ToSet(w) = {}
         /\ ToSet(w) \subseteq S
         /\ w # <<>> => /\ Head(w) \in ToSet(w) /\ Tail(w) \in Seq(S)
                        /\ ToSet(Tail(w)) \subseteq ToSet(w)
         /\ \A o \in S : Append(w, o) \in Seq(S) /\ ToSet(Append(w, o)) = ToSet(w) \cup {o}
<1>1. Len(w) \in Nat /\ DOMAIN w = 1 .. Len(w) /\ (w = <<>> <=> Len(w) = 0)
  BY EmptySeq, LenProperties
<1>2. ToSet(w) = {w[i] : i \in 1 .. Len(w)} /\ \A i \in 1 .. Len(w) : w[i] \in S
  BY <1>1, ElementOfSeq DEF ToSet
<1>3. ASSUME w # <<>>
      PROVE  Head(w) \in ToSet(w) /\ Tail(w) \in Seq(S) /\ ToSet(Tail(w)) \subseteq ToSet(w)
  <2>1. /\ Head(w) = w[1] /\ Tail(w) \in Seq(S) /\ Len(Tail(w)) = Len(w) - 1
        /\ \A i \in 1 .. Len(Tail(w)) : Tail(w)[i] = w[i + 1]
    BY <1>3, HeadTailProperties
  <2>2. DOMAIN Tail(w) = 1 .. Len(Tail(w))
    BY <2>1, LenProperties
  <2>3. ASSUME NEW x \in ToSet(Tail(w)) PROVE x \in ToSet(w)
    <3>1. PICK i \in 1 .. Len(Tail(w)) : x = Tail(w)[i]
      BY <2>2 DEF ToSet
    <3>2. i + 1 \in 1 .. Len(w) /\ x = w[i + 1]
      BY <1>1, <2>1, <3>1
    <3> QED BY <1>2, <3>2
  <2> QED BY <1>1, <1>2, <1>3, <2>1, <2>3
<1>4. ASSUME NEW o \in S
      PROVE  Append(w, o) \in Seq(S) /\ ToSet(Append(w, o)) = ToSet(w) \cup {o}
  <2>1. PICK r \in Seq(S) : r = Append(w, o)
    BY AppendProperties
  <2>2. /\ Len(r) = Len(w) + 1 /\ r[Len(w) + 1] = o /\ \A i \in 1 .. Len(w) : r[i] = w[i]
        /\ DOMAIN r = 1 .. Len(w) + 1
    BY <2>1, AppendProperties, LenProperties
  <2>3. ToSet(r) = {r[i] : i \in 1 .. Len(w) + 1}
    BY <2>2 DEF ToSet
  <2>4. ToSet(r) = ToSet(w) \cup {o}
    BY <1>1, <1>2, <2>2, <2>3
  <2> QED BY <2>1, <2>4
<1> QED BY <1>1, <1>2, <1>3, <1>4

\* The first leaves.
LEMMA FrontLeaves ==
  ASSUME NEW S, NEW w \in Seq(S), w # <<>>
  PROVE  Tail(w) \in Seq(S) /\ Len(Tail(w)) = Len(w) - 1 /\ (Tail(w) = <<>> <=> Len(Tail(w)) = 0)
<1>1. Tail(w) \in Seq(S) /\ Len(Tail(w)) = Len(w) - 1
  BY HeadTailProperties
<1>2. Tail(w) = <<>> <=> Len(Tail(w)) = 0
  BY <1>1, EmptySeq
<1> QED BY <1>1, <1>2

\* The empty queue.
LEMMA NoneWaits == <<>> \in Seq(Operations) /\ ToSet(<<>>) = {}
<1>1. <<>> \in Seq(Operations)
  OBVIOUS
<1>2. PICK e \in Seq(Operations) : e = <<>>
  BY <1>1, Zenon
<1> QED BY <1>2, WaitersFacts

\* The others that wait.
LEMMA UnlinkedWaiters ==
  ASSUME NEW S, NEW w \in Seq(S), NEW gone
  PROVE  Unlinked(w, gone) \in Seq(S) /\ ToSet(Unlinked(w, gone)) \subseteq ToSet(w)
<1>1. PICK r \in Seq(S) : r = Unlinked(w, gone) /\ \A x : Has(r, x) => Has(w, x)
  BY UnlinkedFacts
<1>2. DOMAIN r = 1 .. Len(r) /\ DOMAIN w = 1 .. Len(w)
  BY LenProperties
<1>3. ToSet(r) \subseteq ToSet(w)
  BY <1>1, <1>2 DEF Has, ToSet
<1> QED BY <1>1, <1>3
-----------------------------------------------------------------------------
(* Sending and receiving.                                                  *)

\* A channel, the outcomes and the messages received.
Working == [i : Impl, outcome : [Operations -> Outcomes], got : [Receivers -> Messages \cup {NoMessage}]]
\* What one more message, sent or received, keeps.
Kept(s, closed) ==
    s \in Working /\ Sound(s.i) /\ (s.i.send_state_ = "closed" <=> closed)

\* The kind of what waits follows from either state.
LEMMA KindsApart ==
  ASSUME NEW i, Sound(i)
  PROVE  /\ i.max_buffer_size_ \in Nat /\ Len(i.buffer_) \in Nat
         /\ Messages \cap Receivers = {}
         /\ ToSet(i.waiters_) \subseteq Messages \cup Receivers
         /\ i.waiters_ = <<>> <=> ToSet(i.waiters_) = {}
         /\ i.buffer_ = <<>> <=> Len(i.buffer_) = 0
         /\ i.send_state_ = "waiter" => /\ ToSet(i.waiters_) \subseteq Receivers /\ i.waiters_ # <<>>
                                        /\ i.receive_state_ = "block" /\ i.buffer_ = <<>>
         /\ i.receive_state_ = "waiter" => /\ ToSet(i.waiters_) \subseteq Messages /\ i.waiters_ # <<>>
                                           /\ i.send_state_ = "block" /\ i.buffer_ = <<>>
         /\ i.send_state_ = "buffer" => i.waiters_ = <<>> /\ Len(i.buffer_) < i.max_buffer_size_
         /\ i.receive_state_ = "buffer" => /\ i.buffer_ # <<>> /\ ToSet(i.waiters_) \subseteq Messages
                                           /\ i.send_state_ \in {"buffer", "block"}
         /\ i.receive_state_ = "block" => i.buffer_ = <<>> /\ ToSet(i.waiters_) \subseteq Receivers
<1>1. i.waiters_ \in Seq(Operations) /\ i.buffer_ \in Seq(Messages)
  BY DEF Sound, Impl
<1>2. i.max_buffer_size_ \in Nat /\ Messages \cap Receivers = {}
  <2>1. i.max_buffer_size_ \in Capacities \cup {0}
    BY DEF Sound, Impl
  <2>2. \A n \in Capacities \cup {0} : n \in Nat
    BY ConstantsAssumption
  <2>3. Messages \cap Receivers = {}
    BY ConstantsAssumption
  <2> QED BY <2>1, <2>2, <2>3, Zenon
<1>3. /\ i.waiters_ = <<>> <=> ToSet(i.waiters_) = {}
      /\ ToSet(i.waiters_) \subseteq Operations
  BY <1>1, WaitersFacts
<1>4. Len(i.buffer_) \in Nat /\ (i.buffer_ = <<>> <=> Len(i.buffer_) = 0)
  BY <1>1, EmptySeq, LenProperties
<1>5. i.receive_state_ \in States /\ i.send_state_ \in States
  BY DEF Sound, Impl
<1> QED
  BY <1>2, <1>3, <1>4, <1>5 DEF Sound, StatesDescribe, Operations, States

\* A message enters the buffer.
LEMMA PushSound ==
  ASSUME NEW i, Sound(i), i.send_state_ = "buffer", NEW m \in Messages
  PROVE  Sound(Push(i, m)) /\ Push(i, m).send_state_ # "closed"
<1>1. PICK b \in Seq(Messages) : b = Append(i.buffer_, m) /\ Len(b) = Len(i.buffer_) + 1 /\ b # <<>>
  BY AppendProperties, EmptySeq DEF Sound, Impl
<1>2. PICK j : j = Push(i, m)
  OBVIOUS
<1>3. /\ j \in Impl /\ j.buffer_ = b /\ j.waiters_ = i.waiters_ /\ j.max_buffer_size_ = i.max_buffer_size_
      /\ j.receive_state_ = "buffer"
      /\ j.send_state_ = IF Len(i.buffer_) + 1 = i.max_buffer_size_ THEN "block" ELSE "buffer"
  BY <1>1, <1>2 DEF Push, Sound, Impl, States
<1>4. ToSet(j.waiters_) = {} /\ Len(b) <= i.max_buffer_size_ /\ (j.send_state_ = "buffer" => Len(b) < i.max_buffer_size_)
  <2>1. /\ i.max_buffer_size_ \in Nat /\ Len(i.buffer_) \in Nat /\ Len(i.buffer_) < i.max_buffer_size_
        /\ ToSet(i.waiters_) = {}
    BY KindsApart
  <2> QED BY <1>1, <1>3, <2>1
<1>5. StatesDescribe(j)
  BY <1>1, <1>3, <1>4 DEF StatesDescribe
<1> QED BY <1>2, <1>3, <1>5 DEF Sound

\* One message, to a waiting receive, to the buffer or nowhere.
LEMMA SendOneKeeps ==
  ASSUME NEW closed \in BOOLEAN, NEW s, Kept(s, closed), NEW m \in Messages
  PROVE  Kept(SendOne(s, m), closed)
<1>1. s \in Working /\ Sound(s.i) /\ m \in Operations
  BY DEF Kept, Operations
<1>2. CASE s.i.send_state_ = "waiter"
  <2> DEFINE w == s.i.waiters_
             j == [s.i EXCEPT !.waiters_ = Tail(@), !.send_state_ = AfterHandOver(s.i, Tail(w))]
             r == Head(w)
  <2>1. /\ w \in Seq(Operations) /\ w # <<>> /\ ToSet(w) \subseteq Receivers
        /\ s.i.receive_state_ = "block" /\ s.i.buffer_ = <<>> /\ s.i.max_buffer_size_ \in Nat
        /\ Messages \cap Receivers = {}
    BY <1>1, <1>2, KindsApart DEF Sound, Impl
  <2>2. /\ r \in ToSet(w) /\ Tail(w) \in Seq(Operations) /\ ToSet(Tail(w)) \subseteq ToSet(w)
        /\ Tail(w) = <<>> <=> ToSet(Tail(w)) = {}
    <3>1. r \in ToSet(w) /\ Tail(w) \in Seq(Operations) /\ ToSet(Tail(w)) \subseteq ToSet(w)
      BY <2>1, WaitersFacts
    <3>2. PICK v \in Seq(Operations) : v = Tail(w)
      BY <3>1
    <3> QED BY <3>1, <3>2, WaitersFacts
  <2>3. SendOne(s, m) = [i |-> j, outcome |-> [s.outcome EXCEPT ![r] = "ok", ![m] = "ok"],
                         got |-> [s.got EXCEPT ![r] = m]]
    BY <1>2 DEF SendOne
  <2>4. /\ j \in Impl /\ j.buffer_ = <<>> /\ j.waiters_ = Tail(w) /\ j.receive_state_ = "block"
        /\ j.max_buffer_size_ = s.i.max_buffer_size_
        /\ j.send_state_ = IF Tail(w) = <<>> THEN InitialSend(s.i.max_buffer_size_) ELSE "waiter"
    <3>1. AfterHandOver(s.i, Tail(w)) = IF Tail(w) = <<>> THEN InitialSend(s.i.max_buffer_size_) ELSE "waiter"
      BY <1>2 DEF AfterHandOver
    <3>2. AfterHandOver(s.i, Tail(w)) \in States
      BY <3>1 DEF InitialSend, States
    <3> QED BY <1>1, <2>1, <2>2, <3>1, <3>2 DEF Sound, Impl
  <2> HIDE DEF j, w
  <2>5. StatesDescribe(j)
    <3>1. Len(j.buffer_) = 0 /\ ToSet(j.waiters_) \subseteq Receivers
      BY <2>1, <2>2, <2>4
    <3>2. CASE Tail(w) = <<>>
      <4>1. ToSet(j.waiters_) = {} /\ j.send_state_ = IF j.max_buffer_size_ > 0 THEN "buffer" ELSE "block"
        BY <2>2, <2>4, <3>2 DEF InitialSend
      <4> QED BY <2>1, <2>2, <2>4, <3>1, <3>2, <4>1 DEF StatesDescribe
    <3>3. CASE Tail(w) # <<>>
      <4>1. ToSet(j.waiters_) # {} /\ j.send_state_ = "waiter"
        BY <2>2, <2>4, <3>3
      <4> QED BY <2>1, <2>4, <3>1, <4>1 DEF StatesDescribe
    <3> QED BY <3>2, <3>3
  <2>6. r \in Receivers /\ SendOne(s, m) \in Working
    <3>1. r \in Receivers
      BY <2>1, <2>2
    <3>2. [s.outcome EXCEPT ![r] = "ok", ![m] = "ok"] \in [Operations -> Outcomes]
      BY <1>1, <3>1 DEF Working, Outcomes, Operations
    <3>3. [s.got EXCEPT ![r] = m] \in [Receivers -> Messages \cup {NoMessage}]
      BY <1>1, <3>1 DEF Working
    <3> QED BY <2>3, <2>4, <3>1, <3>2, <3>3 DEF Working
  <2>7. j.send_state_ # "closed"
    BY <2>4 DEF InitialSend
  <2> QED BY <1>2, <2>3, <2>4, <2>5, <2>6, <2>7 DEF Kept, Sound
<1>3. CASE s.i.send_state_ = "buffer"
  <2>1. SendOne(s, m) = [s EXCEPT !.i = Push(s.i, m), !.outcome[m] = "ok"]
    BY <1>3 DEF SendOne
  <2>2. Sound(Push(s.i, m)) /\ Push(s.i, m).send_state_ # "closed"
    BY <1>1, <1>3, PushSound
  <2>3. SendOne(s, m) \in Working /\ SendOne(s, m).i = Push(s.i, m)
    <3>1. PICK j \in Impl : j = Push(s.i, m)
      BY <2>2 DEF Sound
    <3>2. [s.outcome EXCEPT ![m] = "ok"] \in [Operations -> Outcomes]
      BY <1>1 DEF Working, Outcomes
    <3>3. SendOne(s, m) = [i |-> j, outcome |-> [s.outcome EXCEPT ![m] = "ok"], got |-> s.got]
      BY <1>1, <2>1, <3>1 DEF Working
    <3> QED BY <1>1, <3>1, <3>2, <3>3 DEF Working
  <2> QED BY <1>3, <2>2, <2>3 DEF Kept
<1>4. CASE s.i.send_state_ \notin {"waiter", "buffer"}
  <2>1. SendOne(s, m) = [s EXCEPT !.outcome[m] = "refused"]
    BY <1>4 DEF SendOne
  <2>2. SendOne(s, m) \in Working /\ SendOne(s, m).i = s.i
    BY <1>1, <2>1 DEF Working, Outcomes
  <2> QED BY <2>2 DEF Kept
<1> QED BY <1>2, <1>3, <1>4

\* What try_send_n has done after the first n messages, for every n.
SentBy(a, N, ms, sent) ==
    sent = [n \in 0 .. N |-> IF n = 0 THEN a ELSE SendOne(sent[n - 1], ms[n])]

\* Every message took its turn, and kept the channel.
TurnsKeep(a, N, ms, sent, closed) ==
    /\ sent[0] = a /\ \A n \in 1 .. N : sent[n] = SendOne(sent[n - 1], ms[n])
    /\ \A n \in 0 .. N : Kept(sent[n], closed)

\* try_send_n: a channel that every message keeps is kept by any number of them.
LEMMA SentKeeps ==
  ASSUME NEW closed \in BOOLEAN, NEW a, Kept(a, closed), NEW N \in Nat, NEW ms \in [1 .. N -> Messages],
         NEW sent, sent = CHOOSE f : SentBy(a, N, ms, f)
  PROVE  TurnsKeep(a, N, ms, sent, closed)
<1> DEFINE T == {s \in Working : Kept(s, closed)}
           turn == [n \in 1 .. N |-> [s \in T |-> SendOne(s, ms[n])]]
<1>1. a \in T /\ \A s \in T, n \in 1 .. N : SendOne(s, ms[n]) \in T
  <2>1. a \in T
    BY DEF Kept
  <2>2. ASSUME NEW s \in T, NEW n \in 1 .. N PROVE SendOne(s, ms[n]) \in T
    <3>1. Kept(s, closed) /\ ms[n] \in Messages
      OBVIOUS
    <3>2. Kept(SendOne(s, ms[n]), closed)
      BY <3>1, SendOneKeeps
    <3> QED BY <3>2 DEF Kept
  <2> QED BY <2>1, <2>2
<1>2. turn \in [1 .. N -> [T -> T]] /\ \A n \in 1 .. N, s \in T : turn[n][s] = SendOne(s, ms[n])
  BY <1>1
<1>3. \A s \in T : Kept(s, closed)
  OBVIOUS
<1> HIDE DEF T, turn
<1>4. PICK f : LoopRuns(f, N, T, a, turn)
  BY <1>1, <1>2, LoopExists, Zenon
<1>5. f = [n \in 0 .. N |-> f[n]] /\ f[0] = a /\ \A n \in 1 .. N : f[n - 1] \in T /\ f[n] = turn[n][f[n - 1]]
  BY <1>4 DEF LoopRuns
<1>6. \A n \in 0 .. N : f[n] = IF n = 0 THEN a ELSE SendOne(f[n - 1], ms[n])
  <2> SUFFICES ASSUME NEW n \in 0 .. N, n # 0 PROVE f[n] = SendOne(f[n - 1], ms[n])
    BY <1>5
  <2>1. n \in 1 .. N
    OBVIOUS
  <2> QED BY <1>2, <1>5, <2>1, Zenon
<1>7. SentBy(a, N, ms, f)
  BY <1>5, <1>6, Zenon DEF SentBy
<1>8. SentBy(a, N, ms, sent)
  BY <1>7, Zenon
<1>9. \A n \in 0 .. N : sent[n] = IF n = 0 THEN a ELSE SendOne(sent[n - 1], ms[n])
  BY <1>8, Zenon DEF SentBy
<1>10. sent[0] \in T /\ \A n \in 1 .. N : sent[n - 1] \in T => sent[n] \in T
  <2>1. ASSUME NEW n \in 1 .. N, sent[n - 1] \in T PROVE sent[n] \in T
    <3>1. n \in 0 .. N /\ n # 0
      OBVIOUS
    <3>2. sent[n] = SendOne(sent[n - 1], ms[n])
      BY <1>9, <3>1, Zenon
    <3> QED BY <1>1, <2>1, <3>2
  <2>2. sent[0] = a
    BY <1>9
  <2> QED BY <1>1, <2>1, <2>2
<1>11. \A n \in 0 .. N : sent[n] \in T
  BY <1>10, LoopKeeps, Zenon
<1>12. sent[0] = a /\ \A n \in 1 .. N : sent[n] = SendOne(sent[n - 1], ms[n])
  <2>1. 0 \in 0 .. N /\ \A n \in 1 .. N : n \in 0 .. N /\ n # 0
    OBVIOUS
  <2> QED BY <1>9, <2>1, Zenon
<1> QED BY <1>3, <1>11, <1>12 DEF TurnsKeep

\* buffer_pop, and the first waiting send taking the place that is free.
LEMMA RefillSound ==
  ASSUME NEW i, Sound(i), i.receive_state_ = "buffer"
  PROVE  Sound(Refill(i)) /\ Refill(i).send_state_ # "closed"
<1> DEFINE b == i.buffer_
           w == i.waiters_
<1>1. /\ i \in Impl /\ b \in Seq(Messages) /\ b # <<>> /\ w \in Seq(Operations) /\ ToSet(w) \subseteq Messages
      /\ i.send_state_ \in {"buffer", "block"} /\ (i.send_state_ = "buffer" => w = <<>>)
      /\ Messages \cap Receivers = {} /\ Len(b) \in Nat /\ i.max_buffer_size_ \in Nat
      /\ Len(b) <= i.max_buffer_size_ /\ (w = <<>> <=> ToSet(w) = {})
  BY KindsApart DEF Sound, Impl, StatesDescribe
<1> HIDE DEF b, w
<1>2. PICK t \in Seq(Messages) : t = Tail(b) /\ Len(t) = Len(b) - 1 /\ (t = <<>> <=> Len(t) = 0)
  BY <1>1, FrontLeaves, Zenon
<1>3. CASE w # <<>>
  <2>1. PICK v \in Seq(Operations) : v = Tail(w) /\ Head(w) \in Messages /\ ToSet(v) \subseteq Messages
    BY <1>1, <1>3, WaitersFacts
  <2>2. v = <<>> <=> ToSet(v) \cap Messages = {}
    <3>1. v = <<>> <=> ToSet(v) = {}
      BY WaitersFacts
    <3> QED BY <2>1, <3>1
  <2>3. PICK q \in Seq(Messages) : q = Append(t, Head(w)) /\ Len(q) = Len(b) /\ q # <<>>
    <3>1. PICK m \in Messages : m = Head(w)
      BY <2>1
    <3>2. Append(t, m) \in Seq(Messages) /\ Len(Append(t, m)) = Len(t) + 1 /\ Append(t, m) # <<>>
      BY AppendProperties, EmptySeq
    <3>3. PICK q \in Seq(Messages) : q = Append(t, m) /\ Len(q) = Len(t) + 1 /\ q # <<>>
      BY <3>2
    <3>4. q = Append(t, Head(w)) /\ Len(q) = Len(b)
      BY <1>1, <1>2, <3>1, <3>3
    <3> QED BY <3>3, <3>4
  <2>4. PICK j : j = Refill(i)
    OBVIOUS
  <2>5. /\ j \in Impl /\ j.buffer_ = q /\ j.waiters_ = v /\ j.max_buffer_size_ = i.max_buffer_size_
        /\ j.receive_state_ = "buffer" /\ j.send_state_ = "block"
    BY <1>1, <1>2, <1>3, <2>1, <2>3, <2>4 DEF Refill, Impl, b, w
  <2>6. StatesDescribe(j)
    BY <1>1, <2>1, <2>2, <2>3, <2>5 DEF StatesDescribe
  <2> QED BY <2>4, <2>5, <2>6 DEF Sound
<1>4. CASE w = <<>>
  <2>1. PICK j : j = Refill(i)
    OBVIOUS
  <2>2. /\ j \in Impl /\ j.buffer_ = t /\ j.waiters_ = w /\ j.max_buffer_size_ = i.max_buffer_size_
        /\ j.receive_state_ = (IF Len(b) = 1 THEN "block" ELSE "buffer") /\ j.send_state_ = "buffer"
    BY <1>1, <1>2, <1>4, <2>1 DEF Refill, Impl, b, w, BlockOrClosed, States
  <2>3. StatesDescribe(j)
    BY <1>1, <1>2, <1>4, <2>2 DEF StatesDescribe
  <2> QED BY <2>1, <2>2, <2>3 DEF Sound
<1> QED BY <1>3, <1>4

\* A waiting send hands its message over.
LEMMA TakeSound ==
  ASSUME NEW i, Sound(i), i.receive_state_ = "waiter"
  PROVE  Sound(TakeFromSender(i)) /\ TakeFromSender(i).send_state_ # "closed"
<1> DEFINE w == i.waiters_
<1>1. /\ i \in Impl /\ w \in Seq(Operations) /\ ToSet(w) \subseteq Messages /\ w # <<>>
      /\ i.send_state_ = "block" /\ i.buffer_ = <<>> /\ Len(i.buffer_) = 0 /\ i.max_buffer_size_ \in Nat
      /\ Messages \cap Receivers = {}
  BY KindsApart DEF Sound, Impl
<1> HIDE DEF w
<1>2. PICK v \in Seq(Operations) : v = Tail(w) /\ ToSet(v) \subseteq Messages
  <2>1. Tail(w) \in Seq(Operations) /\ ToSet(Tail(w)) \subseteq ToSet(w)
    BY <1>1, WaitersFacts
  <2>2. PICK v \in Seq(Operations) : v = Tail(w)
    BY <2>1, Zenon
  <2>3. ToSet(v) \subseteq Messages
    BY <1>1, <2>1, <2>2
  <2> QED BY <2>2, <2>3, Zenon
<1>3. (v = <<>> <=> ToSet(v) = {}) /\ (v = <<>> <=> Len(w) = 1)
  <2>1. v = <<>> <=> ToSet(v) = {}
    BY WaitersFacts, Zenon
  <2>2. Len(v) = Len(w) - 1 /\ Len(w) \in Nat /\ (v = <<>> <=> Len(v) = 0)
    BY <1>1, <1>2, FrontLeaves, LenProperties, Zenon
  <2> QED BY <2>1, <2>2
<1>4. PICK j : j = TakeFromSender(i)
  OBVIOUS
<1>5. /\ j \in Impl /\ j.buffer_ = <<>> /\ j.waiters_ = v /\ j.max_buffer_size_ = i.max_buffer_size_
      /\ j.receive_state_ = (IF Len(w) = 1 THEN "block" ELSE "waiter") /\ j.send_state_ = "block"
  BY <1>1, <1>2, <1>4 DEF TakeFromSender, Impl, w, BlockOrClosed, States
<1>6. StatesDescribe(j)
  BY <1>1, <1>2, <1>3, <1>5 DEF StatesDescribe
<1> QED BY <1>4, <1>5, <1>6 DEF Sound

\* One message received, from the buffer or from a waiting send.
LEMMA ReceivedKeeps ==
  ASSUME NEW closed \in BOOLEAN, NEW s, Kept(s, closed), s.i.receive_state_ \in {"buffer", "waiter"},
         NEW r \in Receivers
  PROVE  Kept(Received(s, r), closed)
<1>1. s \in Working /\ Sound(s.i) /\ s.i.waiters_ \in Seq(Operations) /\ s.i.buffer_ \in Seq(Messages) /\ r \in Operations
  BY DEF Kept, Sound, Impl, Operations
<1>2. PICK j \in Impl : /\ Sound(j) /\ j.send_state_ # "closed"
                        /\ j = IF s.i.receive_state_ = "buffer" THEN Refill(s.i) ELSE TakeFromSender(s.i)
  BY <1>1, RefillSound, TakeSound DEF Sound
<1>3. s.i.send_state_ # "closed"
  BY <1>1 DEF Sound, StatesDescribe
<1>4. PICK completed \in [Operations -> Outcomes] :
        completed = IF s.i.waiters_ = <<>> THEN s.outcome
                    ELSE [s.outcome EXCEPT ![Head(s.i.waiters_)] = "ok"]
  BY <1>1 DEF Working, Outcomes
<1>5. PICK m \in Messages : m = IF s.i.receive_state_ = "buffer" THEN Head(s.i.buffer_) ELSE Head(s.i.waiters_)
  <2>1. s.i.receive_state_ = "buffer" => Head(s.i.buffer_) \in Messages
    BY <1>1, KindsApart, HeadTailProperties
  <2>2. s.i.receive_state_ = "waiter" => Head(s.i.waiters_) \in Messages
    BY <1>1, KindsApart, WaitersFacts
  <2> QED BY <2>1, <2>2
<1>6. Received(s, r) = [i |-> j, outcome |-> [completed EXCEPT ![r] = "ok"], got |-> [s.got EXCEPT ![r] = m]]
  BY <1>2, <1>4, <1>5, Zenon DEF Received
<1>7. [completed EXCEPT ![r] = "ok"] \in [Operations -> Outcomes]
  BY <1>1 DEF Outcomes
<1>8. [s.got EXCEPT ![r] = m] \in [Receivers -> Messages \cup {NoMessage}]
  BY <1>1 DEF Working
<1>9. Received(s, r) \in Working /\ Received(s, r).i = j
  BY <1>6, <1>7, <1>8 DEF Working
<1> QED BY <1>2, <1>3, <1>9 DEF Kept

-----------------------------------------------------------------------------
(* The steps.                                                              *)

\* A step that changes channel c keeps what holds of the others.
LEMMA ChannelStep ==
  ASSUME ChannelInv, NEW c \in Channels, NEW j \in Impl, impl' = [impl EXCEPT ![c] = j],
         down' = down, impl_list_' \subseteq impl_list_ \cup {c}, resetting' \subseteq resetting \cup {c},
         resetting' \subseteq impl_list_',
         ~down /\ c \in impl_list_' => StatesDescribe(j),
         c \in resetting' => ~down /\ j.send_state_ = "closed",
         outcome' \in [Operations -> Outcomes], got' \in [Receivers -> Messages \cup {NoMessage}]
  PROVE  ChannelInv'
<1>1. impl \in [Channels -> Impl] /\ impl_list_ \subseteq Channels /\ down \in BOOLEAN
  BY DEF ChannelInv, TypeOK, Impl
<1>2. impl' \in [Channels -> Impl] /\ impl'[c] = j /\ \A d \in Channels \ {c} : impl'[d] = impl[d]
  BY <1>1
<1>3. TypeOK'
  BY <1>1, <1>2 DEF TypeOK, Impl, Outcomes
<1>4. ASSUME ~down, NEW d \in impl_list_' PROVE StatesDescribe(impl'[d])
  <2>1. CASE d = c
    BY <1>2, <1>4, <2>1
  <2>2. CASE d # c
    BY <1>1, <1>2, <1>4, <2>2 DEF ChannelInv
  <2> QED BY <2>1, <2>2
<1>5. ASSUME NEW d \in resetting' PROVE impl'[d].send_state_ = "closed"
  BY <1>1, <1>2 DEF ChannelInv
<1>6. down => resetting' = {}
  BY DEF ChannelInv
<1> QED BY <1>3, <1>4, <1>5, <1>6 DEF ChannelInv

\* A usable channel is sound, and what is done to it may go on from there.
LEMMA NowKept ==
  ASSUME ChannelInv, NEW c \in Channels, Usable(c)
  PROVE  /\ Sound(impl[c]) /\ Now(c) \in Working
         /\ Kept(Now(c), impl[c].send_state_ = "closed")
BY DEF ChannelInv, TypeOK, Impl, Outcomes, Usable, Sound, Kept, Now, Working

\* A function that keeps its channel sound, open or closed as it was, keeps everything.
LEMMA ApplyKeeps ==
  ASSUME ChannelInv, NEW c \in Channels, Usable(c), NEW s, Kept(s, impl[c].send_state_ = "closed"),
         Apply(c, s)
  PROVE  ChannelInv'
<1>1. s.i \in Impl /\ StatesDescribe(s.i) /\ (s.i.send_state_ = "closed" <=> impl[c].send_state_ = "closed")
      /\ s.outcome \in [Operations -> Outcomes] /\ s.got \in [Receivers -> Messages \cup {NoMessage}]
  BY DEF Kept, Sound, Working
<1>2. c \in resetting => impl[c].send_state_ = "closed"
  BY DEF ChannelInv
<1>3. resetting \subseteq impl_list_ /\ ~down
  BY DEF ChannelInv, TypeOK, Usable
<1> QED BY <1>1, <1>2, <1>3, ChannelStep DEF Apply

LEMMA SendSteps ==
  ASSUME ChannelInv, NEW c \in Channels, NEW m \in Messages, TrySend(c, m) \/ AsyncSend(c, m)
  PROVE  ChannelInv'
<1> DEFINE i == impl[c]
           closed == i.send_state_ = "closed"
<1>1. Usable(c) /\ Sound(i) /\ Now(c) \in Working /\ Kept(Now(c), closed) /\ closed \in BOOLEAN
  BY NowKept DEF TrySend, AsyncSend
<1>2. Now(c) = [i |-> i, outcome |-> outcome, got |-> got] /\ m \in Operations
  BY DEF Now, Operations
<1>3. CASE Apply(c, SendOne(Now(c), m))
  BY <1>1, <1>3, SendOneKeeps, ApplyKeeps
<1>4. CASE closed /\ Apply(c, [Now(c) EXCEPT !.outcome[m] = "closed"])
  <2>1. PICK s : s = [Now(c) EXCEPT !.outcome[m] = "closed"]
    OBVIOUS
  <2>2. s \in Working /\ s.i = i
    BY <1>1, <1>2, <2>1 DEF Working, Outcomes
  <2>3. Kept(s, closed)
    BY <1>1, <2>2 DEF Kept
  <2> QED BY <1>1, <1>4, <2>1, <2>3, ApplyKeeps
<1>5. ASSUME i.send_state_ = "block",
             Apply(c, [Now(c) EXCEPT !.i = SendWaits(i, m), !.outcome[m] = "waits"])
      PROVE  ChannelInv'
  <2>1. /\ i \in Impl /\ i.waiters_ \in Seq(Operations) /\ ToSet(i.waiters_) \subseteq Messages
        /\ Messages \cap Receivers = {} /\ i.receive_state_ \in States \ {"closed"}
    <3>1. ToSet(i.waiters_) \subseteq Messages \cup Receivers /\ Messages \cap Receivers = {}
      BY <1>1, KindsApart
    <3> QED BY <1>1, <1>5, <3>1 DEF Sound, Impl, StatesDescribe
  <2>2. PICK w \in Seq(Operations) : w = Append(i.waiters_, m) /\ ToSet(w) \subseteq Messages /\ m \in ToSet(w)
    <3>1. Append(i.waiters_, m) \in Seq(Operations) /\ ToSet(Append(i.waiters_, m)) = ToSet(i.waiters_) \cup {m}
      BY <1>2, <2>1, WaitersFacts
    <3> QED BY <2>1, <3>1
  <2> DEFINE j == SendWaits(i, m)
             s == [i |-> j, outcome |-> [outcome EXCEPT ![m] = "waits"], got |-> got]
  <2>3. s = [Now(c) EXCEPT !.i = SendWaits(i, m), !.outcome[m] = "waits"]
    <3>1. PICK a : a = SendWaits(i, m)
      OBVIOUS
    <3>2. PICK x \in Working : x = Now(c) /\ x.outcome = outcome /\ x.got = got
      BY <1>1, <1>2
    <3>3. PICK y : y = [x EXCEPT !.i = a, !.outcome[m] = "waits"]
      OBVIOUS
    <3>4. y = [i |-> a, outcome |-> [x.outcome EXCEPT ![m] = "waits"], got |-> x.got]
      BY <3>3 DEF Working
    <3> QED BY <3>1, <3>2, <3>3, <3>4
  <2>4. /\ j \in Impl /\ j.waiters_ = w /\ j.buffer_ = i.buffer_ /\ j.max_buffer_size_ = i.max_buffer_size_
        /\ j.send_state_ = "block"
        /\ j.receive_state_ = IF i.receive_state_ = "block" THEN "waiter" ELSE i.receive_state_
    BY <1>5, <2>1, <2>2 DEF Impl, States, SendWaits
  <2>5. s \in Working
    <3>1. [outcome EXCEPT ![m] = "waits"] \in [Operations -> Outcomes] /\ got \in [Receivers -> Messages \cup {NoMessage}]
      BY <1>1, <1>2 DEF Working, Outcomes
    <3> QED BY <2>4, <3>1 DEF Working
  <2> HIDE DEF j
  <2>6. StatesDescribe(j)
    BY <1>1, <1>5, <2>1, <2>2, <2>4 DEF Sound, StatesDescribe, States
  <2>7. Kept(s, closed)
    BY <1>5, <2>4, <2>5, <2>6 DEF Kept, Sound
  <2> HIDE DEF s
  <2> QED BY <1>1, <1>5, <2>3, <2>7, ApplyKeeps
<1> QED BY <1>3, <1>4, <1>5 DEF TrySend, AsyncSend

LEMMA TrySendNStep ==
  ASSUME ChannelInv, NEW c \in Channels, NEW N \in Nat, NEW ms \in [1 .. N -> Messages], TrySendN(c, ms)
  PROVE  ChannelInv'
<1>1. Len(ms) = N
  OBVIOUS
<1> DEFINE sent == CHOOSE f : SentBy(Now(c), N, ms, f)
<1>2. Usable(c) /\ Apply(c, sent[N])
  BY <1>1, Zenon DEF TrySendN, SentBy
<1> HIDE DEF sent
<1>3. Kept(sent[N], impl[c].send_state_ = "closed")
  <2>1. PICK closed \in BOOLEAN : closed = (impl[c].send_state_ = "closed")
    OBVIOUS
  <2>2. PICK a : a = Now(c) /\ Kept(a, closed)
    BY <1>2, <2>1, NowKept
  <2>3. sent = CHOOSE f : SentBy(a, N, ms, f)
    BY <2>2 DEF sent
  <2>4. Kept(sent[N], closed)
    <3>1. Kept(a, closed)
      BY <2>2
    <3>2. TurnsKeep(a, N, ms, sent, closed)
      BY <2>3, <3>1, SentKeeps, Zenon
    <3> QED BY <3>2 DEF TurnsKeep
  <2> QED BY <2>1, <2>4
<1> QED BY <1>2, <1>3, ApplyKeeps

LEMMA ReceiveSteps ==
  ASSUME ChannelInv, NEW c \in Channels, NEW r \in Receivers, TryReceive(c, r) \/ AsyncReceive(c, r)
  PROVE  ChannelInv'
<1> DEFINE i == impl[c]
           closed == i.send_state_ = "closed"
<1>1. Usable(c) /\ Sound(i) /\ Now(c) \in Working /\ Kept(Now(c), closed) /\ closed \in BOOLEAN
  BY NowKept DEF TryReceive, AsyncReceive
<1>2. Now(c) = [i |-> i, outcome |-> outcome, got |-> got] /\ r \in Operations
  BY DEF Now, Operations
<1>3. CASE i.receive_state_ \in {"buffer", "waiter"} /\ Apply(c, Received(Now(c), r))
  <2>1. Now(c).i = i
    BY <1>2
  <2>2. Kept(Received(Now(c), r), closed)
    BY <1>1, <1>3, <2>1, ReceivedKeeps
  <2> QED BY <1>1, <1>3, <2>2, ApplyKeeps
<1>4. ASSUME NEW a \in {"closed", "refused"}, Apply(c, [Now(c) EXCEPT !.outcome[r] = a]) PROVE ChannelInv'
  <2>1. PICK s : s = [Now(c) EXCEPT !.outcome[r] = a]
    OBVIOUS
  <2>2. s \in Working /\ s.i = i
    BY <1>1, <1>2, <2>1 DEF Working, Outcomes
  <2>3. Kept(s, closed)
    BY <1>1, <2>2 DEF Kept
  <2> QED BY <1>1, <1>4, <2>1, <2>3, ApplyKeeps
<1>5. ASSUME i.receive_state_ = "block",
             Apply(c, [Now(c) EXCEPT !.i = ReceiveWaits(i, r), !.outcome[r] = "waits"])
      PROVE  ChannelInv'
  <2>1. /\ i \in Impl /\ i.waiters_ \in Seq(Operations) /\ ToSet(i.waiters_) \subseteq Receivers
        /\ Messages \cap Receivers = {} /\ i.send_state_ # "closed" /\ i.buffer_ = <<>>
    <3>1. ToSet(i.waiters_) \subseteq Receivers /\ Messages \cap Receivers = {} /\ i.buffer_ = <<>>
      BY <1>1, <1>5, KindsApart
    <3> QED BY <1>1, <1>5, <3>1 DEF Sound, Impl, StatesDescribe
  <2>2. PICK w \in Seq(Operations) : w = Append(i.waiters_, r) /\ ToSet(w) \subseteq Receivers /\ r \in ToSet(w)
    <3>1. Append(i.waiters_, r) \in Seq(Operations) /\ ToSet(Append(i.waiters_, r)) = ToSet(i.waiters_) \cup {r}
      BY <1>2, <2>1, WaitersFacts
    <3> QED BY <2>1, <3>1
  <2> DEFINE j == ReceiveWaits(i, r)
             s == [i |-> j, outcome |-> [outcome EXCEPT ![r] = "waits"], got |-> got]
  <2>3. s = [Now(c) EXCEPT !.i = ReceiveWaits(i, r), !.outcome[r] = "waits"]
    <3>1. PICK a : a = ReceiveWaits(i, r)
      OBVIOUS
    <3>2. PICK x \in Working : x = Now(c) /\ x.outcome = outcome /\ x.got = got
      BY <1>1, <1>2
    <3>3. PICK y : y = [x EXCEPT !.i = a, !.outcome[r] = "waits"]
      OBVIOUS
    <3>4. y = [i |-> a, outcome |-> [x.outcome EXCEPT ![r] = "waits"], got |-> x.got]
      BY <3>3 DEF Working
    <3> QED BY <3>1, <3>2, <3>3, <3>4
  <2>4. /\ j \in Impl /\ j.waiters_ = w /\ j.buffer_ = <<>> /\ j.max_buffer_size_ = i.max_buffer_size_
        /\ j.send_state_ = "waiter" /\ j.receive_state_ = "block"
    BY <1>5, <2>1, <2>2 DEF Impl, States, ReceiveWaits
  <2>5. s \in Working
    <3>1. [outcome EXCEPT ![r] = "waits"] \in [Operations -> Outcomes] /\ got \in [Receivers -> Messages \cup {NoMessage}]
      BY <1>1, <1>2 DEF Working, Outcomes
    <3> QED BY <2>4, <3>1 DEF Working
  <2> HIDE DEF j
  <2>6. StatesDescribe(j)
    <3>1. Len(j.buffer_) = 0 /\ i.max_buffer_size_ \in Nat
      BY <1>1, <2>4, KindsApart
    <3> QED BY <1>5, <2>1, <2>2, <2>4, <3>1 DEF StatesDescribe
  <2>7. Kept(s, closed)
    BY <2>1, <2>4, <2>5, <2>6 DEF Kept, Sound
  <2> HIDE DEF s
  <2> QED BY <1>1, <1>5, <2>3, <2>7, ApplyKeeps
<1> QED BY <1>3, <1>4, <1>5 DEF TryReceive, AsyncReceive

\* The outcomes a cancellation leaves.
LEMMA CancelledType ==
  ASSUME ChannelInv, NEW c, NEW ops
  PROVE  Cancelled(c, ops) \in [Operations -> Outcomes]
BY DEF ChannelInv, TypeOK, Cancelled, CancelOutcome, Outcomes

\* When nobody waits any more, the states say so.
LEMMA NoWaiterSound ==
  ASSUME NEW i \in Impl
  PROVE  /\ NoWaiter([i EXCEPT !.waiters_ = <<>>]) \in Impl
         /\ StatesDescribe(i) =>
              /\ StatesDescribe(NoWaiter([i EXCEPT !.waiters_ = <<>>]))
              /\ i.send_state_ = "closed" => NoWaiter([i EXCEPT !.waiters_ = <<>>]).send_state_ = "closed"
<1>1. PICK e : e = <<>> /\ e \in Seq(Operations) /\ ToSet(e) = {}
  BY NoneWaits
<1>2. PICK j : j = NoWaiter([i EXCEPT !.waiters_ = e])
  OBVIOUS
<1>3. /\ j \in Impl /\ j.waiters_ = e /\ j.buffer_ = i.buffer_ /\ j.max_buffer_size_ = i.max_buffer_size_
      /\ j.receive_state_ = (IF i.receive_state_ = "waiter" THEN "block" ELSE i.receive_state_)
      /\ j.send_state_ = (IF i.send_state_ = "waiter" THEN "block" ELSE i.send_state_)
  BY <1>1, <1>2 DEF NoWaiter, Impl, States
<1>4. ASSUME StatesDescribe(i) PROVE StatesDescribe(j)
  <2>1. /\ i.send_state_ = "closed" <=> i.receive_state_ = "closed"
        /\ Len(i.buffer_) <= i.max_buffer_size_
        /\ i.send_state_ # "closed" =>
             /\ i.receive_state_ = "buffer" <=> i.buffer_ # <<>>
             /\ i.send_state_ = "buffer" => Len(i.buffer_) < i.max_buffer_size_
    BY <1>4 DEF StatesDescribe
  <2> QED BY <1>1, <1>3, <2>1 DEF StatesDescribe
<1> QED BY <1>1, <1>2, <1>3, <1>4

\* cancel(), reset() before it releases the mutex, and the destructor.
LEMMA CancelSteps ==
  ASSUME ChannelInv, Uses \cap Unsafe = {}, NEW c \in Channels, Cancel(c) \/ ResetCancel(c) \/ Destroy(c)
  PROVE  ChannelInv'
<1>1. impl \in [Channels -> Impl] /\ impl[c] \in Impl /\ resetting \subseteq impl_list_
      /\ got \in [Receivers -> Messages \cup {NoMessage}] /\ impl_list_ \subseteq Channels
  BY DEF ChannelInv, TypeOK, Impl
<1>2. PICK j \in Impl : /\ j = CancelAll(c)
                        /\ StatesDescribe(impl[c]) =>
                              /\ StatesDescribe(j)
                              /\ impl[c].send_state_ = "closed" => j.send_state_ = "closed"
  BY <1>1, NoWaiterSound DEF CancelAll
<1>3. /\ impl' = [impl EXCEPT ![c] = j] /\ outcome' = Cancelled(c, Waiting(c))
      /\ got' = got /\ down' = down
  BY <1>2 DEF Cancel, ResetCancel, Destroy
<1>4. outcome' \in [Operations -> Outcomes]
  BY <1>3, CancelledType
<1>5. CASE Cancel(c) \/ ResetCancel(c)
  <2>1. Usable(c) /\ StatesDescribe(impl[c]) /\ impl_list_' = impl_list_ /\ c \in impl_list_
    BY <1>5 DEF Cancel, ResetCancel, Usable, ChannelInv
  <2>2. resetting' \subseteq resetting \cup {c}
    BY <1>5 DEF Cancel, ResetCancel
  <2>3. c \in resetting' => j.send_state_ = "closed"
    <3>1. c \in resetting => impl[c].send_state_ = "closed"
      BY DEF ChannelInv
    <3>2. ResetCancel(c) => impl[c].send_state_ = "closed"
      BY DEF ResetCancel, Unsafe
    <3>3. Cancel(c) => resetting' = resetting
      BY DEF Cancel
    <3> QED BY <1>2, <1>5, <2>1, <3>1, <3>2, <3>3
  <2>4. resetting' \subseteq impl_list_'
    BY <1>1, <2>1, <2>2
  <2>5. StatesDescribe(j) /\ impl_list_' \subseteq impl_list_ \cup {c} /\ ~down
    BY <1>2, <2>1 DEF Usable
  <2> QED BY <1>1, <1>3, <1>4, <2>2, <2>3, <2>4, <2>5, ChannelStep
<1>6. CASE Destroy(c)
  <2>1. /\ impl_list_' = impl_list_ \ {c} /\ resetting' = resetting /\ c \notin resetting
    BY <1>6 DEF Destroy, Destructible
  <2>2. /\ resetting' \subseteq impl_list_' /\ c \notin impl_list_' /\ c \notin resetting'
        /\ resetting' \subseteq resetting \cup {c} /\ impl_list_' \subseteq impl_list_ \cup {c}
    BY <1>1, <2>1
  <2> QED BY <1>1, <1>3, <1>4, <2>2, ChannelStep
<1> QED BY <1>5, <1>6

\* cancel_by_key: the operations that are put back are of the kind of the one that left.
LEMMA CancelByKeyStep ==
  ASSUME ChannelInv, NEW c \in Channels, NEW o, CancelByKey(c, o)
  PROVE  ChannelInv'
<1> DEFINE i == impl[c]
<1>1. Usable(c) /\ Sound(i) /\ i \in Impl /\ i.waiters_ \in Seq(Operations)
  BY NowKept DEF CancelByKey, Sound, Impl
<1>2. got \in [Receivers -> Messages \cup {NoMessage}] /\ resetting \subseteq impl_list_ /\ c \in impl_list_ /\ ~down
  BY <1>1 DEF ChannelInv, TypeOK, Usable
<1>3. PICK w \in Seq(Operations) : w = Unlinked(i.waiters_, {o}) /\ ToSet(w) \subseteq ToSet(i.waiters_)
  BY <1>1, UnlinkedWaiters
<1>4. PICK left : left = [i EXCEPT !.waiters_ = w]
  OBVIOUS
<1>5. left \in Impl
  BY <1>1, <1>4 DEF Impl
<1>6. PICK j \in Impl : /\ j = IF w = <<>> THEN NoWaiter(left) ELSE left
                        /\ StatesDescribe(j)
                        /\ i.send_state_ = "closed" => j.send_state_ = "closed"
  <2>1. CASE w = <<>>
    <3>1. left = [i EXCEPT !.waiters_ = <<>>]
      BY <1>4, <2>1
    <3> QED BY <1>1, <2>1, <3>1, NoWaiterSound DEF Sound
  <2>2. CASE w # <<>>
    <3>1. /\ ToSet(w) # {} /\ ToSet(i.waiters_) \subseteq Messages \cup Receivers
          /\ Messages \cap Receivers = {}
      BY <1>1, <1>3, <2>2, WaitersFacts, KindsApart
    <3>2. /\ left.waiters_ = w /\ left.buffer_ = i.buffer_ /\ left.max_buffer_size_ = i.max_buffer_size_
          /\ left.send_state_ = i.send_state_ /\ left.receive_state_ = i.receive_state_
      BY <1>1, <1>4 DEF Impl
    <3>3. i.waiters_ # <<>> /\ i.send_state_ # "closed"
      <4>1. i.waiters_ # <<>>
        BY <1>1, <1>3, <3>1, WaitersFacts
      <4> QED BY <1>1, <4>1 DEF Sound, StatesDescribe
    <3>4. /\ ToSet(w) \cap Messages # {} <=> ToSet(i.waiters_) \cap Messages # {}
          /\ ToSet(w) \cap Receivers # {} <=> ToSet(i.waiters_) \cap Receivers # {}
      BY <1>1, <1>3, <3>1 DEF Sound, StatesDescribe
    <3>5. StatesDescribe(left)
      BY <1>1, <1>3, <3>2, <3>3, <3>4 DEF Sound, StatesDescribe
    <3> QED BY <1>5, <2>2, <3>2, <3>5
  <2> QED BY <2>1, <2>2
<1>7. impl' = [impl EXCEPT ![c] = j]
  <2>1. impl' = [impl EXCEPT ![c] = IF left.waiters_ = <<>> THEN NoWaiter(left) ELSE left]
    BY <1>3, <1>4 DEF CancelByKey
  <2>2. left.waiters_ = w
    BY <1>1, <1>4 DEF Impl
  <2> QED BY <1>6, <2>1, <2>2
<1>8. /\ outcome' \in [Operations -> Outcomes] /\ got' = got /\ down' = down
      /\ impl_list_' = impl_list_ /\ resetting' = resetting
  BY CancelledType DEF CancelByKey
<1>9. c \in resetting => i.send_state_ = "closed"
  BY DEF ChannelInv
<1> HIDE DEF i
<1> QED BY <1>2, <1>6, <1>7, <1>8, <1>9, ChannelStep

\* close() with no send waiting: what waits is a receive, and the receive state says block.
LEMMA CloseStep ==
  ASSUME ChannelInv, Uses \cap Unsafe = {}, NEW c \in Channels, Close(c)
  PROVE  ChannelInv'
<1> DEFINE i == impl[c]
<1>1. Usable(c) /\ Sound(i) /\ i \in Impl /\ ~SendersWait(c)
  BY NowKept DEF Close, Sound, Unsafe
<1>2. got \in [Receivers -> Messages \cup {NoMessage}] /\ resetting \subseteq impl_list_ /\ c \in impl_list_ /\ ~down
  BY <1>1 DEF ChannelInv, TypeOK, Usable
<1>3. i.receive_state_ = "block" \/ i.waiters_ = <<>>
  <2>1. /\ ToSet(i.waiters_) \subseteq Messages \cup Receivers /\ (i.waiters_ = <<>> <=> ToSet(i.waiters_) = {})
        /\ ToSet(i.waiters_) \cap Messages = {}
    BY <1>1, KindsApart DEF SendersWait, Waiting
  <2> QED BY <1>1, <2>1 DEF Sound, StatesDescribe
<1>4. PICK e : e = <<>> /\ e \in Seq(Operations) /\ ToSet(e) = {}
  BY NoneWaits
<1>5. PICK j : j = Closed(i)
  OBVIOUS
<1>6. /\ j \in Impl /\ j.waiters_ = e /\ j.send_state_ = "closed" /\ j.receive_state_ = "closed"
      /\ j.buffer_ = i.buffer_ /\ j.max_buffer_size_ = i.max_buffer_size_
  BY <1>1, <1>3, <1>4, <1>5 DEF Impl, States, Closed, ClosesWaiters
<1>7. StatesDescribe(j)
  BY <1>1, <1>4, <1>6 DEF Sound, StatesDescribe
<1>8. /\ impl' = [impl EXCEPT ![c] = j] /\ got' = got /\ down' = down
      /\ impl_list_' = impl_list_ /\ resetting' = resetting
  BY <1>5 DEF Close
<1>9. outcome' \in [Operations -> Outcomes]
  BY DEF Close, ChannelInv, TypeOK, Outcomes
<1> HIDE DEF i
<1> QED BY <1>2, <1>6, <1>7, <1>8, <1>9, ChannelStep

\* A channel nobody has used, as the constructor, reset() and a move leave one.
LEMMA ConstructedSound ==
  ASSUME NEW n \in Capacities \cup {0}
  PROVE  Constructed(n) \in Impl /\ StatesDescribe(Constructed(n))
<1>1. PICK e : e = <<>> /\ e \in Seq(Operations) /\ ToSet(e) = {}
  BY NoneWaits
<1>2. PICK b : b = <<>> /\ b \in Seq(Messages) /\ Len(b) = 0
  <2>1. <<>> \in Seq(Messages) /\ Len(<<>>) = 0
    OBVIOUS
  <2> QED BY <2>1, Zenon
<1>3. PICK j : j = Constructed(n)
  OBVIOUS
<1>4. /\ j \in Impl /\ j.waiters_ = e /\ j.buffer_ = b /\ j.max_buffer_size_ = n
      /\ j.receive_state_ = "block" /\ j.send_state_ = IF n > 0 THEN "buffer" ELSE "block"
  BY <1>1, <1>2, <1>3 DEF Constructed, InitialSend, Impl, States
<1>5. n \in Nat
  BY ConstantsAssumption
<1>6. StatesDescribe(j)
  BY <1>1, <1>2, <1>4, <1>5 DEF StatesDescribe
<1> QED BY <1>3, <1>4, <1>6

\* The rest of reset(), on a channel that is closed: it is as new, of the same size.
LEMMA ResetClearStep ==
  ASSUME ChannelInv, NEW c \in Channels, ResetClear(c)
  PROVE  ChannelInv' /\ impl'[c] = Constructed(impl[c].max_buffer_size_)
<1> DEFINE i == impl[c]
<1>1. impl \in [Channels -> Impl] /\ i \in Impl /\ c \in impl_list_ /\ i.send_state_ = "closed"
      /\ resetting \subseteq impl_list_
      /\ got \in [Receivers -> Messages \cup {NoMessage}] /\ outcome \in [Operations -> Outcomes]
  BY DEF ChannelInv, TypeOK, Impl, Outcomes, ResetClear
<1>2. PICK j : j = Cleared(i)
  OBVIOUS
<1>3. ~down
  BY DEF ChannelInv, ResetClear
<1>4. j = Constructed(i.max_buffer_size_) /\ StatesDescribe(j) /\ j \in Impl
  <2>1. StatesDescribe(i) /\ i.receive_state_ = "closed" /\ i.waiters_ = <<>>
    BY <1>1, <1>3 DEF ChannelInv, StatesDescribe
  <2>2. j = Constructed(i.max_buffer_size_)
    BY <1>1, <1>2, <2>1 DEF Cleared, Constructed, Impl
  <2> QED BY <1>1, <2>2, ConstructedSound DEF Impl
<1>5. /\ impl' = [impl EXCEPT ![c] = j] /\ got' = got /\ down' = down /\ outcome' = outcome
      /\ impl_list_' = impl_list_ /\ resetting' = resetting \ {c}
  BY <1>2 DEF ResetClear
<1>6. impl'[c] = j /\ c \notin resetting' /\ resetting' \subseteq resetting /\ resetting' \subseteq impl_list_'
  BY <1>1, <1>5
<1>7. ChannelInv'
  BY <1>1, <1>3, <1>4, <1>5, <1>6, ChannelStep
<1> QED BY <1>4, <1>6, <1>7

\* The constructor.
LEMMA ConstructStep ==
  ASSUME ChannelInv, NEW c \in Channels, NEW n \in Capacities, Construct(c, n)
  PROVE  ChannelInv'
<1>1. PICK j \in Impl : j = Constructed(n) /\ StatesDescribe(j)
  BY ConstructedSound
<1>2. /\ resetting \subseteq impl_list_ /\ got \in [Receivers -> Messages \cup {NoMessage}]
      /\ outcome \in [Operations -> Outcomes]
  BY DEF ChannelInv, TypeOK, Outcomes
<1>3. /\ impl' = [impl EXCEPT ![c] = j] /\ got' = got /\ down' = down /\ outcome' = outcome
      /\ impl_list_' = impl_list_ \cup {c} /\ resetting' = resetting /\ c \notin impl_list_
  BY <1>1 DEF Construct
<1>4. c \notin resetting' /\ resetting' \subseteq impl_list_' /\ resetting' \subseteq resetting \cup {c}
  BY <1>2, <1>3
<1> QED BY <1>1, <1>2, <1>3, <1>4, ChannelStep

\* Both moves, with no operation waiting on the channel that is moved: the other is what it
\* was, and it is as new.
LEMMA MoveSteps ==
  ASSUME ChannelInv, Uses \cap Unsafe = {}, NEW c \in Channels, NEW d \in Channels,
         MoveConstruct(c, d) \/ MoveAssign(c, d)
  PROVE  ChannelInv' /\ impl'[c] = Constructed(impl[c].max_buffer_size_)
<1> DEFINE i == impl[c]
<1>1. /\ impl \in [Channels -> Impl] /\ i \in Impl /\ c \in impl_list_ /\ ~down /\ c \notin resetting
      /\ resetting \subseteq impl_list_ /\ c # d /\ d \notin resetting /\ i.waiters_ = <<>>
      /\ got \in [Receivers -> Messages \cup {NoMessage}] /\ outcome \in [Operations -> Outcomes]
      /\ StatesDescribe(i) /\ impl_list_ \subseteq Channels
  BY DEF ChannelInv, TypeOK, Impl, Outcomes, MoveConstruct, MoveAssign, MayMove, Usable, Unsafe
<1>2. MovedTo(i) = i
  <2>1. PICK j : j = MovedTo(i)
    OBVIOUS
  <2>2. j = i
    BY <1>1, <2>1 DEF MovedTo, Impl
  <2> QED BY <2>1, <2>2
<1>3. PICK j \in Impl : j = MovedFrom(i) /\ j = Constructed(i.max_buffer_size_) /\ StatesDescribe(j)
  <2>1. PICK j : j = MovedFrom(i)
    OBVIOUS
  <2>2. j = Constructed(i.max_buffer_size_)
    BY <1>1, <2>1 DEF MovedFrom, Constructed, Impl
  <2> QED BY <1>1, <2>1, <2>2, ConstructedSound DEF Impl
<1>4. impl' = [impl EXCEPT ![d] = i, ![c] = j]
  BY <1>1, <1>2, <1>3 DEF MoveConstruct, MoveAssign
<1>5. /\ resetting' = resetting /\ down' = down /\ got' = got
      /\ impl_list_' = impl_list_ \/ impl_list_' = impl_list_ \cup {d}
  BY DEF MoveConstruct, MoveAssign
<1>6. outcome' \in [Operations -> Outcomes]
  BY <1>1, CancelledType DEF MoveConstruct, MoveAssign
<1>7. impl'[c] = j /\ impl'[d] = i /\ impl' \in [Channels -> Impl]
      /\ \A e \in Channels \ {c, d} : impl'[e] = impl[e]
  BY <1>1, <1>4
<1>8. TypeOK'
  BY <1>1, <1>5, <1>6, <1>7 DEF ChannelInv, TypeOK, Impl, Outcomes
<1>9. ASSUME NEW e \in impl_list_' PROVE StatesDescribe(impl'[e])
  BY <1>1, <1>3, <1>5, <1>7 DEF ChannelInv
<1>10. ASSUME NEW e \in resetting' PROVE impl'[e].send_state_ = "closed"
  BY <1>1, <1>5, <1>7 DEF ChannelInv
<1>11. ~down'
  BY <1>1, <1>5
<1> QED BY <1>3, <1>7, <1>8, <1>9, <1>10, <1>11 DEF ChannelInv

\* shutdown() of the service.
LEMMA ShutdownStep ==
  ASSUME ChannelInv, Shutdown
  PROVE  ChannelInv'
<1>1. impl \in [Channels -> Impl] /\ <<>> \in Seq(Operations)
  BY NoneWaits DEF ChannelInv, TypeOK, Impl
<1>2. impl' \in [Channels -> Impl]
  <2>1. \A c \in Channels : [impl[c] EXCEPT !.waiters_ = <<>>] \in Impl
    BY <1>1 DEF Impl
  <2> QED BY <1>1, <2>1 DEF Shutdown
<1>3. outcome' \in [Operations -> Outcomes]
  BY DEF ChannelInv, TypeOK, Outcomes, Shutdown
<1>4. down' = TRUE /\ resetting' = {} /\ impl_list_' = impl_list_ /\ got' = got
  BY DEF Shutdown
<1> QED BY <1>2, <1>3, <1>4 DEF ChannelInv, TypeOK, Impl, Outcomes

LEMMA ChannelInit == Init => ChannelInv
<1> SUFFICES ASSUME Init PROVE ChannelInv
  OBVIOUS
<1>1. Constructed(0) \in Impl
  BY ConstructedSound
<1> QED BY <1>1 DEF Init, ChannelInv, TypeOK, Impl, Outcomes

LEMMA ChannelNext == ChannelInv /\ Uses \cap Unsafe = {} /\ [Next]_vars => ChannelInv'
<1> SUFFICES ASSUME ChannelInv, Uses \cap Unsafe = {}, [Next]_vars PROVE ChannelInv'
  OBVIOUS
<1>1. CASE UNCHANGED vars
  BY <1>1 DEF vars, ChannelInv, TypeOK
<1>2. ASSUME NEW c \in Channels, NEW n \in Capacities, Construct(c, n) PROVE ChannelInv'
  BY <1>2, ConstructStep
<1>3. ASSUME NEW c \in Channels, NEW m \in Messages, TrySend(c, m) \/ AsyncSend(c, m) PROVE ChannelInv'
  BY <1>3, SendSteps
<1>4. ASSUME NEW c \in Channels, NEW n \in 2 .. Cardinality(Messages), NEW ms \in Distinct(n), TrySendN(c, ms)
      PROVE  ChannelInv'
  BY <1>4, TrySendNStep DEF Distinct
<1>5. ASSUME NEW c \in Channels, NEW r \in Receivers, TryReceive(c, r) \/ AsyncReceive(c, r) PROVE ChannelInv'
  BY <1>5, ReceiveSteps
<1>6. ASSUME NEW c \in Channels, Cancel(c) \/ ResetCancel(c) \/ Destroy(c) PROVE ChannelInv'
  BY <1>6, CancelSteps
<1>7. ASSUME NEW c \in Channels, NEW o \in Operations, CancelByKey(c, o) PROVE ChannelInv'
  BY <1>7, CancelByKeyStep
<1>8. ASSUME NEW c \in Channels, Close(c) PROVE ChannelInv'
  BY <1>8, CloseStep
<1>9. ASSUME NEW c \in Channels, ResetClear(c) PROVE ChannelInv'
  BY <1>9, ResetClearStep
<1>10. ASSUME NEW c \in Channels, NEW d \in Channels, MoveConstruct(c, d) \/ MoveAssign(c, d) PROVE ChannelInv'
  BY <1>10, MoveSteps
<1> QED
  BY <1>1, <1>2, <1>3, <1>4, <1>5, <1>6, <1>7, <1>8, <1>9, <1>10, ShutdownStep DEF Next

\* The states of every channel describe what it holds.
THEOREM ChannelStatesAgree == ASSUME Uses \cap Unsafe = {} PROVE Spec => []StatesAgree
<1>1. ChannelInv => StatesAgree
  BY DEF ChannelInv, StatesAgree
<1> QED BY <1>1, ChannelInit, ChannelNext, PTL DEF Spec

\* cancel() completes what waits with its cancellation, never through a wrong cast.
THEOREM ChannelCancelCompletes == ASSUME Uses \cap Unsafe = {} PROVE Spec => CancelCompletes
<1>1. ASSUME ChannelInv, NEW c \in Channels, Cancel(c), NEW o \in Waiting(c)
      PROVE  outcome'[o] = "cancelled"
  <2>1. Sound(impl[c])
    BY <1>1, NowKept DEF Cancel
  <2>2. /\ o \in Messages \cup Receivers /\ Messages \cap Receivers = {}
        /\ o \in Messages <=> impl[c].send_state_ = "block"
    BY <1>1, <2>1, KindsApart DEF Waiting, Sound, StatesDescribe
  <2>3. outcome' = Cancelled(c, Waiting(c)) /\ o \in Operations
    BY <1>1, <2>2 DEF Cancel, Operations
  <2>4. CancelOutcome(impl[c], o) = "cancelled"
    <3>1. (o \in Messages) = (impl[c].send_state_ = "block")
      BY <2>2
    <3> QED BY <3>1 DEF CancelOutcome
  <2> QED BY <1>1, <2>3, <2>4 DEF Cancelled
<1>2. ChannelInv => [\A c \in Channels : Cancel(c) => \A o \in Waiting(c) : outcome'[o] = "cancelled"]_vars
  BY <1>1
<1> QED BY <1>2, ChannelInit, ChannelNext, PTL DEF Spec, CancelCompletes

-----------------------------------------------------------------------------
(* Room in the buffer.                                                     *)

\* A function that changes channel c wastes no room elsewhere.
LEMMA RoomStep ==
  ASSUME ChannelInv, NEW c \in Channels, NEW j, impl' = [impl EXCEPT ![c] = j],
         impl_list_' \subseteq impl_list_ \cup {c}, c \in impl_list_' => KeepsRoom(c)
  PROVE  \A d \in impl_list_' : KeepsRoom(d)
<1>1. impl_list_ \subseteq Channels /\ impl \in [Channels -> Impl]
  BY DEF ChannelInv, TypeOK, Impl
<1>2. \A d \in Channels \ {c} : impl'[d] = impl[d]
  BY <1>1
<1> QED BY <1>1, <1>2 DEF KeepsRoom

\* A function that stays in its mutex, and wastes room only where it was wasted.
LEMMA ApplyUses ==
  ASSUME ChannelInv, NEW c \in Channels, Usable(c), NEW s, Apply(c, s),
         RoomWasted(s.i) => RoomWasted(impl[c])
  PROVE  \A d \in impl_list_' : KeepsRoom(d)
<1>1. impl \in [Channels -> Impl] /\ c \in impl_list_
  BY DEF ChannelInv, TypeOK, Impl, Usable
<1>2. impl' = [impl EXCEPT ![c] = s.i] /\ impl_list_' = impl_list_
  BY DEF Apply
<1>3. impl'[c] = s.i
  BY <1>1, <1>2
<1>4. KeepsRoom(c)
  BY <1>1, <1>3 DEF KeepsRoom
<1> QED BY <1>2, <1>4, RoomStep

\* One message: when the last waiting receive leaves, the send state is a new channel's;
\* in the buffer, it blocks sends when it takes the last place.
LEMMA SendOneUses ==
  ASSUME NEW closed \in BOOLEAN, NEW s, Kept(s, closed), NEW m \in Messages,
         RoomWasted(SendOne(s, m).i)
  PROVE  RoomWasted(s.i)
<1>1. s \in Working /\ Sound(s.i) /\ s.i \in Impl /\ s.i.buffer_ \in Seq(Messages)
  BY DEF Kept, Sound, Impl
<1>2. s.i.max_buffer_size_ \in Nat /\ (s.i.buffer_ = <<>> <=> Len(s.i.buffer_) = 0)
  BY <1>1, KindsApart
<1>3. CASE s.i.send_state_ = "waiter"
  <2>1. PICK j : j = SendOne(s, m).i
    OBVIOUS
  <2>2. PICK rest : rest = Tail(s.i.waiters_)
    OBVIOUS
  <2>3. j = [s.i EXCEPT !.waiters_ = rest, !.send_state_ = AfterHandOver(s.i, rest)]
    BY <1>3, <2>1, <2>2 DEF SendOne
  <2>4. j.buffer_ = s.i.buffer_ /\ j.max_buffer_size_ = s.i.max_buffer_size_
        /\ j.send_state_ = AfterHandOver(s.i, rest)
    BY <1>1, <2>3 DEF Impl
  <2>5. AfterHandOver(s.i, rest) = "block" => s.i.max_buffer_size_ = 0
    BY <1>2, <1>3 DEF AfterHandOver, InitialSend
  <2>6. Len(s.i.buffer_) = 0
    BY <1>1, <1>2, <1>3, KindsApart
  <2> QED BY <1>2, <2>1, <2>4, <2>5, <2>6 DEF RoomWasted
<1>4. CASE s.i.send_state_ = "buffer"
  <2>1. PICK j : j = SendOne(s, m).i
    OBVIOUS
  <2>2. j = Push(s.i, m)
    BY <1>1, <1>4, <2>1 DEF SendOne, Working
  <2>3. PICK b \in Seq(Messages) : b = Append(s.i.buffer_, m) /\ Len(b) = Len(s.i.buffer_) + 1
    <3>1. PICK v \in Seq(Messages) : v = s.i.buffer_
      BY <1>1
    <3>2. Append(v, m) \in Seq(Messages) /\ Len(Append(v, m)) = Len(v) + 1
      BY AppendProperties
    <3> QED BY <3>1, <3>2
  <2>4. j.buffer_ = b /\ j.max_buffer_size_ = s.i.max_buffer_size_
        /\ (j.send_state_ = "block" => Len(s.i.buffer_) + 1 = s.i.max_buffer_size_)
    BY <1>1, <1>4, <2>2, <2>3 DEF Push, Impl
  <2> QED BY <1>2, <2>1, <2>3, <2>4 DEF RoomWasted
<1>5. CASE s.i.send_state_ \notin {"waiter", "buffer"}
  <2>1. SendOne(s, m).i = s.i
    BY <1>1, <1>5 DEF SendOne, Working
  <2> QED BY <2>1
<1> QED BY <1>3, <1>4, <1>5

\* Any number of them.
LEMMA SentUses ==
  ASSUME NEW closed \in BOOLEAN, NEW a, NEW N \in Nat, NEW ms \in [1 .. N -> Messages], NEW sent,
         TurnsKeep(a, N, ms, sent, closed), RoomWasted(sent[N].i)
  PROVE  RoomWasted(a.i)
<1> DEFINE U == {s \in Working : Kept(s, closed) /\ (RoomWasted(s.i) => RoomWasted(a.i))}
<1>1. /\ sent[0] = a /\ \A n \in 1 .. N : sent[n] = SendOne(sent[n - 1], ms[n])
      /\ \A n \in 0 .. N : Kept(sent[n], closed)
  BY DEF TurnsKeep
<1>2. sent[0] \in U
  BY <1>1 DEF Kept
<1>3. ASSUME NEW n \in 1 .. N, sent[n - 1] \in U PROVE sent[n] \in U
  <2>1. Kept(sent[n], closed) /\ Kept(sent[n - 1], closed) /\ ms[n] \in Messages
    <3>1. n \in 0 .. N /\ n - 1 \in 0 .. N
      OBVIOUS
    <3> QED BY <1>1, <3>1
  <2>2. sent[n] = SendOne(sent[n - 1], ms[n])
    BY <1>1
  <2>3. RoomWasted(sent[n].i) => RoomWasted(sent[n - 1].i)
    BY <2>1, <2>2, SendOneUses
  <2>4. sent[n] \in Working
    BY <2>1 DEF Kept
  <2> QED BY <1>3, <2>1, <2>3, <2>4
<1> HIDE DEF U
<1>4. \A n \in 0 .. N : sent[n] \in U
  BY <1>2, <1>3, LoopKeeps, Zenon
<1>5. sent[N] \in U
  BY <1>4
<1> QED BY <1>5 DEF U

\* try_send_n
LEMMA TrySendNUses ==
  ASSUME ChannelInv, NEW c \in Channels, NEW N \in Nat, NEW ms \in [1 .. N -> Messages], TrySendN(c, ms)
  PROVE  \A d \in impl_list_' : KeepsRoom(d)
<1>1. Len(ms) = N
  OBVIOUS
<1> DEFINE sent == CHOOSE f : SentBy(Now(c), N, ms, f)
<1>2. Usable(c) /\ Apply(c, sent[N])
  BY <1>1, Zenon DEF TrySendN, SentBy
<1> HIDE DEF sent
<1>3. PICK closed \in BOOLEAN : closed = (impl[c].send_state_ = "closed")
  OBVIOUS
<1>4. PICK a : a = Now(c) /\ Kept(a, closed)
  BY <1>2, <1>3, NowKept
<1>5. TurnsKeep(a, N, ms, sent, closed)
  <2>1. sent = CHOOSE f : SentBy(a, N, ms, f)
    BY <1>4 DEF sent
  <2>2. Kept(a, closed)
    BY <1>4
  <2> QED BY <2>1, <2>2, SentKeeps, Zenon
<1>6. RoomWasted(sent[N].i) => RoomWasted(a.i)
  BY <1>5, SentUses
<1>7. a.i = impl[c]
  BY <1>4 DEF Now
<1> QED BY <1>2, <1>6, <1>7, ApplyUses

\* try_send, async_send: a send waits where sends waited or were refused.
LEMMA SendUses ==
  ASSUME ChannelInv, NEW c \in Channels, NEW m \in Messages, TrySend(c, m) \/ AsyncSend(c, m)
  PROVE  \A d \in impl_list_' : KeepsRoom(d)
<1>1. Usable(c) /\ Sound(impl[c]) /\ Now(c) \in Working /\ Now(c).i = impl[c] /\ impl[c] \in Impl
  BY NowKept DEF TrySend, AsyncSend, Now, Sound
<1>2. CASE Apply(c, SendOne(Now(c), m))
  <2>1. PICK closed \in BOOLEAN : closed = (impl[c].send_state_ = "closed")
    OBVIOUS
  <2>2. Kept(Now(c), closed)
    BY <1>1, <2>1, NowKept
  <2>3. RoomWasted(SendOne(Now(c), m).i) => RoomWasted(impl[c])
    BY <1>1, <2>2, SendOneUses
  <2> QED BY <1>1, <1>2, <2>3, ApplyUses
<1>3. CASE Apply(c, [Now(c) EXCEPT !.outcome[m] = "closed"])
  <2>1. PICK s : s = [Now(c) EXCEPT !.outcome[m] = "closed"]
    OBVIOUS
  <2>2. s.i = impl[c]
    BY <1>1, <2>1 DEF Working
  <2> QED BY <1>1, <1>3, <2>1, <2>2, ApplyUses
<1>4. CASE Apply(c, [Now(c) EXCEPT !.i = SendWaits(impl[c], m), !.outcome[m] = "waits"])
  <2>1. PICK s : s = [Now(c) EXCEPT !.i = SendWaits(impl[c], m), !.outcome[m] = "waits"]
    OBVIOUS
  <2>2. s.i = SendWaits(impl[c], m)
    BY <1>1, <2>1 DEF Working
  <2>3. RoomWasted(SendWaits(impl[c], m)) => RoomWasted(impl[c])
    BY <1>1 DEF SendWaits, RoomWasted, Impl
  <2> QED BY <1>1, <1>4, <2>1, <2>2, <2>3, ApplyUses
<1> QED BY <1>2, <1>3, <1>4 DEF TrySend, AsyncSend

\* The message taken from the buffer leaves its place to a waiting send, or sending goes on.
LEMMA RefillUses ==
  ASSUME NEW i, Sound(i), i.receive_state_ = "buffer", RoomWasted(Refill(i))
  PROVE  RoomWasted(i)
<1>1. i \in Impl /\ i.buffer_ \in Seq(Messages) /\ i.buffer_ # <<>> /\ i.waiters_ \in Seq(Operations)
      /\ ToSet(i.waiters_) \subseteq Messages /\ i.send_state_ \in {"buffer", "block"}
  BY KindsApart DEF Sound, Impl
<1>2. PICK j : j = Refill(i)
  OBVIOUS
<1>3. CASE i.waiters_ # <<>>
  <2>1. PICK m \in Messages : m = Head(i.waiters_)
    BY <1>1, <1>3, WaitersFacts
  <2>2. PICK t \in Seq(Messages) : t = Tail(i.buffer_) /\ Len(t) = Len(i.buffer_) - 1
    BY <1>1, FrontLeaves
  <2>3. PICK b \in Seq(Messages) : b = Append(t, m) /\ Len(b) = Len(t) + 1
    <3>1. Append(t, m) \in Seq(Messages) /\ Len(Append(t, m)) = Len(t) + 1
      BY AppendProperties
    <3> QED BY <3>1
  <2>4. j.buffer_ = b /\ j.send_state_ = i.send_state_ /\ j.max_buffer_size_ = i.max_buffer_size_
    BY <1>1, <1>2, <1>3, <2>1, <2>2, <2>3 DEF Refill, Impl
  <2>5. Len(b) = Len(i.buffer_)
    BY <1>1, <2>2, <2>3, LenProperties
  <2> QED BY <1>2, <2>4, <2>5 DEF RoomWasted
<1>4. CASE i.waiters_ = <<>>
  <2>1. j.send_state_ = "buffer"
    BY <1>1, <1>2, <1>4 DEF Refill, Impl
  <2> QED BY <1>2, <2>1 DEF RoomWasted
<1> QED BY <1>3, <1>4

\* try_receive, async_receive: a message leaves the buffer, and a waiting send takes its
\* place or sending goes on; a receive that waits is waited for.
LEMMA ReceiveUses ==
  ASSUME ChannelInv, NEW c \in Channels, NEW r \in Receivers, TryReceive(c, r) \/ AsyncReceive(c, r)
  PROVE  \A d \in impl_list_' : KeepsRoom(d)
<1>1. Usable(c) /\ Sound(impl[c]) /\ Now(c) \in Working /\ Now(c).i = impl[c] /\ impl[c] \in Impl
  BY NowKept DEF TryReceive, AsyncReceive, Now, Sound
<1>2. CASE impl[c].receive_state_ \in {"buffer", "waiter"} /\ Apply(c, Received(Now(c), r))
  <2>1. PICK s : s = Received(Now(c), r)
    OBVIOUS
  <2>2. s.i = IF impl[c].receive_state_ = "buffer" THEN Refill(impl[c]) ELSE TakeFromSender(impl[c])
    BY <1>1, <2>1 DEF Received
  <2>3. CASE impl[c].receive_state_ = "buffer"
    BY <1>1, <1>2, <2>1, <2>2, <2>3, RefillUses, ApplyUses
  <2>4. CASE impl[c].receive_state_ = "waiter"
    <3>1. RoomWasted(TakeFromSender(impl[c])) => RoomWasted(impl[c])
      BY <1>1 DEF TakeFromSender, RoomWasted, Impl
    <3> QED BY <1>1, <1>2, <2>1, <2>2, <2>4, <3>1, ApplyUses
  <2> QED BY <1>2, <2>3, <2>4
<1>3. ASSUME NEW a \in {"closed", "refused"}, Apply(c, [Now(c) EXCEPT !.outcome[r] = a])
      PROVE  \A d \in impl_list_' : KeepsRoom(d)
  <2>1. PICK s : s = [Now(c) EXCEPT !.outcome[r] = a]
    OBVIOUS
  <2>2. s.i = impl[c]
    BY <1>1, <2>1 DEF Working
  <2> QED BY <1>1, <1>3, <2>1, <2>2, ApplyUses
<1>4. CASE /\ impl[c].receive_state_ = "block"
           /\ Apply(c, [Now(c) EXCEPT !.i = ReceiveWaits(impl[c], r), !.outcome[r] = "waits"])
  <2>1. PICK s : s = [Now(c) EXCEPT !.i = ReceiveWaits(impl[c], r), !.outcome[r] = "waits"]
    OBVIOUS
  <2>2. s.i = ReceiveWaits(impl[c], r)
    BY <1>1, <2>1 DEF Working
  <2>3. ~RoomWasted(ReceiveWaits(impl[c], r))
    BY <1>1 DEF ReceiveWaits, RoomWasted, Impl
  <2> QED BY <1>1, <1>4, <2>1, <2>2, <2>3, ApplyUses
<1> QED BY <1>2, <1>3, <1>4 DEF TryReceive, AsyncReceive

\* cancel() and cancel_by_key: sending was blocked before, or a receive of those that waited
\* has been cancelled.
LEMMA CancelUses ==
  ASSUME ChannelInv, NEW c \in Channels, Usable(c), NEW ops, ops \subseteq Waiting(c), ops # {},
         outcome' = Cancelled(c, ops), NEW w,
         impl' = [impl EXCEPT ![c] = NoWaiter([impl[c] EXCEPT !.waiters_ = w])]
  PROVE  KeepsRoom(c)
<1> DEFINE i == impl[c]
<1>1. impl \in [Channels -> Impl] /\ Sound(i) /\ i \in Impl /\ c \in impl_list_
  BY NowKept DEF ChannelInv, TypeOK, Impl, Usable, Sound
<1>2. PICK j : j = NoWaiter([i EXCEPT !.waiters_ = w])
  OBVIOUS
<1>3. j.buffer_ = i.buffer_ /\ j.max_buffer_size_ = i.max_buffer_size_
      /\ (j.send_state_ = "block" => i.send_state_ \in {"block", "waiter"}) /\ impl'[c] = j
  BY <1>1, <1>2 DEF NoWaiter, Impl
<1>4. CASE i.send_state_ = "block"
  BY <1>1, <1>3, <1>4 DEF KeepsRoom, RoomWasted
<1>5. CASE i.send_state_ = "waiter"
  <2>1. PICK r \in ops : TRUE
    OBVIOUS
  <2>2. r \in Receivers /\ r \notin Messages /\ r \in Waiting(c) /\ r \in Operations
    BY <1>1, <1>5, <2>1, KindsApart DEF Waiting, Operations
  <2>3. outcome'[r] = CancelOutcome(i, r)
    BY <2>1, <2>2 DEF Cancelled
  <2>4. CancelOutcome(i, r) = "cancelled"
    BY <1>5, <2>2 DEF CancelOutcome
  <2> QED BY <2>2, <2>3, <2>4 DEF KeepsRoom
<1>6. CASE i.send_state_ \notin {"block", "waiter"}
  BY <1>3, <1>6 DEF KeepsRoom, RoomWasted
<1> QED BY <1>4, <1>5, <1>6

\* The same for the steps.  A channel that is destroyed is none any more.
LEMMA CancelStepsUse ==
  ASSUME ChannelInv, NEW c \in Channels,
         Cancel(c) \/ ResetCancel(c) \/ Destroy(c) \/ \E o \in Operations : CancelByKey(c, o)
  PROVE  \A d \in impl_list_' : KeepsRoom(d)
<1>1. CASE Destroy(c)
  <2>1. impl' = [impl EXCEPT ![c] = CancelAll(c)] /\ impl_list_' \subseteq impl_list_ \cup {c} /\ c \notin impl_list_'
    BY <1>1 DEF Destroy
  <2> QED BY <2>1, RoomStep
<1>2. CASE Cancel(c) \/ ResetCancel(c)
  <2>1. /\ Usable(c) /\ impl' = [impl EXCEPT ![c] = CancelAll(c)] /\ outcome' = Cancelled(c, Waiting(c))
        /\ impl_list_' = impl_list_
    BY <1>2 DEF Cancel, ResetCancel
  <2>2. impl[c] \in Impl /\ impl \in [Channels -> Impl] /\ Sound(impl[c]) /\ c \in impl_list_
    BY <2>1, NowKept DEF ChannelInv, TypeOK, Impl, Usable
  <2>3. CASE Waiting(c) # {}
    <3>1. impl' = [impl EXCEPT ![c] = NoWaiter([impl[c] EXCEPT !.waiters_ = <<>>])]
      BY <2>1 DEF CancelAll
    <3>2. KeepsRoom(c)
      BY <2>1, <2>3, <3>1, CancelUses
    <3> QED BY <2>1, <3>2, RoomStep
  <2>4. CASE Waiting(c) = {}
    <3>1. impl[c].send_state_ # "waiter"
      BY <2>2, <2>4, KindsApart DEF Waiting
    <3>2. PICK j : j = CancelAll(c)
      OBVIOUS
    <3>3. RoomWasted(j) => RoomWasted(impl[c])
      BY <2>2, <3>1, <3>2 DEF CancelAll, NoWaiter, RoomWasted, Impl
    <3>4. impl'[c] = j
      BY <2>1, <2>2, <3>2
    <3>5. KeepsRoom(c)
      BY <2>2, <3>3, <3>4 DEF KeepsRoom
    <3> QED BY <2>1, <3>5, RoomStep
  <2> QED BY <2>3, <2>4
<1>3. ASSUME NEW o \in Operations, CancelByKey(c, o) PROVE \A d \in impl_list_' : KeepsRoom(d)
  <2>1. PICK w : w = Unlinked(impl[c].waiters_, {o})
    OBVIOUS
  <2>2. PICK left : left = [impl[c] EXCEPT !.waiters_ = w]
    OBVIOUS
  <2>3. impl[c] \in Impl /\ impl \in [Channels -> Impl] /\ c \in impl_list_
    BY <1>3 DEF ChannelInv, TypeOK, Impl, Usable, CancelByKey
  <2>4. left.waiters_ = w
    BY <2>2, <2>3 DEF Impl
  <2>5. /\ Usable(c) /\ o \in Waiting(c) /\ outcome' = Cancelled(c, {o}) /\ impl_list_' = impl_list_
        /\ impl' = [impl EXCEPT ![c] = IF w = <<>> THEN NoWaiter(left) ELSE left]
    BY <1>3, <2>1, <2>2, <2>4 DEF CancelByKey
  <2>6. CASE w = <<>>
    <3>1. impl' = [impl EXCEPT ![c] = NoWaiter([impl[c] EXCEPT !.waiters_ = w])]
      BY <2>2, <2>5, <2>6
    <3>2. {o} \subseteq Waiting(c) /\ {o} # {}
      BY <2>5
    <3>3. KeepsRoom(c)
      BY <2>5, <3>1, <3>2, CancelUses
    <3> QED BY <2>5, <3>3, RoomStep
  <2>7. CASE w # <<>>
    <3>1. impl' = [impl EXCEPT ![c] = left]
      BY <2>5, <2>7
    <3>2. impl'[c] = left
      BY <2>3, <3>1
    <3>3. RoomWasted(left) => RoomWasted(impl[c])
      BY <2>2, <2>3 DEF RoomWasted, Impl
    <3>4. KeepsRoom(c)
      BY <2>3, <3>2, <3>3 DEF KeepsRoom
    <3> QED BY <2>5, <3>1, <3>4, RoomStep
  <2> QED BY <2>6, <2>7
<1> QED BY <1>1, <1>2, <1>3

\* A new channel, and one that reset() has made new again, blocks sends when it has no buffer.
LEMMA ConstructedUses ==
  ASSUME NEW n \in Capacities \cup {0}
  PROVE  ~RoomWasted(Constructed(n))
<1>1. PICK j : j = Constructed(n)
  OBVIOUS
<1>2. j.buffer_ = <<>> /\ j.max_buffer_size_ = n /\ j.send_state_ = IF n > 0 THEN "buffer" ELSE "block"
  BY <1>1 DEF Constructed, InitialSend
<1>3. n \in Nat /\ Len(<<>>) = 0
  BY ConstantsAssumption
<1> QED BY <1>1, <1>2, <1>3 DEF RoomWasted

LEMMA FreshUses ==
  ASSUME ChannelInv, NEW c \in Channels, (\E n \in Capacities : Construct(c, n)) \/ Close(c) \/ ResetClear(c)
  PROVE  \A d \in impl_list_' : KeepsRoom(d)
<1>1. impl \in [Channels -> Impl] /\ impl[c].max_buffer_size_ \in Capacities \cup {0}
  BY DEF ChannelInv, TypeOK, Impl
<1>2. ASSUME NEW n \in Capacities, Construct(c, n) PROVE \A d \in impl_list_' : KeepsRoom(d)
  <2>1. PICK j : j = Constructed(n) /\ ~RoomWasted(j)
    BY ConstructedUses
  <2>2. impl' = [impl EXCEPT ![c] = j] /\ impl_list_' = impl_list_ \cup {c}
    BY <1>2, <2>1 DEF Construct
  <2>3. KeepsRoom(c)
    BY <1>1, <2>1, <2>2 DEF KeepsRoom
  <2> QED BY <2>2, <2>3, RoomStep
<1>3. CASE Close(c)
  <2>1. PICK j : j = Closed(impl[c])
    OBVIOUS
  <2>2. impl' = [impl EXCEPT ![c] = j] /\ impl_list_' = impl_list_
    BY <1>3, <2>1 DEF Close
  <2>3. j.send_state_ = "closed"
    BY <1>1, <2>1 DEF Closed, Impl
  <2>4. KeepsRoom(c)
    BY <1>1, <2>2, <2>3 DEF KeepsRoom, RoomWasted
  <2> QED BY <2>2, <2>4, RoomStep
<1>4. CASE ResetClear(c)
  <2>1. impl'[c] = Constructed(impl[c].max_buffer_size_)
    BY <1>4, ResetClearStep
  <2>2. PICK j : impl' = [impl EXCEPT ![c] = j] /\ impl_list_' = impl_list_
    BY <1>4 DEF ResetClear
  <2>3. KeepsRoom(c)
    BY <1>1, <2>1, ConstructedUses DEF KeepsRoom
  <2> QED BY <2>2, <2>3, RoomStep
<1> QED BY <1>2, <1>3, <1>4

\* Both moves: the one is as new, the other as the one was.
LEMMA MoveUses ==
  ASSUME ChannelInv, Uses \cap Unsafe = {}, NEW c \in Channels, NEW d \in Channels,
         MoveConstruct(c, d) \/ MoveAssign(c, d)
  PROVE  \A e \in impl_list_' : KeepsRoom(e)
<1>1. /\ impl \in [Channels -> Impl] /\ c \in impl_list_ /\ c # d
      /\ impl_list_ \subseteq Channels /\ impl[c].max_buffer_size_ \in Capacities \cup {0}
  BY DEF ChannelInv, TypeOK, Impl, MoveConstruct, MoveAssign, MayMove, Usable
<1>2. impl'[c] = Constructed(impl[c].max_buffer_size_)
  BY MoveSteps
<1>3. PICK j : j = MovedTo(impl[c])
  OBVIOUS
<1>4. PICK k : k = MovedFrom(impl[c])
  OBVIOUS
<1>5. impl' = [impl EXCEPT ![d] = j, ![c] = k] /\ impl_list_' \subseteq impl_list_ \cup {d}
  BY <1>3, <1>4 DEF MoveConstruct, MoveAssign
<1>6. impl'[d] = j /\ \A e \in Channels \ {c, d} : impl'[e] = impl[e]
  BY <1>1, <1>5
<1>7. KeepsRoom(c)
  BY <1>1, <1>2, ConstructedUses DEF KeepsRoom
<1>8. KeepsRoom(d)
  <2>1. RoomWasted(j) => RoomWasted(impl[c])
    BY <1>1, <1>3 DEF MovedTo, RoomWasted, Impl
  <2> QED BY <1>1, <1>6, <2>1 DEF KeepsRoom
<1>9. ASSUME NEW e \in impl_list_ \ {c, d} PROVE KeepsRoom(e)
  BY <1>1, <1>6 DEF KeepsRoom
<1> QED BY <1>5, <1>7, <1>8, <1>9

\* However a channel is used: sends fail or wait beside room in its buffer only after a
\* receive that waited has been cancelled.
THEOREM ChannelRoomIsUsed == ASSUME Uses \cap Unsafe = {} PROVE Spec => RoomIsUsed
<1> DEFINE RoomKept == \A c \in impl_list_' : KeepsRoom(c)
<1>1. ASSUME ChannelInv, Next PROVE RoomKept
  <2>1. ASSUME NEW c \in Channels, NEW m \in Messages, TrySend(c, m) \/ AsyncSend(c, m) PROVE RoomKept
    BY <1>1, <2>1, SendUses
  <2>2. ASSUME NEW c \in Channels, NEW n \in 2 .. Cardinality(Messages), NEW ms \in Distinct(n), TrySendN(c, ms)
        PROVE  RoomKept
    BY <1>1, <2>2, TrySendNUses DEF Distinct
  <2>3. ASSUME NEW c \in Channels, NEW r \in Receivers, TryReceive(c, r) \/ AsyncReceive(c, r) PROVE RoomKept
    BY <1>1, <2>3, ReceiveUses
  <2>4. ASSUME NEW c \in Channels,
               Cancel(c) \/ ResetCancel(c) \/ Destroy(c) \/ \E o \in Operations : CancelByKey(c, o)
        PROVE  RoomKept
    BY <1>1, <2>4, CancelStepsUse
  <2>5. ASSUME NEW c \in Channels, (\E n \in Capacities : Construct(c, n)) \/ Close(c) \/ ResetClear(c)
        PROVE  RoomKept
    BY <1>1, <2>5, FreshUses
  <2>6. ASSUME NEW c \in Channels, NEW d \in Channels, MoveConstruct(c, d) \/ MoveAssign(c, d) PROVE RoomKept
    BY <1>1, <2>6, MoveUses
  <2>7. ASSUME Shutdown PROVE RoomKept
    <3>1. impl \in [Channels -> Impl] /\ impl_list_ \subseteq Channels
      BY <1>1 DEF ChannelInv, TypeOK, Impl
    <3>2. ASSUME NEW c \in impl_list_' PROVE KeepsRoom(c)
      <4>1. c \in impl_list_ /\ c \in Channels /\ impl'[c] = [impl[c] EXCEPT !.waiters_ = <<>>]
        BY <2>7, <3>1, <3>2 DEF Shutdown
      <4>2. RoomWasted(impl'[c]) => RoomWasted(impl[c])
        BY <3>1, <4>1 DEF RoomWasted, Impl
      <4> QED BY <4>1, <4>2 DEF KeepsRoom
    <3> QED BY <3>2
  <2> HIDE DEF RoomKept
  <2> QED BY <1>1, <2>1, <2>2, <2>3, <2>4, <2>5, <2>6, <2>7 DEF Next
<1>2. ChannelInv /\ [Next]_vars => [\A c \in impl_list_' : KeepsRoom(c)]_vars
  BY <1>1
<1> QED BY <1>2, ChannelInit, ChannelNext, PTL DEF Spec, RoomIsUsed

-----------------------------------------------------------------------------
(* The promise.  Behind StatesDescribe stands the order of what a channel  *)
(* holds: an operation waits once, in one channel, and is the only one     *)
(* that says so; what is buffered has been sent.                           *)

\* Channel i, when the operations have the outcomes out.
Own(i, out) ==
    /\ \A x \in Operations : AtMostOnce(i.waiters_, x)
    /\ \A o \in ToSet(i.waiters_) : out[o] = "waits"
    /\ i.send_state_ # "closed" => \A m \in ToSet(i.buffer_) : out[m] = "ok"

OrderInv ==
    /\ \A c \in impl_list_ : Own(impl[c], outcome)
    /\ \A c, d \in impl_list_ : c # d => Waiting(c) \cap Waiting(d) = {}
    /\ \A r \in Receivers : outcome[r] # "ok" => got[r] = NoMessage
    /\ down => \A c \in impl_list_ : Waiting(c) = {}

FifoInv == ChannelInv /\ OrderInv

LEMMA ElementsOf ==
  ASSUME NEW S, NEW q \in Seq(S)
  PROVE  /\ ToSet(q) = {q[n] : n \in 1 .. Len(q)} /\ ToSet(q) \subseteq S
         /\ \A n \in 1 .. Len(q) : q[n] \in ToSet(q)
<1>1. DOMAIN q = 1 .. Len(q)
  BY LenProperties
<1>2. ToSet(q) = {q[n] : n \in 1 .. Len(q)}
  BY <1>1 DEF ToSet
<1> QED BY <1>2, ElementOfSeq

LEMMA FieldTypes ==
  ASSUME NEW i \in Impl
  PROVE  /\ i.buffer_ \in Seq(Messages) /\ i.buffer_ \in Seq(Operations) /\ i.waiters_ \in Seq(Operations)
         /\ i.max_buffer_size_ \in Nat /\ Len(i.buffer_) \in Nat /\ Len(i.waiters_) \in Nat
         /\ Messages \cap Receivers = {} /\ Messages \subseteq Operations /\ Receivers \subseteq Operations
<1>1. i.buffer_ \in Seq(Messages) /\ i.waiters_ \in Seq(Operations) /\ i.max_buffer_size_ \in Capacities \cup {0}
  BY DEF Impl
<1>2. Messages \cap Receivers = {} /\ Messages \subseteq Operations /\ Receivers \subseteq Operations
  BY ConstantsAssumption DEF Operations
<1>3. i.buffer_ \in Seq(Operations)
  BY <1>1, <1>2, SeqMonotonic
<1>4. i.max_buffer_size_ \in Nat
  <2>1. \A n \in Capacities \cup {0} : n \in Nat
    BY ConstantsAssumption
  <2> QED BY <1>1, <2>1, Zenon
<1> QED BY <1>1, <1>2, <1>3, <1>4, LenProperties

\* What a channel holds for receives and what waits in it to be served.
LEMMA Views ==
  ASSUME NEW i \in Impl
  PROVE  /\ ToSet(i.waiters_) \subseteq Receivers => Unreceived(i) = i.buffer_ /\ ReceivesOf(i) = i.waiters_
         /\ ToSet(i.waiters_) \subseteq Messages =>
              Unreceived(i) = i.buffer_ \o i.waiters_ /\ ReceivesOf(i) = <<>>
         /\ Unreceived(i) \in Seq(Operations) /\ ReceivesOf(i) \in Seq(Operations)
<1> DEFINE b == i.buffer_
           w == i.waiters_
<1>1. /\ b \in Seq(Operations) /\ w \in Seq(Operations) /\ Messages \cap Receivers = {}
      /\ \A n \in 1 .. Len(w) : w[n] \in ToSet(w)
  BY FieldTypes, ElementsOf
<1>2. Unreceived(i) = b \o Unlinked(w, Receivers) /\ ReceivesOf(i) = Unlinked(w, Messages)
  BY DEF Unreceived, ReceivesOf
<1> HIDE DEF b, w
<1>3. ASSUME ToSet(w) \subseteq Receivers PROVE Unreceived(i) = b /\ ReceivesOf(i) = w
  <2>1. (\A n \in 1 .. Len(w) : w[n] \in Receivers) /\ (\A n \in 1 .. Len(w) : w[n] \notin Messages)
    BY <1>1, <1>3
  <2>2. Unlinked(w, Receivers) = <<>> /\ Unlinked(w, Messages) = w
    BY <1>1, <2>1, UnlinkedAll, UnlinkedNone
  <2> QED BY <1>1, <1>2, <2>2, ConcatEmptySeq
<1>4. ASSUME ToSet(w) \subseteq Messages PROVE Unreceived(i) = b \o w /\ ReceivesOf(i) = <<>>
  <2>1. (\A n \in 1 .. Len(w) : w[n] \in Messages) /\ (\A n \in 1 .. Len(w) : w[n] \notin Receivers)
    BY <1>1, <1>4
  <2>2. Unlinked(w, Messages) = <<>> /\ Unlinked(w, Receivers) = w
    BY <1>1, <2>1, UnlinkedAll, UnlinkedNone
  <2> QED BY <1>2, <2>2
<1>5. Unreceived(i) \in Seq(Operations) /\ ReceivesOf(i) \in Seq(Operations)
  BY <1>1, <1>2, UnlinkedFacts, ConcatProperties
<1> QED BY <1>3, <1>4, <1>5 DEF b, w

\* A step that changes channel c, as the promise sees it.
LEMMA ViewStep ==
  ASSUME ChannelInv, NEW c \in Channels, NEW j \in Impl, impl' = [impl EXCEPT ![c] = j],
         \A d \in Channels \ {c} : d \in impl_list_' <=> d \in impl_list_
  PROVE  /\ Capacity' = [Capacity EXCEPT ![c] = j.max_buffer_size_]
         /\ Shut' = [Shut EXCEPT ![c] = (j.send_state_ = "closed")]
         /\ Queue' = [Queue EXCEPT ![c] = IF c \in impl_list_' /\ j.send_state_ # "closed"
                                          THEN Unreceived(j) ELSE <<>>]
         /\ Takers' = [Takers EXCEPT ![c] = IF c \in impl_list_' /\ j.send_state_ # "closed"
                                            THEN ReceivesOf(j) ELSE <<>>]
<1>1. impl \in [Channels -> Impl]
  BY DEF ChannelInv, TypeOK, Impl
<1>2. impl' \in [Channels -> Impl] /\ impl'[c] = j /\ \A d \in Channels \ {c} : impl'[d] = impl[d]
  BY <1>1
<1>3. Capacity' = [Capacity EXCEPT ![c] = j.max_buffer_size_]
  BY <1>2 DEF Capacity
<1>4. Shut' = [Shut EXCEPT ![c] = (j.send_state_ = "closed")]
  BY <1>2 DEF Shut
<1>5. Queue' = [Queue EXCEPT ![c] = IF c \in impl_list_' /\ j.send_state_ # "closed"
                                    THEN Unreceived(j) ELSE <<>>]
  BY <1>2 DEF Queue, Open
<1>6. Takers' = [Takers EXCEPT ![c] = IF c \in impl_list_' /\ j.send_state_ # "closed"
                                      THEN ReceivesOf(j) ELSE <<>>]
  BY <1>2 DEF Takers, Open
<1> QED BY <1>3, <1>4, <1>5, <1>6

\* ... which stays or becomes open, or closed.
LEMMA ViewOpen ==
  ASSUME FifoInv, NEW c \in Channels, NEW j \in Impl, impl' = [impl EXCEPT ![c] = j],
         \A d \in Channels \ {c} : d \in impl_list_' <=> d \in impl_list_,
         c \in impl_list_', j.send_state_ # "closed"
  PROVE  /\ Capacity' = [Capacity EXCEPT ![c] = j.max_buffer_size_] /\ Shut' = [Shut EXCEPT ![c] = FALSE]
         /\ Queue' = [Queue EXCEPT ![c] = Unreceived(j)] /\ Takers' = [Takers EXCEPT ![c] = ReceivesOf(j)]
<1>1. (j.send_state_ = "closed") = FALSE
  OBVIOUS
<1> QED BY <1>1, ViewStep DEF FifoInv

LEMMA ViewClosed ==
  ASSUME FifoInv, NEW c \in Channels, NEW j \in Impl, impl' = [impl EXCEPT ![c] = j],
         \A d \in Channels \ {c} : d \in impl_list_' <=> d \in impl_list_, j.send_state_ = "closed"
  PROVE  /\ Capacity' = [Capacity EXCEPT ![c] = j.max_buffer_size_] /\ Shut' = [Shut EXCEPT ![c] = TRUE]
         /\ Queue' = [Queue EXCEPT ![c] = <<>>] /\ Takers' = [Takers EXCEPT ![c] = <<>>]
<1>1. /\ Capacity' = [Capacity EXCEPT ![c] = j.max_buffer_size_]
      /\ Shut' = [Shut EXCEPT ![c] = (j.send_state_ = "closed")]
      /\ Queue' = [Queue EXCEPT ![c] = IF c \in impl_list_' /\ j.send_state_ # "closed"
                                       THEN Unreceived(j) ELSE <<>>]
      /\ Takers' = [Takers EXCEPT ![c] = IF c \in impl_list_' /\ j.send_state_ # "closed"
                                         THEN ReceivesOf(j) ELSE <<>>]
  BY ViewStep DEF FifoInv
<1> QED BY <1>1

\* A step that changes channel c, and completes only new operations and those waiting in c.
LEMMA OrderStep ==
  ASSUME FifoInv, NEW c \in Channels, NEW j \in Impl, impl' = [impl EXCEPT ![c] = j],
         down' = down, \A d \in Channels \ {c} : d \in impl_list_' => d \in impl_list_,
         \A o \in Operations : outcome'[o] # outcome[o] =>
             outcome[o] = "new" \/ (c \in impl_list_ /\ o \in Waiting(c)),
         c \in impl_list_' => Own(j, outcome'),
         ToSet(j.waiters_) \subseteq {o \in Operations : \/ ~down /\ outcome[o] = "new"
                                                         \/ c \in impl_list_ /\ o \in Waiting(c)},
         impl_list_' \subseteq Channels,
         \A r \in Receivers : outcome'[r] # "ok" => got'[r] = NoMessage
  PROVE  OrderInv'
<1>1. impl \in [Channels -> Impl] /\ impl_list_ \subseteq Channels
  BY DEF FifoInv, ChannelInv, TypeOK, Impl
<1>2. impl'[c] = j /\ \A d \in Channels \ {c} : impl'[d] = impl[d]
  BY <1>1
<1>3. /\ \A d \in impl_list_ : Own(impl[d], outcome) /\ impl[d].buffer_ \in Seq(Operations)
                               /\ impl[d].waiters_ \in Seq(Operations)
      /\ \A d, e \in impl_list_ : d # e => ToSet(impl[d].waiters_) \cap ToSet(impl[e].waiters_) = {}
  BY <1>1, FieldTypes DEF FifoInv, OrderInv, Waiting
<1>4. ASSUME NEW d \in impl_list_' PROVE Own(impl'[d], outcome')
  <2>1. CASE d = c
    BY <1>2, <1>4, <2>1
  <2>2. CASE d # c
    <3>1. d \in impl_list_ /\ impl'[d] = impl[d]
      BY <1>2, <1>4, <2>2
    <3>2. PICK i : i = impl[d] /\ i.buffer_ \in Seq(Operations) /\ i.waiters_ \in Seq(Operations)
      BY <1>3, <3>1
    <3>3. ToSet(i.waiters_) \subseteq Operations /\ ToSet(i.buffer_) \subseteq Operations
      BY <3>2, ElementsOf
    <3>4. ASSUME NEW o \in ToSet(i.waiters_) PROVE outcome'[o] = "waits"
      <4>1. outcome[o] = "waits" /\ o \in Operations
        BY <1>3, <3>1, <3>2, <3>3 DEF Own
      <4>2. ~(c \in impl_list_ /\ o \in Waiting(c))
        BY <1>3, <2>2, <3>1, <3>2 DEF Waiting
      <4> QED BY <4>1, <4>2
    <3>5. ASSUME i.send_state_ # "closed", NEW m \in ToSet(i.buffer_) PROVE outcome'[m] = "ok"
      <4>1. outcome[m] = "ok" /\ m \in Operations
        BY <1>3, <3>1, <3>2, <3>3, <3>5 DEF Own
      <4>2. ~(c \in impl_list_ /\ m \in Waiting(c))
        BY <1>3, <4>1 DEF Waiting, Own
      <4> QED BY <4>1, <4>2
    <3> QED BY <1>3, <3>1, <3>2, <3>4, <3>5 DEF Own
  <2> QED BY <2>1, <2>2
<1>5. ASSUME NEW d \in impl_list_', d # c PROVE ToSet(impl'[d].waiters_) \cap ToSet(j.waiters_) = {}
  <2>1. d \in impl_list_ /\ impl'[d] = impl[d]
    BY <1>2, <1>5
  <2>2. ASSUME NEW o \in ToSet(impl[d].waiters_), o \in ToSet(j.waiters_) PROVE FALSE
    <3>1. outcome[o] = "waits"
      BY <1>3, <2>1 DEF Own
    <3>2. c \in impl_list_ /\ o \in ToSet(impl[c].waiters_)
      BY <2>2, <3>1 DEF Waiting
    <3> QED BY <1>3, <1>5, <2>1, <2>2, <3>2
  <2> QED BY <2>1, <2>2
<1>6. \A d, e \in impl_list_' : d # e => (ToSet(impl[d].waiters_) \cap ToSet(impl[e].waiters_) = {})'
  <2> TAKE d \in impl_list_', e \in impl_list_'
  <2> HAVE d # e
  <2>1. CASE d # c /\ e # c
    BY <1>2, <1>3, <2>1
  <2>2. CASE d = c
    BY <1>2, <1>5, <2>2
  <2>3. CASE e = c
    BY <1>2, <1>5, <2>3
  <2> QED BY <2>1, <2>2, <2>3
<1>7. ASSUME down, NEW d \in impl_list_' PROVE ToSet(impl'[d].waiters_) = {}
  <2>1. \A e \in impl_list_ : ToSet(impl[e].waiters_) = {}
    BY <1>7 DEF FifoInv, OrderInv, Waiting
  <2> QED BY <1>2, <1>7, <2>1 DEF Waiting
<1> QED BY <1>4, <1>6, <1>7 DEF OrderInv, Waiting

\* Which sends complete follows from the outcomes: those of what is buffered.
LEMMA CompletesFacts ==
  ASSUME NEW c \in Channels, NEW b \in Seq(Operations), NEW w \in Seq(Operations), NEW handed,
         Queue'[c] = b \o w, Capacity[c] \in Nat, Len(b) <= Capacity[c],
         \A n \in 1 .. Len(b) : b[n] \in Accepted', \A n \in 1 .. Len(w) : w[n] \notin Accepted',
         Accepted \subseteq Accepted', handed \subseteq Accepted',
         Accepted' \subseteq Accepted \cup handed \cup ToSet(b)
  PROVE  Promise!Completes(c, handed)
<1>0. PICK q : q = Queue'[c]
  OBVIOUS
<1>1. /\ q = b \o w /\ Len(q) = Len(b) + Len(w) /\ Len(b) \in Nat /\ Len(w) \in Nat
      /\ \A n \in 1 .. Len(b) + Len(w) : q[n] = IF n <= Len(b) THEN b[n] ELSE w[n - Len(b)]
  BY <1>0, ConcatProperties, LenProperties
<1>2. PICK k \in 0 .. Len(q) : k = Len(b) /\ k <= Capacity[c]
  BY <1>1
<1>3. k \in 0 .. Promise!Smaller(Capacity[c], Len(q))
  BY <1>1, <1>2 DEF Promise!Smaller
<1>4. ToSet(b) = {q[n] : n \in 1 .. k}
  <2>1. ToSet(b) = {b[n] : n \in 1 .. Len(b)} /\ \A n \in 1 .. k : q[n] = b[n]
    BY <1>1, <1>2, ElementsOf
  <2> QED BY <1>2, <2>1
<1>5. Accepted' = Accepted \cup handed \cup {q[n] : n \in 1 .. k}
  <2>1. ToSet(b) \subseteq Accepted'
    BY ElementsOf
  <2> QED BY <1>4, <2>1
<1>6. ASSUME NEW n \in k + 1 .. Len(q) PROVE q[n] \notin Accepted'
  <2>1. n - Len(b) \in 1 .. Len(w) /\ q[n] = w[n - Len(b)]
    BY <1>1, <1>2
  <2> QED BY <2>1
<1>7. k \in 0 .. Promise!Smaller(Capacity[c], Len(Queue'[c]))
  BY <1>0, <1>3
<1>8. Accepted' = Accepted \cup handed \cup {Queue'[c][n] : n \in 1 .. k}
  BY <1>0, <1>5
<1>9. \A n \in k + 1 .. Len(Queue'[c]) : Queue'[c][n] \notin Accepted'
  BY <1>0, <1>6
<1> QED BY <1>7, <1>8, <1>9 DEF Promise!Completes

-----------------------------------------------------------------------------
(* The steps of the promise: operations give up.                           *)

\* FifoInv, unfolded.
LEMMA BeforeStep ==
  ASSUME FifoInv
  PROVE  /\ impl \in [Channels -> Impl] /\ impl_list_ \subseteq Channels /\ down \in BOOLEAN
         /\ outcome \in [Operations -> Outcomes] /\ got \in [Receivers -> Messages \cup {NoMessage}]
         /\ resetting \subseteq impl_list_
         /\ \A c \in impl_list_ : /\ Own(impl[c], outcome)
                                  /\ (~down => Sound(impl[c]))
                                  /\ \/ ToSet(impl[c].waiters_) \subseteq Messages
                                     \/ ToSet(impl[c].waiters_) \subseteq Receivers
<1>1. /\ impl \in [Channels -> Impl] /\ impl_list_ \subseteq Channels /\ down \in BOOLEAN
      /\ outcome \in [Operations -> Outcomes] /\ got \in [Receivers -> Messages \cup {NoMessage}]
      /\ resetting \subseteq impl_list_
  BY DEF FifoInv, ChannelInv, TypeOK, Impl, Outcomes
<1>2. ASSUME NEW c \in impl_list_
      PROVE  /\ Own(impl[c], outcome) /\ (~down => Sound(impl[c]))
             /\ ToSet(impl[c].waiters_) \subseteq Messages \/ ToSet(impl[c].waiters_) \subseteq Receivers
  <2>1. Own(impl[c], outcome) /\ (down => ToSet(impl[c].waiters_) = {})
    BY DEF FifoInv, OrderInv, Waiting
  <2>2. ~down => Sound(impl[c])
    BY <1>1 DEF FifoInv, ChannelInv, Sound
  <2>3. Sound(impl[c]) => \/ ToSet(impl[c].waiters_) \subseteq Messages
                          \/ ToSet(impl[c].waiters_) \subseteq Receivers
    BY DEF Sound, StatesDescribe
  <2> QED BY <1>1, <2>1, <2>2, <2>3
<1> QED BY <1>1, <1>2

\* The operations that are taken out of the waiters leave what the promise sees of them.
LEMMA Unlinks ==
  ASSUME NEW i \in Impl, NEW gone,
         ToSet(i.waiters_) \subseteq Messages \/ ToSet(i.waiters_) \subseteq Receivers,
         ToSet(i.buffer_) \cap gone = {},
         NEW j \in Impl, j.buffer_ = i.buffer_, j.waiters_ = Unlinked(i.waiters_, gone)
  PROVE  /\ Unreceived(j) = Unlinked(Unreceived(i), gone)
         /\ ReceivesOf(j) = Unlinked(ReceivesOf(i), gone)
<1> DEFINE b == i.buffer_
           w == i.waiters_
<1>1. b \in Seq(Operations) /\ w \in Seq(Operations) /\ ToSet(j.waiters_) \subseteq ToSet(w)
  BY FieldTypes, UnlinkedWaiters
<1>2. \A n \in 1 .. Len(b) : b[n] \notin gone
  BY <1>1, ElementsOf
<1>3. CASE ToSet(w) \subseteq Messages
  <2>1. Unreceived(i) = b \o w /\ ReceivesOf(i) = <<>>
    BY <1>3, Views
  <2>2. Unreceived(j) = b \o Unlinked(w, gone) /\ ReceivesOf(j) = <<>>
    BY <1>1, <1>3, Views
  <2> HIDE DEF b, w
  <2>3. Unlinked(b \o w, gone) = b \o Unlinked(w, gone)
    BY <1>1, <1>2, UnlinkedBehind
  <2>4. Unlinked(<<>>, gone) = <<>>
    <3>1. PICK e \in Seq(Operations) : e = <<>> /\ Len(e) = 0
      BY EmptySeq
    <3>2. \A n \in 1 .. Len(e) : e[n] \in gone
      BY <3>1
    <3> QED BY <3>1, <3>2, UnlinkedAll
  <2> QED BY <2>1, <2>2, <2>3, <2>4
<1>4. CASE ToSet(w) \subseteq Receivers
  <2>1. Unreceived(i) = b /\ ReceivesOf(i) = w
    BY <1>4, Views
  <2>2. Unreceived(j) = b /\ ReceivesOf(j) = Unlinked(w, gone)
    BY <1>1, <1>4, Views
  <2> HIDE DEF b, w
  <2>3. Unlinked(b, gone) = b
    BY <1>1, <1>2, UnlinkedNone
  <2> QED BY <2>1, <2>2, <2>3
<1> QED BY <1>3, <1>4

\* What the promise sees of the waiters is the waiters.
LEMMA WaitersSeen ==
  ASSUME NEW i \in Impl, ToSet(i.waiters_) \subseteq Messages \/ ToSet(i.waiters_) \subseteq Receivers
  PROVE  ToSet(i.waiters_) \subseteq ToSet(Unreceived(i)) \cup ToSet(ReceivesOf(i))
<1>1. i.buffer_ \in Seq(Operations) /\ i.waiters_ \in Seq(Operations)
  BY FieldTypes
<1>2. CASE ToSet(i.waiters_) \subseteq Messages
  <2>1. PICK q \in Seq(Operations) : q = i.buffer_ \o i.waiters_ /\ q = Unreceived(i)
    BY <1>1, <1>2, Views, ConcatProperties
  <2>2. ASSUME NEW o \in ToSet(i.waiters_) PROVE o \in ToSet(q)
    <3>1. PICK n \in 1 .. Len(i.waiters_) : o = i.waiters_[n]
      BY <1>1, ElementsOf
    <3>2. Has(i.waiters_, o)
      BY <3>1 DEF Has
    <3>3. Has(i.buffer_ \o i.waiters_, o)
      BY <1>1, <3>2, ConcatHas
    <3> QED BY <2>1, <3>3, ElementsOf DEF Has
  <2> QED BY <2>1, <2>2
<1>3. CASE ToSet(i.waiters_) \subseteq Receivers
  BY <1>3, Views
<1> QED BY <1>2, <1>3

\* A step after which the operations in gone wait no more, and nothing else has changed.
LEMMA WithdrawStep ==
  ASSUME FifoInv, ~down, NEW gone, \A o \in gone : \E c \in impl_list_ : Open(c) /\ o \in Waiting(c),
         impl' \in [Channels -> Impl], \A c \in Channels \ impl_list_ : impl'[c] = impl[c],
         \A c \in impl_list_ : /\ impl'[c].buffer_ = impl[c].buffer_
                               /\ impl'[c].waiters_ = Unlinked(impl[c].waiters_, gone)
                               /\ impl'[c].max_buffer_size_ = impl[c].max_buffer_size_
                               /\ impl'[c].send_state_ = "closed" <=> impl[c].send_state_ = "closed",
         impl_list_' = impl_list_, got' = got, Accepted' = Accepted, Used' = Used
  PROVE  Promise!Next
<1>1. /\ impl \in [Channels -> Impl] /\ impl_list_ \subseteq Channels
      /\ \A c \in impl_list_ : /\ Own(impl[c], outcome)
                                /\ \/ ToSet(impl[c].waiters_) \subseteq Messages
                                   \/ ToSet(impl[c].waiters_) \subseteq Receivers
  BY BeforeStep
<1>2. \A o \in gone : outcome[o] = "waits"
  BY <1>1 DEF Own, Waiting
<1>3. gone \cap Accepted = {}
  BY <1>2 DEF Accepted
<1>4. Capacity' = Capacity /\ Shut' = Shut
  <2>1. \A c \in Channels : /\ impl'[c].max_buffer_size_ = impl[c].max_buffer_size_
                            /\ (impl'[c].send_state_ = "closed") = (impl[c].send_state_ = "closed")
    BY <1>1
  <2> QED BY <2>1 DEF Capacity, Shut
<1>5. Queue' = [c \in Channels |-> Unlinked(Queue[c], gone)] /\ Takers' = [c \in Channels |-> Unlinked(Takers[c], gone)]
  <2>1. Unlinked(<<>>, gone) = <<>>
    <3>1. PICK e \in Seq(Operations) : e = <<>> /\ Len(e) = 0
      BY EmptySeq
    <3>2. \A n \in 1 .. Len(e) : e[n] \in gone
      BY <3>1
    <3> QED BY <3>1, <3>2, UnlinkedAll
  <2>2. ASSUME NEW c \in Channels
        PROVE  /\ Queue'[c] = Unlinked(Queue[c], gone)
               /\ Takers'[c] = Unlinked(Takers[c], gone)
    <3>1. Open(c)' <=> Open(c)
      BY DEF Open
    <3>2. CASE ~Open(c)
      <4>1. Queue'[c] = <<>> /\ Takers'[c] = <<>> /\ Queue[c] = <<>> /\ Takers[c] = <<>>
        BY <3>1, <3>2 DEF Queue, Takers
      <4> QED BY <2>1, <4>1
    <3>3. CASE Open(c)
      <4>1. c \in impl_list_ /\ impl[c].send_state_ # "closed" /\ impl[c] \in Impl /\ impl'[c] \in Impl
        BY <1>1, <3>3 DEF Open
      <4>2. ToSet(impl[c].buffer_) \cap gone = {}
        <5>1. \A m \in ToSet(impl[c].buffer_) : outcome[m] = "ok"
          BY <1>1, <4>1 DEF Own
        <5> QED BY <1>2, <5>1
      <4>3. /\ Unreceived(impl'[c]) = Unlinked(Unreceived(impl[c]), gone)
            /\ ReceivesOf(impl'[c]) = Unlinked(ReceivesOf(impl[c]), gone)
        BY <1>1, <4>1, <4>2, Unlinks
      <4>4. Queue[c] = Unreceived(impl[c]) /\ Takers[c] = ReceivesOf(impl[c])
        BY <3>3 DEF Queue, Takers
      <4>5. Queue'[c] = Unreceived(impl'[c]) /\ Takers'[c] = ReceivesOf(impl'[c])
        BY <3>1, <3>3 DEF Queue, Takers
      <4> QED BY <4>3, <4>4, <4>5
    <3> QED BY <3>2, <3>3
  <2>3. DOMAIN Queue' = Channels /\ DOMAIN Takers' = Channels
        /\ Queue' = [c \in Channels |-> Queue'[c]] /\ Takers' = [c \in Channels |-> Takers'[c]]
    BY DEF Queue, Takers
  <2> QED BY <2>2, <2>3
<1>6. Promise!Withdraw(gone)
  <2>1. \A q : Promise!Unlinked(q, gone) = Unlinked(q, gone)
    BY Zenon DEF Promise!Unlinked, Unlinked
  <2> QED BY <1>3, <1>4, <1>5, <2>1 DEF Promise!Withdraw
<1>7. gone \subseteq Promise!Held
  <2>1. ASSUME NEW o \in gone PROVE o \in Promise!Held
    <3>1. PICK c \in impl_list_ : Open(c) /\ o \in ToSet(impl[c].waiters_)
      BY DEF Waiting
    <3>2. PICK q \in Seq(Operations) : q = Queue[c] /\ q = Unreceived(impl[c])
      BY <1>1, <3>1, Views DEF Queue
    <3>3. PICK t \in Seq(Operations) : t = Takers[c] /\ t = ReceivesOf(impl[c])
      BY <1>1, <3>1, Views DEF Takers
    <3>4. o \in ToSet(q) \cup ToSet(t) /\ c \in Channels
      BY <1>1, <3>1, <3>2, <3>3, WaitersSeen
    <3>5. o \in Promise!Elements(q) \cup Promise!Elements(t)
      BY <3>4, ElementsOf DEF Promise!Elements
    <3> QED BY <3>2, <3>3, <3>4, <3>5, Zenon DEF Promise!Held
  <2> QED BY <2>1
<1> QED BY <1>6, <1>7 DEF Promise!Next

\* Nobody completes but by a cancellation: to the promise, all sends are as they were.
LEMMA OnlyCancelled ==
  ASSUME FifoInv, NEW ops, \A o \in ops : outcome[o] = "waits",
         \A o \in Operations : outcome'[o] = IF o \in ops THEN outcome'[o] ELSE outcome[o],
         \A o \in Operations : o \in ops => outcome'[o] \in {"cancelled", "undefined", "abandoned"}
  PROVE  /\ Accepted' = Accepted /\ Used' = Used
         /\ \A o \in Operations : outcome'[o] # outcome[o] => o \in ops
<1>1. ASSUME NEW m \in Messages
      PROVE  /\ outcome'[m] = "ok" <=> outcome[m] = "ok"
             /\ outcome'[m] \notin {"new", "refused", "closed"} <=> outcome[m] \notin {"new", "refused", "closed"}
  <2>1. m \in Operations
    BY DEF Operations
  <2> QED BY <2>1
<1> QED BY <1>1 DEF Accepted, Used

\* When all that wait are taken out of the waiters, nobody waits.
LEMMA NobodyLeft ==
  ASSUME NEW S, NEW w \in Seq(S)
  PROVE  Unlinked(w, ToSet(w)) = <<>>
<1>1. \A n \in 1 .. Len(w) : w[n] \in ToSet(w)
  BY ElementsOf
<1> QED BY <1>1, UnlinkedAll

\* Operations of channel c complete with their cancellation.
LEMMA CancelledOrder ==
  ASSUME FifoInv, NEW c \in impl_list_, NEW ops \in SUBSET Waiting(c), NEW j \in Impl,
         j.waiters_ = Unlinked(impl[c].waiters_, ops), j.buffer_ = impl[c].buffer_,
         j.send_state_ = "closed" <=> impl[c].send_state_ = "closed",
         impl' = [impl EXCEPT ![c] = j], outcome' = Cancelled(c, ops), got' = got, down' = down,
         impl_list_' \subseteq impl_list_
  PROVE  OrderInv' /\ Accepted' = Accepted /\ Used' = Used
<1> DEFINE i == impl[c]
<1>1. /\ impl \in [Channels -> Impl] /\ impl_list_ \subseteq Channels /\ c \in Channels /\ i \in Impl
      /\ Own(i, outcome)
  BY BeforeStep
<1>2. /\ i.waiters_ \in Seq(Operations) /\ i.buffer_ \in Seq(Operations) /\ ToSet(i.waiters_) \subseteq Operations
      /\ ToSet(i.buffer_) \subseteq Operations
  BY <1>1, FieldTypes, ElementsOf
<1>3. /\ \A o \in ops : outcome[o] = "waits" /\ o \in Operations
      /\ \A o \in Operations : outcome'[o] = IF o \in ops THEN CancelOutcome(i, o) ELSE outcome[o]
  BY <1>1, <1>2 DEF Own, Waiting, Cancelled
<1>4. /\ Accepted' = Accepted /\ Used' = Used
      /\ \A o \in Operations : outcome'[o] # outcome[o] => o \in ops
  <2>1. \A o \in Operations : o \in ops => outcome'[o] \in {"cancelled", "undefined", "abandoned"}
    BY <1>3 DEF CancelOutcome
  <2>2. \A o \in Operations : outcome'[o] = IF o \in ops THEN outcome'[o] ELSE outcome[o]
    BY <1>3
  <2>3. \A o \in ops : outcome[o] = "waits"
    BY <1>3
  <2> QED BY <2>1, <2>2, <2>3, OnlyCancelled
<1>5. PICK w \in Seq(Operations) : /\ w = j.waiters_
                                   /\ \A x : Has(w, x) => Has(i.waiters_, x) /\ x \notin ops
                                   /\ \A x : AtMostOnce(i.waiters_, x) => AtMostOnce(w, x)
  BY <1>2, UnlinkedFacts
<1>6. ToSet(w) \subseteq ToSet(i.waiters_) \ ops
  <2>1. ASSUME NEW o \in ToSet(w) PROVE o \in ToSet(i.waiters_) /\ o \notin ops
    <3>1. Has(w, o)
      BY <2>1, ElementsOf DEF Has
    <3>2. Has(i.waiters_, o) /\ o \notin ops
      BY <1>5, <3>1
    <3>3. \A n \in 1 .. Len(i.waiters_) : i.waiters_[n] \in ToSet(i.waiters_)
      BY <1>2, ElementsOf
    <3> QED BY <3>2, <3>3 DEF Has
  <2> QED BY <2>1
<1>7. Own(j, outcome')
  <2>1. \A o \in ToSet(w) : outcome'[o] = "waits"
    BY <1>1, <1>2, <1>3, <1>6 DEF Own
  <2>2. ASSUME j.send_state_ # "closed", NEW m \in ToSet(i.buffer_) PROVE outcome'[m] = "ok"
    <3>1. outcome[m] = "ok" /\ m \in Operations
      BY <1>1, <1>2, <2>2 DEF Own
    <3> QED BY <1>3, <3>1
  <2> QED BY <1>1, <1>5, <2>1, <2>2 DEF Own
<1>8. ToSet(j.waiters_) \subseteq Waiting(c) /\ Waiting(c) \subseteq Operations
  BY <1>2, <1>5, <1>6 DEF Waiting
<1>9. \A r \in Receivers : outcome'[r] # "ok" => got'[r] = NoMessage
  <2>1. ASSUME NEW r \in Receivers, outcome'[r] # "ok" PROVE got[r] = NoMessage
    <3>1. r \in Operations /\ outcome[r] # "ok"
      BY <1>3, <2>1 DEF Operations
    <3> QED BY <3>1 DEF FifoInv, OrderInv
  <2> QED BY <2>1
<1>10. OrderInv'
  <2>1. \A o \in Operations : outcome'[o] # outcome[o] => c \in impl_list_ /\ o \in Waiting(c)
    BY <1>4
  <2>2. \A d \in Channels \ {c} : d \in impl_list_' => d \in impl_list_
    OBVIOUS
  <2>3. c \in impl_list_' => Own(j, outcome')
    BY <1>7
  <2>4. impl_list_' \subseteq Channels
    BY <1>1
  <2>5. ToSet(j.waiters_) \subseteq {o \in Operations : \/ ~down /\ outcome[o] = "new"
                                                        \/ c \in impl_list_ /\ o \in Waiting(c)}
    BY <1>8
  <2> QED BY <1>1, <1>9, <2>1, <2>2, <2>3, <2>4, <2>5, OrderStep
<1> QED BY <1>4, <1>10

\* ... which the promise sees as operations that give up.
LEMMA CancelledStep ==
  ASSUME FifoInv, ~down, NEW c \in impl_list_, NEW ops \in SUBSET Waiting(c), NEW j \in Impl,
         j.waiters_ = Unlinked(impl[c].waiters_, ops), j.buffer_ = impl[c].buffer_,
         j.send_state_ = "closed" <=> impl[c].send_state_ = "closed",
         j.max_buffer_size_ = impl[c].max_buffer_size_,
         impl' = [impl EXCEPT ![c] = j], outcome' = Cancelled(c, ops), got' = got, down' = down,
         impl_list_' = impl_list_
  PROVE  OrderInv' /\ Promise!Next
<1>1. /\ impl \in [Channels -> Impl] /\ impl_list_ \subseteq Channels /\ c \in Channels
      /\ Sound(impl[c])
  BY BeforeStep
<1>2. OrderInv' /\ Accepted' = Accepted /\ Used' = Used
  BY CancelledOrder
<1>3. impl' \in [Channels -> Impl] /\ impl'[c] = j /\ \A d \in Channels \ {c} : impl'[d] = impl[d]
  BY <1>1
<1>4. \A o \in ops : Open(c) /\ o \in Waiting(c)
  <2>1. impl[c].waiters_ = <<>> => Waiting(c) = {}
    BY <1>1, KindsApart DEF Waiting
  <2>2. ops # {} => impl[c].send_state_ # "closed"
    BY <1>1, <2>1 DEF Sound, StatesDescribe
  <2> QED BY <2>2 DEF Open
<1>5. ASSUME NEW d \in impl_list_
      PROVE  /\ impl'[d].buffer_ = impl[d].buffer_
             /\ impl'[d].waiters_ = Unlinked(impl[d].waiters_, ops)
             /\ impl'[d].max_buffer_size_ = impl[d].max_buffer_size_
             /\ impl'[d].send_state_ = "closed" <=> impl[d].send_state_ = "closed"
  <2>1. CASE d = c
    BY <1>3, <2>1
  <2>2. CASE d # c
    <3>1. PICK i \in Impl : i = impl[d] /\ i = impl'[d]
      BY <1>1, <1>3, <2>2
    <3>2. i.waiters_ \in Seq(Operations)
      BY FieldTypes
    <3>3. ToSet(i.waiters_) \cap ops = {}
      BY <2>2, <3>1 DEF FifoInv, OrderInv, Waiting
    <3>4. \A n \in 1 .. Len(i.waiters_) : i.waiters_[n] \notin ops
      BY <3>2, <3>3, ElementsOf
    <3>5. Unlinked(i.waiters_, ops) = i.waiters_
      BY <3>2, <3>4, UnlinkedNone
    <3> QED BY <3>1, <3>5
  <2> QED BY <2>1, <2>2
<1>6. \A d \in Channels \ impl_list_ : impl'[d] = impl[d]
  BY <1>3
<1>7. Promise!Next
  BY <1>2, <1>3, <1>4, <1>5, <1>6, WithdrawStep
<1> QED BY <1>2, <1>7

\* What a channel is like when nobody waits any more.
LEMMA NoWaiterFacts ==
  ASSUME NEW i \in Impl
  PROVE  \E j \in Impl : /\ j = NoWaiter([i EXCEPT !.waiters_ = <<>>])
                         /\ j.waiters_ = <<>> /\ j.buffer_ = i.buffer_
                         /\ j.max_buffer_size_ = i.max_buffer_size_
                         /\ j.send_state_ = "closed" <=> i.send_state_ = "closed"
<1>1. PICK e : e = <<>> /\ e \in Seq(Operations)
  BY NoneWaits
<1>2. PICK j : j = NoWaiter([i EXCEPT !.waiters_ = e])
  OBVIOUS
<1>3. /\ j \in Impl /\ j.waiters_ = e /\ j.buffer_ = i.buffer_ /\ j.max_buffer_size_ = i.max_buffer_size_
      /\ j.send_state_ = (IF i.send_state_ = "waiter" THEN "block" ELSE i.send_state_)
  BY <1>1, <1>2 DEF NoWaiter, Impl, States
<1> QED BY <1>1, <1>2, <1>3

\* cancel(), and reset() before it releases the mutex.
LEMMA CancelSeen ==
  ASSUME FifoInv, NEW c \in Channels, Cancel(c) \/ ResetCancel(c)
  PROVE  OrderInv' /\ Promise!Next
<1>1. c \in impl_list_ /\ ~down /\ impl[c] \in Impl
  BY BeforeStep DEF Cancel, ResetCancel, Usable
<1>2. PICK j \in Impl : /\ j = CancelAll(c) /\ j.waiters_ = <<>> /\ j.buffer_ = impl[c].buffer_
                        /\ j.max_buffer_size_ = impl[c].max_buffer_size_
                        /\ j.send_state_ = "closed" <=> impl[c].send_state_ = "closed"
  BY <1>1, NoWaiterFacts DEF CancelAll
<1>3. Unlinked(impl[c].waiters_, Waiting(c)) = <<>>
  BY <1>1, FieldTypes, NobodyLeft DEF Waiting
<1>4. /\ impl' = [impl EXCEPT ![c] = j] /\ outcome' = Cancelled(c, Waiting(c))
      /\ got' = got /\ down' = down /\ impl_list_' = impl_list_
  BY <1>2 DEF Cancel, ResetCancel
<1>5. PICK ops \in SUBSET Waiting(c) : ops = Waiting(c)
  OBVIOUS
<1> QED BY <1>1, <1>2, <1>3, <1>4, <1>5, CancelledStep

\* cancel_by_key
LEMMA CancelByKeySeen ==
  ASSUME FifoInv, NEW c \in Channels, NEW o \in Operations, CancelByKey(c, o)
  PROVE  OrderInv' /\ Promise!Next
<1>1. c \in impl_list_ /\ ~down /\ impl[c] \in Impl /\ impl[c].waiters_ \in Seq(Operations)
  BY BeforeStep DEF CancelByKey, Usable, Impl
<1>2. PICK w \in Seq(Operations) : w = Unlinked(impl[c].waiters_, {o})
  BY <1>1, UnlinkedFacts
<1>3. PICK left \in Impl : /\ left = [impl[c] EXCEPT !.waiters_ = w] /\ left.waiters_ = w
                           /\ left.buffer_ = impl[c].buffer_ /\ left.send_state_ = impl[c].send_state_
                           /\ left.max_buffer_size_ = impl[c].max_buffer_size_
  <2>1. PICK l : l = [impl[c] EXCEPT !.waiters_ = w]
    OBVIOUS
  <2>2. /\ l \in Impl /\ l.waiters_ = w /\ l.buffer_ = impl[c].buffer_
        /\ l.send_state_ = impl[c].send_state_ /\ l.max_buffer_size_ = impl[c].max_buffer_size_
    BY <1>1, <2>1 DEF Impl
  <2> QED BY <2>1, <2>2
<1>4. PICK j \in Impl : /\ j = IF w = <<>> THEN NoWaiter(left) ELSE left
                        /\ j.waiters_ = w /\ j.buffer_ = impl[c].buffer_
                        /\ j.max_buffer_size_ = impl[c].max_buffer_size_
                        /\ j.send_state_ = "closed" <=> impl[c].send_state_ = "closed"
  <2>1. CASE w = <<>>
    <3>1. [left EXCEPT !.waiters_ = <<>>] = left
      BY <1>3, <2>1 DEF Impl
    <3>2. PICK j \in Impl : /\ j = NoWaiter([left EXCEPT !.waiters_ = <<>>])
                            /\ j.waiters_ = <<>> /\ j.buffer_ = left.buffer_
                            /\ j.max_buffer_size_ = left.max_buffer_size_
                            /\ j.send_state_ = "closed" <=> left.send_state_ = "closed"
      BY NoWaiterFacts
    <3>3. j = NoWaiter(left) /\ j.waiters_ = w
      BY <2>1, <3>1, <3>2
    <3> QED BY <1>3, <2>1, <3>2, <3>3
  <2>2. CASE w # <<>>
    BY <1>3, <2>2
  <2> QED BY <2>1, <2>2
<1>5. /\ impl' = [impl EXCEPT ![c] = j] /\ outcome' = Cancelled(c, {o})
      /\ got' = got /\ down' = down /\ impl_list_' = impl_list_ /\ o \in Waiting(c)
  BY <1>2, <1>3, <1>4 DEF CancelByKey
<1>6. PICK ops \in SUBSET Waiting(c) : ops = {o}
  BY <1>5
<1> QED BY <1>1, <1>2, <1>4, <1>5, <1>6, CancelledStep

\* The destructor.
LEMMA DestroySeen ==
  ASSUME FifoInv, NEW c \in Channels, Destroy(c)
  PROVE  OrderInv' /\ Promise!Next
<1>1. c \in impl_list_ /\ impl[c] \in Impl
  BY BeforeStep DEF Destroy, Destructible
<1>2. PICK j \in Impl : /\ j = CancelAll(c) /\ j.waiters_ = <<>> /\ j.buffer_ = impl[c].buffer_
                        /\ j.max_buffer_size_ = impl[c].max_buffer_size_
                        /\ j.send_state_ = "closed" <=> impl[c].send_state_ = "closed"
  BY <1>1, NoWaiterFacts DEF CancelAll
<1>3. Unlinked(impl[c].waiters_, Waiting(c)) = <<>>
  BY <1>1, FieldTypes, NobodyLeft DEF Waiting
<1>4. /\ impl' = [impl EXCEPT ![c] = j] /\ outcome' = Cancelled(c, Waiting(c))
      /\ got' = got /\ down' = down /\ impl_list_' = impl_list_ \ {c}
  BY <1>2 DEF Destroy
<1>5. OrderInv' /\ Accepted' = Accepted /\ Used' = Used
  <2>1. PICK ops \in SUBSET Waiting(c) : ops = Waiting(c)
    OBVIOUS
  <2>2. impl_list_' \subseteq impl_list_
    BY <1>4
  <2> QED BY <1>1, <1>2, <1>3, <1>4, <2>1, <2>2, CancelledOrder
<1>6. /\ Capacity' = [Capacity EXCEPT ![c] = j.max_buffer_size_]
      /\ Shut' = [Shut EXCEPT ![c] = (j.send_state_ = "closed")]
      /\ Queue' = [Queue EXCEPT ![c] = <<>>] /\ Takers' = [Takers EXCEPT ![c] = <<>>]
  <2>1. c \notin impl_list_' /\ \A d \in Channels \ {c} : d \in impl_list_' <=> d \in impl_list_
    BY <1>4
  <2> QED BY <1>4, <2>1, ViewStep DEF FifoInv
<1>7. Capacity' = Capacity /\ Shut' = Shut
  <2>1. Capacity = [Capacity EXCEPT ![c] = impl[c].max_buffer_size_]
    BY DEF Capacity
  <2>2. Shut = [Shut EXCEPT ![c] = (impl[c].send_state_ = "closed")]
    BY DEF Shut
  <2>3. (j.send_state_ = "closed") = (impl[c].send_state_ = "closed")
    BY <1>2
  <2> QED BY <1>2, <1>6, <2>1, <2>2, <2>3
<1>8. Promise!Destroy(c)
  BY <1>4, <1>5, <1>6, <1>7 DEF Promise!Destroy
<1> QED BY <1>5, <1>8 DEF Promise!Next

\* A channel with nobody waiting.
LEMMA EmptyViews ==
  ASSUME NEW i \in Impl, i.waiters_ = <<>>
  PROVE  Unreceived(i) = i.buffer_ /\ ReceivesOf(i) = <<>>
<1>1. ToSet(i.waiters_) = {}
  BY NoneWaits
<1> QED BY <1>1, Views

\* The channels a constructor, reset() and a move leave.
LEMMA ConstructedViews ==
  ASSUME NEW n \in Capacities \cup {0}, NEW out
  PROVE  \E j \in Impl : /\ j = Constructed(n) /\ j.max_buffer_size_ = n /\ j.send_state_ # "closed"
                         /\ Unreceived(j) = <<>> /\ ReceivesOf(j) = <<>> /\ ToSet(j.waiters_) = {}
                         /\ Own(j, out)
<1>1. PICK e \in Seq(Operations) : e = <<>> /\ ToSet(e) = {} /\ Len(e) = 0
  BY NoneWaits, EmptySeq
<1>2. PICK j \in Impl : j = Constructed(n)
  BY ConstructedSound
<1>3. j.waiters_ = e /\ j.buffer_ = e /\ j.send_state_ # "closed" /\ j.max_buffer_size_ = n
  BY <1>1, <1>2 DEF Constructed, InitialSend
<1>4. Unreceived(j) = <<>> /\ ReceivesOf(j) = <<>>
  BY <1>1, <1>3, EmptyViews
<1>5. Own(j, out)
  BY <1>1, <1>3 DEF Own, AtMostOnce
<1> QED BY <1>1, <1>2, <1>3, <1>4, <1>5

\* The constructor.
LEMMA ConstructSeen ==
  ASSUME FifoInv, NEW c \in Channels, NEW n \in Capacities, Construct(c, n)
  PROVE  OrderInv' /\ Promise!Next
<1>1. PICK j \in Impl : /\ j = Constructed(n) /\ j.max_buffer_size_ = n /\ j.send_state_ # "closed"
                        /\ Unreceived(j) = <<>> /\ ReceivesOf(j) = <<>> /\ ToSet(j.waiters_) = {}
                        /\ Own(j, outcome)
  BY ConstructedViews
<1>2. /\ c \notin impl_list_ /\ impl_list_' = impl_list_ \cup {c} /\ impl' = [impl EXCEPT ![c] = j]
      /\ outcome' = outcome /\ got' = got /\ down' = down /\ impl_list_ \subseteq Channels
  BY <1>1, BeforeStep DEF Construct
<1>3. OrderInv'
  <2>1. /\ \A d \in Channels \ {c} : d \in impl_list_' => d \in impl_list_
        /\ impl_list_' \subseteq Channels
        /\ \A r \in Receivers : outcome'[r] # "ok" => got'[r] = NoMessage
    BY <1>2 DEF FifoInv, OrderInv
  <2> QED BY <1>1, <1>2, <2>1, OrderStep
<1>4. /\ Capacity' = [Capacity EXCEPT ![c] = n] /\ Shut' = [Shut EXCEPT ![c] = FALSE]
      /\ Queue' = [Queue EXCEPT ![c] = <<>>] /\ Takers' = [Takers EXCEPT ![c] = <<>>]
  <2>1. c \in impl_list_' /\ \A d \in Channels \ {c} : d \in impl_list_' <=> d \in impl_list_
    BY <1>2
  <2>2. /\ Capacity' = [Capacity EXCEPT ![c] = j.max_buffer_size_] /\ Shut' = [Shut EXCEPT ![c] = FALSE]
        /\ Queue' = [Queue EXCEPT ![c] = Unreceived(j)] /\ Takers' = [Takers EXCEPT ![c] = ReceivesOf(j)]
    BY <1>1, <1>2, <2>1, ViewOpen
  <2> QED BY <1>1, <2>2
<1>5. Queue = [Queue EXCEPT ![c] = <<>>] /\ Takers = [Takers EXCEPT ![c] = <<>>]
  BY <1>2 DEF Queue, Takers, Open
<1>6. Accepted' = Accepted /\ Used' = Used
  BY <1>2 DEF Accepted, Used
<1>7. Promise!Construct(c, n)
  BY <1>2, <1>4, <1>5, <1>6 DEF Promise!Construct
<1> QED BY <1>3, <1>7 DEF Promise!Next

\* reset() of a closed channel, after its cancel().
LEMMA ResetClearSeen ==
  ASSUME FifoInv, NEW c \in Channels, ResetClear(c)
  PROVE  OrderInv' /\ Promise!Next
<1>1. /\ impl \in [Channels -> Impl] /\ impl_list_ \subseteq Channels /\ c \in impl_list_
      /\ impl[c].send_state_ = "closed" /\ impl[c].max_buffer_size_ \in Capacities \cup {0}
  BY BeforeStep DEF FifoInv, ChannelInv, ResetClear, Impl
<1>2. PICK j \in Impl : /\ j = Constructed(impl[c].max_buffer_size_)
                        /\ j.max_buffer_size_ = impl[c].max_buffer_size_ /\ j.send_state_ # "closed"
                        /\ Unreceived(j) = <<>> /\ ReceivesOf(j) = <<>> /\ ToSet(j.waiters_) = {}
                        /\ Own(j, outcome)
  BY <1>1, ConstructedViews
<1>3. /\ impl' = [impl EXCEPT ![c] = j] /\ outcome' = outcome /\ got' = got /\ down' = down
      /\ impl_list_' = impl_list_
  <2>1. impl'[c] = j
    BY <1>2, ResetClearStep DEF FifoInv
  <2> QED BY <1>1, <2>1 DEF ResetClear
<1>4. OrderInv'
  <2>1. \A r \in Receivers : outcome'[r] # "ok" => got'[r] = NoMessage
    BY <1>3 DEF FifoInv, OrderInv
  <2> QED BY <1>1, <1>2, <1>3, <2>1, OrderStep
<1>5. /\ Capacity' = [Capacity EXCEPT ![c] = impl[c].max_buffer_size_] /\ Shut' = [Shut EXCEPT ![c] = FALSE]
      /\ Queue' = [Queue EXCEPT ![c] = <<>>] /\ Takers' = [Takers EXCEPT ![c] = <<>>]
  <2>1. /\ Capacity' = [Capacity EXCEPT ![c] = j.max_buffer_size_] /\ Shut' = [Shut EXCEPT ![c] = FALSE]
        /\ Queue' = [Queue EXCEPT ![c] = Unreceived(j)] /\ Takers' = [Takers EXCEPT ![c] = ReceivesOf(j)]
    BY <1>1, <1>2, <1>3, ViewOpen
  <2> QED BY <1>2, <2>1
<1>6. /\ Queue = [Queue EXCEPT ![c] = <<>>] /\ Takers = [Takers EXCEPT ![c] = <<>>]
      /\ Capacity = [Capacity EXCEPT ![c] = impl[c].max_buffer_size_] /\ Shut[c]
  BY <1>1 DEF Queue, Takers, Open, Capacity, Shut
<1>7. Accepted' = Accepted /\ Used' = Used
  BY <1>3 DEF Accepted, Used
<1>8. Promise!Reset(c)
  BY <1>3, <1>5, <1>6, <1>7 DEF Promise!Reset
<1> QED BY <1>4, <1>8 DEF Promise!Next

\* close(), no send waiting.
LEMMA CloseSeen ==
  ASSUME FifoInv, Uses \cap Unsafe = {}, NEW c \in Channels, Close(c)
  PROVE  OrderInv' /\ Promise!Next
<1> DEFINE i == impl[c]
<1>1. /\ impl \in [Channels -> Impl] /\ impl_list_ \subseteq Channels /\ c \in impl_list_ /\ ~down
      /\ Sound(i) /\ i \in Impl /\ Waiting(c) \cap Messages = {} /\ Own(i, outcome)
  <2>1. Usable(c) /\ ~SendersWait(c)
    BY DEF Close, Unsafe
  <2> QED BY <2>1, BeforeStep DEF Usable, SendersWait
<1>2. PICK e \in Seq(Operations) : e = <<>> /\ ToSet(e) = {} /\ Len(e) = 0
  BY NoneWaits, EmptySeq
<1>3. i.receive_state_ = "block" \/ i.waiters_ = <<>>
  <2>1. ToSet(i.waiters_) \subseteq Messages \cup Receivers /\ (i.waiters_ = <<>> <=> ToSet(i.waiters_) = {})
    BY <1>1, KindsApart
  <2> QED BY <1>1, <2>1 DEF Sound, StatesDescribe, Waiting
<1>4. PICK j : j = Closed(i)
  OBVIOUS
<1>5. j \in Impl /\ j.waiters_ = e /\ j.send_state_ = "closed" /\ j.max_buffer_size_ = i.max_buffer_size_
  BY <1>1, <1>2, <1>3, <1>4 DEF Impl, States, Closed, ClosesWaiters
<1>6. /\ impl' = [impl EXCEPT ![c] = j] /\ got' = got /\ down' = down /\ impl_list_' = impl_list_
      /\ \A o \in Operations : outcome'[o] # outcome[o] => o \in Waiting(c) /\ outcome'[o] = "closed"
  BY <1>4 DEF Close
<1>7. /\ \A o \in Waiting(c) : outcome[o] = "waits"
      /\ \A m \in Messages : outcome'[m] = outcome[m]
  BY <1>1, <1>6 DEF Own, Waiting, Operations
<1>8. OrderInv'
  <2>1. Own(j, outcome')
    BY <1>2, <1>5 DEF Own, AtMostOnce
  <2>2. ASSUME NEW r \in Receivers, outcome'[r] # "ok" PROVE got'[r] = NoMessage
    <3>1. outcome[r] # "ok"
      BY <1>6, <1>7, <2>2 DEF Operations
    <3> QED BY <1>6, <3>1 DEF FifoInv, OrderInv
  <2> QED BY <1>1, <1>2, <1>5, <1>6, <2>1, <2>2, OrderStep
<1>9. /\ Capacity' = [Capacity EXCEPT ![c] = i.max_buffer_size_] /\ Shut' = [Shut EXCEPT ![c] = TRUE]
      /\ Queue' = [Queue EXCEPT ![c] = <<>>] /\ Takers' = [Takers EXCEPT ![c] = <<>>]
  <2>1. /\ Capacity' = [Capacity EXCEPT ![c] = j.max_buffer_size_] /\ Shut' = [Shut EXCEPT ![c] = TRUE]
        /\ Queue' = [Queue EXCEPT ![c] = <<>>] /\ Takers' = [Takers EXCEPT ![c] = <<>>]
    BY <1>5, <1>6, ViewClosed
  <2> QED BY <1>5, <2>1
<1>10. Capacity = [Capacity EXCEPT ![c] = i.max_buffer_size_]
  BY DEF Capacity
<1>11. Accepted' = Accepted /\ Used' = Used
  BY <1>7 DEF Accepted, Used
<1>12. Promise!Close(c)
  BY <1>6, <1>9, <1>10, <1>11 DEF Promise!Close
<1> QED BY <1>8, <1>12 DEF Promise!Next

\* Both moves, nobody waiting on the channel that is moved.
LEMMA MoveSeen ==
  ASSUME FifoInv, Uses \cap Unsafe = {}, NEW c \in Channels, NEW d \in Channels,
         MoveConstruct(c, d) \/ MoveAssign(c, d)
  PROVE  OrderInv' /\ Promise!Next
<1> DEFINE i == impl[c]
           ops == IF d \in impl_list_ THEN Waiting(d) ELSE {}
<1>1. /\ impl \in [Channels -> Impl] /\ impl_list_ \subseteq Channels /\ c \in impl_list_ /\ ~down
      /\ i \in Impl /\ i.waiters_ = <<>> /\ c # d /\ i.max_buffer_size_ \in Capacities \cup {0}
      /\ \A e \in impl_list_ : Own(impl[e], outcome)
  BY BeforeStep DEF MoveConstruct, MoveAssign, MayMove, Usable, Unsafe, Impl
<1>2. PICK j \in Impl : /\ j = Constructed(i.max_buffer_size_)
                        /\ j.max_buffer_size_ = i.max_buffer_size_ /\ j.send_state_ # "closed"
                        /\ Unreceived(j) = <<>> /\ ReceivesOf(j) = <<>> /\ ToSet(j.waiters_) = {}
                        /\ Own(j, outcome')
  BY <1>1, ConstructedViews
<1>3. MovedTo(i) = i
  <2>1. PICK k : k = MovedTo(i)
    OBVIOUS
  <2>2. k = i
    BY <1>1, <2>1 DEF MovedTo, Impl
  <2> QED BY <2>1, <2>2
<1>4. MovedFrom(i) = j
  <2>1. PICK k : k = MovedFrom(i)
    OBVIOUS
  <2>2. PICK n : n = i.max_buffer_size_
    OBVIOUS
  <2>3. PICK x \in Impl : x = i /\ x.waiters_ = <<>> /\ x.max_buffer_size_ = n
    BY <1>1, <2>2
  <2>4. k = [x EXCEPT !.receive_state_ = "block", !.send_state_ = InitialSend(n), !.buffer_ = <<>>]
    BY <2>1, <2>2, <2>3 DEF MovedFrom
  <2>5. k = Constructed(n)
    BY <2>3, <2>4 DEF Constructed, Impl
  <2> QED BY <1>2, <2>1, <2>2, <2>5
<1>5. /\ impl' = [impl EXCEPT ![d] = i, ![c] = j] /\ impl_list_' = impl_list_ \cup {d}
      /\ got' = got /\ down' = down
      /\ \A o \in Operations : outcome'[o] # outcome[o] =>
            o \in ops /\ outcome'[o] \in {"cancelled", "undefined", "abandoned"}
  BY <1>1, <1>3, <1>4 DEF MoveConstruct, MoveAssign, Cancelled, CancelOutcome
<1>6. impl'[c] = j /\ impl'[d] = i /\ \A e \in Channels \ {c, d} : impl'[e] = impl[e]
  BY <1>1, <1>5
<1>7. \A o \in ops : outcome[o] = "waits"
  BY <1>1 DEF Own, Waiting
<1>8. Accepted' = Accepted /\ Used' = Used
  <2>1. /\ \A o \in Operations : outcome'[o] = IF o \in ops THEN outcome'[o] ELSE outcome[o]
        /\ \A o \in Operations \cap ops : outcome'[o] = outcome[o] \/ outcome'[o] \in {"cancelled", "undefined", "abandoned"}
    BY <1>5
  <2>2. ASSUME NEW m \in Messages
        PROVE  /\ outcome'[m] = "ok" <=> outcome[m] = "ok"
               /\ outcome'[m] \notin {"new", "refused", "closed"} <=> outcome[m] \notin {"new", "refused", "closed"}
    BY <1>7, <2>1 DEF Operations
  <2> QED BY <2>2 DEF Accepted, Used
<1>9. ASSUME NEW e \in impl_list_, e # d PROVE Own(impl[e], outcome')
  <2>1. PICK k : k = impl[e] /\ k \in Impl /\ Own(k, outcome)
    BY <1>1
  <2>2. ToSet(k.waiters_) \subseteq Operations /\ ToSet(k.buffer_) \subseteq Operations
    BY <2>1, FieldTypes, ElementsOf
  <2>3. ToSet(k.waiters_) \cap ops = {}
    BY <1>9, <2>1 DEF FifoInv, OrderInv, Waiting
  <2>4. \A o \in ToSet(k.waiters_) : outcome'[o] = "waits"
    BY <1>5, <2>1, <2>2, <2>3 DEF Own
  <2>5. k.send_state_ # "closed" => \A m \in ToSet(k.buffer_) : outcome'[m] = "ok"
    BY <1>5, <1>7, <2>1, <2>2 DEF Own
  <2> QED BY <2>1, <2>4, <2>5 DEF Own
<1>10. ToSet(i.waiters_) = {}
  BY <1>1, NoneWaits
<1>11. OrderInv'
  <2>1. ASSUME NEW e \in impl_list_' PROVE Own(impl'[e], outcome')
    BY <1>1, <1>2, <1>5, <1>6, <1>9
  <2>2. \A e, f \in impl_list_' : e # f => (ToSet(impl[e].waiters_) \cap ToSet(impl[f].waiters_) = {})'
    <3> TAKE e \in impl_list_', f \in impl_list_'
    <3> HAVE e # f
    <3>1. CASE {e, f} \cap {c, d} # {}
      BY <1>2, <1>6, <1>10, <3>1
    <3>2. CASE {e, f} \cap {c, d} = {}
      <4>1. impl'[e] = impl[e] /\ impl'[f] = impl[f] /\ e \in impl_list_ /\ f \in impl_list_
        BY <1>1, <1>5, <1>6, <3>2
      <4>2. ToSet(impl[e].waiters_) \cap ToSet(impl[f].waiters_) = {}
        BY <4>1 DEF FifoInv, OrderInv, Waiting
      <4> QED BY <4>1, <4>2
    <3> QED BY <3>1, <3>2
  <2>3. ASSUME NEW r \in Receivers, outcome'[r] # "ok" PROVE got'[r] = NoMessage
    <3>1. outcome[r] # "ok"
      BY <1>5, <1>7, <2>3 DEF Operations
    <3> QED BY <1>5, <3>1 DEF FifoInv, OrderInv
  <2> QED BY <1>1, <1>5, <2>1, <2>2, <2>3 DEF OrderInv, Waiting
<1>12. /\ Unreceived(i) = i.buffer_ /\ ReceivesOf(i) = <<>>
  BY <1>1, EmptyViews
<1>13. Promise!Move(c, d)
  <2>1. Capacity' = [Capacity EXCEPT ![d] = Capacity[c]]
    BY <1>1, <1>2, <1>6 DEF Capacity
  <2>2. Queue' = [Queue EXCEPT ![d] = Queue[c], ![c] = <<>>]
    BY <1>1, <1>2, <1>5, <1>6 DEF Queue, Open
  <2>3. Takers' = [Takers EXCEPT ![d] = Takers[c], ![c] = <<>>]
    BY <1>1, <1>2, <1>5, <1>6 DEF Takers, Open
  <2>4. Shut' = [Shut EXCEPT ![d] = Shut[c], ![c] = FALSE]
    <3>1. \A e \in Channels : Shut'[e] = (impl'[e].send_state_ = "closed")
      BY DEF Shut
    <3>2. Shut'[c] = FALSE /\ Shut'[d] = Shut[c] /\ \A e \in Channels \ {c, d} : Shut'[e] = Shut[e]
      BY <1>1, <1>2, <1>6 DEF Shut
    <3>3. Shut' = [e \in Channels |-> Shut'[e]] /\ Shut = [e \in Channels |-> Shut[e]]
      BY DEF Shut
    <3> QED BY <1>1, <3>2, <3>3
  <2> QED BY <1>1, <1>5, <1>8, <2>1, <2>2, <2>3, <2>4 DEF Promise!Move
<1>14. d \in Channels \ {c} /\ c \in Channels
  BY <1>1
<1> QED BY <1>11, <1>13, <1>14 DEF Promise!Next

\* shutdown(): all that wait are abandoned.
LEMMA ShutdownSeen ==
  ASSUME FifoInv, Shutdown
  PROVE  OrderInv' /\ Promise!Next
<1> DEFINE gone == {o \in Operations : \E c \in impl_list_ : o \in Waiting(c)}
<1>1. /\ impl \in [Channels -> Impl] /\ impl_list_ \subseteq Channels /\ ~down
      /\ \A c \in impl_list_ : Own(impl[c], outcome) /\ Sound(impl[c]) /\ impl[c] \in Impl
  BY BeforeStep DEF Shutdown
<1>2. PICK e : e = <<>> /\ e \in Seq(Operations) /\ ToSet(e) = {} /\ Len(e) = 0
  BY NoneWaits, EmptySeq
<1>3. /\ impl' = [c \in Channels |-> IF c \in impl_list_ THEN [impl[c] EXCEPT !.waiters_ = e] ELSE impl[c]]
      /\ impl_list_' = impl_list_ /\ got' = got /\ down' = TRUE
      /\ \A o \in Operations : outcome'[o] = IF o \in gone THEN "abandoned" ELSE outcome[o]
  BY <1>2 DEF Shutdown
<1>4. /\ impl' \in [Channels -> Impl] /\ \A c \in Channels \ impl_list_ : impl'[c] = impl[c]
      /\ \A c \in impl_list_ : /\ impl'[c].waiters_ = e /\ impl'[c].buffer_ = impl[c].buffer_
                               /\ impl'[c].send_state_ = impl[c].send_state_
                               /\ impl'[c].max_buffer_size_ = impl[c].max_buffer_size_
  <2>1. ASSUME NEW c \in impl_list_
        PROVE  \E j \in Impl : /\ j = [impl[c] EXCEPT !.waiters_ = e] /\ j.waiters_ = e
                               /\ j.buffer_ = impl[c].buffer_ /\ j.send_state_ = impl[c].send_state_
                               /\ j.max_buffer_size_ = impl[c].max_buffer_size_
    <3>1. PICK j : j = [impl[c] EXCEPT !.waiters_ = e]
      OBVIOUS
    <3>2. /\ j \in Impl /\ j.waiters_ = e /\ j.buffer_ = impl[c].buffer_ /\ j.send_state_ = impl[c].send_state_
          /\ j.max_buffer_size_ = impl[c].max_buffer_size_
      BY <1>1, <1>2, <3>1 DEF Impl
    <3> QED BY <3>1, <3>2
  <2> QED BY <1>1, <1>3, <2>1
<1>5. \A o \in gone : outcome[o] = "waits"
  BY <1>1 DEF Own, Waiting
<1>6. Accepted' = Accepted /\ Used' = Used
  <2>1. \A o \in Operations : o \in gone => outcome'[o] \in {"cancelled", "undefined", "abandoned"}
    BY <1>3
  <2>2. \A o \in Operations : outcome'[o] = IF o \in gone THEN outcome'[o] ELSE outcome[o]
    BY <1>3
  <2> HIDE DEF gone
  <2> QED BY <1>5, <2>1, <2>2, OnlyCancelled
<1>7. ASSUME NEW c \in impl_list_
      PROVE  /\ ToSet(impl[c].waiters_) \subseteq gone
             /\ impl[c].send_state_ = "closed" => ToSet(impl[c].waiters_) = {}
             /\ impl'[c].waiters_ = Unlinked(impl[c].waiters_, gone)
  <2>1. impl[c].waiters_ \in Seq(Operations)
    BY <1>1, FieldTypes
  <2>2. ToSet(impl[c].waiters_) \subseteq gone
    BY <2>1, ElementsOf DEF Waiting
  <2>3. \A n \in 1 .. Len(impl[c].waiters_) : impl[c].waiters_[n] \in gone
    BY <2>1, <2>2, ElementsOf
  <2>4. Unlinked(impl[c].waiters_, gone) = <<>>
    BY <2>1, <2>3, UnlinkedAll
  <2>5. impl[c].send_state_ = "closed" => ToSet(impl[c].waiters_) = {}
    BY <1>1, KindsApart DEF Sound, StatesDescribe
  <2> QED BY <1>2, <1>4, <2>2, <2>4, <2>5
<1>8. \A o \in gone : \E c \in impl_list_ : Open(c) /\ o \in Waiting(c)
  BY <1>7 DEF Open, Waiting
<1>9. Promise!Next
  <2>1. ~down /\ impl_list_' = impl_list_ /\ got' = got
    BY <1>1, <1>3
  <2> HIDE DEF gone
  <2> QED BY <1>4, <1>6, <1>7, <1>8, <2>1, WithdrawStep
<1>10. OrderInv'
  <2>1. ASSUME NEW c \in impl_list_ PROVE Own(impl'[c], outcome')
    <3>1. PICK i : i = impl[c] /\ Own(i, outcome) /\ i \in Impl
      BY <1>1
    <3>2. ToSet(i.buffer_) \subseteq Operations
      BY <3>1, FieldTypes, ElementsOf
    <3>3. i.send_state_ # "closed" => \A m \in ToSet(i.buffer_) : outcome'[m] = "ok"
      BY <1>3, <1>5, <3>1, <3>2 DEF Own
    <3>4. PICK j : j = impl'[c] /\ j.waiters_ = e /\ j.buffer_ = i.buffer_ /\ j.send_state_ = i.send_state_
      BY <1>4, <3>1
    <3>5. \A x \in Operations : AtMostOnce(e, x)
      BY <1>2 DEF AtMostOnce
    <3>6. Own(j, outcome')
      BY <1>2, <3>3, <3>4, <3>5 DEF Own
    <3> QED BY <3>4, <3>6
  <2>2. \A c \in impl_list_ : ToSet(impl'[c].waiters_) = {}
    BY <1>2, <1>4
  <2>3. ASSUME NEW r \in Receivers, outcome'[r] # "ok" PROVE got'[r] = NoMessage
    <3>1. outcome[r] # "ok"
      BY <1>3, <1>5, <2>3 DEF Operations
    <3> QED BY <1>3, <3>1 DEF FifoInv, OrderInv
  <2> QED BY <1>3, <2>1, <2>2, <2>3 DEF OrderInv, Waiting
<1> QED BY <1>9, <1>10

-----------------------------------------------------------------------------
(* The steps of the promise: messages are sent.                            *)

\* The promise counts the same way.
LEMMA SameCount == ASSUME NEW S PROVE Promise!Cardinality(S) = Cardinality(S)
BY Zenon DEF Promise!Cardinality, Cardinality

\* As many messages as are numbered, if no two are the same.
LEMMA SentCount ==
  ASSUME NEW k \in Nat, NEW ms \in [1 .. k -> Messages], \A x, y \in 1 .. k : ms[x] = ms[y] => x = y
  PROVE  /\ Cardinality({ms[x] : x \in 1 .. k}) = k
         /\ k <= Cardinality(Messages) /\ Cardinality(Messages) \in Nat
<1>1. IsFiniteSet(Messages)
  BY ConstantsAssumption
<1>2. PICK R : R = {ms[x] : x \in 1 .. k}
  OBVIOUS
<1>3. \A v : v \in R <=> \E x \in 1 .. k : v = ms[x]
  BY <1>2
<1>4. Cardinality(R) = k /\ k <= Cardinality(Messages)
  BY <1>1, <1>3, CountDistinct
<1>5. Cardinality(Messages) \in Nat
  BY <1>1, FS_CardinalityType
<1> QED BY <1>2, <1>4, <1>5

\* The k messages ms are accepted by channel c, which is j afterwards: the first h are handed
\* over, the others follow what is there.
Sends(c, j, k, ms, h) ==
    /\ Open(c) /\ impl' = [impl EXCEPT ![c] = j] /\ j.send_state_ # "closed" /\ impl_list_' = impl_list_
    /\ j.max_buffer_size_ = impl[c].max_buffer_size_
    /\ \A x, y \in 1 .. k : ms[x] = ms[y] => x = y
    /\ \A x \in 1 .. k : outcome[ms[x]] = "new"
    /\ h <= Len(ReceivesOf(impl[c])) /\ (h < k => h = Len(ReceivesOf(impl[c])))
    /\ ReceivesOf(j) = SubSeq(ReceivesOf(impl[c]), h + 1, Len(ReceivesOf(impl[c])))
    /\ Unreceived(j) = Unreceived(impl[c]) \o SubSeq(ms, h + 1, k)
    /\ \A x, y \in 1 .. Len(ReceivesOf(impl[c])) :
          ReceivesOf(impl[c])[x] = ReceivesOf(impl[c])[y] => x = y
    /\ got' \in [Receivers -> Messages \cup {NoMessage}]
    /\ \A x \in 1 .. h : got'[ReceivesOf(impl[c])[x]] = ms[x]
    /\ \A r \in Receivers : (\A x \in 1 .. h : ReceivesOf(impl[c])[x] # r) => got'[r] = got[r]
    /\ Used' = Used \cup {ms[x] : x \in 1 .. k}
    /\ Promise!Completes(c, {ms[x] : x \in 1 .. h})

LEMMA SendStep ==
  ASSUME FifoInv, NEW c \in impl_list_, NEW k \in Nat \ {0}, NEW ms \in [1 .. k -> Messages],
         NEW h \in 0 .. k, NEW j \in Impl, Sends(c, j, k, ms, h)
  PROVE  Promise!Next
<1> USE DEF Sends
<1>0. /\ Cardinality({ms[x] : x \in 1 .. k}) = k
      /\ k <= Cardinality(Messages) /\ Cardinality(Messages) \in Nat
  <2>1. k \in Nat
    OBVIOUS
  <2> QED BY <2>1, SentCount
<1>1. /\ impl \in [Channels -> Impl] /\ impl_list_ \subseteq Channels /\ c \in Channels
      /\ impl[c].send_state_ # "closed"
  BY BeforeStep DEF Open
<1>2. /\ Capacity' = [Capacity EXCEPT ![c] = j.max_buffer_size_] /\ Shut' = [Shut EXCEPT ![c] = FALSE]
      /\ Queue' = [Queue EXCEPT ![c] = Unreceived(j)] /\ Takers' = [Takers EXCEPT ![c] = ReceivesOf(j)]
  BY <1>1, ViewOpen
<1>3. Capacity' = Capacity /\ Shut' = Shut
  <2>1. Capacity = [Capacity EXCEPT ![c] = impl[c].max_buffer_size_]
    BY DEF Capacity
  <2>2. (impl[c].send_state_ = "closed") = FALSE
    BY <1>1
  <2>3. Shut = [Shut EXCEPT ![c] = FALSE]
    BY <2>2 DEF Shut
  <2> QED BY <1>2, <2>1, <2>3
<1>4. PICK t \in Seq(Operations) : t = Takers[c] /\ t = ReceivesOf(impl[c])
  BY <1>1, Views DEF Takers
<1>5. PICK q \in Seq(Operations) : q = Queue[c] /\ q = Unreceived(impl[c])
  BY <1>1, Views DEF Queue
<1>6. Len(ms) = k /\ Len(t) \in Nat /\ k \in Nat /\ h \in Nat
  BY LenProperties
<1>7. h = Promise!Smaller(Len(ms), Len(t))
  BY <1>4, <1>6 DEF Promise!Smaller
<1>8. Promise!Elements(ms) = {ms[x] : x \in 1 .. k}
  BY <1>6 DEF Promise!Elements
<1>9. ~Shut[c] /\ Promise!Elements(ms) \cap Used = {} /\ Cardinality(Promise!Elements(ms)) = Len(ms)
  <2>1. Cardinality({ms[x] : x \in 1 .. k}) = k
    BY <1>0
  <2>2. \A m \in {ms[x] : x \in 1 .. k} : m \notin Used
    BY DEF Used
  <2>3. ~Shut[c]
    BY <1>1 DEF Shut
  <2> QED BY <1>6, <1>8, <2>1, <2>2, <2>3
<1>10. got' = [r \in Receivers |->
                 IF \E x \in 1 .. h : t[x] = r THEN ms[CHOOSE x \in 1 .. h : t[x] = r] ELSE got[r]]
  <2> DEFINE g == [r \in Receivers |->
                 IF \E x \in 1 .. h : t[x] = r THEN ms[CHOOSE x \in 1 .. h : t[x] = r] ELSE got[r]]
  <2>1. ASSUME NEW r \in Receivers PROVE got'[r] = g[r]
    <3>1. CASE \E x \in 1 .. h : t[x] = r
      <4>1. PICK x \in 1 .. h : x = CHOOSE y \in 1 .. h : t[y] = r
        BY <3>1
      <4>2. t[x] = r
        BY <3>1, <4>1
      <4>3. got'[r] = ms[x]
        BY <1>4, <4>2
      <4> QED BY <3>1, <4>1, <4>3
    <3>2. CASE ~\E x \in 1 .. h : t[x] = r
      BY <1>4, <3>2
    <3> QED BY <3>1, <3>2
  <2> QED BY <2>1
<1>11. Takers' = [Takers EXCEPT ![c] = SubSeq(@, h + 1, Len(@))]
  BY <1>2, <1>4
<1>12. Queue' = [Queue EXCEPT ![c] = @ \o SubSeq(ms, h + 1, Len(ms))]
  BY <1>2, <1>5, <1>6
<1>13. Promise!Send(c, ms)
  <2>1. PICK n : n = Promise!Smaller(Len(ms), Len(Takers[c])) /\ n = h
    BY <1>4, <1>7
  <2>2. got' = [r \in Receivers |-> IF \E x \in 1 .. n : Takers[c][x] = r
                                    THEN ms[CHOOSE x \in 1 .. n : Takers[c][x] = r] ELSE got[r]]
    BY <1>4, <1>10, <2>1
  <2>3. Used' = Used \cup Promise!Elements(ms) /\ Promise!Completes(c, {ms[x] : x \in 1 .. n})
    BY <1>8, <2>1
  <2>4. Promise!Cardinality(Promise!Elements(ms)) = Len(ms)
    BY <1>9, SameCount
  <2> QED BY <1>3, <1>9, <1>11, <1>12, <2>1, <2>2, <2>3, <2>4 DEF Promise!Send
<1>14. \E n \in 1 .. Cardinality(Messages) : ms \in [1 .. n -> Messages]
  <2>1. k <= Cardinality(Messages) /\ Cardinality(Messages) \in Nat
    BY <1>0
  <2> QED BY <2>1
<1>15. ms \in UNION {[1 .. n -> Messages] : n \in 1 .. Promise!Cardinality(Messages)}
  BY <1>14, SameCount
<1> QED BY <1>1, <1>13, <1>15, Zenon DEF Promise!Next

\* Which sends complete, when channel c is j afterwards.
LEMMA CompletesStep ==
  ASSUME FifoInv, NEW c \in Channels, NEW j \in Impl, impl' = [impl EXCEPT ![c] = j],
         \A d \in Channels \ {c} : d \in impl_list_' <=> d \in impl_list_,
         c \in impl_list_', j.send_state_ # "closed", Sound(j), Own(j, outcome'),
         j.max_buffer_size_ = impl[c].max_buffer_size_,
         NEW handed, handed \subseteq Accepted', Accepted \subseteq Accepted',
         Accepted' \subseteq Accepted \cup handed \cup ToSet(j.buffer_)
  PROVE  Promise!Completes(c, handed)
<1>1. /\ j.buffer_ \in Seq(Operations) /\ j.buffer_ \in Seq(Messages) /\ j.waiters_ \in Seq(Operations)
      /\ j.max_buffer_size_ \in Nat /\ Len(j.buffer_) <= j.max_buffer_size_
  BY FieldTypes DEF Sound, StatesDescribe
<1>2. Capacity[c] = j.max_buffer_size_
  BY DEF Capacity
<1>3. \A n \in 1 .. Len(j.buffer_) : j.buffer_[n] \in Accepted'
  <2>1. \A n \in 1 .. Len(j.buffer_) : j.buffer_[n] \in ToSet(j.buffer_) /\ j.buffer_[n] \in Messages
    BY <1>1, ElementsOf, ElementOfSeq
  <2> QED BY <2>1 DEF Own, Accepted
<1>4. \A n \in 1 .. Len(j.waiters_) : j.waiters_[n] \notin Accepted'
  <2>1. \A n \in 1 .. Len(j.waiters_) : j.waiters_[n] \in ToSet(j.waiters_)
    BY <1>1, ElementsOf
  <2> QED BY <2>1 DEF Own, Accepted
<1>5. Queue'[c] = Unreceived(j)
  <2>1. Queue' = [Queue EXCEPT ![c] = Unreceived(j)]
    BY ViewOpen
  <2> QED BY <2>1 DEF Queue
<1>6. CASE ToSet(j.waiters_) \subseteq Messages
  <2>1. Queue'[c] = j.buffer_ \o j.waiters_
    BY <1>5, <1>6, Views
  <2> QED BY <1>1, <1>2, <1>3, <1>4, <2>1, CompletesFacts
<1>7. CASE ToSet(j.waiters_) \subseteq Receivers
  <2>1. PICK e \in Seq(Operations) : e = <<>> /\ Len(e) = 0
    BY EmptySeq
  <2>2. Queue'[c] = j.buffer_ \o e
    BY <1>1, <1>5, <1>7, <2>1, Views, ConcatEmptySeq
  <2>3. \A n \in 1 .. Len(e) : e[n] \notin Accepted'
    BY <2>1
  <2> QED BY <1>1, <1>2, <1>3, <2>2, <2>3, CompletesFacts
<1> QED BY <1>6, <1>7 DEF Sound, StatesDescribe

\* One more waits.
LEMMA WaitsToo ==
  ASSUME FifoInv, NEW c \in impl_list_, ~down, NEW o \in Operations, outcome[o] = "new", NEW j \in Impl,
         j.waiters_ = Append(impl[c].waiters_, o), j.buffer_ = impl[c].buffer_,
         j.send_state_ # "closed" => impl[c].send_state_ # "closed",
         impl' = [impl EXCEPT ![c] = j], outcome' = [outcome EXCEPT ![o] = "waits"],
         got' = got, down' = down, impl_list_' = impl_list_
  PROVE  /\ OrderInv' /\ Own(j, outcome') /\ Accepted' = Accepted
         /\ Used' = Used \cup (Messages \cap {o})
<1> DEFINE i == impl[c]
<1>1. /\ i \in Impl /\ Own(i, outcome) /\ impl_list_ \subseteq Channels /\ c \in Channels
      /\ outcome \in [Operations -> Outcomes]
  BY BeforeStep
<1>2. PICK w \in Seq(Operations) : w = i.waiters_
  BY <1>1 DEF Impl
<1>3. ToSet(i.buffer_) \subseteq Operations /\ ToSet(w) \subseteq Operations
  BY <1>1, <1>2, FieldTypes, ElementsOf
<1>4. PICK v \in Seq(Operations) : v = Append(w, o) /\ v = j.waiters_ /\ ToSet(v) = ToSet(w) \cup {o}
  <2>1. Append(w, o) \in Seq(Operations) /\ ToSet(Append(w, o)) = ToSet(w) \cup {o}
    BY WaitersFacts
  <2> QED BY <1>2, <2>1
<1>5. o \notin ToSet(w) /\ (o \notin ToSet(i.buffer_) \/ i.send_state_ = "closed")
  BY <1>1, <1>2 DEF Own
<1>6. \A x \in Operations : AtMostOnce(v, x)
  <2>1. \A x \in Operations : AtMostOnce(w, x)
    BY <1>1, <1>2 DEF Own
  <2>2. /\ Len(v) = Len(w) + 1 /\ v[Len(w) + 1] = o /\ \A n \in 1 .. Len(w) : v[n] = w[n]
        /\ Len(w) \in Nat /\ \A n \in 1 .. Len(w) : w[n] # o
    <3>1. /\ Len(Append(w, o)) = Len(w) + 1 /\ Append(w, o)[Len(w) + 1] = o
          /\ \A n \in 1 .. Len(w) : Append(w, o)[n] = w[n]
      BY AppendProperties
    <3>2. Len(w) \in Nat /\ \A n \in 1 .. Len(w) : w[n] \in ToSet(w)
      BY LenProperties, ElementsOf
    <3> QED BY <1>4, <1>5, <3>1, <3>2
  <2> QED BY <2>1, <2>2 DEF AtMostOnce
<1>7. Own(j, outcome')
  <2>1. \A x \in ToSet(v) : outcome'[x] = "waits"
    BY <1>1, <1>2, <1>3, <1>4 DEF Own
  <2>2. j.send_state_ # "closed" => \A x \in ToSet(j.buffer_) : outcome'[x] = "ok"
    BY <1>1, <1>3 DEF Own
  <2> QED BY <1>4, <1>6, <2>1, <2>2 DEF Own
<1>8. OrderInv'
  <2>1. /\ \A x \in Operations : outcome'[x] # outcome[x] => outcome[x] = "new"
        /\ \A r \in Receivers : outcome'[r] # "ok" => got'[r] = NoMessage
    BY <1>1 DEF Operations, FifoInv, OrderInv
  <2>2. ToSet(j.waiters_) \subseteq {x \in Operations : \/ ~down /\ outcome[x] = "new"
                                                        \/ c \in impl_list_ /\ x \in Waiting(c)}
    BY <1>2, <1>3, <1>4 DEF Waiting
  <2> QED BY <1>1, <1>7, <2>1, <2>2, OrderStep
<1>9. Accepted' = Accepted /\ Used' = Used \cup (Messages \cap {o})
  BY <1>1 DEF Accepted, Used, Operations
<1> QED BY <1>7, <1>8, <1>9

\* async_send, start_send_op: the send waits.
LEMMA SendWaitsSeen ==
  ASSUME FifoInv, NEW c \in Channels, NEW m \in Messages, Usable(c), New(m), impl[c].send_state_ = "block",
         Apply(c, [Now(c) EXCEPT !.i = SendWaits(impl[c], m), !.outcome[m] = "waits"]), ChannelInv'
  PROVE  OrderInv' /\ Promise!Next
<1> DEFINE i == impl[c]
<1>1. /\ i \in Impl /\ Sound(i) /\ Own(i, outcome) /\ impl_list_ \subseteq Channels /\ c \in impl_list_ /\ ~down
      /\ outcome \in [Operations -> Outcomes] /\ got \in [Receivers -> Messages \cup {NoMessage}]
      /\ m \in Operations /\ outcome[m] = "new" /\ impl \in [Channels -> Impl]
  BY BeforeStep DEF Usable, New, Operations
<1>2. PICK w \in Seq(Operations) : w = i.waiters_ /\ ToSet(w) \subseteq Messages
  <2>1. ToSet(i.waiters_) \subseteq Messages \cup Receivers /\ Messages \cap Receivers = {}
    BY <1>1, KindsApart
  <2> QED BY <1>1, <2>1 DEF Sound, Impl, StatesDescribe
<1>3. PICK v \in Seq(Operations) : v = Append(w, m) /\ ToSet(v) \subseteq Messages
  <2>1. Append(w, m) \in Seq(Operations) /\ ToSet(Append(w, m)) = ToSet(w) \cup {m}
    BY <1>1, WaitersFacts
  <2> QED BY <1>2, <2>1
<1>4. PICK j \in Impl : /\ j = SendWaits(i, m) /\ j.waiters_ = v /\ j.buffer_ = i.buffer_
                        /\ j.max_buffer_size_ = i.max_buffer_size_ /\ j.send_state_ = "block"
  <2>1. PICK j : j = SendWaits(i, m)
    OBVIOUS
  <2>2. /\ j \in Impl /\ j.waiters_ = v /\ j.buffer_ = i.buffer_
        /\ j.max_buffer_size_ = i.max_buffer_size_ /\ j.send_state_ = "block"
    BY <1>1, <1>2, <1>3, <2>1 DEF Impl, States, SendWaits
  <2> QED BY <2>1, <2>2
<1>5. /\ impl' = [impl EXCEPT ![c] = j] /\ outcome' = [outcome EXCEPT ![m] = "waits"] /\ got' = got
      /\ impl_list_' = impl_list_ /\ down' = down
  BY <1>4 DEF Apply, Now
<1>6. /\ OrderInv' /\ Own(j, outcome') /\ Accepted' = Accepted /\ Used' = Used \cup {m}
  <2>1. /\ j.waiters_ = Append(impl[c].waiters_, m) /\ j.buffer_ = impl[c].buffer_
        /\ impl[c].send_state_ # "closed"
    BY <1>2, <1>3, <1>4
  <2>2. /\ OrderInv' /\ Own(j, outcome') /\ Accepted' = Accepted
        /\ Used' = Used \cup (Messages \cap {m})
    BY <1>1, <1>5, <2>1, WaitsToo
  <2> QED BY <2>2
<1>7. Sound(j)
  BY <1>1, <1>4, <1>5 DEF ChannelInv, Sound
<1>8. PICK ms \in Seq(Messages) : ms = <<m>> /\ ms \in [1 .. 1 -> Messages] /\ ms[1] = m /\ Len(ms) = 1
  <2>1. <<m>> \in Seq(Messages) /\ <<m>> \in [1 .. 1 -> Messages] /\ <<m>>[1] = m /\ Len(<<m>>) = 1
    OBVIOUS
  <2> QED BY <2>1, Zenon
<1>9. PICK b \in Seq(Operations) : b = i.buffer_
  BY <1>1, FieldTypes
<1>10. /\ Unreceived(i) = b \o w /\ ReceivesOf(i) = <<>> /\ Len(ReceivesOf(i)) = 0
       /\ Unreceived(j) = b \o v /\ ReceivesOf(j) = <<>>
  <2>1. Unreceived(i) = i.buffer_ \o i.waiters_ /\ ReceivesOf(i) = <<>>
    BY <1>1, <1>2, Views
  <2>2. Unreceived(j) = j.buffer_ \o j.waiters_ /\ ReceivesOf(j) = <<>>
    BY <1>3, <1>4, Views
  <2>3. Len(<<>>) = 0
    OBVIOUS
  <2> QED BY <1>2, <1>4, <1>9, <2>1, <2>2, <2>3
<1>11. Unreceived(j) = Unreceived(i) \o SubSeq(ms, 0 + 1, 1)
  <2>1. v = w \o <<m>>
    BY <1>3, AppendIsConcat
  <2>2. b \o (w \o <<m>>) = (b \o w) \o <<m>>
    BY <1>1, ConcatAppend
  <2>3. SubSeq(ms, 0 + 1, 1) = <<m>>
    <3>1. SubSeq(ms, 1, Len(ms)) = ms
      BY SubSeqFull
    <3> QED BY <1>8, <3>1
  <2> QED BY <1>10, <2>1, <2>2, <2>3
<1>12. ReceivesOf(j) = SubSeq(ReceivesOf(i), 0 + 1, Len(ReceivesOf(i)))
  <2>1. SubSeq(<<>>, 1, 0) = <<>>
    OBVIOUS
  <2> QED BY <1>10, <2>1
<1>13. Promise!Completes(c, {ms[x] : x \in 1 .. 0})
  <2>1. {ms[x] : x \in 1 .. 0} = {}
    OBVIOUS
  <2>2. PICK handed : handed = {}
    OBVIOUS
  <2>3. /\ handed \subseteq Accepted' /\ Accepted \subseteq Accepted'
        /\ Accepted' \subseteq Accepted \cup handed \cup ToSet(j.buffer_)
    BY <1>6, <2>2
  <2>4. /\ c \in impl_list_' /\ \A d \in Channels \ {c} : d \in impl_list_' <=> d \in impl_list_
    BY <1>1, <1>5
  <2>5. j.send_state_ # "closed" /\ j.max_buffer_size_ = impl[c].max_buffer_size_
    BY <1>4
  <2>6. Promise!Completes(c, handed)
    BY <1>5, <1>6, <1>7, <2>3, <2>4, <2>5, CompletesStep
  <2> QED BY <2>1, <2>2, <2>6
<1>14. Used' = Used \cup {ms[x] : x \in 1 .. 1}
  BY <1>6, <1>8
<1>15. PICK k \in Nat \ {0}, h \in 0 .. 1 : k = 1 /\ h = 0
  OBVIOUS
<1>16. /\ ms \in [1 .. k -> Messages] /\ h \in 0 .. k /\ h <= Len(ReceivesOf(i))
       /\ h < k => h = Len(ReceivesOf(i))
       /\ \A x, y \in 1 .. k : ms[x] = ms[y] => x = y
       /\ \A x \in 1 .. k : outcome[ms[x]] = "new"
       /\ \A x, y \in 1 .. Len(ReceivesOf(i)) : ReceivesOf(i)[x] = ReceivesOf(i)[y] => x = y
       /\ \A x \in 1 .. h : got'[ReceivesOf(i)[x]] = ms[x]
       /\ \A r \in Receivers : (\A x \in 1 .. h : ReceivesOf(i)[x] # r) => got'[r] = got[r]
       /\ got' \in [Receivers -> Messages \cup {NoMessage}]
  BY <1>1, <1>5, <1>8, <1>10, <1>15
<1>17. /\ ReceivesOf(j) = SubSeq(ReceivesOf(i), h + 1, Len(ReceivesOf(i)))
       /\ Unreceived(j) = Unreceived(i) \o SubSeq(ms, h + 1, k)
       /\ Promise!Completes(c, {ms[x] : x \in 1 .. h}) /\ Used' = Used \cup {ms[x] : x \in 1 .. k}
  BY <1>11, <1>12, <1>13, <1>14, <1>15
<1>18. Open(c) /\ impl_list_' = impl_list_ /\ impl' = [impl EXCEPT ![c] = j] /\ j.send_state_ # "closed"
       /\ j.max_buffer_size_ = i.max_buffer_size_
  BY <1>1, <1>4, <1>5 DEF Open
<1>19. Sends(c, j, k, ms, h)
  BY <1>16, <1>17, <1>18, Zenon DEF Sends
<1>20. Promise!Next
  BY <1>1, <1>16, <1>19, SendStep
<1> QED BY <1>6, <1>20

-----------------------------------------------------------------------------
(* The steps of the promise: messages are received.                        *)

\* Who waits to receive is in the waiters, and says so.
LEMMA TakersWait ==
  ASSUME FifoInv, NEW d \in Channels, NEW r \in Promise!Elements(Takers[d])
  PROVE  outcome[r] = "waits"
<1>1. impl \in [Channels -> Impl]
  BY BeforeStep
<1>2. CASE ~Open(d)
  <2>1. Takers[d] = <<>> /\ Len(<<>>) = 0
    BY <1>2 DEF Takers
  <2> QED BY <2>1 DEF Promise!Elements
<1>3. CASE Open(d)
  <2>1. PICK w \in Seq(Operations) : w = impl[d].waiters_
    BY <1>1 DEF Impl
  <2>2. PICK t \in Seq(Operations) : t = Unlinked(w, Messages) /\ ToSet(t) \subseteq ToSet(w)
    BY UnlinkedWaiters
  <2>3. Takers[d] = t
    BY <1>3, <2>1, <2>2 DEF Takers, ReceivesOf
  <2>4. r \in ToSet(t)
    BY <2>3, ElementsOf DEF Promise!Elements
  <2>5. Own(impl[d], outcome)
    BY <1>3, BeforeStep DEF Open
  <2> QED BY <2>1, <2>2, <2>4, <2>5 DEF Own
<1> QED BY <1>2, <1>3

\* async_receive, start_receive_op: the receive waits.
LEMMA ReceiveWaitsSeen ==
  ASSUME FifoInv, NEW c \in Channels, NEW r \in Receivers, Usable(c), New(r), impl[c].receive_state_ = "block",
         Apply(c, [Now(c) EXCEPT !.i = ReceiveWaits(impl[c], r), !.outcome[r] = "waits"])
  PROVE  OrderInv' /\ Promise!Next
<1> DEFINE i == impl[c]
<1>1. /\ i \in Impl /\ Sound(i) /\ Own(i, outcome) /\ impl_list_ \subseteq Channels /\ c \in impl_list_ /\ ~down
      /\ outcome \in [Operations -> Outcomes] /\ got \in [Receivers -> Messages \cup {NoMessage}]
      /\ r \in Operations /\ outcome[r] = "new" /\ impl \in [Channels -> Impl]
  BY BeforeStep DEF Usable, New, Operations
<1>2. PICK w \in Seq(Operations) : w = i.waiters_ /\ ToSet(w) \subseteq Receivers
  BY <1>1, KindsApart DEF Impl
<1>3. i.buffer_ = <<>> /\ i.send_state_ # "closed" /\ Messages \cap Receivers = {}
  BY <1>1, KindsApart DEF Sound, StatesDescribe
<1>4. PICK v \in Seq(Operations) : v = Append(w, r) /\ ToSet(v) \subseteq Receivers
  <2>1. Append(w, r) \in Seq(Operations) /\ ToSet(Append(w, r)) = ToSet(w) \cup {r}
    BY <1>1, WaitersFacts
  <2> QED BY <1>2, <2>1
<1>5. PICK j \in Impl : /\ j = ReceiveWaits(i, r) /\ j.waiters_ = v /\ j.buffer_ = i.buffer_
                        /\ j.max_buffer_size_ = i.max_buffer_size_ /\ j.send_state_ = "waiter"
  <2>1. PICK j : j = ReceiveWaits(i, r)
    OBVIOUS
  <2>2. /\ j \in Impl /\ j.waiters_ = v /\ j.buffer_ = i.buffer_
        /\ j.max_buffer_size_ = i.max_buffer_size_ /\ j.send_state_ = "waiter"
    BY <1>1, <1>2, <1>3, <1>4, <2>1 DEF Impl, States, ReceiveWaits
  <2> QED BY <2>1, <2>2
<1>6. /\ impl' = [impl EXCEPT ![c] = j] /\ outcome' = [outcome EXCEPT ![r] = "waits"] /\ got' = got
      /\ impl_list_' = impl_list_ /\ down' = down
  BY <1>5 DEF Apply, Now
<1>7. OrderInv' /\ Accepted' = Accepted /\ Used' = Used
  <2>1. /\ j.waiters_ = Append(impl[c].waiters_, r) /\ j.buffer_ = impl[c].buffer_
        /\ (j.send_state_ # "closed" => impl[c].send_state_ # "closed")
    BY <1>2, <1>3, <1>4, <1>5
  <2>2. OrderInv' /\ Accepted' = Accepted /\ Used' = Used \cup (Messages \cap {r})
    BY <1>1, <1>6, <2>1, WaitsToo
  <2> QED BY <1>3, <2>2
<1>8. Unreceived(i) = <<>> /\ ReceivesOf(i) = w /\ Unreceived(j) = <<>> /\ ReceivesOf(j) = v
  BY <1>1, <1>2, <1>3, <1>4, <1>5, Views
<1>9. Queue[c] = <<>> /\ Takers[c] = w /\ ~Shut[c]
  BY <1>1, <1>3, <1>8 DEF Queue, Takers, Shut, Open
<1>10. /\ Capacity' = Capacity /\ Shut' = Shut /\ Queue' = Queue
       /\ Takers' = [Takers EXCEPT ![c] = Append(@, r)]
  <2>1. /\ Capacity' = [Capacity EXCEPT ![c] = j.max_buffer_size_] /\ Shut' = [Shut EXCEPT ![c] = FALSE]
        /\ Queue' = [Queue EXCEPT ![c] = Unreceived(j)] /\ Takers' = [Takers EXCEPT ![c] = ReceivesOf(j)]
    BY <1>1, <1>5, <1>6, ViewOpen
  <2>2. Capacity = [Capacity EXCEPT ![c] = j.max_buffer_size_]
    BY <1>5 DEF Capacity
  <2>3. Shut = [Shut EXCEPT ![c] = FALSE]
    <3>1. (i.send_state_ = "closed") = FALSE
      BY <1>3
    <3> QED BY <3>1 DEF Shut
  <2>4. Queue = [Queue EXCEPT ![c] = Unreceived(j)]
    BY <1>8, <1>9 DEF Queue
  <2> QED BY <1>4, <1>8, <1>9, <2>1, <2>2, <2>3, <2>4
<1>11. got[r] = NoMessage
  BY <1>1 DEF FifoInv, OrderInv
<1>12. \A d \in Channels : r \notin Promise!Elements(Takers[d])
  BY <1>1, TakersWait
<1>13. Promise!Wait(c, r)
  BY <1>6, <1>7, <1>9, <1>10, <1>11, <1>12 DEF Promise!Wait
<1>14. Promise!Next
  BY <1>13, Zenon DEF Promise!Next
<1> QED BY <1>7, <1>14

\* buffer_pop and the refill, or the hand-over of a waiting send: the first message leaves.
LEMMA ReceivedViews ==
  ASSUME NEW i, Sound(i), i.receive_state_ \in {"buffer", "waiter"}, NEW j,
         j = IF i.receive_state_ = "buffer" THEN Refill(i) ELSE TakeFromSender(i)
  PROVE  /\ Sound(j) /\ j.send_state_ # "closed" /\ i.send_state_ # "closed"
         /\ j.max_buffer_size_ = i.max_buffer_size_
         /\ ReceivesOf(i) = <<>> /\ ReceivesOf(j) = <<>>
         /\ Unreceived(i) # <<>> /\ Unreceived(j) = Tail(Unreceived(i))
         /\ Head(Unreceived(i)) = IF i.receive_state_ = "buffer" THEN Head(i.buffer_) ELSE Head(i.waiters_)
         /\ i.waiters_ = <<>> => j.waiters_ = <<>>
         /\ i.waiters_ # <<>> => /\ j.waiters_ = Tail(i.waiters_)
                                 /\ Head(i.waiters_) \in ToSet(j.buffer_) \cup {Head(Unreceived(i))}
         /\ \A m \in ToSet(j.buffer_) \cup {Head(Unreceived(i))} :
               m \in ToSet(i.buffer_) \/ (i.waiters_ # <<>> /\ m = Head(i.waiters_))
<1> DEFINE b == i.buffer_
           w == i.waiters_
<1>1. /\ i \in Impl /\ b \in Seq(Messages) /\ b \in Seq(Operations) /\ w \in Seq(Operations)
      /\ ToSet(w) \subseteq Messages /\ i.send_state_ # "closed"
      /\ i.receive_state_ = "buffer" => b # <<>> /\ i.send_state_ \in {"buffer", "block"}
      /\ i.receive_state_ = "waiter" => b = <<>> /\ w # <<>> /\ i.send_state_ = "block"
  BY KindsApart, FieldTypes DEF Sound, StatesDescribe
<1>2. Unreceived(i) = b \o w /\ ReceivesOf(i) = <<>>
  BY <1>1, Views
<1>3. Sound(j) /\ j.send_state_ # "closed" /\ j \in Impl
  BY RefillSound, TakeSound DEF Sound
<1>4. j.max_buffer_size_ = i.max_buffer_size_
  BY <1>1 DEF Refill, TakeFromSender, Impl
<1>5. CASE i.receive_state_ = "waiter"
  <2>1. PICK v \in Seq(Operations) : v = Tail(w) /\ ToSet(v) \subseteq Messages /\ Head(w) \in ToSet(w)
    <3>1. Tail(w) \in Seq(Operations) /\ ToSet(Tail(w)) \subseteq ToSet(w) /\ Head(w) \in ToSet(w)
      BY <1>1, <1>5, WaitersFacts
    <3>2. PICK v \in Seq(Operations) : v = Tail(w)
      BY <3>1, Zenon
    <3> QED BY <1>1, <3>1, <3>2
  <2>2. j.waiters_ = v /\ j.buffer_ = <<>>
    BY <1>1, <1>5, <2>1 DEF TakeFromSender, Impl
  <2>3. Unreceived(j) = v /\ ReceivesOf(j) = <<>>
    <3>1. Unreceived(j) = <<>> \o v /\ ReceivesOf(j) = <<>>
      BY <1>3, <2>1, <2>2, Views
    <3> QED BY <3>1, ConcatEmptySeq
  <2>4. Unreceived(i) = w
    BY <1>1, <1>2, <1>5, ConcatEmptySeq
  <2>5. ToSet(j.buffer_) = {}
    BY <2>2, NoneWaits
  <2> QED BY <1>1, <1>2, <1>3, <1>4, <1>5, <2>1, <2>2, <2>3, <2>4, <2>5
<1>6. CASE i.receive_state_ = "buffer"
  <2>1. PICK t \in Seq(Messages) : t = Tail(b) /\ ToSet(t) \subseteq ToSet(b) /\ Head(b) \in ToSet(b)
    <3>1. Tail(b) \in Seq(Messages) /\ ToSet(Tail(b)) \subseteq ToSet(b) /\ Head(b) \in ToSet(b)
      BY <1>1, <1>6, WaitersFacts
    <3>2. PICK t \in Seq(Messages) : t = Tail(b)
      BY <3>1, Zenon
    <3> QED BY <3>1, <3>2
  <2>2. t \in Seq(Operations)
    BY SeqSubset DEF Operations
  <2>3. b \o w # <<>> /\ Head(b \o w) = Head(b) /\ Tail(b \o w) = t \o w
    <3> HIDE DEF b, w
    <3>1. b \in Seq(Operations) /\ w \in Seq(Operations) /\ b # <<>>
      BY <1>1, <1>6
    <3>2. b \o w # <<>> /\ Head(b \o w) = Head(b) /\ Tail(b \o w) = Tail(b) \o w
      BY <3>1, TailConcat
    <3> QED BY <2>1, <3>2
  <2>4. CASE w # <<>>
    <3>1. PICK v \in Seq(Operations) : v = Tail(w) /\ ToSet(v) \subseteq Messages
      <4>1. Tail(w) \in Seq(Operations) /\ ToSet(Tail(w)) \subseteq ToSet(w)
        BY <1>1, <2>4, WaitersFacts
      <4>2. PICK v \in Seq(Operations) : v = Tail(w)
        BY <4>1, Zenon
      <4> QED BY <1>1, <4>1, <4>2
    <3>2. PICK m \in Messages : m = Head(w)
      BY <1>1, <2>4, WaitersFacts
    <3>3. PICK a \in Seq(Messages) : a = Append(t, m) /\ ToSet(a) = ToSet(t) \cup {m}
      <4>1. Append(t, m) \in Seq(Messages) /\ ToSet(Append(t, m)) = ToSet(t) \cup {m}
        BY WaitersFacts
      <4> QED BY <4>1, Zenon
    <3>4. PICK k : k = Refill(i)
      OBVIOUS
    <3>5. k.waiters_ = v /\ k.buffer_ = a
      BY <1>1, <2>1, <2>4, <3>1, <3>2, <3>3, <3>4 DEF Refill, Impl
    <3>6. j.waiters_ = v /\ j.buffer_ = a
      BY <1>6, <3>4, <3>5
    <3>7. Unreceived(j) = a \o v /\ ReceivesOf(j) = <<>>
      BY <1>3, <3>1, <3>6, Views
    <3>8. a \o v = t \o w
      BY <1>1, <2>2, <2>4, <3>1, <3>2, <3>3, HandedOn
    <3> QED BY <1>1, <1>2, <1>3, <1>4, <1>6, <2>1, <2>3, <2>4, <3>1, <3>2, <3>3, <3>6, <3>7, <3>8
  <2>5. CASE w = <<>>
    <3>1. PICK k : k = Refill(i)
      OBVIOUS
    <3>2. k.waiters_ = w /\ k.buffer_ = t
      BY <1>1, <2>1, <2>5, <3>1 DEF Refill, Impl
    <3>3. j.waiters_ = w /\ j.buffer_ = t
      BY <1>6, <3>1, <3>2
    <3>4. Unreceived(j) = t \o w /\ ReceivesOf(j) = <<>>
      BY <1>1, <1>3, <3>3, Views
    <3> QED BY <1>1, <1>2, <1>3, <1>4, <1>6, <2>1, <2>3, <2>5, <3>3, <3>4
  <2> QED BY <2>4, <2>5
<1> QED BY <1>5, <1>6

\* try_receive and async_receive, when there is a message.
LEMMA ReceivedSeen ==
  ASSUME FifoInv, NEW c \in Channels, NEW r \in Receivers, Usable(c), New(r),
         impl[c].receive_state_ \in {"buffer", "waiter"}, Apply(c, Received(Now(c), r))
  PROVE  OrderInv' /\ Promise!Next
<1> DEFINE i == impl[c]
<1>1. /\ i \in Impl /\ Sound(i) /\ Own(i, outcome) /\ impl_list_ \subseteq Channels /\ c \in impl_list_ /\ ~down
      /\ outcome \in [Operations -> Outcomes] /\ got \in [Receivers -> Messages \cup {NoMessage}]
      /\ r \in Operations /\ outcome[r] = "new" /\ impl \in [Channels -> Impl]
  BY BeforeStep DEF Usable, New, Operations
<1>2. /\ i.receive_state_ \in {"buffer", "waiter"} /\ i.buffer_ \in Seq(Messages) /\ i.waiters_ \in Seq(Operations)
      /\ ToSet(i.buffer_) \subseteq Messages /\ Messages \subseteq Operations /\ r \notin Messages
      /\ ToSet(i.waiters_) \subseteq Messages /\ i.send_state_ # "closed"
  BY <1>1, KindsApart, FieldTypes, ElementsOf DEF Sound, StatesDescribe
<1>3. PICK j : j = IF i.receive_state_ = "buffer" THEN Refill(i) ELSE TakeFromSender(i)
  OBVIOUS
<1>4. PICK q : q = Unreceived(i)
  OBVIOUS
<1>5. /\ Sound(j) /\ j.send_state_ # "closed"
      /\ j.max_buffer_size_ = i.max_buffer_size_
      /\ ReceivesOf(i) = <<>> /\ ReceivesOf(j) = <<>> /\ q # <<>> /\ Unreceived(j) = Tail(q)
      /\ Head(q) = IF i.receive_state_ = "buffer" THEN Head(i.buffer_) ELSE Head(i.waiters_)
      /\ i.waiters_ = <<>> => j.waiters_ = <<>>
      /\ i.waiters_ # <<>> => /\ j.waiters_ = Tail(i.waiters_)
                              /\ Head(i.waiters_) \in ToSet(j.buffer_) \cup {Head(q)}
      /\ \A m \in ToSet(j.buffer_) \cup {Head(q)} :
            m \in ToSet(i.buffer_) \/ (i.waiters_ # <<>> /\ m = Head(i.waiters_))
  <2> HIDE DEF i
  <2> QED BY <1>1, <1>2, <1>3, <1>4, ReceivedViews
<1>6. /\ impl' = [impl EXCEPT ![c] = j] /\ got' = [got EXCEPT ![r] = Head(q)]
      /\ outcome' = [(IF i.waiters_ = <<>> THEN outcome ELSE [outcome EXCEPT ![Head(i.waiters_)] = "ok"])
                     EXCEPT ![r] = "ok"]
      /\ impl_list_' = impl_list_ /\ down' = down
  BY <1>3, <1>5 DEF Apply, Now, Received
<1>7. j \in Impl /\ j.waiters_ \in Seq(Operations)
  BY <1>5 DEF Sound, Impl
<1>8. i.waiters_ # <<>> => Head(i.waiters_) \in ToSet(i.waiters_) /\ ToSet(j.waiters_) \subseteq ToSet(i.waiters_)
  BY <1>2, <1>5, WaitersFacts
<1>9. ASSUME NEW o \in Operations
      PROVE  outcome'[o] = IF o = r \/ (i.waiters_ # <<>> /\ o = Head(i.waiters_)) THEN "ok" ELSE outcome[o]
  BY <1>1, <1>6
<1>10. Own(j, outcome')
  <2>1. CASE i.waiters_ = <<>>
    <3>1. j.waiters_ = <<>> /\ ToSet(j.waiters_) = {} /\ i.waiters_ = j.waiters_
      BY <1>5, <2>1, NoneWaits
    <3>2. ASSUME NEW m \in ToSet(j.buffer_) PROVE outcome'[m] = "ok"
      BY <1>1, <1>2, <1>5, <1>9, <2>1 DEF Own
    <3> QED BY <1>1, <3>1, <3>2 DEF Own
  <2>2. CASE i.waiters_ # <<>>
    <3>1. PICK w \in Seq(Operations) : w = i.waiters_ /\ w # <<>>
      BY <1>2, <2>2
    <3>2. \A x \in Operations : AtMostOnce(w, x)
      BY <1>1, <3>1 DEF Own
    <3>3. PICK v \in Seq(Operations) : v = j.waiters_ /\ v = Tail(w)
      BY <1>5, <1>7, <2>2, <3>1
    <3>4. \A x \in Operations : AtMostOnce(v, x)
      BY <3>1, <3>2, <3>3, TailHas
    <3>5. ~Has(v, Head(w)) /\ Head(w) \in Operations
      BY <3>1, <3>2, <3>3, TailHas
    <3>6. \A o \in ToSet(v) : o \in Operations /\ Has(v, o)
      BY ElementsOf DEF Has
    <3>7. ASSUME NEW o \in ToSet(v) PROVE outcome'[o] = "waits"
      <4>1. o \in Operations /\ o # Head(w)
        BY <3>5, <3>6
      <4>2. o \in ToSet(i.waiters_)
        BY <1>8, <2>2, <3>3
      <4>3. outcome[o] = "waits"
        BY <1>1, <4>2 DEF Own
      <4> QED BY <1>1, <1>9, <3>1, <4>1, <4>3
    <3>8. ASSUME NEW m \in ToSet(j.buffer_) PROVE outcome'[m] = "ok"
      <4>1. m \in ToSet(i.buffer_) \/ m = Head(i.waiters_)
        BY <1>5
      <4>2. m \in Operations /\ (m \in ToSet(i.buffer_) => outcome[m] = "ok")
        BY <1>1, <1>2, <3>1, <3>5, <4>1 DEF Own
      <4> QED BY <1>9, <2>2, <4>1, <4>2
    <3> QED BY <3>3, <3>4, <3>7, <3>8 DEF Own
  <2> QED BY <2>1, <2>2
<1>11. OrderInv'
  <2>1. \A o \in Operations : outcome'[o] # outcome[o] =>
             outcome[o] = "new" \/ (c \in impl_list_ /\ o \in Waiting(c))
    BY <1>1, <1>8, <1>9 DEF Waiting
  <2>2. ToSet(j.waiters_) \subseteq {x \in Operations : \/ ~down /\ outcome[x] = "new"
                                                        \/ c \in impl_list_ /\ x \in Waiting(c)}
    <3>1. ToSet(j.waiters_) \subseteq ToSet(i.waiters_)
      BY <1>5, <1>8
    <3> QED BY <1>1, <1>2, <3>1 DEF Waiting
  <2>3. ASSUME NEW x \in Receivers, outcome'[x] # "ok" PROVE got'[x] = NoMessage
    <3>1. x \in Operations
      BY DEF Operations
    <3>2. outcome[x] # "ok" /\ x # r
      BY <1>9, <2>3, <3>1
    <3>3. got[x] = NoMessage
      BY <3>2 DEF FifoInv, OrderInv
    <3> QED BY <1>1, <1>6, <3>2, <3>3
  <2>4. c \in impl_list_' => Own(j, outcome')
    BY <1>10
  <2> QED BY <1>1, <1>6, <1>7, <2>1, <2>2, <2>3, <2>4, OrderStep
<1>12. /\ c \in impl_list_' /\ \A d \in Channels \ {c} : d \in impl_list_' <=> d \in impl_list_
  BY <1>1, <1>6
<1>13. /\ Capacity' = Capacity /\ Shut' = Shut /\ Takers' = Takers
       /\ Queue' = [Queue EXCEPT ![c] = Tail(@)] /\ Queue[c] = q
  <2>1. /\ Capacity' = [Capacity EXCEPT ![c] = j.max_buffer_size_] /\ Shut' = [Shut EXCEPT ![c] = FALSE]
        /\ Queue' = [Queue EXCEPT ![c] = Unreceived(j)] /\ Takers' = [Takers EXCEPT ![c] = ReceivesOf(j)]
    BY <1>5, <1>6, <1>7, <1>12, ViewOpen
  <2>2. Capacity = [Capacity EXCEPT ![c] = j.max_buffer_size_]
    BY <1>5 DEF Capacity
  <2>3. Shut = [Shut EXCEPT ![c] = FALSE]
    <3>1. (i.send_state_ = "closed") = FALSE
      BY <1>2
    <3> QED BY <3>1 DEF Shut
  <2>4. Takers = [Takers EXCEPT ![c] = ReceivesOf(j)] /\ Queue[c] = q
    <3>1. Takers[c] = ReceivesOf(j) /\ Queue[c] = q
      BY <1>1, <1>2, <1>4, <1>5 DEF Takers, Queue, Open
    <3> QED BY <3>1 DEF Takers
  <2>5. Queue' = [Queue EXCEPT ![c] = Tail(@)]
    BY <1>5, <2>1, <2>4
  <2> QED BY <2>1, <2>2, <2>3, <2>4, <2>5
<1>14. /\ {Head(q)} \subseteq Accepted' /\ Accepted \subseteq Accepted'
       /\ Accepted' \subseteq Accepted \cup {Head(q)} \cup ToSet(j.buffer_)
  <2>1. \A m \in Messages : outcome'[m] = IF i.waiters_ # <<>> /\ m = Head(i.waiters_) THEN "ok" ELSE outcome[m]
    BY <1>2, <1>9
  <2>2. Head(q) \in Messages /\ outcome'[Head(q)] = "ok"
    BY <1>1, <1>2, <1>5, <1>8, <2>1 DEF Own
  <2>3. Accepted \subseteq Accepted'
    BY <2>1 DEF Accepted
  <2>4. Accepted' \subseteq Accepted \cup {Head(q)} \cup ToSet(j.buffer_)
    BY <1>5, <2>1 DEF Accepted
  <2> QED BY <2>2, <2>3, <2>4 DEF Accepted
<1>15. Promise!Completes(c, {Head(q)})
  <2>1. PICK handed : handed = {Head(q)}
    OBVIOUS
  <2>2. /\ handed \subseteq Accepted' /\ Accepted \subseteq Accepted'
        /\ Accepted' \subseteq Accepted \cup handed \cup ToSet(j.buffer_)
    BY <1>14, <2>1
  <2>3. j.send_state_ # "closed" /\ j.max_buffer_size_ = impl[c].max_buffer_size_ /\ Sound(j)
    BY <1>5
  <2>4. Promise!Completes(c, handed)
    BY <1>6, <1>7, <1>10, <1>12, <2>2, <2>3, CompletesStep
  <2> QED BY <2>1, <2>4
<1>16. Used' = Used
  <2>1. \A m \in Messages : outcome'[m] = IF i.waiters_ # <<>> /\ m = Head(i.waiters_) THEN "ok" ELSE outcome[m]
    BY <1>2, <1>9
  <2>2. i.waiters_ # <<>> => outcome[Head(i.waiters_)] = "waits"
    BY <1>1, <1>8 DEF Own
  <2> QED BY <2>1, <2>2 DEF Used
<1>17. got[r] = NoMessage
  BY <1>1 DEF FifoInv, OrderInv
<1>18. Promise!Take(c, r)
  BY <1>5, <1>6, <1>13, <1>15, <1>16, <1>17 DEF Promise!Take
<1>19. Promise!Next
  BY <1>18, Zenon DEF Promise!Next
<1> QED BY <1>11, <1>19

-----------------------------------------------------------------------------
(* What the promise does not see: operations that are turned away.         *)

\* try_send_n sends nothing, or nothing else changes than that new operations fail.
LEMMA TurnedAway ==
  ASSUME FifoInv, impl' = impl, impl_list_' = impl_list_, down' = down, got' = got,
         \A o \in Operations :
            outcome'[o] # outcome[o] => outcome[o] = "new" /\ outcome'[o] \in {"refused", "closed"}
  PROVE  OrderInv' /\ UNCHANGED Promise!vars
<1>1. /\ impl \in [Channels -> Impl] /\ impl_list_ \subseteq Channels
      /\ outcome \in [Operations -> Outcomes]
  BY BeforeStep
<1>2. ASSUME NEW d \in impl_list_ PROVE Own(impl[d], outcome')
  <2>1. PICK k \in Impl : k = impl[d] /\ Own(k, outcome)
    BY <1>1, BeforeStep
  <2>2. ToSet(k.waiters_) \subseteq Operations /\ ToSet(k.buffer_) \subseteq Operations
    BY FieldTypes, ElementsOf
  <2>3. \A o \in ToSet(k.waiters_) : outcome'[o] = "waits"
    BY <2>1, <2>2 DEF Own
  <2>4. k.send_state_ # "closed" => \A m \in ToSet(k.buffer_) : outcome'[m] = "ok"
    BY <2>1, <2>2 DEF Own
  <2> QED BY <2>1, <2>3, <2>4 DEF Own
<1>3. \A r \in Receivers : outcome'[r] # "ok" => got'[r] = NoMessage
  BY DEF FifoInv, OrderInv, Operations
<1>4. OrderInv'
  BY <1>2, <1>3 DEF FifoInv, OrderInv, Waiting
<1>5. Capacity' = Capacity /\ Queue' = Queue /\ Takers' = Takers /\ Shut' = Shut
  BY DEF Capacity, Queue, Takers, Shut, Open
<1>6. \A m \in Messages : outcome'[m] # outcome[m] => outcome[m] = "new" /\ outcome'[m] \in {"refused", "closed"}
  BY DEF Operations
<1>7. Accepted' = Accepted /\ Used' = Used
  BY <1>6 DEF Accepted, Used
<1> QED BY <1>4, <1>5, <1>7 DEF Promise!vars

\* try_receive refuses, or the channel is closed.
LEMMA OneTurnedAway ==
  ASSUME FifoInv, NEW c \in Channels, NEW o \in Operations, New(o), NEW why \in {"refused", "closed"},
         Apply(c, [Now(c) EXCEPT !.outcome[o] = why])
  PROVE  OrderInv' /\ UNCHANGED Promise!vars
<1>1. impl \in [Channels -> Impl] /\ outcome \in [Operations -> Outcomes] /\ outcome[o] = "new"
  BY BeforeStep DEF New
<1>2. /\ impl' = impl /\ impl_list_' = impl_list_ /\ down' = down /\ got' = got
      /\ outcome' = [outcome EXCEPT ![o] = why]
  BY <1>1 DEF Apply, Now
<1> QED BY <1>1, <1>2, TurnedAway

-----------------------------------------------------------------------------
(* try_send_n: the messages one after the other, seen as one step.         *)

\* The messages ms are new and no two the same; the channel and the outcomes are in order.
Fine(a, N, ms) ==
    /\ a \in Working /\ Own(a.i, a.outcome) /\ ms \in [1 .. N -> Messages]
    /\ \A x, y \in 1 .. N : ms[x] = ms[y] => x = y
    /\ \A x \in 1 .. N : a.outcome[ms[x]] = "new"

\* The outcome of o when n messages have had their turn: k were sent, h of them to receives.
OutcomeThen(a, ms, n, k, h, o) ==
    IF (\E x \in 1 .. k : o = ms[x]) \/ (\E x \in 1 .. h : o = a.i.waiters_[x]) THEN "ok"
    ELSE IF \E x \in k + 1 .. n : o = ms[x] THEN "refused" ELSE a.outcome[o]

SoFar(a, ms, n, k, h, s) ==
    /\ h <= Len(a.i.waiters_) /\ (h < k => h = Len(a.i.waiters_))
    /\ k < n => s.i.send_state_ \notin {"waiter", "buffer"}
    /\ k > 0 => ToSet(a.i.waiters_) \subseteq Receivers /\ a.i.send_state_ # "closed"
    /\ k = 0 => s.i = a.i /\ s.got = a.got
    /\ s.i.max_buffer_size_ = a.i.max_buffer_size_
    /\ s.i.waiters_ = SubSeq(a.i.waiters_, h + 1, Len(a.i.waiters_))
    /\ s.i.buffer_ = a.i.buffer_ \o SubSeq(ms, h + 1, k)
    /\ \A o \in Operations : s.outcome[o] = OutcomeThen(a, ms, n, k, h, o)
    /\ \A x \in 1 .. h : s.got[a.i.waiters_[x]] = ms[x]
    /\ \A r \in Receivers : (\A x \in 1 .. h : a.i.waiters_[x] # r) => s.got[r] = a.got[r]

\* What the receives that wait and the messages are to each other.
LEMMA Apart ==
  ASSUME NEW N \in Nat, NEW a, NEW ms, Fine(a, N, ms)
  PROVE  /\ a.i \in Impl /\ a.i.waiters_ \in Seq(Operations) /\ a.i.buffer_ \in Seq(Messages)
         /\ a.outcome \in [Operations -> Outcomes] /\ a.got \in [Receivers -> Messages \cup {NoMessage}]
         /\ ms \in Seq(Messages) /\ Len(ms) = N /\ Len(a.i.waiters_) \in Nat
         /\ \A x, y \in 1 .. Len(a.i.waiters_) : a.i.waiters_[x] = a.i.waiters_[y] => x = y
         /\ \A x \in 1 .. Len(a.i.waiters_) :
               /\ a.i.waiters_[x] \in Operations /\ a.i.waiters_[x] \in ToSet(a.i.waiters_)
               /\ a.outcome[a.i.waiters_[x]] = "waits"
         /\ \A x \in 1 .. N : ms[x] \in Operations /\ ms[x] \in Messages
<1>1. /\ a.i \in Impl /\ a.i.waiters_ \in Seq(Operations) /\ a.i.buffer_ \in Seq(Messages)
      /\ a.outcome \in [Operations -> Outcomes] /\ a.got \in [Receivers -> Messages \cup {NoMessage}]
      /\ ms \in [1 .. N -> Messages] /\ Own(a.i, a.outcome)
  BY DEF Fine, Working, Impl
<1>2. PICK w \in Seq(Operations) : w = a.i.waiters_
  BY <1>1
<1>3. \A x \in 1 .. Len(w) : w[x] \in Operations /\ w[x] \in ToSet(w)
  BY ElementsOf, ElementOfSeq
<1>4. \A x, y \in 1 .. Len(w) : w[x] = w[y] => x = y
  <2>1. \A o \in Operations : AtMostOnce(w, o)
    BY <1>1, <1>2 DEF Own
  <2> QED BY <1>3, <2>1 DEF AtMostOnce
<1>5. \A x \in 1 .. Len(w) : a.outcome[w[x]] = "waits"
  BY <1>1, <1>2, <1>3 DEF Own
<1>6. ms \in Seq(Messages) /\ Len(ms) = N /\ Len(w) \in Nat
  BY <1>1, LenProperties
<1>7. \A x \in 1 .. N : ms[x] \in Operations /\ ms[x] \in Messages
  BY <1>1 DEF Operations
<1> QED BY <1>1, <1>2, <1>3, <1>4, <1>5, <1>6, <1>7

\* The message goes to the first receive that waits.
LEMMA HandsOver ==
  ASSUME NEW N \in Nat, NEW a, NEW ms, Fine(a, N, ms), NEW n \in 1 .. N, NEW k \in 0 .. n - 1, NEW h \in 0 .. k,
         NEW s, s \in Working, Sound(s.i), SoFar(a, ms, n - 1, k, h, s), s.i.send_state_ = "waiter"
  PROVE  SoFar(a, ms, n, n, n, SendOne(s, ms[n]))
<1> DEFINE W == a.i.waiters_
<1>1. /\ W \in Seq(Operations) /\ ms \in Seq(Messages) /\ Len(ms) = N /\ Len(W) \in Nat
      /\ \A x, y \in 1 .. Len(W) : W[x] = W[y] => x = y
      /\ \A x \in 1 .. Len(W) : W[x] \in Operations /\ W[x] \in ToSet(W)
      /\ \A x \in 1 .. N : ms[x] \in Operations /\ ms[x] \in Messages
  BY Apart
<1>2. k = n - 1 /\ s.i.waiters_ = SubSeq(W, h + 1, Len(W))
      /\ h <= Len(W) /\ (h < k => h = Len(W)) /\ (k > 0 => ToSet(W) \subseteq Receivers /\ a.i.send_state_ # "closed")
      /\ s.i.buffer_ = a.i.buffer_ \o SubSeq(ms, h + 1, k)
      /\ s.i.max_buffer_size_ = a.i.max_buffer_size_
  <2>1. ~(k < n - 1)
    BY DEF SoFar
  <2>2. k = n - 1
    BY <2>1
  <2> QED BY <2>2 DEF SoFar
<1>3. s.i.waiters_ # <<>> /\ ToSet(s.i.waiters_) \subseteq Receivers /\ s.i.waiters_ \in Seq(Operations)
  BY KindsApart DEF Sound, Impl
<1> HIDE DEF W
<1>4. h # Len(W)
  <2>1. h \in 0 .. Len(W)
    BY <1>1, <1>2
  <2> QED BY <1>1, <1>2, <1>3, <2>1, RestFacts
<1>5. h = k /\ h < Len(W) /\ h + 1 = n /\ n \in 1 .. Len(W) /\ h \in 0 .. Len(W)
  BY <1>1, <1>2, <1>4
<1>6. Head(s.i.waiters_) = W[n] /\ Tail(s.i.waiters_) = SubSeq(W, n + 1, Len(W))
  BY <1>1, <1>2, <1>5, RestFacts
<1>7. ToSet(W) \subseteq Receivers /\ a.i.send_state_ # "closed"
  <2>1. CASE k = 0
    <3>1. s.i.waiters_ = W /\ a.i.send_state_ = "waiter"
      BY <1>5, <2>1 DEF SoFar, W
    <3> QED BY <1>3, <3>1
  <2> QED BY <1>2, <2>1
<1>8. W[n] \in Receivers /\ W[n] \in Operations
  BY <1>1, <1>5, <1>7
<1>9. PICK j : j = [s.i EXCEPT !.waiters_ = Tail(@), !.send_state_ = AfterHandOver(s.i, Tail(s.i.waiters_))]
  OBVIOUS
<1>10. PICK t : t = SendOne(s, ms[n]) /\ t = [i |-> j, outcome |-> [s.outcome EXCEPT ![W[n]] = "ok", ![ms[n]] = "ok"],
                                              got |-> [s.got EXCEPT ![W[n]] = ms[n]]]
  BY <1>6, <1>9 DEF SendOne
<1>11. s.i \in Impl /\ s.outcome \in [Operations -> Outcomes] /\ s.got \in [Receivers -> Messages \cup {NoMessage}]
  BY DEF Working
<1>12. /\ j.waiters_ = SubSeq(W, n + 1, Len(W)) /\ j.buffer_ = s.i.buffer_
       /\ j.max_buffer_size_ = s.i.max_buffer_size_
  BY <1>6, <1>9, <1>11 DEF Impl
<1>13. t.i = j /\ t.outcome = [s.outcome EXCEPT ![W[n]] = "ok", ![ms[n]] = "ok"] /\ t.got = [s.got EXCEPT ![W[n]] = ms[n]]
  BY <1>10
<1>14. t.i.buffer_ = a.i.buffer_ \o SubSeq(ms, n + 1, n)
  <2>1. SubSeq(ms, h + 1, k) = SubSeq(ms, n + 1, n)
    <3>1. k \in 0 .. Len(ms) /\ n \in 0 .. Len(ms)
      BY <1>1
    <3>2. SubSeq(ms, k + 1, k) = <<>> /\ SubSeq(ms, n + 1, n) = <<>>
      BY <1>1, <3>1, OneLonger
    <3> QED BY <1>5, <3>2
  <2> QED BY <1>2, <1>12, <1>13, <2>1
<1>15. ASSUME NEW o \in Operations PROVE t.outcome[o] = OutcomeThen(a, ms, n, n, n, o)
  <2>1. t.outcome[o] = IF o = ms[n] \/ o = W[n] THEN "ok" ELSE s.outcome[o]
    BY <1>1, <1>8, <1>11, <1>13
  <2>2. s.outcome[o] = IF (\E x \in 1 .. k : o = ms[x]) \/ (\E x \in 1 .. h : o = W[x]) THEN "ok" ELSE a.outcome[o]
    BY <1>2 DEF SoFar, OutcomeThen, W
  <2>3. \A x \in 1 .. n : x \in 1 .. k \/ x = n
    BY <1>2
  <2>4. n \in 1 .. n /\ \A x \in 1 .. k : x \in 1 .. n
    BY <1>2
  <2> QED BY <1>5, <2>1, <2>2, <2>3, <2>4 DEF OutcomeThen, W
<1>16. ASSUME NEW x \in 1 .. n PROVE t.got[W[x]] = ms[x]
  <2>1. W[x] \in Receivers
    BY <1>1, <1>5, <1>7, <1>16
  <2>2. CASE x = n
    BY <1>8, <1>11, <1>13, <2>2
  <2>3. CASE x # n
    <3>1. x \in 1 .. h /\ W[x] # W[n]
      BY <1>1, <1>5, <2>3
    <3>2. s.got[W[x]] = ms[x]
      BY <3>1 DEF SoFar, W
    <3> QED BY <1>11, <1>13, <2>1, <3>1, <3>2
  <2> QED BY <2>2, <2>3
<1>17. ASSUME NEW r \in Receivers, \A x \in 1 .. n : W[x] # r PROVE t.got[r] = a.got[r]
  <2>1. r # W[n] /\ \A x \in 1 .. h : W[x] # r
    BY <1>5, <1>17
  <2>2. s.got[r] = a.got[r]
    BY <2>1 DEF SoFar, W
  <2> QED BY <1>11, <1>13, <2>1, <2>2
<1>18. n <= Len(W) /\ ~(n < n) /\ n # 0 /\ t.i.waiters_ = SubSeq(W, n + 1, Len(W))
       /\ t.i.max_buffer_size_ = a.i.max_buffer_size_
  BY <1>1, <1>2, <1>5, <1>12, <1>13
<1>19. SoFar(a, ms, n, n, n, t)
  BY <1>7, <1>14, <1>15, <1>16, <1>17, <1>18 DEF SoFar, W
<1> QED BY <1>10, <1>19

\* The message enters the buffer.
LEMMA Buffers ==
  ASSUME NEW N \in Nat, NEW a, NEW ms, Fine(a, N, ms), NEW n \in 1 .. N, NEW k \in 0 .. n - 1, NEW h \in 0 .. k,
         NEW s, s \in Working, Sound(s.i), SoFar(a, ms, n - 1, k, h, s), s.i.send_state_ = "buffer"
  PROVE  SoFar(a, ms, n, n, h, SendOne(s, ms[n]))
<1> DEFINE W == a.i.waiters_
<1>1. /\ W \in Seq(Operations) /\ ms \in Seq(Messages) /\ Len(ms) = N /\ Len(W) \in Nat
      /\ a.i.buffer_ \in Seq(Messages)
      /\ \A x \in 1 .. N : ms[x] \in Operations /\ ms[x] \in Messages
  BY Apart
<1>2. k = n - 1 /\ s.i.waiters_ = SubSeq(W, h + 1, Len(W))
      /\ h <= Len(W) /\ (h < k => h = Len(W)) /\ (k > 0 => ToSet(W) \subseteq Receivers /\ a.i.send_state_ # "closed")
      /\ s.i.buffer_ = a.i.buffer_ \o SubSeq(ms, h + 1, k)
      /\ s.i.max_buffer_size_ = a.i.max_buffer_size_
  <2>1. ~(k < n - 1)
    BY DEF SoFar
  <2>2. k = n - 1
    BY <2>1
  <2> QED BY <2>2 DEF SoFar
<1>3. s.i.waiters_ = <<>>
  BY KindsApart
<1> HIDE DEF W
<1>4. h = Len(W)
  <2>1. h \in 0 .. Len(W)
    BY <1>1, <1>2
  <2> QED BY <1>1, <1>2, <1>3, <2>1, RestFacts
<1>5. ToSet(W) \subseteq Receivers /\ a.i.send_state_ # "closed"
  <2>1. CASE k = 0
    <3>1. s.i.waiters_ = W /\ a.i.send_state_ = "buffer"
      BY <2>1 DEF SoFar, W
    <3> QED BY <1>3, <3>1, NoneWaits
  <2> QED BY <1>2, <2>1
<1>6. PICK j : j = Push(s.i, ms[n])
  OBVIOUS
<1>7. s.i \in Impl /\ s.outcome \in [Operations -> Outcomes] /\ s.got \in [Receivers -> Messages \cup {NoMessage}]
  BY DEF Working
<1>8. /\ j.waiters_ = s.i.waiters_ /\ j.buffer_ = Append(s.i.buffer_, ms[n])
      /\ j.max_buffer_size_ = s.i.max_buffer_size_
  BY <1>6, <1>7 DEF Impl, Push
<1>9. PICK t : t = SendOne(s, ms[n]) /\ t = [s EXCEPT !.i = j, !.outcome[ms[n]] = "ok"]
  BY <1>6 DEF SendOne
<1>10. t.i = j /\ t.outcome = [s.outcome EXCEPT ![ms[n]] = "ok"] /\ t.got = s.got
  BY <1>9 DEF Working
<1>11. t.i.buffer_ = a.i.buffer_ \o SubSeq(ms, h + 1, n)
  <2>1. k \in 0 .. Len(ms) /\ h \in 0 .. k /\ k < Len(ms) /\ k + 1 = n
    <3>1. Len(ms) = N /\ k = n - 1
      BY <1>1, <1>2
    <3> QED BY <3>1
  <2>2. PICK p \in Seq(Messages) : p = SubSeq(ms, h + 1, k) /\ SubSeq(ms, h + 1, n) = Append(p, ms[n])
    <3>1. SubSeq(ms, h + 1, k) \in Seq(Messages) /\ SubSeq(ms, h + 1, k + 1) = Append(SubSeq(ms, h + 1, k), ms[k + 1])
      BY <1>1, <2>1, OneLonger
    <3> QED BY <2>1, <3>1, Zenon
  <2>3. PICK b \in Seq(Messages), m \in Messages : b = a.i.buffer_ /\ m = ms[n]
    BY <1>1
  <2>4. Append(b \o p, m) = b \o Append(p, m)
    <3>1. b \o p \in Seq(Messages)
      BY ConcatProperties
    <3>2. Append(b \o p, m) = (b \o p) \o <<m>> /\ Append(p, m) = p \o <<m>>
      BY <3>1, AppendIsConcat
    <3>3. b \o (p \o <<m>>) = (b \o p) \o <<m>>
      BY ConcatAppend
    <3> QED BY <3>2, <3>3
  <2> QED BY <1>2, <1>8, <1>10, <2>2, <2>3, <2>4
<1>12. ASSUME NEW o \in Operations PROVE t.outcome[o] = OutcomeThen(a, ms, n, n, h, o)
  <2>1. t.outcome[o] = IF o = ms[n] THEN "ok" ELSE s.outcome[o]
    BY <1>1, <1>7, <1>10
  <2>2. s.outcome[o] = IF (\E x \in 1 .. k : o = ms[x]) \/ (\E x \in 1 .. h : o = W[x]) THEN "ok" ELSE a.outcome[o]
    BY <1>2 DEF SoFar, OutcomeThen, W
  <2>3. \A x \in 1 .. n : x \in 1 .. k \/ x = n
    BY <1>2
  <2>4. n \in 1 .. n /\ \A x \in 1 .. k : x \in 1 .. n
    BY <1>2
  <2> QED BY <2>1, <2>2, <2>3, <2>4 DEF OutcomeThen, W
<1>13. /\ \A x \in 1 .. h : t.got[W[x]] = ms[x]
       /\ \A r \in Receivers : (\A x \in 1 .. h : W[x] # r) => t.got[r] = a.got[r]
  BY <1>10 DEF SoFar, W
<1>14. h <= Len(W) /\ (h < n => h = Len(W)) /\ ~(n < n) /\ n # 0 /\ t.i.waiters_ = SubSeq(W, h + 1, Len(W))
       /\ t.i.max_buffer_size_ = a.i.max_buffer_size_
  BY <1>2, <1>4, <1>8, <1>10
<1>15. SoFar(a, ms, n, n, h, t)
  BY <1>5, <1>11, <1>12, <1>13, <1>14 DEF SoFar, W
<1> QED BY <1>9, <1>15

\* The message is refused, and so are those after it.
LEMMA Refuses ==
  ASSUME NEW N \in Nat, NEW a, NEW ms, Fine(a, N, ms), NEW n \in 1 .. N, NEW k \in 0 .. n - 1, NEW h \in 0 .. k,
         NEW s, s \in Working, SoFar(a, ms, n - 1, k, h, s), s.i.send_state_ \notin {"waiter", "buffer"}
  PROVE  SoFar(a, ms, n, k, h, SendOne(s, ms[n]))
<1> DEFINE W == a.i.waiters_
<1>1. /\ \A x \in 1 .. N : ms[x] \in Operations /\ ms[x] \in Messages
      /\ \A x \in 1 .. Len(W) : a.outcome[W[x]] = "waits"
      /\ h <= Len(W) /\ Len(W) \in Nat
  BY Apart DEF SoFar
<1>2. PICK t : t = SendOne(s, ms[n]) /\ t = [s EXCEPT !.outcome[ms[n]] = "refused"]
  BY DEF SendOne
<1>3. t.i = s.i /\ t.outcome = [s.outcome EXCEPT ![ms[n]] = "refused"] /\ t.got = s.got
      /\ s.outcome \in [Operations -> Outcomes]
  BY <1>2 DEF Working
<1>4. ASSUME NEW o \in Operations PROVE t.outcome[o] = OutcomeThen(a, ms, n, k, h, o)
  <2>1. t.outcome[o] = IF o = ms[n] THEN "refused" ELSE s.outcome[o]
    BY <1>1, <1>3
  <2>2. s.outcome[o] = OutcomeThen(a, ms, n - 1, k, h, o)
    BY DEF SoFar
  <2>3. CASE o = ms[n]
    <3>1. ASSUME NEW x \in 1 .. k PROVE o # ms[x]
      <4>1. x \in 1 .. N /\ x # n
        OBVIOUS
      <4> QED BY <2>3, <4>1 DEF Fine
    <3>2. ASSUME NEW x \in 1 .. h PROVE o # W[x]
      <4>1. x \in 1 .. Len(W) /\ a.outcome[ms[n]] = "new"
        BY <1>1 DEF Fine
      <4> QED BY <1>1, <2>3, <4>1
    <3>3. n \in k + 1 .. n
      OBVIOUS
    <3> QED BY <2>1, <2>3, <3>1, <3>2, <3>3 DEF OutcomeThen
  <2>4. CASE o # ms[n]
    <3>1. (\E x \in k + 1 .. n : o = ms[x]) <=> (\E x \in k + 1 .. n - 1 : o = ms[x])
      <4>1. \A x \in k + 1 .. n : x = n \/ x \in k + 1 .. n - 1
        OBVIOUS
      <4>2. \A x \in k + 1 .. n - 1 : x \in k + 1 .. n
        OBVIOUS
      <4> QED BY <2>4, <4>1, <4>2
    <3> QED BY <2>1, <2>2, <2>4, <3>1 DEF OutcomeThen
  <2> QED BY <2>3, <2>4
<1>5. SoFar(a, ms, n, k, h, t)
  BY <1>3, <1>4 DEF SoFar
<1> QED BY <1>2, <1>5

\* Nothing has had its turn.
LEMMA NothingSent ==
  ASSUME NEW N \in Nat, NEW a, NEW ms, Fine(a, N, ms)
  PROVE  SoFar(a, ms, 0, 0, 0, a)
<1>1. PICK w \in Seq(Operations) : w = a.i.waiters_ /\ Len(w) \in Nat
  BY Apart
<1>2. PICK b \in Seq(Messages) : b = a.i.buffer_
  BY Apart
<1>3. SubSeq(w, 0 + 1, Len(w)) = w
  BY SubSeqFull
<1>4. b \o SubSeq(ms, 0 + 1, 0) = b
  <2>1. SubSeq(ms, 0 + 1, 0) = <<>>
    BY SubSeqEmpty
  <2> QED BY <2>1, ConcatEmptySeq
<1>5. \A o \in Operations : a.outcome[o] = OutcomeThen(a, ms, 0, 0, 0, o)
  BY DEF OutcomeThen
<1>6. 0 <= Len(w)
  BY <1>1
<1> QED BY <1>1, <1>2, <1>3, <1>4, <1>5, <1>6 DEF SoFar

\* One more turn.
LEMMA OneTurn ==
  ASSUME NEW N \in Nat, NEW a, NEW ms, Fine(a, N, ms), NEW n \in 1 .. N,
         NEW s, s \in Working, Sound(s.i), \E k \in 0 .. n - 1 : \E h \in 0 .. k : SoFar(a, ms, n - 1, k, h, s)
  PROVE  \E k \in 0 .. n : \E h \in 0 .. k : SoFar(a, ms, n, k, h, SendOne(s, ms[n]))
<1>1. PICK k \in 0 .. n - 1 : \E h \in 0 .. k : SoFar(a, ms, n - 1, k, h, s)
  OBVIOUS
<1>2. PICK h \in 0 .. k : SoFar(a, ms, n - 1, k, h, s)
  BY <1>1
<1>3. k \in 0 .. n /\ n \in 0 .. n /\ h \in 0 .. n /\ h \in 0 .. k
  OBVIOUS
<1>4. CASE s.i.send_state_ = "waiter"
  <2>1. SoFar(a, ms, n, n, n, SendOne(s, ms[n]))
    BY <1>2, <1>4, HandsOver
  <2> QED BY <1>3, <2>1
<1>5. CASE s.i.send_state_ = "buffer"
  <2>1. SoFar(a, ms, n, n, h, SendOne(s, ms[n]))
    BY <1>2, <1>5, Buffers
  <2> QED BY <1>3, <2>1
<1>6. CASE s.i.send_state_ \notin {"waiter", "buffer"}
  <2>1. SoFar(a, ms, n, k, h, SendOne(s, ms[n]))
    BY <1>2, <1>6, Refuses
  <2> QED BY <1>3, <2>1
<1> QED BY <1>4, <1>5, <1>6

\* Every message has had its turn.
LEMMA AllTurns ==
  ASSUME NEW N \in Nat, NEW a, NEW ms, Fine(a, N, ms), NEW sent, NEW closed, TurnsKeep(a, N, ms, sent, closed)
  PROVE  \E k \in 0 .. N : \E h \in 0 .. k : SoFar(a, ms, N, k, h, sent[N])
<1> DEFINE S == {n \in Nat : n <= N => \E k \in 0 .. n : \E h \in 0 .. k : SoFar(a, ms, n, k, h, sent[n])}
<1>1. 0 \in S
  <2>1. SoFar(a, ms, 0, 0, 0, sent[0])
    BY NothingSent DEF TurnsKeep
  <2>2. \E k \in 0 .. 0 : \E h \in 0 .. k : SoFar(a, ms, 0, k, h, sent[0])
    <3>1. 0 \in 0 .. 0
      OBVIOUS
    <3> QED BY <2>1, <3>1
  <2> QED BY <2>2
<1>2. ASSUME NEW n \in Nat, n \in S PROVE n + 1 \in S
  <2> SUFFICES ASSUME n + 1 <= N
               PROVE  \E k \in 0 .. n + 1 : \E h \in 0 .. k : SoFar(a, ms, n + 1, k, h, sent[n + 1])
    OBVIOUS
  <2>1. PICK m \in 1 .. N : m = n + 1 /\ m - 1 = n
    OBVIOUS
  <2>2. PICK s : s = sent[n]
    OBVIOUS
  <2>3. \E k \in 0 .. m - 1 : \E h \in 0 .. k : SoFar(a, ms, m - 1, k, h, s)
    BY <1>2, <2>1, <2>2
  <2>4. sent[m] = SendOne(s, ms[m]) /\ Kept(s, closed)
    <3>1. n \in 0 .. N
      BY <2>1
    <3>2. sent[m] = SendOne(sent[m - 1], ms[m]) /\ Kept(sent[n], closed)
      BY <3>1 DEF TurnsKeep
    <3> QED BY <2>1, <2>2, <3>2
  <2>5. s \in Working /\ Sound(s.i)
    BY <2>4 DEF Kept
  <2>6. \E k \in 0 .. m : \E h \in 0 .. k : SoFar(a, ms, m, k, h, SendOne(s, ms[m]))
    BY <2>3, <2>5, OneTurn
  <2> QED BY <2>1, <2>4, <2>6
<1>3. N \in S
  <2> HIDE DEF S
  <2> QED BY <1>1, <1>2, SetInduction
<1> QED BY <1>3

\* The step of channel c that sends k of the N messages ms, h of them to receives that wait.
Sent(c, N, ms, k, h, s) ==
    /\ Usable(c) /\ Fine(Now(c), N, ms) /\ Kept(s, impl[c].send_state_ = "closed") /\ Apply(c, s)
    /\ SoFar(Now(c), ms, N, k, h, s)

\* What is left and what has come, one by one.
SentView(c, N, ms, k, h, s) ==
    /\ s.i \in Impl /\ Sound(s.i) /\ s.i.send_state_ # "closed" /\ impl[c].send_state_ # "closed"
    /\ impl' = [impl EXCEPT ![c] = s.i] /\ impl_list_' = impl_list_ /\ down' = down
    /\ got' \in [Receivers -> Messages \cup {NoMessage}]
    /\ \A o \in Operations :
          outcome'[o] = IF (\E x \in 1 .. k : o = ms[x]) \/ (\E x \in 1 .. h : o = impl[c].waiters_[x]) THEN "ok"
                        ELSE IF \E x \in k + 1 .. N : o = ms[x] THEN "refused" ELSE outcome[o]
    /\ ToSet(impl[c].waiters_) \subseteq Receivers /\ h <= Len(impl[c].waiters_)
    /\ (h < k => h = Len(impl[c].waiters_))
    /\ \A x \in 1 .. Len(s.i.waiters_) :
          h + x \in 1 .. Len(impl[c].waiters_) /\ s.i.waiters_[x] = impl[c].waiters_[h + x]
    /\ s.i.waiters_ = SubSeq(impl[c].waiters_, h + 1, Len(impl[c].waiters_))
    /\ s.i.buffer_ = impl[c].buffer_ \o SubSeq(ms, h + 1, k)
    /\ s.i.max_buffer_size_ = impl[c].max_buffer_size_
    /\ \A m : m \in ToSet(s.i.buffer_) <=> \/ m \in ToSet(impl[c].buffer_)
                                           \/ \E x \in h + 1 .. k : m = ms[x]

LEMMA SentFacts ==
  ASSUME FifoInv, NEW c \in Channels, NEW N \in Nat, NEW k \in 1 .. N, NEW h \in 0 .. k, NEW ms, NEW s,
         Sent(c, N, ms, k, h, s)
  PROVE  SentView(c, N, ms, k, h, s)
<1> DEFINE a == Now(c)
           W == impl[c].waiters_
<1>1. a.i = impl[c] /\ a.outcome = outcome /\ a.got = got
  BY DEF Now
<1>2. Fine(a, N, ms) /\ SoFar(a, ms, N, k, h, s) /\ Kept(s, impl[c].send_state_ = "closed") /\ Apply(c, s)
  BY DEF Sent
<1>3. /\ W \in Seq(Operations) /\ ms \in Seq(Messages) /\ Len(ms) = N /\ Len(W) \in Nat
      /\ impl[c].buffer_ \in Seq(Messages) /\ impl[c] \in Impl
      /\ \A x \in 1 .. Len(W) : W[x] \in Operations
  <2> HIDE DEF a
  <2> QED BY <1>1, <1>2, Apart
<1>4. k > 0
  OBVIOUS
<1> HIDE DEF a
<1>5. /\ ToSet(W) \subseteq Receivers /\ impl[c].send_state_ # "closed" /\ h <= Len(W) /\ (h < k => h = Len(W))
      /\ s.i.waiters_ = SubSeq(W, h + 1, Len(W)) /\ s.i.buffer_ = impl[c].buffer_ \o SubSeq(ms, h + 1, k)
      /\ s.i.max_buffer_size_ = impl[c].max_buffer_size_
  BY <1>1, <1>2, <1>4 DEF SoFar
<1>6. /\ s \in Working /\ s.i \in Impl /\ Sound(s.i) /\ s.i.send_state_ # "closed"
      /\ s.got \in [Receivers -> Messages \cup {NoMessage}]
  BY <1>2, <1>5 DEF Kept, Working
<1>7. /\ impl' = [impl EXCEPT ![c] = s.i] /\ impl_list_' = impl_list_ /\ down' = down
      /\ outcome' = s.outcome /\ got' = s.got
  BY <1>2 DEF Apply
<1>8. \A o \in Operations :
         outcome'[o] = IF (\E x \in 1 .. k : o = ms[x]) \/ (\E x \in 1 .. h : o = W[x]) THEN "ok"
                       ELSE IF \E x \in k + 1 .. N : o = ms[x] THEN "refused" ELSE outcome[o]
  BY <1>1, <1>2, <1>7 DEF SoFar, OutcomeThen
<1>9. \A x \in 1 .. Len(s.i.waiters_) : h + x \in 1 .. Len(W) /\ s.i.waiters_[x] = W[h + x]
  <2> HIDE DEF W
  <2>1. PICK n \in Nat : n = h
    OBVIOUS
  <2>2. /\ Len(SubSeq(W, n + 1, Len(W))) = IF n + 1 <= Len(W) THEN Len(W) - (n + 1) + 1 ELSE 0
        /\ \A x \in 1 .. Len(W) - (n + 1) + 1 : SubSeq(W, n + 1, Len(W))[x] = W[(n + 1) + x - 1]
    BY <1>3, SubSeqProperties
  <2>3. ASSUME NEW x \in 1 .. Len(s.i.waiters_) PROVE h + x \in 1 .. Len(W) /\ s.i.waiters_[x] = W[h + x]
    <3>1. Len(s.i.waiters_) = IF n + 1 <= Len(W) THEN Len(W) - n ELSE 0
      BY <1>3, <1>5, <2>1, <2>2
    <3>2. x \in 1 .. Len(W) - (n + 1) + 1 /\ (n + 1) + x - 1 = h + x /\ h + x \in 1 .. Len(W)
      BY <1>3, <2>1, <2>3, <3>1
    <3>3. SubSeq(W, n + 1, Len(W))[x] = W[(n + 1) + x - 1]
      BY <2>2, <3>2
    <3> QED BY <1>5, <2>1, <3>2, <3>3
  <2> QED BY <2>3
<1>10. \A m : m \in ToSet(s.i.buffer_) <=> m \in ToSet(impl[c].buffer_) \/ \E x \in h + 1 .. k : m = ms[x]
  <2>1. PICK b \in Seq(Messages) : b = impl[c].buffer_
    BY <1>3
  <2>2. k \in 0 .. Len(ms) /\ h \in 0 .. k
    BY <1>3
  <2>3. SubSeq(ms, h + 1, k) \in Seq(Messages)
    BY <1>3, <2>2, OneLonger
  <2>4. PICK p \in Seq(Messages) : p = SubSeq(ms, h + 1, k)
    BY <2>3, Zenon
  <2>5. \A m : Has(p, m) <=> \E x \in h + 1 .. k : m = ms[x]
    <3>1. PICK l \in Int, u \in Int : l = h + 1 /\ u = k
      OBVIOUS
    <3>2. \A x \in l .. u : ms[x] \in Messages
      BY <1>3, <3>1, ElementOfSeq
    <3>3. /\ Len(SubSeq(ms, l, u)) = IF l <= u THEN u - l + 1 ELSE 0
          /\ \A x \in 1 .. u - l + 1 : SubSeq(ms, l, u)[x] = ms[l + x - 1]
      BY <3>2, SubSeqProperties
    <3>4. Len(p) = k - h /\ \A x \in 1 .. k - h : p[x] = ms[h + x]
      <4>1. /\ Len(p) = IF l <= u THEN u - l + 1 ELSE 0
            /\ \A x \in 1 .. u - l + 1 : p[x] = ms[l + x - 1]
        BY <2>4, <3>1, <3>3
      <4> QED BY <3>1, <4>1
    <3>5. \A x \in h + 1 .. k : x - h \in 1 .. k - h /\ h + (x - h) = x
      OBVIOUS
    <3>6. \A x \in 1 .. k - h : h + x \in h + 1 .. k
      OBVIOUS
    <3>7. ASSUME NEW m, NEW x \in h + 1 .. k, m = ms[x] PROVE Has(p, m)
      <4>1. x - h \in 1 .. Len(p) /\ p[x - h] = ms[x]
        BY <3>4, <3>5
      <4> QED BY <3>7, <4>1 DEF Has
    <3>8. ASSUME NEW m, Has(p, m) PROVE \E x \in h + 1 .. k : m = ms[x]
      BY <3>4, <3>6, <3>8 DEF Has
    <3> QED BY <3>7, <3>8
  <2>6. \A m : Has(b \o p, m) <=> Has(b, m) \/ Has(p, m)
    BY ConcatHas
  <2>7. PICK q \in Seq(Messages) : q = b \o p /\ q = s.i.buffer_
    <3>1. b \o p \in Seq(Messages)
      BY ConcatProperties
    <3> QED BY <1>5, <2>1, <2>4, <3>1
  <2>8. \A m : (m \in ToSet(q) <=> Has(q, m)) /\ (m \in ToSet(b) <=> Has(b, m))
    <3>1. ToSet(q) = {q[n] : n \in 1 .. Len(q)} /\ ToSet(b) = {b[n] : n \in 1 .. Len(b)}
      BY ElementsOf
    <3> QED BY <3>1 DEF Has
  <2> QED BY <2>1, <2>5, <2>6, <2>7, <2>8
<1> QED BY <1>3, <1>5, <1>6, <1>7, <1>8, <1>9, <1>10 DEF SentView

\* The order of what the channel holds is kept.
LEMMA SentOrder ==
  ASSUME FifoInv, NEW c \in Channels, NEW N \in Nat, NEW k \in 1 .. N, NEW h \in 0 .. k, NEW ms, NEW s,
         Sent(c, N, ms, k, h, s)
  PROVE  /\ Own(s.i, outcome') /\ OrderInv'
         /\ \A x, y \in 1 .. Len(impl[c].waiters_) : impl[c].waiters_[x] = impl[c].waiters_[y] => x = y
<1> DEFINE W == impl[c].waiters_
<1>1. PICK j : j = s.i
  OBVIOUS
<1>2. PICK i : i = impl[c]
  OBVIOUS
<1>3. /\ j \in Impl /\ j.send_state_ # "closed" /\ i.send_state_ # "closed"
      /\ impl' = [impl EXCEPT ![c] = j] /\ impl_list_' = impl_list_ /\ down' = down
      /\ ToSet(W) \subseteq Receivers /\ h <= Len(W)
      /\ \A x \in 1 .. Len(j.waiters_) : h + x \in 1 .. Len(W) /\ j.waiters_[x] = W[h + x]
      /\ \A m : m \in ToSet(j.buffer_) <=> m \in ToSet(i.buffer_) \/ \E x \in h + 1 .. k : m = ms[x]
  <2>1. SentView(c, N, ms, k, h, s)
    BY SentFacts
  <2> QED BY <1>1, <1>2, <2>1 DEF SentView
<1>4. \A o \in Operations :
         outcome'[o] = IF (\E x \in 1 .. k : o = ms[x]) \/ (\E x \in 1 .. h : o = W[x]) THEN "ok"
                       ELSE IF \E x \in k + 1 .. N : o = ms[x] THEN "refused" ELSE outcome[o]
  <2>1. SentView(c, N, ms, k, h, s)
    BY SentFacts
  <2> QED BY <2>1 DEF SentView
<1>5. /\ W \in Seq(Operations) /\ Len(W) \in Nat
      /\ \A x, y \in 1 .. Len(W) : W[x] = W[y] => x = y
      /\ \A x \in 1 .. Len(W) : W[x] \in Operations /\ W[x] \in ToSet(W) /\ outcome[W[x]] = "waits"
      /\ \A x \in 1 .. N : ms[x] \in Operations /\ ms[x] \in Messages
  <2>1. PICK a : a = Now(c)
    OBVIOUS
  <2>2. a.i = impl[c] /\ a.outcome = outcome
    BY <2>1 DEF Now
  <2>3. Fine(a, N, ms)
    BY <2>1 DEF Sent
  <2>4. /\ a.i.waiters_ \in Seq(Operations) /\ Len(a.i.waiters_) \in Nat
        /\ \A x, y \in 1 .. Len(a.i.waiters_) : a.i.waiters_[x] = a.i.waiters_[y] => x = y
        /\ \A x \in 1 .. Len(a.i.waiters_) :
              /\ a.i.waiters_[x] \in Operations /\ a.i.waiters_[x] \in ToSet(a.i.waiters_)
              /\ a.outcome[a.i.waiters_[x]] = "waits"
        /\ \A x \in 1 .. N : ms[x] \in Operations /\ ms[x] \in Messages
    BY <2>3, Apart
  <2> QED BY <2>2, <2>4
<1>6. /\ \A x \in 1 .. N : outcome[ms[x]] = "new"
      /\ Messages \cap Receivers = {} /\ \A r \in Receivers : r \in Operations
  BY ConstantsAssumption DEF Sent, Fine, Now, Operations
<1>7. /\ impl_list_ \subseteq Channels /\ c \in impl_list_ /\ ~down /\ Own(i, outcome) /\ i \in Impl
      /\ impl \in [Channels -> Impl]
  BY <1>2, BeforeStep DEF Sent, Usable
<1>8. j.waiters_ \in Seq(Operations) /\ ToSet(j.buffer_) \subseteq Operations
  BY <1>3, FieldTypes, ElementsOf
<1> HIDE DEF W
<1>9. ASSUME NEW x \in Operations PROVE AtMostOnce(j.waiters_, x)
  <2>1. ASSUME NEW y \in 1 .. Len(j.waiters_), NEW z \in 1 .. Len(j.waiters_),
               j.waiters_[y] = x, j.waiters_[z] = x
        PROVE  y = z
    <3>1. /\ h + y \in 1 .. Len(W) /\ j.waiters_[y] = W[h + y]
          /\ h + z \in 1 .. Len(W) /\ j.waiters_[z] = W[h + z]
      BY <1>3
    <3>2. W[h + y] = W[h + z]
      BY <3>1, <2>1
    <3>3. \A u, v \in 1 .. Len(W) : W[u] = W[v] => u = v
      BY <1>5
    <3>4. h + y = h + z
      BY <3>1, <3>2, <3>3
    <3>5. h \in Nat
      BY DEF Sent
    <3> QED BY <3>4, <3>5
  <2> QED BY <2>1 DEF AtMostOnce
<1>10. ASSUME NEW x \in 1 .. Len(j.waiters_)
       PROVE  j.waiters_[x] \in ToSet(W) /\ outcome'[j.waiters_[x]] = "waits"
  <2>1. PICK y \in 1 .. Len(W) : y = h + x /\ j.waiters_[x] = W[y]
    BY <1>3
  <2>2. W[y] \in Operations /\ W[y] \in ToSet(W) /\ outcome[W[y]] = "waits" /\ W[y] \in Receivers
    BY <1>3, <1>5
  <2>3. \A z \in 1 .. h : W[z] # W[y]
    BY <1>3, <1>5, <2>1
  <2>4. \A z \in 1 .. N : ms[z] # W[y]
    BY <1>5, <1>6, <2>2
  <2>5. (\A z \in 1 .. k : ms[z] # W[y]) /\ \A z \in k + 1 .. N : ms[z] # W[y]
    BY <2>4
  <2> QED BY <1>4, <2>1, <2>2, <2>3, <2>5
<1>11. \A o \in ToSet(j.waiters_) : o \in ToSet(W) /\ outcome'[o] = "waits"
  <2>1. ToSet(j.waiters_) = {j.waiters_[n] : n \in 1 .. Len(j.waiters_)}
    BY <1>8, ElementsOf
  <2> QED BY <1>10, <2>1
<1>12. ASSUME NEW m \in ToSet(j.buffer_) PROVE outcome'[m] = "ok"
  <2>1. m \in Operations
    BY <1>8
  <2>2. CASE \E x \in h + 1 .. k : m = ms[x]
    <3>1. \E x \in 1 .. k : m = ms[x]
      BY <2>2
    <3> QED BY <1>4, <2>1, <3>1
  <2>3. CASE m \in ToSet(i.buffer_)
    <3>1. outcome[m] = "ok"
      BY <1>3, <1>7, <2>3 DEF Own
    <3>2. \A x \in k + 1 .. N : m # ms[x]
      BY <1>6, <3>1
    <3> QED BY <1>4, <2>1, <3>1, <3>2
  <2> QED BY <1>3, <2>2, <2>3
<1>13. Own(j, outcome')
  BY <1>9, <1>11, <1>12 DEF Own
<1>14. \A o \in Operations : outcome'[o] # outcome[o] =>
          outcome[o] = "new" \/ (c \in impl_list_ /\ o \in Waiting(c))
  <2> TAKE o \in Operations
  <2> HAVE outcome'[o] # outcome[o]
  <2>1. CASE \E x \in 1 .. N : o = ms[x]
    BY <1>6, <2>1
  <2>2. CASE ~\E x \in 1 .. N : o = ms[x]
    <3>1. (\A x \in 1 .. k : o # ms[x]) /\ \A x \in k + 1 .. N : o # ms[x]
      BY <2>2
    <3>2. \E x \in 1 .. h : o = W[x]
      BY <1>4, <3>1
    <3>3. o \in ToSet(W)
      BY <1>3, <1>5, <3>2
    <3> QED BY <1>7, <3>3 DEF Waiting, W
  <2> QED BY <2>1, <2>2
<1>15. ToSet(j.waiters_) \subseteq {x \in Operations : \/ ~down /\ outcome[x] = "new"
                                                       \/ c \in impl_list_ /\ x \in Waiting(c)}
  <2>1. ToSet(j.waiters_) \subseteq Operations
    BY <1>8, ElementsOf
  <2> QED BY <1>7, <1>11, <2>1 DEF Waiting, W
<1>16. ASSUME NEW r \in Receivers, outcome'[r] # "ok" PROVE got'[r] = NoMessage
  <2>1. \A x \in 1 .. h : W[x] # r
    BY <1>4, <1>6, <1>16
  <2>2. (\A x \in 1 .. k : r # ms[x]) /\ \A x \in k + 1 .. N : r # ms[x]
    <3>1. \A x \in 1 .. N : r # ms[x]
      BY <1>5, <1>6
    <3> QED BY <3>1
  <2>3. outcome[r] # "ok"
    BY <1>4, <1>6, <1>16, <2>1, <2>2
  <2>4. got'[r] = got[r]
    BY <2>1 DEF Sent, SoFar, Apply, Now, W
  <2> QED BY <2>3, <2>4 DEF FifoInv, OrderInv
<1>17. OrderInv'
  <2>1. (c \in impl_list_' => Own(j, outcome')) /\ impl_list_' \subseteq Channels
        /\ \A d \in Channels \ {c} : d \in impl_list_' => d \in impl_list_
    BY <1>3, <1>7, <1>13
  <2> QED BY <1>3, <1>14, <1>15, <1>16, <2>1, OrderStep
<1> QED BY <1>1, <1>5, <1>13, <1>17 DEF W

\* The promise's step: the first k messages are sent.
LEMMA SentSeen ==
  ASSUME FifoInv, NEW c \in Channels, NEW N \in Nat, NEW k \in 1 .. N, NEW h \in 0 .. k, NEW ms, NEW s,
         Sent(c, N, ms, k, h, s)
  PROVE  OrderInv' /\ Promise!Next
<1> DEFINE W == impl[c].waiters_
<1>1. PICK j : j = s.i
  OBVIOUS
<1>2. PICK i : i = impl[c]
  OBVIOUS
<1>4. SentView(c, N, ms, k, h, s)
  BY SentFacts
<1>5. /\ j \in Impl /\ Sound(j) /\ j.send_state_ # "closed" /\ i.send_state_ # "closed"
      /\ impl' = [impl EXCEPT ![c] = j] /\ impl_list_' = impl_list_
      /\ got' \in [Receivers -> Messages \cup {NoMessage}]
      /\ ToSet(W) \subseteq Receivers /\ h <= Len(W) /\ (h < k => h = Len(W))
      /\ \A x \in 1 .. Len(j.waiters_) : h + x \in 1 .. Len(W) /\ j.waiters_[x] = W[h + x]
      /\ j.waiters_ = SubSeq(W, h + 1, Len(W)) /\ j.buffer_ = i.buffer_ \o SubSeq(ms, h + 1, k)
      /\ j.max_buffer_size_ = i.max_buffer_size_
      /\ \A m : m \in ToSet(j.buffer_) <=> m \in ToSet(i.buffer_) \/ \E x \in h + 1 .. k : m = ms[x]
  BY <1>1, <1>2, <1>4 DEF SentView
<1>6. \A o \in Operations :
         outcome'[o] = IF (\E x \in 1 .. k : o = ms[x]) \/ (\E x \in 1 .. h : o = W[x]) THEN "ok"
                       ELSE IF \E x \in k + 1 .. N : o = ms[x] THEN "refused" ELSE outcome[o]
  BY <1>4 DEF SentView
<1>7. /\ Own(j, outcome') /\ OrderInv'
      /\ \A x, y \in 1 .. Len(W) : W[x] = W[y] => x = y
  BY <1>1, SentOrder
<1>8. /\ impl_list_ \subseteq Channels /\ c \in impl_list_ /\ i \in Impl /\ impl \in [Channels -> Impl]
      /\ Messages \cap Receivers = {} /\ \A m \in Messages : m \in Operations
  BY <1>2, BeforeStep, ConstantsAssumption DEF Sent, Usable, Operations
<1>9. /\ ms \in [1 .. N -> Messages] /\ \A x, y \in 1 .. N : ms[x] = ms[y] => x = y
      /\ \A x \in 1 .. N : outcome[ms[x]] = "new"
  BY DEF Sent, Fine, Now
<1>10. /\ \A x \in 1 .. h : got'[W[x]] = ms[x]
       /\ \A r \in Receivers : (\A x \in 1 .. h : W[x] # r) => got'[r] = got[r]
  BY DEF Sent, SoFar, Apply, Now
<1>11. /\ W \in Seq(Operations) /\ j.waiters_ \in Seq(Operations) /\ Len(W) \in Nat
       /\ \A x \in 1 .. Len(W) : W[x] \in ToSet(W)
  <2>1. W \in Seq(Operations) /\ j.waiters_ \in Seq(Operations)
    BY <1>2, <1>5, <1>8 DEF Impl
  <2> QED BY <2>1, ElementsOf, LenProperties
<1>12. ReceivesOf(i) = W /\ Unreceived(i) = i.buffer_ /\ ReceivesOf(j) = j.waiters_ /\ Unreceived(j) = j.buffer_
  <2>1. ReceivesOf(i) = W /\ Unreceived(i) = i.buffer_
    BY <1>2, <1>5, <1>8, Views
  <2>2. ToSet(j.waiters_) \subseteq Receivers
    <3>1. ToSet(j.waiters_) = {j.waiters_[n] : n \in 1 .. Len(j.waiters_)}
      BY <1>11, ElementsOf
    <3> QED BY <1>5, <1>11, <3>1
  <2>3. ReceivesOf(j) = j.waiters_ /\ Unreceived(j) = j.buffer_
    BY <1>5, <2>2, Views
  <2> QED BY <2>1, <2>3
<1> HIDE DEF W
<1>13. PICK mk \in [1 .. k -> Messages] : \A x \in 1 .. k : mk[x] = ms[x]
  <2>1. [x \in 1 .. k |-> ms[x]] \in [1 .. k -> Messages]
    BY <1>9
  <2> QED BY <2>1
<1>14. SubSeq(mk, h + 1, k) = SubSeq(ms, h + 1, k)
  <2>1. PICK l \in Int, u \in Int : l = h + 1 /\ u = k
    OBVIOUS
  <2>2. \A x \in l .. u : mk[x] \in Messages /\ ms[x] = mk[x]
    BY <1>13, <2>1
  <2>3. /\ SubSeq(mk, l, u) \in Seq(Messages)
        /\ Len(SubSeq(mk, l, u)) = IF l <= u THEN u - l + 1 ELSE 0
        /\ \A x \in 1 .. u - l + 1 : SubSeq(mk, l, u)[x] = mk[l + x - 1]
    BY <2>2, SubSeqProperties
  <2>4. /\ SubSeq(ms, l, u) \in Seq(Messages)
        /\ Len(SubSeq(ms, l, u)) = IF l <= u THEN u - l + 1 ELSE 0
        /\ \A x \in 1 .. u - l + 1 : SubSeq(ms, l, u)[x] = ms[l + x - 1]
    BY <2>2, SubSeqProperties
  <2>5. PICK p \in Seq(Messages) : /\ p = SubSeq(mk, l, u) /\ Len(p) = IF l <= u THEN u - l + 1 ELSE 0
                                   /\ \A x \in 1 .. u - l + 1 : p[x] = mk[l + x - 1]
    BY <2>3, Zenon
  <2>6. PICK q \in Seq(Messages) : /\ q = SubSeq(ms, l, u) /\ Len(q) = IF l <= u THEN u - l + 1 ELSE 0
                                   /\ \A x \in 1 .. u - l + 1 : q[x] = ms[l + x - 1]
    BY <2>4, Zenon
  <2>7. Len(p) = Len(q) /\ \A x \in 1 .. Len(p) : p[x] = q[x]
    <3>1. Len(p) = Len(q)
      BY <2>5, <2>6
    <3>2. ASSUME NEW x \in 1 .. Len(p) PROVE p[x] = q[x]
      <4>1. x \in 1 .. u - l + 1 /\ l + x - 1 \in l .. u
        BY <2>5, <3>2
      <4> QED BY <2>2, <2>5, <2>6, <4>1
    <3> QED BY <3>1, <3>2
  <2>8. p = q
    BY <2>7, SeqEqual
  <2> QED BY <2>1, <2>5, <2>6, <2>8
<1>15. \A m \in Messages :
          outcome'[m] = IF \E x \in 1 .. k : m = ms[x] THEN "ok"
                        ELSE IF \E x \in k + 1 .. N : m = ms[x] THEN "refused" ELSE outcome[m]
  <2>1. ASSUME NEW x \in 1 .. h PROVE W[x] \in Receivers
    <3>1. x \in 1 .. Len(W)
      BY <1>5, <1>11, <2>1
    <3>2. W[x] \in ToSet(W) /\ ToSet(W) \subseteq Receivers
      BY <1>5, <1>11, <3>1
    <3> QED BY <3>2
  <2>2. \A m \in Messages : \A x \in 1 .. h : m # W[x]
    BY <1>8, <2>1
  <2>3. \A m \in Messages : m \in Operations
    BY <1>8
  <2> QED BY <1>6, <2>2, <2>3
<1>16. Used' = Used \cup {mk[x] : x \in 1 .. k}
  <2>1. ASSUME NEW m \in Messages PROVE m \in Used' <=> m \in Used \/ \E x \in 1 .. k : m = mk[x]
    <3>1. CASE \E x \in 1 .. k : m = ms[x]
      BY <1>13, <1>15, <3>1 DEF Used
    <3>2. CASE ~\E x \in 1 .. k : m = ms[x]
      <4>1. CASE \E x \in k + 1 .. N : m = ms[x]
        <5>1. outcome'[m] = "refused" /\ outcome[m] = "new"
          BY <1>9, <1>15, <3>2, <4>1
        <5> QED BY <1>13, <3>2, <5>1 DEF Used
      <4>2. CASE ~\E x \in k + 1 .. N : m = ms[x]
        BY <1>13, <1>15, <3>2, <4>2 DEF Used
      <4> QED BY <4>1, <4>2
    <3> QED BY <3>1, <3>2
  <2>2. Used' \subseteq Messages /\ Used \subseteq Messages /\ \A x \in 1 .. k : mk[x] \in Messages
    BY DEF Used
  <2> QED BY <2>1, <2>2
<1>17. Promise!Completes(c, {mk[x] : x \in 1 .. h})
  <2>1. PICK handed : handed = {mk[x] : x \in 1 .. h}
    OBVIOUS
  <2>2. handed \subseteq Accepted'
    <3>1. \A x \in 1 .. h : x \in 1 .. k /\ mk[x] \in Messages /\ outcome'[mk[x]] = "ok"
      BY <1>13, <1>15
    <3> QED BY <2>1, <3>1 DEF Accepted
  <2>3. Accepted \subseteq Accepted'
    BY <1>9, <1>15 DEF Accepted
  <2>4. ASSUME NEW m \in Accepted' PROVE m \in Accepted \cup handed \cup ToSet(j.buffer_)
    <3>1. m \in Messages /\ outcome'[m] = "ok"
      BY <2>4 DEF Accepted
    <3>2. CASE \E x \in 1 .. k : m = ms[x]
      <4>1. PICK x \in 1 .. k : m = ms[x]
        BY <3>2
      <4>2. x \in 1 .. h \/ x \in h + 1 .. k
        OBVIOUS
      <4> QED BY <1>5, <1>13, <2>1, <4>1, <4>2
    <3>3. CASE ~\E x \in 1 .. k : m = ms[x]
      BY <1>15, <3>1, <3>3 DEF Accepted
    <3> QED BY <3>2, <3>3
  <2>5. /\ c \in impl_list_' /\ \A d \in Channels \ {c} : d \in impl_list_' <=> d \in impl_list_
    BY <1>5, <1>8
  <2>6. j.send_state_ # "closed" /\ j.max_buffer_size_ = impl[c].max_buffer_size_ /\ Sound(j) /\ Own(j, outcome')
        /\ j \in Impl /\ impl' = [impl EXCEPT ![c] = j]
    BY <1>2, <1>5, <1>7
  <2>7. Accepted' \subseteq Accepted \cup handed \cup ToSet(j.buffer_)
    BY <2>4
  <2>8. Promise!Completes(c, handed)
    BY <2>2, <2>3, <2>5, <2>6, <2>7, CompletesStep
  <2> QED BY <2>1, <2>8
<1>18. Sends(c, j, k, mk, h)
  <2>1. Open(c) /\ impl' = [impl EXCEPT ![c] = j] /\ j.send_state_ # "closed" /\ impl_list_' = impl_list_
        /\ j.max_buffer_size_ = impl[c].max_buffer_size_
    BY <1>2, <1>5, <1>8 DEF Open
  <2>2. /\ \A x, y \in 1 .. k : mk[x] = mk[y] => x = y
        /\ \A x \in 1 .. k : outcome[mk[x]] = "new"
    BY <1>9, <1>13
  <2>3. ReceivesOf(impl[c]) = W /\ ReceivesOf(j) = SubSeq(W, h + 1, Len(W))
        /\ Unreceived(j) = Unreceived(impl[c]) \o SubSeq(mk, h + 1, k)
    BY <1>2, <1>5, <1>12, <1>14
  <2>4. \A x \in 1 .. h : got'[W[x]] = mk[x]
    BY <1>10, <1>13
  <2> QED BY <1>5, <1>7, <1>10, <1>16, <1>17, <2>1, <2>2, <2>3, <2>4, Zenon DEF Sends
<1>19. Promise!Next
  <2>1. k \in Nat \ {0}
    OBVIOUS
  <2> QED BY <1>5, <1>8, <1>18, <2>1, SendStep
<1> QED BY <1>7, <1>19

\* ... and if there is none, nothing the promise sees.
LEMMA NoneSent ==
  ASSUME FifoInv, NEW c \in Channels, NEW N \in Nat, NEW ms, NEW s, Sent(c, N, ms, 0, 0, s)
  PROVE  OrderInv' /\ UNCHANGED Promise!vars
<1>1. PICK a : a = Now(c)
  OBVIOUS
<1>2. a.i = impl[c] /\ a.outcome = outcome /\ a.got = got
  BY <1>1 DEF Now
<1>3. Fine(a, N, ms) /\ SoFar(a, ms, N, 0, 0, s) /\ Apply(c, s)
  BY <1>1 DEF Sent
<1>4. impl \in [Channels -> Impl]
  BY BeforeStep
<1>5. /\ impl' = impl /\ impl_list_' = impl_list_ /\ down' = down /\ got' = got /\ outcome' = s.outcome
  BY <1>2, <1>3, <1>4 DEF SoFar, Apply
<1>6. ASSUME NEW o \in Operations, outcome'[o] # outcome[o] PROVE outcome[o] = "new" /\ outcome'[o] = "refused"
  <2>1. outcome'[o] = OutcomeThen(a, ms, N, 0, 0, o)
    BY <1>3, <1>5 DEF SoFar
  <2>2. OutcomeThen(a, ms, N, 0, 0, o) = IF \E x \in 1 .. N : o = ms[x] THEN "refused" ELSE outcome[o]
    BY <1>2 DEF OutcomeThen
  <2>3. PICK x \in 1 .. N : o = ms[x]
    BY <1>6, <2>1, <2>2
  <2> QED BY <1>2, <1>3, <2>1, <2>2, <2>3 DEF Fine
<1> QED BY <1>5, <1>6, TurnedAway

\* Any number of messages.
LEMMA SendsSeen ==
  ASSUME FifoInv, NEW c \in Channels, NEW N \in Nat, NEW ms, NEW s,
         \E k \in 0 .. N : \E h \in 0 .. k : Sent(c, N, ms, k, h, s)
  PROVE  OrderInv' /\ [Promise!Next]_Promise!vars
<1>1. PICK k \in 0 .. N : \E h \in 0 .. k : Sent(c, N, ms, k, h, s)
  OBVIOUS
<1>2. PICK h \in 0 .. k : Sent(c, N, ms, k, h, s)
  BY <1>1
<1>3. CASE k = 0
  <2>1. h = 0
    BY <1>3
  <2>2. Sent(c, N, ms, 0, 0, s)
    BY <1>2, <1>3, <2>1
  <2>3. OrderInv' /\ UNCHANGED Promise!vars
    BY <2>2, NoneSent
  <2> QED BY <2>3
<1>4. CASE k # 0
  <2>1. k \in 1 .. N
    BY <1>4
  <2>2. OrderInv' /\ Promise!Next
    BY <1>2, <2>1, SentSeen
  <2> QED BY <2>2
<1> QED BY <1>3, <1>4

\* The messages may be sent from here.
LEMMA FineNow ==
  ASSUME FifoInv, NEW c \in Channels, Usable(c), NEW N \in Nat, NEW ms \in [1 .. N -> Messages],
         \A x, y \in 1 .. N : ms[x] = ms[y] => x = y, \A x \in 1 .. N : New(ms[x])
  PROVE  Fine(Now(c), N, ms) /\ Kept(Now(c), impl[c].send_state_ = "closed")
<1>1. ChannelInv /\ Own(impl[c], outcome)
  BY BeforeStep DEF FifoInv, Usable
<1>2. Now(c) \in Working /\ Kept(Now(c), impl[c].send_state_ = "closed")
  BY <1>1, NowKept
<1>3. PICK a : a = Now(c)
  OBVIOUS
<1>4. a.i = impl[c] /\ a.outcome = outcome
  BY <1>3 DEF Now
<1>5. Fine(a, N, ms)
  BY <1>1, <1>2, <1>3, <1>4 DEF Fine, New
<1> QED BY <1>2, <1>3, <1>5

\* try_send_n
LEMMA TrySendNSeen ==
  ASSUME FifoInv, NEW c \in Channels, NEW N \in Nat, NEW ms \in [1 .. N -> Messages],
         \A x, y \in 1 .. N : ms[x] = ms[y] => x = y, TrySendN(c, ms)
  PROVE  OrderInv' /\ [Promise!Next]_Promise!vars
<1>1. Len(ms) = N /\ DOMAIN ms = 1 .. N
  OBVIOUS
<1> DEFINE sent == CHOOSE f : SentBy(Now(c), N, ms, f)
<1>2. Usable(c) /\ Apply(c, sent[N])
  BY <1>1, Zenon DEF TrySendN, SentBy
<1>3. \A x \in 1 .. N : New(ms[x])
  BY <1>1 DEF TrySendN
<1> HIDE DEF sent
<1>4. PICK closed \in BOOLEAN : closed = (impl[c].send_state_ = "closed")
  OBVIOUS
<1>5. PICK a : a = Now(c) /\ Kept(a, closed) /\ Fine(a, N, ms)
  <2>1. Fine(Now(c), N, ms) /\ Kept(Now(c), impl[c].send_state_ = "closed")
    BY <1>2, <1>3, FineNow
  <2> QED BY <1>4, <2>1
<1>6. TurnsKeep(a, N, ms, sent, closed)
  <2>1. sent = CHOOSE f : SentBy(a, N, ms, f)
    BY <1>5 DEF sent
  <2>2. Kept(a, closed)
    BY <1>5
  <2> QED BY <2>1, <2>2, SentKeeps, Zenon
<1>7. PICK s : s = sent[N]
  OBVIOUS
<1>8. \E k \in 0 .. N : \E h \in 0 .. k : SoFar(a, ms, N, k, h, s)
  BY <1>5, <1>6, <1>7, AllTurns
<1>9. Kept(s, impl[c].send_state_ = "closed")
  BY <1>4, <1>6, <1>7 DEF TurnsKeep
<1>10. \E k \in 0 .. N : \E h \in 0 .. k : Sent(c, N, ms, k, h, s)
  BY <1>2, <1>5, <1>7, <1>8, <1>9 DEF Sent
<1> QED BY <1>10, SendsSeen

\* One message: try_send, and async_send when it need not wait.
LEMMA SendOneSeen ==
  ASSUME FifoInv, NEW c \in Channels, NEW m \in Messages, Usable(c), New(m), Apply(c, SendOne(Now(c), m))
  PROVE  OrderInv' /\ [Promise!Next]_Promise!vars
<1>1. PICK ms : ms = <<m>>
  OBVIOUS
<1>2. PICK N \in Nat : N = 1
  OBVIOUS
<1>3. ms \in [1 .. N -> Messages] /\ N \in 1 .. N /\ ms[N] = m
      /\ (\A x, y \in 1 .. N : ms[x] = ms[y] => x = y) /\ \A x \in 1 .. N : New(ms[x])
  BY <1>1, <1>2
<1>4. PICK a : a = Now(c)
  OBVIOUS
<1>5. Fine(a, N, ms) /\ Kept(a, impl[c].send_state_ = "closed")
  BY <1>3, <1>4, FineNow
<1>6. \E k \in 0 .. N - 1 : \E h \in 0 .. k : SoFar(a, ms, N - 1, k, h, a)
  <2>1. SoFar(a, ms, 0, 0, 0, a)
    BY <1>5, NothingSent
  <2>2. N - 1 = 0 /\ 0 \in 0 .. 0
    BY <1>2
  <2> QED BY <2>1, <2>2
<1>7. PICK s : s = SendOne(a, ms[N])
  OBVIOUS
<1>8. \E k \in 0 .. N : \E h \in 0 .. k : SoFar(a, ms, N, k, h, s)
  <2>1. a \in Working /\ Sound(a.i)
    BY <1>5 DEF Kept
  <2> QED BY <1>3, <1>5, <1>6, <1>7, <2>1, OneTurn
<1>9. Kept(s, impl[c].send_state_ = "closed")
  <2>1. PICK closed \in BOOLEAN : closed = (impl[c].send_state_ = "closed")
    OBVIOUS
  <2>2. Kept(SendOne(a, m), closed)
    BY <1>5, <2>1, SendOneKeeps
  <2> QED BY <1>3, <1>7, <2>1, <2>2
<1>10. Apply(c, s)
  BY <1>3, <1>4, <1>7
<1>11. \E k \in 0 .. N : \E h \in 0 .. k : Sent(c, N, ms, k, h, s)
  BY <1>4, <1>5, <1>8, <1>9, <1>10 DEF Sent
<1> QED BY <1>11, SendsSeen

-----------------------------------------------------------------------------
(* Every step is a step of the promise, or none.                           *)

LEMMA FifoInit == Init => FifoInv /\ Promise!Init
<1> SUFFICES ASSUME Init PROVE FifoInv /\ Promise!Init
  OBVIOUS
<1>1. ChannelInv /\ impl_list_ = {} /\ ~down /\ \A r \in Receivers : got[r] = NoMessage
  BY ChannelInit DEF Init
<1>2. OrderInv
  BY <1>1 DEF OrderInv
<1>3. Capacity \in [Channels -> Nat] /\ Shut = [c \in Channels |-> FALSE]
  <2>1. \A c \in Channels : impl[c].max_buffer_size_ = 0 /\ (impl[c].send_state_ = "closed") = FALSE
    BY DEF Init, Constructed, InitialSend
  <2>2. Capacity = [c \in Channels |-> 0]
    BY <2>1 DEF Capacity
  <2>3. Shut = [c \in Channels |-> FALSE]
    BY <2>1, Zenon DEF Shut
  <2> QED BY <2>2, <2>3
<1>4. Queue = [c \in Channels |-> <<>>] /\ Takers = [c \in Channels |-> <<>>]
  BY <1>1 DEF Queue, Takers, Open
<1>5. Accepted = {} /\ Used = {}
  <2>1. \A m \in Messages : outcome[m] = "new"
    BY DEF Init, Operations
  <2> QED BY <2>1 DEF Accepted, Used
<1>6. got = [r \in Receivers |-> NoMessage]
  BY DEF Init
<1> QED BY <1>1, <1>2, <1>3, <1>4, <1>5, <1>6 DEF FifoInv, Promise!Init

\* try_send, async_send
LEMMA SendSeen ==
  ASSUME FifoInv, NEW c \in Channels, NEW m \in Messages, TrySend(c, m) \/ AsyncSend(c, m), ChannelInv'
  PROVE  OrderInv' /\ [Promise!Next]_Promise!vars
<1>1. Usable(c) /\ New(m) /\ m \in Operations
  BY DEF TrySend, AsyncSend, Operations
<1>2. CASE Apply(c, SendOne(Now(c), m))
  BY <1>1, <1>2, SendOneSeen
<1>3. CASE /\ impl[c].send_state_ = "block"
           /\ Apply(c, [Now(c) EXCEPT !.i = SendWaits(impl[c], m), !.outcome[m] = "waits"])
  <2>1. OrderInv' /\ Promise!Next
    BY <1>1, <1>3, SendWaitsSeen, Zenon
  <2> QED BY <2>1
<1>4. CASE Apply(c, [Now(c) EXCEPT !.outcome[m] = "closed"])
  <2>1. PICK why \in {"refused", "closed"} : why = "closed"
    OBVIOUS
  <2>2. Apply(c, [Now(c) EXCEPT !.outcome[m] = why])
    BY <1>4, <2>1
  <2> QED BY <1>1, <2>2, OneTurnedAway
<1> QED BY <1>2, <1>3, <1>4 DEF TrySend, AsyncSend

\* try_receive, async_receive
LEMMA ReceiveSeen ==
  ASSUME FifoInv, NEW c \in Channels, NEW r \in Receivers, TryReceive(c, r) \/ AsyncReceive(c, r)
  PROVE  OrderInv' /\ [Promise!Next]_Promise!vars
<1>1. Usable(c) /\ New(r) /\ r \in Operations
  BY DEF TryReceive, AsyncReceive, Operations
<1>2. CASE impl[c].receive_state_ \in {"buffer", "waiter"} /\ Apply(c, Received(Now(c), r))
  BY <1>1, <1>2, ReceivedSeen
<1>3. CASE /\ impl[c].receive_state_ = "block"
           /\ Apply(c, [Now(c) EXCEPT !.i = ReceiveWaits(impl[c], r), !.outcome[r] = "waits"])
  <2>1. OrderInv' /\ Promise!Next
    BY <1>1, <1>3, ReceiveWaitsSeen, Zenon
  <2> QED BY <2>1
<1>4. CASE \E why \in {"refused", "closed"} : Apply(c, [Now(c) EXCEPT !.outcome[r] = why])
  BY <1>1, <1>4, OneTurnedAway
<1>5. \/ Apply(c, [Now(c) EXCEPT !.outcome[r] = "refused"])
      \/ Apply(c, [Now(c) EXCEPT !.outcome[r] = "closed"])
      => \E why \in {"refused", "closed"} : Apply(c, [Now(c) EXCEPT !.outcome[r] = why])
  OBVIOUS
<1> QED BY <1>2, <1>3, <1>4, <1>5 DEF TryReceive, AsyncReceive

LEMMA FifoNext ==
  ASSUME FifoInv, Uses \cap Unsafe = {}, [Next]_vars
  PROVE  FifoInv' /\ [Promise!Next]_Promise!vars
<1>0. ChannelInv'
  BY ChannelNext DEF FifoInv
<1> SUFFICES OrderInv' /\ [Promise!Next]_Promise!vars
  BY <1>0 DEF FifoInv
<1>1. CASE UNCHANGED vars
  <2>1. /\ impl' = impl /\ impl_list_' = impl_list_ /\ down' = down /\ got' = got /\ outcome' = outcome
    BY <1>1 DEF vars
  <2> QED BY <2>1, TurnedAway
<1>2. ASSUME NEW c \in Channels, NEW n \in Capacities, Construct(c, n)
      PROVE  OrderInv' /\ [Promise!Next]_Promise!vars
  BY <1>2, ConstructSeen
<1>3. ASSUME NEW c \in Channels, NEW m \in Messages, TrySend(c, m) \/ AsyncSend(c, m)
      PROVE  OrderInv' /\ [Promise!Next]_Promise!vars
  BY <1>0, <1>3, SendSeen
<1>4. ASSUME NEW c \in Channels, NEW n \in 2 .. Cardinality(Messages), NEW ms \in Distinct(n), TrySendN(c, ms)
      PROVE  OrderInv' /\ [Promise!Next]_Promise!vars
  <2>1. ms \in [1 .. n -> Messages] /\ n \in Nat
    BY DEF Distinct
  <2>2. \A x, y \in 1 .. n : ms[x] = ms[y] => x = y
    BY DEF Distinct
  <2> QED BY <1>4, <2>1, <2>2, TrySendNSeen
<1>5. ASSUME NEW c \in Channels, NEW r \in Receivers, TryReceive(c, r) \/ AsyncReceive(c, r)
      PROVE  OrderInv' /\ [Promise!Next]_Promise!vars
  BY <1>5, ReceiveSeen
<1>6. ASSUME NEW c \in Channels, Cancel(c) \/ ResetCancel(c) \/ Destroy(c)
      PROVE  OrderInv' /\ [Promise!Next]_Promise!vars
  BY <1>6, CancelSeen, DestroySeen
<1>7. ASSUME NEW c \in Channels, NEW o \in Operations, CancelByKey(c, o)
      PROVE  OrderInv' /\ [Promise!Next]_Promise!vars
  BY <1>7, CancelByKeySeen
<1>8. ASSUME NEW c \in Channels, Close(c) \/ ResetClear(c)
      PROVE  OrderInv' /\ [Promise!Next]_Promise!vars
  BY <1>8, CloseSeen, ResetClearSeen
<1>9. ASSUME NEW c \in Channels, NEW d \in Channels, MoveConstruct(c, d) \/ MoveAssign(c, d)
      PROVE  OrderInv' /\ [Promise!Next]_Promise!vars
  BY <1>9, MoveSeen
<1>10. ASSUME Shutdown PROVE OrderInv' /\ [Promise!Next]_Promise!vars
  BY <1>10, ShutdownSeen
<1> QED
  BY <1>1, <1>2, <1>3, <1>4, <1>5, <1>6, <1>7, <1>8, <1>9, <1>10 DEF Next

\* Channels keep the promise of MessageChannel, whatever their number, their capacities and
\* the sends and receives: what is sent, by try_send_n in one step or by a send that waits, is
\* received in that order, each message once, the receives that wait are served in their order,
\* and no more sends have completed ahead of the receives than the buffer holds.
THEOREM ChannelKeepsThePromise == ASSUME Uses \cap Unsafe = {} PROVE Spec => Fifo
<1>1. Init => FifoInv /\ Promise!Init
  BY FifoInit
<1>2. FifoInv /\ [Next]_vars => FifoInv' /\ [Promise!Next]_Promise!vars
  BY FifoNext
<1> QED BY <1>1, <1>2, PTL DEF Spec, Fifo, Promise!Spec
=============================================================================
