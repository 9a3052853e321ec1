------------------------------- MODULE Channel -------------------------------
(***************************************************************************)
(* Channels between coroutines and threads: channel_service                *)
(* (experimental/detail/channel_service.hpp, impl/channel_service.hpp) and *)
(* its operations (channel_send_op.hpp, channel_receive_op.hpp).           *)
(*                                                                         *)
(* A channel keeps a state for each of its two ends instead of asking what *)
(* it holds: the send state tells whether a send goes to a waiting         *)
(* receive, to the buffer, or waits; the receive state likewise.  One      *)
(* queue, waiters_, holds the waiting operations of either kind, and the   *)
(* code casts what it finds there to the kind the states imply.            *)
(*                                                                         *)
(* Every function holds the channel's mutex from its first to its last     *)
(* access, so each is one step; reset() is two.  A send operation is named *)
(* by its message, and the copies sent by one try_send_n are told apart.   *)
(* A completed operation posts its handler; the step that completes it     *)
(* records its outcome.                                                    *)
(***************************************************************************)
EXTENDS Integers, Sequences, FiniteSets, OpQueue
LOCAL INSTANCE SequencesExt

CONSTANTS
    Channels,
    Messages,      \* the messages the program sends, each once
    Receivers,     \* the receive operations the program starts
    NoMessage,
    Capacities,    \* the buffer sizes channels are constructed with
    Uses           \* the calls the program makes

ASSUME ConstantsAssumption ==
    /\ Capacities \subseteq Nat /\ IsFiniteSet(Messages)
    /\ Messages \cap Receivers = {} /\ NoMessage \notin Messages \cup Receivers
    /\ Uses \subseteq {"cancel", "close", "close_senders_waiting", "reset_closed",
                       "reset_open", "move", "move_waiting", "shutdown"}

Operations == Messages \cup Receivers
States == {"buffer", "waiter", "block", "closed"}

VARIABLES
    impl,        \* per channel, its base_implementation_type and buffer_
    impl_list_,  \* the channels that exist
    outcome,     \* per operation
    got,         \* per receive operation, its message
    resetting,   \* the channels whose reset() has cancelled and not yet cleared
    down         \* the service has been shut down

vars == <<impl, impl_list_, outcome, got, resetting, down>>

-----------------------------------------------------------------------------
\* The send state of a channel nobody waits on and nothing is buffered in.
InitialSend(n) == IF n > 0 THEN "buffer" ELSE "block"

Constructed(n) ==
    [receive_state_ |-> "block", send_state_ |-> InitialSend(n), max_buffer_size_ |-> n,
     buffer_ |-> <<>>, waiters_ |-> <<>>]

Init ==
    /\ impl = [c \in Channels |-> Constructed(0)]
    /\ impl_list_ = {}
    /\ outcome = [o \in Operations |-> "new"]
    /\ got = [r \in Receivers |-> NoMessage]
    /\ resetting = {} /\ down = FALSE

Construct(c, n) ==
    /\ c \notin impl_list_ /\ ~down
    /\ impl_list_' = impl_list_ \cup {c}
    /\ impl' = [impl EXCEPT ![c] = Constructed(n)]
    /\ UNCHANGED <<outcome, got, resetting, down>>

\* The program may call functions of channel c.
Usable(c) == c \in impl_list_ /\ ~down
New(o) == outcome[o] = "new"
Apply(c, s) == /\ impl' = [impl EXCEPT ![c] = s.i]
               /\ outcome' = s.outcome /\ got' = s.got
               /\ UNCHANGED <<impl_list_, resetting, down>>
Now(c) == [i |-> impl[c], outcome |-> outcome, got |-> got]

-----------------------------------------------------------------------------
(* Sending.  The helpers take and give [i: a channel, outcome, got].       *)

\* mutant: the buffer may grow by one more
PushTooMany(i, m) ==
    [i EXCEPT !.buffer_ = Append(@, m),
              !.receive_state_ = "buffer",
              !.send_state_ = IF Len(i.buffer_) = i.max_buffer_size_ THEN "block" ELSE @]

\* buffer_push, with the states that follow
Push(i, m) ==
    [i EXCEPT !.buffer_ = Append(@, m),
              !.receive_state_ = "buffer",
              !.send_state_ = IF Len(i.buffer_) + 1 = i.max_buffer_size_ THEN "block" ELSE @]

\* The state of sending when a receive operation has left the waiters rest.
AfterHandOver(i, rest) ==
    IF rest = <<>> THEN InitialSend(i.max_buffer_size_) ELSE i.send_state_

\* One message, the send state being waiter, buffer, or neither.
SendOne(s, m) ==
    CASE s.i.send_state_ = "waiter" ->
           LET r == Head(s.i.waiters_)
           IN  [i |-> [s.i EXCEPT !.waiters_ = Tail(@),
                                  !.send_state_ = AfterHandOver(s.i, Tail(s.i.waiters_))],
                outcome |-> [s.outcome EXCEPT ![r] = "ok", ![m] = "ok"],
                got |-> [s.got EXCEPT ![r] = m]]
      [] s.i.send_state_ = "buffer" ->
           [s EXCEPT !.i = Push(s.i, m), !.outcome[m] = "ok"]
      [] OTHER -> [s EXCEPT !.outcome[m] = "refused"]

\* try_send
TrySend(c, m) == Usable(c) /\ New(m) /\ Apply(c, SendOne(Now(c), m))

\* try_send_n: stops at the first message it cannot send.
TrySendN(c, ms) ==
    LET sent[n \in 0 .. Len(ms)] == IF n = 0 THEN Now(c) ELSE SendOne(sent[n - 1], ms[n])
    IN  Usable(c) /\ (\A n \in DOMAIN ms : New(ms[n])) /\ Apply(c, sent[Len(ms)])

\* A send goes to the end of the waiters.
SendWaits(i, m) == [i EXCEPT !.waiters_ = Append(@, m),
                             !.receive_state_ = IF @ = "block" THEN "waiter" ELSE @]

\* async_send, start_send_op
AsyncSend(c, m) ==
    /\ Usable(c) /\ New(m)
    /\ LET i == impl[c]
       IN  \/ /\ i.send_state_ = "block"
              /\ Apply(c, [Now(c) EXCEPT !.i = SendWaits(i, m), !.outcome[m] = "waits"])
           \/ i.send_state_ \in {"buffer", "waiter"} /\ Apply(c, SendOne(Now(c), m))
           \/ i.send_state_ = "closed" /\ Apply(c, [Now(c) EXCEPT !.outcome[m] = "closed"])

-----------------------------------------------------------------------------
(* Receiving.                                                              *)

BlockOrClosed(i) == IF i.send_state_ = "closed" THEN "closed" ELSE "block"

\* mutant: the waiting send goes in front of what is buffered
RefillInFront(i) ==
    IF i.waiters_ # <<>>
    THEN [i EXCEPT !.buffer_ = <<Head(i.waiters_)>> \o Tail(@), !.waiters_ = Tail(@)]
    ELSE [i EXCEPT !.buffer_ = Tail(@),
                   !.receive_state_ = IF Len(i.buffer_) = 1 THEN BlockOrClosed(i) ELSE @,
                   !.send_state_ = IF @ = "closed" THEN @ ELSE "buffer"]

\* The first message leaves the buffer and the first waiting send enters it.
Refill(i) ==
    IF i.waiters_ # <<>>
    THEN [i EXCEPT !.buffer_ = Append(Tail(@), Head(i.waiters_)), !.waiters_ = Tail(@)]
    ELSE [i EXCEPT !.buffer_ = Tail(@),
                   !.receive_state_ = IF Len(i.buffer_) = 1 THEN BlockOrClosed(i) ELSE @,
                   !.send_state_ = IF @ = "closed" THEN @ ELSE "buffer"]

\* The first waiting send hands its message over.
TakeFromSender(i) ==
    [i EXCEPT !.waiters_ = Tail(@),
              !.receive_state_ = IF Len(i.waiters_) = 1 THEN BlockOrClosed(i) ELSE @]

Received(s, r) ==
    LET completed == IF s.i.waiters_ = <<>> THEN s.outcome
                     ELSE [s.outcome EXCEPT ![Head(s.i.waiters_)] = "ok"]
    IN  [i |-> IF s.i.receive_state_ = "buffer" THEN Refill(s.i) ELSE TakeFromSender(s.i),
         outcome |-> [completed EXCEPT ![r] = "ok"],
         got |-> [s.got EXCEPT ![r] = IF s.i.receive_state_ = "buffer" THEN Head(s.i.buffer_)
                                      ELSE Head(s.i.waiters_)]]

\* try_receive
TryReceive(c, r) ==
    /\ Usable(c) /\ New(r)
    /\ \/ /\ impl[c].receive_state_ \in {"block", "closed"}
          /\ Apply(c, [Now(c) EXCEPT !.outcome[r] = "refused"])
       \/ /\ impl[c].receive_state_ \in {"buffer", "waiter"}
          /\ Apply(c, Received(Now(c), r))

\* A receive goes to the end of the waiters.
ReceiveWaits(i, r) == [i EXCEPT !.waiters_ = Append(@, r),
                                !.send_state_ = IF @ = "closed" THEN @ ELSE "waiter"]

\* async_receive, start_receive_op
AsyncReceive(c, r) ==
    /\ Usable(c) /\ New(r)
    /\ \/ /\ impl[c].receive_state_ = "block"
          /\ Apply(c, [Now(c) EXCEPT !.i = ReceiveWaits(impl[c], r), !.outcome[r] = "waits"])
       \/ /\ impl[c].receive_state_ \in {"buffer", "waiter"}
          /\ Apply(c, Received(Now(c), r))
       \/ /\ impl[c].receive_state_ = "closed"
          /\ Apply(c, [Now(c) EXCEPT !.outcome[r] = "closed"])

-----------------------------------------------------------------------------
(* Cancelling, closing and resetting.                                      *)

Waiting(c) == ToSet(impl[c].waiters_)

\* mutant: the receive state decides
CancelByReceiveState(i, o) == IF (o \in Messages) = (i.receive_state_ = "waiter")
                              THEN "cancelled" ELSE "undefined"
\* A waiting operation is taken for a send if the send state is block and for a
\* receive otherwise; what a wrong cast leads to is undefined.
CancelOutcome(i, o) == IF (o \in Messages) = (i.send_state_ = "block") THEN "cancelled"
                       ELSE "undefined"

\* Nobody waits any more.
NoWaiter(i) == [i EXCEPT !.receive_state_ = IF @ = "waiter" THEN "block" ELSE @,
                         !.send_state_ = IF @ = "waiter" THEN "block" ELSE @]

\* The operations ops of channel c complete with their cancellation.
Cancelled(c, ops) ==
    [o \in Operations |-> IF o \in ops THEN CancelOutcome(impl[c], o) ELSE outcome[o]]

\* cancel(), also the first thing reset(), the destructor and an assignment do
CancelAll(c) == NoWaiter([impl[c] EXCEPT !.waiters_ = <<>>])

Cancel(c) ==
    /\ "cancel" \in Uses /\ Usable(c)
    /\ impl' = [impl EXCEPT ![c] = CancelAll(c)]
    /\ outcome' = Cancelled(c, Waiting(c))
    /\ UNCHANGED <<impl_list_, got, resetting, down>>

\* cancel_by_key, from the cancellation slot of an operation that waits: the others are put
\* back by way of other_ops.
CancelByKey(c, o) ==
    /\ "cancel" \in Uses /\ Usable(c) /\ o \in Waiting(c)
    /\ LET left == [impl[c] EXCEPT !.waiters_ = Unlinked(@, {o})]
       IN  impl' = [impl EXCEPT ![c] = IF left.waiters_ = <<>> THEN NoWaiter(left) ELSE left]
    /\ outcome' = Cancelled(c, {o})
    /\ UNCHANGED <<impl_list_, got, resetting, down>>

SendersWait(c) == Waiting(c) \cap Messages # {}

\* The operations in waiters_ are receives.
ClosesWaiters(i) == i.receive_state_ = "block"

Closed(i) == [i EXCEPT !.waiters_ = IF ClosesWaiters(i) THEN <<>> ELSE @,
                       !.send_state_ = "closed", !.receive_state_ = "closed"]

Close(c) ==
    /\ "close" \in Uses /\ Usable(c)
    /\ SendersWait(c) => "close_senders_waiting" \in Uses
    /\ LET ops == IF ClosesWaiters(impl[c]) THEN Waiting(c) ELSE {}
       IN  outcome' = [o \in Operations |-> IF o \in ops THEN "closed" ELSE outcome[o]]
    /\ impl' = [impl EXCEPT ![c] = Closed(@)]
    /\ UNCHANGED <<impl_list_, got, resetting, down>>

\* reset(): cancel(), and then, the mutex having been released in between, the rest.
ResetCancel(c) ==
    /\ Usable(c) /\ c \notin resetting
    /\ IF impl[c].send_state_ = "closed" THEN "reset_closed" \in Uses ELSE "reset_open" \in Uses
    /\ impl' = [impl EXCEPT ![c] = CancelAll(c)]
    /\ outcome' = Cancelled(c, Waiting(c))
    /\ resetting' = resetting \cup {c}
    /\ UNCHANGED <<impl_list_, got, down>>

\* mutant: sends block, buffer or not
ClearedBlocked(i) ==
    [i EXCEPT !.receive_state_ = IF @ = "closed" THEN "block" ELSE @,
              !.send_state_ = IF @ = "closed" THEN "block" ELSE @,
              !.buffer_ = <<>>]
Cleared(i) ==
    [i EXCEPT !.receive_state_ = IF @ = "closed" THEN "block" ELSE @,
              !.send_state_ = IF @ = "closed" THEN InitialSend(i.max_buffer_size_) ELSE @,
              !.buffer_ = <<>>]

ResetClear(c) ==
    /\ c \in resetting
    /\ impl' = [impl EXCEPT ![c] = Cleared(@)]
    /\ resetting' = resetting \ {c}
    /\ UNCHANGED <<impl_list_, outcome, got, down>>

-----------------------------------------------------------------------------
(* The life of a channel object.                                           *)

\* No function of the channel runs.
Destructible(c) == c \in impl_list_ \ resetting

\* destroy(), from the destructor
Destroy(c) ==
    /\ Destructible(c)
    /\ impl' = [impl EXCEPT ![c] = CancelAll(c)]
    /\ outcome' = Cancelled(c, Waiting(c))
    /\ impl_list_' = impl_list_ \ {c}
    /\ UNCHANGED <<got, resetting, down>>

MayMove(c) == /\ "move" \in Uses /\ Usable(c) /\ c \notin resetting
              /\ impl[c].waiters_ # <<>> => "move_waiting" \in Uses

\* What a move takes from i: everything but the operations that wait ...
MovedTo(i) == [i EXCEPT !.waiters_ = <<>>]

\* ... and what it leaves.
MovedFrom(i) ==
    [i EXCEPT !.receive_state_ = "block", !.send_state_ = InitialSend(i.max_buffer_size_),
              !.buffer_ = <<>>]

MoveConstruct(c, d) ==
    /\ MayMove(c) /\ d \notin impl_list_
    /\ impl' = [impl EXCEPT ![d] = MovedTo(impl[c]), ![c] = MovedFrom(@)]
    /\ impl_list_' = impl_list_ \cup {d}
    /\ UNCHANGED <<outcome, got, resetting, down>>

MoveAssign(c, d) ==
    /\ MayMove(c) /\ d \in impl_list_ \ {c} /\ d \notin resetting
    /\ impl' = [impl EXCEPT ![d] = MovedTo(impl[c]), ![c] = MovedFrom(@)]
    /\ outcome' = Cancelled(d, Waiting(d))
    /\ UNCHANGED <<impl_list_, got, resetting, down>>

\* shutdown() of the service, before the channels that handlers own are destroyed
Shutdown ==
    /\ "shutdown" \in Uses /\ ~down /\ resetting = {}
    /\ down' = TRUE
    /\ impl' = [c \in Channels |-> IF c \in impl_list_ THEN [impl[c] EXCEPT !.waiters_ = <<>>]
                                   ELSE impl[c]]
    /\ outcome' = [o \in Operations |-> IF \E c \in impl_list_ : o \in Waiting(c)
                                        THEN "abandoned" ELSE outcome[o]]
    /\ UNCHANGED <<impl_list_, got, resetting>>

-----------------------------------------------------------------------------
Distinct(n) == {ms \in [1 .. n -> Messages] : \A x, y \in 1 .. n : ms[x] = ms[y] => x = y}

Next ==
    \/ \E c \in Channels :
         \/ \E n \in Capacities : Construct(c, n)
         \/ \E m \in Messages : TrySend(c, m) \/ AsyncSend(c, m)
         \/ \E n \in 2 .. Cardinality(Messages) : \E ms \in Distinct(n) : TrySendN(c, ms)
         \/ \E r \in Receivers : TryReceive(c, r) \/ AsyncReceive(c, r)
         \/ Cancel(c) \/ \E o \in Operations : CancelByKey(c, o)
         \/ Close(c) \/ ResetCancel(c) \/ ResetClear(c)
         \/ Destroy(c)
         \/ \E d \in Channels : MoveConstruct(c, d) \/ MoveAssign(c, d)
    \/ Shutdown

Spec == Init /\ [][Next]_vars

-----------------------------------------------------------------------------
(* Properties.                                                             *)

\* The variables have their types.
TypeOK ==
    /\ impl \in [Channels -> [receive_state_ : States, send_state_ : States,
                              max_buffer_size_ : Capacities \cup {0},
                              buffer_ : Seq(Messages), waiters_ : Seq(Operations)]]
    /\ impl_list_ \subseteq Channels /\ resetting \subseteq impl_list_ /\ down \in BOOLEAN
    /\ outcome \in [Operations -> {"new", "waits", "ok", "refused", "cancelled", "closed",
                                   "abandoned", "undefined"}]
    /\ got \in [Receivers -> Messages \cup {NoMessage}]

\* The two states of a channel describe what it holds: every static_cast of a
\* waiting operation is to its own kind, front() is called on a buffer that has
\* one, what waits waits in the states that its kind implies, and the buffer keeps
\* its bound.  Sending may be blocked beside room: of that, RoomIsUsed.
StatesDescribe(i) ==
    /\ Len(i.buffer_) <= i.max_buffer_size_
    /\ ToSet(i.waiters_) \subseteq Messages \/ ToSet(i.waiters_) \subseteq Receivers
    /\ i.send_state_ = "closed" <=> i.receive_state_ = "closed"
    /\ i.send_state_ = "closed" => i.waiters_ = <<>>
    /\ i.send_state_ # "closed" =>
         /\ i.receive_state_ = "buffer" <=> i.buffer_ # <<>>
         /\ i.receive_state_ = "waiter" <=> i.buffer_ = <<>> /\ ToSet(i.waiters_) \cap Messages # {}
         /\ i.send_state_ = "waiter" <=> ToSet(i.waiters_) \cap Receivers # {}
         /\ i.send_state_ = "buffer" => Len(i.buffer_) < i.max_buffer_size_
         /\ ToSet(i.waiters_) \cap Messages # {} => i.send_state_ = "block"
         /\ ToSet(i.waiters_) \cap Receivers # {} => i.receive_state_ = "block"

StatesAgree == TypeOK /\ \A c \in impl_list_ : ~down => StatesDescribe(impl[c])

\* "All outstanding send operations will complete with the error channel_canceld.
\* Outstanding receive operations complete with the result as determined by the
\* channel traits" (basic_channel.hpp, cancel).
CancelCompletes ==
    [][\A c \in Channels : Cancel(c) => \A o \in Waiting(c) : outcome'[o] = "cancelled"]_vars

\* "Fails if the buffer is full and there are no waiting receive operations"
\* (basic_channel.hpp, try_send), and only then: no channel comes to fail or delay
\* sends beside room in its buffer, whatever is sent, received, closed, reset or
\* moved.  The exception is what the code does: the last waiting receive being
\* cancelled leaves sending blocked over an empty buffer.  A move takes that along.
RoomWasted(i) == i.send_state_ = "block" /\ Len(i.buffer_) < i.max_buffer_size_
KeepsRoom(c) ==
    RoomWasted(impl'[c]) =>
      \/ c \in impl_list_ /\ RoomWasted(impl[c])
      \/ \E r \in Receivers \cap Waiting(c) : outcome'[r] = "cancelled"
      \/ \E d \in impl_list_ : RoomWasted(impl[d]) /\ (MoveConstruct(d, c) \/ MoveAssign(d, c))

RoomIsUsed == [][\A c \in impl_list_' : KeepsRoom(c)]_vars

\* The mapping to the promise: what is buffered is in front of what waits.
Open(c) == c \in impl_list_ /\ impl[c].send_state_ # "closed"
Unreceived(i) == i.buffer_ \o Unlinked(i.waiters_, Receivers)
ReceivesOf(i) == Unlinked(i.waiters_, Messages)

Capacity == [c \in Channels |-> impl[c].max_buffer_size_]
Queue == [c \in Channels |-> IF Open(c) THEN Unreceived(impl[c]) ELSE <<>>]
Takers == [c \in Channels |-> IF Open(c) THEN ReceivesOf(impl[c]) ELSE <<>>]
Shut == [c \in Channels |-> impl[c].send_state_ = "closed"]
Accepted == {m \in Messages : outcome[m] = "ok"}
Used == {m \in Messages : outcome[m] \notin {"new", "refused", "closed"}}

Promise == INSTANCE MessageChannel WITH
    exists <- impl_list_, capacity <- Capacity, queue <- Queue, takers <- Takers,
    shut <- Shut, accepted <- Accepted, used <- Used

\* A channel keeps the promise of MessageChannel: messages arrive in order, each
\* once, waiting receives are served in order, and the sends that have completed
\* are those of the messages received or within the capacity of the buffer.
Fifo == Promise!Spec
=============================================================================
