--------------------------- MODULE MessageChannel ---------------------------
(***************************************************************************)
(* What a channel promises (experimental/basic_channel.hpp and the names   *)
(* of its operations): messages are handed over in the order of the sends, *)
(* each to one receive operation, a receive operation waits only while     *)
(* there is no message and the first to wait is the first to be served,    *)
(* and at most "capacity" sends have completed ahead of the receives.      *)
(***************************************************************************)
EXTENDS Integers, Sequences, FiniteSets, OpQueue

CONSTANTS Channels, Messages, Receivers, NoMessage,
          Capacities     \* the capacities channels are constructed with

VARIABLES
    exists,      \* the channels there are
    capacity,    \* per channel
    queue,       \* per channel, the messages sent and not received, in order
    takers,      \* per channel, the receive operations that wait, in order
    shut,        \* per channel: no messages, no sends
    accepted,    \* the messages whose send has completed
    got,         \* the message of every receive operation
    used         \* the messages that have been sent

vars == <<exists, capacity, queue, takers, shut, accepted, got, used>>

Init ==
    /\ exists = {}
    /\ capacity \in [Channels -> Nat]
    /\ queue = [c \in Channels |-> <<>>]
    /\ takers = [c \in Channels |-> <<>>]
    /\ shut = [c \in Channels |-> FALSE]
    /\ accepted = {} /\ used = {}
    /\ got = [r \in Receivers |-> NoMessage]

Elements(q) == {q[i] : i \in 1 .. Len(q)}
Smaller(x, y) == IF x < y THEN x ELSE y

\* The sends at the front of c's queue complete, as many as its buffer holds.
Completes(c, handed) ==
    \E k \in 0 .. Smaller(capacity[c], Len(queue'[c])) :
        /\ accepted' = accepted \cup handed \cup {queue'[c][i] : i \in 1 .. k}
        /\ \A i \in k + 1 .. Len(queue'[c]) : queue'[c][i] \notin accepted'

\* Messages are sent: the receive operations that wait take the first ones.
Send(c, ms) ==
    LET n == Smaller(Len(ms), Len(takers[c]))
    IN  /\ ~shut[c] /\ Elements(ms) \cap used = {} /\ Cardinality(Elements(ms)) = Len(ms)
        /\ used' = used \cup Elements(ms)
        /\ got' = [r \in Receivers |->
                     IF \E i \in 1 .. n : takers[c][i] = r
                     THEN ms[CHOOSE i \in 1 .. n : takers[c][i] = r] ELSE got[r]]
        /\ takers' = [takers EXCEPT ![c] = SubSeq(@, n + 1, Len(@))]
        /\ queue' = [queue EXCEPT ![c] = @ \o SubSeq(ms, n + 1, Len(ms))]
        /\ Completes(c, {ms[i] : i \in 1 .. n})
        /\ UNCHANGED <<exists, capacity, shut>>

\* A receive operation takes the first message ...
Take(c, r) ==
    /\ got[r] = NoMessage /\ queue[c] # <<>>
    /\ got' = [got EXCEPT ![r] = Head(queue[c])]
    /\ queue' = [queue EXCEPT ![c] = Tail(@)]
    /\ Completes(c, {Head(queue[c])})
    /\ UNCHANGED <<exists, capacity, takers, shut, used>>

\* ... or, there being none, waits for it.
Wait(c, r) ==
    /\ got[r] = NoMessage /\ queue[c] = <<>> /\ ~shut[c]
    /\ \A d \in Channels : r \notin Elements(takers[d])
    /\ takers' = [takers EXCEPT ![c] = Append(@, r)]
    /\ UNCHANGED <<exists, capacity, queue, shut, accepted, got, used>>

\* Operations that wait give up: a send that has completed does not.
Withdraw(gone) ==
    /\ gone \cap accepted = {}
    /\ queue' = [c \in Channels |-> Unlinked(queue[c], gone)]
    /\ takers' = [c \in Channels |-> Unlinked(takers[c], gone)]
    /\ UNCHANGED <<exists, capacity, shut, accepted, got, used>>

\* The channel loses its messages and its waiting operations, until it is reset.
Close(c) ==
    /\ shut' = [shut EXCEPT ![c] = TRUE]
    /\ queue' = [queue EXCEPT ![c] = <<>>]
    /\ takers' = [takers EXCEPT ![c] = <<>>]
    /\ UNCHANGED <<exists, capacity, accepted, got, used>>

Reset(c) ==
    /\ shut[c] /\ shut' = [shut EXCEPT ![c] = FALSE]
    /\ UNCHANGED <<exists, capacity, queue, takers, accepted, got, used>>

Construct(c, n) ==
    /\ c \notin exists /\ exists' = exists \cup {c}
    /\ capacity' = [capacity EXCEPT ![c] = n]
    /\ shut' = [shut EXCEPT ![c] = FALSE]
    /\ UNCHANGED <<queue, takers, accepted, got, used>>

Destroy(c) ==
    /\ exists' = exists \ {c}
    /\ queue' = [queue EXCEPT ![c] = <<>>]
    /\ takers' = [takers EXCEPT ![c] = <<>>]
    /\ UNCHANGED <<capacity, shut, accepted, got, used>>

\* Moved from c to d: everything goes along, c is as new.
Move(c, d) ==
    /\ c \in exists /\ exists' = exists \cup {d}
    /\ capacity' = [capacity EXCEPT ![d] = capacity[c]]
    /\ queue' = [queue EXCEPT ![d] = queue[c], ![c] = <<>>]
    /\ takers' = [takers EXCEPT ![d] = takers[c], ![c] = <<>>]
    /\ shut' = [shut EXCEPT ![d] = shut[c], ![c] = FALSE]
    /\ UNCHANGED <<accepted, got, used>>

Held == UNION {Elements(queue[c]) \cup Elements(takers[c]) : c \in Channels}

Next ==
    \/ \E c \in Channels :
        \/ \E ms \in UNION {[1 .. n -> Messages] : n \in 1 .. Cardinality(Messages)} : Send(c, ms)
        \/ \E r \in Receivers : Take(c, r) \/ Wait(c, r)
        \/ Close(c) \/ Reset(c) \/ Destroy(c)
        \/ \E n \in Capacities : Construct(c, n)
        \/ \E d \in Channels \ {c} : Move(c, d)
    \/ \E gone \in SUBSET Held : Withdraw(gone)

Spec == Init /\ [][Next]_vars
=============================================================================
