---------------------------- MODULE WinIocpProofs ----------------------------
(***************************************************************************)
(* For any number of threads, operations, timers and failures to post: an  *)
(* operation is in one place until it is dispatched or destroyed, its      *)
(* handler is given its own result, and neither the stop event nor an      *)
(* operation put aside waits for a thread that nobody sends.               *)
(***************************************************************************)
EXTENDS WinIocp, OpQueueTheorems

OpPacket == [op : Ops, res : {"ok", "io", InOverlapped}]
AnyPacket == OpPacket \cup {StopPacket, WakePacket}

Points == {"idle", "top", "dispatch", "get", "got", "handler", "stop", "stop_event", "stop_post",
           "stop_seen", "stop_check"}
Stopping == {"stop", "stop_event", "stop_post"}

TypeControl ==
    /\ outstanding_work_ \in Int
    /\ stopped_ \in BOOLEAN /\ stop_event_posted_ \in BOOLEAN /\ shutdown_ \in BOOLEAN

TypeQueues ==
    /\ port \in Seq(AnyPacket) /\ completed_ops_ \in Seq(Ops)
    /\ fails \in 0 .. MaxFails /\ dispatch_required_ \in BOOLEAN

TypeOps ==
    /\ issued \in 0 .. MaxOps /\ ready_ \in [Ops -> BOOLEAN]
    /\ overlapped \in [Ops -> {"none", "ok", "io", "failed"}]
    /\ call \in [Ops -> Threads \cup {"none", "returned"}]
    /\ device \in [Ops -> {"none", "busy", "completed", "refused"}]
    /\ seen \in [Ops -> {"none", "ok", "io", "failed", "destroyed"}]

TypeTiming ==
    /\ timers \subseteq Ops /\ due \subseteq timers
    /\ waitable_timer_ \in {"off", "set"} /\ timer_thread_ \in {"waits", "posts"}

TypeThreads ==
    /\ pc \in [Threads -> Points] /\ mode \in [Threads -> Modes \cup {"none"}]
    /\ cur \in [Threads -> OpPacket \cup {NoPacket}]
    /\ ret \in [Threads -> {"idle", "top", "handler"}]

\* Where a thread is says what it has in its hands; none is inside after shutdown().
ThreadsKnown ==
    \A t \in Threads :
        /\ pc[t] = "got" => cur[t] \in OpPacket
        /\ pc[t] \notin Stopping => ret[t] = "idle"
        /\ shutdown_ => pc[t] = "idle"

TypeInv == TypeControl /\ TypeQueues /\ TypeOps /\ TypeTiming /\ TypeThreads /\ ThreadsKnown

-----------------------------------------------------------------------------
(* Packets.                                                                *)

LEMMA PacketFacts ==
  /\ \A o \in Ops : /\ o # NoOp /\ o \in Nat
                    /\ Packet(o, "ok") \in OpPacket /\ Packet(o, "io") \in OpPacket
                    /\ Packet(o, InOverlapped) \in OpPacket
  /\ \A o, r : Packet(o, r).op = o /\ Packet(o, r).res = r
  /\ \A p \in OpPacket : /\ p.op \in Ops /\ p.res \in {"ok", "io", InOverlapped}
                         /\ p # StopPacket /\ p # WakePacket /\ p # NoPacket
                         /\ p = Packet(p.op, p.res)
  /\ StopPacket.op = NoOp /\ WakePacket.op = NoOp /\ StopPacket # WakePacket
  /\ OpPacket \subseteq AnyPacket /\ StopPacket \in AnyPacket /\ WakePacket \in AnyPacket
BY DEF Ops, NoOp, OpPacket, AnyPacket, Packet, StopPacket, WakePacket, NoPacket, InOverlapped

LEMMA AnyFacts ==
  ASSUME NEW p \in AnyPacket
  PROVE  /\ p.op \in Ops => p \in OpPacket
         /\ p.op \notin Ops => p = StopPacket \/ p = WakePacket
BY PacketFacts DEF AnyPacket

\* The operations of a list of packets are where the packets are.
LEMMA OpsOfShape ==
  ASSUME NEW q \in Seq(AnyPacket)
  PROVE  /\ OpsOf(q) \in Seq(Ops \cup {NoOp}) /\ Len(OpsOf(q)) = Len(q)
         /\ \A i \in 1 .. Len(q) : q[i] \in AnyPacket /\ OpsOf(q)[i] = q[i].op
<1>1. \A p \in AnyPacket : p.op \in Ops \cup {NoOp}
  BY PacketFacts DEF AnyPacket
<1>2. Len(q) \in Nat /\ \A i \in 1 .. Len(q) : q[i] \in AnyPacket
  OBVIOUS
<1> QED BY <1>1, <1>2 DEF OpsOf

LEMMA OpsOfHas ==
  ASSUME NEW q \in Seq(AnyPacket), NEW o
  PROVE  Has(OpsOf(q), o) <=> \E p \in AnyPacket : Has(q, p) /\ p.op = o
BY OpsOfShape DEF Has

LEMMA OpsOfConcat ==
  ASSUME NEW q \in Seq(AnyPacket), NEW r \in Seq(AnyPacket)
  PROVE  OpsOf(q \o r) = OpsOf(q) \o OpsOf(r)
<1> DEFINE T == Ops \cup {NoOp}
           a == OpsOf(q)
           b == OpsOf(r)
           c == OpsOf(q \o r)
<1>1. /\ q \o r \in Seq(AnyPacket) /\ Len(q \o r) = Len(q) + Len(r) /\ Len(q) \in Nat /\ Len(r) \in Nat
      /\ \A i \in 1 .. Len(q) + Len(r) : (q \o r)[i] = IF i <= Len(q) THEN q[i] ELSE r[i - Len(q)]
  OBVIOUS
<1>2. a \in Seq(T) /\ Len(a) = Len(q) /\ \A i \in 1 .. Len(q) : a[i] = q[i].op
  BY OpsOfShape
<1>3. b \in Seq(T) /\ Len(b) = Len(r) /\ \A i \in 1 .. Len(r) : b[i] = r[i].op
  BY OpsOfShape
<1>4. c \in Seq(T) /\ Len(c) = Len(q) + Len(r) /\ \A i \in 1 .. Len(q) + Len(r) : c[i] = (q \o r)[i].op
  BY <1>1, OpsOfShape
<1> HIDE DEF T, a, b, c
<1>5. /\ a \o b \in Seq(T) /\ Len(a \o b) = Len(q) + Len(r)
      /\ \A i \in 1 .. Len(q) + Len(r) : (a \o b)[i] = IF i <= Len(q) THEN a[i] ELSE b[i - Len(q)]
  <2>1. /\ a \o b \in Seq(T) /\ Len(a \o b) = Len(a) + Len(b)
        /\ \A i \in 1 .. Len(a) + Len(b) : (a \o b)[i] = IF i <= Len(a) THEN a[i] ELSE b[i - Len(a)]
    <3>1. a \in Seq(T) /\ b \in Seq(T)
      BY <1>2, <1>3
    <3> QED BY <3>1, ConcatProperties, Zenon
  <2> QED BY <1>2, <1>3, <2>1
<1>6. ASSUME NEW i \in 1 .. Len(q) + Len(r) PROVE c[i] = (a \o b)[i]
  <2>1. CASE i <= Len(q)
    <3>1. i \in 1 .. Len(q)
      BY <1>1, <2>1
    <3> QED BY <1>1, <1>2, <1>4, <1>5, <2>1, <3>1
  <2>2. CASE ~(i <= Len(q))
    <3>1. i - Len(q) \in 1 .. Len(r)
      BY <1>1, <2>2
    <3> QED BY <1>1, <1>3, <1>4, <1>5, <2>2, <3>1
  <2> QED BY <2>1, <2>2
<1>7. c = a \o b
  BY <1>1, <1>4, <1>5, <1>6
<1> QED BY <1>7 DEF a, b, c

LEMMA OpsOfTail ==
  ASSUME NEW q \in Seq(AnyPacket), q # <<>>
  PROVE  /\ OpsOf(q) # <<>> /\ Head(OpsOf(q)) = Head(q).op /\ OpsOf(Tail(q)) = Tail(OpsOf(q))
<1> DEFINE T == Ops \cup {NoOp}
           a == OpsOf(q)
           c == OpsOf(Tail(q))
<1>1. /\ Tail(q) \in Seq(AnyPacket) /\ Len(Tail(q)) = Len(q) - 1 /\ Len(q) \in Nat \ {0}
      /\ Head(q) = q[1] /\ \A i \in 1 .. Len(q) - 1 : Tail(q)[i] = q[i + 1]
  OBVIOUS
<1>2. a \in Seq(T) /\ Len(a) = Len(q) /\ \A i \in 1 .. Len(q) : a[i] = q[i].op
  BY OpsOfShape
<1>3. c \in Seq(T) /\ Len(c) = Len(q) - 1 /\ \A i \in 1 .. Len(q) - 1 : c[i] = Tail(q)[i].op
  BY <1>1, OpsOfShape
<1> HIDE DEF T, a, c
<1>4. /\ a # <<>> /\ Head(a) = a[1] /\ Tail(a) \in Seq(T) /\ Len(Tail(a)) = Len(q) - 1
      /\ \A i \in 1 .. Len(q) - 1 : Tail(a)[i] = a[i + 1]
  BY <1>1, <1>2
<1>5. ASSUME NEW i \in 1 .. Len(q) - 1 PROVE c[i] = Tail(a)[i]
  <2>1. i + 1 \in 1 .. Len(q)
    BY <1>1
  <2> QED BY <1>1, <1>2, <1>3, <1>4, <2>1
<1>6. c = Tail(a)
  BY <1>1, <1>3, <1>4, <1>5
<1>7. Head(a) = Head(q).op
  BY <1>1, <1>2, <1>4
<1> QED BY <1>4, <1>6, <1>7 DEF a, c

USE IocpAssumption DEF IocpAssumption

\* One more packet in the port.
LEMMA OneMorePacket ==
  ASSUME NEW q \in Seq(AnyPacket), NEW p \in AnyPacket
  PROVE  /\ Append(q, p) \in Seq(AnyPacket) /\ Append(q, p) = q \o <<p>>
         /\ \A r : Has(Append(q, p), r) <=> Has(q, r) \/ r = p
         /\ \A r : AtMostOnce(q, r) /\ (r = p => ~Has(q, r)) => AtMostOnce(Append(q, p), r)
         /\ \A o : Has(OpsOf(Append(q, p)), o) <=> Has(OpsOf(q), o) \/ o = p.op
         /\ \A o : AtMostOnce(OpsOf(q), o) /\ (o = p.op => ~Has(OpsOf(q), o))
                     => AtMostOnce(OpsOf(Append(q, p)), o)
<1>1. <<p>> \in Seq(AnyPacket) /\ Append(q, p) \in Seq(AnyPacket) /\ Append(q, p) = q \o <<p>>
  OBVIOUS
<1>2. OpsOf(<<p>>) = <<p.op>>
  BY DEF OpsOf
<1>3. OpsOf(Append(q, p)) = OpsOf(q) \o <<p.op>>
  BY <1>1, <1>2, OpsOfConcat
<1>4. OpsOf(q) \in Seq(Ops \cup {NoOp}) /\ <<p.op>> \in Seq(Ops \cup {NoOp})
  <2>1. p.op \in Ops \cup {NoOp}
    BY PacketFacts DEF AnyPacket
  <2> QED BY <2>1, OpsOfShape
<1>5. ASSUME NEW r PROVE /\ Has(Append(q, p), r) <=> Has(q, r) \/ r = p
                         /\ AtMostOnce(q, r) /\ (r = p => ~Has(q, r)) => AtMostOnce(Append(q, p), r)
  <2>1. PICK b : b = <<p>>
    OBVIOUS
  <2>2. /\ Has(q \o b, r) <=> Has(q, r) \/ Has(b, r)
        /\ AtMostOnce(q, r) /\ AtMostOnce(b, r) /\ ~(Has(q, r) /\ Has(b, r)) => AtMostOnce(q \o b, r)
    BY <1>1, <2>1, ConcatHas, JoinOnce
  <2>3. (Has(b, r) <=> r = p) /\ AtMostOnce(b, r)
    BY <2>1, OneHas
  <2> QED BY <1>1, <2>1, <2>2, <2>3
<1>6. ASSUME NEW o PROVE /\ Has(OpsOf(Append(q, p)), o) <=> Has(OpsOf(q), o) \/ o = p.op
                         /\ AtMostOnce(OpsOf(q), o) /\ (o = p.op => ~Has(OpsOf(q), o))
                              => AtMostOnce(OpsOf(Append(q, p)), o)
  <2>1. PICK a : a = OpsOf(q)
    OBVIOUS
  <2>2. PICK b : b = <<p.op>>
    OBVIOUS
  <2>3. (Has(a \o b, o) <=> Has(a, o) \/ Has(b, o))
        /\ (AtMostOnce(a, o) /\ AtMostOnce(b, o) /\ ~(Has(a, o) /\ Has(b, o)) => AtMostOnce(a \o b, o))
    BY <1>4, <2>1, <2>2, ConcatHas, JoinOnce
  <2>4. (Has(b, o) <=> o = p.op) /\ AtMostOnce(b, o)
    BY <2>2, OneHas
  <2> QED BY <1>3, <2>1, <2>2, <2>3, <2>4
<1> QED BY <1>1, <1>5, <1>6

\* The first packet leaves the port.
LEMMA OnePacketLess ==
  ASSUME NEW q \in Seq(AnyPacket), q # <<>>
  PROVE  /\ Tail(q) \in Seq(AnyPacket) /\ Head(q) \in AnyPacket /\ Has(q, Head(q))
         /\ \A r : /\ Has(Tail(q), r) => Has(q, r)
                   /\ Has(q, r) => Has(Tail(q), r) \/ Head(q) = r
                   /\ AtMostOnce(q, r) => AtMostOnce(Tail(q), r)
                   /\ AtMostOnce(q, r) /\ Head(q) = r => ~Has(Tail(q), r)
         /\ \A o : /\ Has(OpsOf(Tail(q)), o) => Has(OpsOf(q), o)
                   /\ Has(OpsOf(q), o) => Has(OpsOf(Tail(q)), o) \/ Head(q).op = o
                   /\ AtMostOnce(OpsOf(q), o) => AtMostOnce(OpsOf(Tail(q)), o)
                   /\ AtMostOnce(OpsOf(q), o) /\ Head(q).op = o => ~Has(OpsOf(Tail(q)), o)
         /\ Has(OpsOf(q), Head(q).op)
<1>1. Tail(q) \in Seq(AnyPacket) /\ Head(q) \in AnyPacket /\ Has(q, Head(q))
  <2>1. Len(q) > 0 /\ Head(q) = q[1]
    OBVIOUS
  <2> QED BY <2>1 DEF Has
<1>2. OpsOf(q) # <<>> /\ Head(OpsOf(q)) = Head(q).op /\ OpsOf(Tail(q)) = Tail(OpsOf(q))
  BY OpsOfTail
<1>3. OpsOf(q) \in Seq(Ops \cup {NoOp})
  BY OpsOfShape
<1>4. Has(OpsOf(q), Head(q).op)
  BY <1>1, OpsOfHas
<1>5. ASSUME NEW r PROVE /\ Has(Tail(q), r) => Has(q, r)
                         /\ Has(q, r) => Has(Tail(q), r) \/ Head(q) = r
                         /\ AtMostOnce(q, r) => AtMostOnce(Tail(q), r)
                         /\ AtMostOnce(q, r) /\ Head(q) = r => ~Has(Tail(q), r)
  BY TailHas
<1>6. ASSUME NEW o PROVE /\ Has(OpsOf(Tail(q)), o) => Has(OpsOf(q), o)
                         /\ Has(OpsOf(q), o) => Has(OpsOf(Tail(q)), o) \/ Head(q).op = o
                         /\ AtMostOnce(OpsOf(q), o) => AtMostOnce(OpsOf(Tail(q)), o)
                         /\ AtMostOnce(OpsOf(q), o) /\ Head(q).op = o => ~Has(OpsOf(Tail(q)), o)
  <2>1. PICK a : a = OpsOf(q)
    OBVIOUS
  <2>2. a \in Seq(Ops \cup {NoOp}) /\ a # <<>>
    BY <1>2, <1>3, <2>1
  <2>3. /\ Has(Tail(a), o) => Has(a, o)
        /\ Has(a, o) => Has(Tail(a), o) \/ Head(a) = o
        /\ AtMostOnce(a, o) => AtMostOnce(Tail(a), o)
        /\ AtMostOnce(a, o) /\ Head(a) = o => ~Has(Tail(a), o)
    BY <2>2, TailHas
  <2> QED BY <1>2, <2>1, <2>3
<1> QED BY <1>1, <1>4, <1>5, <1>6

-----------------------------------------------------------------------------
(* Posting a list.                                                         *)

\* The packets are in the port, or their operations are put aside and asked for.
PostedOf(packets, left) ==
    /\ port' \in Seq(AnyPacket) /\ completed_ops_' \in Seq(Ops) /\ ready_' \in [Ops -> BOOLEAN]
    /\ fails' \in 0 .. MaxFails /\ dispatch_required_' \in BOOLEAN
    /\ \A p \in AnyPacket : /\ Has(port', p) => Has(port, p) \/ Has(packets, p)
                            /\ Has(port, p) => Has(port', p)
                            /\ AtMostOnce(port, p) /\ ~Has(packets, p) => AtMostOnce(port', p)
    /\ fails' = 0 => fails = 0 /\ completed_ops_' = left
    /\ dispatch_required_ => dispatch_required_'
    /\ completed_ops_' # left => dispatch_required_'

\* The same for one operation: it is in one of the two if it was in the list.
PostedOne(packets, left, o) ==
    LET L == OpsOf(packets)
    IN  /\ Has(OpsOf(port'), o) \/ Has(completed_ops_', o)
              <=> Has(OpsOf(port), o) \/ Has(left, o) \/ Has(L, o)
        /\ ~Has(L, o) => /\ Has(OpsOf(port'), o) <=> Has(OpsOf(port), o)
                         /\ Has(completed_ops_', o) <=> Has(left, o)
                         /\ ready_'[o] = ready_[o]
                         /\ AtMostOnce(OpsOf(port), o) => AtMostOnce(OpsOf(port'), o)
                         /\ AtMostOnce(left, o) => AtMostOnce(completed_ops_', o)
        /\ Has(L, o) /\ AtMostOnce(L, o) /\ ~Has(OpsOf(port), o) /\ ~Has(left, o)
              => /\ AtMostOnce(OpsOf(port'), o) /\ AtMostOnce(completed_ops_', o)
                 /\ ~(Has(OpsOf(port'), o) /\ Has(completed_ops_', o))
                 /\ Has(OpsOf(port'), o) => ready_'[o]

LEMMA PostFacts ==
  ASSUME TypeQueues, TypeOps, NEW packets \in Seq(OpPacket), NEW left \in Seq(Ops), Post(packets, left)
  PROVE  PostedOf(packets, left) /\ \A o \in Ops : PostedOne(packets, left, o)
<1>1. PICK n \in 0 .. Len(packets) :
        /\ IF n = Len(packets) THEN UNCHANGED fails ELSE Fail
        /\ port' = port \o SubSeq(packets, 1, n)
        /\ completed_ops_' = left \o OpsOf(SubSeq(packets, n + 1, Len(packets)))
        /\ dispatch_required_' = Required(n < Len(packets))
        /\ ready_' = [o \in Ops |-> ready_[o] \/ \E i \in DOMAIN packets : i <= n + 1 /\ packets[i].op = o]
  BY DEF Post
<1>2. PICK a : a = SubSeq(packets, 1, n)
  OBVIOUS
<1>3. PICK b : b = SubSeq(packets, n + 1, Len(packets))
  OBVIOUS
<1>4. /\ a \in Seq(OpPacket) /\ b \in Seq(OpPacket) /\ packets = a \o b
      /\ Len(a) = n /\ Len(b) = Len(packets) - n /\ \A i \in 1 .. n : a[i] = packets[i]
  BY <1>2, <1>3, CutInTwo
<1>5. a \in Seq(AnyPacket) /\ b \in Seq(AnyPacket) /\ packets \in Seq(AnyPacket)
  BY <1>4, PacketFacts, SeqSubset
<1>6. OpsOf(packets) = OpsOf(a) \o OpsOf(b) /\ OpsOf(port') = OpsOf(port) \o OpsOf(a)
  BY <1>1, <1>2, <1>4, <1>5, OpsOfConcat DEF TypeQueues
<1>7. PICK x : x = OpsOf(a)
  OBVIOUS
<1>8. PICK y : y = OpsOf(b)
  OBVIOUS
<1>9. PICK z : z = OpsOf(port)
  OBVIOUS
<1>10. OpsOf(packets) = x \o y /\ OpsOf(port') = z \o x /\ completed_ops_' = left \o y /\ port' = port \o a
  BY <1>1, <1>2, <1>3, <1>6, <1>7, <1>8, <1>9
<1>11. y \in Seq(Ops)
  <2>1. Len(b) \in Nat /\ \A i \in 1 .. Len(b) : b[i].op \in Ops
    BY <1>4, PacketFacts
  <2> QED BY <1>8, <2>1 DEF OpsOf
<1>12. /\ x \in Seq(Ops \cup {NoOp}) /\ y \in Seq(Ops \cup {NoOp}) /\ z \in Seq(Ops \cup {NoOp})
       /\ left \in Seq(Ops \cup {NoOp})
  <2>1. x \in Seq(Ops \cup {NoOp}) /\ y \in Seq(Ops \cup {NoOp})
    BY <1>5, <1>7, <1>8, OpsOfShape
  <2>2. z \in Seq(Ops \cup {NoOp})
    BY <1>9, OpsOfShape DEF TypeQueues
  <2>3. left \in Seq(Ops \cup {NoOp})
    BY SeqSubset
  <2> QED BY <2>1, <2>2, <2>3
<1>13. PostedOf(packets, left)
  <2>1. port' \in Seq(AnyPacket) /\ completed_ops_' \in Seq(Ops) /\ ready_' \in [Ops -> BOOLEAN]
    <3>1. ready_' \in [Ops -> BOOLEAN]
      BY <1>1 DEF TypeOps
    <3> QED BY <1>5, <1>10, <1>11, <3>1, ConcatProperties DEF TypeQueues
  <2>0. \/ n = Len(packets) /\ fails' = fails
        \/ n # Len(packets) /\ fails < MaxFails /\ fails' = fails + 1
    BY <1>1, Zenon DEF Fail
  <2>2. fails' \in 0 .. MaxFails /\ (fails' = 0 => fails = 0)
    <3>1. fails \in Nat /\ fails <= MaxFails
      BY DEF TypeQueues
    <3>2. fails' = fails \/ (fails' = fails + 1 /\ fails < MaxFails)
      BY <2>0
    <3>3. CASE fails' = fails
      BY <3>1, <3>3
    <3>4. CASE fails' = fails + 1 /\ fails < MaxFails
      BY <3>1, <3>4
    <3> QED BY <3>2, <3>3, <3>4
  <2>3. dispatch_required_' \in BOOLEAN /\ (dispatch_required_ => dispatch_required_')
        /\ (n < Len(packets) => dispatch_required_')
    BY <1>1 DEF TypeQueues, Required
  <2>4. ASSUME n = Len(packets) PROVE completed_ops_' = left
    <3>1. b = <<>>
      BY <1>4, <2>4
    <3>2. y = <<>>
      BY <1>8, <3>1 DEF OpsOf
    <3> QED BY <1>10, <3>2
  <2>5. n < Len(packets) => fails' # 0
    BY <2>0 DEF TypeQueues
  <2>6. n < Len(packets) \/ n = Len(packets)
    BY <1>1
  <2>7. ASSUME NEW p \in AnyPacket
        PROVE  /\ Has(port', p) => Has(port, p) \/ Has(packets, p)
               /\ Has(port, p) => Has(port', p)
               /\ AtMostOnce(port, p) /\ ~Has(packets, p) => AtMostOnce(port', p)
    <3>1. Has(port', p) <=> Has(port, p) \/ Has(a, p)
      BY <1>5, <1>10, ConcatHas DEF TypeQueues
    <3>2. Has(packets, p) <=> Has(a, p) \/ Has(b, p)
      BY <1>4, ConcatHas
    <3>3. AtMostOnce(port, p) /\ ~Has(a, p) => AtMostOnce(port', p)
      BY <1>5, <1>10, ConcatOnce DEF TypeQueues
    <3> QED BY <3>1, <3>2, <3>3
  <2> QED BY <2>1, <2>2, <2>3, <2>4, <2>5, <2>6, <2>7 DEF PostedOf
<1>14. ASSUME NEW o \in Ops PROVE PostedOne(packets, left, o)
  <2>1. /\ Has(OpsOf(port'), o) <=> Has(z, o) \/ Has(x, o)
        /\ Has(completed_ops_', o) <=> Has(left, o) \/ Has(y, o)
        /\ Has(OpsOf(packets), o) <=> Has(x, o) \/ Has(y, o)
    BY <1>10, <1>12, ConcatHas
  <2>2. /\ AtMostOnce(z, o) /\ AtMostOnce(x, o) /\ ~(Has(z, o) /\ Has(x, o)) => AtMostOnce(OpsOf(port'), o)
        /\ AtMostOnce(left, o) /\ AtMostOnce(y, o) /\ ~(Has(left, o) /\ Has(y, o))
             => AtMostOnce(completed_ops_', o)
    BY <1>10, <1>12, JoinOnce
  <2>3. AtMostOnce(OpsOf(packets), o) => /\ AtMostOnce(x, o) /\ AtMostOnce(y, o)
                                         /\ ~(Has(x, o) /\ Has(y, o))
    BY <1>10, <1>12, PartsOnce
  <2>4. \A q : ~Has(q, o) => AtMostOnce(q, o)
    BY DEF Has, AtMostOnce
  <2>5. Has(x, o) => ready_'[o]
    <3>1. ASSUME Has(x, o) PROVE \E i \in DOMAIN packets : i <= n + 1 /\ packets[i].op = o
      <4>1. PICK i \in 1 .. n : x[i] = o
        BY <1>4, <1>5, <1>7, <3>1, OpsOfShape DEF Has
      <4>2. x[i] = a[i].op /\ a[i] = packets[i]
        BY <1>4, <1>5, <1>7, OpsOfShape
      <4>3. i \in DOMAIN packets /\ i <= n + 1
        BY <1>1
      <4> QED BY <4>1, <4>2, <4>3
    <3> QED BY <1>1, <3>1
  <2>6. ~Has(OpsOf(packets), o) => ready_'[o] = ready_[o]
    <3>1. ASSUME NEW i \in DOMAIN packets, packets[i].op = o PROVE Has(OpsOf(packets), o)
      <4>1. i \in 1 .. Len(packets) /\ packets[i] \in AnyPacket /\ Has(packets, packets[i])
        BY <1>5 DEF Has
      <4> QED BY <1>5, <3>1, <4>1, OpsOfHas
    <3>2. ~Has(OpsOf(packets), o) => ~(\E i \in DOMAIN packets : i <= n + 1 /\ packets[i].op = o)
      BY <3>1
    <3>3. ready_[o] \in BOOLEAN
      BY DEF TypeOps
    <3> QED BY <1>1, <3>2, <3>3
  <2>7. AtMostOnce(z, o) <=> AtMostOnce(OpsOf(port), o)
    BY <1>9
  <2> QED BY <1>9, <2>1, <2>2, <2>3, <2>4, <2>5, <2>6 DEF PostedOne
<1> QED BY <1>13, <1>14

\* The due timers in some order: each once.
LEMMA DueListed ==
  ASSUME TypeTiming, NEW ready \in [1 .. Cardinality(due) -> due],
         \A i, j \in DOMAIN ready : ready[i] = ready[j] => i = j
  PROVE  ready \in Seq(Ops) /\ \A o : AtMostOnce(ready, o) /\ (Has(ready, o) <=> o \in due)
<1>1. IsFiniteSet(due) /\ Cardinality(due) \in Nat
  <2>1. IsFiniteSet(1 .. MaxOps)
    BY FS_Interval
  <2>2. due \in SUBSET (1 .. MaxOps)
    BY DEF TypeTiming, Ops
  <2> QED BY <2>1, <2>2, FS_Subset, FS_CardinalityType
<1>2. PICK n \in Nat : n = Cardinality(due)
  BY <1>1
<1>3. ready \in [1 .. n -> due] /\ DOMAIN ready = 1 .. n
  BY <1>2
<1>4. ready \in Injection(1 .. n, due)
  BY <1>3 DEF Injection, IsInjective
<1>5. Cardinality(1 .. n) = n
  BY FS_Interval
<1>6. ready \in Surjection(1 .. n, due)
  BY <1>1, <1>2, <1>4, <1>5, FS_Injection
<1>7. \A o \in due : \E i \in 1 .. n : ready[i] = o
  BY <1>6 DEF Surjection
<1>8. ready \in Seq(Ops) /\ Len(ready) = n
  BY <1>3 DEF TypeTiming
<1>9. \A i \in 1 .. n : ready[i] \in due
  BY <1>3
<1>10. \A i, j \in 1 .. n : ready[i] = ready[j] => i = j
  BY <1>3
<1>11. ASSUME NEW o PROVE AtMostOnce(ready, o) /\ (Has(ready, o) <=> o \in due)
  BY <1>7, <1>8, <1>9, <1>10 DEF Has, AtMostOnce
<1> QED BY <1>8, <1>11

\* The packets that carry a list of operations.
LEMMA PostedFacts ==
  ASSUME NEW q \in Seq(Ops)
  PROVE  Posted(q) \in Seq(OpPacket) /\ OpsOf(Posted(q)) = q
<1>1. Len(q) \in Nat /\ \A i \in 1 .. Len(q) : q[i] \in Ops
  OBVIOUS
<1>2. \A i \in 1 .. Len(q) : Packet(q[i], "ok") \in OpPacket /\ Packet(q[i], "ok").op = q[i]
  BY <1>1, PacketFacts
<1>3. Posted(q) \in Seq(OpPacket) /\ Len(Posted(q)) = Len(q)
  BY <1>1, <1>2 DEF Posted
<1>4. OpsOf(Posted(q)) \in Seq(Ops) /\ Len(OpsOf(Posted(q))) = Len(q)
      /\ \A i \in 1 .. Len(q) : OpsOf(Posted(q))[i] = q[i]
  BY <1>1, <1>2, <1>3 DEF Posted, OpsOf
<1>5. OpsOf(Posted(q)) = q
  BY <1>1, <1>4, SeqEqual
<1> QED BY <1>3, <1>5

\* What do_one() posts when it is responsible.
DispatchedList(q) ==
    /\ q \in Seq(Ops) /\ Post(Posted(q), <<>>)
    /\ \A o \in Ops : /\ Has(q, o) <=> Has(completed_ops_, o) \/ o \in due
                      /\ AtMostOnce(completed_ops_, o) /\ ~(Has(completed_ops_, o) /\ o \in due)
                            => AtMostOnce(q, o)

LEMMA DispatchPosts ==
  ASSUME TypeQueues, TypeTiming, NEW t, Dispatch(t)
  PROVE  \E q : DispatchedList(q)
<1>1. PICK ready \in {q \in [1 .. Cardinality(due) -> due] : \A i, j \in DOMAIN q : q[i] = q[j] => i = j} :
         Post(Posted(completed_ops_ \o ready), <<>>)
  BY DEF Dispatch
<1>2. ready \in Seq(Ops) /\ \A o : AtMostOnce(ready, o) /\ (Has(ready, o) <=> o \in due)
  BY <1>1, DueListed
<1>3. completed_ops_ \o ready \in Seq(Ops)
  BY <1>2, ConcatProperties DEF TypeQueues
<1>4. ASSUME NEW o \in Ops
      PROVE  /\ Has(completed_ops_ \o ready, o) <=> Has(completed_ops_, o) \/ o \in due
             /\ AtMostOnce(completed_ops_, o) /\ ~(Has(completed_ops_, o) /\ o \in due)
                            => AtMostOnce(completed_ops_ \o ready, o)
  BY <1>2, ConcatHas, JoinOnce DEF TypeQueues
<1> QED BY <1>1, <1>3, <1>4 DEF DispatchedList

-----------------------------------------------------------------------------
(* Types.                                                                  *)

\* A thread goes to a place where it has nothing in its hands.
Moved(t) ==
    \E p \in Points \ {"got"}, m \in Modes \cup {"none"}, r \in {"idle", "top", "handler"} :
       /\ pc' = [pc EXCEPT ![t] = p] /\ (mode' = [mode EXCEPT ![t] = m] \/ mode' = mode)
       /\ ret' = [ret EXCEPT ![t] = r] /\ (p \notin Stopping => r = "idle") /\ (shutdown_ => p = "idle")

LEMMA ThreadMoves ==
  ASSUME TypeThreads, ThreadsKnown, shutdown_' = shutdown_, cur' = cur, NEW t \in Threads, Moved(t)
  PROVE  TypeThreads' /\ ThreadsKnown'
BY DEF TypeThreads, ThreadsKnown, Moved

LEMMA GotoMoves ==
  ASSUME TypeThreads, NEW t \in Threads, NEW p \in Points, Goto(t, p)
  PROVE  pc' = [pc EXCEPT ![t] = p] /\ \E m \in Modes \cup {"none"} : mode' = [mode EXCEPT ![t] = m]
BY DEF Goto, TypeThreads

\* The steps of a thread on its way, with nothing of an operation.
Walks(t) ==
    \/ StopFlag(t) \/ StopEvent(t) \/ StopPost(t) \/ Top(t) \/ GetNothing(t) \/ StopSeen(t)
    \/ StopCheck(t) \/ (\E throws \in BOOLEAN : HandlerEnds(t, throws)) \/ Stop(t)
    \/ (\E m \in Modes : Enter(t, m))

LEMMA WalkMoves ==
  ASSUME TypeInv, NEW t \in Threads, Walks(t)
  PROVE  Moved(t)
<1> USE DEF TypeInv
<1>1. pc[t] \in Points /\ ret[t] \in {"idle", "top", "handler"} /\ mode[t] \in Modes \cup {"none"}
      /\ (shutdown_ => pc[t] = "idle") /\ (pc[t] \notin Stopping => ret[t] = "idle")
  BY DEF TypeThreads, ThreadsKnown
<1>2. Moved(t)
  <2>1. ASSUME NEW p \in Points \ {"got"}, Goto(t, p), NEW r \in {"idle", "top", "handler"},
               ret' = [ret EXCEPT ![t] = r] \/ (ret' = ret /\ r = ret[t]),
               p \notin Stopping => r = "idle", ~shutdown_
        PROVE  Moved(t)
    <3>1. ret' = [ret EXCEPT ![t] = r]
      BY <2>1 DEF TypeThreads
    <3>2. PICK m \in Modes \cup {"none"} : mode' = [mode EXCEPT ![t] = m]
      BY <2>1, GotoMoves
    <3>3. pc' = [pc EXCEPT ![t] = p]
      BY <2>1, GotoMoves
    <3> QED BY <2>1, <3>1, <3>2, <3>3 DEF Moved
  <2>2. CASE StopFlag(t) \/ StopEvent(t)
    <3>1. pc[t] \in Stopping /\ ~shutdown_
      BY <1>1, <2>2 DEF StopFlag, StopEvent, Stopping
    <3>2. \/ Goto(t, ret[t]) /\ ret' = [ret EXCEPT ![t] = "idle"]
          \/ \E p \in {"stop_event", "stop_post"} : Goto(t, p) /\ ret' = ret
      BY <2>2 DEF StopFlag, StopEvent, Return, OnTo
    <3>3. CASE Goto(t, ret[t]) /\ ret' = [ret EXCEPT ![t] = "idle"]
      BY <1>1, <2>1, <3>1, <3>3 DEF Points
    <3>4. ASSUME NEW p \in {"stop_event", "stop_post"}, Goto(t, p), ret' = ret PROVE Moved(t)
      BY <1>1, <2>1, <3>1, <3>4 DEF Points, Stopping
    <3> QED BY <3>2, <3>3, <3>4
  <2>3. CASE StopPost(t)
    <3>1. ~shutdown_
      BY <1>1, <2>3 DEF StopPost
    <3>2. \/ Goto(t, ret[t]) /\ ret' = [ret EXCEPT ![t] = "idle"]
          \/ Goto(t, "idle") /\ ret' = [ret EXCEPT ![t] = "idle"]
      BY <2>3 DEF StopPost, Return
    <3>3. ret[t] \in Points \ {"got"} /\ "idle" \in Points \ {"got"}
      BY <1>1 DEF Points
    <3> QED BY <1>1, <2>1, <3>1, <3>2, <3>3
  <2>4. CASE Top(t) \/ GetNothing(t) \/ StopSeen(t) \/ StopCheck(t)
    <3>1. /\ ~shutdown_ /\ ret[t] = "idle" /\ ret' = ret
          /\ \E p \in {"dispatch", "get", "top", "idle", "stop_check", "stop_event"} : Goto(t, p)
      BY <1>1, <2>4 DEF Top, GetNothing, StopSeen, StopCheck, PassOn, OnTo, Stopping
    <3> QED BY <2>1, <3>1 DEF Points
  <2>5. ASSUME NEW throws \in BOOLEAN, HandlerEnds(t, throws) PROVE Moved(t)
    <3>1. PICK back \in {"idle", "top"} :
             \/ Goto(t, "stop") /\ ret' = [ret EXCEPT ![t] = back]
             \/ Goto(t, back) /\ ret' = ret
      BY <2>5 DEF HandlerEnds, CallStop, OnTo, AfterOne
    <3>2. ~shutdown_ /\ ret[t] = "idle"
      BY <1>1, <2>5 DEF HandlerEnds, Stopping
    <3> QED BY <2>1, <3>1, <3>2 DEF Points, Stopping
  <2>6. CASE Stop(t)
    <3>1. ~shutdown_ /\ pc[t] \in {"idle", "handler"} /\ Goto(t, "stop") /\ ret' = [ret EXCEPT ![t] = pc[t]]
      BY <2>6 DEF Stop, MayCall, CallStop
    <3> QED BY <2>1, <3>1 DEF Points, Stopping
  <2>7. ASSUME NEW m \in Modes, Enter(t, m) PROVE Moved(t)
    <3>1. PICK p \in {"stop", "top"} : pc' = [pc EXCEPT ![t] = p]
      BY <2>7 DEF Enter
    <3>2. /\ ~shutdown_ /\ mode' = [mode EXCEPT ![t] = m] /\ ret' = ret /\ ret[t] = "idle"
      BY <1>1, <2>7 DEF Enter, MayCall, Stopping
    <3>3. ret' = [ret EXCEPT ![t] = "idle"]
      BY <3>2 DEF TypeThreads
    <3>4. p \in Points \ {"got"} /\ (p \notin Stopping => "idle" = "idle")
      BY DEF Points
    <3> QED BY <3>1, <3>2, <3>3, <3>4 DEF Moved
  <2> QED BY <2>2, <2>3, <2>4, <2>5, <2>6, <2>7 DEF Walks
<1> QED BY <1>2

\* The words of the context change, nothing else does.
LEMMA ThreadTypes ==
  ASSUME TypeInv, NEW t \in Threads,
         Walks(t)
  PROVE  TypeInv'
<1> USE DEF TypeInv
<1>1. UNCHANGED ops /\ UNCHANGED timing /\ cur' = cur /\ UNCHANGED <<shutdown_, completed_ops_>>
  BY DEF Walks, StopFlag, StopEvent, StopPost, Top, GetNothing, StopSeen, StopCheck, HandlerEnds, Stop, Enter,
     control, queues
<1>2. TypeControl'
  <2>1. outstanding_work_' \in {outstanding_work_, outstanding_work_ - 1}
    BY DEF Walks, StopFlag, StopEvent, StopPost, Top, GetNothing, StopSeen, StopCheck, HandlerEnds, Stop, Enter,
       control
  <2>2. stopped_' = stopped_ \/ stopped_' = TRUE
    BY DEF Walks, StopFlag, StopEvent, StopPost, Top, GetNothing, StopSeen, StopCheck, HandlerEnds, Stop, Enter,
       control
  <2>3. stop_event_posted_' = stop_event_posted_ \/ stop_event_posted_' \in BOOLEAN
    BY DEF Walks, StopFlag, StopEvent, StopPost, Top, GetNothing, StopSeen, StopCheck, HandlerEnds, Stop, Enter,
       control
  <2>4. stopped_' \in BOOLEAN
    BY <2>2, Zenon DEF TypeControl
  <2>5. stop_event_posted_' \in BOOLEAN
    BY <2>3, Zenon DEF TypeControl
  <2>6. shutdown_' \in BOOLEAN
    BY <1>1, Zenon DEF TypeControl
  <2>7. outstanding_work_' \in Int
    BY <2>1 DEF TypeControl
  <2> QED BY <2>4, <2>5, <2>6, <2>7 DEF TypeControl
<1>3. TypeQueues'
  <2>1. CASE StopPost(t)
    <3>1. /\ UNCHANGED <<completed_ops_, dispatch_required_>>
          /\ (port' = Append(port, StopPacket) /\ fails' = fails) \/ (port' = port /\ Fail)
      BY <2>1 DEF StopPost
    <3>2. Append(port, StopPacket) \in Seq(AnyPacket)
      BY PacketFacts, OneMorePacket DEF TypeQueues
    <3> QED BY <3>1, <3>2 DEF TypeQueues, Fail
  <2>2. CASE Top(t)
    BY <2>2 DEF Top, TypeQueues
  <2>3. CASE ~StopPost(t) /\ ~Top(t)
    <3>1. UNCHANGED queues
      BY <2>3 DEF Walks, StopFlag, StopEvent, GetNothing, StopSeen, StopCheck, HandlerEnds, Stop, Enter
    <3> QED BY <3>1 DEF queues, TypeQueues
  <2> QED BY <2>1, <2>2, <2>3
<1>4. TypeOps' /\ TypeTiming'
  BY <1>1 DEF ops, timing, TypeOps, TypeTiming
<1>5. TypeThreads' /\ ThreadsKnown'
  BY <1>1, WalkMoves, ThreadMoves
<1> QED BY <1>2, <1>3, <1>4, <1>5

\* A packet comes out, or the list is posted.
LEMMA HandTypes ==
  ASSUME TypeInv, NEW t \in Threads, Get(t) \/ Claim(t) \/ Dispatch(t)
  PROVE  TypeInv'
<1> USE DEF TypeInv
<1>1. TypeControl'
  <2>1. UNCHANGED control
    BY DEF Get, Claim, Dispatch
  <2> QED BY <2>1 DEF control, TypeControl
<1>2. ~shutdown_ /\ ~shutdown_' /\ ret[t] = "idle" /\ ret' = ret
  BY DEF ThreadsKnown, Get, Claim, Dispatch, control, Stopping
<1>3. CASE Get(t)
  <2>1. port # <<>> /\ port' = Tail(port) /\ UNCHANGED <<completed_ops_, dispatch_required_, fails, ops, timing>>
    BY <1>3 DEF Get
  <2>2. TypeQueues' /\ TypeOps' /\ TypeTiming'
    <3>1. Tail(port) \in Seq(AnyPacket)
      BY <2>1, OnePacketLess DEF TypeQueues
    <3> QED BY <2>1, <3>1 DEF TypeQueues, TypeOps, TypeTiming, ops, timing
  <2>3. CASE Head(port).op \in Ops /\ Goto(t, "got") /\ cur' = [cur EXCEPT ![t] = Head(port)]
    <3>1. Head(port) \in OpPacket
      BY <2>1, <2>3, OnePacketLess, AnyFacts DEF TypeQueues
    <3>2. PICK m \in Modes \cup {"none"} : mode' = [mode EXCEPT ![t] = m]
      BY <2>3, GotoMoves DEF Points
    <3>3. pc' = [pc EXCEPT ![t] = "got"]
      BY <2>3 DEF Goto
    <3>4. TypeThreads' /\ ThreadsKnown'
      BY <1>2, <2>3, <3>1, <3>2, <3>3 DEF TypeThreads, ThreadsKnown, Points, Stopping
    <3> QED BY <1>1, <2>2, <3>4
  <2>4. ASSUME NEW p \in {"stop_seen", "top"}, Goto(t, p), cur' = cur PROVE TypeInv'
    <3>1. PICK m \in Modes \cup {"none"} : mode' = [mode EXCEPT ![t] = m]
      BY <2>4, GotoMoves DEF Points
    <3>2. pc' = [pc EXCEPT ![t] = p]
      BY <2>4 DEF Goto
    <3>3. TypeThreads' /\ ThreadsKnown'
      BY <1>2, <2>4, <3>1, <3>2 DEF TypeThreads, ThreadsKnown, Points, Stopping
    <3> QED BY <1>1, <2>2, <3>3
  <2> QED BY <1>3, <2>3, <2>4 DEF Get
<1>4. CASE Claim(t)
  <2>1. pc[t] = "got" /\ cur[t] \in OpPacket /\ cur[t].op \in Ops
    BY <1>4, PacketFacts DEF Claim, ThreadsKnown
  <2>2. UNCHANGED queues /\ UNCHANGED timing /\ UNCHANGED <<issued, call, device>>
    BY <1>4 DEF Claim
  <2>3. cur' = [cur EXCEPT ![t] = NoPacket] /\ \E p \in {"handler", "top"} : Goto(t, p)
    BY <1>4, Zenon DEF Claim
  <2>4. TypeQueues' /\ TypeTiming'
    BY <2>2 DEF queues, timing, TypeQueues, TypeTiming
  <2>5. Saved(t) \in [Ops -> {"none", "ok", "io", "failed"}]
    <3>1. cur[t].res \in {"ok", "io", InOverlapped}
      BY <2>1, PacketFacts
    <3> QED BY <2>1, <3>1 DEF Saved, TypeOps
  <2>6. PICK o : o = cur[t].op
    OBVIOUS
  <2>7. PICK v : v = Saved(t)
    OBVIOUS
  <2>8. \/ /\ seen' = [seen EXCEPT ![o] = v[o]] /\ ready_' = [ready_ EXCEPT ![o] = FALSE]
           /\ overlapped' = [overlapped EXCEPT ![o] = "none"]
        \/ seen' = seen /\ ready_' = [ready_ EXCEPT ![o] = TRUE] /\ overlapped' = v
    BY <1>4, <2>6, <2>7, Zenon DEF Claim
  <2>9. TypeOps'
    <3>1. v[o] \in {"none", "ok", "io", "failed"} /\ o \in Ops
      BY <2>1, <2>5, <2>6, <2>7
    <3>2. /\ seen' \in [Ops -> {"none", "ok", "io", "failed", "destroyed"}]
          /\ overlapped' \in [Ops -> {"none", "ok", "io", "failed"}]
      BY <2>5, <2>7, <2>8, <3>1 DEF TypeOps
    <3>3. ready_' \in [Ops -> BOOLEAN]
      BY <2>8 DEF TypeOps
    <3> QED BY <2>2, <3>2, <3>3 DEF TypeOps
  <2>10. ASSUME NEW p \in {"handler", "top"}, Goto(t, p) PROVE TypeThreads' /\ ThreadsKnown'
    <3>1. PICK m \in Modes \cup {"none"} : mode' = [mode EXCEPT ![t] = m]
      BY <2>10, GotoMoves DEF Points
    <3>2. pc' = [pc EXCEPT ![t] = p]
      BY <2>10 DEF Goto
    <3> QED BY <1>2, <2>3, <2>10, <3>1, <3>2 DEF TypeThreads, ThreadsKnown, Points, Stopping
  <2> QED BY <1>1, <2>3, <2>4, <2>9, <2>10
<1>5. CASE Dispatch(t)
  <2>1. PICK q : DispatchedList(q)
    BY <1>5, DispatchPosts
  <2>2. PostedOf(Posted(q), <<>>)
    <3>1. <<>> \in Seq(Ops) /\ Posted(q) \in Seq(OpPacket) /\ Post(Posted(q), <<>>)
      BY <2>1, PostedFacts DEF DispatchedList
    <3> QED BY <3>1, PostFacts
  <2>3. /\ timers' = timers \ due /\ due' = {} /\ UNCHANGED <<timer_thread_, cur>>
        /\ UNCHANGED <<issued, overlapped, call, device, seen>> /\ Goto(t, "get")
        /\ waitable_timer_' \in {waitable_timer_, "set"}
    BY <1>5 DEF Dispatch
  <2>4. TypeQueues' /\ TypeOps'
    BY <2>2, <2>3 DEF PostedOf, TypeQueues, TypeOps
  <2>5. TypeTiming'
    BY <2>3 DEF TypeTiming
  <2>6. TypeThreads' /\ ThreadsKnown'
    <3>1. PICK m \in Modes \cup {"none"} : mode' = [mode EXCEPT ![t] = m]
      BY <2>3, GotoMoves DEF Points
    <3>2. pc' = [pc EXCEPT ![t] = "get"]
      BY <2>3 DEF Goto
    <3> QED BY <1>2, <2>3, <3>1, <3>2 DEF TypeThreads, ThreadsKnown, Points, Stopping
  <2> QED BY <1>1, <2>4, <2>5, <2>6
<1> QED BY <1>3, <1>4, <1>5

\* The program and the system: the threads stay where they are.
LEMMA StillThreads ==
  ASSUME TypeThreads, ThreadsKnown, UNCHANGED threads, shutdown_' = shutdown_
  PROVE  TypeThreads' /\ ThreadsKnown'
BY DEF TypeThreads, ThreadsKnown, threads

LEMMA OnePosted ==
  ASSUME TypeQueues, TypeOps, NEW p \in OpPacket, Post(<<p>>, completed_ops_)
  PROVE  PostedOf(<<p>>, completed_ops_) /\ \A o \in Ops : PostedOne(<<p>>, completed_ops_, o)
<1>1. <<p>> \in Seq(OpPacket)
  OBVIOUS
<1> QED BY <1>1, PostFacts DEF TypeQueues

LEMMA ProgramTypes ==
  ASSUME TypeInv, NEW t \in Threads, NEW o \in Ops,
         PostImmediate(t, o) \/ StartIo(t, o) \/ ScheduleTimer(t, o) \/ CancelTimer(t, o)
  PROVE  TypeInv'
<1> USE DEF TypeInv
<1>1. UNCHANGED threads /\ UNCHANGED <<stopped_, stop_event_posted_, shutdown_>>
  BY DEF PostImmediate, StartIo, ScheduleTimer, CancelTimer, control
<1>2. TypeThreads' /\ ThreadsKnown'
  BY <1>1, StillThreads
<1>3. TypeControl'
  <2>1. outstanding_work_' \in {outstanding_work_, outstanding_work_ + 1}
    BY DEF PostImmediate, StartIo, ScheduleTimer, CancelTimer, control, WorkStarted
  <2>2. stopped_' \in BOOLEAN /\ stop_event_posted_' \in BOOLEAN /\ shutdown_' \in BOOLEAN
    BY <1>1, Zenon DEF TypeControl
  <2> QED BY <2>1, <2>2 DEF TypeControl
<1>4. issued' \in 0 .. MaxOps
  BY DEF PostImmediate, StartIo, ScheduleTimer, CancelTimer, Issue, Ops, TypeOps
<1>5. CASE PostImmediate(t, o) \/ CancelTimer(t, o)
  <2>1. PostedOf(<<Packet(o, "ok")>>, completed_ops_)
    BY <1>5, OnePosted, PacketFacts DEF PostImmediate, CancelTimer
  <2>2. UNCHANGED <<overlapped, call, device, seen, waitable_timer_, timer_thread_>>
        /\ timers' \subseteq timers /\ due' \subseteq timers'
    BY <1>5 DEF PostImmediate, CancelTimer, timing, TypeTiming
  <2>3. TypeQueues' /\ TypeOps'
    BY <1>4, <2>1, <2>2 DEF PostedOf, TypeQueues, TypeOps
  <2>4. TypeTiming'
    BY <2>2 DEF TypeTiming
  <2> QED BY <1>2, <1>3, <2>3, <2>4
<1>6. CASE StartIo(t, o)
  <2>1. TypeQueues' /\ TypeTiming'
    BY <1>6 DEF StartIo, queues, timing, TypeQueues, TypeTiming
  <2>2. TypeOps'
    BY <1>4, <1>6 DEF StartIo, TypeOps
  <2> QED BY <1>2, <1>3, <2>1, <2>2
<1>7. CASE ScheduleTimer(t, o)
  <2>1. TypeQueues' /\ TypeOps'
    BY <1>4, <1>7 DEF ScheduleTimer, queues, TypeQueues, TypeOps
  <2>2. TypeTiming'
    BY <1>7 DEF ScheduleTimer, TypeTiming
  <2> QED BY <1>2, <1>3, <2>1, <2>2
<1> QED BY <1>5, <1>6, <1>7

LEMMA SystemTypes ==
  ASSUME TypeInv, NEW o \in Ops, DeviceCompletes(o) \/ OnPending(o) \/ OnCompletion(o) \/ TimerDue(o)
  PROVE  TypeInv'
<1> USE DEF TypeInv
<1>1. UNCHANGED threads /\ UNCHANGED control /\ UNCHANGED issued
  BY DEF DeviceCompletes, OnPending, OnCompletion, TimerDue, ops
<1>2. TypeThreads' /\ ThreadsKnown' /\ TypeControl'
  BY <1>1, StillThreads DEF control, TypeControl
<1>3. TypeTiming'
  BY DEF DeviceCompletes, OnPending, OnCompletion, TimerDue, timing, TypeTiming
<1>4. CASE DeviceCompletes(o)
  <2>1. Append(port, Packet(o, "io")) \in Seq(AnyPacket)
    BY PacketFacts, OneMorePacket DEF TypeQueues
  <2>2. TypeQueues'
    BY <1>4, <2>1 DEF DeviceCompletes, TypeQueues
  <2>3. TypeOps'
    BY <1>4 DEF DeviceCompletes, TypeOps
  <2> QED BY <1>2, <1>3, <2>2, <2>3
<1>5. CASE OnPending(o)
  <2>1. /\ call' = [call EXCEPT ![o] = "returned"] /\ UNCHANGED <<overlapped, device, seen>>
        /\ \/ Post(<<Packet(o, InOverlapped)>>, completed_ops_)
           \/ ready_' = [ready_ EXCEPT ![o] = TRUE] /\ UNCHANGED queues
    BY <1>5 DEF OnPending
  <2>2. CASE Post(<<Packet(o, InOverlapped)>>, completed_ops_)
    <3>1. PostedOf(<<Packet(o, InOverlapped)>>, completed_ops_)
      BY <2>2, OnePosted, PacketFacts
    <3> QED BY <1>1, <1>2, <1>3, <2>1, <3>1 DEF PostedOf, TypeQueues, TypeOps
  <2>3. CASE ready_' = [ready_ EXCEPT ![o] = TRUE] /\ UNCHANGED queues
    BY <1>1, <1>2, <1>3, <2>1, <2>3 DEF queues, TypeQueues, TypeOps
  <2> QED BY <2>1, <2>2, <2>3
<1>6. CASE OnCompletion(o)
  <2>1. /\ call' = [call EXCEPT ![o] = "returned"] /\ UNCHANGED <<seen>>
        /\ device' = [device EXCEPT ![o] = "refused"] /\ overlapped' = [overlapped EXCEPT ![o] = "failed"]
        /\ Post(<<Packet(o, InOverlapped)>>, completed_ops_)
    BY <1>6 DEF OnCompletion
  <2>2. PostedOf(<<Packet(o, InOverlapped)>>, completed_ops_)
    BY <2>1, OnePosted, PacketFacts
  <2> QED BY <1>1, <1>2, <1>3, <2>1, <2>2 DEF PostedOf, TypeQueues, TypeOps
<1>7. CASE TimerDue(o)
  BY <1>2, <1>3, <1>7 DEF TimerDue, queues, ops, TypeQueues, TypeOps
<1> QED BY <1>4, <1>5, <1>6, <1>7

\* Operations that shutdown() destroys.
Destroyable(os) ==
    /\ os \subseteq Ops /\ outstanding_work_' = outstanding_work_ - Cardinality(os)
    /\ seen' = [o \in Ops |-> IF o \in os THEN "destroyed" ELSE seen[o]]

LEMMA LoopDestroys ==
  ASSUME TypeQueues, TypeTiming, ShutdownLoop
  PROVE  \/ /\ Destroyable(Held)
            /\ timers' = {} /\ due' = {} /\ completed_ops_' = <<>> /\ port' = port
         \/ /\ Held = {} /\ port # <<>> /\ port' = Tail(port)
            /\ Destroyable({Head(port).op} \ {NoOp})
            /\ UNCHANGED <<timers, due, completed_ops_>>
<1>1. CASE Held # {}
  <2>1. Held \subseteq Ops
    BY DEF Held, TypeTiming
  <2> QED BY <1>1, <2>1 DEF ShutdownLoop, Destroy, Destroyable
<1>2. CASE Held = {}
  <2>1. /\ port # <<>> /\ port' = Tail(port) /\ Destroy({Head(port).op} \ {NoOp})
        /\ UNCHANGED <<timers, due, completed_ops_>>
    BY <1>2, Zenon DEF ShutdownLoop
  <2>2. {Head(port).op} \ {NoOp} \subseteq Ops
    <3>1. Head(port) \in AnyPacket
      BY <2>1, OnePacketLess DEF TypeQueues
    <3> QED BY <3>1, AnyFacts, PacketFacts
  <2> QED BY <1>2, <2>1, <2>2 DEF Destroy, Destroyable
<1> QED BY <1>1, <1>2

LEMMA FiniteOps == ASSUME NEW os, os \subseteq Ops PROVE IsFiniteSet(os) /\ Cardinality(os) \in Nat
<1>1. IsFiniteSet(Ops)
  BY FS_Interval DEF Ops
<1> QED BY <1>1, FS_Subset, FS_CardinalityType

LEMMA OtherTypes ==
  ASSUME TypeInv, TimerThread \/ Restart \/ Shutdown \/ ShutdownLoop \/ UNCHANGED vars
  PROVE  TypeInv'
<1> USE DEF TypeInv
<1>1. UNCHANGED threads
  BY DEF TimerThread, TimerThreadRequires, TimerThreadPosts, Restart, Shutdown, ShutdownLoop, vars
<1>2. CASE TimerThread
  <2>1. UNCHANGED control /\ UNCHANGED ops /\ UNCHANGED <<completed_ops_, timers, due>>
        /\ waitable_timer_' \in {"off", waitable_timer_} /\ timer_thread_' \in {"waits", "posts"}
    BY <1>2 DEF TimerThread, TimerThreadRequires, TimerThreadPosts
  <2>2. TypeControl' /\ TypeOps' /\ TypeTiming'
    BY <2>1 DEF control, ops, TypeControl, TypeOps, TypeTiming
  <2>3. TypeThreads' /\ ThreadsKnown'
    BY <1>1, <2>1, StillThreads DEF control
  <2>4. Append(port, WakePacket) \in Seq(AnyPacket)
    BY PacketFacts, OneMorePacket DEF TypeQueues
  <2>5. TypeQueues'
    <3>1. CASE TimerThreadRequires
      BY <3>1 DEF TimerThreadRequires, TypeQueues
    <3>2. CASE TimerThreadPosts
      BY <2>4, <3>2 DEF TimerThreadPosts, Fail, TypeQueues
    <3> QED BY <1>2, <3>1, <3>2 DEF TimerThread
  <2> QED BY <2>2, <2>3, <2>5
<1>3. CASE Restart \/ UNCHANGED vars
  <2>1. UNCHANGED queues /\ UNCHANGED ops /\ UNCHANGED timing
        /\ UNCHANGED <<outstanding_work_, stop_event_posted_, shutdown_>> /\ stopped_' \in {stopped_, FALSE}
    BY <1>3 DEF Restart, vars, control
  <2>2. TypeControl'
    <3>1. stopped_' = stopped_ \/ stopped_' = FALSE
      BY <2>1
    <3>2. stopped_' \in BOOLEAN
      BY <3>1, Zenon DEF TypeControl
    <3> QED BY <2>1, <3>2 DEF TypeControl
  <2>3. TypeThreads' /\ ThreadsKnown'
    BY <1>1, <2>1, StillThreads
  <2>4. TypeQueues' /\ TypeOps' /\ TypeTiming'
    BY <2>1 DEF queues, ops, timing, TypeQueues, TypeOps, TypeTiming
  <2> QED BY <2>2, <2>3, <2>4
<1>4. CASE Shutdown
  <2>1. /\ UNCHANGED queues /\ UNCHANGED ops /\ UNCHANGED timing /\ UNCHANGED threads
        /\ UNCHANGED <<outstanding_work_, stopped_, stop_event_posted_>> /\ shutdown_' = TRUE
        /\ \A t \in Threads : pc[t] = "idle"
    BY <1>4 DEF Shutdown
  <2>2. TypeControl' /\ TypeQueues' /\ TypeOps' /\ TypeTiming'
    BY <2>1 DEF queues, ops, timing, TypeControl, TypeQueues, TypeOps, TypeTiming
  <2>3. TypeThreads' /\ ThreadsKnown'
    BY <2>1 DEF TypeThreads, ThreadsKnown, threads
  <2> QED BY <2>2, <2>3
<1>5. CASE ShutdownLoop
  <2>1. /\ UNCHANGED <<stopped_, stop_event_posted_, shutdown_, dispatch_required_, fails, issued, ready_,
                       overlapped, call, device, waitable_timer_, timer_thread_>>
    BY <1>5 DEF ShutdownLoop
  <2>2. PICK os : Destroyable(os)
    BY <1>5, LoopDestroys
  <2>3. TypeControl'
    <3>1. Cardinality(os) \in Nat
      BY <2>2, FiniteOps DEF Destroyable
    <3>2. outstanding_work_' \in Int
      BY <2>2, <3>1 DEF Destroyable, TypeControl
    <3> QED BY <2>1, <3>2 DEF TypeControl
  <2>4. TypeOps'
    BY <2>1, <2>2 DEF Destroyable, TypeOps
  <2>5. TypeQueues'
    <3>1. port # <<>> => Tail(port) \in Seq(AnyPacket)
      BY OnePacketLess DEF TypeQueues
    <3>2. <<>> \in Seq(Ops)
      OBVIOUS
    <3> QED BY <1>5, <2>1, <3>1, <3>2, LoopDestroys DEF TypeQueues
  <2>6. TypeTiming'
    BY <1>5, <2>1, LoopDestroys DEF TypeTiming
  <2>7. TypeThreads' /\ ThreadsKnown'
    BY <1>1, <2>1, StillThreads
  <2> QED BY <2>3, <2>4, <2>5, <2>6, <2>7
<1> QED BY <1>2, <1>3, <1>4, <1>5

LEMMA TypeStep == ASSUME TypeInv, [Next]_vars PROVE TypeInv'
BY ThreadTypes, HandTypes, ProgramTypes, SystemTypes, OtherTypes
   DEF Next, Step, Program, System, Walks

LEMMA TypeInit == ASSUME Init PROVE TypeInv
<1>1. TypeQueues
  <2>1. port = <<>> /\ completed_ops_ = <<>> /\ fails = 0 /\ dispatch_required_ = FALSE
    BY DEF Init
  <2>2. port \in Seq(AnyPacket) /\ completed_ops_ \in Seq(Ops) /\ fails \in 0 .. MaxFails
    BY <2>1
  <2>3. dispatch_required_ \in BOOLEAN
    BY <2>1, Zenon
  <2> QED BY <2>2, <2>3, Zenon DEF TypeQueues
<1>2. TypeControl
  <2>1. outstanding_work_ \in Int
    BY DEF Init
  <2>2. stopped_ \in BOOLEAN /\ stop_event_posted_ \in BOOLEAN /\ shutdown_ \in BOOLEAN
    BY Zenon DEF Init
  <2> QED BY <2>1, <2>2, Zenon DEF TypeControl
<1>3. TypeOps
  <2>1. issued = 0 /\ ready_ \in [Ops -> BOOLEAN]
    BY DEF Init
  <2>2. issued \in 0 .. MaxOps
    BY <2>1
  <2> QED BY <2>1, <2>2 DEF Init, TypeOps
<1>4. TypeTiming
  BY DEF Init, TypeTiming
<1>5. TypeThreads /\ ThreadsKnown
  BY DEF Init, TypeThreads, ThreadsKnown, Points, Stopping
<1> QED BY <1>1, <1>2, <1>3, <1>4, <1>5 DEF TypeInv

-----------------------------------------------------------------------------
(* One place for every operation.                                          *)

InPort(o) == Has(OpsOf(port), o)
PutAside(o) == Has(completed_ops_, o)
Busy(o) == device[o] = "busy"
Waiting(o) == call[o] \in Threads /\ ready_[o]
Taken(t, o) == pc[t] = "got" /\ cur[t].op = o
InHand(o) == \E t \in Threads : Taken(t, o)
Live(o) == o <= issued /\ seen[o] = "none"

OneHome(o) ==
    /\ AtMostOnce(OpsOf(port), o) /\ AtMostOnce(completed_ops_, o)
    /\ \A t, u \in Threads : Taken(t, o) /\ Taken(u, o) => t = u
    /\ Live(o) <=> InPort(o) \/ PutAside(o) \/ o \in timers \/ Busy(o) \/ Waiting(o) \/ InHand(o)
    /\ InPort(o) => ~PutAside(o) /\ o \notin timers /\ ~Busy(o) /\ ~Waiting(o) /\ ~InHand(o)
    /\ PutAside(o) => o \notin timers /\ ~Busy(o) /\ ~Waiting(o) /\ ~InHand(o)
    /\ o \in timers => ~Busy(o) /\ ~Waiting(o) /\ ~InHand(o)
    /\ Busy(o) => ~Waiting(o) /\ ~InHand(o)
    /\ Waiting(o) => ~InHand(o)

\* The thread in the call that starts an operation, and ready_, which the two threads
\* that have to do with it read.
CallKnown(o) ==
    /\ call[o] \in Threads => /\ ~shutdown_ /\ device[o] \in {"busy", "completed"} /\ Live(o)
                              /\ o \notin timers /\ ~PutAside(o)
    /\ call[o] = "none" <=> device[o] = "none"
    /\ o \in timers => call[o] = "none"
    /\ ~(o <= issued) => call[o] = "none" /\ ready_[o] = FALSE /\ seen[o] = "none"
    /\ InPort(o) \/ InHand(o) \/ Busy(o) => ready_[o] \/ call[o] \in Threads

HomeInv == \A o \in Ops : OneHome(o) /\ CallKnown(o)

\* A step that leaves the operation alone.
SamePort(o) == (InPort(o)' <=> InPort(o)) /\ (AtMostOnce(OpsOf(port), o) => AtMostOnce(OpsOf(port'), o))
SameAside(o) ==
    (PutAside(o)' <=> PutAside(o)) /\ (AtMostOnce(completed_ops_, o) => AtMostOnce(completed_ops_', o))
SameHands(o) == \A t \in Threads : Taken(t, o)' <=> Taken(t, o)
SameOp(o) ==
    /\ call'[o] = call[o] /\ device'[o] = device[o] /\ ready_'[o] = ready_[o] /\ seen'[o] = seen[o]
    /\ (o <= issued)' <=> o <= issued

LEMMA NothingNew ==
  ASSUME NEW o, OneHome(o), CallKnown(o), SamePort(o), SameAside(o), SameHands(o), SameOp(o),
         o \in timers' <=> o \in timers, call[o] \in Threads => ~shutdown_'
  PROVE  OneHome(o)' /\ CallKnown(o)'
<1>1. /\ InPort(o)' <=> InPort(o)
      /\ PutAside(o)' <=> PutAside(o)
      /\ Busy(o)' <=> Busy(o)
      /\ Waiting(o)' <=> Waiting(o)
      /\ InHand(o)' <=> InHand(o)
      /\ Live(o)' <=> Live(o)
  BY DEF SamePort, SameAside, SameHands, SameOp, Busy, Waiting, InHand, Live
<1>2. OneHome(o)'
  <2>1. AtMostOnce(OpsOf(port), o)' /\ AtMostOnce(completed_ops_, o)'
    BY DEF OneHome, SamePort, SameAside
  <2>2. (\A t, u \in Threads : Taken(t, o) /\ Taken(u, o) => t = u)'
    BY DEF OneHome, SameHands
  <2> QED BY <1>1, <2>1, <2>2 DEF OneHome
<1>3. CallKnown(o)'
  BY <1>1 DEF CallKnown, SameOp
<1> QED BY <1>2, <1>3

\* Nothing of the operations changes; the port may get a packet without one.
LEMMA SamePlaces ==
  ASSUME TypeQueues, NEW o \in Ops, UNCHANGED <<completed_ops_, issued, ready_, call, device, seen>>,
         port' = port \/ port' = Append(port, StopPacket) \/ port' = Append(port, WakePacket)
  PROVE  SamePort(o) /\ SameAside(o) /\ SameOp(o)
<1>1. \A p \in {StopPacket, WakePacket} : p \in AnyPacket /\ o # p.op
  BY PacketFacts
<1>2. SamePort(o)
  <2>1. ASSUME NEW p \in {StopPacket, WakePacket}, port' = Append(port, p) PROVE SamePort(o)
    BY <1>1, <2>1, OneMorePacket DEF TypeQueues, SamePort, InPort
  <2> QED BY <2>1 DEF SamePort, InPort
<1> QED BY <1>2 DEF SameAside, SameOp, PutAside

LEMMA ThreadHome ==
  ASSUME TypeInv, HomeInv, NEW t \in Threads,
         Walks(t)
  PROVE  HomeInv'
<1>1. UNCHANGED ops /\ UNCHANGED timing /\ cur' = cur /\ UNCHANGED <<shutdown_, completed_ops_>>
  BY DEF Walks, StopFlag, StopEvent, StopPost, Top, GetNothing, StopSeen, StopCheck, HandlerEnds, Stop, Enter,
     control, queues
<1>2. port' = port \/ port' = Append(port, StopPacket)
  BY DEF Walks, StopFlag, StopEvent, StopPost, Top, GetNothing, StopSeen, StopCheck, HandlerEnds, Stop, Enter,
     queues
<1>3. pc[t] # "got" /\ pc'[t] # "got" /\ \A u \in Threads \ {t} : pc'[u] = pc[u]
  <2>1. pc[t] # "got"
    BY DEF Walks, StopFlag, StopEvent, StopPost, Top, GetNothing, StopSeen, StopCheck, HandlerEnds, Stop,
       Enter, MayCall
  <2> QED BY <2>1, WalkMoves DEF Moved, TypeInv, TypeThreads
<1> SUFFICES ASSUME NEW o \in Ops PROVE OneHome(o)' /\ CallKnown(o)'
  BY DEF HomeInv
<1>4. SamePort(o) /\ SameAside(o) /\ SameOp(o)
  BY <1>1, <1>2, SamePlaces DEF ops, TypeInv
<1>5. SameHands(o)
  BY <1>1, <1>3 DEF SameHands, Taken
<1>6. call[o] \in Threads => ~shutdown_'
  BY <1>1 DEF HomeInv, CallKnown
<1>7. o \in timers' <=> o \in timers
  BY <1>1 DEF timing
<1> QED BY <1>4, <1>5, <1>6, <1>7, NothingNew DEF HomeInv
\* An operation has been posted: it is in the port, or put aside.
Landed(o) ==
    /\ AtMostOnce(OpsOf(port'), o) /\ AtMostOnce(completed_ops_', o)
    /\ InPort(o)' \/ PutAside(o)'
    /\ ~(InPort(o)' /\ PutAside(o)')
    /\ InPort(o)' => ready_'[o]

LEMMA HomeLanded ==
  ASSUME NEW o, Landed(o), Live(o)', o \notin timers', device'[o] # "busy", call'[o] \notin Threads,
         call'[o] = "none" <=> device'[o] = "none", \A t \in Threads : ~Taken(t, o)'
  PROVE  OneHome(o)' /\ CallKnown(o)'
<1>1. ~Busy(o)' /\ ~Waiting(o)' /\ ~InHand(o)'
  BY DEF Busy, Waiting, InHand
<1>2. OneHome(o)'
  BY <1>1 DEF Landed, OneHome
<1>3. CallKnown(o)'
  BY <1>1 DEF Landed, CallKnown, Live
<1> QED BY <1>2, <1>3

LEMMA PostsOne ==
  ASSUME TypeQueues, TypeOps, NEW p \in OpPacket, Post(<<p>>, completed_ops_)
  PROVE  /\ \A o \in Ops \ {p.op} : SamePort(o) /\ SameAside(o) /\ ready_'[o] = ready_[o]
         /\ ~InPort(p.op) /\ ~PutAside(p.op) => Landed(p.op)
<1>1. PICK L : L = OpsOf(<<p>>)
  OBVIOUS
<1>2. L = <<p.op>>
  BY <1>1 DEF OpsOf
<1>3. p.op \in Ops /\ \A o : (Has(L, o) <=> o = p.op) /\ AtMostOnce(L, o)
  BY <1>2, OneHas, PacketFacts
<1>4. ASSUME NEW o \in Ops
      PROVE  /\ o # p.op => SamePort(o) /\ SameAside(o) /\ ready_'[o] = ready_[o]
             /\ o = p.op /\ ~InPort(o) /\ ~PutAside(o) => Landed(o)
  BY <1>1, <1>3, OnePosted DEF PostedOne, SamePort, SameAside, Landed, InPort, PutAside
<1> QED BY <1>3, <1>4

\* What is not taken by any thread stays so when the threads do not move.
LEMMA StillHands == ASSUME UNCHANGED threads, NEW o PROVE SameHands(o) /\ (InHand(o)' <=> InHand(o))
BY DEF threads, SameHands, Taken, InHand

LEMMA ProgramHome ==
  ASSUME TypeInv, HomeInv, NEW t \in Threads, NEW o \in Ops,
         PostImmediate(t, o) \/ StartIo(t, o) \/ ScheduleTimer(t, o) \/ CancelTimer(t, o)
  PROVE  HomeInv'
<1> USE DEF TypeInv
<1>1. UNCHANGED threads /\ ~shutdown_ /\ shutdown_' = shutdown_ /\ seen' = seen
  BY DEF PostImmediate, StartIo, ScheduleTimer, CancelTimer, control, Issue, MayCall
<1>2. OneHome(o) /\ CallKnown(o) /\ o \in Nat /\ issued \in Nat
  BY DEF HomeInv, TypeOps, Ops
<1>3. PostImmediate(t, o) \/ StartIo(t, o) \/ ScheduleTimer(t, o)
        => /\ issued' = o /\ o = issued + 1 /\ ~Live(o) /\ Live(o)'
           /\ ~InPort(o) /\ ~PutAside(o) /\ o \notin timers /\ ~Busy(o) /\ ~Waiting(o) /\ ~InHand(o)
           /\ call[o] = "none" /\ device[o] = "none" /\ ready_[o] = FALSE
  <2>1. ASSUME issued' = o, o = issued + 1
        PROVE  /\ ~Live(o) /\ Live(o)' /\ ~(o <= issued)
    BY <1>1, <1>2, <2>1 DEF Live, CallKnown
  <2>2. PostImmediate(t, o) \/ StartIo(t, o) \/ ScheduleTimer(t, o) => issued' = o /\ o = issued + 1
    BY DEF PostImmediate, StartIo, ScheduleTimer, Issue
  <2> QED BY <1>2, <2>1, <2>2 DEF OneHome, CallKnown
<1>4. ASSUME NEW x \in Ops \ {o} PROVE OneHome(x)' /\ CallKnown(x)'
  <2>1. (x <= issued)' <=> x <= issued
    <3>1. x \in Nat /\ x # o /\ (issued' = issued \/ (issued' = o /\ o = issued + 1))
      BY <1>3 DEF Ops, CancelTimer
    <3> QED BY <1>2, <3>1
  <2>2. SamePort(x) /\ SameAside(x) /\ ready_'[x] = ready_[x]
    <3>1. CASE PostImmediate(t, o) \/ CancelTimer(t, o)
      BY <3>1, PostsOne, PacketFacts DEF PostImmediate, CancelTimer
    <3>2. CASE StartIo(t, o) \/ ScheduleTimer(t, o)
      BY <3>2 DEF StartIo, ScheduleTimer, queues, SamePort, SameAside, InPort, PutAside
    <3> QED BY <3>1, <3>2
  <2>3. call'[x] = call[x] /\ device'[x] = device[x] /\ (x \in timers' <=> x \in timers)
    BY DEF PostImmediate, StartIo, ScheduleTimer, CancelTimer, timing, TypeOps
  <2> QED BY <1>1, <2>1, <2>2, <2>3, StillHands, NothingNew DEF HomeInv, SameOp
<1>5. OneHome(o)' /\ CallKnown(o)'
  <2>1. CASE PostImmediate(t, o)
    <3>1. Landed(o)
      BY <1>3, <2>1, PostsOne, PacketFacts DEF PostImmediate
    <3>2. timers' = timers /\ call' = call /\ device' = device
      BY <2>1 DEF PostImmediate, timing
    <3>3. call[o] \notin Threads
      BY <1>3, <2>1
    <3> QED BY <1>1, <1>3, <2>1, <3>1, <3>2, <3>3, StillHands, HomeLanded DEF InHand
  <2>2. CASE StartIo(t, o)
    <3>1. /\ call'[o] = t /\ device'[o] = "busy" /\ ready_'[o] = FALSE /\ timers' = timers
          /\ port' = port /\ completed_ops_' = completed_ops_
      BY <1>3, <2>2 DEF StartIo, queues, timing, TypeOps
    <3>2. ~InPort(o)' /\ ~PutAside(o)' /\ o \notin timers' /\ Busy(o)' /\ ~Waiting(o)' /\ ~InHand(o)'
      BY <1>1, <1>3, <2>2, <3>1, StillHands DEF InPort, PutAside, Busy, Waiting
    <3>3. OneHome(o)'
      BY <1>1, <1>2, <1>3, <2>2, <3>1, <3>2, StillHands DEF OneHome, SameHands
    <3>4. CallKnown(o)'
      <4>1. t # "none"
        OBVIOUS
      <4>2. Live(o)' /\ (o <= issued)'
        BY <1>3, <2>2 DEF Live
      <4> QED BY <1>1, <3>1, <3>2, <4>1, <4>2 DEF CallKnown
    <3> QED BY <3>3, <3>4
  <2>3. CASE ScheduleTimer(t, o)
    <3>1. /\ call' = call /\ device' = device /\ ready_' = ready_ /\ o \in timers'
          /\ port' = port /\ completed_ops_' = completed_ops_
      BY <2>3 DEF ScheduleTimer, queues
    <3>2. ~InPort(o)' /\ ~PutAside(o)' /\ ~Busy(o)' /\ ~Waiting(o)' /\ ~InHand(o)'
      BY <1>1, <1>3, <2>3, <3>1, StillHands DEF InPort, PutAside, Busy, Waiting
    <3>3. OneHome(o)'
      BY <1>1, <1>2, <1>3, <2>3, <3>1, <3>2, StillHands DEF OneHome, SameHands
    <3>4. CallKnown(o)'
      <4>1. call[o] \notin Threads
        BY <1>3, <2>3
      <4>2. (o <= issued)'
        BY <1>3, <2>3 DEF Live
      <4> QED BY <1>3, <2>3, <3>1, <3>2, <4>1, <4>2 DEF CallKnown
    <3> QED BY <3>3, <3>4
  <2>4. CASE CancelTimer(t, o)
    <3>1. o \in timers /\ timers' = timers \ {o} /\ call' = call /\ device' = device /\ issued' = issued
      BY <2>4 DEF CancelTimer
    <3>2. Landed(o)
      BY <1>2, <2>4, <3>1, PostsOne, PacketFacts DEF CancelTimer, OneHome
    <3>3. Live(o)' /\ ~Busy(o) /\ ~InHand(o) /\ call[o] = "none" /\ call[o] \notin Threads /\ device[o] = "none"
      BY <1>1, <1>2, <3>1 DEF OneHome, CallKnown, Live
    <3> QED BY <1>1, <3>1, <3>2, <3>3, StillHands, HomeLanded DEF InHand
  <2> QED BY <2>1, <2>2, <2>3, <2>4
<1> QED BY <1>4, <1>5 DEF HomeInv

\* The port gets one more packet.
LEMMA PortGets ==
  ASSUME TypeQueues, NEW p \in AnyPacket, port' = Append(port, p), NEW o
  PROVE  /\ InPort(o)' <=> InPort(o) \/ o = p.op
         /\ AtMostOnce(OpsOf(port), o) /\ (o = p.op => ~InPort(o)) => AtMostOnce(OpsOf(port'), o)
<1>1. port \in Seq(AnyPacket)
  BY DEF TypeQueues
<1>2. \A q \in Seq(AnyPacket) :
         /\ Has(OpsOf(Append(q, p)), o) <=> Has(OpsOf(q), o) \/ o = p.op
         /\ AtMostOnce(OpsOf(q), o) /\ (o = p.op => ~Has(OpsOf(q), o)) => AtMostOnce(OpsOf(Append(q, p)), o)
  BY OneMorePacket
<1> QED BY <1>1, <1>2 DEF InPort

LEMMA SystemHome ==
  ASSUME TypeInv, HomeInv, NEW o \in Ops,
         DeviceCompletes(o) \/ OnPending(o) \/ OnCompletion(o) \/ TimerDue(o)
  PROVE  HomeInv'
<1> USE DEF TypeInv
<1>1. /\ UNCHANGED threads /\ UNCHANGED control /\ UNCHANGED timers /\ UNCHANGED issued /\ UNCHANGED seen
      /\ shutdown_' = shutdown_
  BY DEF DeviceCompletes, OnPending, OnCompletion, TimerDue, timing, ops, control
<1>2. OneHome(o) /\ CallKnown(o)
  BY DEF HomeInv
<1>3. ASSUME NEW x \in Ops \ {o} PROVE OneHome(x)' /\ CallKnown(x)'
  <2>1. SamePort(x) /\ SameAside(x) /\ ready_'[x] = ready_[x]
    <3>1. CASE Post(<<Packet(o, InOverlapped)>>, completed_ops_)
      BY <3>1, PostsOne, PacketFacts
    <3>2. CASE DeviceCompletes(o)
      <4>1. Packet(o, "io") \in AnyPacket /\ Packet(o, "io").op # x
        BY PacketFacts
      <4>2. port' = Append(port, Packet(o, "io")) /\ completed_ops_' = completed_ops_ /\ ready_' = ready_
        BY <3>2 DEF DeviceCompletes
      <4> QED BY <4>1, <4>2, PortGets DEF SamePort, SameAside, PutAside
    <3>3. CASE UNCHANGED queues /\ ready_'[x] = ready_[x]
      BY <3>3 DEF queues, SamePort, SameAside, InPort, PutAside
    <3>4. OnPending(o) => \/ Post(<<Packet(o, InOverlapped)>>, completed_ops_)
                          \/ UNCHANGED queues /\ ready_'[x] = ready_[x]
      BY DEF OnPending, TypeOps
    <3> QED BY <3>1, <3>2, <3>3, <3>4 DEF OnCompletion, TimerDue, ops
  <2>2. call'[x] = call[x] /\ device'[x] = device[x]
    BY DEF DeviceCompletes, OnPending, OnCompletion, TimerDue, ops, TypeOps
  <2> QED BY <1>1, <2>1, <2>2, StillHands, NothingNew DEF HomeInv, SameOp, CallKnown
<1>4. CASE DeviceCompletes(o)
  <2>1. Packet(o, "io") \in AnyPacket /\ Packet(o, "io").op = o
    BY PacketFacts
  <2>2. /\ Busy(o) /\ port' = Append(port, Packet(o, "io")) /\ device'[o] = "completed"
        /\ call' = call /\ ready_' = ready_ /\ completed_ops_' = completed_ops_
    BY <1>4 DEF DeviceCompletes, Busy, TypeOps
  <2>3. ~InPort(o) /\ ~PutAside(o) /\ o \notin timers /\ ~Waiting(o) /\ ~InHand(o) /\ Live(o)
        /\ AtMostOnce(OpsOf(port), o) /\ AtMostOnce(completed_ops_, o)
    BY <1>2, <2>2 DEF OneHome
  <2>4. InPort(o)' /\ AtMostOnce(OpsOf(port'), o)
    BY <2>1, <2>2, <2>3, PortGets
  <2>5. ~PutAside(o)' /\ o \notin timers' /\ ~Busy(o)' /\ ~Waiting(o)' /\ ~InHand(o)' /\ Live(o)'
    BY <1>1, <2>2, <2>3, StillHands DEF PutAside, Busy, Waiting, Live
  <2>6. OneHome(o)'
    BY <1>1, <1>2, <2>2, <2>3, <2>4, <2>5, StillHands DEF OneHome, SameHands
  <2>7. CallKnown(o)'
    BY <1>1, <1>2, <2>2, <2>4, <2>5 DEF CallKnown, Busy
  <2> QED BY <1>3, <2>6, <2>7 DEF HomeInv
<1>5. ASSUME Post(<<Packet(o, InOverlapped)>>, completed_ops_), call'[o] = "returned", device'[o] # "busy",
             call[o] \in Threads, device'[o] # "none", Busy(o) \/ Waiting(o)
      PROVE  HomeInv'
  <2>1. ~InPort(o) /\ ~PutAside(o) /\ Live(o) /\ ~InHand(o) /\ o \notin timers
    BY <1>2, <1>5 DEF OneHome, CallKnown
  <2>2. Landed(o)
    BY <1>5, <2>1, PostsOne, PacketFacts
  <2>3. Live(o)' /\ o \notin timers' /\ (\A t \in Threads : ~Taken(t, o)')
    BY <1>1, <2>1, StillHands DEF Live, InHand
  <2>4. "returned" \notin Threads
    OBVIOUS
  <2> QED BY <1>3, <1>5, <2>2, <2>3, <2>4, HomeLanded DEF HomeInv
<1>6. CASE OnCompletion(o)
  BY <1>5, <1>6 DEF OnCompletion, Busy, TypeOps
<1>7. CASE OnPending(o) /\ ready_[o]
  <2>1. call[o] \in Threads /\ device[o] # "none" /\ device' = device /\ Waiting(o) /\ ~Busy(o)
    BY <1>2, <1>7 DEF OnPending, CallKnown, Waiting, OneHome
  <2> QED BY <1>5, <1>7, <2>1 DEF OnPending, TakenOut, Busy, TypeOps
<1>8. CASE OnPending(o) /\ ~ready_[o]
  <2>1. /\ call[o] \in Threads /\ call'[o] = "returned" /\ device' = device /\ ready_'[o] = TRUE
        /\ UNCHANGED queues
    BY <1>8 DEF OnPending, TakenOut, TypeOps
  <2>2. "returned" \notin Threads
    OBVIOUS
  <2>3. /\ InPort(o)' <=> InPort(o)
        /\ PutAside(o)' <=> PutAside(o)
        /\ Busy(o)' <=> Busy(o)
        /\ Live(o)' <=> Live(o)
        /\ InHand(o)' <=> InHand(o)
        /\ ~Waiting(o) /\ ~Waiting(o)' /\ (o \in timers' <=> o \in timers)
    BY <1>1, <1>8, <2>1, <2>2, StillHands DEF InPort, PutAside, Busy, Live, Waiting, queues
  <2>4. OneHome(o)'
    BY <1>1, <1>2, <2>1, <2>3, StillHands DEF OneHome, SameHands, queues
  <2>5. CallKnown(o)'
    BY <1>1, <1>2, <2>1, <2>2, <2>3 DEF CallKnown, Live
  <2> QED BY <1>3, <2>4, <2>5 DEF HomeInv
<1>9. CASE TimerDue(o)
  <2>1. /\ UNCHANGED queues /\ UNCHANGED ops
    BY <1>9 DEF TimerDue
  <2>2. SamePort(o) /\ SameAside(o) /\ SameOp(o)
    BY <2>1 DEF queues, ops, SamePort, SameAside, SameOp, InPort, PutAside
  <2> QED BY <1>1, <1>2, <1>3, <2>2, StillHands, NothingNew DEF HomeInv, CallKnown
<1> QED BY <1>4, <1>6, <1>7, <1>8, <1>9

LEMMA OtherHome ==
  ASSUME TypeInv, HomeInv, TimerThread \/ Restart \/ Shutdown \/ ShutdownLoop \/ UNCHANGED vars
  PROVE  HomeInv'
<1> USE DEF TypeInv
<1>1. UNCHANGED threads
  BY DEF TimerThread, TimerThreadRequires, TimerThreadPosts, Restart, Shutdown, ShutdownLoop, vars
<1>2. CASE TimerThread \/ Restart \/ Shutdown \/ UNCHANGED vars
  <2>1. /\ UNCHANGED ops /\ UNCHANGED <<completed_ops_, timers>>
        /\ port' = port \/ port' = Append(port, WakePacket)
    BY <1>2 DEF TimerThread, TimerThreadRequires, TimerThreadPosts, Restart, Shutdown, vars, queues, timing
  <2> SUFFICES ASSUME NEW o \in Ops PROVE OneHome(o)' /\ CallKnown(o)'
    BY DEF HomeInv
  <2>2. SamePort(o) /\ SameAside(o) /\ SameOp(o)
    BY <2>1, SamePlaces DEF ops
  <2>3. call[o] \in Threads => ~shutdown_'
    <3>1. CASE Shutdown
      BY <3>1 DEF Shutdown, Calling
    <3>2. CASE ~Shutdown
      BY <1>2, <3>2 DEF TimerThread, TimerThreadRequires, TimerThreadPosts, Restart, vars, control,
         HomeInv, CallKnown
    <3> QED BY <3>1, <3>2
  <2> QED BY <1>1, <2>1, <2>2, <2>3, StillHands, NothingNew DEF HomeInv
<1>3. CASE ShutdownLoop
  <2>1. /\ shutdown_ /\ shutdown_' = shutdown_ /\ UNCHANGED <<issued, ready_, call, device>>
        /\ \A t \in Threads : pc[t] = "idle"
    BY <1>3 DEF ShutdownLoop, ThreadsKnown
  <2> SUFFICES ASSUME NEW o \in Ops PROVE OneHome(o)' /\ CallKnown(o)'
    BY DEF HomeInv
  <2>2. OneHome(o) /\ CallKnown(o) /\ ~InHand(o) /\ ~InHand(o)' /\ SameHands(o) /\ call[o] \notin Threads
    BY <1>1, <2>1, StillHands DEF HomeInv, CallKnown, InHand, Taken
  <2>3. ASSUME seen'[o] = "destroyed", ~InPort(o)', ~PutAside(o)', o \notin timers', ~Busy(o), Live(o),
               AtMostOnce(OpsOf(port'), o), AtMostOnce(completed_ops_', o)
        PROVE  OneHome(o)' /\ CallKnown(o)'
    <3>1. ~Live(o)' /\ ~Waiting(o)' /\ ~Busy(o)' /\ ~InHand(o)'
      BY <2>1, <2>2, <2>3 DEF Live, Waiting, Busy
    <3>2. OneHome(o)'
      BY <2>2, <2>3, <3>1 DEF OneHome, SameHands
    <3>3. CallKnown(o)'
      BY <2>1, <2>2, <2>3, <3>1 DEF CallKnown, Live
    <3> QED BY <3>2, <3>3
  <2>4. ASSUME seen'[o] = seen[o], SamePort(o), SameAside(o), o \in timers' <=> o \in timers
        PROVE  OneHome(o)' /\ CallKnown(o)'
    BY <2>1, <2>2, <2>4, NothingNew DEF SameOp
  <2>5. CASE Destroyable(Held) /\ timers' = {} /\ completed_ops_' = <<>> /\ port' = port
    <3>1. o \in Held <=> o \in timers \/ PutAside(o)
      BY DEF Held, PutAside
    <3>2. seen'[o] = IF o \in Held THEN "destroyed" ELSE seen[o]
      BY <2>5 DEF Destroyable
    <3>3. ~PutAside(o)' /\ AtMostOnce(completed_ops_', o) /\ (InPort(o)' <=> InPort(o)) /\ o \notin timers'
      BY <2>5, NoneHas DEF PutAside, InPort
    <3>4. CASE o \in Held
      BY <2>2, <2>3, <2>5, <3>1, <3>2, <3>3, <3>4 DEF OneHome
    <3>5. CASE o \notin Held
      BY <2>4, <2>5, <3>1, <3>2, <3>3, <3>5 DEF SamePort, SameAside
    <3> QED BY <3>4, <3>5
  <2>6. CASE /\ port # <<>> /\ port' = Tail(port) /\ Destroyable({Head(port).op} \ {NoOp})
             /\ UNCHANGED <<timers, completed_ops_>>
    <3>1. o # NoOp
      BY PacketFacts
    <3>2. seen'[o] = IF o = Head(port).op THEN "destroyed" ELSE seen[o]
      BY <2>6, <3>1 DEF Destroyable
    <3>3. CASE o = Head(port).op
      <4>1. InPort(o) /\ ~InPort(o)' /\ AtMostOnce(OpsOf(port'), o)
        BY <2>2, <2>6, <3>3, OnePacketLess DEF InPort, OneHome, TypeQueues
      <4>2. ~PutAside(o) /\ o \notin timers /\ ~Busy(o) /\ Live(o) /\ AtMostOnce(completed_ops_, o)
        BY <2>2, <4>1 DEF OneHome
      <4> QED BY <2>3, <2>6, <3>2, <3>3, <4>1, <4>2 DEF PutAside
    <3>4. CASE o # Head(port).op
      <4>1. SamePort(o)
        BY <2>6, <3>4, OnePacketLess DEF SamePort, InPort, TypeQueues
      <4> QED BY <2>4, <2>6, <3>2, <3>4, <4>1 DEF SameAside, PutAside
    <3> QED BY <3>3, <3>4
  <2> QED BY <1>3, <2>5, <2>6, LoopDestroys
<1> QED BY <1>2, <1>3

\* The result that a packet brings, in it or in the operation.
Carried(p) == IF p.res = InOverlapped THEN overlapped[p.op] ELSE p.res
OnItsWay(p) == Has(port, p) \/ \E t \in Threads : pc[t] = "got" /\ cur[t] = p

\* It brings one, also when the initiating thread has to post the operation.
CarriedAt(o) ==
    /\ \A p \in OpPacket : p.op = o /\ OnItsWay(p) => Carried(p) # "none"
    /\ Waiting(o) => overlapped[o] # "none"
CarriedInv == \A o \in Ops : CarriedAt(o)

\* A packet comes out of the port.
LEMMA GetHome ==
  ASSUME TypeInv, HomeInv, NEW t \in Threads, Get(t)
  PROVE  HomeInv'
<1> USE DEF TypeInv
<1>1. /\ pc[t] = "get" /\ port # <<>> /\ port' = Tail(port) /\ UNCHANGED ops /\ UNCHANGED timers
      /\ completed_ops_' = completed_ops_ /\ shutdown_' = shutdown_
      /\ \/ Head(port) = StopPacket /\ Goto(t, "stop_seen") /\ UNCHANGED cur
         \/ Head(port) = WakePacket /\ Goto(t, "top") /\ UNCHANGED cur
         \/ Head(port).op \in Ops /\ Goto(t, "got") /\ cur' = [cur EXCEPT ![t] = Head(port)]
  BY DEF Get, control, timing
<1> SUFFICES ASSUME NEW o \in Ops PROVE OneHome(o)' /\ CallKnown(o)'
  BY DEF HomeInv
<1>2. OneHome(o) /\ CallKnown(o) /\ SameOp(o) /\ SameAside(o) /\ (o \in timers' <=> o \in timers)
      /\ ~Taken(t, o) /\ o # NoOp
  BY <1>1, PacketFacts DEF HomeInv, ops, SameOp, SameAside, PutAside, Taken
<1>3. /\ InPort(o)' => InPort(o)
      /\ InPort(o) => InPort(o)' \/ Head(port).op = o
      /\ AtMostOnce(OpsOf(port), o) => AtMostOnce(OpsOf(port'), o)
      /\ AtMostOnce(OpsOf(port), o) /\ Head(port).op = o => ~InPort(o)'
      /\ Head(port).op = o => InPort(o)
  BY <1>1, OnePacketLess DEF InPort, TypeQueues
<1>4. CASE Head(port).op = o
  <2>1. pc' = [pc EXCEPT ![t] = "got"] /\ cur' = [cur EXCEPT ![t] = Head(port)]
    BY <1>1, <1>2, <1>4, PacketFacts DEF Goto
  <2>2. /\ InPort(o) /\ ~InPort(o)' /\ ~PutAside(o) /\ o \notin timers /\ ~Busy(o) /\ ~Waiting(o) /\ ~InHand(o)
        /\ Live(o) /\ AtMostOnce(OpsOf(port'), o) /\ AtMostOnce(completed_ops_', o)
    BY <1>1, <1>2, <1>3, <1>4 DEF OneHome
  <2>3. Taken(t, o)' /\ \A u \in Threads : Taken(u, o)' => u = t
    BY <1>4, <2>1, <2>2 DEF Taken, InHand, TypeThreads
  <2>4. /\ ~PutAside(o)' /\ o \notin timers' /\ ~Busy(o)' /\ ~Waiting(o)' /\ Live(o)' /\ InHand(o)'
    BY <1>2, <2>2, <2>3 DEF SameAside, SameOp, Busy, Waiting, Live, InHand
  <2>5. OneHome(o)'
    BY <2>2, <2>3, <2>4 DEF OneHome
  <2>6. CallKnown(o)'
    BY <1>1, <1>2, <2>2, <2>4 DEF CallKnown, SameOp
  <2> QED BY <2>5, <2>6
<1>5. CASE Head(port).op # o
  <2>1. SamePort(o)
    BY <1>3, <1>5 DEF SamePort
  <2>2. ~Taken(t, o)' /\ \A u \in Threads \ {t} : Taken(u, o)' <=> Taken(u, o)
    <3>1. CASE Head(port).op \in Ops /\ Goto(t, "got") /\ cur' = [cur EXCEPT ![t] = Head(port)]
      BY <1>5, <3>1 DEF Taken, TypeThreads, Goto
    <3>2. ASSUME NEW p \in {"stop_seen", "top"}, Goto(t, p), cur' = cur
          PROVE  ~Taken(t, o)' /\ \A u \in Threads \ {t} : Taken(u, o)' <=> Taken(u, o)
      BY <3>2 DEF Taken, TypeThreads, Goto
    <3> QED BY <1>1, <3>1, <3>2
  <2>3. SameHands(o)
    BY <1>2, <2>2 DEF SameHands
  <2> QED BY <1>1, <1>2, <2>1, <2>3, NothingNew DEF CallKnown
<1> QED BY <1>4, <1>5

\* The two threads at ready_: the last to come dispatches the operation.
LEMMA ClaimHome ==
  ASSUME TypeInv, HomeInv, CarriedInv, NEW t \in Threads, Claim(t)
  PROVE  HomeInv'
<1> USE DEF TypeInv
<1>1. PICK x : x = cur[t].op
  OBVIOUS
<1>2. pc[t] = "got" /\ cur[t] \in OpPacket /\ x \in Ops /\ Taken(t, x)
  BY <1>1, PacketFacts DEF Claim, ThreadsKnown, Taken
<1>3. /\ UNCHANGED queues /\ UNCHANGED timing /\ UNCHANGED <<issued, call, device>>
      /\ shutdown_' = shutdown_ /\ cur' = [cur EXCEPT ![t] = NoPacket]
      /\ \E p \in {"handler", "top"} : pc' = [pc EXCEPT ![t] = p]
  BY Zenon DEF Claim, control, Goto
<1>4. \/ ready_[x] /\ seen' = [seen EXCEPT ![x] = Saved(t)[x]] /\ ready_' = [ready_ EXCEPT ![x] = FALSE]
      \/ ~ready_[x] /\ seen' = seen /\ ready_' = [ready_ EXCEPT ![x] = TRUE]
  BY <1>1, Zenon DEF Claim, Dispatchable
<1>5. Saved(t)[x] = Carried(cur[t]) /\ Carried(cur[t]) # "none"
  <2>1. OnItsWay(cur[t])
    BY <1>2 DEF OnItsWay
  <2>2. Saved(t)[x] = Carried(cur[t])
    BY <1>1, <1>2 DEF Saved, Carried, TypeOps
  <2> QED BY <1>1, <1>2, <2>1, <2>2 DEF CarriedInv, CarriedAt
<1>6. /\ UNCHANGED timers /\ UNCHANGED completed_ops_ /\ UNCHANGED port
  BY <1>3 DEF queues, timing
<1> SUFFICES ASSUME NEW o \in Ops PROVE OneHome(o)' /\ CallKnown(o)'
  BY DEF HomeInv
<1>7. OneHome(o) /\ CallKnown(o) /\ SamePort(o) /\ SameAside(o) /\ (o \in timers' <=> o \in timers)
  BY <1>6 DEF HomeInv, SamePort, SameAside, InPort, PutAside
<1>8. ~Taken(t, o)' /\ \A u \in Threads \ {t} : Taken(u, o)' <=> Taken(u, o)
  BY <1>3 DEF Taken, TypeThreads
<1>9. CASE o # x
  <2>1. SameHands(o)
    BY <1>1, <1>8, <1>9 DEF SameHands, Taken
  <2>2. SameOp(o)
    BY <1>3, <1>4, <1>9 DEF SameOp, TypeOps
  <2> QED BY <1>3, <1>7, <2>1, <2>2, NothingNew DEF CallKnown
<1>10. CASE o = x
  <2>1. /\ InHand(o) /\ ~InPort(o) /\ ~PutAside(o) /\ o \notin timers /\ ~Busy(o) /\ ~Waiting(o) /\ Live(o)
        /\ \A u \in Threads : Taken(u, o) => u = t
    BY <1>2, <1>7, <1>10 DEF OneHome, InHand
  <2>2. ~InHand(o)' /\ (\A u \in Threads : ~Taken(u, o)') /\ ~InPort(o)' /\ ~PutAside(o)' /\ o \notin timers'
        /\ ~Busy(o)' /\ AtMostOnce(OpsOf(port'), o) /\ AtMostOnce(completed_ops_', o)
    BY <1>3, <1>6, <1>7, <1>8, <2>1 DEF InHand, SamePort, SameAside, Busy, OneHome
  <2>3. CASE ready_[x] /\ seen' = [seen EXCEPT ![x] = Saved(t)[x]] /\ ready_' = [ready_ EXCEPT ![x] = FALSE]
    <3>1. seen'[o] # "none" /\ ready_'[o] = FALSE /\ call[o] \notin Threads
      BY <1>5, <1>10, <2>1, <2>3 DEF TypeOps, Waiting
    <3>2. ~Live(o)' /\ ~Waiting(o)'
      BY <3>1 DEF Live, Waiting
    <3>3. OneHome(o)'
      BY <2>2, <3>2 DEF OneHome
    <3>4. CallKnown(o)'
      BY <1>3, <1>7, <2>1, <2>2, <3>1 DEF CallKnown, Live
    <3> QED BY <3>3, <3>4
  <2>4. CASE ~ready_[x] /\ seen' = seen /\ ready_' = [ready_ EXCEPT ![x] = TRUE]
    <3>1. ready_'[o] = TRUE /\ seen'[o] = seen[o] /\ call[o] \in Threads
      BY <1>7, <1>10, <2>1, <2>4 DEF TypeOps, CallKnown
    <3>2. Live(o)' /\ Waiting(o)'
      BY <1>3, <2>1, <3>1 DEF Live, Waiting
    <3>3. OneHome(o)'
      BY <2>2, <3>2 DEF OneHome
    <3>4. CallKnown(o)'
      BY <1>3, <1>7, <2>1, <2>2, <3>1, <3>2 DEF CallKnown, Live
    <3> QED BY <3>3, <3>4
  <2> QED BY <1>4, <2>3, <2>4
<1> QED BY <1>9, <1>10

\* The operations put aside and the timers that are due are posted, or put aside again.
LEMMA DispatchHome ==
  ASSUME TypeInv, HomeInv, NEW t \in Threads, Dispatch(t)
  PROVE  HomeInv'
<1> USE DEF TypeInv
<1>1. PICK q : DispatchedList(q)
  BY DispatchPosts
<1>2. PICK ps : ps = Posted(q)
  OBVIOUS
<1>3. /\ ps \in Seq(OpPacket) /\ OpsOf(ps) = q /\ <<>> \in Seq(Ops) /\ Post(ps, <<>>)
  BY <1>1, <1>2, PostedFacts DEF DispatchedList
<1>4. \A o \in Ops : PostedOne(ps, <<>>, o)
  BY <1>3, PostFacts
<1>5. /\ timers' = timers \ due /\ UNCHANGED <<cur, issued, call, device, seen>> /\ shutdown_' = shutdown_
      /\ pc[t] = "dispatch" /\ pc' = [pc EXCEPT ![t] = "get"]
  BY DEF Dispatch, Goto, control
<1> SUFFICES ASSUME NEW o \in Ops PROVE OneHome(o)' /\ CallKnown(o)'
  BY DEF HomeInv
<1>6. OneHome(o) /\ CallKnown(o) /\ (Has(q, o) <=> PutAside(o) \/ o \in due) /\ (o \in due => o \in timers)
  BY <1>1 DEF HomeInv, DispatchedList, PutAside, TypeTiming
<1>7. SameHands(o)
  BY <1>5 DEF SameHands, Taken, TypeThreads
<1>8. CASE Has(q, o)
  <2>1. AtMostOnce(q, o)
    BY <1>1, <1>6, <1>8 DEF DispatchedList, OneHome, PutAside
  <2>2. /\ ~InPort(o) /\ Live(o) /\ ~Busy(o) /\ ~InHand(o) /\ ~(PutAside(o) /\ o \in timers)
        /\ call[o] \notin Threads
    <3>1. ~InPort(o) /\ Live(o) /\ ~Busy(o) /\ ~InHand(o) /\ ~(PutAside(o) /\ o \in timers)
      BY <1>6, <1>8 DEF OneHome
    <3>2. call[o] \notin Threads
      BY <1>6, <1>8 DEF CallKnown
    <3> QED BY <3>1, <3>2
  <2>3. Landed(o)
    <3>1. /\ Has(OpsOf(port'), o) \/ Has(completed_ops_', o)
          /\ AtMostOnce(OpsOf(port'), o) /\ AtMostOnce(completed_ops_', o)
          /\ ~(Has(OpsOf(port'), o) /\ Has(completed_ops_', o))
          /\ Has(OpsOf(port'), o) => ready_'[o]
      BY <1>3, <1>4, <1>8, <2>1, <2>2, NoneHas DEF PostedOne, InPort
    <3> QED BY <3>1 DEF Landed, InPort, PutAside
  <2>4. Live(o)' /\ o \notin timers' /\ \A u \in Threads : ~Taken(u, o)'
    BY <1>5, <1>6, <1>7, <1>8, <2>2 DEF Live, InHand, SameHands
  <2> QED BY <1>5, <1>6, <2>2, <2>3, <2>4, HomeLanded DEF Busy, CallKnown
<1>9. CASE ~Has(q, o)
  <2>1. SamePort(o) /\ SameAside(o) /\ ready_'[o] = ready_[o]
    <3>1. /\ Has(OpsOf(port'), o) <=> Has(OpsOf(port), o)
          /\ Has(completed_ops_', o) <=> Has(<<>>, o)
          /\ ready_'[o] = ready_[o]
          /\ AtMostOnce(OpsOf(port), o) => AtMostOnce(OpsOf(port'), o)
          /\ AtMostOnce(<<>>, o) => AtMostOnce(completed_ops_', o)
      BY <1>3, <1>4, <1>9 DEF PostedOne
    <3> QED BY <1>6, <1>9, <3>1, NoneHas DEF SamePort, SameAside, InPort, PutAside
  <2> QED BY <1>5, <1>6, <1>7, <1>9, <2>1, NothingNew DEF SameOp, CallKnown
<1> QED BY <1>8, <1>9

LEMMA HomeStep == ASSUME TypeInv, HomeInv, CarriedInv, [Next]_vars PROVE HomeInv'
BY ThreadHome, GetHome, ClaimHome, DispatchHome, ProgramHome, SystemHome, OtherHome
   DEF Next, Step, Program, System, Walks

-----------------------------------------------------------------------------
(* The result an operation is dispatched with.                             *)

\* What the system has said of an operation; without a failed post, it is what comes
\* with its packet, what is kept for it, and what its handler is given.
Said(o, r) ==
    \/ device[o] = "completed" /\ r = "io"
    \/ device[o] = "refused" /\ r = "failed"

OwnAt(o) ==
    \A r : Said(o, r) => /\ \A p \in OpPacket : p.op = o /\ OnItsWay(p) => Carried(p) = r
                         /\ Waiting(o) => overlapped[o] = r
                         /\ seen[o] \in {"none", r, "destroyed"}

OwnInv == fails = 0 => completed_ops_ = <<>> /\ \A o \in Ops : OwnAt(o)

ResultInv == CarriedInv /\ OwnInv

\* A packet that is new on its way brings what it should.
Brings(p) == Carried(p) # "none" /\ (fails = 0 => \A r : Said(p.op, r) => Carried(p) = r)

Quiet(o) ==
    /\ overlapped'[o] = overlapped[o] /\ device'[o] = device[o] /\ seen'[o] \in {seen[o], "destroyed"}
    /\ Waiting(o)' => Waiting(o)
    /\ \A p \in OpPacket : p.op = o /\ OnItsWay(p)' => OnItsWay(p) \/ Brings(p)

LEMMA ResultQuiet ==
  ASSUME NEW o, CarriedAt(o), Quiet(o)
  PROVE  CarriedAt(o)' /\ (fails = 0 /\ OwnAt(o) => OwnAt(o)')
<1>1. \A p : p.op = o => Carried(p)' = Carried(p)
  BY DEF Quiet, Carried
<1>2. \A r : Said(o, r)' <=> Said(o, r)
  BY DEF Quiet, Said
<1>3. CarriedAt(o)'
  BY <1>1 DEF CarriedAt, Quiet, Brings
<1>4. ASSUME fails = 0, OwnAt(o) PROVE OwnAt(o)'
  <2> SUFFICES ASSUME NEW r, Said(o, r)
               PROVE  /\ \A p \in OpPacket : p.op = o /\ OnItsWay(p)' => Carried(p)' = r
                      /\ Waiting(o)' => overlapped'[o] = r
                      /\ seen'[o] \in {"none", r, "destroyed"}
    BY <1>2 DEF OwnAt
  <2> QED BY <1>1, <1>4 DEF OwnAt, Quiet, Brings
<1> QED BY <1>3, <1>4

\* The step of the whole invariant from those of the operations.
LEMMA ResultAll ==
  ASSUME ResultInv, fails' = 0 => fails = 0 /\ completed_ops_' = <<>>, \A o \in Ops : Quiet(o)
  PROVE  ResultInv'
<1>1. \A o \in Ops : CarriedAt(o)' /\ (fails = 0 /\ OwnAt(o) => OwnAt(o)')
  BY ResultQuiet DEF ResultInv, CarriedInv
<1> QED BY <1>1 DEF ResultInv, CarriedInv, OwnInv

\* A packet on its way is in the port or in the hand of a thread, and so is its operation.
LEMMA WayHome ==
  ASSUME TypeQueues, NEW p \in OpPacket, OnItsWay(p)
  PROVE  InPort(p.op) \/ InHand(p.op)
BY OpsOfHas, PacketFacts DEF TypeQueues, OnItsWay, InPort, InHand, Taken

\* The port changes by no packet of an operation, or loses one.
LEMMA PortQuiet ==
  ASSUME TypeQueues, NEW p \in OpPacket,
         \/ port' = port \/ port' = Append(port, StopPacket) \/ port' = Append(port, WakePacket)
         \/ port # <<>> /\ port' = Tail(port)
  PROVE  Has(port', p) => Has(port, p)
<1>1. port \in Seq(AnyPacket)
  BY DEF TypeQueues
<1>2. \A q \in Seq(AnyPacket) : \A s \in AnyPacket : Has(Append(q, s), p) <=> Has(q, p) \/ p = s
  BY OneMorePacket
<1>3. \A q \in Seq(AnyPacket) : q # <<>> => (Has(Tail(q), p) => Has(q, p))
  BY OnePacketLess
<1>4. p # StopPacket /\ p # WakePacket /\ StopPacket \in AnyPacket /\ WakePacket \in AnyPacket
  BY PacketFacts
<1>5. CASE \E s \in {StopPacket, WakePacket} : port' = Append(port, s)
  BY <1>1, <1>2, <1>4, <1>5
<1>6. CASE port # <<>> /\ port' = Tail(port)
  BY <1>1, <1>3, <1>6
<1> QED BY <1>5, <1>6

LEMMA WalkResult ==
  ASSUME TypeInv, ResultInv, NEW t \in Threads, Walks(t)
  PROVE  ResultInv'
<1> USE DEF TypeInv
<1>1. UNCHANGED ops /\ cur' = cur /\ completed_ops_' = completed_ops_
  BY DEF Walks, StopFlag, StopEvent, StopPost, Top, GetNothing, StopSeen, StopCheck, HandlerEnds, Stop, Enter,
     control, queues
<1>2. port' = port \/ port' = Append(port, StopPacket)
  BY DEF Walks, StopFlag, StopEvent, StopPost, Top, GetNothing, StopSeen, StopCheck, HandlerEnds, Stop, Enter,
     queues
<1>3. pc'[t] # "got" /\ \A u \in Threads \ {t} : pc'[u] = pc[u]
  BY WalkMoves DEF Moved, TypeThreads
<1>4. fails' = fails \/ fails' = fails + 1
  BY DEF Walks, StopFlag, StopEvent, StopPost, Top, GetNothing, StopSeen, StopCheck, HandlerEnds, Stop, Enter,
     queues, Fail
<1>5. fails' = 0 => fails = 0 /\ completed_ops_' = <<>>
  BY <1>1, <1>4 DEF TypeQueues, ResultInv, OwnInv
<1>6. ASSUME NEW o \in Ops PROVE Quiet(o)
  <2>1. ASSUME NEW p \in OpPacket, OnItsWay(p)' PROVE OnItsWay(p)
    BY <1>1, <1>2, <1>3, <2>1, PortQuiet DEF OnItsWay
  <2> QED BY <1>1, <2>1 DEF Quiet, ops, Waiting
<1> QED BY <1>5, <1>6, ResultAll

LEMMA GetResult ==
  ASSUME TypeInv, ResultInv, NEW t \in Threads, Get(t)
  PROVE  ResultInv'
<1> USE DEF TypeInv
<1>1. /\ pc[t] = "get" /\ port # <<>> /\ port' = Tail(port) /\ UNCHANGED ops
      /\ completed_ops_' = completed_ops_ /\ fails' = fails
      /\ \/ \E p \in {"stop_seen", "top"} : pc' = [pc EXCEPT ![t] = p] /\ cur' = cur
         \/ pc' = [pc EXCEPT ![t] = "got"] /\ cur' = [cur EXCEPT ![t] = Head(port)]
  BY DEF Get, Goto
<1>2. Has(port, Head(port))
  BY <1>1, OnePacketLess DEF TypeQueues
<1>3. ASSUME NEW o \in Ops PROVE Quiet(o)
  <2>1. ASSUME NEW p \in OpPacket, OnItsWay(p)' PROVE OnItsWay(p)
    <3>1. Has(port', p) => Has(port, p)
      BY <1>1, PortQuiet
    <3>2. ASSUME NEW u \in Threads, pc'[u] = "got", cur'[u] = p PROVE OnItsWay(p)
      BY <1>1, <1>2, <3>2 DEF OnItsWay, TypeThreads
    <3> QED BY <2>1, <3>1, <3>2 DEF OnItsWay
  <2> QED BY <1>1, <2>1 DEF Quiet, ops, Waiting
<1> QED BY <1>1, <1>3, ResultAll DEF ResultInv, OwnInv

LEMMA ClaimResult ==
  ASSUME TypeInv, HomeInv, ResultInv, NEW t \in Threads, Claim(t)
  PROVE  ResultInv'
<1> USE DEF TypeInv
<1>1. PICK x : x = cur[t].op
  OBVIOUS
<1>2. pc[t] = "got" /\ cur[t] \in OpPacket /\ x \in Ops /\ InHand(x) /\ OnItsWay(cur[t])
  BY <1>1, PacketFacts DEF Claim, ThreadsKnown, InHand, Taken, OnItsWay
<1>3. /\ UNCHANGED queues /\ UNCHANGED <<issued, call, device>>
      /\ cur' = [cur EXCEPT ![t] = NoPacket] /\ \E p \in {"handler", "top"} : pc' = [pc EXCEPT ![t] = p]
  BY Zenon DEF Claim, Goto
<1>4. PICK v : v = Saved(t)
  OBVIOUS
<1>5. \/ /\ seen' = [seen EXCEPT ![x] = v[x]] /\ ready_' = [ready_ EXCEPT ![x] = FALSE]
         /\ overlapped' = [overlapped EXCEPT ![x] = "none"]
      \/ ~ready_[x] /\ seen' = seen /\ ready_' = [ready_ EXCEPT ![x] = TRUE] /\ overlapped' = v
  BY <1>1, <1>4, Zenon DEF Claim, Dispatchable
<1>6. v[x] = Carried(cur[t]) /\ v[x] # "none" /\ \A o \in Ops \ {x} : v[o] = overlapped[o]
  <2>1. v[x] = Carried(cur[t])
    BY <1>1, <1>2, <1>4 DEF Saved, Carried, TypeOps
  <2>2. \A o \in Ops \ {x} : v[o] = overlapped[o]
    BY <1>1, <1>2, <1>4 DEF Saved, TypeOps
  <2>3. Carried(cur[t]) # "none"
    BY <1>1, <1>2 DEF ResultInv, CarriedInv, CarriedAt
  <2> QED BY <2>1, <2>2, <2>3
<1>7. ASSUME NEW p \in OpPacket, OnItsWay(p)' PROVE OnItsWay(p) /\ p.op # x
  <2>1. OnItsWay(p)
    BY <1>3, <1>7 DEF OnItsWay, queues, TypeThreads
  <2>2. ~InPort(x) /\ \A u \in Threads : Taken(u, x) => u = t
    BY <1>1, <1>2 DEF HomeInv, OneHome, Taken
  <2>3. ASSUME p.op = x PROVE FALSE
    <3>1. ~Has(port, p)
      BY <2>2, <2>3, OpsOfHas, PacketFacts DEF InPort, TypeQueues
    <3>2. \E u \in Threads : pc'[u] = "got" /\ cur'[u] = p
      BY <1>3, <1>7, <3>1 DEF OnItsWay, queues
    <3> QED BY <1>3, <2>2, <2>3, <3>2 DEF Taken, TypeThreads
  <2> QED BY <2>1, <2>3
<1>8. ASSUME NEW o \in Ops \ {x} PROVE Quiet(o)
  <2>1. overlapped'[o] = overlapped[o] /\ seen'[o] = seen[o] /\ ready_'[o] = ready_[o]
    BY <1>5, <1>6 DEF TypeOps
  <2> QED BY <1>3, <1>7, <2>1 DEF Quiet, Waiting
<1>9. CarriedAt(x)' /\ (fails = 0 => OwnAt(x)')
  <2>1. Waiting(x)' => overlapped'[x] = v[x]
    BY <1>2, <1>5 DEF Waiting, TypeOps
  <2>2. CarriedAt(x)'
    BY <1>6, <1>7, <2>1 DEF CarriedAt
  <2>3. ASSUME fails = 0, NEW r, Said(x, r)
        PROVE  /\ \A p \in OpPacket : p.op = x /\ OnItsWay(p)' => Carried(p)' = r
               /\ Waiting(x)' => overlapped'[x] = r
               /\ seen'[x] \in {"none", r, "destroyed"}
    <3>1. v[x] = r /\ seen[x] \in {"none", r, "destroyed"}
      BY <1>1, <1>2, <1>6, <2>3 DEF ResultInv, OwnInv, OwnAt
    <3>2. seen'[x] = seen[x] \/ seen'[x] = v[x]
      BY <1>2, <1>5 DEF TypeOps
    <3> QED BY <1>7, <2>1, <3>1, <3>2
  <2>4. \A r : Said(x, r)' <=> Said(x, r)
    BY <1>3 DEF Said
  <2> QED BY <2>2, <2>3, <2>4 DEF OwnAt
<1>10. \A o \in Ops \ {x} : CarriedAt(o)' /\ (fails = 0 /\ OwnAt(o) => OwnAt(o)')
  BY <1>8, ResultQuiet DEF ResultInv, CarriedInv
<1>11. fails' = fails /\ completed_ops_' = completed_ops_
  BY <1>3 DEF queues
<1> QED BY <1>9, <1>10, <1>11 DEF ResultInv, CarriedInv, OwnInv

LEMMA DispatchResult ==
  ASSUME TypeInv, HomeInv, ResultInv, NEW t \in Threads, Dispatch(t)
  PROVE  ResultInv'
<1> USE DEF TypeInv
<1>1. PICK q : DispatchedList(q)
  BY DispatchPosts
<1>2. PICK ps : ps = Posted(q)
  OBVIOUS
<1>3. /\ ps \in Seq(OpPacket) /\ OpsOf(ps) = q /\ <<>> \in Seq(Ops) /\ Post(ps, <<>>) /\ q \in Seq(Ops)
  BY <1>1, <1>2, PostedFacts DEF DispatchedList
<1>4. PostedOf(ps, <<>>) /\ \A o \in Ops : PostedOne(ps, <<>>, o)
  BY <1>3, PostFacts
<1>5. UNCHANGED <<cur, call, device, seen, overlapped>> /\ pc[t] = "dispatch" /\ pc' = [pc EXCEPT ![t] = "get"]
  BY DEF Dispatch, Goto
<1>6. fails' = 0 => fails = 0 /\ completed_ops_' = <<>>
  BY <1>4 DEF PostedOf
<1>7. ASSUME NEW p \in OpPacket, Has(ps, p) PROVE p.res = "ok" /\ Has(q, p.op)
  <2>1. PICK i \in 1 .. Len(ps) : ps[i] = p
    BY <1>7 DEF Has
  <2>2. i \in 1 .. Len(q) /\ ps[i] = Packet(q[i], "ok")
    BY <1>2, <1>3, <2>1 DEF Posted
  <2> QED BY <2>1, <2>2, PacketFacts DEF Has
<1>8. ASSUME NEW o \in Ops PROVE Quiet(o)
  <2>1. /\ Has(q, o) <=> PutAside(o) \/ o \in due
        /\ o \in due => call[o] = "none" /\ device[o] = "none"
        /\ PutAside(o) => call[o] \notin Threads
    BY <1>1 DEF DispatchedList, PutAside, TypeTiming, HomeInv, CallKnown
  <2>2. Waiting(o)' => Waiting(o)
    <3>1. Has(q, o) => call[o] \notin Threads
      BY <2>1
    <3>2. ~Has(q, o) => ready_'[o] = ready_[o]
      BY <1>3, <1>4 DEF PostedOne
    <3> QED BY <1>5, <3>1, <3>2 DEF Waiting
  <2>3. ASSUME NEW p \in OpPacket, p.op = o, OnItsWay(p)' PROVE OnItsWay(p) \/ Brings(p)
    <3>1. CASE Has(port', p)
      <4>1. Has(port, p) \/ Has(ps, p)
        BY <1>4, <3>1, PacketFacts DEF PostedOf
      <4>2. ASSUME Has(ps, p) PROVE Brings(p)
        <5>1. Carried(p) = "ok" /\ Has(q, o)
          BY <1>7, <2>3, <4>2 DEF Carried, InOverlapped
        <5>2. ASSUME fails = 0, NEW r PROVE ~Said(o, r)
          <6>1. ~PutAside(o)
            BY <5>2, NoneHas DEF ResultInv, OwnInv, PutAside
          <6> QED BY <2>1, <5>1, <6>1 DEF Said
        <5> QED BY <2>3, <5>1, <5>2 DEF Brings
      <4> QED BY <4>1, <4>2 DEF OnItsWay
    <3>2. CASE ~Has(port', p)
      BY <1>5, <2>3, <3>2 DEF OnItsWay, TypeThreads
    <3> QED BY <3>1, <3>2
  <2> QED BY <1>5, <2>2, <2>3 DEF Quiet
<1> QED BY <1>6, <1>8, ResultAll

LEMMA OtherResult ==
  ASSUME TypeInv, ResultInv, TimerThread \/ Restart \/ Shutdown \/ ShutdownLoop \/ UNCHANGED vars
  PROVE  ResultInv'
<1> USE DEF TypeInv
<1>1. UNCHANGED threads /\ UNCHANGED <<ready_, overlapped, call, device>>
  BY DEF TimerThread, TimerThreadRequires, TimerThreadPosts, Restart, Shutdown, ShutdownLoop, vars, ops
<1>2. fails' = fails \/ fails' = fails + 1
  BY DEF TimerThread, TimerThreadRequires, TimerThreadPosts, Restart, Shutdown, ShutdownLoop, vars, queues, Fail
<1>3. completed_ops_' = completed_ops_ \/ completed_ops_' = <<>>
  BY LoopDestroys DEF TimerThread, TimerThreadRequires, TimerThreadPosts, Restart, Shutdown, vars, queues
<1>4. \/ port' = port \/ port' = Append(port, StopPacket) \/ port' = Append(port, WakePacket)
      \/ port # <<>> /\ port' = Tail(port)
  BY LoopDestroys DEF TimerThread, TimerThreadRequires, TimerThreadPosts, Restart, Shutdown, vars, queues
<1>5. fails' = 0 => fails = 0 /\ completed_ops_' = <<>>
  BY <1>2, <1>3 DEF TypeQueues, ResultInv, OwnInv
<1>6. ASSUME NEW o \in Ops PROVE Quiet(o)
  <2>1. ASSUME NEW p \in OpPacket, OnItsWay(p)' PROVE OnItsWay(p)
    BY <1>1, <1>4, <2>1, PortQuiet DEF OnItsWay, threads
  <2>2. seen'[o] \in {seen[o], "destroyed"}
    <3>1. CASE ShutdownLoop
      BY <3>1, LoopDestroys DEF Destroyable
    <3>2. CASE ~ShutdownLoop
      BY <3>2 DEF TimerThread, TimerThreadRequires, TimerThreadPosts, Restart, Shutdown, vars, ops
    <3> QED BY <3>1, <3>2
  <2> QED BY <1>1, <2>1, <2>2 DEF Quiet, Waiting
<1> QED BY <1>5, <1>6, ResultAll

\* One operation is posted, and no thread moves.
LEMMA PostResult ==
  ASSUME TypeQueues, TypeOps, NEW p \in OpPacket, Post(<<p>>, completed_ops_), UNCHANGED threads
  PROVE  /\ \A r \in OpPacket : OnItsWay(r)' => OnItsWay(r) \/ r = p
         /\ fails' = 0 => fails = 0 /\ completed_ops_' = completed_ops_
         /\ \A o \in Ops \ {p.op} : ready_'[o] = ready_[o]
<1>1. PICK L : L = <<p>>
  OBVIOUS
<1>2. PostedOf(L, completed_ops_)
  BY <1>1, OnePosted
<1>3. \A r : Has(L, r) <=> r = p
  BY <1>1, OneHas
<1>4. ASSUME NEW r \in OpPacket, OnItsWay(r)' PROVE OnItsWay(r) \/ r = p
  <2>1. Has(port', r) => Has(port, r) \/ r = p
    BY <1>2, <1>3, PacketFacts DEF PostedOf
  <2> QED BY <1>4, <2>1 DEF OnItsWay, threads
<1>5. fails' = 0 => fails = 0 /\ completed_ops_' = completed_ops_
  BY <1>2 DEF PostedOf
<1>6. \A o \in Ops \ {p.op} : ready_'[o] = ready_[o]
  BY PostsOne
<1> QED BY <1>4, <1>5, <1>6

LEMMA ProgramResult ==
  ASSUME TypeInv, HomeInv, ResultInv, NEW t \in Threads, NEW o \in Ops,
         PostImmediate(t, o) \/ StartIo(t, o) \/ ScheduleTimer(t, o) \/ CancelTimer(t, o)
  PROVE  ResultInv'
<1> USE DEF TypeInv
<1>1. UNCHANGED threads /\ seen' = seen /\ overlapped' = overlapped
      /\ \A x \in Ops \ {o} : device'[x] = device[x] /\ call'[x] = call[x]
  BY DEF PostImmediate, StartIo, ScheduleTimer, CancelTimer, TypeOps
<1>2. call[o] \notin Threads /\ device[o] = "none"
  <2>1. issued \in Nat
    BY DEF TypeOps
  <2>2. ~(o <= issued) \/ o \in timers
    BY <2>1 DEF PostImmediate, StartIo, ScheduleTimer, CancelTimer, Issue
  <2>3. call[o] = "none"
    BY <2>2 DEF HomeInv, CallKnown
  <2> QED BY <2>3 DEF HomeInv, CallKnown
<1>3. CASE PostImmediate(t, o) \/ CancelTimer(t, o)
  <2>1. Post(<<Packet(o, "ok")>>, completed_ops_) /\ device' = device /\ call' = call
    BY <1>3 DEF PostImmediate, CancelTimer
  <2>2. Packet(o, "ok") \in OpPacket /\ Packet(o, "ok").op = o /\ Packet(o, "ok").res = "ok"
    BY PacketFacts
  <2>3. PICK p : p = Packet(o, "ok")
    OBVIOUS
  <2>4. /\ \A r \in OpPacket : OnItsWay(r)' => OnItsWay(r) \/ r = p
        /\ fails' = 0 => fails = 0 /\ completed_ops_' = completed_ops_
        /\ \A x \in Ops \ {o} : ready_'[x] = ready_[x]
    BY <1>1, <2>1, <2>2, <2>3, PostResult
  <2>5. Brings(p)
    BY <1>2, <2>2, <2>3 DEF Brings, Carried, Said, InOverlapped
  <2>6. ASSUME NEW x \in Ops PROVE Quiet(x)
    BY <1>1, <1>2, <2>1, <2>4, <2>5 DEF Quiet, Waiting
  <2> QED BY <2>4, <2>6, ResultAll DEF ResultInv, OwnInv
<1>4. CASE StartIo(t, o) \/ ScheduleTimer(t, o)
  <2>1. UNCHANGED queues /\ ready_' = ready_ /\ device'[o] \in {"none", "busy"}
    BY <1>2, <1>4 DEF StartIo, ScheduleTimer, TypeOps
  <2>2. ~InPort(o) /\ ~InHand(o) /\ ready_[o] = FALSE /\ seen[o] = "none"
    <3>1. issued \in Nat
      BY DEF TypeOps
    <3>2. ~(o <= issued)
      BY <1>4, <3>1 DEF StartIo, ScheduleTimer, Issue
    <3> QED BY <3>2 DEF HomeInv, OneHome, CallKnown, Live
  <2>3. \A r \in OpPacket : OnItsWay(r)' <=> OnItsWay(r)
    BY <1>1, <2>1 DEF OnItsWay, threads, queues
  <2>4. ASSUME NEW x \in Ops \ {o} PROVE Quiet(x)
    BY <1>1, <2>1, <2>3 DEF Quiet, Waiting
  <2>5. CarriedAt(o)' /\ OwnAt(o)'
    BY <2>1, <2>2, <2>3, WayHome DEF CarriedAt, OwnAt, Said, Waiting
  <2>6. \A x \in Ops \ {o} : CarriedAt(x)' /\ (fails = 0 /\ OwnAt(x) => OwnAt(x)')
    BY <2>4, ResultQuiet DEF ResultInv, CarriedInv
  <2> QED BY <2>1, <2>5, <2>6 DEF ResultInv, CarriedInv, OwnInv, queues
<1> QED BY <1>3, <1>4

LEMMA SystemResult ==
  ASSUME TypeInv, HomeInv, ResultInv, NEW o \in Ops,
         DeviceCompletes(o) \/ OnPending(o) \/ OnCompletion(o) \/ TimerDue(o)
  PROVE  ResultInv'
<1> USE DEF TypeInv
<1>1. UNCHANGED threads /\ seen' = seen
      /\ \A x \in Ops \ {o} : device'[x] = device[x] /\ call'[x] = call[x] /\ overlapped'[x] = overlapped[x]
  BY DEF DeviceCompletes, OnPending, OnCompletion, TimerDue, ops, TypeOps
<1>2. OneHome(o) /\ CallKnown(o) /\ CarriedAt(o) /\ (fails = 0 => completed_ops_ = <<>> /\ OwnAt(o))
  BY DEF HomeInv, ResultInv, CarriedInv, OwnInv
<1>3. CASE DeviceCompletes(o)
  <2>1. PICK p : p = Packet(o, "io")
    OBVIOUS
  <2>2. /\ Busy(o) /\ port' = Append(port, p) /\ device'[o] = "completed"
        /\ UNCHANGED <<call, ready_, overlapped, completed_ops_, fails>>
    BY <1>3, <2>1 DEF DeviceCompletes, Busy, TypeOps
  <2>3. p \in OpPacket /\ p \in AnyPacket /\ p.op = o /\ p.res = "io"
    BY <2>1, PacketFacts
  <2>4. ASSUME NEW r \in OpPacket, OnItsWay(r)' PROVE OnItsWay(r) \/ r = p
    <3>1. \A q \in Seq(AnyPacket) : Has(Append(q, p), r) <=> Has(q, r) \/ r = p
      BY <2>3, OneMorePacket
    <3>2. Has(port', r) <=> Has(port, r) \/ r = p
      BY <2>2, <3>1 DEF TypeQueues
    <3> QED BY <1>1, <2>4, <3>2 DEF OnItsWay, threads
  <2>5. ~InPort(o) /\ ~InHand(o) /\ ~Waiting(o) /\ seen[o] = "none"
    BY <1>2, <2>2 DEF OneHome, Live
  <2>6. ASSUME NEW r \in OpPacket, r.op = o, OnItsWay(r)' PROVE Carried(r)' = "io"
    <3>1. r = p
      BY <2>4, <2>5, <2>6, WayHome
    <3> QED BY <2>3, <3>1 DEF Carried, InOverlapped
  <2>7. ~Waiting(o)'
    BY <2>2, <2>5 DEF Waiting
  <2>8. CarriedAt(o)'
    BY <2>6, <2>7 DEF CarriedAt
  <2>9. OwnAt(o)'
    BY <1>1, <2>2, <2>5, <2>6, <2>7 DEF OwnAt, Said
  <2>10. ASSUME NEW x \in Ops \ {o} PROVE Quiet(x)
    BY <1>1, <2>2, <2>3, <2>4, <2>10 DEF Quiet, Waiting
  <2>11. \A x \in Ops \ {o} : CarriedAt(x)' /\ (fails = 0 /\ OwnAt(x) => OwnAt(x)')
    BY <2>10, ResultQuiet DEF ResultInv, CarriedInv
  <2> QED BY <2>2, <2>8, <2>9, <2>11 DEF ResultInv, CarriedInv, OwnInv
<1>4. CASE OnCompletion(o)
  <2>1. PICK p : p = Packet(o, InOverlapped)
    OBVIOUS
  <2>2. /\ Busy(o) /\ Post(<<p>>, completed_ops_) /\ device'[o] = "refused" /\ call'[o] = "returned"
        /\ overlapped'[o] = "failed"
    BY <1>4, <2>1 DEF OnCompletion, Busy, TypeOps
  <2>3. p \in OpPacket /\ p.op = o /\ p.res = InOverlapped
    BY <2>1, PacketFacts
  <2>4. /\ \A r \in OpPacket : OnItsWay(r)' => OnItsWay(r) \/ r = p
        /\ fails' = 0 => fails = 0 /\ completed_ops_' = completed_ops_
        /\ \A x \in Ops \ {o} : ready_'[x] = ready_[x]
    BY <1>1, <2>2, <2>3, PostResult
  <2>5. ~InPort(o) /\ ~InHand(o) /\ seen[o] = "none"
    BY <1>2, <2>2 DEF OneHome, Live
  <2>6. ASSUME NEW r \in OpPacket, r.op = o, OnItsWay(r)' PROVE Carried(r)' = "failed"
    <3>1. r = p
      BY <2>4, <2>5, <2>6, WayHome
    <3> QED BY <2>2, <2>3, <3>1 DEF Carried
  <2>7. ~Waiting(o)'
    BY <2>2 DEF Waiting
  <2>8. CarriedAt(o)'
    BY <2>6, <2>7 DEF CarriedAt
  <2>9. OwnAt(o)'
    BY <1>1, <2>2, <2>5, <2>6, <2>7 DEF OwnAt, Said
  <2>10. ASSUME NEW x \in Ops \ {o} PROVE Quiet(x)
    BY <1>1, <2>2, <2>3, <2>4, <2>10 DEF Quiet, Waiting
  <2>11. \A x \in Ops \ {o} : CarriedAt(x)' /\ (fails = 0 /\ OwnAt(x) => OwnAt(x)')
    BY <2>10, ResultQuiet DEF ResultInv, CarriedInv
  <2> QED BY <2>4, <2>8, <2>9, <2>11 DEF ResultInv, CarriedInv, OwnInv
<1>5. CASE OnPending(o)
  <2>1. /\ call[o] \in Threads /\ call'[o] = "returned" /\ device' = device /\ overlapped' = overlapped
        /\ \/ ready_[o] /\ Post(<<Packet(o, InOverlapped)>>, completed_ops_)
           \/ ready_' = [ready_ EXCEPT ![o] = TRUE] /\ UNCHANGED queues
    BY <1>5 DEF OnPending, TakenOut, TypeOps
  <2>2. ~Waiting(o)'
    BY <2>1 DEF Waiting
  <2>3. CASE ready_[o] /\ Post(<<Packet(o, InOverlapped)>>, completed_ops_)
    <3>1. PICK p : p = Packet(o, InOverlapped)
      OBVIOUS
    <3>2. p \in OpPacket /\ p.op = o /\ p.res = InOverlapped
      BY <3>1, PacketFacts
    <3>3. /\ \A r \in OpPacket : OnItsWay(r)' => OnItsWay(r) \/ r = p
          /\ fails' = 0 => fails = 0 /\ completed_ops_' = completed_ops_
          /\ \A x \in Ops \ {o} : ready_'[x] = ready_[x]
      BY <1>1, <2>3, <3>1, <3>2, PostResult
    <3>4. Waiting(o)
      BY <2>1, <2>3 DEF Waiting
    <3>5. Brings(p)
      BY <1>2, <3>2, <3>4 DEF Brings, Carried, CarriedAt, OwnAt
    <3>6. ASSUME NEW x \in Ops PROVE Quiet(x)
      BY <1>1, <2>1, <2>2, <3>3, <3>5 DEF Quiet, Waiting
    <3> QED BY <3>3, <3>6, ResultAll DEF ResultInv, OwnInv
  <2>4. CASE ready_' = [ready_ EXCEPT ![o] = TRUE] /\ UNCHANGED queues
    <3>1. ASSUME NEW x \in Ops PROVE Quiet(x)
      <4>1. \A r \in OpPacket : OnItsWay(r)' => OnItsWay(r)
        BY <1>1, <2>4 DEF OnItsWay, threads, queues
      <4>2. Waiting(x)' => Waiting(x)
        BY <1>1, <2>2, <2>4 DEF Waiting, TypeOps
      <4> QED BY <1>1, <2>1, <4>1, <4>2 DEF Quiet
    <3> QED BY <2>4, <3>1, ResultAll DEF ResultInv, OwnInv, queues
  <2> QED BY <2>1, <2>3, <2>4
<1>6. CASE TimerDue(o)
  <2>1. UNCHANGED queues /\ UNCHANGED ops
    BY <1>6 DEF TimerDue
  <2>2. ASSUME NEW x \in Ops PROVE Quiet(x)
    BY <1>1, <2>1 DEF Quiet, Waiting, OnItsWay, queues, ops, threads
  <2> QED BY <2>1, <2>2, ResultAll DEF ResultInv, OwnInv, queues
<1> QED BY <1>3, <1>4, <1>5, <1>6

LEMMA ResultStep == ASSUME TypeInv, HomeInv, ResultInv, [Next]_vars PROVE ResultInv'
BY WalkResult, GetResult, ClaimResult, DispatchResult, ProgramResult, SystemResult, OtherResult
   DEF Next, Step, Program, System, Walks

-----------------------------------------------------------------------------
(* outstanding_work_: one for every operation, until its handler returns.  *)

LiveOps == {o \in Ops : Live(o)}
Handling(t) == pc[t] = "handler" \/ ret[t] = "handler"
Handlers == {t \in Threads : Handling(t)}

WorkInv ==
    /\ IsFiniteSet(Handlers)
    /\ outstanding_work_ = Cardinality(LiveOps) + Cardinality(Handlers)
    /\ outstanding_work_ <= issued

LEMMA WorkFacts ==
  ASSUME WorkInv
  PROVE  /\ IsFiniteSet(LiveOps) /\ Cardinality(LiveOps) \in Nat
         /\ IsFiniteSet(Handlers) /\ Cardinality(Handlers) \in Nat
<1>1. LiveOps \subseteq Ops
  BY DEF LiveOps
<1> QED BY <1>1, FiniteOps, FS_CardinalityType DEF WorkInv

\* Calling stop() or being in it does not end a handler.
LEMMA HandlersWalk ==
  ASSUME TypeInv, NEW t \in Threads, Walks(t), ~(\E throws \in BOOLEAN : HandlerEnds(t, throws))
  PROVE  Handlers' = Handlers
<1>1. pc[t] \in Points /\ (pc[t] \notin Stopping => ret[t] = "idle")
  BY DEF TypeInv, TypeThreads, ThreadsKnown
<1>2. Handling(t)' <=> Handling(t)
  <2>1. CASE StopFlag(t) \/ StopEvent(t) \/ StopPost(t)
    <3>1. \/ pc' = [pc EXCEPT ![t] = ret[t]] /\ ret' = [ret EXCEPT ![t] = "idle"]
          \/ ret[t] # "handler" /\ pc' = [pc EXCEPT ![t] = "idle"] /\ ret' = [ret EXCEPT ![t] = "idle"]
          \/ \E p \in {"stop_event", "stop_post"} : pc' = [pc EXCEPT ![t] = p] /\ ret' = ret
      BY <2>1 DEF StopFlag, StopEvent, StopPost, Return, OnTo, Goto
    <3>2. pc[t] # "handler"
      BY <2>1 DEF StopFlag, StopEvent, StopPost
    <3> QED BY <3>1, <3>2 DEF Handling, TypeInv, TypeThreads
  <2>2. CASE Top(t) \/ GetNothing(t) \/ StopSeen(t) \/ StopCheck(t)
    <3>1. /\ ret[t] = "idle" /\ ret' = ret /\ pc[t] # "handler"
          /\ \E p \in {"dispatch", "get", "top", "idle", "stop_check", "stop_event"} : pc' = [pc EXCEPT ![t] = p]
      BY <1>1, <2>2 DEF Top, GetNothing, StopSeen, StopCheck, PassOn, OnTo, Goto, Stopping
    <3> QED BY <3>1 DEF Handling, TypeInv, TypeThreads
  <2>3. CASE Stop(t)
    <3>1. /\ pc[t] \in {"idle", "handler"} /\ ret[t] = "idle"
          /\ pc' = [pc EXCEPT ![t] = "stop"] /\ ret' = [ret EXCEPT ![t] = pc[t]]
      BY <1>1, <2>3 DEF Stop, MayCall, CallStop, Goto, Stopping
    <3> QED BY <3>1 DEF Handling, TypeInv, TypeThreads
  <2>4. ASSUME NEW m \in Modes, Enter(t, m) PROVE Handling(t)' <=> Handling(t)
    <3>1. pc[t] = "idle" /\ ret' = ret /\ \E p \in {"stop", "top"} : pc' = [pc EXCEPT ![t] = p]
      BY <2>4 DEF Enter
    <3> QED BY <3>1 DEF Handling, TypeInv, TypeThreads
  <2> QED BY <2>1, <2>2, <2>3, <2>4 DEF Walks
<1>3. \A u \in Threads \ {t} : Handling(u)' <=> Handling(u)
  BY WalkMoves DEF Moved, Handling, TypeInv, TypeThreads
<1> QED BY <1>2, <1>3 DEF Handlers

\* Operations are gone from the living, and so is their work.
LEMMA WorkGone ==
  ASSUME WorkInv, NEW os, os \subseteq LiveOps, LiveOps' = LiveOps \ os, Handlers' = Handlers,
         issued \in Nat, issued' = issued, outstanding_work_' = outstanding_work_ - Cardinality(os)
  PROVE  WorkInv'
<1>1. /\ Cardinality(LiveOps) \in Nat /\ Cardinality(Handlers) \in Nat /\ IsFiniteSet(LiveOps)
  BY WorkFacts
<1>2. Cardinality(LiveOps \ os) = Cardinality(LiveOps) - Cardinality(LiveOps \cap os)
  BY <1>1, FS_Difference
<1>3. LiveOps \cap os = os
  OBVIOUS
<1>4. Cardinality(os) \in Nat
  BY FiniteOps DEF LiveOps
<1>5. Cardinality(LiveOps') = Cardinality(LiveOps) - Cardinality(os) /\ Cardinality(Handlers') = Cardinality(Handlers)
  BY <1>2, <1>3
<1> QED BY <1>1, <1>4, <1>5 DEF WorkInv

LEMMA WorkStep ==
  ASSUME TypeInv, HomeInv, CarriedInv, WorkInv, [Next]_vars
  PROVE  WorkInv'
<1> USE DEF TypeInv
<1>1. /\ IsFiniteSet(LiveOps) /\ Cardinality(LiveOps) \in Nat /\ IsFiniteSet(Handlers)
      /\ Cardinality(Handlers) \in Nat /\ issued \in Nat
  BY WorkFacts DEF TypeOps
<1>2. ASSUME LiveOps' = LiveOps, Handlers' = Handlers, outstanding_work_' = outstanding_work_, issued' = issued
      PROVE  WorkInv'
  BY <1>2 DEF WorkInv
<1>3. UNCHANGED <<issued, seen>> => LiveOps' = LiveOps
  BY DEF LiveOps, Live
<1>4. UNCHANGED threads => Handlers' = Handlers
  BY DEF threads, Handlers, Handling
<1>5. ASSUME NEW t \in Threads, Walks(t), ~(\E throws \in BOOLEAN : HandlerEnds(t, throws)) PROVE WorkInv'
  <2>1. UNCHANGED <<issued, seen, outstanding_work_>>
    BY <1>5 DEF Walks, StopFlag, StopEvent, StopPost, Top, GetNothing, StopSeen, StopCheck, Stop, Enter,
       control, ops
  <2> QED BY <1>2, <1>3, <1>5, <2>1, HandlersWalk
<1>6. ASSUME NEW t \in Threads, NEW throws \in BOOLEAN, HandlerEnds(t, throws) PROVE WorkInv'
  <2>1. /\ pc[t] = "handler" /\ outstanding_work_' = outstanding_work_ - 1 /\ UNCHANGED <<issued, seen>>
    BY <1>6 DEF HandlerEnds, ops
  <2>2. \E p \in {"idle", "top", "stop"}, r \in {"idle", "top"} :
           pc' = [pc EXCEPT ![t] = p] /\ ret' = [ret EXCEPT ![t] = r]
    <3>1. ret[t] = "idle" /\ ret = [ret EXCEPT ![t] = "idle"]
      BY <2>1 DEF ThreadsKnown, Stopping, TypeThreads
    <3> QED BY <1>6, <3>1 DEF HandlerEnds, CallStop, OnTo, AfterOne, Goto
  <2>3. Handlers' = Handlers \ {t} /\ t \in Handlers
    BY <2>1, <2>2 DEF Handlers, Handling, TypeThreads
  <2>4. IsFiniteSet(Handlers') /\ Cardinality(Handlers') = Cardinality(Handlers) - 1
    BY <1>1, <2>3, FS_RemoveElement
  <2> QED BY <1>1, <1>3, <2>1, <2>4 DEF WorkInv
<1>7. ASSUME NEW t \in Threads, Get(t) \/ Dispatch(t) PROVE WorkInv'
  <2>1. UNCHANGED <<issued, seen, outstanding_work_, ret>>
    BY <1>7 DEF Get, Dispatch, control, ops
  <2>2. pc[t] # "handler" /\ \E p \in {"stop_seen", "top", "got", "get"} : pc' = [pc EXCEPT ![t] = p]
    BY <1>7 DEF Get, Dispatch, Goto
  <2>3. Handlers' = Handlers
    BY <2>1, <2>2 DEF Handlers, Handling, TypeThreads
  <2> QED BY <1>2, <1>3, <2>1, <2>3
<1>8. ASSUME NEW t \in Threads, Claim(t) PROVE WorkInv'
  <2>1. PICK x : x = cur[t].op
    OBVIOUS
  <2>2. pc[t] = "got" /\ cur[t] \in OpPacket /\ x \in Ops /\ InHand(x) /\ OnItsWay(cur[t]) /\ ret[t] = "idle"
    BY <1>8, <2>1, PacketFacts DEF Claim, ThreadsKnown, InHand, Taken, OnItsWay, Stopping
  <2>3. Live(x)
    BY <2>2 DEF HomeInv, OneHome
  <2>4. Saved(t)[x] # "none"
    <3>1. Saved(t)[x] = Carried(cur[t])
      BY <2>1, <2>2 DEF Saved, Carried, TypeOps
    <3>2. Carried(cur[t]) # "none"
      BY <2>1, <2>2 DEF CarriedInv, CarriedAt
    <3> QED BY <3>1, <3>2
  <2>5. \/ pc' = [pc EXCEPT ![t] = "handler"] /\ seen' = [seen EXCEPT ![x] = Saved(t)[x]]
        \/ pc' = [pc EXCEPT ![t] = "top"] /\ seen' = seen
    BY <1>8, <2>1, Zenon DEF Claim, Goto
  <2>6. UNCHANGED <<issued, outstanding_work_, ret>>
    BY <1>8 DEF Claim, control
  <2>7. CASE pc' = [pc EXCEPT ![t] = "handler"] /\ seen' = [seen EXCEPT ![x] = Saved(t)[x]]
    <3>1. LiveOps' = LiveOps \ {x} /\ x \in LiveOps
      BY <2>2, <2>3, <2>4, <2>6, <2>7 DEF LiveOps, Live, TypeOps
    <3>2. Handlers' = Handlers \cup {t} /\ t \notin Handlers
      BY <2>2, <2>6, <2>7 DEF Handlers, Handling, TypeThreads
    <3>3. Cardinality(LiveOps') = Cardinality(LiveOps) - 1
      BY <1>1, <3>1, FS_RemoveElement
    <3>4. IsFiniteSet(Handlers') /\ Cardinality(Handlers') = Cardinality(Handlers) + 1
      BY <1>1, <3>2, FS_AddElement
    <3> QED BY <1>1, <2>6, <3>3, <3>4 DEF WorkInv
  <2>8. CASE pc' = [pc EXCEPT ![t] = "top"] /\ seen' = seen
    <3>1. Handlers' = Handlers
      BY <2>2, <2>6, <2>8 DEF Handlers, Handling, TypeThreads
    <3> QED BY <1>2, <1>3, <2>6, <2>8, <3>1
  <2> QED BY <2>5, <2>7, <2>8
<1>9. ASSUME NEW t \in Threads, NEW o \in Ops, PostImmediate(t, o) \/ StartIo(t, o) \/ ScheduleTimer(t, o)
      PROVE  WorkInv'
  <2>1. /\ issued' = o /\ o = issued + 1 /\ seen' = seen /\ UNCHANGED threads
        /\ outstanding_work_' = outstanding_work_ + 1
    BY <1>9 DEF PostImmediate, StartIo, ScheduleTimer, Issue, WorkStarted
  <2>2. seen[o] = "none" /\ ~(o <= issued)
    <3>1. ~(o <= issued)
      BY <1>1, <2>1
    <3> QED BY <3>1 DEF HomeInv, CallKnown
  <2>3. LiveOps' = LiveOps \cup {o} /\ o \notin LiveOps
    <3>1. \A x \in Ops : (x <= issued)' <=> x <= issued \/ x = o
      BY <1>1, <2>1 DEF Ops
    <3> QED BY <2>1, <2>2, <3>1 DEF LiveOps, Live
  <2>4. Cardinality(LiveOps') = Cardinality(LiveOps) + 1
    BY <1>1, <2>3, FS_AddElement
  <2> QED BY <1>1, <1>4, <2>1, <2>4 DEF WorkInv
<1>10. ASSUME NEW t \in Threads, NEW o \in Ops, CancelTimer(t, o) PROVE WorkInv'
  BY <1>2, <1>3, <1>4, <1>10 DEF CancelTimer, control
<1>11. ASSUME NEW o \in Ops, DeviceCompletes(o) \/ OnPending(o) \/ OnCompletion(o) \/ TimerDue(o) PROVE WorkInv'
  BY <1>2, <1>3, <1>4, <1>11 DEF DeviceCompletes, OnPending, OnCompletion, TimerDue, control, ops
<1>12. CASE TimerThread \/ Restart \/ Shutdown \/ UNCHANGED vars
  BY <1>2, <1>3, <1>4, <1>12 DEF TimerThread, TimerThreadRequires, TimerThreadPosts, Restart, Shutdown, vars,
     control, ops
<1>13. CASE ShutdownLoop
  <2>1. UNCHANGED threads /\ issued' = issued
    BY <1>13 DEF ShutdownLoop
  <2>2. \A o \in Held : o \in Ops /\ Live(o)
    BY DEF Held, HomeInv, OneHome, TypeTiming, PutAside
  <2>3. ASSUME port # <<>> PROVE \A o \in {Head(port).op} \ {NoOp} : o \in Ops /\ Live(o)
    <3>1. Has(OpsOf(port), Head(port).op) /\ Head(port) \in AnyPacket
      BY <2>3, OnePacketLess DEF TypeQueues
    <3>2. Head(port).op # NoOp => Head(port).op \in Ops
      BY <3>1, AnyFacts, PacketFacts
    <3> QED BY <3>1, <3>2 DEF HomeInv, OneHome, InPort
  <2>4. PICK os : Destroyable(os) /\ \A o \in os : Live(o)
    BY <1>13, <2>2, <2>3, LoopDestroys
  <2>5. os \subseteq LiveOps /\ LiveOps' = LiveOps \ os
    BY <2>1, <2>4 DEF Destroyable, LiveOps, Live
  <2> QED BY <1>1, <1>4, <2>1, <2>4, <2>5, WorkGone DEF Destroyable
<1> QED BY <1>5, <1>6, <1>7, <1>8, <1>9, <1>10, <1>11, <1>12, <1>13
       DEF Next, Step, Program, System, Walks

-----------------------------------------------------------------------------
(* The one stop event, and who has been asked to dispatch.                 *)

Token(t) == pc[t] \in {"stop_post", "stop_seen"}
Minding(t) == pc[t] \in {"stop_event", "stop_check"}
StopHere == Has(port, StopPacket)

\* The stop event is in the port or in the hand of a thread, once, and its flag says so;
\* of a stopped context it is somewhere, or a thread will see to it.
StopInv ==
    /\ AtMostOnce(port, StopPacket)
    /\ \A t \in Threads : Token(t) => /\ stop_event_posted_ /\ ~StopHere
                                      /\ \A u \in Threads : Token(u) => u = t
    /\ StopHere => stop_event_posted_
    /\ fails = 0 /\ stop_event_posted_ /\ ~shutdown_ => StopHere \/ \E t \in Threads : Token(t)
    /\ stopped_ => stop_event_posted_ \/ \E t \in Threads : Minding(t)

\* A timer that waits has the waitable timer set for it, until somebody is asked.
AskedInv ==
    /\ completed_ops_ # <<>> => dispatch_required_ \/ shutdown_ \/ \E t \in Threads : pc[t] = "dispatch"
    /\ timers # {} => \/ dispatch_required_ \/ shutdown_ \/ waitable_timer_ = "set"
                      \/ \E t \in Threads : pc[t] = "dispatch"

StopQuiet ==
    /\ stop_event_posted_' = stop_event_posted_ /\ (stopped_' => stopped_) /\ (shutdown_ => shutdown_')
    /\ fails' = 0 => fails = 0
    /\ StopHere' <=> StopHere
    /\ AtMostOnce(port, StopPacket) => AtMostOnce(port', StopPacket)
    /\ \A t \in Threads : (Token(t)' <=> Token(t)) /\ (Minding(t) => Minding(t)')

LEMMA StopKept == ASSUME StopInv, StopQuiet PROVE StopInv'
BY DEF StopInv, StopQuiet

AskedQuiet ==
    /\ completed_ops_' # <<>> => completed_ops_ # <<>> \/ dispatch_required_'
    /\ timers' # {} => timers # {} \/ waitable_timer_' = "set"
    /\ dispatch_required_ => dispatch_required_'
    /\ shutdown_ => shutdown_'
    /\ waitable_timer_ = "set" => waitable_timer_' = "set" \/ dispatch_required_'
    /\ \A t \in Threads : pc[t] = "dispatch" => pc'[t] = "dispatch"

LEMMA AskedKept == ASSUME AskedInv, AskedQuiet PROVE AskedInv'
BY DEF AskedInv, AskedQuiet

\* A thread moves between places that have nothing to do with the stop event.
LEMMA Aside ==
  ASSUME TypeThreads, NEW t \in Threads, NEW p, p \notin {"stop_post", "stop_seen"},
         pc' = [pc EXCEPT ![t] = p], ~Token(t), ~Minding(t)
  PROVE  \A u \in Threads : (Token(u)' <=> Token(u)) /\ (Minding(u) => Minding(u)')
BY DEF TypeThreads, Token, Minding

\* Whatever else the port gets, the stop event is not in it.
LEMMA PortStop ==
  ASSUME TypeQueues, TypeOps
  PROVE  /\ \A p \in AnyPacket : p # StopPacket /\ port' = Append(port, p)
               => /\ StopHere' <=> StopHere
                  /\ AtMostOnce(port, StopPacket) => AtMostOnce(port', StopPacket)
         /\ \A ps \in Seq(OpPacket) : \A left \in Seq(Ops) : Post(ps, left)
               => /\ StopHere' <=> StopHere
                  /\ AtMostOnce(port, StopPacket) => AtMostOnce(port', StopPacket)
<1>1. port \in Seq(AnyPacket) /\ StopPacket \in AnyPacket
  BY PacketFacts DEF TypeQueues
<1>2. ASSUME NEW p \in AnyPacket, p # StopPacket, port' = Append(port, p)
      PROVE  /\ StopHere' <=> StopHere
             /\ AtMostOnce(port, StopPacket) => AtMostOnce(port', StopPacket)
  <2>1. \A q \in Seq(AnyPacket) :
          /\ Has(Append(q, p), StopPacket) <=> Has(q, StopPacket) \/ StopPacket = p
          /\ AtMostOnce(q, StopPacket) /\ (StopPacket = p => ~Has(q, StopPacket))
               => AtMostOnce(Append(q, p), StopPacket)
    BY OneMorePacket
  <2> QED BY <1>1, <1>2, <2>1 DEF StopHere
<1>3. ASSUME NEW ps \in Seq(OpPacket), NEW left \in Seq(Ops), Post(ps, left)
      PROVE  /\ StopHere' <=> StopHere
             /\ AtMostOnce(port, StopPacket) => AtMostOnce(port', StopPacket)
  <2>1. PostedOf(ps, left)
    BY <1>3, PostFacts
  <2>2. ~Has(ps, StopPacket)
    BY <1>3, PacketFacts DEF Has
  <2> QED BY <1>1, <2>1, <2>2 DEF PostedOf, StopHere
<1> QED BY <1>2, <1>3

\* stop() and the threads that the stop event passes through.
LEMMA StopSteps ==
  ASSUME TypeInv, StopInv, AskedInv, NEW t \in Threads,
         StopFlag(t) \/ StopEvent(t) \/ StopPost(t) \/ StopSeen(t) \/ StopCheck(t)
  PROVE  StopInv' /\ AskedInv'
<1> USE DEF TypeInv
<1>1. /\ UNCHANGED <<timing, completed_ops_, dispatch_required_, shutdown_>>
      /\ \A u \in Threads : pc[u] = "dispatch" => pc'[u] = "dispatch"
  <2>0. Moved(t)
    BY WalkMoves DEF Walks
  <2>1. pc[t] # "dispatch" /\ \A u \in Threads \ {t} : pc'[u] = pc[u]
    BY <2>0 DEF StopFlag, StopEvent, StopPost, StopSeen, StopCheck, Moved, TypeThreads
  <2> QED BY <2>1 DEF StopFlag, StopEvent, StopPost, StopSeen, StopCheck, control, queues
<1>2. AskedInv'
  BY <1>1, AskedKept DEF AskedQuiet, timing
<1>3. ret[t] \in {"idle", "top", "handler"}
  BY DEF TypeThreads
<1>4. CASE StopFlag(t)
  <2>1. /\ pc[t] = "stop" /\ UNCHANGED <<stop_event_posted_, port, fails>>
        /\ \/ stopped_ /\ pc' = [pc EXCEPT ![t] = ret[t]]
           \/ pc' = [pc EXCEPT ![t] = "stop_event"]
    BY <1>4 DEF StopFlag, Return, OnTo, Goto, queues
  <2>2. CASE stopped_ /\ pc' = [pc EXCEPT ![t] = ret[t]]
    <3>1. \A u \in Threads : (Token(u)' <=> Token(u)) /\ (Minding(u) => Minding(u)')
      BY <1>3, <2>1, <2>2, Aside DEF Token, Minding
    <3> QED BY <1>1, <1>2, <2>1, <2>2, <3>1, StopKept DEF StopQuiet, StopHere
  <2>3. CASE pc' = [pc EXCEPT ![t] = "stop_event"]
    <3>1. \A u \in Threads : (Token(u)' <=> Token(u)) /\ (Minding(u) => Minding(u)')
      BY <2>1, <2>3, Aside DEF Token, Minding
    <3>2. Minding(t)'
      BY <2>3 DEF Minding, TypeThreads
    <3> QED BY <1>1, <1>2, <2>1, <3>1, <3>2 DEF StopInv, StopHere
  <2> QED BY <2>1, <2>2, <2>3
<1>5. CASE StopEvent(t)
  <2>1. /\ pc[t] = "stop_event" /\ UNCHANGED <<stopped_, port, fails>> /\ stop_event_posted_' = TRUE
        /\ \/ stop_event_posted_ /\ pc' = [pc EXCEPT ![t] = ret[t]]
           \/ ~stop_event_posted_ /\ pc' = [pc EXCEPT ![t] = "stop_post"]
    BY <1>5 DEF StopEvent, Return, OnTo, Goto, queues
  <2>2. CASE stop_event_posted_ /\ pc' = [pc EXCEPT ![t] = ret[t]]
    <3>1. \A u \in Threads : Token(u)' <=> Token(u)
      BY <1>3, <2>1, <2>2 DEF Token, TypeThreads
    <3> QED BY <1>1, <1>2, <2>1, <2>2, <3>1 DEF StopInv, StopHere
  <2>3. CASE ~stop_event_posted_ /\ pc' = [pc EXCEPT ![t] = "stop_post"]
    <3>1. \A u \in Threads : Token(u)' <=> u = t
      BY <2>3 DEF Token, TypeThreads, StopInv
    <3>2. ~StopHere' /\ AtMostOnce(port', StopPacket)
      BY <2>1, <2>3 DEF StopInv, StopHere
    <3> QED BY <1>2, <2>1, <3>1, <3>2 DEF StopInv
  <2> QED BY <2>1, <2>2, <2>3
<1>6. CASE StopPost(t)
  <2>1. /\ pc[t] = "stop_post" /\ UNCHANGED <<stopped_, stop_event_posted_>>
        /\ \E p \in {"idle", "top", "handler"} : pc' = [pc EXCEPT ![t] = p]
        /\ \/ port' = Append(port, StopPacket) /\ fails' = fails
           \/ port' = port /\ fails' = fails + 1
    BY <1>3, <1>6 DEF StopPost, Return, Goto, Fail, control
  <2>2. /\ Token(t) /\ stop_event_posted_ /\ ~StopHere
        /\ \A u \in Threads : ~Token(u)' /\ (Minding(u)' <=> Minding(u))
    BY <2>1 DEF Token, Minding, TypeThreads, StopInv
  <2>3. CASE port' = Append(port, StopPacket) /\ fails' = fails
    <3>1. \A q \in Seq(AnyPacket) :
            /\ Has(Append(q, StopPacket), StopPacket)
            /\ AtMostOnce(q, StopPacket) /\ ~Has(q, StopPacket) => AtMostOnce(Append(q, StopPacket), StopPacket)
      BY OneMorePacket, PacketFacts
    <3>2. StopHere' /\ AtMostOnce(port', StopPacket)
      BY <2>2, <2>3, <3>1 DEF StopInv, StopHere, TypeQueues
    <3> QED BY <1>1, <1>2, <2>1, <2>2, <3>2 DEF StopInv
  <2>4. CASE port' = port /\ fails' = fails + 1
    <3>1. fails' # 0
      BY <2>4 DEF TypeQueues
    <3> QED BY <1>1, <1>2, <2>1, <2>2, <2>4, <3>1 DEF StopInv, StopHere
  <2> QED BY <2>1, <2>3, <2>4
<1>7. CASE StopSeen(t)
  <2>1. /\ pc[t] = "stop_seen" /\ UNCHANGED <<stopped_, port, fails>> /\ stop_event_posted_' = FALSE
        /\ pc' = [pc EXCEPT ![t] = "stop_check"]
    BY <1>7 DEF StopSeen, Goto, queues
  <2>2. /\ ~StopHere' /\ AtMostOnce(port', StopPacket) /\ Minding(t)'
        /\ \A u \in Threads : ~Token(u)'
    BY <2>1 DEF Token, Minding, TypeThreads, StopInv, StopHere
  <2> QED BY <1>2, <2>1, <2>2 DEF StopInv
<1>8. CASE StopCheck(t)
  <2>1. /\ pc[t] = "stop_check" /\ UNCHANGED <<stopped_, stop_event_posted_, port, fails>>
        /\ \/ stopped_ /\ pc' = [pc EXCEPT ![t] = "stop_event"]
           \/ ~stopped_ /\ pc' = [pc EXCEPT ![t] = "top"]
    BY <1>8 DEF StopCheck, PassOn, OnTo, Goto, control, queues
  <2>2. \A u \in Threads : Token(u)' <=> Token(u)
    BY <2>1 DEF Token, TypeThreads
  <2>3. stopped_ => Minding(t)'
    BY <2>1 DEF Minding, TypeThreads
  <2> QED BY <1>1, <1>2, <2>1, <2>2, <2>3 DEF StopInv, StopHere
<1> QED BY <1>4, <1>5, <1>6, <1>7, <1>8

LEMMA StillPlaces ==
  ASSUME UNCHANGED threads
  PROVE  \A t \in Threads : /\ (Token(t)' <=> Token(t)) /\ (Minding(t) => Minding(t)')
                            /\ pc[t] = "dispatch" => pc'[t] = "dispatch"
BY DEF threads, Token, Minding

\* The other steps of a thread.
LEMMA WalkSteps ==
  ASSUME TypeInv, StopInv, AskedInv, NEW t \in Threads,
         Top(t) \/ GetNothing(t) \/ (\E throws \in BOOLEAN : HandlerEnds(t, throws)) \/ Stop(t)
         \/ (\E m \in Modes : Enter(t, m))
  PROVE  StopInv' /\ AskedInv'
<1> USE DEF TypeInv
<1>1. /\ UNCHANGED <<timers, waitable_timer_, completed_ops_, shutdown_, stopped_, stop_event_posted_, port, fails>>
  BY DEF Top, GetNothing, HandlerEnds, Stop, Enter, control, queues, timing
<1>2. pc[t] \in {"top", "get", "handler", "idle"}
  BY DEF Top, GetNothing, HandlerEnds, Stop, Enter, MayCall
<1>3. PICK p \in {"dispatch", "get", "top", "idle", "stop"} : pc' = [pc EXCEPT ![t] = p]
  <2>1. CASE Top(t)
    BY <2>1 DEF Top, Goto
  <2>2. CASE GetNothing(t)
    BY <2>2 DEF GetNothing, Goto
  <2>3. ASSUME NEW throws \in BOOLEAN, HandlerEnds(t, throws)
        PROVE  \E p \in {"dispatch", "get", "top", "idle", "stop"} : pc' = [pc EXCEPT ![t] = p]
    BY <2>3 DEF HandlerEnds, CallStop, OnTo, AfterOne, Goto
  <2>4. CASE Stop(t)
    BY <2>4 DEF Stop, CallStop, Goto
  <2>5. ASSUME NEW m \in Modes, Enter(t, m)
        PROVE  \E p \in {"dispatch", "get", "top", "idle", "stop"} : pc' = [pc EXCEPT ![t] = p]
    BY <2>5 DEF Enter
  <2> QED BY <2>1, <2>2, <2>3, <2>4, <2>5
<1>4. \A u \in Threads : (Token(u)' <=> Token(u)) /\ (Minding(u) => Minding(u)')
  BY <1>2, <1>3, Aside DEF Token, Minding
<1>5. StopInv'
  BY <1>1, <1>4, StopKept DEF StopQuiet, StopHere
<1>6. \A u \in Threads : pc[u] = "dispatch" => pc'[u] = "dispatch"
  BY <1>2, <1>3 DEF TypeThreads
<1>7. CASE Top(t) /\ dispatch_required_
  <2>1. pc'[t] = "dispatch"
    BY <1>7 DEF Top, Goto, TypeThreads
  <2> QED BY <1>5, <2>1 DEF AskedInv
<1>8. CASE ~(Top(t) /\ dispatch_required_)
  <2>1. dispatch_required_ => dispatch_required_'
    BY <1>8 DEF GetNothing, HandlerEnds, Stop, Enter, queues
  <2>2. AskedQuiet
    BY <1>1, <1>6, <2>1 DEF AskedQuiet
  <2> QED BY <1>5, <2>2, AskedKept
<1> QED BY <1>7, <1>8

LEMMA HandSteps ==
  ASSUME TypeInv, StopInv, AskedInv, NEW t \in Threads, Get(t) \/ Claim(t) \/ Dispatch(t)
  PROVE  StopInv' /\ AskedInv'
<1> USE DEF TypeInv
<1>1. UNCHANGED <<stopped_, stop_event_posted_, shutdown_>>
  BY DEF Get, Claim, Dispatch, control
<1>2. CASE Get(t)
  <2>1. /\ pc[t] = "get" /\ port # <<>> /\ port' = Tail(port)
        /\ UNCHANGED <<timers, waitable_timer_, completed_ops_, dispatch_required_, fails>>
        /\ \/ Head(port) = StopPacket /\ pc' = [pc EXCEPT ![t] = "stop_seen"]
           \/ Head(port) # StopPacket /\ \E p \in {"top", "got"} : pc' = [pc EXCEPT ![t] = p]
    <3>1. \/ Head(port) = StopPacket /\ pc' = [pc EXCEPT ![t] = "stop_seen"]
          \/ Head(port) = WakePacket /\ pc' = [pc EXCEPT ![t] = "top"]
          \/ Head(port).op \in Ops /\ pc' = [pc EXCEPT ![t] = "got"]
      BY <1>2 DEF Get, Goto
    <3>2. WakePacket # StopPacket /\ (Head(port).op \in Ops => Head(port) # StopPacket)
      BY PacketFacts
    <3> QED BY <1>2, <3>1, <3>2 DEF Get, timing
  <2>2. AskedInv'
    <3>1. \A u \in Threads : pc[u] = "dispatch" => pc'[u] = "dispatch"
      BY <2>1 DEF TypeThreads
    <3> QED BY <1>1, <2>1, <3>1, AskedKept DEF AskedQuiet
  <2>3. /\ StopHere' => StopHere
        /\ StopHere => StopHere' \/ Head(port) = StopPacket
        /\ AtMostOnce(port, StopPacket) => AtMostOnce(port', StopPacket)
        /\ AtMostOnce(port, StopPacket) /\ Head(port) = StopPacket => ~StopHere'
        /\ Has(port, Head(port))
    BY <2>1, OnePacketLess DEF StopHere, TypeQueues
  <2>4. CASE Head(port) = StopPacket /\ pc' = [pc EXCEPT ![t] = "stop_seen"]
    <3>1. StopHere /\ stop_event_posted_ /\ ~StopHere' /\ AtMostOnce(port', StopPacket)
      BY <2>3, <2>4 DEF StopHere, StopInv
    <3>2. \A u \in Threads : (Token(u)' <=> u = t) /\ (Minding(u)' <=> Minding(u))
      BY <2>1, <2>4, <3>1 DEF StopInv, Token, Minding, TypeThreads
    <3> QED BY <1>1, <2>1, <2>2, <3>1, <3>2 DEF StopInv
  <2>5. ASSUME Head(port) # StopPacket, NEW p \in {"top", "got"}, pc' = [pc EXCEPT ![t] = p] PROVE StopInv'
    <3>1. \A u \in Threads : (Token(u)' <=> Token(u)) /\ (Minding(u) => Minding(u)')
      BY <2>1, <2>5, Aside DEF Token, Minding
    <3> QED BY <1>1, <2>1, <2>3, <2>5, <3>1, StopKept DEF StopQuiet
  <2> QED BY <2>1, <2>2, <2>4, <2>5
<1>3. CASE Claim(t)
  <2>1. UNCHANGED queues /\ UNCHANGED timing /\ pc[t] = "got"
        /\ \E p \in {"handler", "top"} : pc' = [pc EXCEPT ![t] = p]
    BY <1>3, Zenon DEF Claim, Goto
  <2>2. /\ \A u \in Threads : (Token(u)' <=> Token(u)) /\ (Minding(u) => Minding(u)')
        /\ \A u \in Threads : pc[u] = "dispatch" => pc'[u] = "dispatch"
    BY <2>1 DEF TypeThreads, Token, Minding
  <2>3. StopQuiet /\ AskedQuiet
    BY <1>1, <2>1, <2>2 DEF StopQuiet, AskedQuiet, queues, timing, StopHere
  <2> QED BY <2>3, StopKept, AskedKept
<1>4. CASE Dispatch(t)
  <2>1. PICK q : DispatchedList(q)
    BY <1>4, DispatchPosts
  <2>2. PICK ps \in Seq(OpPacket) : Post(ps, <<>>) /\ PostedOf(ps, <<>>)
    <3>1. <<>> \in Seq(Ops) /\ Posted(q) \in Seq(OpPacket) /\ Post(Posted(q), <<>>)
      BY <2>1, PostedFacts DEF DispatchedList
    <3> QED BY <3>1, PostFacts
  <2>3. <<>> \in Seq(Ops)
    OBVIOUS
  <2>4. (StopHere' <=> StopHere) /\ (AtMostOnce(port, StopPacket) => AtMostOnce(port', StopPacket))
    BY <2>2, <2>3, PortStop
  <2>5. pc[t] = "dispatch" /\ pc' = [pc EXCEPT ![t] = "get"]
        /\ (timers' # {} => waitable_timer_' = "set")
    BY <1>4 DEF Dispatch, Goto
  <2>6. \A u \in Threads : (Token(u)' <=> Token(u)) /\ (Minding(u) => Minding(u)')
    BY <2>5, Aside DEF Token, Minding
  <2>7. /\ fails' = 0 => fails = 0
        /\ completed_ops_' # <<>> => dispatch_required_'
    BY <2>2 DEF PostedOf
  <2>8. StopInv'
    BY <1>1, <2>4, <2>6, <2>7, StopKept DEF StopQuiet
  <2>9. AskedInv'
    BY <2>5, <2>7 DEF AskedInv
  <2> QED BY <2>8, <2>9
<1> QED BY <1>2, <1>3, <1>4

\* The program, the system and the timer thread: the threads stay where they are.
LEMMA RestSteps ==
  ASSUME TypeInv, StopInv, AskedInv,
         \/ \E t \in Threads, o \in Ops :
               PostImmediate(t, o) \/ StartIo(t, o) \/ ScheduleTimer(t, o) \/ CancelTimer(t, o)
         \/ System \/ TimerThread \/ Restart \/ Shutdown \/ ShutdownLoop \/ UNCHANGED vars
  PROVE  StopInv' /\ AskedInv'
<1> USE DEF TypeInv
<1>1. UNCHANGED threads
  BY DEF PostImmediate, StartIo, ScheduleTimer, CancelTimer, System, DeviceCompletes, OnPending, OnCompletion,
     TimerDue, TimerThread, TimerThreadRequires, TimerThreadPosts, Restart, Shutdown, ShutdownLoop, vars
<1>2. /\ stop_event_posted_' = stop_event_posted_ /\ (stopped_' => stopped_) /\ (shutdown_ => shutdown_')
  <2>1. CASE Restart \/ Shutdown \/ ShutdownLoop
    BY <2>1 DEF Restart, Shutdown, ShutdownLoop
  <2>2. CASE UNCHANGED <<stopped_, stop_event_posted_, shutdown_>>
    BY <2>2
  <2>3. System \/ TimerThread \/ UNCHANGED vars => UNCHANGED <<stopped_, stop_event_posted_, shutdown_>>
    BY DEF System, DeviceCompletes, OnPending, OnCompletion, TimerDue, TimerThread, TimerThreadRequires,
       TimerThreadPosts, vars, control
  <2>4. ASSUME NEW t \in Threads, NEW o \in Ops,
               PostImmediate(t, o) \/ StartIo(t, o) \/ ScheduleTimer(t, o) \/ CancelTimer(t, o)
        PROVE  UNCHANGED <<stopped_, stop_event_posted_, shutdown_>>
    BY <2>4 DEF PostImmediate, StartIo, ScheduleTimer, CancelTimer, control
  <2> QED BY <2>1, <2>2, <2>3, <2>4
<1>3. ASSUME fails' = 0 => fails = 0, StopHere' <=> StopHere,
             AtMostOnce(port, StopPacket) => AtMostOnce(port', StopPacket)
      PROVE  StopInv'
  BY <1>1, <1>2, <1>3, StillPlaces, StopKept DEF StopQuiet
<1>4. ASSUME NEW p \in OpPacket, Post(<<p>>, completed_ops_),
             timers' \subseteq timers, waitable_timer_' = waitable_timer_
      PROVE  StopInv' /\ AskedInv'
  <2>1. <<p>> \in Seq(OpPacket) /\ completed_ops_ \in Seq(Ops)
    BY DEF TypeQueues
  <2>2. (StopHere' <=> StopHere) /\ (AtMostOnce(port, StopPacket) => AtMostOnce(port', StopPacket))
    BY <1>4, <2>1, PortStop
  <2>3. PostedOf(<<p>>, completed_ops_)
    BY <1>4, OnePosted
  <2>4. AskedQuiet
    BY <1>1, <1>2, <1>4, <2>3, StillPlaces DEF AskedQuiet, PostedOf
  <2> QED BY <1>3, <2>2, <2>3, <2>4, AskedKept DEF PostedOf
<1>5. ASSUME UNCHANGED <<port, completed_ops_>>, fails' = 0 => fails = 0,
             timers' # {} => timers # {} \/ waitable_timer_' = "set",
             waitable_timer_ = "set" => waitable_timer_' = "set" \/ dispatch_required_',
             dispatch_required_ => dispatch_required_'
      PROVE  StopInv' /\ AskedInv'
  <2>1. AskedQuiet
    BY <1>1, <1>2, <1>5, StillPlaces DEF AskedQuiet
  <2> QED BY <1>3, <1>5, <2>1, AskedKept DEF StopHere
<1>6. ASSUME NEW t \in Threads, NEW o \in Ops, PostImmediate(t, o) \/ CancelTimer(t, o)
      PROVE  StopInv' /\ AskedInv'
  <2>1. Post(<<Packet(o, "ok")>>, completed_ops_) /\ timers' \subseteq timers /\ waitable_timer_' = waitable_timer_
    BY <1>6 DEF PostImmediate, CancelTimer, timing
  <2> QED BY <1>4, <2>1, PacketFacts
<1>7. ASSUME NEW t \in Threads, NEW o \in Ops, StartIo(t, o) \/ ScheduleTimer(t, o)
      PROVE  StopInv' /\ AskedInv'
  BY <1>5, <1>7 DEF StartIo, ScheduleTimer, queues, timing
<1>8. ASSUME NEW o \in Ops, DeviceCompletes(o) PROVE StopInv' /\ AskedInv'
  <2>1. Packet(o, "io") \in AnyPacket /\ Packet(o, "io") # StopPacket
    BY PacketFacts
  <2>2. port' = Append(port, Packet(o, "io")) /\ UNCHANGED <<completed_ops_, dispatch_required_, fails>>
        /\ UNCHANGED timing
    BY <1>8 DEF DeviceCompletes
  <2>3. (StopHere' <=> StopHere) /\ (AtMostOnce(port, StopPacket) => AtMostOnce(port', StopPacket))
    BY <2>1, <2>2, PortStop
  <2>4. AskedQuiet
    BY <1>1, <1>2, <2>2, StillPlaces DEF AskedQuiet, timing
  <2> QED BY <1>3, <2>2, <2>3, <2>4, AskedKept
<1>9. ASSUME NEW o \in Ops, OnPending(o) \/ OnCompletion(o) \/ TimerDue(o) PROVE StopInv' /\ AskedInv'
  <2>1. timers' = timers /\ waitable_timer_' = waitable_timer_
    BY <1>9 DEF OnPending, OnCompletion, TimerDue, timing
  <2>2. Post(<<Packet(o, InOverlapped)>>, completed_ops_) \/ UNCHANGED queues
    BY <1>9 DEF OnPending, OnCompletion, TimerDue
  <2>3. CASE UNCHANGED queues
    BY <1>5, <2>1, <2>3 DEF queues
  <2> QED BY <1>4, <2>1, <2>2, <2>3, PacketFacts
<1>10. CASE TimerThreadRequires \/ Restart \/ Shutdown \/ UNCHANGED vars
  BY <1>5, <1>10 DEF TimerThreadRequires, Restart, Shutdown, vars, queues, timing
<1>11. CASE TimerThreadPosts
  <2>1. /\ \/ port' = Append(port, WakePacket) /\ fails' = fails
           \/ port' = port /\ fails' = fails + 1
        /\ UNCHANGED <<completed_ops_, dispatch_required_, timers, waitable_timer_>>
    BY <1>11 DEF TimerThreadPosts, Fail
  <2>2. (StopHere' <=> StopHere) /\ (AtMostOnce(port, StopPacket) => AtMostOnce(port', StopPacket))
    <3>1. WakePacket \in AnyPacket /\ WakePacket # StopPacket
      BY PacketFacts
    <3>2. CASE port' = Append(port, WakePacket)
      BY <3>1, <3>2, PortStop
    <3>3. CASE port' = port
      BY <3>3 DEF StopHere
    <3> QED BY <2>1, <3>2, <3>3
  <2>3. fails' = 0 => fails = 0
    BY <2>1 DEF TypeQueues
  <2>4. AskedQuiet
    BY <1>1, <1>2, <2>1, StillPlaces DEF AskedQuiet
  <2> QED BY <1>3, <2>2, <2>3, <2>4, AskedKept
<1>12. CASE ShutdownLoop
  <2>1. shutdown_' /\ UNCHANGED <<stopped_, stop_event_posted_, fails>> /\ \A t \in Threads : ~Token(t) /\ ~Token(t)'
    BY <1>1, <1>12 DEF ShutdownLoop, ThreadsKnown, Token, threads
  <2>2. /\ StopHere' => StopHere
        /\ AtMostOnce(port, StopPacket) => AtMostOnce(port', StopPacket)
    <3>1. port' = port \/ (port # <<>> /\ port' = Tail(port))
      BY <1>12, LoopDestroys
    <3>2. \A q \in Seq(AnyPacket) : q # <<>> =>
             /\ Has(Tail(q), StopPacket) => Has(q, StopPacket)
             /\ AtMostOnce(q, StopPacket) => AtMostOnce(Tail(q), StopPacket)
      BY OnePacketLess
    <3> QED BY <3>1, <3>2 DEF StopHere, TypeQueues
  <2>3. StopInv'
    BY <1>1, <2>1, <2>2, StillPlaces DEF StopInv
  <2>4. AskedInv'
    BY <2>1 DEF AskedInv
  <2> QED BY <2>3, <2>4
<1> QED BY <1>6, <1>7, <1>8, <1>9, <1>10, <1>11, <1>12 DEF System, TimerThread

LEMMA StrandStep ==
  ASSUME TypeInv, StopInv, AskedInv, [Next]_vars
  PROVE  StopInv' /\ AskedInv'
<1>1. ASSUME NEW t \in Threads, Step(t) \/ Stop(t) \/ (\E m \in Modes : Enter(t, m))
      PROVE  StopInv' /\ AskedInv'
  BY <1>1, StopSteps, WalkSteps, HandSteps DEF Step
<1> QED BY <1>1, RestSteps DEF Next, Program

-----------------------------------------------------------------------------
(* Together.                                                               *)

IInv == TypeInv /\ HomeInv /\ ResultInv /\ WorkInv /\ StopInv /\ AskedInv

LEMMA IocpInit == ASSUME Init PROVE IInv
<1>1. /\ port = <<>> /\ completed_ops_ = <<>> /\ timers = {} /\ issued = 0 /\ outstanding_work_ = 0
      /\ stop_event_posted_ = FALSE /\ stopped_ = FALSE
      /\ \A o \in Ops : /\ ready_[o] = FALSE /\ call[o] = "none" /\ device[o] = "none" /\ seen[o] = "none"
                        /\ ~(o <= issued)
      /\ \A t \in Threads : pc[t] = "idle" /\ ret[t] = "idle"
  BY DEF Init, Ops
<1>2. TypeInv
  BY TypeInit
<1>3. /\ \A o : ~InPort(o) /\ AtMostOnce(OpsOf(port), o) /\ ~PutAside(o) /\ AtMostOnce(completed_ops_, o)
      /\ \A p : ~Has(port, p) /\ AtMostOnce(port, p)
  <2>1. OpsOf(port) = <<>>
    BY <1>1 DEF OpsOf
  <2> QED BY <1>1, <2>1, NoneHas DEF InPort, PutAside
<1>4. \A o \in Ops : ~Busy(o) /\ ~Waiting(o) /\ ~InHand(o) /\ ~Live(o)
                     /\ \A t \in Threads : ~Taken(t, o)
  BY <1>1 DEF Busy, Waiting, InHand, Taken, Live
<1>5. HomeInv
  <2> SUFFICES ASSUME NEW o \in Ops PROVE OneHome(o) /\ CallKnown(o)
    BY DEF HomeInv
  <2>1. call[o] \notin Threads
    BY <1>1
  <2> QED BY <1>1, <1>3, <1>4, <2>1 DEF OneHome, CallKnown
<1>6. ResultInv
  <2>1. \A p \in OpPacket : ~OnItsWay(p)
    BY <1>1, <1>3 DEF OnItsWay
  <2> QED BY <1>1, <1>4, <2>1 DEF ResultInv, CarriedInv, CarriedAt, OwnInv, OwnAt, Said
<1>7. WorkInv
  <2>1. LiveOps = {} /\ Handlers = {}
    BY <1>1, <1>4 DEF LiveOps, Handlers, Handling
  <2> QED BY <1>1, <2>1, FS_EmptySet DEF WorkInv
<1>8. StopInv /\ AskedInv
  BY <1>1, <1>3 DEF StopInv, AskedInv, Token, StopHere
<1> QED BY <1>2, <1>5, <1>6, <1>7, <1>8 DEF IInv

LEMMA IocpStep == ASSUME IInv, [Next]_vars PROVE IInv'
<1>1. TypeInv' /\ HomeInv' /\ ResultInv' /\ WorkInv' /\ StopInv' /\ AskedInv'
  BY TypeStep, HomeStep, ResultStep, WorkStep, StrandStep DEF IInv, ResultInv
<1> QED BY <1>1 DEF IInv

\* The places of the model, and the parts of HomeInv.
LEMMA PlaceFacts ==
  \A o : /\ \A p \in Places : Holds(p, o) =>
              \/ p = <<"port", NoOp>> /\ InPort(o)
              \/ p = <<"completed_ops", NoOp>> /\ PutAside(o)
              \/ p = <<"timers", NoOp>> /\ o \in timers
              \/ p = <<"device", NoOp>> /\ Busy(o)
              \/ p = <<"initiator", NoOp>> /\ Waiting(o)
              \/ \E t \in Threads : p = <<"thread", t>> /\ Taken(t, o)
         /\ InPort(o) \/ PutAside(o) \/ o \in timers \/ Busy(o) \/ Waiting(o) \/ InHand(o)
              => \E p \in Places : Holds(p, o)
<1> SUFFICES ASSUME NEW o
             PROVE  /\ \A p \in Places : Holds(p, o) =>
                         \/ p = <<"port", NoOp>> /\ InPort(o)
                         \/ p = <<"completed_ops", NoOp>> /\ PutAside(o)
                         \/ p = <<"timers", NoOp>> /\ o \in timers
                         \/ p = <<"device", NoOp>> /\ Busy(o)
                         \/ p = <<"initiator", NoOp>> /\ Waiting(o)
                         \/ \E t \in Threads : p = <<"thread", t>> /\ Taken(t, o)
                    /\ InPort(o) \/ PutAside(o) \/ o \in timers \/ Busy(o) \/ Waiting(o) \/ InHand(o)
                         => \E p \in Places : Holds(p, o)
  OBVIOUS
<1>1. \A p \in Places : \/ \E k \in {"port", "completed_ops", "timers", "device", "initiator"} : p = <<k, NoOp>>
                        \/ \E t \in Threads : p = <<"thread", t>>
  BY DEF Places
<1>2. /\ Holds(<<"port", NoOp>>, o) <=> InPort(o)
      /\ Holds(<<"completed_ops", NoOp>>, o) <=> PutAside(o)
      /\ Holds(<<"timers", NoOp>>, o) <=> o \in timers
      /\ Holds(<<"device", NoOp>>, o) <=> Busy(o)
      /\ Holds(<<"initiator", NoOp>>, o) <=> Waiting(o)
      /\ \A t : Holds(<<"thread", t>>, o) <=> Taken(t, o)
  BY DEF Holds, InPort, PutAside, Busy, Waiting, Taken
<1>3. /\ <<"port", NoOp>> \in Places /\ <<"completed_ops", NoOp>> \in Places /\ <<"timers", NoOp>> \in Places
      /\ <<"device", NoOp>> \in Places /\ <<"initiator", NoOp>> \in Places
      /\ \A t \in Threads : <<"thread", t>> \in Places
  BY DEF Places
<1>4. \A p \in Places : Holds(p, o) =>
         \/ p = <<"port", NoOp>> /\ InPort(o)
         \/ p = <<"completed_ops", NoOp>> /\ PutAside(o)
         \/ p = <<"timers", NoOp>> /\ o \in timers
         \/ p = <<"device", NoOp>> /\ Busy(o)
         \/ p = <<"initiator", NoOp>> /\ Waiting(o)
         \/ \E t \in Threads : p = <<"thread", t>> /\ Taken(t, o)
  BY <1>1, <1>2
<1>5. InPort(o) \/ PutAside(o) \/ o \in timers \/ Busy(o) \/ Waiting(o) \/ InHand(o)
        => \E p \in Places : Holds(p, o)
  BY <1>2, <1>3 DEF InHand
<1> QED BY <1>4, <1>5

LEMMA HomeOnce == ASSUME TypeInv, WorkInv, HomeInv PROVE OnePlace
<1>1. TypeOK
  <2>1. outstanding_work_ \in 0 .. MaxOps
    BY WorkFacts DEF WorkInv, TypeInv, TypeOps
  <2> QED BY <2>1 DEF TypeOK, TypeInv, TypeControl, TypeQueues, TypeOps, TypeTiming, AnyPacket, OpPacket
<1>2. ASSUME NEW o \in 1 .. issued
      PROVE  /\ AtMostOnce(OpsOf(port), o) /\ AtMostOnce(completed_ops_, o)
             /\ \A p, q \in Places : Holds(p, o) /\ Holds(q, o) => p = q
             /\ (\E p \in Places : Holds(p, o)) <=> seen[o] = "none"
  <2>1. o \in Ops /\ OneHome(o) /\ o <= issued
    BY DEF Ops, HomeInv, TypeInv, TypeOps
  <2>2. \A p, q \in Places : Holds(p, o) /\ Holds(q, o) => p = q
    <3> SUFFICES ASSUME NEW p \in Places, NEW q \in Places, Holds(p, o), Holds(q, o) PROVE p = q
      OBVIOUS
    <3> QED BY <2>1, PlaceFacts DEF OneHome, InHand
  <2>3. (\E p \in Places : Holds(p, o)) <=> seen[o] = "none"
    BY <2>1, PlaceFacts DEF OneHome, InHand, Live
  <2> QED BY <2>1, <2>2, <2>3 DEF OneHome
<1>3. \A o \in Ops : seen[o] # "none" => call[o] \notin Threads
  BY DEF HomeInv, CallKnown, Live
<1> QED BY <1>1, <1>2, <1>3 DEF OnePlace

LEMMA ResultsKept == ASSUME ResultInv PROVE ResultKept
BY DEF ResultInv, OwnInv, OwnAt, Said, ResultKept

LEMMA Invariant == Spec => []IInv
<1>1. Init => IInv
  BY IocpInit
<1>2. IInv /\ [Next]_vars => IInv'
  BY IocpStep
<1> QED BY <1>1, <1>2, PTL DEF Spec

\* However two threads come to ready_, posts fail and shutdown() cuts in: an operation is in
\* one place until it is dispatched or destroyed, its handler is given its own result, and
\* outstanding_work_ never falls below zero.
THEOREM OperationsAreDispatchedOnce == Spec => []DispatchedOnce
<1>1. IInv => DispatchedOnce
  BY HomeOnce, ResultsKept DEF IInv, DispatchedOnce
<1> QED BY <1>1, Invariant, PTL

\* With any number of threads, the one stop event is never left where nobody takes it while
\* a thread is inside, nor is an operation put aside that nobody has been asked to post.
THEOREM NothingIsStranded == Spec => []NothingStranded
<1>1. IInv => NothingStranded
  <2> SUFFICES ASSUME IInv PROVE StopInFlight /\ DispatchAsked
    BY DEF NothingStranded
  <2>1. StopInFlight
    <3>1. ASSUME fails = 0, stopped_, NEW t \in Threads, pc[t] \notin {"idle", "stop", "stop_event"}
          PROVE  \/ Has(port, StopPacket)
                 \/ \E u \in Threads : pc[u] \in {"stop_event", "stop_post", "stop_seen", "stop_check"}
      <4>1. ~shutdown_
        BY <3>1 DEF IInv, TypeInv, ThreadsKnown
      <4> QED BY <3>1, <4>1 DEF IInv, StopInv, StopHere, Token, Minding
    <3> QED BY <3>1 DEF StopInFlight, IInv, StopInv
  <2>2. DispatchAsked
    BY DEF DispatchAsked, IInv, AskedInv, TypeInv, TypeTiming
  <2> QED BY <2>1, <2>2
<1> QED BY <1>1, Invariant, PTL
=============================================================================
