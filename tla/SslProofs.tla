----------------------------- MODULE SslProofs -----------------------------
(***************************************************************************)
(* The operations of an ssl stream share one engine and one buffer per     *)
(* direction.  For any sizes of the buffers, any traffic, cancellations    *)
(* and failures, as long as no shutdown overtakes a read:                  *)
(*                                                                         *)
(* The input is used once and in order: what the engine has eaten and what *)
(* is in the buffer and in flight are one prefix of what the peer sent,    *)
(* every record reaches the program, and the end of the stream is reported *)
(* only behind the peer's notification.                                    *)
(*                                                                         *)
(* So is the output, whatever the peer asks: no unit that the engine makes *)
(* is lost, doubled or overtaken on its way to the wire.  The flag         *)
(* pending_write_ alone does not say so.  It is cleared under a writer by  *)
(* the handler of an operation that the end of the last write had let go   *)
(* and that was overtaken.  What keeps the writers apart then is that this *)
(* operation has nothing to write until the peer asks again; where it has, *)
(* the code does not keep the order, and the theorem ends there (Exposed). *)
(***************************************************************************)
EXTENDS SslStream, FiniteSetTheorems, FunctionTheorems, SequenceTheorems, WellFoundedInduction, TLAPS

PCs == {"idle", "reading", "writing", "wait_read", "wait_write", "posted"}
Wishes == {"input_and_retry", "output", "output_and_retry", "nothing"}
Errors == {"none", "eof", "ssl", "error", "aborted"}
Outcomes == Errors \cup {"nothing"}
Units == {"part", "data", "close", "ask", "hello"}
IoOp == [pc : PCs, want_ : Wishes, ec_ : Errors, bytes_transferred_ : 0 .. 1,
         cancelled : BOOLEAN, mark : Nat, size : Nat, moved : Nat]
Args == [n : 0 .. BufferSize, ec : Outcomes, timer : BOOLEAN]
Engine == [in : Seq(Nat), out : Seq(Nat), eaten : Nat, made : Nat, hello : 0 .. 2,
           sent_close : BOOLEAN, got_close : BOOLEAN]

View == [first : Nat \ {0}, last : Nat]
LoopTypes ==
    /\ op \in [IoOps -> IoOp] /\ \A k \in IoOps : op[k].moved <= op[k].size
    /\ running \in IoOps \cup {Nobody} /\ start_ \in BOOLEAN
    /\ ended \in [IoOps -> {"none", "success", "truncated"} \cup Errors]
    /\ given \in Nat /\ promised \in [own : Nat, waited : Nat] /\ stopped \in BOOLEAN
LayerTypes ==
    /\ args \in [IoOps -> Args] /\ pending_read_ \in BOOLEAN /\ pending_write_ \in BOOLEAN
    /\ engine \in Engine /\ incoming \in Seq(Units) /\ received \in Nat
    /\ input_ \in View /\ input_buffer_ \in Seq(Nat)
    /\ output_buffer_ \in Seq(Nat)
\* The types; the loop's own variables, and those of the engine, the buffers and the layer.
IoTypes == LoopTypes /\ LayerTypes

Least(S) == CHOOSE i \in S : \A j \in S : i <= j

\* Least returns the least element.
LEMMA LeastElement ==
    ASSUME NEW S \in SUBSET Nat, S # {}
    PROVE  Least(S) \in S /\ \A j \in S : Least(S) <= j
<1>1. PICK i \in S : \A j \in S : ~(<<j, i>> \in OpToRel(<, Nat))
  BY NatLessThanWellFounded, WFMin
<1>2. \A j \in S : i <= j
  <2>1. TAKE j \in S
  <2>2. ~(<<j, i>> \in {ss \in Nat \X Nat : ss[1] < ss[2]})
    BY <1>1 DEF OpToRel
  <2>3. QED BY <2>2
<1>3. QED BY <1>2 DEF Least

-----------------------------------------------------------------------------
(* Control.                                                                *)

\* Those that may hold the input: all but write.
Readers == IoOps \ {"write"}

\* What an operation waits for is what it wants.
Suits(o) ==
    CASE o.pc = "idle" -> TRUE
      [] o.pc \in {"reading", "wait_read"} -> o.want_ = "input_and_retry"
      [] o.pc \in {"writing", "wait_write"} -> o.want_ \in {"output", "output_and_retry"}
      [] o.pc = "posted" -> o.want_ = "nothing"

\* k has arguments only when something has ended for it, and has read something only while
\* it is at its read.
Failed(k) == ended[k] \notin {"none", "success", "eof"}
Fit(k) ==
    /\ Suits(op[k])
    /\ k = "write" => op[k].pc \notin {"reading", "wait_read"}
    /\ running = k => op[k].pc = "idle"
    /\ op[k].pc = "idle" => args[k] = NoArgs /\ (op[k] = Idle \/ running = k)
    /\ args[k] # NoArgs => args[k].ec # "nothing"
    /\ args[k].n > 0 => op[k].pc = "reading" /\ args[k].ec = "none"
    /\ args[k].ec = "eof" => op[k].pc = "reading"
\* The handshake comes first, and no two operations that read are outstanding.
Control ==
    /\ \A k \in IoOps : Fit(k) /\ (Failed(k) => ~Outstanding(k))
    /\ ended["read"] = "eof" => ~Outstanding("read")
    /\ Outstanding("handshake") => ended["handshake"] = "none"
    /\ \A k \in IoOps \ {"handshake"} : Outstanding(k) => ended["handshake"] = "success"
    /\ \A j, k \in Readers : Outstanding(j) /\ Outstanding(k) => j = k

-----------------------------------------------------------------------------
(* The units on their way in.                                              *)

\* How much is in the buffer, the unit up to which the engine and the buffer go, and that
\* they have no gap.
Held(view) == view.last + 1 - view.first
Edge(e, view) == e.eaten + Len(e.in) + Held(view)
Aligned(e, view, buffer) ==
    /\ view.first <= view.last + 1 /\ view.last <= Len(buffer)
    /\ \A i \in 1 .. Len(e.in) : e.in[i] = e.eaten + i
    /\ \A i \in 1 .. Held(view) : buffer[view.first + i - 1] = e.eaten + Len(e.in) + i

\* What a read has put into the buffer comes next.
Brought(k) ==
    /\ Edge(engine, input_) + args[k].n = received /\ args[k].n <= Len(input_buffer_)
    /\ \A i \in 1 .. args[k].n : input_buffer_[i] = Edge(engine, input_) + i
\* While somebody reads, or waits to read, the engine has been given all there was.
Stream ==
    /\ Aligned(engine, input_, input_buffer_) /\ received <= Len(incoming)
    /\ \A k \in IoOps : op[k].pc \in {"reading", "wait_read"} => Held(input_) = 0
    /\ \A k \in IoOps : op[k].pc = "reading" => Brought(k)
    /\ (\A k \in IoOps : op[k].pc # "reading") => Edge(engine, input_) = received

-----------------------------------------------------------------------------
(* The records.                                                            *)

\* The peer greets before all else, and says nothing after its notification.
SentInOrder ==
    /\ \A i \in 1 .. Len(incoming) :
         /\ incoming[i] \in {"data", "close", "ask"} => \E j \in 1 .. i : incoming[j] = "hello"
         /\ incoming[i] = "close" => i = Len(incoming)

\* The engine finds the greeting in the handshake only; the handshake then may have to send.
Greeted == \E i \in 1 .. engine.eaten : incoming[i] = "hello"
Parting == op["handshake"].want_ = "output" /\ op["handshake"].pc \in {"writing", "wait_write"}
Shaken ==
    /\ Greeted => engine.hello = 2
    /\ engine.hello = 2 => ended["handshake"] # "none" \/ Parting
    /\ ended["handshake"] = "success" \/ op["handshake"].want_ = "output" => engine.hello = 2
    /\ op["handshake"].pc # "posted"

\* Each record is given, or in bytes_transferred_ of a read that has its last output to send;
\* not behind this side's notification, which a shutdown makes while records may come.
Counted ==
    /\ op["read"].bytes_transferred_ > 0 => /\ running # "read" /\ op["read"].pc # "idle"
                                            /\ op["read"].want_ \in {"output", "nothing"}
                                            /\ op["read"].ec_ = "none"
    /\ ~Broken /\ ~engine.sent_close => given + op["read"].bytes_transferred_ = DataUpTo(engine.eaten)
\* Only the peer's notification ends the stream.
Closed ==
    /\ engine.got_close => \E i \in 1 .. engine.eaten : incoming[i] = "close"
    /\ ended["read"] = "eof" => engine.got_close

InputInv == IoTypes /\ Control /\ Stream /\ SentInOrder /\ Shaken /\ Counted /\ Closed

-----------------------------------------------------------------------------
(* The engine.                                                             *)

\* What is left after the first c elements.
LEMMA FromFacts ==
  ASSUME NEW T, NEW s \in Seq(T), NEW c \in 0 .. Len(s)
  PROVE  /\ From(c + 1, s) \in Seq(T) /\ Len(From(c + 1, s)) = Len(s) - c
         /\ \A i \in 1 .. Len(s) - c : From(c + 1, s)[i] = s[c + i]
<1>1. c + 1 \in 1 .. Len(s) + 1 /\ Len(s) \in Nat
  OBVIOUS
<1>2. /\ SubSeq(s, c + 1, Len(s)) \in Seq(T)
      /\ Len(SubSeq(s, c + 1, Len(s))) = IF c + 1 <= Len(s) THEN Len(s) - (c + 1) + 1 ELSE 0
      /\ \A i \in 1 .. Len(s) - (c + 1) + 1 : SubSeq(s, c + 1, Len(s))[i] = s[c + 1 + i - 1]
  BY <1>1, SubSeqProperties
<1>3. Len(s) - (c + 1) + 1 = Len(s) - c /\ \A i \in 1 .. Len(s) - c : c + 1 + i - 1 = c + i
  BY <1>1
<1>4. Len(SubSeq(s, c + 1, Len(s))) = Len(s) - c
  BY <1>1, <1>2
<1>5. \A i \in 1 .. Len(s) - c : SubSeq(s, c + 1, Len(s))[i] = s[c + i]
  BY <1>2, <1>3
<1> QED BY <1>2, <1>4, <1>5 DEF From

\* Those that a call consumes: all, or up to the first that ends it.
LEMMA EatenFacts ==
  ASSUME IoTypes, NEW k \in IoOps
  PROVE  /\ Eaten(k) \in 0 .. Len(engine.in)
         /\ \A i \in 1 .. Eaten(k) - 1 : incoming[engine.in[i]] \notin Answers(k)
         /\ Answer(k) = "nothing" \/ Answer(k) \in Answers(k)
         /\ Answer(k) = "nothing" =>
              \A i \in 1 .. Len(engine.in) : incoming[engine.in[i]] \notin Answers(k)
         /\ Answer(k) # "nothing" => Eaten(k) > 0 /\ Answer(k) = incoming[engine.in[Eaten(k)]]
<1>1. Len(engine.in) \in Nat /\ Found(k) \subseteq 1 .. Len(engine.in) /\ "nothing" \notin Answers(k)
  BY DEF IoTypes, LayerTypes, Engine, Found, Answers
<1>2. CASE Found(k) = {}
  BY <1>1, <1>2 DEF Eaten, Answer, Found
<1>3. CASE Found(k) # {}
  <2>1. Least(Found(k)) \in Found(k) /\ \A j \in Found(k) : Least(Found(k)) <= j
    BY <1>1, <1>3, LeastElement
  <2>2. Eaten(k) = Least(Found(k))
    BY <1>3 DEF Eaten, Least
  <2>3. Eaten(k) \in Found(k) /\ \A j \in Found(k) : Eaten(k) <= j
    BY <2>1, <2>2
  <2>4. incoming[engine.in[Eaten(k)]] \in Answers(k) /\ Answer(k) = incoming[engine.in[Eaten(k)]]
    BY <1>3, <2>3 DEF Found, Answer
  <2>5. ASSUME NEW i \in 1 .. Eaten(k) - 1 PROVE i \notin Found(k) /\ i \in 1 .. Len(engine.in)
    BY <1>1, <2>3
  <2> QED BY <1>1, <2>3, <2>4, <2>5 DEF Found
<1> QED BY <1>2, <1>3

\* A call takes the first c of the units that the engine has.
Takes(e, c) ==
    /\ e \in Engine /\ c \in 0 .. Len(engine.in) /\ e.eaten = engine.eaten + c
    /\ e.in = From(c + 1, engine.in)

LEMMA AfterTakes ==
  ASSUME IoTypes, NEW c \in 0 .. Len(engine.in), NEW m \in Nat
  PROVE  /\ Takes(After(c, m), c) /\ After(c, m).hello = engine.hello
         /\ After(c, m).sent_close = engine.sent_close /\ After(c, m).got_close = engine.got_close
<1>1. engine \in Engine /\ engine.in \in Seq(Nat) /\ engine.out \in Seq(Nat) /\ engine.made \in Nat
  BY DEF IoTypes, LayerTypes, Engine
<1>2. From(c + 1, engine.in) \in Seq(Nat)
  BY <1>1, FromFacts
<1> DEFINE new == [i \in 1 .. m |-> engine.made + i]
<1>3. engine.out \o new \in Seq(Nat)
  <2>1. new \in Seq(Nat)
    BY <1>1
  <2> HIDE DEF new
  <2> QED BY <1>1, <2>1, ConcatProperties
<1>4. engine.eaten + c \in Nat /\ engine.made + m \in Nat
  BY <1>1 DEF Engine
<1> HIDE DEF new
<1>5. After(c, m) = [engine EXCEPT !.in = From(c + 1, engine.in), !.eaten = engine.eaten + c,
                                   !.made = engine.made + m, !.out = engine.out \o new]
  BY <1>1 DEF After, new, Engine
<1>6. After(c, m) \in Engine
  BY <1>1, <1>2, <1>3, <1>4, <1>5 DEF Engine
<1> QED BY <1>1, <1>5, <1>6 DEF Takes, Engine

LEMMA TakesNothing == ASSUME IoTypes PROVE Takes(engine, 0)
<1>1. engine.in \in Seq(Nat) /\ engine \in Engine /\ engine.eaten \in Nat
  BY DEF IoTypes, LayerTypes, Engine
<1>2. From(1, engine.in) = engine.in
  BY <1>1, SubSeqProperties DEF From
<1> QED BY <1>1, <1>2 DEF Takes

\* What SSL_do_handshake, SSL_read, SSL_write and SSL_shutdown do to the input.
LEMMA HandshakeFacts ==
  ASSUME IoTypes
  PROVE  /\ Takes(Handshake.eng, Eaten("handshake")) /\ Handshake.made \in Nat
         /\ Handshake.bytes = 0 /\ Handshake.eng.sent_close = engine.sent_close
         /\ Handshake.eng.got_close = engine.got_close
         /\ \/ /\ Answer("handshake") = "hello" /\ Handshake.eng.hello = 2
               /\ Handshake.says = "ok" /\ Handshake.made = 1
            \/ /\ Answer("handshake") # "hello" /\ Handshake.eng.hello = 1
               /\ Handshake.says = "want_read"
<1> DEFINE done == Answer("handshake") = "hello"
           m == IF done \/ engine.hello = 0 THEN 1 ELSE 0
<1>1. m \in Nat /\ Eaten("handshake") \in 0 .. Len(engine.in)
  BY EatenFacts DEF IoOps
<1>2. PICK e : e = After(Eaten("handshake"), m)
  OBVIOUS
<1>3. /\ Takes(e, Eaten("handshake")) /\ e \in Engine
      /\ e.sent_close = engine.sent_close /\ e.got_close = engine.got_close
  BY <1>1, <1>2, AfterTakes DEF Takes
<1>4. Handshake = [eng |-> [e EXCEPT !.hello = IF done THEN 2 ELSE 1], made |-> m,
                   says |-> IF done THEN "ok" ELSE "want_read", bytes |-> 0]
  BY <1>2 DEF Handshake
<1>0. PICK h \in 1 .. 2 : h = IF done THEN 2 ELSE 1
  OBVIOUS
<1>5. PICK g : g = [e EXCEPT !.hello = h]
  OBVIOUS
<1>6. /\ g \in Engine /\ g.in = e.in /\ g.eaten = e.eaten /\ g.hello = h
      /\ g.sent_close = e.sent_close /\ g.got_close = e.got_close
  BY <1>0, <1>3, <1>5 DEF Engine
<1>7. Takes(g, Eaten("handshake"))
  BY <1>3, <1>6 DEF Takes
<1> QED BY <1>0, <1>1, <1>3, <1>4, <1>5, <1>6, <1>7

LEMMA ReadFacts ==
  ASSUME IoTypes
  PROVE  /\ \/ /\ Takes(Read.eng, 0) /\ Read.bytes = 0 /\ Read.eng.got_close = engine.got_close
               /\ Read.says # "ok"
            \/ /\ Takes(Read.eng, Eaten("read")) /\ ~engine.got_close
               /\ \/ Answer("read") = "data" /\ ~Read.eng.got_close /\ Read.says = "ok" /\ Read.bytes = 1
                  \/ Answer("read") = "close" /\ Read.eng.got_close /\ Read.says # "ok" /\ Read.bytes = 0
                  \/ Answer("read") = "nothing" /\ ~Read.eng.got_close /\ Read.says # "ok" /\ Read.bytes = 0
         /\ Read.made \in Nat /\ Read.says \in {"zero_return", "want_write", "ok", "want_read"}
         /\ Read.says = "zero_return" => Read.eng.got_close
         /\ Read.eng.hello = engine.hello /\ Read.eng.sent_close = engine.sent_close
<1> DEFINE m == IF engine.sent_close THEN 0 ELSE AsksIn("read")
           closed == engine.got_close \/ Answer("read") = "close"
           data == ~closed /\ Answer("read") = "data"
<1>1. m \in Nat /\ Eaten("read") \in 0 .. Len(engine.in)
  <2>1. IsFiniteSet({i \in 1 .. Eaten("read") : incoming[engine.in[i]] = "ask"})
    <3>1. Eaten("read") \in 0 .. Len(engine.in)
      BY EatenFacts DEF IoOps
    <3>2. IsFiniteSet(1 .. Eaten("read"))
      BY <3>1, FS_Interval
    <3> QED BY <3>2, FS_Subset
  <2>2. AsksIn("read") \in Nat
    BY <2>1, FS_CardinalityType DEF AsksIn
  <2> QED BY <2>2, EatenFacts DEF IoOps
<1>2. PICK e : e = After(Eaten("read"), m)
  OBVIOUS
<1>3. /\ Takes(e, Eaten("read")) /\ e \in Engine /\ e.hello = engine.hello
      /\ e.sent_close = engine.sent_close /\ e.got_close = engine.got_close
  BY <1>1, <1>2, AfterTakes DEF Takes
<1>4. PICK g : g = [e EXCEPT !.got_close = closed]
  OBVIOUS
<1>5. /\ g \in Engine /\ g.in = e.in /\ g.eaten = e.eaten /\ g.hello = e.hello
      /\ g.sent_close = e.sent_close /\ g.got_close = closed
  <2>1. closed \in BOOLEAN
    BY DEF IoTypes, LayerTypes, Engine
  <2> QED BY <1>3, <1>4, <2>1 DEF Engine
<1>6. Takes(g, Eaten("read"))
  BY <1>3, <1>5 DEF Takes
<1>7. CASE engine.got_close
  <2>1. Read = [eng |-> engine, made |-> 0, says |-> "zero_return", bytes |-> 0]
    BY <1>7 DEF Read
  <2> QED BY <2>1, <1>7, TakesNothing
<1>8. CASE ~engine.got_close /\ m > 0 /\ Full(m)
  <2>1. Read = [eng |-> engine, made |-> 0, says |-> "want_write", bytes |-> 0]
    BY <1>8 DEF Read, WantWrite
  <2> QED BY <2>1, <1>8, TakesNothing
<1>9. CASE ~engine.got_close /\ ~(m > 0 /\ Full(m))
  <2>1. Read = [eng |-> g, made |-> m,
                says |-> IF closed THEN "zero_return" ELSE IF data THEN "ok" ELSE "want_read",
                bytes |-> IF data THEN 1 ELSE 0]
    BY <1>2, <1>4, <1>9 DEF Read
  <2>2. PICK n \in Nat : n = m
    BY <1>1
  <2>3. Read.made = n /\ Read.eng = g
    BY <2>1, <2>2
  <2>4. \/ Answer("read") = "data" /\ ~closed /\ Read.says = "ok" /\ Read.bytes = 1
        \/ Answer("read") = "close" /\ closed /\ Read.says = "zero_return" /\ Read.bytes = 0
        \/ Answer("read") = "nothing" /\ ~closed /\ Read.says = "want_read" /\ Read.bytes = 0
    <3>1. Answer("read") \in {"data", "close", "nothing"}
      BY EatenFacts DEF IoOps, Answers
    <3> QED BY <3>1, <2>1, <1>9
  <2> QED BY <2>2, <2>3, <2>4, <1>3, <1>5, <1>6, <1>9
<1> QED BY <1>7, <1>8, <1>9

LEMMA WriteFacts ==
  ASSUME IoTypes
  PROVE  /\ Takes(Write.eng, 0) /\ Write.made \in Nat /\ Write.bytes \in 0 .. 1
         /\ (Write.says = "want_write" /\ Write.made = 0) \/ (Write.says = "ok" /\ Write.made > 0)
         /\ Write.eng.hello = engine.hello /\ Write.eng.sent_close = engine.sent_close
         /\ Write.eng.got_close = engine.got_close
<1>1. CASE Full(1)
  BY <1>1, TakesNothing DEF Write, WantWrite
<1>2. CASE ~Full(1)
  <2>1. /\ Takes(After(0, 1), 0) /\ After(0, 1).hello = engine.hello
        /\ After(0, 1).sent_close = engine.sent_close /\ After(0, 1).got_close = engine.got_close
    <3>1. 0 \in 0 .. Len(engine.in)
      BY DEF IoTypes, LayerTypes, Engine
    <3> QED BY <3>1, AfterTakes
  <2> QED BY <1>2, <2>1 DEF Write
<1> QED BY <1>1, <1>2

LEMMA ShutDownFacts ==
  ASSUME IoTypes
  PROVE  /\ \/ /\ Takes(ShutDown.eng, 0) /\ ShutDown.eng.got_close = engine.got_close
               /\ ShutDown.eng.sent_close = engine.sent_close
            \/ /\ Takes(ShutDown.eng, 0) /\ ShutDown.eng.got_close /\ engine.got_close
               /\ ShutDown.eng.sent_close
            \/ /\ Takes(ShutDown.eng, Eaten("shutdown")) /\ ShutDown.eng.sent_close /\ ~engine.got_close
               /\ ShutDown.eng.got_close => Answer("shutdown") = "close"
         /\ ShutDown.bytes = 0 /\ ShutDown.made \in Nat
         /\ ShutDown.says \in {"want_write", "ok", "fail", "want_read"}
         /\ ShutDown.eng.hello = engine.hello
<1> DEFINE m == IF engine.sent_close THEN 0 ELSE 1
           closed == engine.got_close \/ Answer("shutdown") = "close"
           n == IF engine.got_close THEN 0 ELSE Eaten("shutdown")
<1>1. m \in Nat /\ n \in 0 .. Len(engine.in)
  <2>1. Eaten("shutdown") \in 0 .. Len(engine.in)
    BY EatenFacts DEF IoOps
  <2> QED BY <2>1 DEF IoTypes, LayerTypes, Engine
<1>2. PICK e : e = After(n, m)
  OBVIOUS
<1>3. Takes(e, n) /\ e \in Engine /\ e.hello = engine.hello /\ e.got_close = engine.got_close
  BY <1>1, <1>2, AfterTakes DEF Takes
<1>4. PICK g : g = [e EXCEPT !.sent_close = TRUE, !.got_close = closed]
  OBVIOUS
<1>5. closed \in BOOLEAN
  BY DEF IoTypes, LayerTypes, Engine
<1>6. /\ g \in Engine /\ g.in = e.in /\ g.eaten = e.eaten /\ g.hello = e.hello
      /\ g.sent_close = TRUE /\ g.got_close = closed
  BY <1>3, <1>4, <1>5 DEF Engine
<1>7. Takes(g, n)
  BY <1>3, <1>6 DEF Takes
<1>8. CASE m > 0 /\ Full(m)
  <2>1. ShutDown = [eng |-> engine, made |-> 0, says |-> "want_write", bytes |-> 0]
    BY <1>8 DEF ShutDown, WantWrite
  <2> QED BY <2>1, TakesNothing
<1>9. CASE ~(m > 0 /\ Full(m))
  <2>1. ShutDown = [eng |-> g, made |-> m,
                    says |-> IF closed THEN "ok"
                             ELSE IF Answer("shutdown") = "data" THEN "fail" ELSE "want_read",
                    bytes |-> 0]
    BY <1>2, <1>4, <1>9 DEF ShutDown
  <2>2. PICK x \in Nat : x = m
    BY <1>1
  <2>3. /\ ShutDown.eng = g /\ ShutDown.made = x /\ ShutDown.bytes = 0
        /\ ShutDown.says \in {"ok", "fail", "want_read"}
    BY <2>1, <2>2
  <2>4. CASE engine.got_close
    BY <2>2, <2>3, <2>4, <1>3, <1>6, <1>7
  <2>5. CASE ~engine.got_close
    BY <2>2, <2>3, <2>5, <1>3, <1>6, <1>7
  <2> QED BY <2>4, <2>5
<1> QED BY <1>8, <1>9

\* What the loop needs to know of a call: it takes some units, and all it wants is a transfer.
LEMMA CallFacts ==
  ASSUME IoTypes, NEW k \in IoOps, NEW r, r = Call(k)
  PROVE  /\ \E c : Takes(r.eng, c) /\ c \in {0, Eaten(k)}
         /\ WantOf(r) \in Wishes /\ ErrorOf(r) \in {"none", "ssl", "eof"} /\ r.eng.made \in Nat
         /\ ErrorOf(r) = "eof" => r.eng.got_close
         /\ r.says = "ok" => r.bytes \in 0 .. 1 /\ WantOf(r) \in {"output", "nothing"}
         /\ k = "write" => r.eng.in = engine.in /\ r.eng.eaten = engine.eaten
                           /\ r.eng.got_close = engine.got_close
                           /\ r.eng.sent_close = engine.sent_close
                           /\ WantOf(r) # "input_and_retry"
         /\ k # "handshake" => r.eng.hello = engine.hello
         /\ engine.sent_close => r.eng.sent_close
<1>1. CASE k = "handshake"
  <2>1. r = Handshake
    BY <1>1 DEF Call
  <2>2. r.says \in {"ok", "want_read"} /\ r.made \in Nat
    BY <2>1, HandshakeFacts
  <2>3. /\ WantOf(r) \in Wishes /\ ErrorOf(r) = "none"
        /\ r.says = "ok" => WantOf(r) \in {"output", "nothing"}
    BY <2>2 DEF WantOf, ErrorOf, Wishes
  <2> QED BY <1>1, <2>1, <2>3, HandshakeFacts DEF Takes, Engine
<1>2. CASE k = "read"
  <2>1. r = Read
    BY <1>2 DEF Call
  <2>2. r.says \in {"zero_return", "want_write", "ok", "want_read"} /\ r.made \in Nat
    BY <2>1, ReadFacts
  <2>3. /\ WantOf(r) \in Wishes /\ ErrorOf(r) \in {"none", "eof"}
        /\ r.says = "ok" => WantOf(r) \in {"output", "nothing"}
        /\ ErrorOf(r) = "eof" => r.says = "zero_return"
    BY <2>2 DEF WantOf, ErrorOf, Wishes
  <2>4. \E c : Takes(r.eng, c) /\ c \in {0, Eaten(k)}
    BY <1>2, <2>1, ReadFacts
  <2>5. r.eng.made \in Nat
    BY <2>4 DEF Takes, Engine
  <2>6. /\ r.says = "zero_return" => r.eng.got_close
        /\ r.eng.hello = engine.hello /\ r.eng.sent_close = engine.sent_close
        /\ r.bytes \in 0 .. 1
    BY <2>1, ReadFacts
  <2> QED BY <1>2, <2>3, <2>4, <2>5, <2>6
<1>3. CASE k = "write"
  <2>1. r = Write
    BY <1>3 DEF Call
  <2>2. (r.says = "want_write" /\ r.made = 0) \/ (r.says = "ok" /\ r.made > 0 /\ r.made \in Nat)
    BY <2>1, WriteFacts
  <2>3. /\ WantOf(r) \in Wishes \ {"input_and_retry"} /\ ErrorOf(r) = "none"
        /\ r.says = "ok" => WantOf(r) \in {"output", "nothing"}
    BY <2>2 DEF WantOf, ErrorOf, Wishes
  <2>4. r.eng.in = engine.in /\ r.eng.eaten = engine.eaten
    <3>1. Takes(r.eng, 0) /\ Takes(engine, 0)
      BY <2>1, WriteFacts, TakesNothing
    <3> QED BY <3>1 DEF Takes
  <2> QED BY <1>3, <2>1, <2>3, <2>4, WriteFacts DEF Takes, Engine
<1>4. CASE k = "shutdown"
  <2>1. r = ShutDown
    BY <1>4 DEF Call
  <2>2. r.says \in {"want_write", "ok", "fail", "want_read"} /\ r.made \in Nat
    BY <2>1, ShutDownFacts
  <2>3. /\ WantOf(r) \in Wishes /\ ErrorOf(r) \in {"none", "ssl"}
        /\ r.says = "ok" => WantOf(r) \in {"output", "nothing"}
    BY <2>2 DEF WantOf, ErrorOf, Wishes
  <2>4. engine.sent_close => r.eng.sent_close
    BY <2>1, ShutDownFacts
  <2>5. \E c : Takes(r.eng, c) /\ c \in {0, Eaten(k)}
    BY <1>4, <2>1, ShutDownFacts
  <2>6. r.eng.made \in Nat
    BY <2>5 DEF Takes, Engine
  <2> QED BY <1>4, <2>1, <2>3, <2>4, <2>5, <2>6, ShutDownFacts
<1> QED BY <1>1, <1>2, <1>3, <1>4 DEF IoOps

-----------------------------------------------------------------------------
(* The steps keep the types.                                               *)

LEMMA UpToFacts ==
  ASSUME NEW T, NEW s \in Seq(T), NEW n \in Nat
  PROVE  /\ UpTo(n, s) \in Seq(T) /\ Len(UpTo(n, s)) = (IF n < Len(s) THEN n ELSE Len(s))
         /\ \A i \in 1 .. Len(UpTo(n, s)) : UpTo(n, s)[i] = s[i]
<1>1. PICK m \in 0 .. Len(s) : m = (IF n < Len(s) THEN n ELSE Len(s))
  OBVIOUS
<1>2. UpTo(n, s) = [i \in 1 .. m |-> s[i]]
  BY <1>1 DEF UpTo
<1>3. \A i \in 1 .. m : s[i] \in T
  OBVIOUS
<1> QED BY <1>1, <1>2, <1>3

LEMMA OverwrittenFacts ==
  ASSUME NEW b \in Seq(Nat), NEW s \in Seq(Nat)
  PROVE  /\ Overwritten(b, s) \in Seq(Nat)
         /\ Len(Overwritten(b, s)) >= Len(s) /\ Len(Overwritten(b, s)) >= Len(b)
         /\ \A i \in 1 .. Len(s) : Overwritten(b, s)[i] = s[i]
<1>1. \A i \in Len(s) + 1 .. Len(b) : b[i] \in Nat
  OBVIOUS
<1>2. SubSeq(b, Len(s) + 1, Len(b)) \in Seq(Nat)
  BY <1>1, SubSeqProperties
<1>4. Len(SubSeq(b, Len(s) + 1, Len(b))) = IF Len(s) + 1 <= Len(b) THEN Len(b) - Len(s) ELSE 0
  BY <1>1, SubSeqProperties
<1>5. PICK l, m \in Nat : l = Len(b) /\ m = Len(s)
  OBVIOUS
<1>6. Len(SubSeq(b, Len(s) + 1, Len(b))) >= l - m
  BY <1>4, <1>5
<1>3. PICK t \in Seq(Nat) : t = From(Len(s) + 1, b) /\ Len(t) >= Len(b) - Len(s)
  BY <1>2, <1>5, <1>6 DEF From
<1> QED BY <1>3, ConcatProperties DEF Overwritten

LEMMA ReleasedFacts ==
  ASSUME IoTypes, NEW point
  PROVE  /\ Released(point) \in [IoOps -> Args]
         /\ \A k \in IoOps : \/ Released(point)[k] = args[k]
                             \/ op[k].pc = point /\ args[k] = NoArgs /\ Released(point)[k] = TimerArgs
<1>1. TimerArgs \in Args
  BY SslAssumption DEF TimerArgs, Args, Outcomes, Errors, SslAssumption
<1> QED BY <1>1 DEF IoTypes, LayerTypes, Released

\* What fits goes from the view to the engine.
LEMMA PutFacts ==
  ASSUME IoTypes, NEW e \in Engine, NEW view \in View,
         view.first <= view.last + 1, view.last <= Len(input_buffer_)
  PROVE  /\ Fits(e, view) \in 0 .. Held(view)
         /\ WithInput(e, view, input_buffer_) \in Engine
         /\ Unconsumed(e, view) = [first |-> view.first + Fits(e, view), last |-> view.last]
         /\ Unconsumed(e, view) \in View
         /\ WithInput(e, view, input_buffer_) =
              [e EXCEPT !.in = e.in \o [i \in 1 .. Fits(e, view) |-> input_buffer_[view.first + i - 1]]]
<1>1. Held(view) \in Nat /\ Room(e) \in Nat
  BY SslAssumption DEF Held, Room, SslAssumption, Engine, View
<1>2. Fits(e, view) \in 0 .. Held(view)
  BY <1>1 DEF Fits, Held, View
<1> DEFINE new == [i \in 1 .. Fits(e, view) |-> input_buffer_[view.first + i - 1]]
<1>3. new \in Seq(Nat)
  <2>1. PICK n \in Nat : n = Fits(e, view) /\ n <= view.last + 1 - view.first
    BY <1>1, <1>2 DEF Held
  <2>2. view.first \in Nat \ {0} /\ view.last \in Nat /\ input_buffer_ \in Seq(Nat)
    BY DEF IoTypes, LayerTypes, View
  <2>3. ASSUME NEW i \in 1 .. n PROVE view.first + i - 1 \in 1 .. Len(input_buffer_)
    <3>1. PICK a \in Nat \ {0} : a = view.first
      BY <2>2
    <3>2. PICK b \in Nat : b = view.last
      BY <2>2
    <3>3. PICK l \in Nat : l = Len(input_buffer_)
      BY <2>2
    <3>4. n <= b + 1 - a /\ b <= l
      BY <2>1, <3>1, <3>2, <3>3
    <3>5. a + i - 1 \in 1 .. l
      BY <2>3, <3>4
    <3> QED BY <3>1, <3>3, <3>5
  <2>4. \A i \in 1 .. n : input_buffer_[view.first + i - 1] \in Nat
    BY <2>2, <2>3
  <2>5. [i \in 1 .. n |-> input_buffer_[view.first + i - 1]] \in Seq(Nat)
    BY <2>4
  <2> QED BY <2>1, <2>5
<1> HIDE DEF new
<1>4. e.in \o new \in Seq(Nat)
  BY <1>3, ConcatProperties DEF Engine
<1>5. WithInput(e, view, input_buffer_) = [e EXCEPT !.in = e.in \o new]
  BY DEF WithInput, new, Engine
<1>6. WithInput(e, view, input_buffer_) \in Engine
  BY <1>4, <1>5 DEF Engine
<1>7. /\ Unconsumed(e, view) = [first |-> view.first + Fits(e, view), last |-> view.last]
      /\ view.first + Fits(e, view) \in Nat \ {0}
  BY <1>2 DEF Unconsumed, Held, View
<1> QED BY <1>2, <1>5, <1>6, <1>7 DEF new, View

\* call_handler, and what leaves the loop.
LEMMA MappedFacts ==
  ASSUME NEW e \in Errors, NEW eng \in Engine
  PROVE  /\ Mapped(eng, e) \in Errors \cup {"truncated"}
         /\ Mapped(eng, e) \in {"none", "eof"} => Mapped(eng, e) = e
         /\ e = "none" => Mapped(eng, e) = "none"
         /\ Mapped(eng, e) = "eof" => eng.got_close
  BY DEF Mapped, Errors

LEMMA CallHandlerTypes ==
  ASSUME IoTypes, NEW k \in IoOps, NEW o \in IoOp, NEW eng \in Engine, NEW own \in BOOLEAN,
         CallHandler(k, o, eng, own)
  PROVE  LoopTypes'
<1> DEFINE e == Mapped(eng, o.ec_)
<1>1. e \in Errors \cup {"truncated"} /\ o.ec_ \in Errors
  BY MappedFacts DEF IoOp
<1> HIDE DEF e
<1>2. Idle \in IoOp /\ Idle.moved <= Idle.size
  BY DEF Idle, IoOp, PCs, Wishes, Errors
<1>3. op' \in [IoOps -> IoOp] /\ \A j \in IoOps : op'[j].moved <= op'[j].size
  BY <1>2 DEF CallHandler, IoTypes, LoopTypes
<1>4. given' \in Nat
  <2>1. o.bytes_transferred_ \in Nat
    BY DEF IoOp
  <2>2. given' = given + o.bytes_transferred_ \/ given' = given + 0
    BY DEF CallHandler
  <2> QED BY <2>1, <2>2 DEF IoTypes, LoopTypes
<1>5. promised' \in [own : Nat, waited : Nat]
  <2>1. o.mark \in Nat /\ promised \in [own : Nat, waited : Nat]
    BY DEF IoOp, IoTypes, LoopTypes
  <2>2. \/ promised' = promised \/ promised' = [promised EXCEPT !.own = o.mark]
        \/ promised' = [promised EXCEPT !.waited = o.mark]
    BY DEF CallHandler
  <2> QED BY <2>1, <2>2
<1>6. ended' \in [IoOps -> {"none", "success", "truncated"} \cup Errors]
  <2>1. ended' = [ended EXCEPT ![k] = IF e = "none" \/ (k = "shutdown" /\ e = "eof") THEN "success" ELSE e]
    BY DEF CallHandler, e
  <2> QED BY <1>1, <2>1 DEF IoTypes, LoopTypes
<1>7. running' = Nobody /\ start_' = FALSE /\ stopped' = stopped
  BY DEF CallHandler
<1> QED BY <1>3, <1>4, <1>5, <1>6, <1>7 DEF LoopTypes, IoTypes

LEMMA YieldsTypes ==
  ASSUME IoTypes, NEW k \in IoOps, NEW o \in IoOp, o.moved <= o.size,
         op' = [op EXCEPT ![k] = o], running' \in IoOps \cup {Nobody}, start_' \in BOOLEAN,
         UNCHANGED programVars
  PROVE  LoopTypes'
<1>1. op' \in [IoOps -> IoOp] /\ \A j \in IoOps : op'[j].moved <= op'[j].size
  BY DEF IoTypes, LoopTypes
<1> QED BY <1>1 DEF IoTypes, LoopTypes, programVars

\* The error an operation goes on with.
LEMMA ErrorAfterFacts ==
  ASSUME IoTypes, NEW k \in IoOps, args[k].ec # "nothing"
  PROVE  ErrorAfter(k) \in Errors
<1>1. op[k] \in IoOp /\ args[k] \in Args
  BY DEF IoTypes, LoopTypes, LayerTypes
<1> QED BY <1>1 DEF ErrorAfter, IoOp, Args, Outcomes, Errors

LEMMA ContinueTypes ==
  ASSUME IoTypes, NEW k \in IoOps, NEW eng \in Engine, args[k].ec # "nothing", Continue(k, eng)
  PROVE  LoopTypes'
<1>0. [op[k] EXCEPT !.ec_ = ErrorAfter(k), !.pc = "idle"] \in IoOp
  <2>1. ErrorAfter(k) \in Errors
    BY ErrorAfterFacts
  <2>2. op[k] \in IoOp
    BY DEF IoTypes, LoopTypes
  <2> QED BY <2>1, <2>2 DEF IoOp, PCs
<1>1. PICK o \in IoOp : o = [op[k] EXCEPT !.ec_ = ErrorAfter(k), !.pc = "idle"]
  BY <1>0
<1>2. o.moved <= o.size
  BY <1>1 DEF IoTypes, LoopTypes, IoOp
<1>3. CASE o.ec_ = "none"
  <2>1. op' = [op EXCEPT ![k] = o] /\ running' = k /\ start_' = FALSE /\ UNCHANGED programVars
    BY <1>1, <1>3 DEF Continue
  <2> QED BY <1>2, <2>1, YieldsTypes
<1>4. CASE o.ec_ # "none"
  <2>1. CallHandler(k, o, eng, TRUE)
    BY <1>1, <1>4 DEF Continue
  <2> QED BY <2>1, CallHandlerTypes
<1> QED BY <1>3, <1>4

\* r is what a call returns, o the operation after it.
Called(k, r, o) ==
    /\ r = Call(k)
    /\ o = [op[k] EXCEPT !.want_ = WantOf(r), !.ec_ = ErrorOf(r), !.mark = r.eng.made,
                         !.bytes_transferred_ = IF r.says = "ok" THEN r.bytes ELSE @]
LEMMA CalledFacts ==
  ASSUME IoTypes, NEW k \in IoOps, NEW r, NEW o, Called(k, r, o)
  PROVE  /\ o \in IoOp /\ o.want_ = WantOf(r) /\ o.ec_ = ErrorOf(r) /\ o.moved <= o.size
         /\ o.pc = op[k].pc /\ o.cancelled = op[k].cancelled /\ o.mark = r.eng.made
         /\ o.size = op[k].size /\ o.moved = op[k].moved
         /\ o.bytes_transferred_ = IF r.says = "ok" THEN r.bytes ELSE op[k].bytes_transferred_
<1>1. op[k] \in IoOp /\ op[k].moved <= op[k].size
  BY DEF IoTypes, LoopTypes
<1>2. /\ WantOf(r) \in Wishes /\ ErrorOf(r) \in Errors /\ r.eng.made \in Nat
      /\ r.says = "ok" => r.bytes \in 0 .. 1
  BY CallFacts DEF Errors, Called
<1>3. PICK b \in 0 .. 1 : b = IF r.says = "ok" THEN r.bytes ELSE op[k].bytes_transferred_
  BY <1>1, <1>2 DEF IoOp
<1>4. o = [op[k] EXCEPT !.want_ = WantOf(r), !.ec_ = ErrorOf(r), !.mark = r.eng.made,
                        !.bytes_transferred_ = b]
  BY <1>1, <1>3 DEF IoOp, Called
<1> QED BY <1>1, <1>2, <1>3, <1>4 DEF IoOp

\* The ways out of a call.
LEMMA TryCases ==
  ASSUME IoTypes, NEW k \in IoOps, Try(k)
  PROVE  /\ running = k /\ UNCHANGED <<peerVars, wire>>
         /\ \E r, o : Called(k, r, o) /\
           \/ WantOf(r) = "input_and_retry" /\ InputLeft(k, o, r.eng)
           \/ WantOf(r) = "input_and_retry" /\ StartReading(k, o, r.eng)
           \/ WantOf(r) = "input_and_retry" /\ WaitToRead(k, o, r.eng)
           \/ WantOf(r) \in {"output", "output_and_retry"} /\ StartWriting(k, o, r.eng)
           \/ WantOf(r) \in {"output", "output_and_retry"} /\ WaitToWrite(k, o, r.eng)
           \/ WantOf(r) = "nothing" /\ Done(k, o, r.eng)
<1>1. PICK r : r = Call(k)
  OBVIOUS
<1>2. PICK o : o = [op[k] EXCEPT !.want_ = WantOf(r), !.ec_ = ErrorOf(r), !.mark = r.eng.made,
                                 !.bytes_transferred_ = IF r.says = "ok" THEN r.bytes ELSE @]
  OBVIOUS
<1>5. Called(k, r, o)
  BY <1>1, <1>2 DEF Called
<1>3. o.want_ = WantOf(r)
  BY <1>5, CalledFacts
<1>4. /\ running = k /\ UNCHANGED <<peerVars, wire>>
      /\ \/ o.want_ = "input_and_retry" /\ InputLeft(k, o, r.eng)
         \/ o.want_ = "input_and_retry" /\ StartReading(k, o, r.eng)
         \/ o.want_ = "input_and_retry" /\ WaitToRead(k, o, r.eng)
         \/ o.want_ \in {"output", "output_and_retry"} /\ StartWriting(k, o, r.eng)
         \/ o.want_ \in {"output", "output_and_retry"} /\ WaitToWrite(k, o, r.eng)
         \/ o.want_ = "nothing" /\ Done(k, o, r.eng)
  BY <1>1, <1>2 DEF Try
<1> QED BY <1>3, <1>4, <1>5

LEMMA TryTypes ==
  ASSUME IoTypes, input_.first <= input_.last + 1, input_.last <= Len(input_buffer_),
         NEW k \in IoOps, Try(k)
  PROVE  IoTypes'
<1>1. PICK r, o : Called(k, r, o) /\
           \/ WantOf(r) = "input_and_retry" /\ InputLeft(k, o, r.eng)
           \/ WantOf(r) = "input_and_retry" /\ StartReading(k, o, r.eng)
           \/ WantOf(r) = "input_and_retry" /\ WaitToRead(k, o, r.eng)
           \/ WantOf(r) \in {"output", "output_and_retry"} /\ StartWriting(k, o, r.eng)
           \/ WantOf(r) \in {"output", "output_and_retry"} /\ WaitToWrite(k, o, r.eng)
           \/ WantOf(r) = "nothing" /\ Done(k, o, r.eng)
  BY TryCases
<1>2. o \in IoOp /\ o.moved <= o.size
  BY <1>1, CalledFacts
<1>3. r.eng \in Engine /\ r.eng.out \in Seq(Nat)
  <2>1. \E c : Takes(r.eng, c)
    BY <1>1, CallFacts DEF Called
  <2> QED BY <2>1 DEF Takes, Engine
<1>4. UNCHANGED <<incoming, received, gone, wire>>
  BY TryCases DEF peerVars
<1>5. CASE InputLeft(k, o, r.eng)
  <2>1. LoopTypes'
    <3>1. /\ op' = [op EXCEPT ![k] = o] /\ running' \in IoOps \cup {Nobody} /\ start_' \in BOOLEAN
          /\ UNCHANGED programVars
      BY <1>5 DEF InputLeft, IoTypes, LoopTypes
    <3> QED BY <1>2, <3>1, YieldsTypes
  <2>2. input_ \in View
    BY DEF IoTypes, LayerTypes
  <2>3. WithInput(r.eng, input_, input_buffer_) \in Engine /\ Unconsumed(r.eng, input_) \in View
    BY <1>3, <2>2, PutFacts
  <2>4. engine' \in Engine /\ input_' \in View
    BY <1>5, <2>3 DEF InputLeft
  <2> QED BY <1>4, <1>5, <2>1, <2>4 DEF InputLeft, IoTypes, LayerTypes
<1>6. ASSUME NEW p \in PCs, Yields(k, [o EXCEPT !.pc = p]) PROVE LoopTypes'
  <2>1. PICK z : z = [o EXCEPT !.pc = p]
    OBVIOUS
  <2>2. z \in IoOp /\ z.moved <= z.size
    BY <1>2, <2>1 DEF IoOp
  <2>3. op' = [op EXCEPT ![k] = z] /\ running' = Nobody /\ start_' = FALSE /\ UNCHANGED programVars
    BY <1>6, <2>1 DEF Yields
  <2> QED BY <2>2, <2>3, YieldsTypes
<1>7. CASE StartReading(k, o, r.eng)
  <2>1. LoopTypes'
    BY <1>6, <1>7 DEF StartReading, PCs
  <2>2. args' \in [IoOps -> Args] /\ engine' = r.eng
    BY <1>7, ReleasedFacts DEF StartReading
  <2> QED BY <1>3, <1>4, <1>7, <2>1, <2>2 DEF StartReading, IoTypes, LayerTypes
<1>8. CASE WaitToRead(k, o, r.eng)
  <2>1. LoopTypes'
    BY <1>6, <1>8 DEF WaitToRead, PCs
  <2> QED BY <1>3, <1>4, <1>8, <2>1 DEF WaitToRead, coreVars, IoTypes, LayerTypes
<1>9. CASE StartWriting(k, o, r.eng)
  <2>1. PICK s : s = UpTo(BufferSize, r.eng.out)
    OBVIOUS
  <2>2. s \in Seq(Nat) /\ Len(s) \in 0 .. Len(r.eng.out) /\ Len(s) \in Nat
    BY <1>3, <2>1, UpToFacts, SslAssumption DEF SslAssumption
  <2>3. From(Len(s) + 1, r.eng.out) \in Seq(Nat)
    BY <1>3, <2>2, FromFacts
  <2>4. engine' \in Engine
    <3>1. engine' = [r.eng EXCEPT !.out = From(Len(s) + 1, r.eng.out)]
      BY <1>3, <1>9, <2>1 DEF StartWriting, Engine
    <3> QED BY <1>3, <2>3, <3>1 DEF Engine
  <2>5. output_buffer_' \in Seq(Nat)
    <3>1. output_buffer_' = Overwritten(output_buffer_, s)
      BY <1>9, <2>1 DEF StartWriting
    <3> QED BY <2>2, <3>1, OverwrittenFacts DEF IoTypes, LayerTypes
  <2>6. LoopTypes'
    <3>1. PICK n \in Nat : n = Len(s)
      BY <2>2
    <3>2. PICK z : z = [o EXCEPT !.pc = "writing", !.size = n, !.moved = 0]
      OBVIOUS
    <3>3. z \in IoOp /\ z.moved <= z.size
      <4>1. z \in IoOp
        BY <1>2, <3>1, <3>2 DEF IoOp, PCs
      <4>2. z.moved = 0 /\ z.size = n
        BY <1>2, <3>2 DEF IoOp
      <4> QED BY <3>1, <4>1, <4>2
    <3>4. op' = [op EXCEPT ![k] = z] /\ running' = Nobody /\ start_' = FALSE /\ UNCHANGED programVars
      BY <1>9, <2>1, <3>1, <3>2 DEF StartWriting, Yields
    <3> QED BY <3>3, <3>4, YieldsTypes
  <2>7. args' \in [IoOps -> Args] /\ pending_write_' = TRUE
        /\ UNCHANGED <<pending_read_, input_buffer_, input_>>
    BY <1>9, ReleasedFacts DEF StartWriting
  <2> QED BY <1>4, <2>4, <2>5, <2>6, <2>7 DEF IoTypes, LayerTypes
<1>10. CASE WaitToWrite(k, o, r.eng)
  <2>1. LoopTypes'
    BY <1>6, <1>10 DEF WaitToWrite, PCs
  <2> QED BY <1>3, <1>4, <1>10, <2>1 DEF WaitToWrite, coreVars, IoTypes, LayerTypes
<1>11. CASE Done(k, o, r.eng)
  <2>1. LoopTypes'
    <3>1. CASE start_
      BY <1>6, <1>11, <3>1 DEF Done, PCs
    <3>2. CASE ~start_
      <4>1. CallHandler(k, o, r.eng, TRUE)
        BY <1>11, <3>2 DEF Done
      <4> QED BY <1>2, <1>3, <4>1, CallHandlerTypes
    <3> QED BY <3>1, <3>2
  <2> QED BY <1>3, <1>4, <1>11, <2>1 DEF Done, coreVars, IoTypes, LayerTypes
<1> QED BY <1>1, <1>5, <1>7, <1>8, <1>9, <1>10, <1>11

LEMMA ResumeTypes ==
  ASSUME IoTypes, NEW k \in IoOps, args[k] # NoArgs => args[k].ec # "nothing",
         args[k].n <= Len(input_buffer_), Resume(k)
  PROVE  IoTypes'
<1>1. /\ args[k] # NoArgs /\ UNCHANGED <<incoming, received, gone, wire>>
      /\ op[k] \in IoOp /\ args[k] \in Args /\ op[k].moved <= op[k].size
  BY DEF Resume, peerVars, IoTypes, LoopTypes, LayerTypes
<1>2. args[k].ec # "nothing"
  BY <1>1
<1>3. ErrorAfter(k) \in Errors
  BY <1>2, ErrorAfterFacts
<1>4. NoArgs \in Args
  BY SslAssumption DEF NoArgs, Args, Outcomes, SslAssumption
<1>5. ASSUME NEW point, args' = [Released(point) EXCEPT ![k] = NoArgs] PROVE args' \in [IoOps -> Args]
  BY <1>4, <1>5, ReleasedFacts
<1>6. ASSUME NEW own \in BOOLEAN, NEW e \in Engine,
             CallHandler(k, [op[k] EXCEPT !.ec_ = ErrorAfter(k)], e, own)
      PROVE  LoopTypes'
  <2>1. PICK z : z = [op[k] EXCEPT !.ec_ = ErrorAfter(k)]
    OBVIOUS
  <2>2. z \in IoOp
    BY <1>1, <1>3, <2>1 DEF IoOp
  <2>3. CallHandler(k, z, e, own)
    BY <1>6, <2>1
  <2> QED BY <2>2, <2>3, CallHandlerTypes
<1>7. engine \in Engine
  BY DEF IoTypes, LayerTypes
<1>8. CASE ResumeInput(k)
  <2>1. PICK view : view = [first |-> 1, last |-> args[k].n]
    OBVIOUS
  <2>2. PICK n \in Nat : n = args[k].n
    BY <1>1, SslAssumption DEF Args, SslAssumption
  <2>3. view \in View /\ view.first <= view.last + 1 /\ view.last <= Len(input_buffer_)
    BY <2>1, <2>2 DEF View
  <2>4. WithInput(engine, view, input_buffer_) \in Engine /\ Unconsumed(engine, view) \in View
    BY <1>7, <2>3, PutFacts
  <2>5. PICK e \in Engine : e = engine' /\ Continue(k, e) /\ input_' \in View
    BY <1>8, <2>1, <2>4 DEF ResumeInput
  <2>6. LoopTypes'
    BY <1>2, <2>5, ContinueTypes
  <2>7. args' \in [IoOps -> Args]
    BY <1>5, <1>8 DEF ResumeInput
  <2> QED BY <1>1, <1>8, <2>5, <2>6, <2>7 DEF ResumeInput, IoTypes, LayerTypes
<1>9. CASE ResumeOutput(k)
  <2>1. LoopTypes'
    <3>1. CASE op[k].want_ = "output"
      <4>1. (~args[k].timer) \in BOOLEAN
        OBVIOUS
      <4> QED BY <1>6, <1>7, <1>9, <3>1, <4>1 DEF ResumeOutput
    <3>2. CASE op[k].want_ # "output"
      <4>1. Continue(k, engine)
        BY <1>9, <3>2 DEF ResumeOutput
      <4> QED BY <1>2, <1>7, <4>1, ContinueTypes
    <3> QED BY <3>1, <3>2
  <2>2. args' \in [IoOps -> Args]
    BY <1>5, <1>9 DEF ResumeOutput
  <2> QED BY <1>1, <1>9, <2>1, <2>2 DEF ResumeOutput, IoTypes, LayerTypes
<1>10. CASE ResumePosted(k)
  <2>1. LoopTypes'
    BY <1>6, <1>7, <1>10 DEF ResumePosted
  <2>2. args' \in [IoOps -> Args]
    BY <1>4, <1>10 DEF ResumePosted, IoTypes, LayerTypes
  <2> QED BY <1>1, <1>10, <2>1, <2>2 DEF ResumePosted, coreVars, IoTypes, LayerTypes
<1> QED BY <1>8, <1>9, <1>10 DEF Resume

\* The next layer, the peer, the program.
LEMMA ArrivesTypes ==
  ASSUME IoTypes, NEW k \in IoOps, NEW n \in 0 .. BufferSize, NEW e \in Errors, Arrives(k, n, e)
  PROVE  args' \in [IoOps -> Args]
<1>1. [n |-> n, ec |-> e, timer |-> FALSE] \in Args
  BY DEF Args, Outcomes
<1> QED BY <1>1 DEF Arrives, IoTypes, LayerTypes

LEMMA TransferTypes ==
  ASSUME IoTypes, NEW k \in IoOps, Transfer(k) \/ TransferFails(k)
  PROVE  IoTypes'
<1>1. 0 \in 0 .. BufferSize /\ BufferSize \in Nat /\ {"none", "eof", "error"} \subseteq Errors
  BY SslAssumption DEF SslAssumption, Errors
<1>2. CASE ReadSome(k)
  <2>1. LoopTypes'
    BY <1>2 DEF ReadSome, programVars, IoTypes, LoopTypes
  <2>2. CASE gone /\ received = Len(incoming) /\ Arrives(k, 0, "eof") /\ UNCHANGED <<input_buffer_, received>>
    <3>1. args' \in [IoOps -> Args]
      BY <1>1, <2>2, ArrivesTypes
    <3> QED BY <1>2, <2>1, <2>2, <3>1 DEF ReadSome, IoTypes, LayerTypes
  <2>3. CASE \E n \in 1 .. BufferSize :
                /\ n <= Len(incoming) - received
                /\ input_buffer_' = Overwritten(input_buffer_, [i \in 1 .. n |-> received + i])
                /\ received' = received + n /\ Arrives(k, n, "none")
    <3>1. PICK n \in 1 .. BufferSize :
                /\ input_buffer_' = Overwritten(input_buffer_, [i \in 1 .. n |-> received + i])
                /\ received' = received + n /\ Arrives(k, n, "none")
      BY <2>3
    <3>2. n \in 0 .. BufferSize /\ n \in Nat /\ received \in Nat
      BY <1>1 DEF IoTypes, LayerTypes
    <3>3. args' \in [IoOps -> Args]
      BY <1>1, <3>1, <3>2, ArrivesTypes
    <3>4. [i \in 1 .. n |-> received + i] \in Seq(Nat)
      BY <3>2
    <3>5. input_buffer_' \in Seq(Nat) /\ received' \in Nat
      BY <3>1, <3>2, <3>4, OverwrittenFacts DEF IoTypes, LayerTypes
    <3> QED BY <1>2, <2>1, <3>3, <3>5 DEF ReadSome, IoTypes, LayerTypes
  <2> QED BY <1>2, <2>2, <2>3 DEF ReadSome
<1>3. CASE WriteSome(k)
  <2>1. PICK n \in 1 .. op[k].size - op[k].moved :
           /\ wire' = wire \o [i \in 1 .. n |-> output_buffer_[op[k].moved + i]]
           /\ op' = [op EXCEPT ![k].moved = @ + n]
           /\ IF op'[k].moved = op[k].size THEN Arrives(k, 0, "none") ELSE UNCHANGED args
    BY <1>3 DEF WriteSome
  <2>2. args' \in [IoOps -> Args]
    <3>1. Arrives(k, 0, "none") \/ args' = args
      BY <2>1
    <3> QED BY <1>1, <3>1, ArrivesTypes DEF IoTypes, LayerTypes
  <2>3. LoopTypes'
    <3>1. PICK m \in Nat : m = op[k].moved + n
      BY DEF IoTypes, LoopTypes, IoOp
    <3>2. PICK z : z = [op[k] EXCEPT !.moved = m]
      OBVIOUS
    <3>3. op[k] \in IoOp
      BY DEF IoTypes, LoopTypes
    <3>4. z \in IoOp /\ z.moved = m /\ z.size = op[k].size
      BY <3>2, <3>3 DEF IoOp
    <3>5. m <= op[k].size
      BY <3>1, <3>3 DEF IoOp
    <3>6. op' = [op EXCEPT ![k] = z]
      BY <2>1, <3>1, <3>2
    <3> QED BY <1>3, <3>4, <3>5, <3>6, YieldsTypes DEF WriteSome, IoTypes, LoopTypes
  <2> QED BY <1>3, <2>2, <2>3 DEF WriteSome, coreVars, peerVars, IoTypes, LayerTypes
<1>4. CASE ReadNothing(k)
  <2>1. args' \in [IoOps -> Args]
    BY <1>1, <1>4, ArrivesTypes DEF ReadNothing
  <2> QED BY <1>4, <2>1 DEF ReadNothing, coreVars, peerVars, programVars, IoTypes, LoopTypes, LayerTypes
<1>5. CASE TransferFails(k)
  <2>1. args' \in [IoOps -> Args]
    BY <1>1, <1>5, ArrivesTypes DEF TransferFails
  <2> QED BY <1>5, <2>1 DEF TransferFails, coreVars, peerVars, programVars, IoTypes, LoopTypes, LayerTypes
<1> QED BY <1>2, <1>3, <1>4, <1>5 DEF Transfer

LEMMA OutsideTypes ==
  ASSUME IoTypes, PeerSends \/ PeerGone PROVE IoTypes'
<1>1. CASE PeerSends
  <2>1. incoming' \in Seq(Units)
    <3>1. PICK u \in MaySend : incoming' = Append(incoming, u)
      BY <1>1 DEF PeerSends
    <3>2. u \in Units
      BY <3>1 DEF MaySend, Units
    <3> QED BY <3>1, <3>2 DEF IoTypes, LayerTypes
  <2> QED BY <1>1, <2>1 DEF PeerSends, ioVars, coreVars, programVars, IoTypes, LoopTypes, LayerTypes
<1>2. CASE PeerGone
  BY <1>2 DEF PeerGone, ioVars, coreVars, programVars, IoTypes, LoopTypes, LayerTypes
<1> QED BY <1>1, <1>2

LEMMA ProgramTypes ==
  ASSUME IoTypes, NEW k \in IoOps, Start(k) \/ Cancel(k) PROVE IoTypes'
<1>1. CASE Start(k)
  BY <1>1 DEF Start, coreVars, peerVars, IoTypes, LoopTypes, LayerTypes
<1>2. CASE Cancel(k)
  <2>1. op[k] \in IoOp
    BY DEF IoTypes, LoopTypes
  <2>2. PICK z : z = [op[k] EXCEPT !.cancelled = TRUE]
    OBVIOUS
  <2>3. z \in IoOp /\ z.moved = op[k].moved /\ z.size = op[k].size
    BY <2>1, <2>2 DEF IoOp
  <2>4. op' = [op EXCEPT ![k] = z]
    BY <1>2, <2>2 DEF Cancel
  <2>5. op' \in [IoOps -> IoOp] /\ \A j \in IoOps : op'[j].moved <= op'[j].size
    BY <2>3, <2>4 DEF IoTypes, LoopTypes
  <2>6. TimerArgs \in Args /\ [n |-> 0, ec |-> "aborted", timer |-> FALSE] \in Args
    BY SslAssumption DEF TimerArgs, Args, Outcomes, Errors, SslAssumption
  <2>7. args' \in [IoOps -> Args]
    BY <1>2, <2>6 DEF Cancel, IoTypes, LayerTypes
  <2> QED BY <1>2, <2>5, <2>7 DEF Cancel, coreVars, peerVars, IoTypes, LoopTypes, LayerTypes
<1> QED BY <1>1, <1>2

-----------------------------------------------------------------------------
(* The steps keep the control.                                             *)

\* A step of operation k, which is under way, and at most ends waits of others.
Touches(k) ==
    /\ Outstanding(k)
    /\ running' = running \/ {running, running'} \subseteq {k, Nobody}
    /\ \A j \in IoOps \ {k} :
         /\ op'[j] = op[j] /\ ended'[j] = ended[j]
         /\ \/ args'[j] = args[j]
            \/ args[j] = NoArgs /\ args'[j] = TimerArgs /\ op[j].pc \in {"wait_read", "wait_write"}
    /\ ended'[k] = ended[k] \/ (op'[k] = Idle /\ running' # k)

LEMMA TouchesKeeps ==
  ASSUME IoTypes, Control, NEW k \in IoOps, Touches(k), Fit(k)'
  PROVE  Control'
<1>0. ASSUME NEW j \in IoOps \ {k} PROVE op'[j] = op[j] /\ (running' = j <=> running = j)
  <2>1. j # Nobody /\ k # j
    BY DEF IoOps, Nobody
  <2> QED BY <2>1 DEF Touches
<1>1. \A j \in IoOps : Outstanding(j)' => Outstanding(j)
  <2>1. Outstanding(k)
    BY DEF Touches
  <2>2. ASSUME NEW j \in IoOps \ {k} PROVE Outstanding(j)' => Outstanding(j)
    BY <1>0 DEF Outstanding
  <2> QED BY <2>1, <2>2
<1>2. ASSUME NEW j \in IoOps \ {k} PROVE Fit(j)'
  <2>1. Fit(j)
    BY DEF Control
  <2>2. op'[j] = op[j]
    BY DEF Touches
  <2>3. running' = j <=> running = j
    BY DEF Touches, IoOps, Nobody
  <2>4. CASE args'[j] = args[j]
    BY <2>1, <2>2, <2>3, <2>4 DEF Fit
  <2>5. CASE args'[j] = TimerArgs /\ op[j].pc \in {"wait_read", "wait_write"}
    <3>1. args'[j].n = 0 /\ args'[j].ec \notin {"nothing", "eof"} /\ op'[j].pc # "idle"
      BY <2>2, <2>5 DEF TimerArgs
    <3> QED BY <2>1, <2>2, <2>3, <3>1 DEF Fit
  <2> QED BY <2>4, <2>5 DEF Touches
<1>3. ASSUME NEW j \in IoOps, ended'[j] # ended[j] PROVE ~Outstanding(j)' /\ Outstanding(j) /\ j = k
  BY <1>3 DEF Touches, Outstanding
<1>4. ASSUME NEW j \in IoOps PROVE Fit(j)' /\ (Failed(j)' => ~Outstanding(j)')
  BY <1>1, <1>2, <1>3 DEF Control, Failed
<1>5. (ended["read"] = "eof" => ~Outstanding("read"))'
  BY <1>1, <1>3 DEF Control, IoOps
<1>6. (Outstanding("handshake") => ended["handshake"] = "none")'
  BY <1>1, <1>3 DEF Control, IoOps
<1>7. ASSUME NEW j \in IoOps \ {"handshake"}, Outstanding(j)' PROVE ended'["handshake"] = "success"
  <2>1. ended["handshake"] = "success" /\ ~Outstanding("handshake")
    BY <1>1, <1>7 DEF Control
  <2> QED BY <1>3, <2>1 DEF IoOps
<1>8. \A i, j \in Readers : Outstanding(i)' /\ Outstanding(j)' => i = j
  BY <1>1 DEF Control, Readers
<1> QED BY <1>4, <1>5, <1>6, <1>7, <1>8 DEF Control

LEMMA CalledControl ==
  ASSUME IoTypes, Control, NEW k \in IoOps, NEW o \in IoOp, NEW eng, NEW own,
         Outstanding(k), running \in {k, Nobody}, CallHandler(k, o, eng, own),
         \A j \in IoOps \ {k} :
            \/ args'[j] = args[j]
            \/ args[j] = NoArgs /\ args'[j] = TimerArgs /\ op[j].pc \in {"wait_read", "wait_write"},
         args'[k] = NoArgs
  PROVE  Control'
<1>1. Nobody # k
  BY DEF IoOps, Nobody
<1>2. Touches(k)
  <2>1. op'[k] = Idle /\ \A j \in IoOps \ {k} : op'[j] = op[j] /\ ended'[j] = ended[j]
    BY DEF CallHandler, IoTypes, LoopTypes
  <2> QED BY <1>1, <2>1 DEF Touches, CallHandler
<1>3. Fit(k)'
  <2>1. op'[k] = Idle /\ running' = Nobody
    BY DEF CallHandler, IoTypes, LoopTypes
  <2> QED BY <1>1, <2>1 DEF Fit, Suits, Idle, NoArgs
<1> QED BY <1>2, <1>3, TouchesKeeps

\* Those that a released timer lets go.
LEMMA OthersReleased ==
  ASSUME IoTypes, NEW k \in IoOps, NEW point \in {"wait_read", "wait_write"},
         args' = Released(point) \/ args' = [Released(point) EXCEPT ![k] = NoArgs]
  PROVE  \A j \in IoOps \ {k} :
            \/ args'[j] = args[j]
            \/ args[j] = NoArgs /\ args'[j] = TimerArgs /\ op[j].pc \in {"wait_read", "wait_write"}
  BY ReleasedFacts

\* The operation in the loop goes on, or waits for its next handler.
LEMMA YieldsControl ==
  ASSUME IoTypes, Control, NEW k \in IoOps, NEW o \in IoOp, running \in {k, Nobody},
         Outstanding(k), op' = [op EXCEPT ![k] = o], ended' = ended, Suits(o),
         k = "write" => o.pc \notin {"reading", "wait_read"},
         running' = IF o.pc = "idle" THEN k ELSE Nobody,
         \A j \in IoOps \ {k} :
            \/ args'[j] = args[j]
            \/ args[j] = NoArgs /\ args'[j] = TimerArgs /\ op[j].pc \in {"wait_read", "wait_write"},
         args'[k] = NoArgs
  PROVE  Control'
<1>1. Nobody # k
  BY DEF IoOps, Nobody
<1>2. op'[k] = o /\ \A j \in IoOps \ {k} : op'[j] = op[j]
  BY DEF IoTypes, LoopTypes
<1>3. Touches(k)
  BY <1>1, <1>2 DEF Touches
<1>4. Fit(k)'
  BY <1>1, <1>2 DEF Fit, NoArgs
<1> QED BY <1>3, <1>4, TouchesKeeps

LEMMA TryControl ==
  ASSUME IoTypes, Control, NEW k \in IoOps, Try(k)
  PROVE  Control'
<1>1. PICK r, o : Called(k, r, o) /\
           \/ WantOf(r) = "input_and_retry" /\ InputLeft(k, o, r.eng)
           \/ WantOf(r) = "input_and_retry" /\ StartReading(k, o, r.eng)
           \/ WantOf(r) = "input_and_retry" /\ WaitToRead(k, o, r.eng)
           \/ WantOf(r) \in {"output", "output_and_retry"} /\ StartWriting(k, o, r.eng)
           \/ WantOf(r) \in {"output", "output_and_retry"} /\ WaitToWrite(k, o, r.eng)
           \/ WantOf(r) = "nothing" /\ Done(k, o, r.eng)
  BY TryCases
<1>2. o \in IoOp /\ o.want_ = WantOf(r) /\ o.pc = op[k].pc
  BY <1>1, CalledFacts
<1>3. k = "write" => WantOf(r) # "input_and_retry"
  BY <1>1, CallFacts DEF Called
<1>4. running = k /\ Outstanding(k) /\ op[k].pc = "idle" /\ args[k] = NoArgs /\ k # Nobody
  BY TryCases DEF Control, Fit, Outstanding, IoOps, Nobody
<1>5. args'[k] = args[k]
  <2>1. \A point \in {"wait_read", "wait_write"} : Released(point)[k] = args[k]
    BY <1>4, ReleasedFacts
  <2> QED BY <1>1, <2>1 DEF InputLeft, StartReading, WaitToRead, StartWriting, WaitToWrite, Done, coreVars
<1>6. \A j \in IoOps \ {k} :
         \/ args'[j] = args[j]
         \/ args[j] = NoArgs /\ args'[j] = TimerArgs /\ op[j].pc \in {"wait_read", "wait_write"}
  <2>1. args' = args \/ \E point \in {"wait_read", "wait_write"} : args' = Released(point)
    BY <1>1 DEF InputLeft, StartReading, WaitToRead, StartWriting, WaitToWrite, Done
  <2> QED BY <2>1, OthersReleased
<1>7. CASE WantOf(r) = "nothing" /\ Done(k, o, r.eng) /\ ~start_
  <2>1. CallHandler(k, o, r.eng, TRUE)
    BY <1>7 DEF Done
  <2> QED BY <1>2, <1>4, <1>5, <1>6, <2>1, CalledControl
<1>8. ASSUME NEW z \in IoOp, op' = [op EXCEPT ![k] = z], ended' = ended, z.want_ = WantOf(r), Suits(z),
             k = "write" => z.pc \notin {"reading", "wait_read"},
             running' = IF z.pc = "idle" THEN k ELSE Nobody
      PROVE  Control'
  BY <1>4, <1>5, <1>6, <1>8, YieldsControl
<1>9. CASE WantOf(r) = "input_and_retry" /\ InputLeft(k, o, r.eng)
  <2>1. op' = [op EXCEPT ![k] = o] /\ ended' = ended /\ running' = k /\ o.pc = "idle"
    BY <1>2, <1>4, <1>9 DEF InputLeft, programVars
  <2> QED BY <1>2, <1>8, <2>1 DEF Suits
<1>10. ASSUME NEW z \in IoOp, z.pc # "idle", Suits(z), z.want_ = WantOf(r),
              op' = [op EXCEPT ![k] = z], running' = Nobody, ended' = ended
       PROVE  Control'
  <2>1. k = "write" => z.pc \notin {"reading", "wait_read"}
    BY <1>3, <1>10 DEF Suits
  <2> QED BY <1>8, <1>10, <2>1
<1>a. ASSUME NEW p \in PCs \ {"idle"}, Yields(k, [o EXCEPT !.pc = p]),
              p \in {"reading", "wait_read"} => WantOf(r) = "input_and_retry",
              p \in {"writing", "wait_write"} => WantOf(r) \in {"output", "output_and_retry"},
              p = "posted" => WantOf(r) = "nothing"
       PROVE  Control'
  <2>1. PICK z : z = [o EXCEPT !.pc = p]
    OBVIOUS
  <2>2. z \in IoOp /\ z.pc = p /\ z.want_ = WantOf(r)
    BY <1>2, <2>1 DEF IoOp
  <2>3. Suits(z)
    BY <1>a, <2>2 DEF Suits, PCs
  <2>4. op' = [op EXCEPT ![k] = z] /\ running' = Nobody /\ ended' = ended
    BY <1>a, <2>1 DEF Yields, programVars
  <2> QED BY <1>10, <2>2, <2>3, <2>4
<1>11. CASE WantOf(r) = "input_and_retry" /\ StartReading(k, o, r.eng)
  <2>1. Yields(k, [o EXCEPT !.pc = "reading"])
    BY <1>11 DEF StartReading
  <2> QED BY <1>a, <1>11, <2>1 DEF PCs
<1>12. CASE WantOf(r) = "input_and_retry" /\ WaitToRead(k, o, r.eng)
  <2>1. Yields(k, [o EXCEPT !.pc = "wait_read"])
    BY <1>12 DEF WaitToRead
  <2> QED BY <1>a, <1>12, <2>1 DEF PCs
<1>13. CASE WantOf(r) \in {"output", "output_and_retry"} /\ WaitToWrite(k, o, r.eng)
  <2>1. Yields(k, [o EXCEPT !.pc = "wait_write"])
    BY <1>13 DEF WaitToWrite
  <2> QED BY <1>a, <1>13, <2>1 DEF PCs
<1>14. CASE WantOf(r) = "nothing" /\ Done(k, o, r.eng) /\ start_
  <2>1. Yields(k, [o EXCEPT !.pc = "posted"])
    BY <1>14 DEF Done
  <2> QED BY <1>a, <1>14, <2>1 DEF PCs
<1>15. CASE WantOf(r) \in {"output", "output_and_retry"} /\ StartWriting(k, o, r.eng)
  <2>1. PICK n \in Nat : n = Len(UpTo(BufferSize, r.eng.out))
    <3>1. r.eng.out \in Seq(Nat)
      BY <1>1, CallFacts DEF Called, Takes, Engine
    <3>2. UpTo(BufferSize, r.eng.out) \in Seq(Nat)
      BY <3>1, UpToFacts, SslAssumption DEF SslAssumption
    <3> QED BY <3>2, LenProperties
  <2>2. PICK z : z = [o EXCEPT !.pc = "writing", !.size = n, !.moved = 0]
    OBVIOUS
  <2>3. op' = [op EXCEPT ![k] = z] /\ running' = Nobody /\ ended' = ended
    BY <1>15, <2>1, <2>2 DEF StartWriting, Yields, programVars
  <2>4. z \in IoOp /\ z.pc = "writing" /\ z.want_ = WantOf(r)
    BY <1>2, <2>2 DEF IoOp, PCs
  <2>5. Suits(z)
    BY <1>15, <2>4 DEF Suits
  <2> QED BY <1>10, <2>3, <2>4, <2>5
<1> QED BY <1>1, <1>7, <1>9, <1>11, <1>12, <1>13, <1>14, <1>15

LEMMA ResumeControl ==
  ASSUME IoTypes, Control, NEW k \in IoOps, Resume(k)
  PROVE  Control'
<1>1. /\ args[k] # NoArgs /\ running = Nobody /\ op[k].pc # "idle" /\ Outstanding(k)
      /\ op[k] \in IoOp /\ args[k].ec # "nothing"
  BY DEF Resume, Control, Fit, Outstanding, Idle, IoTypes, LoopTypes
<1>2. ErrorAfter(k) \in Errors
  BY <1>1, ErrorAfterFacts
<1>3. /\ args'[k] = NoArgs
      /\ \A j \in IoOps \ {k} :
           \/ args'[j] = args[j]
           \/ args[j] = NoArgs /\ args'[j] = TimerArgs /\ op[j].pc \in {"wait_read", "wait_write"}
  <2>1. \/ args' = [args EXCEPT ![k] = NoArgs]
        \/ \E point \in {"wait_read", "wait_write"} : args' = [Released(point) EXCEPT ![k] = NoArgs]
    BY DEF Resume, ResumeInput, ResumeOutput, ResumePosted
  <2>2. CASE args' = [args EXCEPT ![k] = NoArgs]
    BY <2>2 DEF IoTypes, LayerTypes
  <2>3. CASE \E point \in {"wait_read", "wait_write"} : args' = [Released(point) EXCEPT ![k] = NoArgs]
    <3>1. args'[k] = NoArgs
      BY <2>3, ReleasedFacts
    <3> QED BY <2>3, <3>1, OthersReleased
  <2> QED BY <2>1, <2>2, <2>3
<1>4. ASSUME NEW o \in IoOp, NEW eng, NEW own, CallHandler(k, o, eng, own) PROVE Control'
  BY <1>1, <1>3, <1>4, CalledControl
<1>5. ASSUME NEW eng, Continue(k, eng) PROVE Control'
  <2>1. PICK o : o = [op[k] EXCEPT !.ec_ = ErrorAfter(k), !.pc = "idle"]
    OBVIOUS
  <2>2. o \in IoOp /\ o.pc = "idle"
    BY <1>1, <1>2, <2>1 DEF IoOp, PCs
  <2>3. \/ CallHandler(k, o, eng, TRUE)
        \/ op' = [op EXCEPT ![k] = o] /\ running' = k /\ UNCHANGED programVars
    BY <1>5, <2>1 DEF Continue
  <2>4. CASE CallHandler(k, o, eng, TRUE)
    BY <1>4, <2>2, <2>4
  <2>5. CASE op' = [op EXCEPT ![k] = o] /\ running' = k /\ UNCHANGED programVars
    <3>1. Suits(o) /\ ended' = ended /\ running' = IF o.pc = "idle" THEN k ELSE Nobody
      BY <2>2, <2>5 DEF Suits, programVars
    <3>2. k = "write" => o.pc \notin {"reading", "wait_read"}
      BY <2>2
    <3> QED BY <1>1, <1>3, <2>2, <2>5, <3>1, <3>2, YieldsControl
  <2> QED BY <2>3, <2>4, <2>5
<1>6. ASSUME NEW eng, NEW own, CallHandler(k, [op[k] EXCEPT !.ec_ = ErrorAfter(k)], eng, own) PROVE Control'
  <2>1. PICK z : z = [op[k] EXCEPT !.ec_ = ErrorAfter(k)]
    OBVIOUS
  <2>2. z \in IoOp
    BY <1>1, <1>2, <2>1 DEF IoOp
  <2> QED BY <1>4, <1>6, <2>1, <2>2
<1> QED BY <1>5, <1>6 DEF Resume, ResumeInput, ResumeOutput, ResumePosted

\* A transfer moves on, or an operation is told to stop.
LEMMA MovesControl ==
  ASSUME IoTypes, Control, NEW k \in IoOps, op[k].pc # "idle", running' = running, ended' = ended,
         NEW z \in IoOp, op' = [op EXCEPT ![k] = z], z.pc = op[k].pc, z.want_ = op[k].want_,
         NEW a, args' = [args EXCEPT ![k] = a], a = args[k] \/ (a \in Args /\ a.ec # "nothing"),
         \/ a = args[k]
         \/ a.n = 0 /\ a.ec # "eof"
         \/ op[k].pc = "reading" /\ (a.n = 0 \/ a.ec = "none")
  PROVE  Control'
<1>1. op'[k] = z /\ args'[k] = a /\ \A j \in IoOps \ {k} : op'[j] = op[j] /\ args'[j] = args[j]
  BY DEF IoTypes, LoopTypes, LayerTypes
<1>2. Fit(k) /\ Outstanding(k) /\ running # k /\ z # Idle
  BY DEF Control, Outstanding, Idle, Fit
<1>3. Touches(k)
  BY <1>1, <1>2 DEF Touches
<1>4. Fit(k)'
  <2>1. CASE a = args[k]
    BY <1>1, <1>2, <2>1 DEF Fit, Suits
  <2>2. CASE /\ a \in Args /\ a.ec # "nothing"
             /\ (a.n = 0 /\ a.ec # "eof") \/ (op[k].pc = "reading" /\ (a.n = 0 \/ a.ec = "none"))
    <3>1. Suits(op[k])'
      BY <1>1, <1>2 DEF Fit, Suits
    <3>2. (a.n > 0 => op[k].pc = "reading" /\ a.ec = "none") /\ (a.ec = "eof" => op[k].pc = "reading")
      BY <2>2
    <3>3. (/\ k = "write" => op[k].pc \notin {"reading", "wait_read"}
           /\ running = k => op[k].pc = "idle"
           /\ op[k].pc = "idle" => args[k] = NoArgs /\ (op[k] = Idle \/ running = k)
           /\ args[k] # NoArgs => args[k].ec # "nothing")'
      BY <1>1, <1>2, <2>2 DEF Fit
    <3> QED BY <1>1, <3>1, <3>2, <3>3 DEF Fit
  <2> QED BY <2>1, <2>2
<1> QED BY <1>3, <1>4, TouchesKeeps

LEMMA TransferControl ==
  ASSUME IoTypes, Control, NEW k \in IoOps, Transfer(k) \/ TransferFails(k) \/ (Cancel(k) /\ op[k].pc # "idle")
  PROVE  Control'
<1>1. op[k].pc # "idle" /\ running' = running /\ ended' = ended /\ op[k] \in IoOp /\ args[k] \in Args
  BY DEF Transfer, TransferFails, Cancel, ReadSome, WriteSome, ReadNothing, InTransfer, programVars,
         IoTypes, LoopTypes, LayerTypes
<1>2. op = [op EXCEPT ![k] = op[k]] /\ args = [args EXCEPT ![k] = args[k]]
  BY DEF IoTypes, LoopTypes, LayerTypes
<1>3. ASSUME NEW n \in 0 .. BufferSize, NEW e \in Errors, NEW t \in BOOLEAN,
             args' = [args EXCEPT ![k] = [n |-> n, ec |-> e, timer |-> t]],
             (n = 0 /\ e # "eof") \/ (op[k].pc = "reading" /\ (n = 0 \/ e = "none")),
             NEW z \in IoOp, op' = [op EXCEPT ![k] = z], z.pc = op[k].pc, z.want_ = op[k].want_
      PROVE  Control'
  <2>1. PICK a : a = [n |-> n, ec |-> e, timer |-> t]
    OBVIOUS
  <2>2. /\ a \in Args /\ a.ec # "nothing"
        /\ (a.n = 0 /\ a.ec # "eof") \/ (op[k].pc = "reading" /\ (a.n = 0 \/ a.ec = "none"))
    BY <1>3, <2>1 DEF Args, Outcomes, Errors
  <2>3. args' = [args EXCEPT ![k] = a]
    BY <1>3, <2>1
  <2> QED BY <1>1, <1>3, <2>2, <2>3, MovesControl
<1>4. 0 \in 0 .. BufferSize /\ BufferSize \in Nat /\ {"none", "eof", "error", "aborted"} \subseteq Errors
  BY SslAssumption DEF SslAssumption, Errors
<1>5. CASE ReadSome(k)
  <2>1. op' = [op EXCEPT ![k] = op[k]] /\ op[k].pc = "reading"
    BY <1>2, <1>5 DEF ReadSome, InTransfer
  <2>2. PICK n \in 0 .. BufferSize, e \in Errors :
          Arrives(k, n, e) /\ op[k].pc = "reading" /\ (n = 0 \/ e = "none")
    <3>1. CASE \E n \in 1 .. BufferSize : Arrives(k, n, "none")
      BY <1>4, <2>1, <3>1
    <3>2. CASE Arrives(k, 0, "eof")
      BY <1>4, <2>1, <3>2
    <3> QED BY <1>5, <3>1, <3>2 DEF ReadSome
  <2> QED BY <1>1, <1>3, <2>1, <2>2 DEF Arrives
<1>6. CASE WriteSome(k)
  <2>1. PICK n \in 1 .. op[k].size - op[k].moved :
           /\ op' = [op EXCEPT ![k].moved = @ + n]
           /\ IF op'[k].moved = op[k].size THEN Arrives(k, 0, "none") ELSE UNCHANGED args
    BY <1>6 DEF WriteSome
  <2>2. PICK m \in Nat : m = op[k].moved + n
    BY <1>1 DEF IoOp
  <2>3. PICK z : z = [op[k] EXCEPT !.moved = m]
    OBVIOUS
  <2>4. z \in IoOp /\ z.pc = op[k].pc /\ z.want_ = op[k].want_ /\ op' = [op EXCEPT ![k] = z]
    BY <1>1, <2>1, <2>2, <2>3 DEF IoOp
  <2>5. Arrives(k, 0, "none") \/ args' = args
    BY <2>1
  <2>6. CASE Arrives(k, 0, "none")
    BY <1>3, <1>4, <2>4, <2>6 DEF Arrives
  <2>7. CASE args' = args
    BY <1>1, <1>2, <2>4, <2>7, MovesControl
  <2> QED BY <2>5, <2>6, <2>7
<1>7. CASE ReadNothing(k)
  BY <1>1, <1>2, <1>3, <1>4, <1>7 DEF ReadNothing, Arrives
<1>8. CASE TransferFails(k)
  BY <1>1, <1>2, <1>3, <1>4, <1>8 DEF TransferFails, Arrives
<1>9. CASE Cancel(k)
  <2>1. PICK z : z = [op[k] EXCEPT !.cancelled = TRUE]
    OBVIOUS
  <2>2. z \in IoOp /\ z.pc = op[k].pc /\ z.want_ = op[k].want_ /\ op' = [op EXCEPT ![k] = z]
    BY <1>1, <1>9, <2>1 DEF IoOp, Cancel
  <2>3. CASE args[k] # NoArgs
    BY <1>1, <1>2, <1>9, <2>2, <2>3, MovesControl DEF Cancel
  <2>4. CASE args[k] = NoArgs
    <3>1. PICK t \in BOOLEAN : args' = [args EXCEPT ![k] = [n |-> 0, ec |-> "aborted", timer |-> t]]
      BY <1>9, <2>4 DEF Cancel, TimerArgs
    <3> QED BY <1>3, <1>4, <2>2, <3>1
  <2> QED BY <2>3, <2>4
<1> QED BY <1>1, <1>5, <1>6, <1>7, <1>8, <1>9 DEF Transfer

LEMMA StartControl ==
  ASSUME "early_shutdown" \notin Uses, IoTypes, Control, NEW k \in IoOps, Start(k)
  PROVE  Control'
<1>1. /\ running = Nobody /\ running' = k /\ op' = op /\ args' = args /\ ended' = ended /\ k # Nobody
      /\ MayStart(k) /\ ~Outstanding(k)
  BY DEF Start, MayStart, IoOps, Nobody
<1>2. \A j \in IoOps \ {k} : Outstanding(j)' <=> Outstanding(j)
  BY <1>1 DEF Outstanding, IoOps, Nobody
<1>3. ASSUME NEW j \in IoOps PROVE Fit(j)'
  <2>1. Fit(j) /\ j # Nobody
    BY DEF Control, IoOps, Nobody
  <2>2. j = k => op[j] = Idle
    BY <1>1 DEF Outstanding
  <2>5. Idle.pc = "idle"
    BY DEF Idle
  <2>6. Suits(op[j])'
    BY <1>1, <2>1 DEF Fit, Suits
  <2>3. CASE j = k
    BY <1>1, <2>1, <2>2, <2>3, <2>5, <2>6 DEF Fit
  <2>4. CASE j # k
    BY <1>1, <2>1, <2>4 DEF Fit, Suits
  <2> QED BY <2>3, <2>4
<1>4. \A j \in IoOps : Failed(j)' => ~Outstanding(j)'
  BY <1>1, <1>2 DEF Control, Failed, MayStart, Broken
<1>5. (ended["read"] = "eof" => ~Outstanding("read"))'
  BY <1>1, <1>2 DEF Control, MayStart, IoOps
<1>6. (Outstanding("handshake") => ended["handshake"] = "none")'
  BY <1>1, <1>2 DEF Control, MayStart, IoOps
<1>7. (\A j \in IoOps \ {"handshake"} : Outstanding(j) => ended["handshake"] = "success")'
  BY <1>1, <1>2 DEF Control, MayStart
<1>8. k \in Readers => \A j \in Readers : ~Outstanding(j)
  <2>1. CASE k = "handshake"
    BY <1>1, <2>1 DEF Control, MayStart, Readers, IoOps
  <2>2. CASE k = "read"
    <3>1. ended["handshake"] = "success" /\ ~Outstanding("shutdown")
      BY <1>1, <2>2 DEF MayStart
    <3> QED BY <1>1, <2>2, <3>1 DEF Control, Readers, IoOps
  <2>3. CASE k = "shutdown"
    BY <1>1, <2>3 DEF MayStart, Readers
  <2> QED BY <2>1, <2>2, <2>3 DEF Readers, IoOps
<1>9. (\A i, j \in Readers : Outstanding(i) /\ Outstanding(j) => i = j)'
  BY <1>2, <1>8 DEF Control, Readers
<1> QED BY <1>3, <1>4, <1>5, <1>6, <1>7, <1>9 DEF Control

LEMMA ControlStep ==
  ASSUME "early_shutdown" \notin Uses, IoTypes, Control, SslNext
  PROVE  Control'
<1>1. ASSUME NEW k \in IoOps, Cancel(k) PROVE Control'
  <2>1. op[k].pc # "idle"
    BY <1>1 DEF Cancel, Outstanding, Control, Fit, IoOps, Nobody
  <2> QED BY <1>1, <2>1, TransferControl
<1>2. CASE PeerSends \/ PeerGone
  <2>1. UNCHANGED <<op, args, running, ended>>
    BY <1>2 DEF PeerSends, PeerGone, ioVars, programVars
  <2> QED BY <2>1 DEF Control, Fit, Suits, Failed, Outstanding
<1>3. ASSUME NEW k \in IoOps, LoopStep(k) PROVE Control'
  BY <1>3, TryControl, ResumeControl DEF LoopStep
<1>4. ASSUME NEW k \in IoOps, Transfer(k) \/ TransferFails(k) PROVE Control'
  BY <1>4, TransferControl
<1>5. ASSUME NEW k \in IoOps, Start(k) PROVE Control'
  BY <1>5, StartControl
<1> QED BY <1>1, <1>2, <1>3, <1>4, <1>5 DEF SslNext

-----------------------------------------------------------------------------
(* The units stay in order.                                                *)

\* A call takes units from the front.
LEMMA TakesOrder ==
  ASSUME IoTypes, NEW e, NEW c, Takes(e, c), Aligned(engine, input_, input_buffer_)
  PROVE  Aligned(e, input_, input_buffer_) /\ Edge(e, input_) = Edge(engine, input_)
<1>1. /\ engine.in \in Seq(Nat) /\ engine.eaten \in Nat /\ Len(engine.in) \in Nat
      /\ c \in 0 .. Len(engine.in) /\ e.in = From(c + 1, engine.in) /\ e.eaten = engine.eaten + c
      /\ input_.first \in Nat /\ input_.last \in Nat /\ Held(input_) \in Int
  <2>1. engine \in Engine /\ input_ \in View
    BY DEF IoTypes, LayerTypes
  <2>2. engine.in \in Seq(Nat) /\ engine.eaten \in Nat
    BY <2>1 DEF Engine
  <2>3. Len(engine.in) \in Nat
    BY <2>2
  <2>4. c \in 0 .. Len(engine.in) /\ e.in = From(c + 1, engine.in) /\ e.eaten = engine.eaten + c
    BY DEF Takes
  <2>5. input_.first \in Nat /\ input_.last \in Nat
    BY <2>1 DEF View
  <2>6. Held(input_) \in Int
    BY <2>5 DEF Held
  <2> QED BY <2>2, <2>3, <2>4, <2>5, <2>6
<1>2. Len(e.in) = Len(engine.in) - c /\ \A i \in 1 .. Len(engine.in) - c : e.in[i] = engine.in[c + i]
  BY <1>1, FromFacts
<1>3. e.eaten + Len(e.in) = engine.eaten + Len(engine.in)
  BY <1>1, <1>2
<1>4. ASSUME NEW i \in 1 .. Len(e.in) PROVE e.in[i] = e.eaten + i
  <2>0. PICK l, m \in Nat : l = Len(engine.in) /\ m = engine.eaten
    BY <1>1
  <2>5. c \in 0 .. l /\ Len(e.in) = l - c
    BY <1>1, <1>2, <2>0
  <2>6. i \in 1 .. l - c
    BY <2>5
  <2>1. c + i \in 1 .. l /\ i \in 1 .. l - c
    BY <2>0, <2>5, <2>6
  <2>2. engine.in[c + i] = m + (c + i)
    BY <2>0, <2>1 DEF Aligned
  <2>3. e.in[i] = m + (c + i) /\ e.eaten = m + c
    BY <1>1, <1>2, <2>0, <2>1, <2>2
  <2>4. c \in Nat /\ i \in Nat
    BY <1>1, <2>0, <2>1
  <2> QED BY <2>0, <2>3, <2>4
<1>5. Edge(e, input_) = Edge(engine, input_)
  BY <1>3 DEF Edge
<1>6. \A i \in 1 .. Held(input_) : input_buffer_[input_.first + i - 1] = e.eaten + Len(e.in) + i
  BY <1>3 DEF Aligned
<1> QED BY <1>4, <1>5, <1>6 DEF Aligned

\* put_input moves units from the view to the engine.
LEMMA PutOrder ==
  ASSUME IoTypes, NEW e \in Engine, NEW view \in View, Aligned(e, view, input_buffer_)
  PROVE  /\ Aligned(WithInput(e, view, input_buffer_), Unconsumed(e, view), input_buffer_)
         /\ Edge(WithInput(e, view, input_buffer_), Unconsumed(e, view)) = Edge(e, view)
<1>1. view.first <= view.last + 1 /\ view.last <= Len(input_buffer_)
  BY DEF Aligned
<1>2. PICK n \in Nat : n = Fits(e, view) /\ n <= Held(view)
  BY <1>1, PutFacts DEF Held, View
<1>3. PICK g : g = WithInput(e, view, input_buffer_)
  OBVIOUS
<1>4. PICK v : v = Unconsumed(e, view)
  OBVIOUS
<1>5. g \in Engine /\ v \in View /\ v = [first |-> view.first + n, last |-> view.last]
  BY <1>1, <1>2, <1>3, <1>4, PutFacts
<1>6. PICK new : new = [i \in 1 .. n |-> input_buffer_[view.first + i - 1]]
  OBVIOUS
<1>7. g = [e EXCEPT !.in = e.in \o new]
  BY <1>1, <1>2, <1>3, <1>6, PutFacts
<1>8. e.in \in Seq(Nat) /\ e.eaten \in Nat /\ view.first \in Nat /\ view.last \in Nat
  BY DEF Engine, View
<1>a. ASSUME NEW i \in 1 .. n PROVE new[i] = e.eaten + Len(e.in) + i
  <2>1. i \in 1 .. Held(view)
    BY <1>2, <1>8 DEF Held
  <2>2. input_buffer_[view.first + i - 1] = e.eaten + Len(e.in) + i
    BY <2>1 DEF Aligned
  <2> QED BY <1>6, <2>2
<1>9. g.eaten = e.eaten /\ Len(g.in) = Len(e.in) + n
      /\ \A i \in 1 .. Len(g.in) : g.in[i] = IF i <= Len(e.in) THEN e.in[i] ELSE new[i - Len(e.in)]
  <2>1. new \in Seq(Nat) /\ Len(new) = n
    <3>1. \A i \in 1 .. n : new[i] \in Nat
      BY <1>8, <1>a
    <3> QED BY <1>6, <3>1
  <2>2. g.eaten = e.eaten /\ g.in = e.in \o new
    BY <1>7 DEF Engine
  <2>3. PICK s \in Seq(Nat) : s = e.in
    BY <1>8
  <2>4. /\ Len(s \o new) = Len(s) + n
        /\ \A i \in 1 .. Len(s) + n : (s \o new)[i] = IF i <= Len(s) THEN s[i] ELSE new[i - Len(s)]
    BY <2>1, ConcatProperties
  <2> QED BY <2>2, <2>3, <2>4
<1>10. ASSUME NEW i \in 1 .. Len(g.in) PROVE g.in[i] = g.eaten + i
  <2>1. CASE i <= Len(e.in)
    BY <1>8, <1>9, <2>1 DEF Aligned
  <2>2. CASE ~(i <= Len(e.in))
    <3>1. i - Len(e.in) \in 1 .. n
      BY <1>8, <1>9, <2>2
    <3>2. g.in[i] = e.eaten + Len(e.in) + (i - Len(e.in))
      BY <1>9, <1>a, <2>2, <3>1
    <3> QED BY <1>8, <1>9, <3>2
  <2> QED BY <2>1, <2>2
<1>11. Held(v) = Held(view) - n /\ Held(view) \in Int
  BY <1>5, <1>8 DEF Held
<1>12. ASSUME NEW i \in 1 .. Held(v) PROVE input_buffer_[v.first + i - 1] = g.eaten + Len(g.in) + i
  <2>1. n + i \in 1 .. Held(view)
    BY <1>11
  <2>2. input_buffer_[view.first + (n + i) - 1] = e.eaten + Len(e.in) + (n + i)
    BY <2>1 DEF Aligned
  <2>3. view.first + (n + i) - 1 = v.first + i - 1
    BY <1>5, <1>8, <1>11
  <2> QED BY <1>8, <1>9, <1>11, <2>2, <2>3
<1>13. v.first <= v.last + 1 /\ v.last <= Len(input_buffer_)
  BY <1>1, <1>2, <1>5, <1>8 DEF Held
<1>14. Edge(g, v) = Edge(e, view)
  BY <1>8, <1>9, <1>11 DEF Edge
<1> QED BY <1>3, <1>4, <1>10, <1>12, <1>13, <1>14 DEF Aligned

\* A step that reads nothing and starts no read.
Quiet ==
    /\ Aligned(engine', input_', input_buffer_) /\ Edge(engine', input_') = Edge(engine, input_)
    /\ Held(input_) = 0 => Held(input_') = 0
    /\ \A k \in IoOps : /\ op'[k].pc = "reading" <=> op[k].pc = "reading"
                        /\ op'[k].pc = "wait_read" => op[k].pc = "wait_read" \/ Held(input_') = 0
                        /\ op[k].pc = "reading" => args'[k].n = args[k].n
    /\ UNCHANGED <<input_buffer_, received>> /\ Len(incoming) <= Len(incoming')

LEMMA QuietKeeps ==
  ASSUME IoTypes, IoTypes', Stream, Quiet PROVE Stream'
<1>1. Aligned(engine, input_, input_buffer_)'
  BY DEF Quiet
<1>2. (received <= Len(incoming))'
  <2>1. PICK l, m \in Nat : l = Len(incoming) /\ m = Len(incoming')
    BY DEF IoTypes, LayerTypes
  <2>2. received' = received /\ received \in Nat
    BY DEF Quiet, IoTypes, LayerTypes
  <2> QED BY <2>1, <2>2 DEF Stream, Quiet
<1>3. ASSUME NEW k \in IoOps, op'[k].pc \in {"reading", "wait_read"} PROVE (Held(input_) = 0)'
  BY <1>3 DEF Quiet, Stream
<1>4. ASSUME NEW k \in IoOps, op'[k].pc = "reading" PROVE Brought(k)'
  BY <1>4 DEF Quiet, Stream, Brought
<1>5. (\A k \in IoOps : op[k].pc # "reading")' => (Edge(engine, input_) = received)'
  BY DEF Quiet, Stream
<1> QED BY <1>1, <1>2, <1>3, <1>4, <1>5 DEF Stream

\* Aligned and Edge look at the input of the engine only.
LEMMA SameInput ==
  ASSUME NEW e, NEW g, NEW view, NEW buffer, g.in = e.in, g.eaten = e.eaten
  PROVE  (Aligned(g, view, buffer) <=> Aligned(e, view, buffer)) /\ Edge(g, view) = Edge(e, view)
  BY DEF Aligned, Edge

\* The operation in the loop, which is outstanding, is the only one that may read.
LEMMA OneReader ==
  ASSUME Control, NEW k \in Readers, Outstanding(k), NEW j \in IoOps, op[j].pc \in {"reading", "wait_read"}
  PROVE  j = k
<1>1. j \in Readers /\ Outstanding(j)
  BY DEF Control, Fit, Readers, Outstanding, Idle
<1> QED BY <1>1 DEF Control

LEMMA TryStream ==
  ASSUME IoTypes, IoTypes', Control, Stream, NEW k \in IoOps, Try(k)
  PROVE  Stream'
<1>1. PICK r, o : Called(k, r, o) /\
           \/ WantOf(r) = "input_and_retry" /\ InputLeft(k, o, r.eng)
           \/ WantOf(r) = "input_and_retry" /\ StartReading(k, o, r.eng)
           \/ WantOf(r) = "input_and_retry" /\ WaitToRead(k, o, r.eng)
           \/ WantOf(r) \in {"output", "output_and_retry"} /\ StartWriting(k, o, r.eng)
           \/ WantOf(r) \in {"output", "output_and_retry"} /\ WaitToWrite(k, o, r.eng)
           \/ WantOf(r) = "nothing" /\ Done(k, o, r.eng)
  BY TryCases
<1>2. /\ running = k /\ received' = received /\ incoming' = incoming /\ Outstanding(k)
      /\ op[k].pc = "idle" /\ args[k] = NoArgs /\ o.pc = "idle" /\ o \in IoOp
  BY <1>1, TryCases, CalledFacts DEF peerVars, Control, Fit, Outstanding
<1>3. r.eng \in Engine /\ Aligned(r.eng, input_, input_buffer_) /\ Edge(r.eng, input_) = Edge(engine, input_)
  <2>1. PICK c : Takes(r.eng, c)
    BY <1>1, CallFacts DEF Called
  <2>2. r.eng \in Engine
    BY <2>1 DEF Takes
  <2> QED BY <2>1, <2>2, TakesOrder DEF Stream
<1>4. input_ \in View /\ Held(input_) \in Nat /\ Len(incoming) <= Len(incoming')
  BY <1>2 DEF Stream, Aligned, Held, IoTypes, LayerTypes, View
<1>5. ASSUME NEW j \in IoOps, op[j].pc \in {"reading", "wait_read"}
      PROVE  j # k /\ args'[j].n = args[j].n
  <2>1. j # k
    BY <1>2, <1>5
  <2>2. \A point : Released(point)[j] = args[j] \/ (args[j] = NoArgs /\ Released(point)[j] = TimerArgs)
    BY ReleasedFacts
  <2>3. NoArgs.n = TimerArgs.n
    BY DEF NoArgs, TimerArgs
  <2>4. \/ args' = args \/ \E point : args' = Released(point)
    BY <1>1 DEF InputLeft, StartReading, WaitToRead, StartWriting, WaitToWrite, Done, coreVars
  <2> QED BY <2>1, <2>2, <2>3, <2>4
<1>6. ASSUME NEW z \in IoOp, op' = [op EXCEPT ![k] = z], z.pc # "reading",
             z.pc = "wait_read" => Held(input_') = 0,
             Aligned(engine', input_', input_buffer_), Edge(engine', input_') = Edge(engine, input_),
             Held(input_) = 0 => Held(input_') = 0, input_buffer_' = input_buffer_
      PROVE  Stream'
  <2>1. op'[k] = z /\ \A j \in IoOps \ {k} : op'[j] = op[j]
    BY <1>6 DEF IoTypes, LoopTypes
  <2>2. ASSUME NEW j \in IoOps
        PROVE  /\ op'[j].pc = "reading" <=> op[j].pc = "reading"
               /\ op'[j].pc = "wait_read" => op[j].pc = "wait_read" \/ Held(input_') = 0
               /\ op[j].pc = "reading" => args'[j].n = args[j].n
    BY <1>2, <1>5, <1>6, <2>1
  <2>3. Quiet
    BY <1>2, <1>4, <1>6, <2>2 DEF Quiet
  <2> QED BY <2>3, QuietKeeps
<1>7. CASE InputLeft(k, o, r.eng)
  <2>1. /\ Aligned(engine', input_', input_buffer_) /\ Edge(engine', input_') = Edge(r.eng, input_)
        /\ Held(input_) # 0 /\ op' = [op EXCEPT ![k] = o] /\ input_buffer_' = input_buffer_
    <3>1. /\ Aligned(WithInput(r.eng, input_, input_buffer_), Unconsumed(r.eng, input_), input_buffer_)
          /\ Edge(WithInput(r.eng, input_, input_buffer_), Unconsumed(r.eng, input_)) = Edge(r.eng, input_)
      BY <1>3, <1>4, PutOrder
    <3>2. Held(input_) # 0
      BY <1>4, <1>7 DEF InputLeft, Held, View
    <3> QED BY <1>7, <3>1, <3>2 DEF InputLeft
  <2> QED BY <1>2, <1>3, <1>6, <2>1
<1>a. ASSUME NEW p \in PCs, Yields(k, [o EXCEPT !.pc = p])
      PROVE  \E z \in IoOp : z.pc = p /\ op' = [op EXCEPT ![k] = z]
  <2>1. PICK z : z = [o EXCEPT !.pc = p]
    OBVIOUS
  <2>2. z \in IoOp /\ z.pc = p
    BY <1>2, <2>1 DEF IoOp
  <2> QED BY <1>a, <2>1, <2>2 DEF Yields
<1>8. ASSUME NEW z \in IoOp, op' = [op EXCEPT ![k] = z], z.pc # "reading",
             engine'.in = r.eng.in, engine'.eaten = r.eng.eaten, UNCHANGED <<input_buffer_, input_>>,
             z.pc = "wait_read" => Held(input_) = 0
      PROVE  Stream'
  <2>1. Aligned(engine', input_, input_buffer_) /\ Edge(engine', input_) = Edge(engine, input_)
    BY <1>3, <1>8, SameInput
  <2> QED BY <1>6, <1>8, <2>1
<1>9. CASE WantOf(r) = "input_and_retry" /\ WaitToRead(k, o, r.eng)
  <2>1. Held(input_) = 0
    BY <1>4, <1>9 DEF WaitToRead, Held, View
  <2>2. PICK z \in IoOp : z.pc = "wait_read" /\ op' = [op EXCEPT ![k] = z]
    BY <1>9, <1>a DEF WaitToRead, PCs
  <2> QED BY <1>8, <1>9, <2>1, <2>2 DEF WaitToRead, coreVars
<1>10. CASE WaitToWrite(k, o, r.eng)
  <2>2. PICK z \in IoOp : z.pc = "wait_write" /\ op' = [op EXCEPT ![k] = z]
    BY <1>10, <1>a DEF WaitToWrite, PCs
  <2> QED BY <1>8, <1>10, <2>2 DEF WaitToWrite, coreVars
<1>11. CASE Done(k, o, r.eng)
  <2>1. PICK z \in IoOp : z.pc \in {"posted", "idle"} /\ op' = [op EXCEPT ![k] = z]
    <3>1. CASE start_
      BY <1>11, <1>a, <3>1 DEF Done, PCs
    <3>2. CASE ~start_
      <4>1. Idle \in IoOp /\ Idle.pc = "idle"
        BY DEF Idle, IoOp, PCs, Wishes, Errors
      <4> QED BY <1>11, <3>2, <4>1 DEF Done, CallHandler
    <3> QED BY <3>1, <3>2
  <2> QED BY <1>8, <1>11, <2>1 DEF Done, coreVars
<1>12. CASE StartWriting(k, o, r.eng)
  <2>1. engine'.in = r.eng.in /\ engine'.eaten = r.eng.eaten /\ UNCHANGED <<input_buffer_, input_>>
    BY <1>3, <1>12 DEF StartWriting, Engine
  <2>2. op'[k].pc = "writing" /\ op'[k] \in IoOp /\ op' = [op EXCEPT ![k] = op'[k]]
    <3>1. op'[k].pc = "writing"
      BY <1>2, <1>12 DEF StartWriting, Yields, IoTypes, LoopTypes, IoOp
    <3>2. op'[k] \in IoOp
      BY DEF IoTypes, LoopTypes
    <3>3. op' = [op EXCEPT ![k] = op'[k]]
      BY <1>12 DEF StartWriting, Yields, IoTypes, LoopTypes
    <3> QED BY <3>1, <3>2, <3>3
  <2> QED BY <1>8, <2>1, <2>2
<1>13. CASE WantOf(r) = "input_and_retry" /\ StartReading(k, o, r.eng)
  <2>1. PICK z \in IoOp : z.pc = "reading" /\ op' = [op EXCEPT ![k] = z]
    BY <1>13, <1>a DEF StartReading, PCs
  <2>2. k \in Readers
    BY <1>1, <1>13, CallFacts DEF Called, Readers
  <2>3. \A j \in IoOps : op[j].pc \notin {"reading", "wait_read"}
    BY <1>2, <2>2, OneReader
  <2>4. Held(input_) = 0 /\ Edge(engine, input_) = received /\ engine' = r.eng /\ UNCHANGED <<input_buffer_, input_>>
    BY <1>4, <1>13, <2>3 DEF StartReading, Held, View, Stream
  <2>5. op'[k] = z /\ \A j \in IoOps \ {k} : op'[j] = op[j]
    BY <2>1 DEF IoTypes, LoopTypes
  <2>6. args'[k].n = 0
    <3>1. args' = Released("wait_read")
      BY <1>13 DEF StartReading
    <3>2. Released("wait_read")[k] = NoArgs
      BY <1>2, ReleasedFacts
    <3> QED BY <3>1, <3>2 DEF NoArgs
  <2>7. Brought(k)'
    <3>1. Edge(engine', input_') + args'[k].n = received'
      <4>1. received \in Nat /\ Edge(engine', input_') = received
        BY <1>3, <2>4 DEF IoTypes, LayerTypes
      <4> QED BY <1>2, <2>6, <4>1
    <3>2. args'[k].n <= Len(input_buffer_') /\ \A i \in 1 .. args'[k].n : FALSE
      BY <2>6 DEF IoTypes, LayerTypes
    <3> QED BY <3>1, <3>2 DEF Brought
  <2>8. Aligned(engine, input_, input_buffer_)' /\ (received <= Len(incoming))' /\ (Held(input_) = 0)'
    BY <1>2, <1>3, <2>4 DEF Stream
  <2>9. ASSUME NEW j \in IoOps, op'[j].pc \in {"reading", "wait_read"} PROVE j = k
    BY <2>3, <2>5, <2>9
  <2> QED BY <2>1, <2>5, <2>7, <2>8, <2>9 DEF Stream
<1> QED BY <1>1, <1>7, <1>9, <1>10, <1>11, <1>12, <1>13

\* The view that a handler passes on is what its read has brought, if it has read.
LEMMA ResumeStream ==
  ASSUME IoTypes, IoTypes', Control, Stream, NEW k \in IoOps, Resume(k)
  PROVE  Stream'
<1>1. /\ args[k] # NoArgs /\ received' = received /\ incoming' = incoming /\ input_buffer_' = input_buffer_
      /\ op[k].pc # "idle" /\ Outstanding(k) /\ op[k] \in IoOp /\ Suits(op[k])
  <2>1. args[k] # NoArgs /\ received' = received /\ incoming' = incoming /\ input_buffer_' = input_buffer_
    BY DEF Resume, ResumeInput, ResumeOutput, ResumePosted, peerVars, coreVars
  <2>2. op[k].pc # "idle" /\ op[k] \in IoOp /\ Suits(op[k])
    BY <2>1 DEF Control, Fit, IoTypes, LoopTypes
  <2>3. Outstanding(k)
    BY <2>2 DEF Outstanding, Idle
  <2> QED BY <2>1, <2>2, <2>3
<1>2. op'[k].pc = "idle" /\ \A j \in IoOps \ {k} : op'[j] = op[j]
  <2>1. Idle.pc = "idle"
    BY DEF Idle
  <2>2. \/ op' = [op EXCEPT ![k] = Idle]
        \/ op' = [op EXCEPT ![k] = [op[k] EXCEPT !.ec_ = ErrorAfter(k), !.pc = "idle"]]
    BY DEF Resume, ResumeInput, ResumeOutput, ResumePosted, Continue, CallHandler
  <2>3. [op[k] EXCEPT !.ec_ = ErrorAfter(k), !.pc = "idle"].pc = "idle"
    BY <1>1 DEF IoOp
  <2> QED BY <2>1, <2>2, <2>3 DEF IoTypes, LoopTypes
<1>3. engine \in Engine /\ input_ \in View /\ received \in Nat /\ Len(incoming) <= Len(incoming')
  BY <1>1 DEF IoTypes, LayerTypes
<1>4. CASE ResumeInput(k)
  <2>1. k \in Readers /\ op[k].pc \in {"reading", "wait_read"}
    BY <1>1, <1>4 DEF ResumeInput, Suits, Control, Fit, Readers, IoOp, PCs
  <2>2. \A j \in IoOps : op[j].pc \in {"reading", "wait_read"} => j = k
    BY <1>1, <2>1, OneReader
  <2>3. PICK view : view = [first |-> 1, last |-> args[k].n]
    OBVIOUS
  <2>4. PICK n \in Nat : n = args[k].n
    BY SslAssumption DEF IoTypes, LayerTypes, Args, SslAssumption
  <2>5. view \in View /\ Held(view) = n /\ view.first = 1 /\ view.last = n
    BY <2>3, <2>4 DEF View, Held
  <2>6. Held(input_) = 0
    BY <2>1 DEF Stream
  <2>7. PICK m \in Nat : m = engine.eaten + Len(engine.in)
    BY <1>3 DEF Engine
  <2>8. Edge(engine, input_) = m
    BY <2>6, <2>7 DEF Edge
  <2>9. m + n = received /\ n <= Len(input_buffer_) /\ \A i \in 1 .. n : input_buffer_[i] = m + i
    <3>1. CASE op[k].pc = "reading"
      BY <2>4, <2>8, <3>1 DEF Stream, Brought
    <3>2. CASE op[k].pc # "reading"
      <4>1. n = 0
        BY <2>4, <3>2 DEF Control, Fit
      <4>2. m = received
        BY <2>2, <2>8, <3>2 DEF Stream
      <4> QED BY <2>7, <4>1, <4>2 DEF IoTypes, LayerTypes
    <3> QED BY <3>1, <3>2
  <2>10. Aligned(engine, view, input_buffer_) /\ Edge(engine, view) = received
    <3>1. view.first <= view.last + 1 /\ view.last <= Len(input_buffer_)
      BY <2>4, <2>5, <2>9
    <3>2. \A i \in 1 .. Len(engine.in) : engine.in[i] = engine.eaten + i
      BY DEF Stream, Aligned
    <3>3. \A i \in 1 .. n : input_buffer_[view.first + i - 1] = m + i
      BY <2>4, <2>5, <2>9
    <3>4. Edge(engine, view) = received
      BY <2>5, <2>7, <2>9 DEF Edge
    <3> QED BY <2>5, <2>7, <3>1, <3>2, <3>3, <3>4 DEF Aligned
  <2>11. Aligned(engine', input_', input_buffer_) /\ Edge(engine', input_') = received
    <3>1. /\ Aligned(WithInput(engine, view, input_buffer_), Unconsumed(engine, view), input_buffer_)
          /\ Edge(WithInput(engine, view, input_buffer_), Unconsumed(engine, view)) = Edge(engine, view)
      BY <1>3, <2>5, <2>10, PutOrder
    <3>2. engine' = WithInput(engine, view, input_buffer_) /\ input_' = Unconsumed(engine, view)
      BY <1>4, <2>3 DEF ResumeInput
    <3> QED BY <2>10, <3>1, <3>2
  <2>12. \A j \in IoOps : op'[j].pc \notin {"reading", "wait_read"}
    BY <1>2, <2>2
  <2>13. received' <= Len(incoming')
    BY <1>1 DEF Stream
  <2> QED BY <1>1, <2>11, <2>12, <2>13 DEF Stream
<1>5. CASE ResumeOutput(k) \/ ResumePosted(k)
  <2>1. engine' = engine /\ input_' = input_ /\ op[k].pc \notin {"reading", "wait_read"}
    BY <1>1, <1>5 DEF ResumeOutput, ResumePosted, coreVars, Suits
  <2>2. ASSUME NEW j \in IoOps, op[j].pc = "reading" PROVE args'[j].n = args[j].n
    <3>1. j # k
      BY <2>1, <2>2
    <3>2. Released("wait_write")[j] = args[j]
      BY <2>2, ReleasedFacts
    <3> QED BY <1>5, <3>1, <3>2, ReleasedFacts DEF ResumeOutput, ResumePosted, IoTypes, LayerTypes
  <2>3. Quiet
    BY <1>1, <1>2, <1>3, <2>1, <2>2 DEF Quiet, Stream
  <2> QED BY <2>3, QuietKeeps
<1> QED BY <1>4, <1>5 DEF Resume

\* What a read brings is what the peer has sent next.
LEMMA ReadStream ==
  ASSUME IoTypes, IoTypes', Control, Stream, NEW k \in IoOps, ReadSome(k)
  PROVE  Stream'
<1>1. /\ op[k].pc = "reading" /\ args[k].n = 0 /\ op' = op /\ incoming' = incoming
      /\ UNCHANGED <<engine, input_>>
  BY DEF ReadSome, InTransfer, NoArgs
<1>2. \A j \in IoOps : op[j].pc \in {"reading", "wait_read"} => j = k
  <2>1. k \in Readers
    <3>1. k # "write"
      BY <1>1 DEF Control, Fit
    <3> QED BY <3>1 DEF IoOps, Readers
  <2>2. Outstanding(k)
    BY <1>1 DEF Outstanding, Idle
  <2> QED BY <2>1, <2>2, OneReader
<1>3. Held(input_) = 0 /\ Edge(engine, input_) = received
  <2>1. Edge(engine, input_) \in Int
    <3>1. PICK a, b, c, d \in Nat : /\ a = engine.eaten /\ b = Len(engine.in)
                                   /\ c = input_.last /\ d = input_.first
      <4>1. engine.eaten \in Nat /\ Len(engine.in) \in Nat
        BY DEF IoTypes, LayerTypes, Engine
      <4>2. input_.last \in Nat /\ input_.first \in Nat
        BY DEF IoTypes, LayerTypes, View
      <4> QED BY <4>1, <4>2
    <3>2. Edge(engine, input_) = a + b + (c + 1 - d)
      BY <3>1 DEF Edge, Held
    <3>3. a + b + (c + 1 - d) \in Int
      OBVIOUS
    <3> QED BY <3>2, <3>3
  <2>2. Held(input_) = 0 /\ Brought(k)
    BY <1>1 DEF Stream
  <2> QED BY <1>1, <2>1, <2>2 DEF Brought
<1>4. \A j \in IoOps \ {k} : args'[j] = args[j]
  BY DEF ReadSome, Arrives, IoTypes, LayerTypes
<1>5. CASE Arrives(k, 0, "eof") /\ UNCHANGED <<input_buffer_, received>>
  <2>1. args'[k].n = args[k].n
    BY <1>1, <1>5 DEF Arrives, IoTypes, LayerTypes
  <2>2. Quiet
    BY <1>1, <1>2, <1>4, <1>5, <2>1 DEF Quiet, Stream, IoTypes, LayerTypes
  <2> QED BY <2>2, QuietKeeps
<1>6. CASE \E n \in 1 .. BufferSize :
              /\ n <= Len(incoming) - received
              /\ input_buffer_' = Overwritten(input_buffer_, [i \in 1 .. n |-> received + i])
              /\ received' = received + n /\ Arrives(k, n, "none")
  <2>1. PICK n \in 1 .. BufferSize :
              /\ n <= Len(incoming) - received
              /\ input_buffer_' = Overwritten(input_buffer_, [i \in 1 .. n |-> received + i])
              /\ received' = received + n /\ Arrives(k, n, "none")
    BY <1>6
  <2>2. PICK s : s = [i \in 1 .. n |-> received + i]
    OBVIOUS
  <2>3. s \in Seq(Nat) /\ Len(s) = n /\ n \in Nat /\ \A i \in 1 .. n : s[i] = received + i
    BY <2>2, SslAssumption DEF IoTypes, LayerTypes, SslAssumption
  <2>4. PICK b : b = input_buffer_'
    OBVIOUS
  <2>5. Len(b) >= n /\ Len(b) >= Len(input_buffer_) /\ \A i \in 1 .. n : b[i] = received + i
    <3>1. b = Overwritten(input_buffer_, s)
      BY <2>1, <2>2, <2>4
    <3>2. input_buffer_ \in Seq(Nat)
      BY DEF IoTypes, LayerTypes
    <3> QED BY <2>3, <3>1, <3>2, OverwrittenFacts
  <2>6. args'[k].n = n
    BY <2>1 DEF Arrives, IoTypes, LayerTypes
  <2>7. Aligned(engine, input_, b)
    <3>1. input_.last <= Len(b)
      <4>1. PICK l, m, a \in Nat : l = Len(b) /\ m = Len(input_buffer_) /\ a = input_.last
        BY <2>4 DEF IoTypes, LayerTypes, View
      <4> QED BY <2>5, <4>1 DEF Stream, Aligned
    <3>2. \A i \in 1 .. Held(input_) : FALSE
      BY <1>3
    <3> QED BY <3>1, <3>2 DEF Stream, Aligned
  <2>8. Brought(k)'
    <3>1. Edge(engine', input_') + args'[k].n = received'
      BY <1>1, <1>3, <2>1, <2>6
    <3>2. args'[k].n <= Len(input_buffer_')
      BY <2>3, <2>4, <2>5, <2>6 DEF IoTypes, LayerTypes
    <3>3. \A i \in 1 .. args'[k].n : input_buffer_'[i] = Edge(engine', input_') + i
      BY <1>1, <1>3, <2>4, <2>5, <2>6
    <3> QED BY <3>1, <3>2, <3>3 DEF Brought
  <2>9. received' <= Len(incoming')
    <3>1. PICK l, m \in Nat : l = Len(incoming) /\ m = received
      BY DEF IoTypes, LayerTypes
    <3> QED BY <1>1, <2>1, <2>3, <3>1
  <2> QED BY <1>1, <1>2, <1>3, <2>4, <2>7, <2>8, <2>9 DEF Stream
<1> QED BY <1>5, <1>6 DEF ReadSome

LEMMA StreamStep ==
  ASSUME IoTypes, IoTypes', Control, Stream, SslNext
  PROVE  Stream'
<1>1. ASSUME UNCHANGED <<engine, input_, input_buffer_, received>>, Len(incoming) <= Len(incoming'),
             \A j \in IoOps : op'[j].pc = op[j].pc /\ args'[j].n = args[j].n
      PROVE  Stream'
  <2>1. Quiet
    BY <1>1 DEF Quiet, Stream
  <2> QED BY <2>1, QuietKeeps
<1>2. Len(incoming) <= Len(incoming)
  BY DEF IoTypes, LayerTypes
<1>3. ASSUME NEW k \in IoOps, WriteSome(k) \/ ReadNothing(k) \/ TransferFails(k) \/ Cancel(k)
      PROVE  Stream'
  <2>1. UNCHANGED <<engine, input_, input_buffer_, received, incoming>>
    BY <1>3 DEF WriteSome, ReadNothing, TransferFails, Cancel, coreVars, peerVars
  <2>2. ASSUME NEW j \in IoOps PROVE op'[j].pc = op[j].pc
    <3>1. \E z : op' = [op EXCEPT ![k] = z] /\ z.pc = op[k].pc
      <4>1. op[k] \in IoOp /\ op = [op EXCEPT ![k] = op[k]]
        BY DEF IoTypes, LoopTypes
      <4>2. op' = op \/ (\E m : op' = [op EXCEPT ![k] = [op[k] EXCEPT !.moved = m]])
                     \/ op' = [op EXCEPT ![k] = [op[k] EXCEPT !.cancelled = TRUE]]
        BY <1>3 DEF WriteSome, ReadNothing, TransferFails, Cancel
      <4>3. ASSUME NEW m PROVE [op[k] EXCEPT !.moved = m].pc = op[k].pc
        BY <4>1 DEF IoOp
      <4>4. [op[k] EXCEPT !.cancelled = TRUE].pc = op[k].pc
        BY <4>1 DEF IoOp
      <4> QED BY <4>1, <4>2, <4>3, <4>4
    <3> QED BY <3>1 DEF IoTypes, LoopTypes
  <2>3. ASSUME NEW j \in IoOps PROVE args'[j].n = args[j].n
    <3>1. \/ args' = args
          \/ args[k] = NoArgs /\ \E e, t : args' = [args EXCEPT ![k] = [n |-> 0, ec |-> e, timer |-> t]]
      BY <1>3 DEF WriteSome, ReadNothing, TransferFails, Cancel, Arrives, InTransfer, TimerArgs
    <3>2. CASE args' = args
      BY <3>2
    <3>3. CASE args[k] = NoArgs /\ \E e, t : args' = [args EXCEPT ![k] = [n |-> 0, ec |-> e, timer |-> t]]
      <4>0. PICK e, t : args' = [args EXCEPT ![k] = [n |-> 0, ec |-> e, timer |-> t]]
        BY <3>3
      <4>3. PICK a : a = [n |-> 0, ec |-> e, timer |-> t]
        OBVIOUS
      <4>1. args' = [args EXCEPT ![k] = a] /\ a.n = 0
        BY <4>0, <4>3
      <4>2. args[k].n = 0
        BY <3>3 DEF NoArgs
      <4> QED BY <4>1, <4>2 DEF IoTypes, LayerTypes
    <3> QED BY <3>1, <3>2, <3>3
  <2> QED BY <1>1, <1>2, <2>1, <2>2, <2>3
<1>4. ASSUME NEW k \in IoOps, Start(k) PROVE Stream'
  BY <1>1, <1>2, <1>4 DEF Start, coreVars, peerVars
<1>5. CASE PeerSends \/ PeerGone
  <2>1. Len(incoming) <= Len(incoming')
    BY <1>5 DEF PeerSends, PeerGone, IoTypes, LayerTypes
  <2> QED BY <1>1, <1>5, <2>1 DEF PeerSends, PeerGone, ioVars, coreVars
<1>6. ASSUME NEW k \in IoOps, LoopStep(k) PROVE Stream'
  BY <1>6, TryStream, ResumeStream DEF LoopStep
<1>7. ASSUME NEW k \in IoOps, ReadSome(k) PROVE Stream'
  BY <1>7, ReadStream
<1> QED BY <1>3, <1>4, <1>5, <1>6, <1>7 DEF SslNext, Transfer

-----------------------------------------------------------------------------
(* What the records say.                                                   *)

\* The two engines have consumed and know the same.
Same(e, g) ==
    /\ g.eaten = e.eaten /\ g.hello = e.hello
    /\ g.sent_close = e.sent_close /\ g.got_close = e.got_close
Extends == Len(incoming) <= Len(incoming') /\ \A i \in 1 .. Len(incoming) : incoming'[i] = incoming[i]

\* After its call, k goes on with the transfer it wants.
Wants(k, r, o) ==
    /\ UNCHANGED <<ended, given, stopped>>
    /\ op'[k].want_ = o.want_ /\ op'[k].ec_ = o.ec_
    /\ op'[k].bytes_transferred_ = o.bytes_transferred_
    /\ IF WantOf(r) = "input_and_retry"
       THEN op'[k].pc \in {"idle", "reading", "wait_read"}
       ELSE op'[k].pc \in {"writing", "wait_write", "posted"} /\ running' = Nobody
    /\ WantOf(r) \in {"output", "output_and_retry"} => op'[k].pc \in {"writing", "wait_write"}
Passes(k, r, o) ==
    /\ Called(k, r, o) /\ Same(r.eng, engine')
    /\ (CallHandler(k, o, r.eng, TRUE) /\ WantOf(r) = "nothing") \/ Wants(k, r, o)

\* A pass through the loop.
LEMMA TryResult ==
  ASSUME IoTypes, Control, Aligned(engine, input_, input_buffer_), NEW k \in IoOps, Try(k)
  PROVE  /\ incoming' = incoming /\ running = k /\ op[k].pc = "idle" /\ Outstanding(k)
         /\ \A j \in IoOps \ {k} : op'[j] = op[j]
         /\ \E r, o : Passes(k, r, o)
<1>1. PICK r, o : Called(k, r, o) /\
           \/ WantOf(r) = "input_and_retry" /\ InputLeft(k, o, r.eng)
           \/ WantOf(r) = "input_and_retry" /\ StartReading(k, o, r.eng)
           \/ WantOf(r) = "input_and_retry" /\ WaitToRead(k, o, r.eng)
           \/ WantOf(r) \in {"output", "output_and_retry"} /\ StartWriting(k, o, r.eng)
           \/ WantOf(r) \in {"output", "output_and_retry"} /\ WaitToWrite(k, o, r.eng)
           \/ WantOf(r) = "nothing" /\ Done(k, o, r.eng)
  BY TryCases
<1>2. /\ incoming' = incoming /\ running = k /\ op[k].pc = "idle" /\ Outstanding(k)
      /\ o \in IoOp /\ o.pc = "idle"
  BY <1>1, TryCases, CalledFacts DEF peerVars, Control, Fit, Outstanding
<1>3. r.eng \in Engine
  BY <1>1, CallFacts DEF Called, Takes
<1>4. \A j \in IoOps \ {k} : op'[j] = op[j]
  <2>1. \E z : op' = [op EXCEPT ![k] = z]
    BY <1>1 DEF InputLeft, StartReading, WaitToRead, StartWriting, WaitToWrite, Done, Yields, CallHandler
  <2> QED BY <2>1 DEF IoTypes, LoopTypes
<1>5. Same(r.eng, engine')
  <2>1. CASE InputLeft(k, o, r.eng)
    <3>1. input_ \in View /\ input_.first <= input_.last + 1 /\ input_.last <= Len(input_buffer_)
      BY DEF Aligned, IoTypes, LayerTypes
    <3>2. \E s : WithInput(r.eng, input_, input_buffer_) = [r.eng EXCEPT !.in = s]
      BY <1>3, <3>1, PutFacts
    <3> QED BY <1>3, <2>1, <3>2 DEF InputLeft, Same, Engine
  <2>2. CASE StartWriting(k, o, r.eng)
    <3>1. \E s : engine' = [r.eng EXCEPT !.out = s]
      BY <2>2 DEF StartWriting
    <3> QED BY <1>3, <3>1 DEF Same, Engine
  <2>3. CASE engine' = r.eng
    BY <2>3 DEF Same
  <2> QED BY <1>1, <2>1, <2>2, <2>3 DEF StartReading, WaitToRead, WaitToWrite, Done
<1>6. ASSUME NEW z, op' = [op EXCEPT ![k] = z], z.want_ = o.want_, z.ec_ = o.ec_,
             z.bytes_transferred_ = o.bytes_transferred_
      PROVE  /\ op'[k] = z /\ op'[k].want_ = o.want_ /\ op'[k].ec_ = o.ec_
             /\ op'[k].bytes_transferred_ = o.bytes_transferred_
  BY <1>6 DEF IoTypes, LoopTypes
<1>7. ASSUME NEW p, Yields(k, [o EXCEPT !.pc = p])
      PROVE  /\ op'[k].want_ = o.want_ /\ op'[k].ec_ = o.ec_ /\ op'[k].pc = p /\ running' = Nobody
             /\ op'[k].bytes_transferred_ = o.bytes_transferred_ /\ UNCHANGED <<ended, given, stopped>>
  <2>1. PICK z : z = [o EXCEPT !.pc = p]
    OBVIOUS
  <2>2. z.pc = p /\ z.want_ = o.want_ /\ z.ec_ = o.ec_ /\ z.bytes_transferred_ = o.bytes_transferred_
    BY <1>2, <2>1 DEF IoOp
  <2>3. op' = [op EXCEPT ![k] = z]
    BY <1>7, <2>1 DEF Yields
  <2>4. op'[k] = z
    BY <1>6, <2>2, <2>3
  <2> QED BY <1>7, <2>2, <2>4 DEF Yields, programVars
<1>8. (CallHandler(k, o, r.eng, TRUE) /\ WantOf(r) = "nothing") \/ Wants(k, r, o)
  <2>1. CASE WantOf(r) = "input_and_retry" /\ InputLeft(k, o, r.eng)
    <3>1. op' = [op EXCEPT ![k] = o] /\ UNCHANGED <<ended, given, stopped>>
      BY <2>1 DEF InputLeft, programVars
    <3>2. op'[k] = o
      BY <1>6, <3>1
    <3> QED BY <1>2, <2>1, <3>1, <3>2 DEF Wants
  <2>2. CASE WantOf(r) = "input_and_retry" /\ StartReading(k, o, r.eng)
    BY <1>7, <2>2 DEF StartReading, Wants
  <2>3. CASE WantOf(r) = "input_and_retry" /\ WaitToRead(k, o, r.eng)
    BY <1>7, <2>3 DEF WaitToRead, Wants
  <2>4. CASE WantOf(r) \in {"output", "output_and_retry"} /\ WaitToWrite(k, o, r.eng)
    BY <1>7, <2>4 DEF WaitToWrite, Wants
  <2>5. CASE WantOf(r) = "nothing" /\ Done(k, o, r.eng)
    BY <1>7, <2>5 DEF Done, Wants
  <2>6. CASE WantOf(r) \in {"output", "output_and_retry"} /\ StartWriting(k, o, r.eng)
    <3>1. PICK n : n = Len(UpTo(BufferSize, r.eng.out))
      OBVIOUS
    <3>2. PICK z : z = [o EXCEPT !.pc = "writing", !.size = n, !.moved = 0]
      OBVIOUS
    <3>3. z.pc = "writing" /\ z.want_ = o.want_ /\ z.ec_ = o.ec_ /\ z.bytes_transferred_ = o.bytes_transferred_
      BY <1>2, <3>2 DEF IoOp
    <3>4. op' = [op EXCEPT ![k] = z] /\ running' = Nobody /\ UNCHANGED <<ended, given, stopped>>
      BY <2>6, <3>1, <3>2 DEF StartWriting, Yields, programVars
    <3>5. op'[k] = z
      BY <1>6, <3>3, <3>4
    <3> QED BY <2>6, <3>3, <3>4, <3>5 DEF Wants
  <2> QED BY <1>1, <2>1, <2>2, <2>3, <2>4, <2>5, <2>6
<1>9. Passes(k, r, o)
  BY <1>1, <1>5, <1>8 DEF Passes
<1> QED BY <1>2, <1>4, <1>9

\* After its handler, k is over, or it is in the loop again.
Reports(k, o, e, own) ==
    /\ CallHandler(k, o, e, own) /\ Same(engine, e) /\ e \in Engine /\ o \in IoOp
    /\ o.bytes_transferred_ = op[k].bytes_transferred_
    /\ o.want_ = op[k].want_ /\ o.ec_ = ErrorAfter(k)
    /\ op[k].want_ \in {"output", "nothing"} \/ o.ec_ # "none"
Retries(k) ==
    /\ UNCHANGED <<ended, given, stopped>> /\ running' = k /\ op'[k].pc = "idle"
    /\ op[k].want_ \in {"input_and_retry", "output_and_retry"}
    /\ op'[k].want_ = op[k].want_
    /\ op'[k].bytes_transferred_ = op[k].bytes_transferred_

\* A handler of the stream.
LEMMA ResumeResult ==
  ASSUME IoTypes, Control, Stream, NEW k \in IoOps, Resume(k)
  PROVE  /\ incoming' = incoming /\ Same(engine, engine') /\ op[k].pc # "idle" /\ Outstanding(k)
         /\ args[k] # NoArgs /\ op[k] \in IoOp
         /\ \A j \in IoOps \ {k} : op'[j] = op[j]
         /\ Retries(k) \/ \E o, e, own : Reports(k, o, e, own)
<1>1. /\ args[k] # NoArgs /\ incoming' = incoming /\ op[k].pc # "idle" /\ Outstanding(k) /\ op[k] \in IoOp
  <2>1. args[k] # NoArgs /\ incoming' = incoming
    BY DEF Resume, peerVars
  <2>2. op[k].pc # "idle" /\ op[k] \in IoOp
    BY <2>1 DEF Control, Fit, IoTypes, LoopTypes
  <2> QED BY <2>1, <2>2 DEF Outstanding, Idle
<1>2. engine' \in Engine /\ Same(engine, engine') /\ engine \in Engine
  <2>1. CASE ResumeInput(k)
    <3>1. PICK view : view = [first |-> 1, last |-> args[k].n]
      OBVIOUS
    <3>2. PICK n \in Nat : n = args[k].n
      BY SslAssumption DEF IoTypes, LayerTypes, Args, SslAssumption
    <3>3. view \in View /\ view.first <= view.last + 1 /\ view.last <= Len(input_buffer_)
      <4>1. n <= Len(input_buffer_)
        <5>1. CASE n > 0
          BY <3>2, <5>1 DEF Control, Fit, Stream, Brought
        <5>2. CASE ~(n > 0)
          BY <3>2, <5>2 DEF IoTypes, LayerTypes
        <5> QED BY <5>1, <5>2
      <4> QED BY <3>1, <3>2, <4>1 DEF View
    <3>4. engine \in Engine
      BY DEF IoTypes, LayerTypes
    <3>5. /\ WithInput(engine, view, input_buffer_) \in Engine
          /\ \E s : WithInput(engine, view, input_buffer_) = [engine EXCEPT !.in = s]
      BY <3>3, <3>4, PutFacts
    <3>6. engine' = WithInput(engine, view, input_buffer_)
      BY <2>1, <3>1 DEF ResumeInput
    <3> QED BY <3>4, <3>5, <3>6 DEF Same, Engine
  <2>2. CASE ResumeOutput(k) \/ ResumePosted(k)
    BY <2>2 DEF ResumeOutput, ResumePosted, Same, IoTypes, LayerTypes
  <2> QED BY <2>1, <2>2 DEF Resume
<1>3. PICK z : z = [op[k] EXCEPT !.ec_ = ErrorAfter(k)]
  OBVIOUS
<1>4. PICK o : o = [op[k] EXCEPT !.ec_ = ErrorAfter(k), !.pc = "idle"]
  OBVIOUS
<1>5. /\ z.bytes_transferred_ = op[k].bytes_transferred_ /\ z.want_ = op[k].want_ /\ z.ec_ = ErrorAfter(k)
      /\ o.bytes_transferred_ = op[k].bytes_transferred_ /\ o.want_ = op[k].want_ /\ o.ec_ = ErrorAfter(k)
      /\ o.pc = "idle"
  BY <1>1, <1>3, <1>4 DEF IoOp
<1>a. z \in IoOp /\ o \in IoOp
  <2>1. ErrorAfter(k) \in Errors
    <3>1. args[k].ec # "nothing"
      BY <1>1 DEF Control, Fit
    <3> QED BY <3>1, ErrorAfterFacts
  <2> QED BY <1>1, <1>3, <1>4, <2>1 DEF IoOp, PCs
<1>6. ASSUME NEW e, Continue(k, e)
      PROVE  \/ CallHandler(k, o, e, TRUE) /\ o.ec_ # "none"
             \/ op' = [op EXCEPT ![k] = o] /\ running' = k /\ UNCHANGED programVars
  BY <1>4, <1>6 DEF Continue
<1>7. \/ \E e \in {engine, engine'}, own \in BOOLEAN :
           \/ CallHandler(k, z, e, own) /\ op[k].want_ \in {"output", "nothing"}
           \/ CallHandler(k, o, e, own) /\ o.ec_ # "none"
      \/ /\ op' = [op EXCEPT ![k] = o] /\ running' = k /\ UNCHANGED programVars
         /\ op[k].want_ \in {"input_and_retry", "output_and_retry"}
  BY <1>3, <1>6 DEF Resume, ResumeInput, ResumeOutput, ResumePosted
<1>8. \A j \in IoOps \ {k} : op'[j] = op[j]
  <2>1. \E y : op' = [op EXCEPT ![k] = y]
    BY <1>7 DEF CallHandler
  <2> QED BY <2>1 DEF IoTypes, LoopTypes
<1>9. CASE \E e \in {engine, engine'}, own \in BOOLEAN :
             \/ CallHandler(k, z, e, own) /\ op[k].want_ \in {"output", "nothing"}
             \/ CallHandler(k, o, e, own) /\ o.ec_ # "none"
  <2>1. PICK e \in {engine, engine'}, own \in BOOLEAN :
             \/ CallHandler(k, z, e, own) /\ op[k].want_ \in {"output", "nothing"}
             \/ CallHandler(k, o, e, own) /\ o.ec_ # "none"
    BY <1>9
  <2>2. Same(engine, e) /\ e \in Engine
    BY <1>2 DEF Same
  <2>3. Reports(k, z, e, own) \/ Reports(k, o, e, own)
    BY <1>5, <1>a, <2>1, <2>2 DEF Reports
  <2> QED BY <1>1, <1>2, <1>8, <2>3
<1>10. CASE /\ op' = [op EXCEPT ![k] = o] /\ running' = k /\ UNCHANGED programVars
            /\ op[k].want_ \in {"input_and_retry", "output_and_retry"}
  <2>1. op'[k] = o
    BY <1>10 DEF IoTypes, LoopTypes
  <2>2. Retries(k)
    BY <1>5, <1>10, <2>1 DEF programVars, Retries
  <2> QED BY <1>1, <1>2, <1>8, <2>2
<1> QED BY <1>7, <1>9, <1>10

\* What neither the loop nor a handler does.
Elsewhere ==
    /\ Same(engine, engine') /\ UNCHANGED <<ended, given>> /\ (stopped => stopped')
    /\ \A j \in IoOps :
         /\ op'[j].pc = op[j].pc /\ op'[j].want_ = op[j].want_ /\ op'[j].ec_ = op[j].ec_
         /\ op'[j].bytes_transferred_ = op[j].bytes_transferred_
         /\ running' = j => running = j \/ op[j] = Idle
    /\ Extends

LEMMA OutsideTheLoop ==
  ASSUME IoTypes, NEW k \in IoOps,
         Transfer(k) \/ TransferFails(k) \/ Start(k) \/ Cancel(k) \/ PeerSends \/ PeerGone
  PROVE  Elsewhere
<1>1. engine' = engine /\ UNCHANGED <<ended, given>> /\ (stopped => stopped')
  BY DEF Transfer, ReadSome, WriteSome, ReadNothing, TransferFails, Start, Cancel, PeerSends, PeerGone,
         coreVars, ioVars, programVars
<1>2. Extends
  <2>1. CASE PeerSends
    <3>1. PICK u \in Units : incoming' = Append(incoming, u)
      BY <2>1 DEF PeerSends, MaySend, Units
    <3>2. incoming \in Seq(Units)
      BY DEF IoTypes, LayerTypes
    <3> QED BY <3>1, <3>2 DEF Extends
  <2>2. CASE incoming' = incoming
    BY <2>2 DEF Extends, IoTypes, LayerTypes
  <2> QED BY <2>1, <2>2 DEF Transfer, ReadSome, WriteSome, ReadNothing, TransferFails, Start, Cancel,
                            PeerGone, peerVars
<1>3. \A j \in IoOps : running' = j => running = j \/ op[j] = Idle
  BY DEF Transfer, ReadSome, WriteSome, ReadNothing, TransferFails, Start, MayStart, Outstanding, Cancel,
         PeerSends, PeerGone, ioVars
<1>4. ASSUME NEW j \in IoOps
      PROVE  /\ op'[j].pc = op[j].pc /\ op'[j].want_ = op[j].want_ /\ op'[j].ec_ = op[j].ec_
             /\ op'[j].bytes_transferred_ = op[j].bytes_transferred_
  <2>1. op[k] \in IoOp /\ op \in [IoOps -> IoOp]
    BY DEF IoTypes, LoopTypes
  <2>2. \/ op' = op \/ (\E m : op' = [op EXCEPT ![k] = [op[k] EXCEPT !.moved = m]])
        \/ op' = [op EXCEPT ![k] = [op[k] EXCEPT !.cancelled = TRUE]]
    BY DEF Transfer, ReadSome, WriteSome, ReadNothing, TransferFails, Start, Cancel, PeerSends, PeerGone, ioVars
  <2>3. \/ op' = op
        \/ \E z : /\ op' = [op EXCEPT ![k] = z]
                  /\ z.pc = op[k].pc /\ z.want_ = op[k].want_ /\ z.ec_ = op[k].ec_
                  /\ z.bytes_transferred_ = op[k].bytes_transferred_
    <3>1. ASSUME NEW m, NEW z, z = [op[k] EXCEPT !.moved = m]
          PROVE  /\ z.pc = op[k].pc /\ z.want_ = op[k].want_ /\ z.ec_ = op[k].ec_
                 /\ z.bytes_transferred_ = op[k].bytes_transferred_
      BY <2>1, <3>1 DEF IoOp
    <3>2. ASSUME NEW z, z = [op[k] EXCEPT !.cancelled = TRUE]
          PROVE  /\ z.pc = op[k].pc /\ z.want_ = op[k].want_ /\ z.ec_ = op[k].ec_
                 /\ z.bytes_transferred_ = op[k].bytes_transferred_
      BY <2>1, <3>2 DEF IoOp
    <3> QED BY <2>2, <3>1, <3>2
  <2> QED BY <2>1, <2>3
<1> QED BY <1>1, <1>2, <1>3, <1>4 DEF Elsewhere, Same

LEMMA SslCases ==
  ASSUME IoTypes, SslNext
  PROVE  Elsewhere \/ \E k \in IoOps : Try(k) \/ Resume(k)
<1>1. "read" \in IoOps
  BY DEF IoOps
<1> QED BY <1>1, OutsideTheLoop DEF SslNext, LoopStep

\* An operation that has failed is over, and so is the stream.
LEMMA BrokenStays ==
  ASSUME IoTypes, Control, Stream, SslNext, Broken
  PROVE  Broken'
<1>1. CASE Elsewhere
  BY <1>1 DEF Elsewhere, Broken
<1>2. ASSUME NEW k \in IoOps, Outstanding(k), stopped' = stopped, \A j \in IoOps \ {k} : ended'[j] = ended[j]
      PROVE  Broken'
  <2>1. ~Failed(k)
    BY <1>2 DEF Control
  <2> QED BY <1>2, <2>1 DEF Broken, Failed
<1>3. ASSUME NEW k \in IoOps, NEW o, NEW e, NEW own, Outstanding(k), CallHandler(k, o, e, own)
      PROVE  Broken'
  <2>1. stopped' = stopped /\ \A j \in IoOps \ {k} : ended'[j] = ended[j]
    BY <1>3 DEF CallHandler, IoTypes, LoopTypes
  <2> QED BY <1>2, <1>3, <2>1
<1>4. CASE UNCHANGED <<ended, stopped>>
  BY <1>4 DEF Broken
<1>5. ASSUME NEW k \in IoOps, Try(k) PROVE Broken'
  <2>1. Aligned(engine, input_, input_buffer_)
    BY DEF Stream
  <2>2. Outstanding(k) /\ \E r, o : Passes(k, r, o)
    BY <1>5, <2>1, TryResult
  <2> QED BY <1>3, <1>4, <2>2 DEF Passes, Wants
<1>6. ASSUME NEW k \in IoOps, Resume(k) PROVE Broken'
  <2>1. Outstanding(k) /\ (Retries(k) \/ \E o, e, own : Reports(k, o, e, own))
    BY <1>6, ResumeResult
  <2> QED BY <1>3, <1>4, <2>1 DEF Retries, Reports
<1> QED BY <1>1, <1>5, <1>6, SslCases

\* The peer speaks in turn.
LEMMA SentStep ==
  ASSUME IoTypes, SentInOrder, SslNext
  PROVE  SentInOrder'
<1>1. incoming' = incoming \/ PeerSends
  <2>1. ASSUME NEW k \in IoOps, LoopStep(k) \/ Start(k) \/ Cancel(k) PROVE incoming' = incoming
    BY <2>1 DEF LoopStep, Try, Resume, Start, Cancel, peerVars
  <2>2. ASSUME NEW k \in IoOps, Transfer(k) \/ TransferFails(k) PROVE incoming' = incoming
    BY <2>2 DEF Transfer, ReadSome, WriteSome, ReadNothing, TransferFails, peerVars
  <2>3. PeerGone => incoming' = incoming
    BY DEF PeerGone
  <2> QED BY <2>1, <2>2, <2>3 DEF SslNext
<1>2. CASE incoming' = incoming
  BY <1>2 DEF SentInOrder
<1>3. CASE PeerSends
  <2>1. PICK u \in MaySend : incoming' = Append(incoming, u)
    BY <1>3 DEF PeerSends
  <2>2. PICK n \in Nat : n = Len(incoming)
    BY DEF IoTypes, LayerTypes
  <2>3. /\ Len(incoming') = n + 1 /\ incoming'[n + 1] = u
        /\ \A i \in 1 .. n : incoming'[i] = incoming[i]
    BY <2>1, <2>2 DEF IoTypes, LayerTypes
  <2>4. ASSUME NEW i \in 1 .. n + 1, incoming'[i] \in {"data", "close", "ask"}
        PROVE  \E j \in 1 .. i : incoming'[j] = "hello"
    <3>1. CASE i \in 1 .. n
      <4>1. PICK j \in 1 .. i : incoming[j] = "hello"
        BY <2>2, <2>3, <2>4, <3>1 DEF SentInOrder
      <4> QED BY <2>3, <3>1, <4>1
    <3>2. CASE i = n + 1
      <4>1. PICK j \in 1 .. n : incoming[j] = "hello"
        BY <2>2, <2>3, <2>4, <3>2 DEF MaySend
      <4> QED BY <2>2, <2>3, <3>2, <4>1
    <3> QED BY <2>2, <3>1, <3>2
  <2>5. ASSUME NEW i \in 1 .. n + 1, incoming'[i] = "close" PROVE i = n + 1
    BY <1>3, <2>2, <2>3, <2>5 DEF PeerSends
  <2> QED BY <2>3, <2>4, <2>5 DEF SentInOrder
<1> QED BY <1>1, <1>2, <1>3

\* What the engine has was sent, and is next.
LEMMA EatenBound ==
  ASSUME IoTypes, Stream
  PROVE  /\ engine.eaten \in Nat /\ Len(engine.in) \in Nat
         /\ engine.eaten + Len(engine.in) + Held(input_) <= Len(incoming)
         /\ engine.eaten + Len(engine.in) <= Len(incoming) /\ engine.eaten <= Len(incoming)
         /\ \A i \in 1 .. Len(engine.in) : engine.in[i] = engine.eaten + i
<1>1. PICK e, l, h, r, s \in Nat : /\ e = engine.eaten /\ l = Len(engine.in) /\ h = Held(input_)
                                   /\ r = received /\ s = Len(incoming)
  <2>1. input_.last + 1 - input_.first \in Nat
    BY DEF IoTypes, LayerTypes, View, Stream, Aligned
  <2>2. engine.eaten \in Nat /\ Len(engine.in) \in Nat /\ received \in Nat /\ Len(incoming) \in Nat
    BY DEF IoTypes, LayerTypes, Engine
  <2> QED BY <2>1, <2>2 DEF Held
<1>a. e \in Nat /\ l \in Nat /\ h \in Nat /\ r \in Nat /\ s \in Nat
  BY <1>1
<1>2. e + l + h <= r
  <2>1. CASE \A k \in IoOps : op[k].pc # "reading"
    BY <1>1, <2>1 DEF Stream, Edge
  <2>2. CASE \E k \in IoOps : op[k].pc = "reading"
    <3>1. PICK k \in IoOps : op[k].pc = "reading"
      BY <2>2
    <3>2. PICK n \in Nat : n = args[k].n
      BY SslAssumption DEF IoTypes, LayerTypes, Args, SslAssumption
    <3>3. e + l + h + n = r
      BY <1>1, <3>1, <3>2 DEF Stream, Brought, Edge
    <3>4. n \in Nat
      BY <3>2
    <3> QED BY <1>a, <3>3, <3>4
  <2> QED BY <2>1, <2>2
<1>3. r <= s
  BY <1>1 DEF Stream
<1>4. e + l + h <= s /\ e + l <= s /\ e <= s
  BY <1>a, <1>2, <1>3
<1> QED BY <1>1, <1>4 DEF Stream, Aligned

\* The units that a call consumes.
LEMMA EatenUnits ==
  ASSUME IoTypes, Stream, NEW k \in IoOps
  PROVE  /\ Eaten(k) \in Nat /\ engine.eaten + Eaten(k) <= Len(incoming)
         /\ \A i \in engine.eaten + 1 .. engine.eaten + Eaten(k) - 1 : incoming[i] \notin Answers(k)
         /\ Answer(k) = "nothing" \/ Answer(k) \in Answers(k)
         /\ Answer(k) = "nothing" =>
              \A i \in engine.eaten + 1 .. engine.eaten + Eaten(k) : incoming[i] \notin Answers(k)
         /\ Answer(k) # "nothing" => Eaten(k) > 0 /\ Answer(k) = incoming[engine.eaten + Eaten(k)]
<1>1. PICK e, l, c \in Nat : e = engine.eaten /\ l = Len(engine.in) /\ c = Eaten(k) /\ c <= l
  <2>1. Eaten(k) \in 0 .. Len(engine.in)
    BY EatenFacts
  <2> QED BY <2>1, EatenBound
<1>2. \A i \in 1 .. l : engine.in[i] = e + i
  BY <1>1, EatenBound
<1>3. e + c <= Len(incoming)
  <2>1. PICK s \in Nat : s = Len(incoming)
    BY DEF IoTypes, LayerTypes
  <2> QED BY <1>1, <2>1, EatenBound
<1>a. e \in Nat /\ l \in Nat /\ c \in Nat /\ c <= l
  BY <1>1
<1>4. ASSUME NEW i \in e + 1 .. e + c PROVE i - e \in 1 .. c /\ engine.in[i - e] = i
  <2>1. i - e \in 1 .. c /\ i - e \in 1 .. l /\ e + (i - e) = i
    BY <1>a
  <2> QED BY <1>2, <2>1
<1>5. ASSUME NEW i \in e + 1 .. e + c - 1 PROVE incoming[i] \notin Answers(k)
  <2>1. i - e \in 1 .. c - 1 /\ i \in e + 1 .. e + c
    BY <1>a
  <2> QED BY <1>1, <1>4, <2>1, EatenFacts
<1>6. ASSUME Answer(k) = "nothing", NEW i \in e + 1 .. e + c PROVE incoming[i] \notin Answers(k)
  <2>1. i - e \in 1 .. l
    BY <1>a, <1>4
  <2> QED BY <1>1, <1>4, <1>6, <2>1, EatenFacts
<1>7. Answer(k) # "nothing" => c > 0 /\ Answer(k) = incoming[e + c]
  <2>1. Answer(k) # "nothing" => c > 0 /\ Answer(k) = incoming[engine.in[c]]
    BY <1>1, EatenFacts
  <2>2. c > 0 => engine.in[c] = e + c
    BY <1>a, <1>2
  <2> QED BY <2>1, <2>2
<1> QED BY <1>1, <1>3, <1>5, <1>6, <1>7, EatenFacts

\* What an operation that is over has left.
Over(k, o, e) ==
    /\ op'[k] = Idle /\ stopped' = stopped
    /\ \A j \in IoOps \ {k} : op'[j] = op[j] /\ ended'[j] = ended[j]
    /\ \/ o.ec_ = "none" /\ ended'[k] = "success"
          /\ given' = given + IF k = "read" THEN o.bytes_transferred_ ELSE 0
       \/ /\ o.ec_ = "eof" /\ e.got_close /\ ended'[k] = IF k = "shutdown" THEN "success" ELSE "eof"
          /\ given' = given
       \/ /\ o.ec_ # "none" /\ ended'[k] \notin {"none", "success", "eof"} /\ given' = given
LEMMA CalledEnd ==
  ASSUME IoTypes, NEW k \in IoOps, NEW o \in IoOp, NEW e \in Engine, NEW own, CallHandler(k, o, e, own)
  PROVE  Over(k, o, e)
<1>1. PICK m \in Errors \cup {"truncated"} : /\ m = Mapped(e, o.ec_) /\ (m \in {"none", "eof"} => m = o.ec_)
                                             /\ (o.ec_ = "none" => m = "none") /\ (m = "eof" => e.got_close)
  <2>1. o.ec_ \in Errors
    BY DEF IoOp
  <2> QED BY <2>1, MappedFacts
<1>2. /\ ended' = [ended EXCEPT ![k] = IF m = "none" \/ (k = "shutdown" /\ m = "eof") THEN "success" ELSE m]
      /\ given' = given + IF k = "read" /\ m = "none" THEN o.bytes_transferred_ ELSE 0
      /\ op' = [op EXCEPT ![k] = Idle] /\ stopped' = stopped
  BY <1>1 DEF CallHandler
<1>8. m # "none" => given' = given
  BY <1>2 DEF IoTypes, LoopTypes
<1>3. op'[k] = Idle /\ \A j \in IoOps \ {k} : op'[j] = op[j] /\ ended'[j] = ended[j]
  BY <1>2 DEF IoTypes, LoopTypes
<1>4. ended'[k] = IF m = "none" \/ (k = "shutdown" /\ m = "eof") THEN "success" ELSE m
  BY <1>2 DEF IoTypes, LoopTypes
<1>5. CASE m = "none"
  BY <1>1, <1>2, <1>3, <1>4, <1>5 DEF Over
<1>6. CASE m = "eof"
  BY <1>1, <1>2, <1>3, <1>4, <1>6, <1>8 DEF Over
<1>7. CASE m \notin {"none", "eof"}
  <2>1. m # "success" /\ o.ec_ # "none"
    BY <1>1, <1>7 DEF Errors
  <2> QED BY <1>1, <1>2, <1>3, <1>4, <1>7, <1>8, <2>1 DEF Over
<1> QED BY <1>5, <1>6, <1>7

\* The engine has heard the peer's part of the handshake exactly when it says so.
LEMMA ShakenStep ==
  ASSUME IoTypes, Control, Stream, Shaken, SslNext
  PROVE  Shaken'
<1>0. "handshake" \in IoOps /\ Aligned(engine, input_, input_buffer_) /\ engine.eaten \in Nat
  BY EatenBound DEF IoOps, Stream
<1>1. CASE Elsewhere
  <2>1. Greeted' => Greeted
    <3>1. SUFFICES ASSUME NEW i \in 1 .. engine.eaten, incoming'[i] = "hello" PROVE incoming[i] = "hello"
      BY <1>1 DEF Elsewhere, Same, Greeted
    <3>2. i \in 1 .. Len(incoming)
      <4>1. PICK n \in Nat : n = Len(incoming)
        BY DEF IoTypes, LayerTypes
      <4> QED BY <1>0, <4>1, EatenBound
    <3> QED BY <1>1, <3>1, <3>2 DEF Elsewhere, Extends
  <2>2. engine'.hello = engine.hello /\ ended' = ended /\ (Parting' <=> Parting)
        /\ op'["handshake"].want_ = op["handshake"].want_ /\ op'["handshake"].pc = op["handshake"].pc
    BY <1>0, <1>1 DEF Elsewhere, Same, Parting
  <2> QED BY <2>1, <2>2 DEF Shaken
<1>2. ASSUME NEW k \in IoOps \ {"handshake"}, Outstanding(k), ended'["handshake"] = ended["handshake"],
             op'["handshake"] = op["handshake"], engine'.hello = engine.hello
      PROVE  Shaken'
  <2>1. ended["handshake"] = "success"
    BY <1>2 DEF Control
  <2> QED BY <1>2, <2>1 DEF Shaken
<1>3. ASSUME NEW k \in IoOps \ {"handshake"}, Try(k) PROVE Shaken'
  <2>1. PICK r, o : Passes(k, r, o)
    BY <1>0, <1>3, TryResult
  <2>2. op'["handshake"] = op["handshake"] /\ Outstanding(k)
    BY <1>0, <1>3, TryResult
  <2>3. r.eng.hello = engine.hello
    BY <2>1, CallFacts DEF Passes, Called
  <2>4. ended'["handshake"] = ended["handshake"]
    <3>1. ended' = ended \/ \E x : ended' = [ended EXCEPT ![k] = x]
      BY <2>1 DEF Passes, Wants, CallHandler
    <3> QED BY <1>0, <3>1 DEF IoTypes, LoopTypes
  <2> QED BY <1>2, <2>1, <2>2, <2>3, <2>4 DEF Same, Passes
<1>4. ASSUME NEW k \in IoOps \ {"handshake"}, Resume(k) PROVE Shaken'
  <2>1. Retries(k) \/ \E o, e, own : Reports(k, o, e, own)
    BY <1>4, ResumeResult
  <2>2. op'["handshake"] = op["handshake"] /\ Outstanding(k) /\ Same(engine, engine')
    BY <1>0, <1>4, ResumeResult
  <2>3. ended'["handshake"] = ended["handshake"]
    <3>1. ended' = ended \/ \E x : ended' = [ended EXCEPT ![k] = x]
      BY <2>1 DEF Retries, Reports, CallHandler
    <3> QED BY <1>0, <3>1 DEF IoTypes, LoopTypes
  <2> QED BY <1>2, <2>2, <2>3 DEF Same
<1>5. ASSUME Try("handshake") PROVE Shaken'
  <2>1. PICK r, o : Passes("handshake", r, o)
    BY <1>0, <1>5, TryResult
  <2>a. Called("handshake", r, o) /\ Same(r.eng, engine')
    BY <2>1 DEF Passes
  <2>b. WantOf(r) # "nothing" => Wants("handshake", r, o)
    BY <2>1 DEF Passes
  <2>2. ended["handshake"] = "none" /\ engine.hello # 2 /\ ~Greeted /\ incoming' = incoming
    <3>1. Outstanding("handshake") /\ op["handshake"].pc = "idle" /\ incoming' = incoming
      BY <1>0, <1>5, TryResult
    <3> QED BY <1>0, <3>1 DEF Control, Shaken, Parting
  <2>3. r = Handshake /\ o.want_ = WantOf(r)
    <3>1. o.want_ = WantOf(r)
      BY <1>0, <2>a, CalledFacts
    <3> QED BY <2>a, <3>1 DEF Called, Call
  <2>4. /\ engine'.eaten = engine.eaten + Eaten("handshake") /\ r.made \in Nat
        /\ \/ Answer("handshake") = "hello" /\ r.eng.hello = 2 /\ r.says = "ok" /\ r.made = 1
           \/ Answer("handshake") # "hello" /\ r.eng.hello = 1 /\ r.says = "want_read"
    BY <2>a, <2>3, HandshakeFacts DEF Same, Takes
  <2>5. CASE r.eng.hello = 2
    <3>1. WantOf(r) = "output"
      BY <2>4, <2>5 DEF WantOf
    <3>2. engine'.hello = 2 /\ op'["handshake"].want_ = "output" /\ op'["handshake"].pc \in {"writing", "wait_write"}
      BY <2>a, <2>b, <2>3, <2>5, <3>1 DEF Same, Wants
    <3> QED BY <3>2 DEF Shaken, Parting
  <2>6. CASE r.eng.hello # 2
    <3>1. Answer("handshake") # "hello" /\ r.says = "want_read" /\ engine'.hello = 1
      BY <2>a, <2>4, <2>6 DEF Same
    <3>2. WantOf(r) \in {"output_and_retry", "input_and_retry"}
      BY <3>1 DEF WantOf
    <3>3. ended' = ended /\ op'["handshake"].want_ # "output" /\ op'["handshake"].pc # "posted"
      BY <2>b, <2>3, <3>2 DEF Wants
    <3>4. Answer("handshake") = "nothing"
      BY <1>0, <3>1, EatenUnits DEF Answers
    <3>5. ~Greeted'
      <4>1. SUFFICES ASSUME NEW i \in 1 .. engine'.eaten PROVE incoming[i] # "hello"
        BY <2>2 DEF Greeted
      <4>2. CASE i <= engine.eaten
        BY <1>0, <2>2, <4>2 DEF Greeted
      <4>3. CASE ~(i <= engine.eaten)
        <5>1. i \in engine.eaten + 1 .. engine.eaten + Eaten("handshake")
          BY <1>0, <2>4, <4>3
        <5> QED BY <1>0, <3>4, <5>1, EatenUnits DEF Answers
      <4> QED BY <4>2, <4>3
    <3> QED BY <2>2, <3>1, <3>3, <3>5 DEF Shaken
  <2> QED BY <2>5, <2>6
<1>6. ASSUME Resume("handshake") PROVE Shaken'
  <2>1. /\ incoming' = incoming /\ Same(engine, engine') /\ Outstanding("handshake")
        /\ op["handshake"].pc # "idle" /\ op["handshake"] \in IoOp
    BY <1>0, <1>6, ResumeResult
  <2>2. ended["handshake"] = "none"
    BY <2>1 DEF Control
  <2>3. op["handshake"].want_ # "nothing"
    BY <1>0, <2>1 DEF Control, Fit, Suits, Shaken, IoOp, PCs
  <2>4. Greeted' <=> Greeted
    BY <2>1 DEF Greeted, Same
  <2>5. ASSUME NEW o, NEW e, NEW own, Reports("handshake", o, e, own) PROVE Shaken'
    <3>1. o \in IoOp /\ e \in Engine /\ CallHandler("handshake", o, e, own)
      BY <2>5 DEF Reports
    <3>2. /\ op'["handshake"] = Idle /\ ended'["handshake"] # "none"
          /\ ended'["handshake"] = "success" => o.ec_ = "none"
      <4>1. Over("handshake", o, e)
        BY <1>0, <3>1, CalledEnd
      <4> QED BY <4>1 DEF Over
    <3>3. ended'["handshake"] = "success" => engine.hello = 2
      BY <2>3, <2>5, <3>2 DEF Reports, Shaken
    <3> QED BY <2>1, <2>4, <3>2, <3>3 DEF Shaken, Same, Idle
  <2>6. CASE Retries("handshake")
    <3>1. engine.hello # 2
      BY <2>2, <2>6 DEF Retries, Shaken, Parting
    <3> QED BY <2>1, <2>2, <2>4, <2>6, <3>1 DEF Retries, Shaken, Same
  <2> QED BY <1>0, <1>6, <2>5, <2>6, ResumeResult
<1> QED BY <1>1, <1>3, <1>4, <1>5, <1>6, SslCases

\* The end of the records: the peer's notification, with nothing behind it.
LEMMA ClosedStep ==
  ASSUME IoTypes, Control, Stream, Closed, SslNext
  PROVE  Closed'
<1>0. Aligned(engine, input_, input_buffer_) /\ engine.eaten \in Nat /\ "read" \in IoOps /\ Len(incoming) \in Nat
  BY EatenBound DEF IoOps, Stream, IoTypes, LayerTypes
<1>1. CASE Elsewhere
  <2>1. ASSUME NEW i \in 1 .. engine.eaten, incoming[i] = "close" PROVE incoming'[i] = "close"
    <3>1. i \in 1 .. Len(incoming)
      BY <1>0, EatenBound
    <3> QED BY <1>1, <2>1, <3>1 DEF Elsewhere, Extends
  <2> QED BY <1>1, <2>1 DEF Elsewhere, Same, Closed
<1>2. ASSUME NEW k \in IoOps, NEW r, NEW o, Passes(k, r, o), incoming' = incoming
      PROVE  /\ engine.got_close => engine'.got_close
             /\ engine'.got_close => \E i \in 1 .. engine'.eaten : incoming'[i] = "close"
  <2>1. r = Call(k) /\ Same(r.eng, engine')
    BY <1>2 DEF Passes, Called
  <2>2. /\ engine.got_close => r.eng.got_close
        /\ \/ r.eng.got_close => engine.got_close
           \/ Answer(k) = "close" /\ Takes(r.eng, Eaten(k))
    <3>1. CASE k = "handshake"
      BY <2>1, <3>1, HandshakeFacts DEF Call
    <3>2. CASE k = "read"
      BY <2>1, <3>2, ReadFacts DEF Call
    <3>3. CASE k = "write"
      BY <2>1, <3>3, WriteFacts DEF Call
    <3>4. CASE k = "shutdown"
      BY <2>1, <3>4, ShutDownFacts DEF Call
    <3> QED BY <3>1, <3>2, <3>3, <3>4 DEF IoOps
  <2>3. PICK c \in Nat : Takes(r.eng, c) /\ c \in {0, Eaten(k)}
    BY <2>1, CallFacts, EatenUnits
  <2>4. r.eng.eaten = engine.eaten + c
    BY <2>3 DEF Takes
  <2>5. CASE engine.got_close
    <3>1. PICK i \in 1 .. engine.eaten : incoming[i] = "close"
      BY <2>5 DEF Closed
    <3>2. i \in 1 .. engine.eaten + c
      BY <1>0, <2>3, <3>1
    <3> QED BY <1>2, <2>1, <2>2, <2>4, <2>5, <3>1, <3>2 DEF Same
  <2>6. CASE ~engine.got_close /\ r.eng.got_close
    <3>1. Answer(k) = "close" /\ Takes(r.eng, Eaten(k))
      BY <2>2, <2>6
    <3>2. Eaten(k) \in Nat /\ Eaten(k) > 0 /\ incoming[engine.eaten + Eaten(k)] = "close"
      BY <3>1, EatenUnits
    <3>3. engine.eaten + Eaten(k) \in 1 .. r.eng.eaten
      BY <1>0, <3>1, <3>2 DEF Takes
    <3> QED BY <1>2, <2>1, <2>6, <3>2, <3>3 DEF Same
  <2> QED BY <2>1, <2>5, <2>6 DEF Same
<1>3. ASSUME NEW k \in IoOps, NEW o \in IoOp, NEW e \in Engine, NEW own, CallHandler(k, o, e, own),
             ended'["read"] = "eof"
      PROVE  e.got_close \/ ended["read"] = "eof"
  <2>1. Over(k, o, e)
    BY <1>3, CalledEnd
  <2> QED BY <1>0, <1>3, <2>1 DEF Over
<1>4. ASSUME NEW k \in IoOps, Try(k) PROVE Closed'
  <2>1. PICK r, o : Passes(k, r, o)
    BY <1>0, <1>4, TryResult
  <2>2. incoming' = incoming
    BY <1>0, <1>4, TryResult
  <2>3. /\ engine.got_close => engine'.got_close
        /\ engine'.got_close => \E i \in 1 .. engine'.eaten : incoming'[i] = "close"
    BY <1>2, <2>1, <2>2
  <2>4. Called(k, r, o) /\ Same(r.eng, engine')
    BY <2>1 DEF Passes
  <2>5. o \in IoOp /\ r.eng \in Engine
    <3>1. o \in IoOp
      BY <2>4, CalledFacts
    <3>2. r.eng \in Engine
      BY <2>4, CallFacts DEF Called, Takes
    <3> QED BY <3>1, <3>2
  <2>6. ended'["read"] = "eof" => engine'.got_close
    <3>1. CASE CallHandler(k, o, r.eng, TRUE)
      BY <1>3, <2>3, <2>4, <2>5, <3>1 DEF Closed, Same
    <3>2. CASE ended' = ended
      BY <2>3, <3>2 DEF Closed
    <3> QED BY <2>1, <3>1, <3>2 DEF Passes, Wants
  <2> QED BY <2>3, <2>6 DEF Closed
<1>5. ASSUME NEW k \in IoOps, Resume(k) PROVE Closed'
  <2>1. incoming' = incoming /\ Same(engine, engine') /\ (Retries(k) \/ \E o, e, own : Reports(k, o, e, own))
    BY <1>5, ResumeResult
  <2>2. ended'["read"] = "eof" => engine.got_close
    <3>1. CASE Retries(k)
      BY <3>1 DEF Retries, Closed
    <3>2. CASE \E o, e, own : Reports(k, o, e, own)
      <4>1. PICK o, e, own : Reports(k, o, e, own)
        BY <3>2
      <4>2. o \in IoOp /\ e \in Engine /\ CallHandler(k, o, e, own) /\ e.got_close = engine.got_close
        BY <4>1 DEF Reports, Same
      <4> QED BY <1>3, <4>2 DEF Closed
    <3> QED BY <2>1, <3>1, <3>2
  <2> QED BY <2>1, <2>2 DEF Closed, Same
<1> QED BY <1>1, <1>4, <1>5, SslCases

\* Counting the records among the first n units.
LEMMA CountFacts ==
  ASSUME NEW n \in Nat
  PROVE  /\ DataUpTo(n) \in Nat
         /\ \A m \in Nat : m >= n /\ (\A i \in n + 1 .. m : incoming[i] # "data") => DataUpTo(m) = DataUpTo(n)
         /\ \A m \in Nat : /\ m > n /\ incoming[m] = "data" /\ \A i \in n + 1 .. m - 1 : incoming[i] # "data"
                           => DataUpTo(m) = DataUpTo(n) + 1
<1> DEFINE D(m) == {i \in 1 .. m : incoming[i] = "data"}
<1>1. IsFiniteSet(D(n)) /\ Cardinality(D(n)) \in Nat
  <2>1. IsFiniteSet(1 .. n)
    BY FS_Interval
  <2>2. IsFiniteSet(D(n))
    BY <2>1, FS_Subset
  <2> QED BY <2>2, FS_CardinalityType
<1>2. ASSUME NEW m \in Nat, m >= n, \A i \in n + 1 .. m : incoming[i] # "data" PROVE DataUpTo(m) = DataUpTo(n)
  <2>1. D(m) = D(n)
    BY <1>2
  <2> QED BY <2>1 DEF DataUpTo
<1>3. ASSUME NEW m \in Nat, m > n, incoming[m] = "data", \A i \in n + 1 .. m - 1 : incoming[i] # "data"
      PROVE  DataUpTo(m) = DataUpTo(n) + 1
  <2>1. D(m) = D(n) \cup {m} /\ m \notin D(n)
    BY <1>3
  <2>2. Cardinality(D(n) \cup {m}) = Cardinality(D(n)) + 1
    <3> HIDE DEF D
    <3> QED BY <1>1, <2>1, FS_AddElement
  <2> QED BY <2>1, <2>2 DEF DataUpTo
<1>4. DataUpTo(n) \in Nat
  BY <1>1 DEF DataUpTo
<1>5. \A m \in Nat : m >= n /\ (\A i \in n + 1 .. m : incoming[i] # "data") => DataUpTo(m) = DataUpTo(n)
  BY <1>2
<1>6. \A m \in Nat : /\ m > n /\ incoming[m] = "data" /\ \A i \in n + 1 .. m - 1 : incoming[i] # "data"
                     => DataUpTo(m) = DataUpTo(n) + 1
  BY <1>3
<1> QED BY <1>4, <1>5, <1>6

\* Each record that the engine gets out of the input is in the hands of a read, or given.
LEMMA TryCounted ==
  ASSUME IoTypes, Control, Control', Stream, SentInOrder, Shaken, Counted, NEW k \in IoOps, Try(k),
         Broken => Broken'
  PROVE  Counted'
<1>0. Aligned(engine, input_, input_buffer_) /\ engine.eaten \in Nat /\ "read" \in IoOps
      /\ given \in Nat /\ op["read"] \in IoOp /\ op["read"].bytes_transferred_ \in Nat
  <2>1. Aligned(engine, input_, input_buffer_) /\ engine.eaten \in Nat
    BY EatenBound DEF Stream
  <2>2. op \in [IoOps -> IoOp] /\ given \in Nat
    BY DEF IoTypes, LoopTypes
  <2>3. "read" \in IoOps
    BY DEF IoOps
  <2>4. op["read"] \in IoOp
    BY <2>2, <2>3
  <2>5. op["read"].bytes_transferred_ \in Nat
    BY <2>4 DEF IoOp
  <2> QED BY <2>1, <2>2, <2>3, <2>4, <2>5
<1>1. /\ incoming' = incoming /\ running = k /\ op[k].pc = "idle" /\ Outstanding(k)
      /\ \A j \in IoOps \ {k} : op'[j] = op[j]
  BY <1>0, TryResult
<1>2. PICK r, o : Passes(k, r, o)
  BY <1>0, TryResult
<1>3. r = Call(k) /\ Called(k, r, o) /\ Same(r.eng, engine')
  BY <1>2 DEF Passes, Called
<1>4. /\ o \in IoOp /\ o.ec_ = ErrorOf(r) /\ o.want_ = WantOf(r)
      /\ o.bytes_transferred_ = IF r.says = "ok" THEN r.bytes ELSE op[k].bytes_transferred_
  BY <1>3, CalledFacts
<1>5. r.eng \in Engine /\ (engine.sent_close => engine'.sent_close)
      /\ (r.says = "ok" => r.bytes \in 0 .. 1 /\ WantOf(r) \in {"output", "nothing"})
  BY <1>3, CallFacts DEF Takes, Same
<1>6. op'["read"].pc # "idle" => running' # "read"
  BY <1>0 DEF Control, Fit
<1>7. ASSUME k # "read" PROVE op'["read"] = op["read"] /\ given' = given
  <2>1. CASE CallHandler(k, o, r.eng, TRUE)
    <3>1. Over(k, o, r.eng)
      BY <1>4, <1>5, <2>1, CalledEnd
    <3> QED BY <1>0, <1>7, <3>1 DEF Over
  <2>2. CASE Wants(k, r, o)
    BY <1>0, <1>1, <1>7, <2>2 DEF Wants
  <2> QED BY <1>2, <2>1, <2>2 DEF Passes
<1>8. ASSUME k # "read", ~engine'.sent_close => DataUpTo(engine'.eaten) = DataUpTo(engine.eaten) PROVE Counted'
  <2>1. op'["read"].bytes_transferred_ > 0 => /\ running' # "read" /\ op'["read"].pc # "idle"
                                              /\ op'["read"].want_ \in {"output", "nothing"}
                                              /\ op'["read"].ec_ = "none"
    BY <1>6, <1>7, <1>8 DEF Counted
  <2>2. DataUpTo(engine'.eaten) = DataUpTo(engine.eaten)' 
    BY <1>1 DEF DataUpTo
  <2>3. ~Broken' /\ ~engine'.sent_close => given' + op'["read"].bytes_transferred_ = DataUpTo(engine.eaten)'
    BY <1>5, <1>7, <1>8, <2>2 DEF Counted
  <2> QED BY <2>1, <2>3 DEF Counted
<1>9. CASE k = "handshake"
  <2>1. ~Greeted
    <3>1. ended["handshake"] = "none"
      BY <1>1, <1>9 DEF Control
    <3> QED BY <1>1, <1>9, <3>1 DEF Shaken, Parting
  <2>2. PICK c \in Nat : c = Eaten("handshake") /\ engine'.eaten = engine.eaten + c
    BY <1>3, <1>9, HandshakeFacts, EatenUnits DEF Call, Same, Takes
  <2>3. ASSUME NEW i \in engine.eaten + 1 .. engine.eaten + c, incoming[i] = "data" PROVE FALSE
    <3>1. i \in 1 .. Len(incoming)
      <4>1. PICK n \in Nat : n = Len(incoming)
        BY DEF IoTypes, LayerTypes
      <4>2. engine.eaten + c <= n
        BY <1>9, <2>2, <4>1, EatenUnits
      <4> QED BY <1>0, <2>2, <4>1, <4>2
    <3>2. PICK j \in 1 .. i : incoming[j] = "hello"
      BY <2>3, <3>1 DEF SentInOrder
    <3>3. j \in engine.eaten + 1 .. engine.eaten + c - 1
      <4>1. j > engine.eaten
        BY <1>0, <2>1, <3>2 DEF Greeted
      <4>2. j # i
        BY <2>3, <3>2
      <4> QED BY <1>0, <2>2, <3>2, <4>1, <4>2
    <3> QED BY <1>9, <2>2, <3>2, <3>3, EatenUnits DEF Answers
  <2>4. DataUpTo(engine.eaten + c) = DataUpTo(engine.eaten)
    <3>1. PICK n, m \in Nat : n = engine.eaten /\ m = engine.eaten + c /\ m >= n
      BY <1>0, <2>2
    <3>2. \A i \in n + 1 .. m : incoming[i] # "data"
      BY <2>3, <3>1
    <3> QED BY <3>1, <3>2, CountFacts
  <2> QED BY <1>8, <1>9, <2>2, <2>4
<1>10. CASE k = "write"
  <2>1. engine'.eaten = engine.eaten
    BY <1>3, <1>10, CallFacts DEF Same
  <2> QED BY <1>8, <1>10, <2>1
<1>11. CASE k = "shutdown"
  <2>1. engine'.sent_close \/ engine'.eaten = engine.eaten
    <3>1. engine'.sent_close \/ Takes(r.eng, 0)
      BY <1>3, <1>11, ShutDownFacts DEF Call, Same
    <3>2. Takes(r.eng, 0) => r.eng.eaten = engine.eaten
      BY <1>0 DEF Takes
    <3> QED BY <1>3, <3>1, <3>2 DEF Same
  <2> QED BY <1>8, <1>11, <2>1
<1>12. CASE k = "read"
  <2>1. op["read"].bytes_transferred_ = 0 /\ r = Read
    BY <1>0, <1>1, <1>3, <1>12 DEF Counted, Call
  <2>2. PICK b \in 0 .. 1 : b = o.bytes_transferred_ /\ (b = 1 <=> r.says = "ok" /\ r.bytes = 1)
    <3>1. o.bytes_transferred_ \in 0 .. 1
      BY <1>4 DEF IoOp
    <3> QED BY <1>4, <1>12, <2>1, <3>1
  <2>3. r.says = "ok" => ErrorOf(r) = "none"
    BY DEF ErrorOf
  <2>4. DataUpTo(engine'.eaten) = DataUpTo(engine.eaten) + b
    <3>1. CASE Takes(r.eng, 0) /\ r.says # "ok"
      <4>1. engine'.eaten = engine.eaten /\ b = 0
        BY <1>0, <1>3, <2>2, <3>1 DEF Takes, Same
      <4>2. DataUpTo(engine.eaten) \in Nat
        BY <1>0, CountFacts
      <4> QED BY <4>1, <4>2
    <3>2. CASE /\ Takes(r.eng, Eaten("read")) /\ ~engine.got_close
               /\ \/ Answer("read") = "data" /\ r.says = "ok" /\ r.bytes = 1
                  \/ Answer("read") \in {"close", "nothing"} /\ r.says # "ok"
      <4>1. PICK c \in Nat : c = Eaten("read") /\ engine'.eaten = engine.eaten + c
        BY <1>0, <1>3, <3>2, EatenUnits DEF Same, Takes
      <4>2. \A i \in engine.eaten + 1 .. engine.eaten + c - 1 : incoming[i] # "data"
        BY <1>0, <4>1, EatenUnits DEF Answers
      <4>3. CASE Answer("read") = "data"
        <5>1. c > 0 /\ incoming[engine.eaten + c] = "data" /\ b = 1
          BY <1>0, <2>2, <3>2, <4>1, <4>3, EatenUnits
        <5>2. DataUpTo(engine.eaten + c) = DataUpTo(engine.eaten) + 1
          <6>1. PICK n, m \in Nat : n = engine.eaten /\ m = engine.eaten + c /\ m > n
            <7>1. PICK n \in Nat : n = engine.eaten
              BY <1>0
            <7>2. n + c \in Nat /\ n + c > n
              BY <5>1
            <7> QED BY <7>1, <7>2
          <6>2. incoming[m] = "data" /\ \A i \in n + 1 .. m - 1 : incoming[i] # "data"
            BY <4>2, <5>1, <6>1
          <6> QED BY <6>1, <6>2, CountFacts
        <5> QED BY <4>1, <5>1, <5>2
      <4>4. CASE Answer("read") # "data"
        <5>1. b = 0
          BY <2>2, <3>2, <4>4
        <5>2. \A i \in engine.eaten + 1 .. engine.eaten + c : incoming[i] # "data"
          <6>1. CASE Answer("read") = "nothing"
            BY <1>0, <4>1, <6>1, EatenUnits DEF Answers
          <6>2. CASE Answer("read") = "close"
            <7>1. incoming[engine.eaten + c] = "close"
              BY <1>0, <4>1, <6>2, EatenUnits
            <7> QED BY <1>0, <4>1, <4>2, <7>1
          <6> QED BY <3>2, <4>4, <6>1, <6>2
        <5>3. DataUpTo(engine.eaten + c) = DataUpTo(engine.eaten) /\ DataUpTo(engine.eaten) \in Nat
          <6>1. PICK n, m \in Nat : n = engine.eaten /\ m = engine.eaten + c /\ m >= n
            BY <1>0, <4>1
          <6>2. \A i \in n + 1 .. m : incoming[i] # "data"
            BY <5>2, <6>1
          <6> QED BY <6>1, <6>2, CountFacts
        <5> QED BY <4>1, <5>1, <5>3
      <4> QED BY <4>3, <4>4
    <3> QED BY <2>1, <3>1, <3>2, ReadFacts
  <2>5. DataUpTo(engine'.eaten) = DataUpTo(engine.eaten)'
    BY <1>1 DEF DataUpTo
  <2>6. CASE CallHandler(k, o, r.eng, TRUE)
    <3>0. Over(k, o, r.eng)
      BY <1>4, <1>5, <2>6, CalledEnd
    <3>1. op'["read"] = Idle /\ Idle.bytes_transferred_ = 0
      BY <1>12, <3>0 DEF Idle, Over
    <3>2. given' = given + b
      <4>1. CASE b = 1
        BY <1>4, <1>12, <2>2, <2>3, <3>0, <4>1 DEF Over
      <4>2. CASE b = 0
        BY <1>0, <1>12, <2>2, <3>0, <4>2 DEF Over
      <4> QED BY <2>2, <4>1, <4>2
    <3>3. ~Broken' /\ ~engine'.sent_close => given' + op'["read"].bytes_transferred_ = DataUpTo(engine.eaten)'
      <4>1. ~Broken' /\ ~engine'.sent_close => given + 0 = DataUpTo(engine.eaten)
        BY <1>5, <2>1 DEF Counted
      <4>2. given + b \in Nat
        BY <1>0, <2>2
      <4> QED BY <1>0, <2>2, <2>4, <2>5, <3>1, <3>2, <4>1, <4>2
    <3> QED BY <3>1, <3>3 DEF Counted
  <2>7. CASE Wants(k, r, o)
    <3>1. op'["read"].bytes_transferred_ = b /\ op'["read"].want_ = WantOf(r) /\ op'["read"].ec_ = ErrorOf(r)
          /\ given' = given
      BY <1>4, <1>12, <2>2, <2>7 DEF Wants
    <3>2. b > 0 => /\ op'["read"].pc # "idle" /\ op'["read"].want_ \in {"output", "nothing"}
                   /\ op'["read"].ec_ = "none"
      <4>1. b > 0 => r.says = "ok"
        BY <2>2
      <4> QED BY <1>5, <1>12, <2>3, <2>7, <3>1, <4>1 DEF Wants
    <3>3. ~Broken' /\ ~engine'.sent_close => given' + op'["read"].bytes_transferred_ = DataUpTo(engine.eaten)'
      <4>1. ~Broken' /\ ~engine'.sent_close => given + 0 = DataUpTo(engine.eaten)
        BY <1>5, <2>1 DEF Counted
      <4> QED BY <1>0, <2>2, <2>4, <2>5, <3>1, <4>1
    <3> QED BY <1>6, <3>1, <3>2, <3>3 DEF Counted
  <2> QED BY <1>2, <2>6, <2>7 DEF Passes
<1> QED BY <1>9, <1>10, <1>11, <1>12 DEF IoOps

\* The end of a read that has a record gives it to the program.
LEMMA ResumeCounted ==
  ASSUME IoTypes, Control, Control', Stream, Counted, NEW k \in IoOps, Resume(k), Broken => Broken'
  PROVE  Counted'
<1>0. "read" \in IoOps /\ given \in Nat /\ op["read"] \in IoOp /\ op["read"].bytes_transferred_ \in Nat
  BY DEF IoOps, IoTypes, LoopTypes, IoOp
<1>1. /\ incoming' = incoming /\ Same(engine, engine') /\ op[k].pc # "idle" /\ args[k] # NoArgs
      /\ \A j \in IoOps \ {k} : op'[j] = op[j]
      /\ Retries(k) \/ \E o, e, own : Reports(k, o, e, own)
  BY ResumeResult
<1>2. /\ engine'.sent_close = engine.sent_close /\ DataUpTo(engine.eaten)' = DataUpTo(engine.eaten)
  BY <1>1 DEF Same, DataUpTo
<1>3. op'["read"].pc # "idle" => running' # "read"
  BY <1>0 DEF Control, Fit
<1>4. ASSUME op'["read"].bytes_transferred_ = op["read"].bytes_transferred_, given' = given,
             op'["read"].bytes_transferred_ > 0 => op'["read"] = op["read"]
      PROVE  Counted'
  BY <1>2, <1>3, <1>4 DEF Counted
<1>5. CASE Retries(k)
  <2>1. k = "read" => ~(op'["read"].bytes_transferred_ > 0)
    BY <1>5 DEF Retries, Counted
  <2> QED BY <1>0, <1>1, <1>4, <1>5, <2>1 DEF Retries
<1>6. ASSUME NEW o, NEW e, NEW own, Reports(k, o, e, own) PROVE Counted'
  <2>1. Over(k, o, e)
    BY <1>6, CalledEnd DEF Reports
  <2>2. CASE k # "read"
    <3>1. op'["read"] = op["read"] /\ given' = given
      BY <1>0, <2>1, <2>2 DEF Over
    <3> QED BY <1>4, <3>1
  <2>3. CASE k = "read"
    <3>1. op'["read"] = Idle /\ Idle.bytes_transferred_ = 0
      BY <2>1, <2>3 DEF Over, Idle
    <3>2. PICK b \in Nat : b = op["read"].bytes_transferred_ /\ b = o.bytes_transferred_
      BY <1>0, <1>6, <2>3 DEF Reports
    <3>3. b > 0 => o.ec_ # "eof"
      <4>1. SUFFICES ASSUME b > 0 PROVE ErrorAfter("read") # "eof"
        BY <1>6, <2>3 DEF Reports
      <4>2. op["read"].ec_ = "none" /\ op["read"].want_ \in {"output", "nothing"}
        BY <3>2, <4>1 DEF Counted
      <4>3. args["read"].ec # "eof"
        <5>1. Suits(op["read"]) /\ (args["read"].ec = "eof" => op["read"].pc = "reading")
          BY <1>0 DEF Control, Fit
        <5> QED BY <4>2, <5>1 DEF Suits
      <4> QED BY <4>2, <4>3 DEF ErrorAfter
    <3>4. ~Broken' => given' = given + b
      <4>1. CASE b = 0
        BY <1>0, <2>1, <2>3, <3>2, <4>1 DEF Over
      <4>2. CASE b > 0
        BY <1>0, <2>1, <2>3, <3>2, <3>3, <4>2 DEF Over, Broken
      <4> QED BY <3>2, <4>1, <4>2
    <3>5. ~Broken' /\ ~engine'.sent_close => given' + op'["read"].bytes_transferred_ = DataUpTo(engine.eaten)'
      <4>1. ~Broken' /\ ~engine'.sent_close => given + b = DataUpTo(engine.eaten)'
        BY <1>2, <3>2 DEF Counted
      <4>2. given + b \in Nat
        BY <1>0, <3>2
      <4> QED BY <3>1, <3>4, <4>1, <4>2
    <3> QED BY <3>1, <3>5 DEF Counted
  <2> QED BY <2>2, <2>3
<1> QED BY <1>1, <1>5, <1>6

LEMMA CountedStep ==
  ASSUME IoTypes, Control, Control', Stream, SentInOrder, Shaken, Counted, SslNext
  PROVE  Counted'
<1>1. Broken => Broken'
  BY BrokenStays
<1>2. CASE Elsewhere
  <2>1. engine'.eaten = engine.eaten /\ engine'.sent_close = engine.sent_close /\ given' = given
    BY <1>2 DEF Elsewhere, Same
  <2>2. DataUpTo(engine.eaten)' = DataUpTo(engine.eaten)
    <3>1. ASSUME NEW i \in 1 .. engine.eaten PROVE incoming'[i] = incoming[i]
      <4>1. PICK n \in Nat : n = Len(incoming)
        BY DEF IoTypes, LayerTypes
      <4>2. i \in 1 .. Len(incoming)
        BY <4>1, EatenBound
      <4> QED BY <1>2, <4>2 DEF Elsewhere, Extends
    <3> QED BY <2>1, <3>1 DEF DataUpTo
  <2>3. /\ op'["read"].pc = op["read"].pc /\ op'["read"].want_ = op["read"].want_
        /\ op'["read"].ec_ = op["read"].ec_
        /\ op'["read"].bytes_transferred_ = op["read"].bytes_transferred_
        /\ running' = "read" => running = "read" \/ op["read"] = Idle
    BY <1>2 DEF Elsewhere, IoOps
  <2>4. Idle.pc = "idle"
    BY DEF Idle
  <2> QED BY <1>1, <2>1, <2>2, <2>3, <2>4 DEF Counted
<1>3. ASSUME NEW k \in IoOps, Try(k) PROVE Counted'
  BY <1>1, <1>3, TryCounted
<1>4. ASSUME NEW k \in IoOps, Resume(k) PROVE Counted'
  BY <1>1, <1>4, ResumeCounted
<1> QED BY <1>2, <1>3, <1>4, SslCases

-----------------------------------------------------------------------------
(* The invariant.                                                          *)

LEMMA InputInit ==
  ASSUME SslInit PROVE InputInv
<1>1. PICK h \in 0 .. 1 : engine = [in |-> <<>>, out |-> <<>>, eaten |-> 0, made |-> 0, hello |-> h,
                                    sent_close |-> FALSE, got_close |-> FALSE]
  BY DEF SslInit
<1>2. /\ engine \in Engine /\ engine.in = <<>> /\ engine.eaten = 0 /\ engine.hello # 2
      /\ engine.sent_close = FALSE /\ engine.got_close = FALSE
  BY <1>1 DEF Engine
<1>3. Idle \in IoOp /\ Idle.pc = "idle" /\ Idle.moved <= Idle.size /\ Idle.bytes_transferred_ = 0
      /\ Idle.want_ = "nothing"
  BY DEF Idle, IoOp, PCs, Wishes, Errors
<1>4. NoArgs \in Args /\ NoArgs.n = 0 /\ NoArgs.ec # "eof"
  BY SslAssumption DEF NoArgs, Args, Outcomes, SslAssumption
<1>5. LoopTypes
  BY <1>3 DEF SslInit, LoopTypes, Errors
<1>6. LayerTypes
  <2>1. input_ \in View
    BY DEF SslInit, View
  <2>2. incoming \in Seq(Units) /\ input_buffer_ \in Seq(Nat) /\ output_buffer_ \in Seq(Nat)
    BY DEF SslInit
  <2>3. args \in [IoOps -> Args] /\ pending_read_ \in BOOLEAN /\ pending_write_ \in BOOLEAN /\ received \in Nat
    BY <1>4 DEF SslInit
  <2> QED BY <1>2, <2>1, <2>2, <2>3 DEF LayerTypes
<1>7. Control
  <2>1. \A k \in IoOps : ~Outstanding(k)
    BY DEF SslInit, Outstanding, IoOps, Nobody
  <2>2. ASSUME NEW k \in IoOps PROVE Fit(k)
    <3>1. op[k] = Idle /\ args[k] = NoArgs /\ Idle.pc = "idle" /\ NoArgs.n = 0 /\ NoArgs.ec = "nothing"
      BY <1>3 DEF SslInit, NoArgs
    <3>2. Suits(op[k]) /\ ~(args[k].n > 0) /\ args[k].ec # "eof"
      BY <3>1 DEF Suits
    <3> QED BY <3>1, <3>2 DEF Fit
  <2>3. "read" \in IoOps /\ "handshake" \in IoOps /\ Readers \subseteq IoOps
    BY DEF IoOps, Readers
  <2> QED BY <2>1, <2>2, <2>3 DEF Control
<1>8. Held(input_) = 0 /\ Edge(engine, input_) = 0
  BY <1>2 DEF SslInit, Held, Edge
<1>9. Stream
  <2>1. Aligned(engine, input_, input_buffer_)
    BY <1>2, <1>8 DEF SslInit, Aligned
  <2>2. \A k \in IoOps : op[k].pc = "idle"
    BY <1>3 DEF SslInit
  <2> QED BY <1>8, <2>1, <2>2 DEF SslInit, Stream
<1>10. SentInOrder
  BY DEF SslInit, SentInOrder
<1>11. Shaken
  BY <1>2, <1>3 DEF SslInit, Shaken, Greeted, IoOps
<1>12. Counted
  <2>1. DataUpTo(0) = 0
    <3>1. {i \in 1 .. 0 : incoming[i] = "data"} = {}
      OBVIOUS
    <3> QED BY <3>1, FS_EmptySet DEF DataUpTo
  <2> QED BY <1>2, <1>3, <2>1 DEF SslInit, Counted, IoOps
<1>13. Closed
  BY <1>2 DEF SslInit, Closed, IoOps
<1> QED BY <1>5, <1>6, <1>7, <1>9, <1>10, <1>11, <1>12, <1>13 DEF InputInv, IoTypes

LEMMA InputStep ==
  ASSUME "early_shutdown" \notin Uses, InputInv, [SslNext]_sslVars PROVE InputInv'
<1>1. CASE UNCHANGED sslVars
  <2> USE <1>1 DEF sslVars, ioVars, coreVars, peerVars, programVars
  <2>1. IoTypes'
    BY DEF InputInv, IoTypes, LoopTypes, LayerTypes
  <2>2. Control'
    BY DEF InputInv, Control, Fit, Suits, Outstanding, Failed
  <2>3. Stream'
    BY DEF InputInv, Stream, Aligned, Brought, Held, Edge
  <2>4. SentInOrder'
    BY DEF InputInv, SentInOrder
  <2>5. Shaken'
    BY DEF InputInv, Shaken, Greeted, Parting
  <2>6. Counted'
    BY DEF InputInv, Counted, Broken, DataUpTo
  <2>7. Closed'
    BY DEF InputInv, Closed
  <2> QED BY <2>1, <2>2, <2>3, <2>4, <2>5, <2>6, <2>7 DEF InputInv
<1>2. CASE SslNext
  <2>1. IoTypes /\ Control /\ Stream /\ SentInOrder /\ Shaken /\ Counted /\ Closed
    BY DEF InputInv
  <2>2. IoTypes'
    <3>1. ASSUME NEW k \in IoOps, Try(k) PROVE IoTypes'
      BY <2>1, <3>1, TryTypes DEF Stream, Aligned
    <3>2. ASSUME NEW k \in IoOps, Resume(k) PROVE IoTypes'
      <4>1. args[k] # NoArgs => args[k].ec # "nothing"
        BY <2>1 DEF Control, Fit
      <4>2. args[k].n <= Len(input_buffer_)
        <5>1. PICK n \in Nat : n = args[k].n
          BY <2>1, SslAssumption DEF IoTypes, LayerTypes, Args, SslAssumption
        <5>2. CASE n > 0
          BY <2>1, <5>1, <5>2 DEF Control, Fit, Stream, Brought
        <5>3. CASE ~(n > 0)
          BY <2>1, <5>1, <5>3 DEF IoTypes, LayerTypes
        <5> QED BY <5>2, <5>3
      <4> QED BY <2>1, <3>2, <4>1, <4>2, ResumeTypes
    <3>3. ASSUME NEW k \in IoOps, Transfer(k) \/ TransferFails(k) \/ Start(k) \/ Cancel(k) PROVE IoTypes'
      BY <2>1, <3>3, TransferTypes, ProgramTypes
    <3>4. CASE PeerSends \/ PeerGone
      BY <2>1, <3>4, OutsideTypes
    <3> QED BY <1>2, <3>1, <3>2, <3>3, <3>4 DEF SslNext, LoopStep
  <2>3. Control'
    BY <1>2, <2>1, ControlStep
  <2>4. Stream'
    BY <1>2, <2>1, <2>2, StreamStep
  <2>5. SentInOrder'
    BY <1>2, <2>1, SentStep
  <2>6. Shaken'
    BY <1>2, <2>1, ShakenStep
  <2>7. Counted'
    BY <1>2, <2>1, <2>3, CountedStep
  <2>8. Closed'
    BY <1>2, <2>1, ClosedStep
  <2> QED BY <2>2, <2>3, <2>4, <2>5, <2>6, <2>7, <2>8 DEF InputInv
<1> QED BY <1>1, <1>2

\* A set of records, one for each number up to n.
LEMMA NumberedFacts ==
  ASSUME NEW k, NEW n \in Nat
  PROVE  Cardinality({[reader |-> k, unit |-> i] : i \in 1 .. n}) = n
<1> DEFINE S == {[reader |-> k, unit |-> i] : i \in 1 .. n}
           f == [i \in 1 .. n |-> [reader |-> k, unit |-> i]]
<1>1. IsFiniteSet(1 .. n) /\ Cardinality(1 .. n) = n
  <2>1. 1 \in Int /\ n \in Int
    OBVIOUS
  <2> QED BY <2>1, FS_Interval
<1>2. f \in Bijection(1 .. n, S)
  <2>1. f \in [1 .. n -> S]
    OBVIOUS
  <2>2. \A i, j \in 1 .. n : f[i] = f[j] => i = j
    <3>1. TAKE i, j \in 1 .. n
    <3>2. f[i].unit = i /\ f[j].unit = j
      OBVIOUS
    <3> QED BY <3>2
  <2>3. \A s \in S : \E i \in 1 .. n : f[i] = s
    OBVIOUS
  <2> HIDE DEF f, S
  <2> QED BY <2>1, <2>2, <2>3, Fun_IsBij
<1>3. ExistsBijection(1 .. n, S)
  <2> HIDE DEF f, S
  <2> QED BY <1>2 DEF ExistsBijection
<1>4. IsFiniteSet(S) /\ Cardinality(S) = Cardinality(1 .. n)
  <2> HIDE DEF S
  <2> QED BY <1>1, <1>3, FS_Bijection
<1> QED BY <1>1, <1>4

LEMMA InputFromInv ==
  ASSUME InputInv PROVE InputInOrder
<1>0. /\ IoTypes /\ Control /\ Stream /\ SentInOrder /\ Counted /\ Closed /\ "read" \in IoOps
  BY DEF InputInv, IoOps
<1>1. SslTypeOK
  <2>1. ASSUME NEW k \in IoOps
        PROVE  /\ op[k].pc \in {"idle", "reading", "writing", "wait_read", "wait_write", "posted"}
               /\ op[k].want_ \in {"input_and_retry", "output", "output_and_retry", "nothing"}
               /\ op[k].ec_ \in {"none", "eof", "ssl", "error", "aborted"}
               /\ op[k].bytes_transferred_ \in 0 .. 1 /\ op[k].moved <= op[k].size
               /\ args[k].n \in 0 .. BufferSize
    BY <1>0 DEF IoTypes, LoopTypes, LayerTypes, IoOp, Args, PCs, Wishes, Errors
  <2> QED BY <1>0, <2>1 DEF SslTypeOK, IoTypes, LoopTypes, LayerTypes, Stream, Aligned
<1>2. PICK e, l, h, s \in Nat : /\ e = engine.eaten /\ l = Len(engine.in) /\ h = Held(input_) /\ s = Len(incoming)
                                /\ e + l + h <= s
  <2>1. Held(input_) \in Nat /\ Len(incoming) \in Nat
    BY <1>0 DEF IoTypes, LayerTypes, View, Stream, Aligned, Held
  <2> QED BY <1>0, <2>1, EatenBound
<1>3. /\ Unread \in Seq(Nat) /\ Len(Unread) = l + h
      /\ \A i \in 1 .. l + h : Unread[i] = e + i
  <2> DEFINE view == [i \in 1 .. h |-> input_buffer_[input_.first + i - 1]]
  <2>1. \A i \in 1 .. h : view[i] = e + l + i
    BY <1>0, <1>2 DEF Stream, Aligned
  <2>2. view \in Seq(Nat) /\ Len(view) = h
    <3>1. \A i \in 1 .. h : view[i] \in Nat
      BY <2>1
    <3> QED BY <3>1
  <2>3. Unread = engine.in \o view
    BY <1>2 DEF Unread, Held
  <2>4. PICK q \in Seq(Nat) : q = engine.in /\ Len(q) = l
    BY <1>0, <1>2 DEF IoTypes, LayerTypes, Engine
  <2> HIDE DEF view
  <2>5. /\ q \o view \in Seq(Nat) /\ Len(q \o view) = l + h
        /\ \A i \in 1 .. l + h : (q \o view)[i] = IF i <= l THEN q[i] ELSE view[i - l]
    <3>1. /\ q \o view \in Seq(Nat) /\ Len(q \o view) = Len(q) + Len(view)
          /\ \A i \in 1 .. Len(q) + Len(view) :
                (q \o view)[i] = IF i <= Len(q) THEN q[i] ELSE view[i - Len(q)]
      BY <2>2, <2>4, ConcatProperties
    <3> QED BY <2>2, <2>4, <3>1
  <2>6. \A i \in 1 .. l : q[i] = e + i
    BY <1>0, <1>2, <2>4 DEF Stream, Aligned
  <2>7. ASSUME NEW i \in 1 .. l + h PROVE (q \o view)[i] = e + i
    <3>1. CASE i <= l
      BY <2>5, <2>6, <3>1
    <3>2. CASE ~(i <= l)
      <4>1. i - l \in 1 .. h /\ e + l + (i - l) = e + i
        BY <3>2
      <4> QED BY <2>1, <2>5, <3>2, <4>1
    <3> QED BY <3>1, <3>2
  <2> QED BY <2>3, <2>4, <2>5, <2>7
<1>4. received = e + Len(Unread) + Cardinality(InHand)
  <2>1. CASE \A k \in IoOps : op[k].pc # "reading"
    <3>1. InHand = {}
      <4>1. ASSUME NEW k \in IoOps PROVE ~(args[k].n > 0) /\ args[k].n \in Nat
        <5>1. Fit(k) /\ op[k].pc # "reading"
          BY <1>0, <2>1 DEF Control
        <5>2. args[k].n \in Nat
          BY <1>0, SslAssumption DEF IoTypes, LayerTypes, Args, SslAssumption
        <5> QED BY <5>1, <5>2 DEF Fit
      <4> QED BY <4>1 DEF InHand
    <3>2. Cardinality(InHand) = 0
      BY <3>1, FS_EmptySet
    <3>3. received = e + l + h
      BY <1>0, <1>2, <2>1 DEF Stream, Edge
    <3> QED BY <1>3, <3>2, <3>3
  <2>2. CASE \E k \in IoOps : op[k].pc = "reading"
    <3>1. PICK k \in IoOps : op[k].pc = "reading"
      BY <2>2
    <3>2. PICK n \in Nat : n = args[k].n
      BY <1>0, SslAssumption DEF IoTypes, LayerTypes, Args, SslAssumption
    <3>3. ASSUME NEW j \in IoOps, j # k PROVE ~(args[j].n > 0) /\ args[j].n \in Nat
      <4>1. op[j].pc # "reading"
        <5>1. k \in Readers /\ Outstanding(k)
          BY <1>0, <3>1 DEF Control, Fit, Readers, Outstanding, Idle
        <5> QED BY <1>0, <3>3, <5>1, OneReader
      <4> QED BY <1>0, <4>1, SslAssumption DEF Control, Fit, IoTypes, LayerTypes, Args, SslAssumption
    <3>4. InHand = {[reader |-> k, unit |-> i] : i \in 1 .. n}
      BY <3>2, <3>3 DEF InHand
    <3>5. Cardinality(InHand) = n
      BY <3>4, NumberedFacts
    <3>6. received = e + l + h + n
      BY <1>0, <1>2, <3>1, <3>2 DEF Stream, Brought, Edge
    <3> QED BY <1>3, <3>5, <3>6
  <2> QED BY <2>1, <2>2
<1>5. ended["read"] = "eof" => engine.got_close /\ Unread = <<>>
  <2>1. SUFFICES ASSUME ended["read"] = "eof" PROVE engine.got_close /\ Unread = <<>>
    OBVIOUS
  <2>2. engine.got_close
    BY <1>0, <2>1 DEF Closed
  <2>3. PICK c \in 1 .. e : incoming[c] = "close"
    BY <1>0, <1>2, <2>2 DEF Closed
  <2>4. c \in 1 .. s
    BY <1>2
  <2>5. c = s
    BY <1>0, <1>2, <2>3, <2>4 DEF SentInOrder
  <2>6. l + h = 0
    <3>1. c \in Nat /\ c <= e /\ e + l + h <= s
      BY <1>2
    <3> QED BY <2>5, <3>1
  <2> QED BY <1>3, <2>2, <2>6, EmptySeq
<1> QED BY <1>0, <1>1, <1>2, <1>3, <1>4, <1>5 DEF InputInOrder, Counted

\* What io_op does with the one input buffer, for any sizes of the buffers and any traffic,
\* unless a shutdown overtakes a read: the engine gets every unit the peer has sent once and
\* in order, every record reaches the program, and an end of file is reported only behind the
\* peer's notification.
THEOREM InputArrivesInOrder ==
  ASSUME "early_shutdown" \notin Uses PROVE SslSpec => []InputInOrder
<1>1. SslInit => InputInv
  BY InputInit
<1>2. InputInv /\ [SslNext]_sslVars => InputInv'
  BY InputStep
<1>3. InputInv => InputInOrder
  BY InputFromInv
<1> QED BY <1>1, <1>2, <1>3, PTL DEF SslSpec

-----------------------------------------------------------------------------
(* The output.                                                             *)

\* A buffer that holds what the engine can make, and no shutdown that overtakes a read.
Bounded == "early_shutdown" \notin Uses /\ BioSize <= BufferSize

Senders == {"writing", "wait_write"}
AskDone == \E i \in 1 .. engine.eaten : incoming[i] = "ask"

\* The engine makes what the BIO can hold, and what the handshake makes is taken at once.
OutFits ==
    /\ Len(engine.out) <= BioSize
    /\ engine.hello # 2 => engine.out = <<>>

\* When the peer asks once: until the answer is made, nothing stays in the engine, and no
\* operation waits behind another.
Answering ==
    /\ ~AskDone => engine.out = <<>>
    /\ op["read"].pc \in Senders \/ op["write"].pc = "wait_write" => AskDone

\* A shutdown is alone: it does not read beside a read, nor write beside a write.
Apart == Outstanding("shutdown") => ~Outstanding("write")

\* Handlers of waits come from timers, those of transfers do not.  A cancellation is the
\* last thing that is done to the stream.
Handlers ==
    /\ \A k \in IoOps : op[k].pc = "wait_write" => k \in {"read", "write"} /\ (args[k] # NoArgs => args[k].timer)
    /\ \A k \in IoOps : op[k].pc = "writing" => ~args[k].timer /\ op[k].ec_ \in {"none", "ssl"}
    /\ \A k \in IoOps : op[k].cancelled => stopped

\* pending_write_ stands only while somebody writes, and nobody waits for it in vain.
Pending ==
    /\ pending_write_ => \E k \in IoOps : op[k].pc = "writing"
    /\ \A k \in IoOps : op[k].pc = "wait_write" /\ args[k] = NoArgs => pending_write_

\* Until the code is exposed, one writes at a time.  pending_write_ is cleared under a write only
\* by the handler of a wait: of an operation that has been cancelled, and then no other is left
\* to write, or of a read that was overtaken by a write, and has had its one answer made.
Turns ==
    /\ Alone("writing")
    /\ \A k \in IoOps : op[k].pc = "writing" =>
         \/ pending_write_
         \/ Broken /\ \A j \in IoOps \ {k} : ~Outstanding(j)
         \/ k = "write" /\ overtaken /\ AskDone
    /\ \A j, k \in IoOps : op[j].pc = "writing" /\ op[k].pc = "wait_write" /\ args[k] # NoArgs
                             => op[k].cancelled \/ (k = "read" /\ overtaken)

Left(k) == op[k].size - op[k].moved
\* What the engine holds follows n units.
Behind(e, n) == e.made = n + Len(e.out) /\ \A i \in 1 .. Len(e.out) : e.out[i] = n + i
Carries(k) ==
    /\ op[k].size <= Len(output_buffer_)
    /\ \A i \in 1 .. Left(k) : output_buffer_[op[k].moved + i] = Len(wire) + i
    /\ Behind(engine, Len(wire) + Left(k)) /\ op[k].mark <= Len(wire) + Left(k)
    /\ args[k] # NoArgs /\ args[k].ec = "none" => Left(k) = 0
Line ==
    /\ wire \in Seq(Nat) /\ \A i \in 1 .. Len(wire) : wire[i] = i
    /\ \A k \in IoOps : op[k].pc = "writing" => Carries(k)
    /\ (\A k \in IoOps : op[k].pc # "writing") => Behind(engine, Len(wire))
    /\ promised.own <= Len(wire)

OutputInv ==
    /\ InputInv /\ Apart /\ OutFits /\ Handlers /\ Pending
    /\ ~AskedAgain => Answering
    /\ ~Exposed => Turns
    /\ ~Broken /\ ~Exposed => Line

\* How many of the units that a call consumes must be answered.
LEMMA AsksFacts ==
  ASSUME IoTypes, NEW k \in IoOps
  PROVE  AsksIn(k) \in Nat
<1>1. Eaten(k) \in Nat
  <2>1. Eaten(k) \in 0 .. Len(engine.in) /\ Len(engine.in) \in Nat
    BY EatenFacts DEF IoTypes, LayerTypes, Engine
  <2> QED BY <2>1
<1>2. IsFiniteSet({i \in 1 .. Eaten(k) : incoming[engine.in[i]] = "ask"})
  <2>1. IsFiniteSet(1 .. Eaten(k))
    BY <1>1, FS_Interval
  <2> QED BY <2>1, FS_Subset
<1> QED BY <1>2, FS_CardinalityType DEF AsksIn

Makes(e, m) ==
    /\ m \in Nat /\ e.made = engine.made + m /\ e.out = engine.out \o [i \in 1 .. m |-> engine.made + i]
    /\ Len(e.out) <= BioSize

\* A call that has room for what it makes.
LEMMA RoomMakes ==
  ASSUME IoTypes, NEW c, NEW m \in Nat, Len(engine.out) + m <= BioSize,
         NEW e, e.made = After(c, m).made, e.out = After(c, m).out
  PROVE  Makes(e, m)
<1>1. engine \in Engine /\ engine.out \in Seq(Nat) /\ engine.made \in Nat
  BY DEF IoTypes, LayerTypes, Engine
<1>2. /\ After(c, m).made = engine.made + m
      /\ After(c, m).out = engine.out \o [i \in 1 .. m |-> engine.made + i]
  BY <1>1 DEF After, Engine
<1>3. [i \in 1 .. m |-> engine.made + i] \in Seq(Nat) /\ Len([i \in 1 .. m |-> engine.made + i]) = m
  BY <1>1
<1>4. Len(After(c, m).out) = Len(engine.out) + m
  BY <1>1, <1>2, <1>3, ConcatProperties
<1> QED BY <1>2, <1>4 DEF Makes

\* When the peer asks once, at most one of the units that a call consumes must be answered.
LEMMA AskedOnce ==
  ASSUME IoTypes, Stream, ~AskedAgain, NEW k \in IoOps
  PROVE  /\ AsksIn(k) \in 0 .. 1
         /\ AsksIn(k) > 0 => /\ ~AskDone
                             /\ \E i \in 1 .. engine.eaten + Eaten(k) : incoming[i] = "ask"
<1> DEFINE S == {i \in 1 .. Eaten(k) : incoming[engine.in[i]] = "ask"}
<1>1. /\ engine.eaten \in Nat /\ Eaten(k) \in 0 .. Len(engine.in) /\ Len(engine.in) \in Nat
      /\ engine.eaten + Len(engine.in) <= Len(incoming) /\ Len(incoming) \in Nat
      /\ \A i \in 1 .. Len(engine.in) : engine.in[i] = engine.eaten + i
  BY EatenBound, EatenFacts DEF IoTypes, LayerTypes
<1>2. \A i \in S : i \in Nat /\ i > 0 /\ i <= Eaten(k) /\ engine.eaten + i \in 1 .. Len(incoming)
                   /\ incoming[engine.eaten + i] = "ask"
  <2>1. PICK e, c, l, n \in Nat : e = engine.eaten /\ c = Eaten(k) /\ l = Len(engine.in) /\ n = Len(incoming)
                                  /\ c <= l /\ e + l <= n
    BY <1>1
  <2>2. ASSUME NEW i \in 1 .. c PROVE i \in 1 .. l /\ e + i \in 1 .. n
    BY <2>1
  <2>3. ASSUME NEW i \in S
        PROVE  i \in Nat /\ i > 0 /\ i <= Eaten(k) /\ engine.eaten + i \in 1 .. Len(incoming)
               /\ incoming[engine.eaten + i] = "ask"
    <3>1. i \in 1 .. c /\ incoming[engine.in[i]] = "ask"
      BY <2>1
    <3>2. engine.in[i] = engine.eaten + i
      BY <1>1, <2>1, <2>2, <3>1
    <3> QED BY <2>1, <2>2, <3>1, <3>2
  <2> HIDE DEF S
  <2> QED BY <2>3
<1>3. CASE S = {}
  <2>1. Cardinality(S) = 0
    BY <1>3, FS_EmptySet
  <2> QED BY <2>1 DEF AsksIn
<1>4. CASE S # {}
  <2>1. PICK i : i \in S
    BY <1>4
  <2>2. PICK n \in Nat : n = engine.eaten + i /\ n \in 1 .. Len(incoming) /\ n > engine.eaten
                         /\ n <= engine.eaten + Eaten(k) /\ incoming[n] = "ask"
    BY <1>1, <1>2, <2>1
  <2>3. ASSUME NEW j \in S PROVE j = i
    <3>1. engine.eaten + j = n
      BY <1>2, <2>2, <2>3 DEF AskedAgain
    <3> QED BY <1>1, <1>2, <2>1, <2>2, <2>3, <3>1
  <2>4. S = {i}
    <3> HIDE DEF S
    <3> QED BY <2>1, <2>3
  <2>5. Cardinality(S) = 1
    BY <2>4, FS_Singleton
  <2>6. AsksIn(k) = 1
    BY <2>5 DEF AsksIn
  <2>7. ~AskDone
    <3>1. SUFFICES ASSUME NEW j \in 1 .. engine.eaten, incoming[j] = "ask" PROVE FALSE
      BY DEF AskDone
    <3>2. j \in 1 .. Len(incoming)
      BY <1>1, <3>1
    <3>3. j = n
      BY <2>2, <3>1, <3>2 DEF AskedAgain
    <3> QED BY <1>1, <2>2, <3>1, <3>3
  <2>8. n \in 1 .. engine.eaten + Eaten(k)
    BY <2>2
  <2> QED BY <2>2, <2>6, <2>7, <2>8
<1> QED BY <1>3, <1>4

\* A handshake finds the engine without anything to send.
LEMMA HandshakeFirst ==
  ASSUME InputInv, OutFits, running = "handshake"
  PROVE  engine.out = <<>>
<1>1. "handshake" \in IoOps /\ running \in IoOps /\ IoTypes /\ Control /\ Shaken
  BY DEF InputInv, IoOps
<1>2. Outstanding("handshake") /\ op["handshake"].pc = "idle" /\ ended["handshake"] = "none"
  BY <1>1 DEF Outstanding, Control, Fit
<1>3. engine.hello # 2
  BY <1>1, <1>2 DEF Shaken, Parting
<1> QED BY <1>3 DEF OutFits

\* What a call makes.
LEMMA CallMakes ==
  ASSUME InputInv, OutFits, NEW k \in IoOps, running = k, NEW r, r = Call(k)
  PROVE  /\ Makes(r.eng, r.made)
         /\ r.made = 0 => r.eng.out = engine.out
         /\ WantOf(r) \in {"input_and_retry", "nothing"} => r.made = 0
         /\ WantOf(r) \in {"output", "output_and_retry"} => ErrorOf(r) \in {"none", "ssl"}
<1>1. IoTypes /\ Stream
  BY DEF InputInv
<1>2. BioSize \in Nat \ {0} /\ 1 <= BioSize
  BY SslAssumption DEF SslAssumption
<1>3. engine \in Engine /\ engine.out \in Seq(Nat) /\ Len(engine.out) \in Nat /\ engine.made \in Nat
      /\ Len(engine.out) <= BioSize
  BY <1>1 DEF IoTypes, LayerTypes, Engine, OutFits
<1>4. Makes(engine, 0)
  <2>1. [i \in 1 .. 0 |-> engine.made + i] = <<>>
    OBVIOUS
  <2>2. engine.out \o <<>> = engine.out
    BY <1>3, ConcatEmptySeq
  <2> QED BY <1>3, <2>1, <2>2 DEF Makes
<1>5. WantWrite.eng = engine /\ WantWrite.made = 0 /\ WantWrite.says = "want_write"
  BY DEF WantWrite
<1>6. ASSUME Makes(r.eng, r.made), r.made = 0 PROVE r.eng.out = engine.out
  <2>1. [i \in 1 .. 0 |-> engine.made + i] = <<>>
    OBVIOUS
  <2> QED BY <1>3, <1>6, <2>1, ConcatEmptySeq DEF Makes
<1>7. ASSUME Makes(r.eng, r.made), WantOf(r) \in {"input_and_retry", "nothing"},
             r.says = "want_write" => r.made = 0
      PROVE  r.made = 0
  <2>1. r.made \in Nat
    BY <1>7 DEF Makes
  <2> QED BY <1>7, <2>1 DEF WantOf
<1>8. ASSUME Makes(r.eng, r.made), WantOf(r) \in {"output", "output_and_retry"}
      PROVE  ErrorOf(r) \in {"none", "ssl"}
  <2>1. r.made \in Nat
    BY <1>8 DEF Makes
  <2> QED BY <1>8, <2>1 DEF WantOf, ErrorOf
<1>9. ASSUME Makes(r.eng, r.made), r.says = "want_write" => r.made = 0
      PROVE  /\ Makes(r.eng, r.made)
             /\ r.made = 0 => r.eng.out = engine.out
             /\ WantOf(r) \in {"input_and_retry", "nothing"} => r.made = 0
             /\ WantOf(r) \in {"output", "output_and_retry"} => ErrorOf(r) \in {"none", "ssl"}
  BY <1>6, <1>7, <1>8, <1>9
<1>10. CASE k = "handshake"
  <2>1. Len(engine.out) = 0
    BY <1>10, HandshakeFirst
  <2>2. PICK m \in 0 .. 1 : /\ r.made = m /\ r.says \in {"ok", "want_read"}
                            /\ r.eng.made = After(Eaten("handshake"), m).made
                            /\ r.eng.out = After(Eaten("handshake"), m).out
    <3>1. r = Handshake
      BY <1>10 DEF Call
    <3>2. PICK m : m = IF Answer("handshake") = "hello" \/ engine.hello = 0 THEN 1 ELSE 0
      OBVIOUS
    <3>3. PICK e : e = After(Eaten("handshake"), m)
      OBVIOUS
    <3>4. "made" \in DOMAIN e /\ "out" \in DOMAIN e
      BY <1>3, <3>3 DEF After, Engine
    <3>5. /\ r.eng = [e EXCEPT !.hello = IF Answer("handshake") = "hello" THEN 2 ELSE 1]
          /\ r.made = m /\ r.says \in {"ok", "want_read"}
      BY <3>1, <3>2, <3>3 DEF Handshake
    <3> QED BY <3>2, <3>3, <3>4, <3>5
  <2>3. Makes(r.eng, r.made)
    BY <1>1, <1>2, <2>1, <2>2, RoomMakes
  <2> QED BY <1>9, <2>2, <2>3
<1>11. CASE k = "read"
  <2>1. PICK m \in Nat : m = IF engine.sent_close THEN 0 ELSE AsksIn("read")
    BY <1>1, <1>11, AsksFacts
  <2>2. CASE engine.got_close
    <3>1. r.eng = engine /\ r.made = 0 /\ r.says = "zero_return"
      BY <1>11, <2>2 DEF Call, Read
    <3> QED BY <1>4, <1>9, <3>1
  <2>3. CASE ~engine.got_close /\ m > 0 /\ Full(m)
    <3>1. r = WantWrite
      BY <1>11, <2>1, <2>3 DEF Call, Read
    <3> QED BY <1>4, <1>5, <1>9, <3>1
  <2>4. CASE ~engine.got_close /\ ~(m > 0 /\ Full(m))
    <3>1. /\ r.made = m /\ r.says \in {"zero_return", "ok", "want_read"}
          /\ r.eng.made = After(Eaten("read"), m).made /\ r.eng.out = After(Eaten("read"), m).out
      <4>1. r = Read
        BY <1>11 DEF Call
      <4>2. PICK e : e = After(Eaten("read"), m)
        OBVIOUS
      <4>3. "made" \in DOMAIN e /\ "out" \in DOMAIN e
        BY <1>3, <4>2 DEF After, Engine
      <4>4. PICK b : b = (engine.got_close \/ Answer("read") = "close")
        OBVIOUS
      <4>5. r.eng = [e EXCEPT !.got_close = b]
        BY <2>1, <2>4, <4>1, <4>2, <4>4 DEF Read
      <4>6. r.made = m /\ r.says \in {"zero_return", "ok", "want_read"}
        BY <2>1, <2>4, <4>1, <4>2 DEF Read
      <4> QED BY <4>2, <4>3, <4>5, <4>6
    <3>2. Len(engine.out) + m <= BioSize
      <4>1. CASE m = 0
        BY <1>3, <4>1
      <4>2. CASE m > 0
        <5>1. ~Full(m)
          BY <2>4, <4>2
        <5> QED BY <1>2, <1>3, <2>1, <5>1 DEF Full
      <4> QED BY <2>1, <4>1, <4>2
    <3>3. Makes(r.eng, r.made)
      BY <1>1, <2>1, <3>1, <3>2, RoomMakes
    <3> QED BY <1>9, <3>1, <3>3
  <2> QED BY <2>2, <2>3, <2>4
<1>12. CASE k = "write"
  <2>1. r = Write
    BY <1>12 DEF Call
  <2>2. CASE Full(1)
    <3>1. r = WantWrite
      BY <2>1, <2>2 DEF Write
    <3> QED BY <1>4, <1>5, <1>9, <3>1
  <2>3. CASE ~Full(1)
    <3>1. r.eng = After(0, 1) /\ r.made = 1 /\ r.says = "ok"
      BY <2>1, <2>3 DEF Write
    <3>2. Len(engine.out) + 1 <= BioSize
      BY <1>2, <1>3, <2>3 DEF Full
    <3>3. Makes(r.eng, r.made)
      BY <1>1, <3>1, <3>2, RoomMakes
    <3> QED BY <1>9, <3>1, <3>3
  <2> QED BY <2>2, <2>3
<1>13. CASE k = "shutdown"
  <2>1. PICK m \in 0 .. 1 : m = IF engine.sent_close THEN 0 ELSE 1
    OBVIOUS
  <2>2. PICK c : c = IF engine.got_close THEN 0 ELSE Eaten("shutdown")
    OBVIOUS
  <2>3. CASE m > 0 /\ Full(m)
    <3>1. r = WantWrite
      BY <1>13, <2>1, <2>3 DEF Call, ShutDown
    <3> QED BY <1>4, <1>5, <1>9, <3>1
  <2>4. CASE ~(m > 0 /\ Full(m))
    <3>1. /\ r.made = m /\ r.says \in {"fail", "ok", "want_read"}
          /\ r.eng.made = After(c, m).made /\ r.eng.out = After(c, m).out
      <4>1. PICK e : e = After(c, m)
        OBVIOUS
      <4>2. "made" \in DOMAIN e /\ "out" \in DOMAIN e
        BY <1>3, <4>1 DEF After, Engine
      <4>5. PICK b : b = (engine.got_close \/ Answer("shutdown") = "close")
        OBVIOUS
      <4>3. r.eng = [e EXCEPT !.sent_close = TRUE, !.got_close = b]
        BY <1>13, <2>1, <2>2, <2>4, <4>1, <4>5 DEF Call, ShutDown
      <4>4. r.made = m /\ r.says \in {"fail", "ok", "want_read"}
        BY <1>13, <2>1, <2>2, <2>4 DEF Call, ShutDown
      <4> QED BY <4>1, <4>2, <4>3, <4>4
    <3>2. Len(engine.out) + m <= BioSize
      <4>1. CASE m = 0
        BY <1>3, <4>1
      <4>2. CASE m = 1
        <5>1. ~Full(1)
          BY <2>4, <4>2
        <5> QED BY <1>2, <1>3, <4>2, <5>1 DEF Full
      <4> QED BY <2>1, <4>1, <4>2
    <3>3. Makes(r.eng, r.made)
      BY <1>1, <2>1, <3>1, <3>2, RoomMakes
    <3> QED BY <1>9, <3>1, <3>3
  <2> QED BY <2>3, <2>4
<1> QED BY <1>10, <1>11, <1>12, <1>13 DEF IoOps

\* When the peer asks once, a read makes output only to answer.
LEMMA ReadAnswers ==
  ASSUME InputInv, Answering, ~AskedAgain, running = "read", NEW r, r = Call("read"),
         WantOf(r) \in {"output", "output_and_retry"}
  PROVE  ~AskDone /\ \E i \in 1 .. r.eng.eaten : incoming[i] = "ask"
<1>1. IoTypes /\ Stream /\ "read" \in IoOps
  BY DEF InputInv, IoOps
<1>2. BioSize \in Nat \ {0} /\ 1 <= BioSize
  BY SslAssumption DEF SslAssumption
<1>3. engine \in Engine
  BY <1>1 DEF IoTypes, LayerTypes
<1>4. PICK m \in 0 .. 1 : m = IF engine.sent_close THEN 0 ELSE AsksIn("read")
  BY <1>1, AskedOnce
<1>5. m > 0 => ~Full(m) /\ ~AskDone /\ \E i \in 1 .. engine.eaten + Eaten("read") : incoming[i] = "ask"
  <2>1. SUFFICES ASSUME m > 0
                 PROVE  ~Full(m) /\ ~AskDone /\ \E i \in 1 .. engine.eaten + Eaten("read") : incoming[i] = "ask"
    OBVIOUS
  <2>2. ~AskDone /\ \E i \in 1 .. engine.eaten + Eaten("read") : incoming[i] = "ask"
    BY <1>1, <1>4, <2>1, AskedOnce
  <2>3. Len(engine.out) = 0
    BY <2>2 DEF Answering
  <2>4. ~Full(m)
    BY <1>2, <1>4, <2>1, <2>3 DEF Full
  <2> QED BY <2>2, <2>4
<1>6. ~engine.got_close
  <2>1. SUFFICES ASSUME engine.got_close PROVE FALSE
    OBVIOUS
  <2>2. r.made = 0 /\ r.says = "zero_return"
    BY <2>1 DEF Call, Read
  <2> QED BY <2>2 DEF WantOf
<1>7. /\ r.made = m /\ r.says \in {"zero_return", "ok", "want_read"}
      /\ r.eng.eaten = engine.eaten + Eaten("read")
  <2>1. r = Read /\ ~(m > 0 /\ Full(m))
    BY <1>5 DEF Call
  <2>2. PICK e : e = After(Eaten("read"), m)
    OBVIOUS
  <2>3. "eaten" \in DOMAIN e /\ e.eaten = engine.eaten + Eaten("read")
    BY <1>3, <2>2 DEF After, Engine
  <2>4. PICK b : b = (engine.got_close \/ Answer("read") = "close")
    OBVIOUS
  <2>5. r.eng = [e EXCEPT !.got_close = b]
    BY <1>4, <1>6, <2>1, <2>2, <2>4 DEF Read
  <2>6. r.made = m /\ r.says \in {"zero_return", "ok", "want_read"}
    BY <1>4, <1>6, <2>1, <2>2 DEF Read
  <2> QED BY <2>3, <2>5, <2>6
<1>8. m > 0
  BY <1>4, <1>7 DEF WantOf
<1> QED BY <1>5, <1>7, <1>8

-----------------------------------------------------------------------------
(* Steps.                                                                  *)

\* Only the program makes an operation outstanding.
LEMMA OutstandingStep ==
  ASSUME InputInv, SslNext, NEW j \in IoOps, Outstanding(j)'
  PROVE  Outstanding(j) \/ Start(j)
<1>0. IoTypes /\ Control /\ Stream /\ Aligned(engine, input_, input_buffer_)
  BY DEF InputInv, Stream
<1>1. ASSUME NEW k \in IoOps, Try(k) PROVE Outstanding(j)
  <2>1. Outstanding(k) /\ \A i \in IoOps \ {k} : op'[i] = op[i]
    BY <1>0, <1>1, TryResult
  <2>2. running' \in {k, Nobody}
    <3>1. running = k /\ \E r, o : Called(k, r, o) /\
            \/ InputLeft(k, o, r.eng) \/ StartReading(k, o, r.eng) \/ WaitToRead(k, o, r.eng)
            \/ StartWriting(k, o, r.eng) \/ WaitToWrite(k, o, r.eng) \/ Done(k, o, r.eng)
      BY <1>0, <1>1, TryCases
    <3> QED BY <3>1 DEF InputLeft, StartReading, WaitToRead, StartWriting, WaitToWrite, Done, Yields,
                        CallHandler
  <2> QED BY <2>1, <2>2 DEF Outstanding, IoOps, Nobody
<1>2. ASSUME NEW k \in IoOps, Resume(k) PROVE Outstanding(j)
  <2>1. Outstanding(k) /\ \A i \in IoOps \ {k} : op'[i] = op[i]
    BY <1>0, <1>2, ResumeResult
  <2>2. running' \in {k, Nobody}
    BY <1>2 DEF Resume, ResumeInput, ResumeOutput, ResumePosted, Continue, CallHandler
  <2> QED BY <2>1, <2>2 DEF Outstanding, IoOps, Nobody
<1>3. ASSUME NEW k \in IoOps, Transfer(k) \/ TransferFails(k) PROVE Outstanding(j)
  <2>1. op[k].pc # "idle" /\ running' = running
    BY <1>3 DEF Transfer, TransferFails, ReadSome, WriteSome, ReadNothing, InTransfer
  <2>2. op[k] # Idle
    BY <2>1 DEF Idle
  <2>3. \A i \in IoOps \ {k} : op'[i] = op[i]
    BY <1>0, <1>3 DEF Transfer, TransferFails, ReadSome, WriteSome, ReadNothing, IoTypes, LoopTypes
  <2> QED BY <2>1, <2>2, <2>3 DEF Outstanding
<1>4. ASSUME NEW k \in IoOps, Start(k) PROVE Outstanding(j) \/ Start(j)
  BY <1>4 DEF Start, Outstanding
<1>5. ASSUME NEW k \in IoOps, Cancel(k) PROVE Outstanding(j)
  <2>1. \A i \in IoOps \ {k} : op'[i] = op[i]
    BY <1>0, <1>5 DEF Cancel, IoTypes, LoopTypes
  <2> QED BY <1>5, <2>1 DEF Cancel, Outstanding
<1>6. ASSUME PeerSends \/ PeerGone PROVE Outstanding(j)
  BY <1>6 DEF PeerSends, PeerGone, ioVars, Outstanding
<1> QED BY <1>1, <1>2, <1>3, <1>4, <1>5, <1>6 DEF SslNext, LoopStep

LEMMA ApartStep ==
  ASSUME Bounded, InputInv, Apart, SslNext PROVE Apart'
<1>1. "shutdown" \in IoOps /\ "write" \in IoOps
  BY DEF IoOps
<1>2. SUFFICES ASSUME Outstanding("shutdown")', Outstanding("write")' PROVE FALSE
  BY DEF Apart
<1>3. Outstanding("shutdown") \/ Start("shutdown")
  BY <1>1, <1>2, OutstandingStep
<1>4. Outstanding("write") \/ Start("write")
  BY <1>1, <1>2, OutstandingStep
<1>5. CASE Start("shutdown")
  <2>1. ~Outstanding("write")
    BY <1>1, <1>5 DEF Start, MayStart, Bounded
  <2>2. running' = "shutdown" /\ running' = "write"
    BY <1>4, <1>5, <2>1 DEF Start
  <2> QED BY <2>2
<1>6. CASE Start("write")
  BY <1>3, <1>5, <1>6 DEF Start, MayStart
<1> QED BY <1>3, <1>4, <1>5, <1>6 DEF Apart

\* The handshake is not forgotten.
LEMMA HelloStays ==
  ASSUME InputInv, SslNext, engine.hello = 2 PROVE engine'.hello = 2
<1>0. IoTypes /\ Control /\ Stream /\ Shaken /\ Aligned(engine, input_, input_buffer_)
  BY DEF InputInv, Stream
<1>1. CASE Elsewhere
  BY <1>1 DEF Elsewhere, Same
<1>2. ASSUME NEW k \in IoOps, Try(k) PROVE engine'.hello = 2
  <2>1. /\ running = k /\ op[k].pc = "idle" /\ Outstanding(k)
        /\ \E r, o : Passes(k, r, o)
    BY <1>0, <1>2, TryResult
  <2>2. PICK r, o : Passes(k, r, o)
    BY <2>1
  <2>3. k # "handshake"
    BY <1>0, <2>1 DEF Control, Shaken, Parting
  <2>4. r = Call(k) /\ Same(r.eng, engine')
    BY <2>2 DEF Passes, Called
  <2>5. r.eng.hello = engine.hello
    BY <1>0, <2>3, <2>4, CallFacts
  <2> QED BY <2>4, <2>5 DEF Same
<1>3. ASSUME NEW k \in IoOps, Resume(k) PROVE engine'.hello = 2
  BY <1>0, <1>3, ResumeResult DEF Same
<1> QED BY <1>0, <1>1, <1>2, <1>3, SslCases

\* What has been answered remains so.
LEMMA AskStays ==
  ASSUME InputInv, SslNext, AskDone PROVE AskDone'
<1>0. IoTypes /\ Control /\ Stream /\ Aligned(engine, input_, input_buffer_)
  BY DEF InputInv, Stream
<1>1. PICK e, s \in Nat : e = engine.eaten /\ s = Len(incoming) /\ e <= s
  BY <1>0, EatenBound DEF IoTypes, LayerTypes
<1>2. PICK i \in 1 .. e : incoming[i] = "ask"
  BY <1>1 DEF AskDone
<1>3. CASE Elsewhere
  <2>1. engine'.eaten = e /\ incoming'[i] = "ask"
    BY <1>1, <1>2, <1>3 DEF Elsewhere, Same, Extends
  <2> QED BY <2>1 DEF AskDone
<1>4. ASSUME NEW k \in IoOps, Try(k) PROVE AskDone'
  <2>1. incoming' = incoming /\ \E r, o : Passes(k, r, o)
    BY <1>0, <1>4, TryResult
  <2>2. PICK r, o : Passes(k, r, o)
    BY <2>1
  <2>3. PICK c \in Nat : r.eng.eaten = e + c
    <3>1. r = Call(k)
      BY <2>2 DEF Passes, Called
    <3>2. PICK c : Takes(r.eng, c)
      BY <1>0, <3>1, CallFacts
    <3> QED BY <1>1, <3>2 DEF Takes
  <2>4. engine'.eaten = e + c
    BY <2>2, <2>3 DEF Passes, Same
  <2>5. i \in 1 .. e + c
    OBVIOUS
  <2> QED BY <1>2, <2>1, <2>4, <2>5 DEF AskDone
<1>5. ASSUME NEW k \in IoOps, Resume(k) PROVE AskDone'
  BY <1>0, <1>5, ResumeResult DEF AskDone, Same
<1> QED BY <1>0, <1>3, <1>4, <1>5, SslCases

\* Nor what the peer has asked.
LEMMA AgainStays ==
  ASSUME InputInv, SslNext, AskedAgain PROVE AskedAgain'
<1>0. IoTypes /\ Control /\ Stream /\ Aligned(engine, input_, input_buffer_)
  BY DEF InputInv, Stream
<1>1. CASE PeerSends
  <2>1. PICK u \in Units : incoming' = Append(incoming, u)
    BY <1>1 DEF PeerSends, MaySend, Units
  <2>2. PICK n \in Nat : n = Len(incoming)
    BY <1>0 DEF IoTypes, LayerTypes
  <2>3. Len(incoming') = n + 1 /\ \A i \in 1 .. n : incoming'[i] = incoming[i]
    BY <1>0, <2>1, <2>2, AppendProperties DEF IoTypes, LayerTypes
  <2>4. PICK i \in 1 .. n, j \in 1 .. n : i # j /\ incoming[i] = "ask" /\ incoming[j] = "ask"
    BY <2>2 DEF AskedAgain
  <2>5. i \in 1 .. n + 1 /\ j \in 1 .. n + 1 /\ incoming'[i] = "ask" /\ incoming'[j] = "ask"
    BY <2>2, <2>3, <2>4
  <2> QED BY <2>3, <2>4, <2>5 DEF AskedAgain
<1>2. ASSUME NEW k \in IoOps, Try(k) PROVE incoming' = incoming
  BY <1>0, <1>2, TryResult
<1>3. ASSUME NEW k \in IoOps, Resume(k) PROVE incoming' = incoming
  BY <1>0, <1>3, ResumeResult
<1>4. ASSUME NEW k \in IoOps, Transfer(k) \/ TransferFails(k) \/ Start(k) \/ Cancel(k) PROVE incoming' = incoming
  BY <1>4 DEF Transfer, ReadSome, WriteSome, ReadNothing, TransferFails, Start, Cancel, peerVars
<1>5. CASE PeerGone
  BY <1>5 DEF PeerGone, AskedAgain
<1>6. CASE incoming' = incoming
  BY <1>6 DEF AskedAgain
<1> QED BY <1>1, <1>2, <1>3, <1>4, <1>5, <1>6 DEF SslNext, LoopStep

\* A step that touches neither the output nor those that send it.
Calm ==
    /\ UNCHANGED <<pending_write_, overtaken, output_buffer_, wire, promised>>
    /\ engine'.out = engine.out /\ engine'.made = engine.made /\ (stopped => stopped')
    /\ \A j \in IoOps :
         /\ op'[j].cancelled => op[j].cancelled \/ stopped'
         /\ IF op[j].pc \in Senders THEN op'[j] = op[j] /\ args'[j] = args[j] ELSE op'[j].pc \notin Senders

OutputKept ==
    /\ OutFits' /\ Handlers' /\ Pending'
    /\ ~AskedAgain' => Answering'
    /\ ~Exposed' => Turns'
    /\ ~Broken' /\ ~Exposed' => Line'

\* Nobody starts anything in a broken stream.
LEMMA StaysOver ==
  ASSUME InputInv, SslNext, Broken, NEW j \in IoOps, ~Outstanding(j) PROVE ~Outstanding(j)'
<1>1. ~Start(j)
  BY DEF Start, MayStart
<1> QED BY <1>1, OutstandingStep

LEMMA CalmKeeps ==
  ASSUME OutputInv, SslNext, Calm
  PROVE  OutputKept
<1>1. InputInv /\ OutFits /\ Handlers /\ Pending /\ IoTypes /\ Control /\ Stream
  BY DEF OutputInv, InputInv
<1>2. /\ Broken => Broken'
      /\ engine.hello = 2 => engine'.hello = 2
      /\ AskDone => AskDone'
      /\ AskedAgain => AskedAgain'
      /\ overtaken' = overtaken
  BY <1>1, BrokenStays, HelloStays, AskStays, AgainStays DEF Calm
<1>3. ASSUME NEW j \in IoOps, op'[j].pc \in Senders PROVE op'[j] = op[j] /\ args'[j] = args[j] /\ op[j].pc \in Senders
  BY <1>3 DEF Calm
<1>4. ASSUME NEW j \in IoOps, op[j].pc \in Senders PROVE op'[j] = op[j] /\ args'[j] = args[j]
  BY <1>4 DEF Calm
<1>5. "writing" \in Senders /\ "wait_write" \in Senders /\ "read" \in IoOps /\ "write" \in IoOps
  BY DEF Senders, IoOps
<1>6. OutFits'
  BY <1>1, <1>2 DEF OutFits, Calm
<1>11. ASSUME ~AskedAgain' PROVE Answering'
  <2>1. Answering
    BY <1>2, <1>11 DEF OutputInv
  <2> QED BY <1>2, <1>3, <1>5, <2>1 DEF Answering, Calm
<1>7. Handlers'
  BY <1>1, <1>3, <1>5 DEF Handlers, Calm
<1>8. Pending'
  <2>1. pending_write_' = pending_write_
    BY DEF Calm
  <2>2. (pending_write_ => \E k \in IoOps : op[k].pc = "writing")'
    BY <1>1, <1>4, <1>5, <2>1 DEF Pending
  <2>3. (\A k \in IoOps : op[k].pc = "wait_write" /\ args[k] = NoArgs => pending_write_)'
    BY <1>1, <1>3, <1>5, <2>1 DEF Pending
  <2> QED BY <2>2, <2>3 DEF Pending
<1>9. ASSUME ~Exposed' PROVE Turns'
  <2>1. Turns /\ pending_write_' = pending_write_
    BY <1>2, <1>9 DEF OutputInv, Calm, Exposed
  <2>2. Alone("writing")'
    BY <1>3, <1>5, <2>1 DEF Turns, Alone
  <2>3. ASSUME NEW k \in IoOps, op'[k].pc = "writing"
        PROVE  \/ pending_write_'
               \/ Broken' /\ \A j \in IoOps \ {k} : ~Outstanding(j)'
               \/ k = "write" /\ overtaken' /\ AskDone'
    <3>1. op[k].pc = "writing"
      BY <1>3, <1>5, <2>3
    <3>2. CASE pending_write_
      BY <2>1, <3>2
    <3>3. CASE Broken /\ \A j \in IoOps \ {k} : ~Outstanding(j)
      BY <1>1, <1>2, <3>3, StaysOver
    <3>4. CASE k = "write" /\ overtaken /\ AskDone
      BY <1>2, <3>4
    <3> QED BY <2>1, <3>1, <3>2, <3>3, <3>4 DEF Turns
  <2>4. ASSUME NEW j \in IoOps, NEW k \in IoOps, op'[j].pc = "writing", op'[k].pc = "wait_write", args'[k] # NoArgs
        PROVE  op'[k].cancelled \/ (k = "read" /\ overtaken')
    <3>1. op'[j] = op[j] /\ op'[k] = op[k] /\ args'[k] = args[k]
      BY <1>3, <1>5, <2>4
    <3> QED BY <1>2, <2>1, <2>4, <3>1 DEF Turns
  <2> QED BY <2>2, <2>3, <2>4 DEF Turns
<1>10. ASSUME ~Broken', ~Exposed' PROVE Line'
  <2>1. Line
    BY <1>2, <1>10 DEF OutputInv, Exposed
  <2>2. UNCHANGED <<wire, output_buffer_, promised>> /\ engine'.out = engine.out /\ engine'.made = engine.made
    BY DEF Calm
  <2>3. ASSUME NEW j \in IoOps, op'[j].pc = "writing" PROVE Carries(j)'
    <3>1. op'[j] = op[j] /\ args'[j] = args[j] /\ Carries(j)
      BY <1>3, <1>5, <2>1, <2>3 DEF Line
    <3> QED BY <2>2, <3>1 DEF Carries, Left, Behind
  <2>4. ((\A k \in IoOps : op[k].pc # "writing") => Behind(engine, Len(wire)))'
    <3>1. (\A k \in IoOps : op'[k].pc # "writing") => \A k \in IoOps : op[k].pc # "writing"
      BY <1>4, <1>5
    <3> QED BY <2>1, <2>2, <3>1 DEF Line, Behind
  <2> QED BY <2>1, <2>2, <2>3, <2>4 DEF Line
<1> QED BY <1>6, <1>7, <1>8, <1>9, <1>10, <1>11 DEF OutputKept

\* k does not send, before the step and after it.
Aside(k) == op[k].pc \notin Senders /\ op'[k].pc \notin Senders /\ (op'[k].cancelled => op[k].cancelled \/ stopped')

LEMMA CalmFacts ==
  ASSUME IoTypes, NEW k \in IoOps, Aside(k),
         UNCHANGED <<pending_write_, overtaken, output_buffer_, wire, promised>>,
         engine'.out = engine.out, engine'.made = engine.made, stopped => stopped',
         \A j \in IoOps \ {k} : op'[j] = op[j] /\ (op[j].pc \in Senders => args'[j] = args[j])
  PROVE  Calm
<1>1. ASSUME NEW j \in IoOps
      PROVE  /\ op'[j].cancelled => op[j].cancelled \/ stopped'
             /\ IF op[j].pc \in Senders THEN op'[j] = op[j] /\ args'[j] = args[j] ELSE op'[j].pc \notin Senders
  <2>1. CASE j = k
    BY <2>1 DEF Aside
  <2>2. CASE j # k
    BY <2>2
  <2> QED BY <2>1, <2>2
<1> QED BY <1>1 DEF Calm

\* Waits to read end: those that send are not concerned.
LEMMA ReadersReleased ==
  ASSUME IoTypes, NEW k \in IoOps,
         \/ args' = args \/ args' = Released("wait_read")
         \/ args' = [Released("wait_read") EXCEPT ![k] = NoArgs] \/ args' = [args EXCEPT ![k] = NoArgs]
  PROVE  \A j \in IoOps \ {k} : op[j].pc \in Senders => args'[j] = args[j]
<1>1. \A j \in IoOps : op[j].pc \in Senders => Released("wait_read")[j] = args[j]
  BY ReleasedFacts DEF Senders
<1>2. Released("wait_read") \in [IoOps -> Args] /\ args \in [IoOps -> Args]
  BY ReleasedFacts DEF IoTypes, LayerTypes
<1> QED BY <1>1, <1>2

\* A pass through the loop that is about output.
Sends(k, r, o) ==
    /\ running = k /\ op[k].pc = "idle" /\ args[k] = NoArgs /\ op[k] \in IoOp /\ Outstanding(k)
    /\ Called(k, r, o) /\ o \in IoOp /\ o.mark = r.eng.made /\ o.ec_ \in {"none", "ssl"}
    /\ o.cancelled = op[k].cancelled /\ Makes(r.eng, r.made) /\ r.eng \in Engine
    /\ k = "read" /\ ~AskedAgain => ~AskDone /\ AskDone'
    /\ o.want_ \in {"output", "output_and_retry"}
    /\ StartWriting(k, o, r.eng) \/ WaitToWrite(k, o, r.eng)

LEMMA TryOutput ==
  ASSUME OutputInv, NEW k \in IoOps, Try(k)
  PROVE  /\ wire' = wire /\ incoming' = incoming
         /\ Calm \/ \E r, o : Sends(k, r, o)
<1>1. InputInv /\ OutFits /\ IoTypes /\ Control /\ Stream /\ Aligned(engine, input_, input_buffer_)
  BY DEF OutputInv, InputInv, Stream
<1>2. PICK r, o : Called(k, r, o) /\
           \/ WantOf(r) = "input_and_retry" /\ InputLeft(k, o, r.eng)
           \/ WantOf(r) = "input_and_retry" /\ StartReading(k, o, r.eng)
           \/ WantOf(r) = "input_and_retry" /\ WaitToRead(k, o, r.eng)
           \/ WantOf(r) \in {"output", "output_and_retry"} /\ StartWriting(k, o, r.eng)
           \/ WantOf(r) \in {"output", "output_and_retry"} /\ WaitToWrite(k, o, r.eng)
           \/ WantOf(r) = "nothing" /\ Done(k, o, r.eng)
  BY <1>1, TryCases
<1>3. running = k /\ UNCHANGED <<incoming, received, gone, wire>>
  BY <1>1, TryCases DEF peerVars
<1>4. /\ o \in IoOp /\ o.want_ = WantOf(r) /\ o.ec_ = ErrorOf(r) /\ o.pc = op[k].pc
      /\ o.cancelled = op[k].cancelled /\ o.mark = r.eng.made
  BY <1>1, <1>2, CalledFacts
<1>5. op[k].pc = "idle" /\ args[k] = NoArgs /\ op[k] \in IoOp /\ Outstanding(k)
  BY <1>1, <1>3 DEF Control, Fit, IoTypes, LoopTypes, Outstanding
<1>6. /\ Makes(r.eng, r.made)
      /\ r.made = 0 => r.eng.out = engine.out
      /\ WantOf(r) \in {"input_and_retry", "nothing"} => r.made = 0
      /\ WantOf(r) \in {"output", "output_and_retry"} => ErrorOf(r) \in {"none", "ssl"}
  BY <1>1, <1>2, <1>3, CallMakes DEF Called
<1>7. r.eng \in Engine
  BY <1>1, <1>2, CallFacts DEF Called, Takes
<1>8. CASE WantOf(r) \in {"output", "output_and_retry"}
  <2>1. StartWriting(k, o, r.eng) \/ WaitToWrite(k, o, r.eng)
    BY <1>2, <1>8
  <2>2. engine'.eaten = r.eng.eaten
    <3>1. CASE StartWriting(k, o, r.eng)
      <4>1. \E s : engine' = [r.eng EXCEPT !.out = s]
        BY <3>1 DEF StartWriting
      <4> QED BY <1>7, <4>1 DEF Engine
    <3>2. CASE WaitToWrite(k, o, r.eng)
      BY <3>2 DEF WaitToWrite
    <3> QED BY <2>1, <3>1, <3>2
  <2>3. k = "read" /\ ~AskedAgain => ~AskDone /\ AskDone'
    <3>1. SUFFICES ASSUME k = "read", ~AskedAgain PROVE ~AskDone /\ AskDone'
      OBVIOUS
    <3>2. ~AskDone /\ \E i \in 1 .. r.eng.eaten : incoming[i] = "ask"
      <4>1. Answering /\ r = Call("read") /\ running = "read"
        BY <1>2, <1>3, <3>1 DEF OutputInv, Called
      <4> QED BY <1>1, <1>8, <3>1, <4>1, ReadAnswers
    <3> QED BY <1>3, <2>2, <3>2 DEF AskDone
  <2>4. Sends(k, r, o)
    BY <1>2, <1>3, <1>4, <1>5, <1>6, <1>7, <1>8, <2>1, <2>3 DEF Sends
  <2> QED BY <1>3, <2>4
<1>9. CASE WantOf(r) \in {"input_and_retry", "nothing"}
  <2>1. r.eng.out = engine.out /\ r.eng.made = engine.made
    <3>1. r.made = 0 /\ engine.made \in Nat
      BY <1>1, <1>6, <1>9 DEF IoTypes, LayerTypes, Engine
    <3> QED BY <1>6, <3>1 DEF Makes
  <2>2. engine'.out = engine.out /\ engine'.made = engine.made
    <3>1. CASE InputLeft(k, o, r.eng)
      <4>1. input_ \in View /\ input_.first <= input_.last + 1 /\ input_.last <= Len(input_buffer_)
        BY <1>1 DEF Aligned, IoTypes, LayerTypes
      <4>2. \E s : WithInput(r.eng, input_, input_buffer_) = [r.eng EXCEPT !.in = s]
        BY <1>1, <1>7, <4>1, PutFacts
      <4> QED BY <1>7, <2>1, <3>1, <4>2 DEF InputLeft, Engine
    <3>2. CASE engine' = r.eng
      BY <2>1, <3>2
    <3> QED BY <1>2, <1>9, <3>1, <3>2 DEF StartReading, WaitToRead, Done
  <2>3. UNCHANGED <<pending_write_, overtaken, output_buffer_>> /\ (args' = args \/ args' = Released("wait_read"))
    BY <1>2, <1>9 DEF InputLeft, StartReading, WaitToRead, Done, coreVars
  <2>4. ASSUME NEW p \in {"idle", "reading", "wait_read", "posted"}, NEW z, z = [o EXCEPT !.pc = p],
               op' = [op EXCEPT ![k] = z], UNCHANGED programVars
        PROVE  Calm
    <3>1. op'[k] = z /\ \A j \in IoOps \ {k} : op'[j] = op[j]
      BY <1>1, <2>4 DEF IoTypes, LoopTypes
    <3>2. z.pc = p /\ z.cancelled = o.cancelled
      BY <1>4, <2>4 DEF IoOp
    <3>3. Aside(k)
      BY <1>4, <1>5, <3>1, <3>2 DEF Aside, Senders
    <3>4. \A j \in IoOps \ {k} : op[j].pc \in Senders => args'[j] = args[j]
      BY <1>1, <2>3, ReadersReleased
    <3>5. UNCHANGED <<wire, promised, stopped>>
      BY <1>3, <2>4 DEF programVars
    <3> QED BY <1>1, <2>2, <2>3, <3>1, <3>3, <3>4, <3>5, CalmFacts
  <2>5. CASE InputLeft(k, o, r.eng)
    <3>1. PICK z : z = [o EXCEPT !.pc = "idle"]
      OBVIOUS
    <3>2. z = o
      BY <1>4, <1>5, <3>1 DEF IoOp
    <3> QED BY <1>3, <2>4, <2>5, <3>1, <3>2 DEF InputLeft
  <2>6. ASSUME NEW p \in {"reading", "wait_read", "posted"}, Yields(k, [o EXCEPT !.pc = p])
        PROVE  Calm
    <3>1. PICK z : z = [o EXCEPT !.pc = p]
      OBVIOUS
    <3> QED BY <2>4, <2>6, <3>1 DEF Yields
  <2>7. CASE StartReading(k, o, r.eng)
    BY <1>3, <2>6, <2>7 DEF StartReading
  <2>8. CASE WaitToRead(k, o, r.eng)
    BY <1>3, <2>6, <2>8 DEF WaitToRead
  <2>9. CASE WantOf(r) = "nothing" /\ Done(k, o, r.eng)
    <3>1. CASE start_
      BY <1>3, <2>6, <2>9, <3>1 DEF Done
    <3>2. CASE ~start_
      <4>1. CallHandler(k, o, r.eng, TRUE)
        BY <2>9, <3>2 DEF Done
      <4>2. op'[k] = Idle /\ \A j \in IoOps \ {k} : op'[j] = op[j]
        BY <1>1, <4>1 DEF CallHandler, IoTypes, LoopTypes
      <4>3. UNCHANGED <<stopped, promised>>
        BY <1>4, <2>9, <4>1 DEF CallHandler
      <4>4. Aside(k)
        BY <1>5, <4>2 DEF Aside, Senders, Idle
      <4>5. \A j \in IoOps \ {k} : op[j].pc \in Senders => args'[j] = args[j]
        BY <1>1, <2>3, ReadersReleased
      <4>6. Calm
        BY <1>1, <1>3, <2>2, <2>3, <4>2, <4>3, <4>4, <4>5, CalmFacts
      <4> QED BY <1>3, <4>6
    <3> QED BY <3>1, <3>2
  <2> QED BY <1>2, <1>3, <1>9, <2>5, <2>7, <2>8, <2>9
<1>10. WantOf(r) \in {"input_and_retry", "output", "output_and_retry", "nothing"}
  BY <1>2
<1> QED BY <1>8, <1>9, <1>10

\* Only a read and a write are under way together.
LEMMA Pairs ==
  ASSUME InputInv, Apart, NEW j \in IoOps, NEW k \in IoOps, Outstanding(j), Outstanding(k), j # k
  PROVE  {j, k} = {"read", "write"}
<1>1. Control
  BY DEF InputInv
<1>2. j \in Readers /\ k \in Readers => FALSE
  BY <1>1 DEF Control
<1>3. j # "handshake" /\ k # "handshake"
  BY <1>1 DEF Control
<1>4. ~(j = "shutdown" /\ k = "write") /\ ~(k = "shutdown" /\ j = "write")
  BY DEF Apart
<1> QED BY <1>2, <1>3, <1>4 DEF Readers, IoOps

\* What an operation is that does not rest.
LEMMA SenderFacts ==
  ASSUME InputInv, NEW k \in IoOps, op[k].pc # "idle"
  PROVE  Outstanding(k) /\ running # k
<1>1. op[k] # Idle
  BY DEF Idle
<1> QED BY <1>1 DEF Outstanding, InputInv, Control, Fit

LEMMA MakesBehind ==
  ASSUME IoTypes, NEW e \in Engine, NEW m, Makes(e, m), NEW n \in Nat, Behind(engine, n)
  PROVE  Behind(e, n)
<1>1. engine.out \in Seq(Nat) /\ e.out \in Seq(Nat) /\ m \in Nat
  BY DEF IoTypes, LayerTypes, Engine, Makes
<1>2. PICK l \in Nat : l = Len(engine.out)
  BY <1>1
<1>3. engine.made = n + l /\ \A i \in 1 .. l : engine.out[i] = n + i
  BY <1>2 DEF Behind
<1>0. engine.made \in Nat
  BY DEF IoTypes, LayerTypes, Engine
<1>4. PICK new \in Seq(Nat) : new = [i \in 1 .. m |-> engine.made + i]
  <2>1. \A i \in 1 .. m : engine.made + i \in Nat
    BY <1>0, <1>1
  <2>2. [i \in 1 .. m |-> engine.made + i] \in Seq(Nat)
    BY <1>1, <2>1
  <2> QED BY <2>2
<1>5. Len(new) = m /\ \A i \in 1 .. m : new[i] = n + l + i
  BY <1>1, <1>3, <1>4
<1>6. e.out = engine.out \o new /\ e.made = n + l + m
  BY <1>3, <1>4 DEF Makes
<1>7. Len(e.out) = l + m /\ \A i \in 1 .. l + m : e.out[i] = IF i <= l THEN engine.out[i] ELSE new[i - l]
  <2>1. PICK t \in Seq(Nat) : t = engine.out /\ Len(t) = l
    BY <1>1, <1>2
  <2>2. /\ Len(t \o new) = Len(t) + Len(new)
        /\ \A i \in 1 .. Len(t) + Len(new) : (t \o new)[i] = IF i <= Len(t) THEN t[i] ELSE new[i - Len(t)]
    <3>1. new \in Seq(Nat)
      BY <1>4
    <3>2. \A a, b \in Seq(Nat) : /\ Len(a \o b) = Len(a) + Len(b)
                                  /\ \A i \in 1 .. Len(a) + Len(b) :
                                       (a \o b)[i] = IF i <= Len(a) THEN a[i] ELSE b[i - Len(a)]
      BY ConcatProperties
    <3> QED BY <2>1, <3>1, <3>2
  <2> QED BY <1>5, <1>6, <2>1, <2>2
<1>8. ASSUME NEW i \in 1 .. l + m PROVE e.out[i] = n + i
  <2>1. CASE i <= l
    BY <1>1, <1>3, <1>7, <2>1
  <2>2. CASE i > l
    <3>1. i - l \in 1 .. m /\ l + (i - l) = i
      BY <1>1, <2>2
    <3>2. new[i - l] = n + l + (i - l)
      BY <1>5, <3>1
    <3> QED BY <1>1, <1>2, <1>7, <2>2, <3>2
  <2> QED BY <1>1, <2>1, <2>2
<1>9. PICK k \in Nat : k = l + m
  BY <1>1
<1>10. Len(e.out) = k /\ e.made = n + k
  BY <1>1, <1>6, <1>7, <1>9
<1>11. \A i \in 1 .. k : e.out[i] = n + i
  BY <1>8, <1>9
<1> QED BY <1>10, <1>11 DEF Behind

\* Whoever finds the timer free, before the code is exposed, finds nobody writing.
LEMMA NobodyWrites ==
  ASSUME InputInv, Apart, Turns, ~Exposed, NEW k \in IoOps, NEW r, NEW o, Sends(k, r, o), ~pending_write_
  PROVE  \A j \in IoOps : op[j].pc # "writing"
<1>1. SUFFICES ASSUME NEW j \in IoOps, op[j].pc = "writing" PROVE FALSE
  OBVIOUS
<1>2. Outstanding(j) /\ Outstanding(k) /\ k # j
  BY <1>1, SenderFacts DEF Sends
<1>3. j = "write" /\ overtaken /\ AskDone
  BY <1>1, <1>2 DEF Turns
<1>4. k = "read" /\ ~AskedAgain
  BY <1>2, <1>3, Pairs DEF Exposed
<1> QED BY <1>3, <1>4 DEF Sends

\* A write to the next layer takes all that the engine has made.
LEMMA SendsTaken ==
  ASSUME Bounded, InputInv, NEW k \in IoOps, NEW r, NEW o, Sends(k, r, o), StartWriting(k, o, r.eng)
  PROVE  \E z \in IoOp, n \in Nat :
           /\ op' = [op EXCEPT ![k] = z] /\ z.pc = "writing" /\ z.size = n /\ z.moved = 0
           /\ z.ec_ = o.ec_ /\ z.cancelled = op[k].cancelled /\ z.mark = r.eng.made
           /\ n = Len(r.eng.out) /\ engine'.out = <<>> /\ engine'.made = r.eng.made
           /\ n <= Len(output_buffer_') /\ \A i \in 1 .. n : output_buffer_'[i] = r.eng.out[i]
<1>1. IoTypes
  BY DEF InputInv
<1>2. BufferSize \in Nat /\ BioSize \in Nat /\ BioSize <= BufferSize
  BY SslAssumption DEF SslAssumption, Bounded
<1>3. r.eng.out \in Seq(Nat) /\ Len(r.eng.out) \in Nat /\ Len(r.eng.out) <= BioSize
  <2>1. r.eng \in Engine /\ Len(r.eng.out) <= BioSize
    BY DEF Sends, Makes
  <2> QED BY <2>1 DEF Engine
<1>4. PICK n \in Nat : n = Len(r.eng.out) /\ n <= BufferSize
  BY <1>2, <1>3
<1>5. PICK s \in Seq(Nat) : s = UpTo(BufferSize, r.eng.out) /\ Len(s) = n /\ \A i \in 1 .. n : s[i] = r.eng.out[i]
  <2>1. /\ UpTo(BufferSize, r.eng.out) \in Seq(Nat)
        /\ Len(UpTo(BufferSize, r.eng.out)) = (IF BufferSize < Len(r.eng.out) THEN BufferSize ELSE Len(r.eng.out))
        /\ \A i \in 1 .. Len(UpTo(BufferSize, r.eng.out)) : UpTo(BufferSize, r.eng.out)[i] = r.eng.out[i]
    BY <1>2, <1>3, UpToFacts
  <2>2. Len(UpTo(BufferSize, r.eng.out)) = n
    BY <1>2, <1>4, <2>1
  <2> QED BY <2>1, <2>2
<1>6. From(n + 1, r.eng.out) = <<>>
  <2>1. Len(SubSeq(r.eng.out, n + 1, n)) = 0 /\ SubSeq(r.eng.out, n + 1, n) \in Seq(Nat)
    BY <1>3, <1>4, SubSeqProperties
  <2> QED BY <1>4, <2>1, EmptySeq DEF From
<1>7. /\ output_buffer_' = Overwritten(output_buffer_, s) /\ engine' = [r.eng EXCEPT !.out = From(n + 1, @)]
      /\ op' = [op EXCEPT ![k] = [o EXCEPT !.pc = "writing", !.size = n, !.moved = 0]]
  BY <1>5 DEF StartWriting, Yields
<1>8. PICK z : z = [o EXCEPT !.pc = "writing", !.size = n, !.moved = 0]
  OBVIOUS
<1>9. /\ z \in IoOp /\ z.pc = "writing" /\ z.size = n /\ z.moved = 0 /\ z.ec_ = o.ec_
      /\ z.cancelled = op[k].cancelled /\ z.mark = r.eng.made
  BY <1>8 DEF Sends, IoOp, PCs
<1>10. op' = [op EXCEPT ![k] = z]
  BY <1>7, <1>8
<1>11. engine'.out = <<>> /\ engine'.made = r.eng.made
  <2>1. engine' = [r.eng EXCEPT !.out = <<>>] /\ r.eng \in Engine
    BY <1>6, <1>7 DEF Sends
  <2> QED BY <2>1 DEF Engine
<1>12. n <= Len(output_buffer_') /\ \A i \in 1 .. n : output_buffer_'[i] = r.eng.out[i]
  <2>1. output_buffer_ \in Seq(Nat)
    BY <1>1 DEF IoTypes, LayerTypes
  <2> QED BY <1>5, <1>7, <2>1, OverwrittenFacts
<1> QED BY <1>4, <1>9, <1>10, <1>11, <1>12

LEMMA StartWritingKeeps ==
  ASSUME Bounded, OutputInv, SslNext, NEW k \in IoOps, NEW r, NEW o, Sends(k, r, o),
         StartWriting(k, o, r.eng), wire' = wire
  PROVE  OutputKept
<1>1. InputInv /\ Apart /\ OutFits /\ Handlers /\ Pending /\ IoTypes /\ Control /\ Stream
  BY DEF OutputInv, InputInv
<1>2. /\ ~pending_write_ /\ pending_write_' /\ args' = Released("wait_write")
      /\ UNCHANGED <<ended, promised, stopped>>
  BY DEF StartWriting, Free, Yields, programVars
<1>3. /\ overtaken => overtaken'
      /\ \A j \in IoOps : LetGo(j) => overtaken'
      /\ AskedAgain => AskedAgain'
      /\ AskDone => AskDone'
  BY <1>1, AgainStays, AskStays DEF StartWriting
<1>4. ~Exposed' => Turns /\ \A j \in IoOps : op[j].pc # "writing"
  BY <1>1, <1>2, <1>3, NobodyWrites DEF OutputInv, Exposed
<1>5. PICK z \in IoOp, n \in Nat :
           /\ op' = [op EXCEPT ![k] = z] /\ z.pc = "writing" /\ z.size = n /\ z.moved = 0
           /\ z.ec_ = o.ec_ /\ z.cancelled = op[k].cancelled /\ z.mark = r.eng.made
           /\ n = Len(r.eng.out) /\ engine'.out = <<>> /\ engine'.made = r.eng.made
           /\ n <= Len(output_buffer_') /\ \A i \in 1 .. n : output_buffer_'[i] = r.eng.out[i]
  BY <1>1, SendsTaken
<1>6. op'[k] = z /\ \A j \in IoOps \ {k} : op'[j] = op[j]
  BY <1>1, <1>5 DEF IoTypes, LoopTypes
<1>7. /\ args'[k] = NoArgs /\ op[k].pc = "idle"
      /\ \A j \in IoOps : args'[j] = args[j] \/ (op[j].pc = "wait_write" /\ args[j] = NoArgs /\ args'[j] = TimerArgs)
  <2>1. args[k] = NoArgs /\ op[k].pc = "idle"
    BY DEF Sends
  <2> QED BY <1>1, <1>2, <2>1, ReleasedFacts
<1>8. op'[k].pc = "writing" /\ k \notin {j \in IoOps : op'[j].pc = "wait_write"}
  BY <1>5, <1>6
<1>9. ASSUME NEW j \in IoOps, j # k PROVE op'[j] = op[j]
  BY <1>6, <1>9
<1>10. OutFits'
  <2>1. Len(engine'.out) = 0 /\ engine'.out = <<>> /\ 0 <= BioSize
    BY <1>5, SslAssumption DEF SslAssumption
  <2> QED BY <2>1 DEF OutFits
<1>11. Handlers'
  <2>1. ASSUME NEW j \in IoOps, op'[j].pc = "wait_write"
        PROVE  j \in {"read", "write"} /\ (args'[j] # NoArgs => args'[j].timer)
    <3>1. j # k /\ op[j].pc = "wait_write"
      BY <1>8, <1>9, <2>1
    <3> QED BY <1>1, <1>7, <3>1 DEF Handlers, TimerArgs
  <2>2. ASSUME NEW j \in IoOps, op'[j].pc = "writing" PROVE ~args'[j].timer /\ op'[j].ec_ \in {"none", "ssl"}
    <3>1. CASE j = k
      BY <1>5, <1>6, <1>7, <3>1 DEF NoArgs, Sends
    <3>2. CASE j # k
      <4>1. op'[j] = op[j] /\ args'[j] = args[j]
        BY <1>7, <1>9, <2>2, <3>2
      <4> QED BY <1>1, <2>2, <4>1 DEF Handlers
    <3> QED BY <3>1, <3>2
  <2>3. ASSUME NEW j \in IoOps, op'[j].cancelled PROVE stopped'
    BY <1>1, <1>2, <1>5, <1>6, <1>9, <2>3 DEF Handlers
  <2> QED BY <2>1, <2>2, <2>3 DEF Handlers
<1>12. Pending'
  BY <1>2, <1>8 DEF Pending
<1>13. ASSUME ~Exposed' PROVE Turns'
  <2>1. ASSUME NEW j \in IoOps, op'[j].pc = "writing" PROVE j = k
    BY <1>4, <1>9, <1>13, <2>1
  <2>2. ASSUME NEW j \in IoOps, op'[j].pc = "wait_write"
        PROVE  op'[j].cancelled \/ (j = "read" /\ overtaken')
    <3>1. j # k /\ op[j] = op'[j]
      BY <1>8, <1>9, <2>2
    <3>2. args[j] # NoArgs
      BY <1>1, <1>2, <2>2, <3>1 DEF Pending
    <3>3. CASE op[j].cancelled
      BY <3>1, <3>3
    <3>4. CASE ~op[j].cancelled
      <4>1. overtaken' /\ ~AskedAgain
        BY <1>3, <1>13, <2>2, <3>1, <3>2, <3>4 DEF LetGo, Exposed
      <4>2. {j, k} = {"read", "write"}
        <5>1. Outstanding(j) /\ Outstanding(k)
          BY <1>1, <2>2, <3>1, SenderFacts DEF Sends
        <5> QED BY <1>1, <3>1, <5>1, Pairs
      <4>3. j # "write"
        <5>1. SUFFICES ASSUME j = "write" PROVE FALSE
          OBVIOUS
        <5>2. k = "read" /\ AskDone
          BY <2>2, <3>1, <4>1, <4>2, <5>1 DEF OutputInv, Answering
        <5> QED BY <4>1, <5>2 DEF Sends
      <4> QED BY <4>1, <4>2, <4>3
    <3> QED BY <3>3, <3>4
  <2> QED BY <1>2, <2>1, <2>2 DEF Turns, Alone
<1>15. ASSUME ~AskedAgain' PROVE Answering'
  <2>1. Answering /\ ~AskedAgain
    BY <1>3, <1>15 DEF OutputInv
  <2>2. op'["read"].pc \in Senders => AskDone'
    <3>1. CASE k = "read"
      BY <2>1, <3>1 DEF Sends
    <3>2. CASE k # "read"
      <4>1. op'["read"] = op["read"]
        BY <1>9, <3>2 DEF IoOps
      <4> QED BY <1>3, <2>1, <4>1 DEF Answering
    <3> QED BY <3>1, <3>2
  <2>3. op'["write"].pc = "wait_write" => AskDone'
    <3>1. CASE k = "write"
      BY <1>8, <3>1
    <3>2. CASE k # "write"
      <4>1. op'["write"] = op["write"]
        BY <1>9, <3>2 DEF IoOps
      <4> QED BY <1>3, <2>1, <4>1 DEF Answering
    <3> QED BY <3>1, <3>2
  <2> QED BY <1>5, <2>2, <2>3 DEF Answering
<1>14. ASSUME ~Broken', ~Exposed' PROVE Line'
  <2>1. Line
    BY <1>2, <1>3, <1>14 DEF OutputInv, Broken, Exposed
  <2>2. PICK w \in Nat : w = Len(wire)
    BY <2>1 DEF Line
  <2>3. Behind(engine, w)
    BY <1>4, <1>14, <2>1, <2>2 DEF Line
  <2>4. Behind(r.eng, w)
    BY <1>1, <2>3, MakesBehind DEF Sends
  <2>5. Left(k)' = n
    BY <1>5, <1>6 DEF Left
  <2>6. Carries(k)'
    <3>1. op'[k].size <= Len(output_buffer_')
      BY <1>5, <1>6
    <3>2. \A i \in 1 .. n : output_buffer_'[op'[k].moved + i] = Len(wire') + i
      <4>1. ASSUME NEW i \in 1 .. n PROVE output_buffer_'[op'[k].moved + i] = Len(wire') + i
        <5>1. op'[k].moved + i = i
          BY <1>5, <1>6
        <5> QED BY <1>5, <2>2, <2>4, <5>1 DEF Behind
      <4> QED BY <4>1
    <3>3. engine'.made = w + n /\ Len(engine'.out) = 0
      BY <1>5, <2>4 DEF Behind
    <3>4. Behind(engine, Len(wire) + n)'
      BY <2>2, <3>3 DEF Behind
    <3>5. op'[k].mark <= Len(wire') + n
      BY <1>5, <1>6, <2>2, <2>4 DEF Behind
    <3> QED BY <1>7, <2>5, <3>1, <3>2, <3>4, <3>5 DEF Carries
  <2>7. ASSUME NEW j \in IoOps, op'[j].pc = "writing" PROVE j = k
    BY <1>4, <1>9, <1>14, <2>7
  <2> QED BY <1>2, <1>8, <2>1, <2>6, <2>7 DEF Line
<1> QED BY <1>10, <1>11, <1>12, <1>13, <1>14, <1>15 DEF OutputKept

LEMMA LeftFacts ==
  ASSUME IoTypes, NEW k \in IoOps
  PROVE  /\ Left(k) \in Nat /\ op[k].size \in Nat /\ op[k].moved \in Nat /\ op[k].mark \in Nat
         /\ op[k].moved + Left(k) = op[k].size
<1>1. op[k] \in IoOp /\ op[k].moved <= op[k].size
  BY DEF IoTypes, LoopTypes
<1> QED BY <1>1 DEF IoOp, Left

LEMMA WaitToWriteKeeps ==
  ASSUME OutputInv, SslNext, NEW k \in IoOps, NEW r, NEW o, Sends(k, r, o),
         WaitToWrite(k, o, r.eng), wire' = wire
  PROVE  OutputKept
<1>1. InputInv /\ Apart /\ OutFits /\ Handlers /\ Pending /\ IoTypes /\ Control /\ Shaken
  BY DEF OutputInv, InputInv
<1>2. /\ overtaken' = overtaken
      /\ AskedAgain => AskedAgain'
      /\ AskDone => AskDone'
  BY <1>1, AgainStays, AskStays DEF WaitToWrite, coreVars
<1>3. /\ pending_write_ /\ pending_write_' /\ engine' = r.eng /\ args[k] = NoArgs /\ op[k].pc = "idle"
      /\ UNCHANGED <<args, output_buffer_, ended, promised, stopped>>
  BY DEF WaitToWrite, Free, Yields, programVars, coreVars, Sends
<1>4. PICK z : z = [o EXCEPT !.pc = "wait_write"]
  OBVIOUS
<1>5. z \in IoOp /\ z.pc = "wait_write" /\ z.cancelled = op[k].cancelled
  BY <1>4 DEF Sends, IoOp, PCs
<1>6. op'[k] = z /\ \A j \in IoOps \ {k} : op'[j] = op[j]
  BY <1>1, <1>4 DEF WaitToWrite, Yields, IoTypes, LoopTypes
<1>7. PICK j \in IoOps : op[j].pc = "writing" /\ j # k /\ {j, k} = {"read", "write"}
  <2>1. PICK j \in IoOps : op[j].pc = "writing"
    BY <1>1, <1>3 DEF Pending
  <2>2. j # k
    BY <1>3, <2>1
  <2>3. Outstanding(j) /\ Outstanding(k)
    BY <1>1, <2>1, SenderFacts DEF Sends
  <2> QED BY <1>1, <2>1, <2>2, <2>3, Pairs
<1>8. engine'.hello = 2
  <2>1. "read" \in IoOps \ {"handshake"} /\ "write" \in IoOps \ {"handshake"}
    BY DEF IoOps
  <2>2. k # "handshake" /\ Outstanding(k)
    BY <1>7, <2>1 DEF Sends
  <2>3. engine.hello = 2
    BY <1>1, <2>2 DEF Control, Shaken
  <2> QED BY <1>1, <2>3, HelloStays
<1>9. ASSUME NEW i \in IoOps, op'[i].pc = "writing"
      PROVE  i # k /\ op'[i] = op[i] /\ args'[i] = args[i] /\ op[i].pc = "writing"
  BY <1>3, <1>5, <1>6, <1>9
<1>10. OutFits'
  BY <1>3, <1>8 DEF OutFits, Sends, Makes
<1>11. Handlers'
  <2>1. ASSUME NEW i \in IoOps, op'[i].pc = "wait_write"
        PROVE  i \in {"read", "write"} /\ (args'[i] # NoArgs => args'[i].timer)
    <3>1. CASE i = k
      BY <1>3, <1>7, <3>1
    <3>2. CASE i # k
      BY <1>1, <1>3, <1>6, <2>1, <3>2 DEF Handlers
    <3> QED BY <3>1, <3>2
  <2>2. ASSUME NEW i \in IoOps, op'[i].pc = "writing" PROVE ~args'[i].timer /\ op'[i].ec_ \in {"none", "ssl"}
    BY <1>1, <1>9, <2>2 DEF Handlers
  <2>3. ASSUME NEW i \in IoOps, op'[i].cancelled PROVE stopped'
    BY <1>1, <1>3, <1>5, <1>6, <2>3 DEF Handlers
  <2> QED BY <2>1, <2>2, <2>3 DEF Handlers
<1>12. Pending'
  <2>1. op'[j].pc = "writing"
    BY <1>6, <1>7
  <2> QED BY <1>3, <2>1 DEF Pending
<1>13. ASSUME ~Exposed' PROVE Turns'
  <2>1. Turns
    BY <1>2, <1>13 DEF OutputInv, Exposed
  <2>2. Alone("writing")'
    BY <1>9, <2>1 DEF Turns, Alone
  <2>3. ASSUME NEW i \in IoOps, NEW m \in IoOps, op'[i].pc = "writing", op'[m].pc = "wait_write", args'[m] # NoArgs
        PROVE  op'[m].cancelled \/ (m = "read" /\ overtaken')
    <3>1. m # k
      BY <1>3, <2>3
    <3>2. op'[m] = op[m] /\ args'[m] = args[m] /\ op[i].pc = "writing"
      BY <1>3, <1>6, <1>9, <2>3, <3>1
    <3> QED BY <1>2, <2>1, <2>3, <3>2 DEF Turns
  <2> QED BY <1>3, <2>2, <2>3 DEF Turns
<1>15. ASSUME ~AskedAgain' PROVE Answering'
  <2>1. Answering /\ ~AskedAgain
    BY <1>2, <1>15 DEF OutputInv
  <2>2. AskDone'
    <3>1. CASE k = "read"
      BY <2>1, <3>1 DEF Sends
    <3>2. CASE k = "write"
      <4>1. op["read"].pc = "writing"
        BY <1>7, <3>2
      <4> QED BY <1>2, <2>1, <4>1 DEF Answering, Senders
    <3> QED BY <1>7, <3>1, <3>2
  <2> QED BY <2>2 DEF Answering
<1>14. ASSUME ~Broken', ~Exposed' PROVE Line'
  <2>1. Line
    BY <1>2, <1>3, <1>14 DEF OutputInv, Broken, Exposed
  <2>2. ASSUME NEW i \in IoOps, op'[i].pc = "writing" PROVE Carries(i)'
    <3>1. Carries(i) /\ op'[i] = op[i] /\ args'[i] = args[i]
      BY <1>9, <2>1, <2>2 DEF Line
    <3>2. PICK n \in Nat : n = Len(wire) + Left(i)
      BY <1>1, <2>1, LeftFacts DEF Line
    <3>3. Behind(r.eng, n)
      BY <1>1, <3>1, <3>2, MakesBehind DEF Sends, Carries
    <3> QED BY <1>3, <3>1, <3>2, <3>3 DEF Carries, Left
  <2>3. op'[j].pc = "writing"
    BY <1>6, <1>7
  <2> QED BY <1>3, <2>1, <2>2, <2>3 DEF Line
<1> QED BY <1>10, <1>11, <1>12, <1>13, <1>14, <1>15 DEF OutputKept

LEMMA TryKeeps ==
  ASSUME Bounded, OutputInv, SslNext, NEW k \in IoOps, Try(k)
  PROVE  OutputKept
<1>1. wire' = wire /\ (Calm \/ \E r, o : Sends(k, r, o))
  BY TryOutput
<1>2. ASSUME NEW r, NEW o, Sends(k, r, o) PROVE OutputKept
  <2>1. StartWriting(k, o, r.eng) \/ WaitToWrite(k, o, r.eng)
    BY <1>2 DEF Sends
  <2> QED BY <1>1, <1>2, <2>1, StartWritingKeeps, WaitToWriteKeeps
<1> QED BY <1>1, <1>2, CalmKeeps

\* The handlers of reads, and of the read of no bytes.
LEMMA ResumeCalm ==
  ASSUME OutputInv, NEW k \in IoOps, Resume(k), ResumeInput(k) \/ ResumePosted(k)
  PROVE  Calm
<1>1. InputInv /\ IoTypes /\ Control /\ Stream
  BY DEF OutputInv, InputInv
<1>2. /\ args[k] # NoArgs /\ wire' = wire /\ op[k].pc # "idle" /\ Fit(k) /\ op[k] \in IoOp /\ engine \in Engine
      /\ UNCHANGED <<pending_write_, overtaken, output_buffer_>>
  BY <1>1 DEF Resume, ResumeInput, ResumePosted, coreVars, Control, Fit, IoTypes, LoopTypes, LayerTypes
<1>3. op[k].want_ \in {"input_and_retry", "nothing"} /\ op[k].pc \notin Senders
  <2>1. op[k].want_ \in {"input_and_retry", "nothing"}
    BY DEF ResumeInput, ResumePosted
  <2>2. op[k].pc \in PCs /\ Suits(op[k])
    BY <1>2 DEF IoOp, Fit
  <2> QED BY <2>1, <2>2 DEF Suits, Senders, PCs
<1>4. engine'.out = engine.out /\ engine'.made = engine.made
  <2>1. CASE ResumeInput(k)
    <3>1. PICK view : view = [first |-> 1, last |-> args[k].n]
      OBVIOUS
    <3>2. PICK n \in Nat : n = args[k].n
      BY <1>1, SslAssumption DEF IoTypes, LayerTypes, Args, SslAssumption
    <3>3. n <= Len(input_buffer_)
      <4>1. CASE n > 0
        BY <1>1, <3>2, <4>1 DEF Control, Fit, Stream, Brought
      <4>2. CASE ~(n > 0)
        BY <1>1, <3>2, <4>2 DEF IoTypes, LayerTypes
      <4> QED BY <4>1, <4>2
    <3>4. view \in View /\ view.first <= view.last + 1 /\ view.last <= Len(input_buffer_)
      BY <3>1, <3>2, <3>3 DEF View
    <3>5. \E s : WithInput(engine, view, input_buffer_) = [engine EXCEPT !.in = s]
      BY <1>1, <1>2, <3>4, PutFacts
    <3>6. engine' = WithInput(engine, view, input_buffer_)
      BY <2>1, <3>1 DEF ResumeInput
    <3> QED BY <1>2, <3>5, <3>6 DEF Engine
  <2>2. CASE ResumePosted(k)
    BY <2>2 DEF ResumePosted
  <2> QED BY <2>1, <2>2
<1>5. PICK z : z = [op[k] EXCEPT !.ec_ = ErrorAfter(k)]
  OBVIOUS
<1>6. PICK o : o = [op[k] EXCEPT !.ec_ = ErrorAfter(k), !.pc = "idle"]
  OBVIOUS
<1>7. z.want_ # "output" /\ o.want_ # "output" /\ o.pc = "idle" /\ o.cancelled = op[k].cancelled
  BY <1>2, <1>3, <1>5, <1>6 DEF IoOp
<1>8. \/ \E e : CallHandler(k, o, e, TRUE) \/ CallHandler(k, z, e, TRUE)
      \/ op' = [op EXCEPT ![k] = o] /\ UNCHANGED programVars
  BY <1>5, <1>6 DEF ResumeInput, ResumePosted, Continue
<1>9. /\ op'[k] = o \/ op'[k] = Idle
      /\ \A j \in IoOps \ {k} : op'[j] = op[j]
      /\ UNCHANGED <<promised, stopped>>
  <2>1. CASE \E e : CallHandler(k, o, e, TRUE) \/ CallHandler(k, z, e, TRUE)
    <3>1. op' = [op EXCEPT ![k] = Idle] /\ UNCHANGED <<promised, stopped>>
      BY <1>7, <2>1 DEF CallHandler
    <3> QED BY <1>1, <3>1 DEF IoTypes, LoopTypes
  <2>2. CASE op' = [op EXCEPT ![k] = o] /\ UNCHANGED programVars
    BY <1>1, <2>2 DEF IoTypes, LoopTypes, programVars
  <2> QED BY <1>8, <2>1, <2>2
<1>10. Aside(k)
  BY <1>3, <1>7, <1>9 DEF Aside, Senders, Idle
<1>11. \A j \in IoOps \ {k} : op[j].pc \in Senders => args'[j] = args[j]
  <2>1. args' = [Released("wait_read") EXCEPT ![k] = NoArgs] \/ args' = [args EXCEPT ![k] = NoArgs]
    BY DEF ResumeInput, ResumePosted
  <2> QED BY <1>1, <2>1, ReadersReleased
<1> QED BY <1>1, <1>2, <1>4, <1>9, <1>10, <1>11, CalmFacts

\* The handler of a write, or of the end of a wait to write.
Sent(k) ==
    /\ op[k].pc \in Senders /\ args[k] # NoArgs
    /\ ~pending_write_' /\ UNCHANGED <<engine, overtaken, wire, output_buffer_, incoming, stopped>>
    /\ op'[k].pc = "idle" /\ (op'[k].cancelled => op[k].cancelled)
    /\ op[k].cancelled => op'[k] = Idle /\ running' = Nobody
    /\ \A j \in IoOps \ {k} : /\ op'[j] = op[j]
                              /\ IF op[j].pc = "wait_write" /\ args[j] = NoArgs THEN args'[j] = TimerArgs
                                 ELSE args'[j] = args[j]
    /\ ~args[k].timer /\ args[k].ec # "none" => Broken'
    /\ promised'.own = promised.own \/ (promised'.own = op[k].mark /\ ~args[k].timer)

LEMMA SentFacts ==
  ASSUME OutputInv, NEW k \in IoOps, Resume(k), ResumeOutput(k)
  PROVE  Sent(k)
<1>1. InputInv /\ IoTypes /\ Control /\ Handlers
  BY DEF OutputInv, InputInv
<1>2. /\ args[k] # NoArgs /\ UNCHANGED <<engine, overtaken, wire, output_buffer_, incoming>> /\ ~pending_write_'
      /\ op[k].pc # "idle" /\ Fit(k) /\ op[k] \in IoOp /\ engine \in Engine /\ args[k] \in Args
  BY <1>1 DEF Resume, ResumeOutput, peerVars, Control, Fit, IoTypes, LoopTypes, LayerTypes
<1>3. op[k].want_ \in {"output", "output_and_retry"} /\ op[k].pc \in Senders
  <2>1. op[k].want_ \in {"output", "output_and_retry"}
    BY DEF ResumeOutput
  <2>2. op[k].pc \in PCs /\ Suits(op[k])
    BY <1>2 DEF IoOp, Fit
  <2> QED BY <1>2, <2>1, <2>2 DEF Suits, Senders, PCs
<1>4. PICK c \in Errors : c = ErrorAfter(k)
  BY <1>1, <1>2, ErrorAfterFacts DEF Fit
<1>5. PICK z : z = [op[k] EXCEPT !.ec_ = c]
  OBVIOUS
<1>6. PICK o : o = [op[k] EXCEPT !.ec_ = c, !.pc = "idle"]
  OBVIOUS
<1>7. /\ z.want_ = op[k].want_ /\ z.mark = op[k].mark /\ z.ec_ = c
      /\ o.want_ = op[k].want_ /\ o.pc = "idle" /\ o.cancelled = op[k].cancelled /\ o.ec_ = c
      /\ z \in IoOp /\ o \in IoOp
  BY <1>2, <1>5, <1>6 DEF IoOp, PCs
<1>8. \/ op[k].want_ = "output" /\ CallHandler(k, z, engine, ~args[k].timer)
      \/ op[k].want_ = "output_and_retry" /\ c # "none" /\ CallHandler(k, o, engine, TRUE)
      \/ /\ op[k].want_ = "output_and_retry" /\ c = "none"
         /\ op' = [op EXCEPT ![k] = o] /\ UNCHANGED programVars
  BY <1>3, <1>4, <1>5, <1>6, <1>7 DEF ResumeOutput, Continue
<1>9. ~args[k].timer /\ args[k].ec # "none" => c \notin {"none", "eof"}
  <2>1. SUFFICES ASSUME ~args[k].timer, args[k].ec # "none" PROVE c \notin {"none", "eof"}
    OBVIOUS
  <2>2. op[k].pc = "writing" /\ op[k].ec_ \in {"none", "ssl"}
    BY <1>1, <1>2, <1>3, <2>1 DEF Handlers, Senders
  <2>3. args[k].ec # "eof"
    BY <1>2, <2>2 DEF Fit
  <2> QED BY <1>4, <2>1, <2>2, <2>3 DEF ErrorAfter
<1>10. /\ \A j \in IoOps \ {k} : op'[j] = op[j]
       /\ op'[k].pc = "idle" /\ (op'[k].cancelled => op[k].cancelled) /\ stopped' = stopped
       /\ op[k].cancelled => op'[k] = Idle /\ running' = Nobody
       /\ ~args[k].timer /\ args[k].ec # "none" => Broken'
       /\ promised'.own = promised.own \/ (promised'.own = op[k].mark /\ ~args[k].timer)
  <2>1. CASE op[k].want_ = "output_and_retry" /\ c = "none" /\ op' = [op EXCEPT ![k] = o] /\ UNCHANGED programVars
    <3>1. op'[k] = o /\ (\A j \in IoOps \ {k} : op'[j] = op[j]) /\ UNCHANGED <<stopped, promised>>
      BY <1>1, <2>1 DEF IoTypes, LoopTypes, programVars
    <3>2. ~op[k].cancelled
      BY <1>4, <2>1 DEF ErrorAfter
    <3> QED BY <1>7, <1>9, <2>1, <3>1, <3>2
  <2>2. ASSUME NEW y \in IoOp, y.ec_ = c, y.mark = op[k].mark, NEW own, CallHandler(k, y, engine, own),
               y.want_ = "output" /\ own => ~args[k].timer
        PROVE  /\ \A j \in IoOps \ {k} : op'[j] = op[j]
               /\ op'[k].pc = "idle" /\ (op'[k].cancelled => op[k].cancelled) /\ stopped' = stopped
               /\ op[k].cancelled => op'[k] = Idle /\ running' = Nobody
               /\ ~args[k].timer /\ args[k].ec # "none" => Broken'
               /\ promised'.own = promised.own \/ (promised'.own = op[k].mark /\ ~args[k].timer)
    <3>1. Over(k, y, engine)
      BY <1>1, <1>2, <2>2, CalledEnd
    <3>2. op'[k] = Idle /\ (\A j \in IoOps \ {k} : op'[j] = op[j]) /\ stopped' = stopped /\ running' = Nobody
      BY <2>2, <3>1 DEF Over, CallHandler
    <3>3. ~args[k].timer /\ args[k].ec # "none" => Broken'
      BY <1>9, <2>2, <3>1 DEF Over, Broken
    <3>4. promised'.own = promised.own \/ (promised'.own = op[k].mark /\ ~args[k].timer)
      <4>1. promised \in [own : Nat, waited : Nat]
        BY <1>1 DEF IoTypes, LoopTypes
      <4>2. \/ promised' = promised \/ promised' = [promised EXCEPT !.waited = y.mark]
            \/ promised' = [promised EXCEPT !.own = y.mark] /\ y.want_ = "output" /\ own
        BY <2>2 DEF CallHandler
      <4> QED BY <2>2, <4>1, <4>2
    <3> QED BY <3>2, <3>3, <3>4 DEF Idle
  <2>3. CASE op[k].want_ = "output" /\ CallHandler(k, z, engine, ~args[k].timer)
    BY <1>7, <2>2, <2>3
  <2>4. CASE op[k].want_ = "output_and_retry" /\ CallHandler(k, o, engine, TRUE)
    <3>1. o.mark = op[k].mark
      BY <1>2, <1>6 DEF IoOp
    <3> QED BY <1>7, <2>2, <2>4, <3>1
  <2> QED BY <1>8, <2>1, <2>3, <2>4
<1>11. \A j \in IoOps \ {k} :
         IF op[j].pc = "wait_write" /\ args[j] = NoArgs THEN args'[j] = TimerArgs ELSE args'[j] = args[j]
  <2>1. args' = [Released("wait_write") EXCEPT ![k] = NoArgs]
    BY DEF ResumeOutput
  <2> QED BY <2>1 DEF Released
<1> QED BY <1>2, <1>3, <1>10, <1>11 DEF Sent

LEMMA SentKeeps ==
  ASSUME OutputInv, SslNext, NEW k \in IoOps, Sent(k)
  PROVE  OutputKept
<1>1. InputInv /\ Apart /\ OutFits /\ Handlers /\ IoTypes /\ Control /\ Stream
  BY DEF OutputInv, InputInv
<1>2. /\ engine' = engine /\ overtaken' = overtaken /\ wire' = wire /\ output_buffer_' = output_buffer_
      /\ incoming' = incoming /\ stopped' = stopped /\ ~pending_write_' /\ op'[k].pc = "idle" /\ op[k].pc \in Senders
  BY DEF Sent
<1>3. /\ Broken => Broken'
      /\ AskDone' <=> AskDone
      /\ AskedAgain' <=> AskedAgain
  BY <1>1, <1>2, BrokenStays DEF AskDone, AskedAgain
<1>4. ASSUME NEW j \in IoOps, op'[j].pc \in Senders
      PROVE  /\ j # k /\ op'[j] = op[j]
             /\ args'[j] = args[j] \/ (op[j].pc = "wait_write" /\ args'[j] = TimerArgs)
  <2>1. j # k
    BY <1>2, <1>4 DEF Senders
  <2> QED BY <2>1 DEF Sent
<1>5. "writing" \in Senders /\ "wait_write" \in Senders
  BY DEF Senders
<1>6. ASSUME NEW j \in IoOps, op'[j].pc \in Senders PROVE {j, k} = {"read", "write"} /\ j # k
  <2>1. j # k /\ op[j].pc \in Senders
    BY <1>4, <1>6
  <2>2. Outstanding(j) /\ Outstanding(k)
    BY <1>1, <1>2, <2>1, SenderFacts DEF Senders
  <2> QED BY <1>1, <2>1, <2>2, Pairs
<1>7. OutFits'
  BY <1>1, <1>2 DEF OutFits
<1>12. ASSUME ~AskedAgain' PROVE Answering'
  <2>1. Answering /\ "read" \in IoOps /\ "write" \in IoOps
    BY <1>3, <1>12 DEF OutputInv, IoOps
  <2> QED BY <1>2, <1>3, <1>4, <1>5, <2>1 DEF Answering
<1>8. Handlers'
  <2>1. ASSUME NEW j \in IoOps, op'[j].pc = "wait_write"
        PROVE  j \in {"read", "write"} /\ (args'[j] # NoArgs => args'[j].timer)
    BY <1>1, <1>4, <1>5, <2>1 DEF Handlers, TimerArgs
  <2>2. ASSUME NEW j \in IoOps, op'[j].pc = "writing" PROVE ~args'[j].timer /\ op'[j].ec_ \in {"none", "ssl"}
    BY <1>1, <1>4, <1>5, <2>2 DEF Handlers
  <2>3. ASSUME NEW j \in IoOps, op'[j].cancelled PROVE stopped'
    <3>1. op[j].cancelled
      BY <2>3 DEF Sent
    <3> QED BY <1>1, <1>2, <3>1 DEF Handlers
  <2> QED BY <2>1, <2>2, <2>3 DEF Handlers
<1>9. Pending'
  <2>1. ASSUME NEW j \in IoOps, op'[j].pc = "wait_write" PROVE args'[j] # NoArgs
    <3>1. j # k /\ op'[j] = op[j]
      BY <1>4, <1>5, <2>1
    <3>2. IF op[j].pc = "wait_write" /\ args[j] = NoArgs THEN args'[j] = TimerArgs ELSE args'[j] = args[j]
      BY <3>1 DEF Sent
    <3> QED BY <2>1, <3>1, <3>2 DEF TimerArgs, NoArgs
  <2> QED BY <1>2, <2>1 DEF Pending
<1>10. ASSUME ~Exposed' PROVE Turns'
  <2>1. Turns
    BY <1>2, <1>3, <1>10 DEF OutputInv, Exposed
  <2>2. Alone("writing")'
    BY <1>4, <1>5, <2>1 DEF Turns, Alone
  <2>3. ASSUME NEW j \in IoOps, op'[j].pc = "writing"
        PROVE  \/ Broken' /\ \A i \in IoOps \ {j} : ~Outstanding(i)'
               \/ j = "write" /\ overtaken' /\ AskDone'
    <3>1. j # k /\ op[j].pc = "writing" /\ {j, k} = {"read", "write"}
      BY <1>4, <1>5, <1>6, <2>3
    <3>2. op[k].pc = "wait_write" /\ args[k] # NoArgs
      <4>1. op[k].pc # "writing"
        BY <2>1, <3>1 DEF Turns, Alone
      <4> QED BY <1>2, <4>1 DEF Sent, Senders
    <3>3. CASE op[k].cancelled
      <4>1. stopped' /\ op'[k] = Idle /\ running' = Nobody
        BY <1>1, <1>2, <3>3 DEF Sent, Handlers
      <4>2. ASSUME NEW i \in IoOps \ {j}, Outstanding(i)' PROVE FALSE
        <5>1. op'[i] # Idle
          BY <4>1, <4>2 DEF Outstanding, IoOps, Nobody
        <5>2. i # k /\ op'[i] = op[i]
          BY <4>1, <5>1 DEF Sent
        <5>3. Outstanding(i) /\ Outstanding(j)
          BY <1>1, <3>1, <5>1, <5>2, SenderFacts DEF Outstanding
        <5>4. {i, j} = {"read", "write"}
          BY <1>1, <5>3, Pairs
        <5> QED BY <3>1, <5>2, <5>4
      <4> QED BY <4>1, <4>2 DEF Broken
    <3>4. CASE k = "read" /\ overtaken
      <4>1. Answering
        BY <1>2, <1>3, <1>10, <3>4 DEF OutputInv, Exposed
      <4>2. AskDone /\ j = "write"
        BY <1>2, <3>1, <3>4, <4>1 DEF Answering
      <4> QED BY <1>2, <1>3, <3>4, <4>2
    <3> QED BY <2>1, <3>1, <3>2, <3>3, <3>4 DEF Turns
  <2>4. ASSUME NEW i \in IoOps, NEW j \in IoOps, op'[i].pc = "writing", op'[j].pc = "wait_write" PROVE FALSE
    <3>1. {i, k} = {"read", "write"} /\ {j, k} = {"read", "write"} /\ i # k /\ j # k
      BY <1>5, <1>6, <2>4
    <3>2. i = j
      BY <3>1
    <3> QED BY <2>4, <3>2
  <2> QED BY <2>2, <2>3, <2>4 DEF Turns
<1>11. ASSUME ~Broken', ~Exposed' PROVE Line'
  <2>1. Line
    BY <1>2, <1>3, <1>11 DEF OutputInv, Exposed
  <2>2. ASSUME NEW j \in IoOps, op'[j].pc = "writing" PROVE Carries(j)'
    <3>1. op'[j] = op[j] /\ args'[j] = args[j] /\ Carries(j)
      BY <1>4, <1>5, <2>1, <2>2 DEF Line
    <3> QED BY <1>2, <3>1 DEF Carries, Left, Behind
  <2>3. op[k].pc = "writing" => Behind(engine, Len(wire)) /\ op[k].mark <= Len(wire)
    <3>1. SUFFICES ASSUME op[k].pc = "writing" PROVE Behind(engine, Len(wire)) /\ op[k].mark <= Len(wire)
      OBVIOUS
    <3>2. ~args[k].timer /\ args[k] # NoArgs /\ args[k].ec = "none"
      BY <1>1, <1>11, <3>1 DEF Handlers, Sent
    <3>3. Carries(k) /\ Left(k) = 0
      BY <2>1, <3>1, <3>2 DEF Line, Carries
    <3>4. Len(wire) \in Nat /\ Len(wire) + 0 = Len(wire)
      BY <2>1 DEF Line
    <3> QED BY <3>3, <3>4 DEF Carries
  <2>4. (\A j \in IoOps : op'[j].pc # "writing") => Behind(engine, Len(wire))
    <3>1. (\A j \in IoOps : op'[j].pc # "writing") => \A j \in IoOps \ {k} : op[j].pc # "writing"
      BY DEF Sent
    <3> QED BY <2>1, <2>3, <3>1 DEF Line
  <2>5. promised'.own <= Len(wire)
    <3>1. CASE promised'.own = promised.own
      BY <2>1, <3>1 DEF Line
    <3>2. CASE promised'.own = op[k].mark /\ ~args[k].timer
      <4>1. op[k].pc = "writing"
        BY <1>1, <1>2, <3>2 DEF Handlers, Sent, Senders
      <4> QED BY <2>3, <3>2, <4>1
    <3> QED BY <3>1, <3>2 DEF Sent
  <2> QED BY <1>2, <2>1, <2>2, <2>4, <2>5 DEF Line, Behind
<1> QED BY <1>7, <1>8, <1>9, <1>10, <1>11, <1>12 DEF OutputKept

\* The transfer of k, or its wait, moves on.
Stirs(k) ==
    /\ op[k].pc \in Senders /\ UNCHANGED <<pending_write_, overtaken, output_buffer_, promised, engine>>
    /\ stopped => stopped'
    /\ \A j \in IoOps \ {k} : op'[j] = op[j] /\ args'[j] = args[j]
    /\ op'[k].pc = op[k].pc /\ op'[k].ec_ = op[k].ec_ /\ (op[k].cancelled => op'[k].cancelled)
    /\ op'[k].cancelled => op[k].cancelled \/ stopped'
    /\ \/ args'[k] = args[k]
       \/ /\ args'[k] # NoArgs /\ (args'[k].timer <=> op[k].pc = "wait_write")
          /\ op[k].pc = "wait_write" => op'[k].cancelled

LEMMA StirsKeeps ==
  ASSUME OutputInv, SslNext, NEW k \in IoOps, Stirs(k), ~Broken' /\ ~Exposed' => Line'
  PROVE  OutputKept
<1>1. InputInv /\ OutFits /\ Handlers /\ Pending /\ IoTypes /\ Control /\ Stream
  BY DEF OutputInv, InputInv
<1>2. /\ Broken => Broken'
      /\ AskDone => AskDone'
      /\ AskedAgain => AskedAgain'
      /\ UNCHANGED <<pending_write_, overtaken, engine>>
  BY <1>1, BrokenStays, AskStays, AgainStays DEF Stirs
<1>3. ASSUME NEW j \in IoOps PROVE op'[j].pc = op[j].pc /\ op'[j].ec_ = op[j].ec_ /\ (op[j].cancelled => op'[j].cancelled)
  <2>1. CASE j = k
    BY <2>1 DEF Stirs
  <2>2. CASE j # k
    BY <2>2 DEF Stirs
  <2> QED BY <2>1, <2>2
<1>4. ASSUME NEW j \in IoOps, op[j].pc = "wait_write", args'[j] # args[j]
      PROVE  args'[j] # NoArgs /\ op'[j].cancelled
  BY <1>4 DEF Stirs
<1>5. OutFits'
  BY <1>1, <1>2 DEF OutFits
<1>9. ASSUME ~AskedAgain' PROVE Answering'
  <2>1. Answering /\ "read" \in IoOps /\ "write" \in IoOps
    BY <1>2, <1>9 DEF OutputInv, IoOps
  <2> QED BY <1>2, <1>3, <2>1 DEF Answering
<1>6. Handlers'
  <2>1. ASSUME NEW j \in IoOps, op'[j].pc = "wait_write"
        PROVE  j \in {"read", "write"} /\ (args'[j] # NoArgs => args'[j].timer)
    <3>1. op[j].pc = "wait_write"
      BY <1>3, <2>1
    <3>2. j = k \/ args'[j] = args[j]
      BY DEF Stirs
    <3> QED BY <1>1, <3>1, <3>2 DEF Handlers, Stirs
  <2>2. ASSUME NEW j \in IoOps, op'[j].pc = "writing" PROVE ~args'[j].timer /\ op'[j].ec_ \in {"none", "ssl"}
    <3>1. op[j].pc = "writing" /\ op'[j].ec_ = op[j].ec_
      BY <1>3, <2>2
    <3>2. ~args'[j].timer
      <4>1. CASE args'[j] = args[j]
        BY <1>1, <3>1, <4>1 DEF Handlers
      <4>2. CASE args'[j] # args[j]
        <5>1. j = k
          BY <4>2 DEF Stirs
        <5>2. args'[k].timer <=> op[k].pc = "wait_write"
          BY <4>2, <5>1 DEF Stirs
        <5> QED BY <3>1, <5>1, <5>2
      <4> QED BY <4>1, <4>2
    <3> QED BY <1>1, <3>1, <3>2 DEF Handlers
  <2>3. ASSUME NEW j \in IoOps, op'[j].cancelled PROVE stopped'
    <3>1. op[j].cancelled \/ stopped'
      BY <2>3 DEF Stirs
    <3> QED BY <1>1, <3>1 DEF Handlers, Stirs
  <2> QED BY <2>1, <2>2, <2>3 DEF Handlers
<1>7. Pending'
  BY <1>1, <1>2, <1>3, <1>4 DEF Pending
<1>8. ASSUME ~Exposed' PROVE Turns'
  <2>1. Turns
    BY <1>2, <1>8 DEF OutputInv, Exposed
  <2>2. Alone("writing")'
    BY <1>3, <2>1 DEF Turns, Alone
  <2>3. ASSUME NEW j \in IoOps, op'[j].pc = "writing"
        PROVE  \/ pending_write_'
               \/ Broken' /\ \A i \in IoOps \ {j} : ~Outstanding(i)'
               \/ j = "write" /\ overtaken' /\ AskDone'
    <3>1. op[j].pc = "writing"
      BY <1>3, <2>3
    <3>2. CASE pending_write_
      BY <1>2, <3>2
    <3>3. CASE Broken /\ \A i \in IoOps \ {j} : ~Outstanding(i)
      BY <1>1, <1>2, <3>3, StaysOver
    <3>4. CASE j = "write" /\ overtaken /\ AskDone
      BY <1>2, <3>4
    <3> QED BY <2>1, <3>1, <3>2, <3>3, <3>4 DEF Turns
  <2>4. ASSUME NEW i \in IoOps, NEW j \in IoOps, op'[i].pc = "writing", op'[j].pc = "wait_write", args'[j] # NoArgs
        PROVE  op'[j].cancelled \/ (j = "read" /\ overtaken')
    <3>1. op[i].pc = "writing" /\ op[j].pc = "wait_write" /\ (op[j].cancelled => op'[j].cancelled)
      BY <1>3, <2>4
    <3>2. CASE args'[j] = args[j]
      BY <1>2, <2>1, <2>4, <3>1, <3>2 DEF Turns
    <3>3. CASE args'[j] # args[j]
      BY <1>4, <3>1, <3>3
    <3> QED BY <3>2, <3>3
  <2> QED BY <2>2, <2>3, <2>4 DEF Turns
<1> QED BY <1>5, <1>6, <1>7, <1>8, <1>9 DEF OutputKept

LEMMA WriteSomeKeeps ==
  ASSUME OutputInv, SslNext, NEW k \in IoOps, WriteSome(k)
  PROVE  OutputKept
<1>1. InputInv /\ IoTypes /\ Control
  BY DEF OutputInv, InputInv
<1>2. /\ op[k].pc = "writing" /\ args[k] = NoArgs
      /\ UNCHANGED <<pending_write_, overtaken, output_buffer_, promised, engine, ended, stopped>>
  BY DEF WriteSome, InTransfer, coreVars, programVars
<1>3. PICK n \in 1 .. op[k].size - op[k].moved :
         /\ wire' = wire \o [i \in 1 .. n |-> output_buffer_[op[k].moved + i]]
         /\ op' = [op EXCEPT ![k].moved = @ + n]
         /\ IF op'[k].moved = op[k].size THEN Arrives(k, 0, "none") ELSE UNCHANGED args
  BY DEF WriteSome
<1>4. op[k] \in IoOp /\ op \in [IoOps -> IoOp] /\ args \in [IoOps -> Args]
  BY <1>1 DEF IoTypes, LoopTypes, LayerTypes
<1>5. PICK m, s \in Nat : m = op[k].moved /\ s = op[k].size
  BY <1>4 DEF IoOp
<1>6. n \in Nat /\ n > 0 /\ m + n <= s /\ m \in Nat /\ s \in Nat
  <2>1. m \in Nat /\ s \in Nat /\ n \in 1 .. s - m
    BY <1>3, <1>5
  <2> QED BY <2>1
<1>7. PICK z : z = [op[k] EXCEPT !.moved = m + n]
  OBVIOUS
<1>8. /\ z.pc = "writing" /\ z.ec_ = op[k].ec_ /\ z.cancelled = op[k].cancelled /\ z.moved = m + n /\ z.size = s
      /\ z.mark = op[k].mark
  BY <1>2, <1>4, <1>5, <1>7 DEF IoOp
<1>9. op'[k] = z /\ \A j \in IoOps \ {k} : op'[j] = op[j]
  <2>1. op' = [op EXCEPT ![k] = z]
    BY <1>3, <1>5, <1>7
  <2> QED BY <1>4, <2>1
<1>10. /\ \A j \in IoOps \ {k} : args'[j] = args[j]
       /\ IF m + n = s THEN args'[k] = [n |-> 0, ec |-> "none", timer |-> FALSE] ELSE args'[k] = NoArgs
  <2>1. op'[k].moved = m + n /\ op[k].size = s
    BY <1>5, <1>8, <1>9
  <2>2. CASE m + n = s
    <3>1. Arrives(k, 0, "none")
      BY <1>3, <2>1, <2>2
    <3> QED BY <1>4, <2>2, <3>1 DEF Arrives
  <2>3. CASE m + n # s
    <3>1. args' = args
      BY <1>3, <2>1, <2>3
    <3> QED BY <1>2, <2>3, <3>1
  <2> QED BY <2>2, <2>3
<1>11. Stirs(k)
  BY <1>2, <1>8, <1>9, <1>10 DEF Stirs, NoArgs, Senders
<1>12. ASSUME ~Broken', ~Exposed' PROVE Line'
  <2>1. Line /\ Turns /\ Carries(k) /\ wire \in Seq(Nat) /\ promised \in [own : Nat, waited : Nat]
    <3>1. ~Exposed
      BY <1>1, <1>2, <1>12, AgainStays DEF Exposed
    <3> QED BY <1>1, <1>2, <1>12, <3>1 DEF OutputInv, Broken, Line, IoTypes, LoopTypes
  <2>2. PICK w \in Nat : w = Len(wire)
    BY <2>1
  <2>3. Left(k) = s - m /\ Left(k)' = s - (m + n) /\ s - m \in Nat /\ s - (m + n) \in Nat
    BY <1>5, <1>6, <1>8, <1>9 DEF Left
  <2>4. s <= Len(output_buffer_) /\ \A i \in 1 .. s - m : output_buffer_[m + i] = w + i
    BY <1>5, <2>1, <2>2, <2>3 DEF Carries
  <2>5. PICK moves \in Seq(Nat) : /\ moves = [i \in 1 .. n |-> output_buffer_[m + i]]
                                  /\ Len(moves) = n /\ \A i \in 1 .. n : moves[i] = w + i
    <3>1. \A i \in 1 .. n : i \in 1 .. s - m
      BY <1>6
    <3>2. \A i \in 1 .. n : output_buffer_[m + i] = w + i /\ w + i \in Nat
      <4>1. w \in Nat /\ n \in Nat
        BY <1>6, <2>2
      <4> QED BY <2>4, <3>1, <4>1
    <3>3. [i \in 1 .. n |-> output_buffer_[m + i]] \in Seq(Nat)
      BY <1>6, <3>2
    <3>4. PICK q \in Seq(Nat) : q = [i \in 1 .. n |-> output_buffer_[m + i]]
      BY <3>3
    <3>5. Len(q) = n /\ \A i \in 1 .. n : q[i] = w + i
      <4>1. n \in Nat
        BY <1>6
      <4>2. Len([i \in 1 .. n |-> output_buffer_[m + i]]) = n
        BY <3>3, <4>1
      <4>3. \A i \in 1 .. n : q[i] = output_buffer_[m + i]
        BY <3>4
      <4> QED BY <3>2, <3>4, <4>2, <4>3
    <3> QED BY <3>4, <3>5
  <2>6. /\ wire' \in Seq(Nat) /\ Len(wire') = w + n
        /\ \A i \in 1 .. w + n : wire'[i] = i
    <3>1. \A a, b \in Seq(Nat) : /\ a \o b \in Seq(Nat) /\ Len(a \o b) = Len(a) + Len(b)
                                 /\ \A i \in 1 .. Len(a) + Len(b) :
                                      (a \o b)[i] = IF i <= Len(a) THEN a[i] ELSE b[i - Len(a)]
      BY ConcatProperties
    <3>2. wire' = wire \o moves
      BY <1>3, <1>5, <2>5
    <3>3. /\ wire' \in Seq(Nat) /\ Len(wire') = w + n
          /\ \A i \in 1 .. w + n : wire'[i] = IF i <= w THEN wire[i] ELSE moves[i - w]
      BY <2>1, <2>2, <2>5, <3>1, <3>2
    <3>4. ASSUME NEW i \in 1 .. w + n PROVE wire'[i] = i
      <4>1. CASE i <= w
        BY <2>1, <2>2, <3>3, <4>1 DEF Line
      <4>2. CASE i > w
        <5>1. i - w \in 1 .. n /\ w + (i - w) = i
          BY <1>6, <4>2
        <5>2. moves[i - w] = w + (i - w)
          BY <2>5, <5>1
        <5> QED BY <3>3, <4>2, <5>1, <5>2
      <4> QED BY <1>6, <4>1, <4>2
    <3> QED BY <3>3, <3>4
  <2>7. Carries(k)'
    <3>1. op'[k].size <= Len(output_buffer_')
      BY <1>2, <1>8, <1>9, <2>4
    <3>2. ASSUME NEW i \in 1 .. s - (m + n) PROVE output_buffer_'[op'[k].moved + i] = Len(wire') + i
      <4>1. n + i \in 1 .. s - m /\ m + (n + i) = (m + n) + i /\ w + (n + i) = (w + n) + i
        BY <1>6, <2>2
      <4>2. output_buffer_[m + (n + i)] = w + (n + i)
        BY <2>4, <4>1
      <4> QED BY <1>2, <1>8, <1>9, <2>6, <4>1, <4>2
    <3>3. Behind(engine, w + (s - m)) /\ op[k].mark <= w + (s - m)
      BY <2>1, <2>2, <2>3 DEF Carries
    <3>4. Len(wire') + (s - (m + n)) = w + (s - m)
      BY <1>6, <2>6
    <3>5. Behind(engine', Len(wire') + (s - (m + n))) /\ op'[k].mark <= Len(wire') + (s - (m + n))
      BY <1>2, <1>8, <1>9, <3>3, <3>4
    <3>6. args'[k] # NoArgs => s - (m + n) = 0
      BY <1>6, <1>10
    <3> QED BY <2>3, <3>1, <3>2, <3>5, <3>6 DEF Carries
  <2>8. ASSUME NEW j \in IoOps, op'[j].pc = "writing" PROVE j = k
    <3>1. SUFFICES ASSUME j # k PROVE FALSE
      OBVIOUS
    <3>2. op[j].pc = "writing"
      BY <1>9, <2>8, <3>1
    <3> QED BY <1>2, <2>1, <3>1, <3>2 DEF Turns, Alone
  <2>9. promised'.own <= Len(wire')
    <3>1. promised.own \in Nat /\ promised.own <= w
      BY <2>1, <2>2 DEF Line
    <3>2. PICK p \in Nat : p = promised.own /\ p <= w
      BY <3>1
    <3>3. p <= w + n
      BY <1>6, <2>2, <3>2
    <3>4. promised'.own = p /\ Len(wire') = w + n
      BY <1>2, <2>6, <3>2
    <3> QED BY <3>3, <3>4
  <2>10. op'[k].pc = "writing"
    BY <1>8, <1>9
  <2> QED BY <2>6, <2>7, <2>8, <2>9, <2>10 DEF Line
<1> QED BY <1>11, <1>12, StirsKeeps

\* A transfer fails, or its operation is cancelled.
LEMMA FailsKeeps ==
  ASSUME OutputInv, SslNext, NEW k \in IoOps, TransferFails(k)
  PROVE  OutputKept
<1>1. IoTypes /\ args \in [IoOps -> Args] /\ op \in [IoOps -> IoOp] /\ InputInv
  BY DEF OutputInv, InputInv, IoTypes, LoopTypes, LayerTypes
<1>2. /\ op' = op /\ args[k] = NoArgs /\ op[k].pc \in {"reading", "writing"}
      /\ UNCHANGED <<pending_write_, overtaken, output_buffer_, engine, wire, promised, stopped, ended>>
      /\ args' = [args EXCEPT ![k] = [n |-> 0, ec |-> "error", timer |-> FALSE]]
  BY DEF TransferFails, InTransfer, Arrives, coreVars, programVars
<1>3. /\ args'[k] = [n |-> 0, ec |-> "error", timer |-> FALSE]
      /\ \A j \in IoOps \ {k} : op'[j] = op[j] /\ args'[j] = args[j]
  BY <1>1, <1>2
<1>4. CASE op[k].pc = "reading"
  <2>1. Aside(k)
    BY <1>2, <1>4 DEF Aside, Senders
  <2>2. Calm
    BY <1>1, <1>2, <1>3, <2>1, CalmFacts
  <2> QED BY <2>2, CalmKeeps
<1>5. CASE op[k].pc = "writing"
  <2>1. Stirs(k)
    BY <1>2, <1>3, <1>5 DEF Stirs, Senders, NoArgs
  <2>2. ASSUME ~Broken', ~Exposed' PROVE Line'
    <3>1. Line
      <4>1. ~Exposed
        BY <1>1, <1>2, <2>2, AgainStays DEF Exposed
      <4> QED BY <1>2, <2>2, <4>1 DEF OutputInv, Broken
    <3>2. ASSUME NEW j \in IoOps, op'[j].pc = "writing" PROVE Carries(j)'
      <4>1. Carries(j) /\ op'[j] = op[j]
        BY <1>2, <3>1, <3>2 DEF Line
      <4>2. args'[j] # NoArgs /\ args'[j].ec = "none" => args'[j] = args[j]
        BY <1>3
      <4> QED BY <1>2, <4>1, <4>2 DEF Carries, Left, Behind
    <3> QED BY <1>2, <3>1, <3>2 DEF Line, Behind
  <2> QED BY <2>1, <2>2, StirsKeeps
<1> QED BY <1>2, <1>4, <1>5

LEMMA CancelKeeps ==
  ASSUME OutputInv, SslNext, NEW k \in IoOps, Cancel(k)
  PROVE  OutputKept
<1>1. IoTypes /\ args \in [IoOps -> Args] /\ op \in [IoOps -> IoOp] /\ Control
  BY DEF OutputInv, InputInv, IoTypes, LoopTypes, LayerTypes
<1>2. /\ op' = [op EXCEPT ![k].cancelled = TRUE] /\ stopped'
      /\ UNCHANGED <<pending_write_, overtaken, output_buffer_, engine, wire, promised, ended>>
  BY DEF Cancel, coreVars
<1>3. PICK z : z = [op[k] EXCEPT !.cancelled = TRUE]
  OBVIOUS
<1>4. z.pc = op[k].pc /\ z.ec_ = op[k].ec_ /\ z.cancelled
  BY <1>1, <1>3 DEF IoOp
<1>5. /\ op'[k] = z
      /\ \A j \in IoOps \ {k} : op'[j] = op[j] /\ args'[j] = args[j]
  <2>1. op' = [op EXCEPT ![k] = z]
    BY <1>2, <1>3
  <2>2. args' = args \/ \E a : args' = [args EXCEPT ![k] = a]
    BY DEF Cancel
  <2> QED BY <1>1, <2>1, <2>2
<1>6. CASE op[k].pc \notin Senders
  <2>1. Aside(k)
    BY <1>2, <1>4, <1>5, <1>6 DEF Aside
  <2>2. Calm
    BY <1>1, <1>2, <1>5, <2>1, CalmFacts
  <2> QED BY <2>2, CalmKeeps
<1>7. CASE op[k].pc \in Senders
  <2>1. \/ args'[k] = args[k]
        \/ args'[k] # NoArgs /\ (args'[k].timer <=> op[k].pc = "wait_write")
    <3>1. CASE args[k] # NoArgs
      BY <3>1 DEF Cancel
    <3>2. CASE args[k] = NoArgs /\ op[k].pc = "wait_write"
      <4>1. args' = [args EXCEPT ![k] = TimerArgs]
        BY <3>2 DEF Cancel
      <4> QED BY <1>1, <3>2, <4>1 DEF TimerArgs, NoArgs
    <3>3. CASE args[k] = NoArgs /\ op[k].pc = "writing"
      <4>1. args' = [args EXCEPT ![k] = [n |-> 0, ec |-> "aborted", timer |-> FALSE]]
        BY <3>3 DEF Cancel
      <4> QED BY <1>1, <3>3, <4>1 DEF NoArgs
    <3> QED BY <1>7, <3>1, <3>2, <3>3 DEF Senders
  <2>2. Stirs(k)
    BY <1>2, <1>4, <1>5, <1>7, <2>1 DEF Stirs
  <2>3. Broken'
    BY <1>2 DEF Broken
  <2> QED BY <2>2, <2>3, StirsKeeps
<1> QED BY <1>6, <1>7

\* What else the next layer, the peer and the program do.
LEMMA OthersKeep ==
  ASSUME OutputInv, SslNext, NEW k \in IoOps,
         ReadSome(k) \/ ReadNothing(k) \/ Start(k) \/ PeerSends \/ PeerGone
  PROVE  OutputKept
<1>1. IoTypes /\ args \in [IoOps -> Args] /\ Control
  BY DEF OutputInv, InputInv, IoTypes, LayerTypes
<1>2. /\ op' = op
      /\ UNCHANGED <<pending_write_, overtaken, output_buffer_, engine, wire, promised, stopped>>
  BY DEF ReadSome, ReadNothing, Start, PeerSends, PeerGone, coreVars, programVars, ioVars
<1>3. CASE ReadSome(k) \/ ReadNothing(k)
  <2>1. op[k].pc \in {"reading", "posted"} /\ \E a : args' = [args EXCEPT ![k] = a]
    BY <1>3 DEF ReadSome, ReadNothing, InTransfer, Arrives
  <2>2. Aside(k) /\ \A j \in IoOps \ {k} : args'[j] = args[j]
    BY <1>1, <1>2, <2>1 DEF Aside, Senders
  <2>3. Calm
    BY <1>1, <1>2, <2>2, CalmFacts
  <2> QED BY <2>3, CalmKeeps
<1>4. CASE Start(k) \/ PeerSends \/ PeerGone
  <2>1. args' = args
    BY <1>4 DEF Start, PeerSends, PeerGone, ioVars
  <2>2. Calm
    BY <1>2, <2>1 DEF Calm
  <2> QED BY <2>2, CalmKeeps
<1> QED BY <1>3, <1>4

LEMMA OutputStep ==
  ASSUME Bounded, OutputInv, [SslNext]_sslVars
  PROVE  OutputInv'
<1>1. InputInv' /\ "early_shutdown" \notin Uses
  BY InputStep DEF OutputInv, Bounded
<1>2. CASE SslNext
  <2>1. Apart'
    BY <1>2, ApartStep DEF OutputInv
  <2>2. OutputKept
    <3>1. "read" \in IoOps
      BY DEF IoOps
    <3>2. ASSUME NEW k \in IoOps, LoopStep(k) PROVE OutputKept
      <4>1. CASE Try(k)
        BY <1>2, <4>1, TryKeeps
      <4>2. CASE Resume(k)
        <5>1. CASE ResumeOutput(k)
          BY <1>2, <4>2, <5>1, SentFacts, SentKeeps
        <5>2. CASE ResumeInput(k) \/ ResumePosted(k)
          BY <1>2, <4>2, <5>2, ResumeCalm, CalmKeeps
        <5> QED BY <4>2, <5>1, <5>2 DEF Resume
      <4> QED BY <3>2, <4>1, <4>2 DEF LoopStep
    <3>3. ASSUME NEW k \in IoOps, Transfer(k) PROVE OutputKept
      BY <1>2, <3>3, WriteSomeKeeps, OthersKeep DEF Transfer
    <3>4. ASSUME NEW k \in IoOps, TransferFails(k) \/ Start(k) \/ Cancel(k) PROVE OutputKept
      BY <1>2, <3>4, FailsKeeps, OthersKeep, CancelKeeps
    <3>5. CASE PeerSends \/ PeerGone
      BY <1>2, <3>1, <3>5, OthersKeep
    <3> QED BY <1>2, <3>2, <3>3, <3>4, <3>5 DEF SslNext
  <2> QED BY <1>1, <2>1, <2>2 DEF OutputKept, OutputInv
<1>3. CASE UNCHANGED sslVars
  <2> USE <1>3 DEF sslVars, ioVars, coreVars, peerVars, programVars
  <2>1. Apart'
    BY DEF OutputInv, Apart, Outstanding
  <2>2. /\ OutFits' /\ Pending'
        /\ (AskDone' <=> AskDone) /\ (Exposed' <=> Exposed)
        /\ ~AskedAgain' => Answering'
    BY DEF OutputInv, OutFits, Pending, Answering, AskDone, AskedAgain, Exposed
  <2>3. Handlers'
    BY DEF OutputInv, Handlers
  <2>4. ~Exposed' => Turns'
    BY <2>2 DEF OutputInv, Turns, Alone, Broken, Outstanding
  <2>5. ~Broken' /\ ~Exposed' => Line'
    BY <2>2 DEF OutputInv, Line, Carries, Left, Behind, Broken
  <2> QED BY <1>1, <2>1, <2>2, <2>3, <2>4, <2>5 DEF OutputInv
<1> QED BY <1>2, <1>3

LEMMA OutputInit ==
  ASSUME SslInit PROVE OutputInv
<1>1. InputInv
  BY InputInit
<1>2. /\ \A k \in IoOps : op[k] = Idle /\ args[k] = NoArgs
      /\ running = Nobody /\ ~pending_write_ /\ wire = <<>> /\ promised.own = 0
      /\ engine.out = <<>> /\ engine.made = 0
  BY DEF SslInit
<1>3. Idle.pc = "idle" /\ ~Idle.cancelled
  BY DEF Idle
<1>4. "shutdown" \in IoOps /\ "read" \in IoOps /\ "write" \in IoOps
  BY DEF IoOps
<1>5. wire \in Seq(Nat) /\ Len(wire) = 0 /\ Len(engine.out) = 0
  BY <1>2
<1>6. Apart
  BY <1>2, <1>4 DEF Apart, Outstanding, Nobody
<1>7. OutFits /\ Answering
  BY <1>2, <1>3, <1>4, <1>5, SslAssumption DEF OutFits, Answering, Senders, SslAssumption
<1>8. Handlers
  BY <1>2, <1>3 DEF Handlers
<1>9. Pending /\ Turns
  BY <1>2, <1>3 DEF Pending, Turns, Alone
<1>10. Line
  BY <1>2, <1>3, <1>5 DEF Line, Behind
<1> QED BY <1>1, <1>6, <1>7, <1>8, <1>9, <1>10 DEF OutputInv

LEMMA OutputFromInv ==
  ASSUME OutputInv PROVE OutputInOrder
<1>1. Alone("reading")
  <2>1. SUFFICES ASSUME NEW j \in IoOps, NEW k \in IoOps, op[j].pc = "reading", op[k].pc = "reading"
                 PROVE  j = k
    BY DEF Alone
  <2>2. InputInv /\ Control
    BY DEF OutputInv, InputInv
  <2>3. Outstanding(j) /\ Outstanding(k)
    BY <2>1, <2>2, SenderFacts
  <2>4. j \in Readers /\ k \in Readers
    BY <2>1, <2>2 DEF Control, Fit, Readers
  <2> QED BY <2>2, <2>3, <2>4 DEF Control
<1>2. ~Exposed => Alone("writing")
  BY DEF OutputInv, Turns
<1>3. ~Broken /\ ~Exposed => (\A i \in 1 .. Len(wire) : wire[i] = i) /\ promised.own <= Len(wire)
  BY DEF OutputInv, Line
<1> QED BY <1>1, <1>2, <1>3 DEF OutputInOrder, OneTransfer

\* For any buffers that hold what the engine can make, and whatever the peer asks: until it has
\* asked a second time and an operation has begun to write before one that had been let go has
\* run, there is one write on the next layer at a time, the units go out once and in the order
\* in which the engine made them, and what is reported as sent has gone out.
THEOREM OutputLeavesInOrder ==
  ASSUME "early_shutdown" \notin Uses, BioSize <= BufferSize
  PROVE  SslSpec => []OutputInOrder
<1>0. Bounded
  BY DEF Bounded
<1>1. SslInit => OutputInv
  BY OutputInit
<1>2. OutputInv /\ [SslNext]_sslVars => OutputInv'
  BY <1>0, OutputStep
<1>3. OutputInv => OutputInOrder
  BY OutputFromInv
<1> QED BY <1>1, <1>2, <1>3, PTL DEF SslSpec
=============================================================================
