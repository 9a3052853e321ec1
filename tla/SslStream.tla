----------------------------- MODULE SslStream -----------------------------
(***************************************************************************)
(* The asynchronous operations of an ssl::stream (ssl/detail/io.hpp,       *)
(* stream_core.hpp, impl/engine.ipp).                                      *)
(*                                                                         *)
(* An operation asks the engine what it wants until it is done: input is   *)
(* read from the next layer into input_buffer_, output is written from     *)
(* output_buffer_.  Each buffer exists once, so two timers that never fire *)
(* serve as locks: whoever starts a transfer sets the expiry of pending_   *)
(* to infinity, others wait on the timer, and the end of the transfer sets *)
(* the expiry back, which cancels the waits.                               *)
(*                                                                         *)
(* All calls and handlers of one stream run in one strand, so a step is    *)
(* one pass through the loop of io_op::operator(); the next layer and the  *)
(* peer act at any time.  A unit is a fragment of a TLS record; units the  *)
(* peer sends are numbered by their place in incoming, units the engine    *)
(* makes by the order in which it makes them.  The engine is OpenSSL, and  *)
(* it is modelled from what perform() distinguishes.                       *)
(***************************************************************************)
EXTENDS Integers, Sequences, FiniteSets

CONSTANTS
    BufferSize,    \* units of input_buffer_ and output_buffer_
    BioSize,       \* units of each direction of the BIO pair
    MaxIn,         \* bound on the units the peer sends
    MaxAsks,       \* bound on the units among them that the engine must answer
    MaxWrites,     \* bound on the write operations of the program
    Uses           \* what the program, the peer and the next layer do

ASSUME SslAssumption ==
    /\ BufferSize \in Nat \ {0} /\ BioSize \in Nat \ {0}
    /\ MaxIn \in Nat /\ MaxAsks \in Nat /\ MaxWrites \in Nat
    /\ Uses \subseteq {"duplex", "early_shutdown", "cancel", "error", "eof"}

\* One operation of each kind at a time.
IoOps == {"handshake", "read", "write", "shutdown"}
NoArgs == [n |-> 0, ec |-> "nothing", timer |-> FALSE]
TimerArgs == [n |-> 0, ec |-> "aborted", timer |-> TRUE]
Nobody == "nobody"

VARIABLES
    op,                  \* per operation: an io_op and the transfer it has started
    args,                \* per operation: the arguments of its queued handler
    running, start_,     \* the operation in the loop, and whether it is being initiated
    pending_read_, pending_write_,                   \* TRUE: the expiry is pos_infin
    overtaken,           \* history: pending_write_ was set before one it had let go has run
    input_buffer_, input_, output_buffer_,           \* input_: the part not yet consumed
    engine,
    incoming, received, gone,   \* the peer: units sent, units read; it has closed the connection
    wire,                    \* the units written
    writes, given, ended, promised, stopped    \* history of the program

ioVars == <<op, args, running, start_>>
coreVars == <<pending_read_, pending_write_, overtaken, input_buffer_, input_, output_buffer_>>
peerVars == <<incoming, received, gone>>
programVars == <<writes, given, ended, promised, stopped>>
sslVars == <<ioVars, coreVars, engine, peerVars, wire, programVars>>

-----------------------------------------------------------------------------
Idle == [pc |-> "idle", want_ |-> "nothing", ec_ |-> "none", bytes_transferred_ |-> 0,
         cancelled |-> FALSE, mark |-> 0, size |-> 0, moved |-> 0]

SslInit ==
    /\ op = [k \in IoOps |-> Idle] /\ args = [k \in IoOps |-> NoArgs]
    /\ running = Nobody /\ start_ = FALSE
    /\ pending_read_ = FALSE /\ pending_write_ = FALSE /\ overtaken = FALSE
    /\ input_buffer_ = <<>> /\ input_ = [first |-> 1, last |-> 0] /\ output_buffer_ = <<>>
    /\ \E hello \in 0 .. 1 :       \* a client speaks first
         engine = [in |-> <<>>, out |-> <<>>, eaten |-> 0, made |-> 0, hello |-> hello,
                   sent_close |-> FALSE, got_close |-> FALSE]
    /\ incoming = <<>> /\ received = 0 /\ gone = FALSE
    /\ wire = <<>> /\ writes = 0 /\ given = 0 /\ ended = [k \in IoOps |-> "none"]
    /\ promised = [own |-> 0, waited |-> 0]
    /\ stopped = FALSE

-----------------------------------------------------------------------------
(* The engine.                                                             *)

UpTo(n, s) == [i \in 1 .. (IF n < Len(s) THEN n ELSE Len(s)) |-> s[i]]
From(n, s) == SubSeq(s, n, Len(s))

\* The input that ends a call, and how many units the call consumes.
Answers(k) == IF k = "handshake" THEN {"hello"} ELSE {"data", "close"}
Found(k) == {i \in 1 .. Len(engine.in) : incoming[engine.in[i]] \in Answers(k)}
Eaten(k) == IF Found(k) = {} THEN Len(engine.in) ELSE CHOOSE i \in Found(k) : \A j \in Found(k) : i <= j
Answer(k) == IF Found(k) = {} THEN "nothing" ELSE incoming[engine.in[Eaten(k)]]
AsksIn(k) == Cardinality({i \in 1 .. Eaten(k) : incoming[engine.in[i]] = "ask"})

\* The engine after a call that consumes n units and makes m.
After(n, m) == [engine EXCEPT !.in = From(n + 1, @), !.eaten = @ + n, !.made = @ + m,
                              !.out = @ \o [i \in 1 .. m |-> engine.made + i]]

\* The BIO has no room for m units: nothing happens until some have been taken out.
Full(m) == Len(engine.out) + m > BioSize
WantWrite == [eng |-> engine, made |-> 0, says |-> "want_write", bytes |-> 0]

\* SSL_connect, SSL_accept: the client speaks first, and each side hears the other.
Handshake ==
    LET done == Answer("handshake") = "hello"
        m == IF done \/ engine.hello = 0 THEN 1 ELSE 0
    IN  [eng |-> [After(Eaten("handshake"), m) EXCEPT !.hello = IF done THEN 2 ELSE 1],
         made |-> m, says |-> IF done THEN "ok" ELSE "want_read", bytes |-> 0]

\* SSL_read: stops at a complete record, and answers what the peer has asked before it.
Read ==
    LET m == IF engine.sent_close THEN 0 ELSE AsksIn("read")
        closed == engine.got_close \/ Answer("read") = "close"
        data == ~closed /\ Answer("read") = "data"
    IN  IF engine.got_close THEN [eng |-> engine, made |-> 0, says |-> "zero_return", bytes |-> 0]
        ELSE IF m > 0 /\ Full(m) THEN WantWrite
        ELSE [eng |-> [After(Eaten("read"), m) EXCEPT !.got_close = closed], made |-> m,
              says |-> IF closed THEN "zero_return" ELSE IF data THEN "ok" ELSE "want_read",
              bytes |-> IF data THEN 1 ELSE 0]

\* SSL_write: makes a record.
Write ==
    IF Full(1) THEN WantWrite ELSE [eng |-> After(0, 1), made |-> 1, says |-> "ok", bytes |-> 1]

\* do_shutdown: the first SSL_shutdown notifies the peer, the second looks for its answer.
ShutDown ==
    LET m == IF engine.sent_close THEN 0 ELSE 1
        closed == engine.got_close \/ Answer("shutdown") = "close"
    IN  IF m > 0 /\ Full(m) THEN WantWrite
        ELSE [eng |-> [After(IF engine.got_close THEN 0 ELSE Eaten("shutdown"), m)
                         EXCEPT !.sent_close = TRUE, !.got_close = closed],
              made |-> m,
              says |-> IF closed THEN "ok"
                       ELSE IF Answer("shutdown") = "data" THEN "fail" ELSE "want_read",
              bytes |-> 0]

Call(k) == CASE k = "handshake" -> Handshake [] k = "read" -> Read
             [] k = "write" -> Write [] k = "shutdown" -> ShutDown

\* perform: what the stream is to do after a call.
WantOf(r) ==
    IF r.says = "fail" THEN IF r.made > 0 THEN "output" ELSE "nothing"
    ELSE IF r.says = "want_write" THEN "output_and_retry"
    ELSE IF r.made > 0 THEN IF r.says = "ok" THEN "output" ELSE "output_and_retry"
    ELSE IF r.says = "want_read" THEN "input_and_retry" ELSE "nothing"
ErrorOf(r) ==
    IF r.says = "fail" THEN "ssl"
    ELSE IF r.says = "zero_return" /\ r.made = 0 THEN "eof" ELSE "none"

\* map_error_code: an end of file without the peer's notification is an error.
Mapped(eng, e) == IF e = "eof" /\ (eng.in # <<>> \/ ~eng.got_close) THEN "truncated" ELSE e

\* put_input(input_): the engine e takes what fits and input_ keeps the rest.
Room(e) == LET free == BioSize - Len(e.in) IN IF free > 0 THEN free ELSE 0
Fits(e, view) == LET n == view.last + 1 - view.first IN IF n < Room(e) THEN n ELSE Room(e)
WithInput(e, view, buffer) ==
    [e EXCEPT !.in = @ \o [i \in 1 .. Fits(e, view) |-> buffer[view.first + i - 1]]]
\* mutant: what does not fit is forgotten
AllGone(e, view) == [first |-> 1, last |-> 0]
Unconsumed(e, view) == [view EXCEPT !.first = @ + Fits(e, view)]

-----------------------------------------------------------------------------
(* io_op.                                                                  *)

\* expires_at() of a pending_ timer: the waits on it end, whatever its new expiry.
Released(pc) == [k \in IoOps |-> IF op[k].pc = pc /\ args[k] = NoArgs THEN TimerArgs
                                 ELSE args[k]]

\* call_handler: the program sees the end of k, with what the engine knows at that moment;
\* an end of file is the success of a shutdown.
CallHandler(k, o, eng, own) ==
    LET e == Mapped(eng, o.ec_)
    IN  /\ op' = [op EXCEPT ![k] = Idle] /\ running' = Nobody /\ start_' = FALSE
        /\ ended' = [ended EXCEPT ![k] =
                       IF e = "none" \/ (k = "shutdown" /\ e = "eof") THEN "success" ELSE e]
        /\ given' = given + IF k = "read" /\ e = "none" THEN o.bytes_transferred_ ELSE 0
        /\ promised' = IF e # "none" \/ o.want_ # "output" THEN promised
                       ELSE IF own THEN [promised EXCEPT !.own = o.mark]
                       ELSE [promised EXCEPT !.waited = o.mark]
        /\ UNCHANGED <<writes, stopped>>

\* The operation leaves the loop and waits for its next handler.
Yields(k, o) ==
    /\ op' = [op EXCEPT ![k] = o] /\ running' = Nobody /\ start_' = FALSE
    /\ UNCHANGED programVars

AlwaysFree(pending) == TRUE          \* mutant: the expiry is not looked at
Free(pending) == ~pending

\* want_input_and_retry
InputLeft(k, o, eng) ==
    /\ input_.first <= input_.last
    /\ engine' = WithInput(eng, input_, input_buffer_) /\ input_' = Unconsumed(eng, input_)
    /\ op' = [op EXCEPT ![k] = o]
    /\ UNCHANGED <<args, running, start_, pending_read_, pending_write_, overtaken, input_buffer_,
                   output_buffer_, programVars>>
StartReading(k, o, eng) ==
    /\ input_.first > input_.last /\ Free(pending_read_)
    /\ pending_read_' = TRUE /\ args' = Released("wait_read")
    /\ engine' = eng /\ Yields(k, [o EXCEPT !.pc = "reading"])
    /\ UNCHANGED <<pending_write_, overtaken, input_buffer_, input_, output_buffer_>>
WaitToRead(k, o, eng) ==
    /\ input_.first > input_.last /\ ~Free(pending_read_)
    /\ engine' = eng /\ Yields(k, [o EXCEPT !.pc = "wait_read"])
    /\ UNCHANGED <<args, coreVars>>

\* k no longer waits to write, and has not run yet.
LetGo(k) == op[k].pc = "wait_write" /\ args[k] # NoArgs /\ ~op[k].cancelled

\* want_output, want_output_and_retry; get_output takes what the buffer holds.
Overwritten(buffer, s) == s \o From(Len(s) + 1, buffer)
StartWriting(k, o, eng) ==
    /\ Free(pending_write_)
    /\ pending_write_' = TRUE /\ args' = Released("wait_write")
    /\ overtaken' = (overtaken \/ \E j \in IoOps : LetGo(j))
    /\ LET s == UpTo(BufferSize, eng.out)
       IN  /\ output_buffer_' = Overwritten(output_buffer_, s)
           /\ engine' = [eng EXCEPT !.out = From(Len(s) + 1, @)]
           /\ Yields(k, [o EXCEPT !.pc = "writing", !.size = Len(s), !.moved = 0])
    /\ UNCHANGED <<pending_read_, input_buffer_, input_>>
WaitToWrite(k, o, eng) ==
    /\ ~Free(pending_write_)
    /\ engine' = eng /\ Yields(k, [o EXCEPT !.pc = "wait_write"])
    /\ UNCHANGED <<args, coreVars>>

\* Nothing is wanted: the handler is called, or, inside the initiating function, posted
\* by a read of no bytes.
Done(k, o, eng) ==
    /\ engine' = eng
    /\ IF start_ THEN Yields(k, [o EXCEPT !.pc = "posted"]) ELSE CallHandler(k, o, eng, TRUE)
    /\ UNCHANGED <<args, coreVars>>

Try(k) ==
    /\ running = k
    /\ LET r == Call(k)
           o == [op[k] EXCEPT !.want_ = WantOf(r), !.ec_ = ErrorOf(r), !.mark = r.eng.made,
                              !.bytes_transferred_ = IF r.says = "ok" THEN r.bytes ELSE @]
       IN  \/ /\ o.want_ = "input_and_retry"
              /\ InputLeft(k, o, r.eng) \/ StartReading(k, o, r.eng) \/ WaitToRead(k, o, r.eng)
           \/ /\ o.want_ \in {"output", "output_and_retry"}
              /\ StartWriting(k, o, r.eng) \/ WaitToWrite(k, o, r.eng)
           \/ o.want_ = "nothing" /\ Done(k, o, r.eng)
    /\ UNCHANGED <<peerVars, wire>>

\* The error an operation goes on with: its own, its transfer's, or a cancellation.
\* mutant: the error of the transfer is dropped
ErrorForgotten(k) ==
    IF op[k].cancelled /\ op[k].want_ \in {"input_and_retry", "output_and_retry"} THEN "aborted"
    ELSE op[k].ec_
ErrorAfter(k) ==
    LET e == IF args[k].timer \/ op[k].ec_ # "none" THEN op[k].ec_ ELSE args[k].ec
    IN  IF op[k].cancelled /\ op[k].want_ \in {"input_and_retry", "output_and_retry"} THEN "aborted"
        ELSE e

\* Round the loop again, or out of it with an error.
Continue(k, eng) ==
    LET o == [op[k] EXCEPT !.ec_ = ErrorAfter(k), !.pc = "idle"]
    IN  IF o.ec_ = "none"
        THEN /\ op' = [op EXCEPT ![k] = o] /\ running' = k /\ start_' = FALSE
             /\ UNCHANGED programVars
        ELSE CallHandler(k, o, eng, TRUE)

\* The handler of a transfer or of a wait runs: it passes on what has been read, lets
\* the others go, and tries again or is done.  A wait that has ended looks like a
\* transfer of no bytes.
ResumeInput(k) ==
    /\ op[k].want_ = "input_and_retry"
    /\ LET view == [first |-> 1, last |-> args[k].n]
       IN  /\ engine' = WithInput(engine, view, input_buffer_)
           /\ input_' = Unconsumed(engine, view)
           /\ Continue(k, engine')
    /\ pending_read_' = FALSE
    /\ args' = [Released("wait_read") EXCEPT ![k] = NoArgs]
    /\ UNCHANGED <<pending_write_, overtaken, input_buffer_, output_buffer_>>

ResumeOutput(k) ==
    /\ op[k].want_ \in {"output", "output_and_retry"}
    /\ IF op[k].want_ = "output"
       THEN CallHandler(k, [op[k] EXCEPT !.ec_ = ErrorAfter(k)], engine, ~args[k].timer)
       ELSE Continue(k, engine)
    /\ pending_write_' = FALSE
    /\ args' = [Released("wait_write") EXCEPT ![k] = NoArgs]
    /\ UNCHANGED <<engine, pending_read_, overtaken, input_buffer_, input_, output_buffer_>>

ResumePosted(k) ==
    /\ op[k].want_ = "nothing"
    /\ CallHandler(k, [op[k] EXCEPT !.ec_ = ErrorAfter(k)], engine, TRUE)
    /\ args' = [args EXCEPT ![k] = NoArgs]
    /\ UNCHANGED <<engine, coreVars>>

Resume(k) ==
    /\ running = Nobody /\ args[k] # NoArgs
    /\ ResumeInput(k) \/ ResumeOutput(k) \/ ResumePosted(k)
    /\ UNCHANGED <<peerVars, wire>>

-----------------------------------------------------------------------------
(* The next layer and the peer.                                            *)

Arrives(k, n, e) == args' = [args EXCEPT ![k] = [n |-> n, ec |-> e, timer |-> FALSE]]
InTransfer(k, pc) == op[k].pc = pc /\ args[k] = NoArgs

\* async_read_some
ReadSome(k) ==
    /\ InTransfer(k, "reading")
    /\ \/ \E n \in 1 .. BufferSize :
            /\ n <= Len(incoming) - received
            /\ input_buffer_' = Overwritten(input_buffer_, [i \in 1 .. n |-> received + i])
            /\ received' = received + n /\ Arrives(k, n, "none")
       \/ /\ gone /\ received = Len(incoming)
          /\ Arrives(k, 0, "eof") /\ UNCHANGED <<input_buffer_, received>>
    /\ UNCHANGED <<op, running, start_, pending_read_, pending_write_, overtaken, input_,
                   output_buffer_, engine, incoming, gone, wire, programVars>>

\* A step of async_write, which goes on until the buffer is written.
WriteSome(k) ==
    /\ InTransfer(k, "writing")
    /\ \E n \in 1 .. op[k].size - op[k].moved :
         /\ wire' = wire \o [i \in 1 .. n |-> output_buffer_[op[k].moved + i]]
         /\ op' = [op EXCEPT ![k].moved = @ + n]
         /\ IF op'[k].moved = op[k].size THEN Arrives(k, 0, "none") ELSE UNCHANGED args
    /\ UNCHANGED <<running, start_, coreVars, engine, peerVars, programVars>>

\* The read of no bytes.
ReadNothing(k) ==
    /\ InTransfer(k, "posted") /\ Arrives(k, 0, "none")
    /\ UNCHANGED <<op, running, start_, coreVars, engine, peerVars, wire, programVars>>

TransferFails(k) ==
    /\ "error" \in Uses
    /\ InTransfer(k, "reading") \/ InTransfer(k, "writing")
    /\ Arrives(k, 0, "error")
    /\ UNCHANGED <<op, running, start_, coreVars, engine, peerVars, wire, programVars>>

\* What a peer may send: its part of the handshake once it has heard of ours, then records
\* in fragments, requests that must be answered, and its notification at the end.
Asks == Cardinality({i \in 1 .. Len(incoming) : incoming[i] = "ask"})
MaySend ==
    IF \E i \in 1 .. Len(incoming) : incoming[i] = "hello"
    THEN {"part", "data", "close"} \cup IF Asks < MaxAsks THEN {"ask"} ELSE {}
    ELSE IF wire # <<>> \/ (engine.hello = 1 /\ engine.made = 0) THEN {"part", "hello"} ELSE {}
PeerSends ==
    /\ Len(incoming) < MaxIn /\ ~gone
    /\ \A i \in 1 .. Len(incoming) : incoming[i] # "close"
    /\ \E u \in MaySend : incoming' = Append(incoming, u)
    /\ UNCHANGED <<ioVars, coreVars, engine, received, gone, wire, programVars>>
PeerGone ==
    /\ "eof" \in Uses /\ ~gone /\ gone' = TRUE
    /\ UNCHANGED <<ioVars, coreVars, engine, incoming, received, wire, programVars>>

-----------------------------------------------------------------------------
(* The program.                                                            *)

Outstanding(k) == op[k] # Idle \/ running = k
\* After an error, or a cancellation, which is terminal, the stream is only destroyed.
Broken == stopped \/ \E k \in IoOps : ended[k] \notin {"none", "success", "eof"}
MayStart(k) ==
    /\ ~Outstanding(k) /\ ~Broken
    /\ CASE k = "handshake" -> ended[k] = "none"
         [] k = "read" -> ended[k] # "eof"
         [] k = "write" -> writes < MaxWrites
         [] k = "shutdown" -> ended[k] = "none"
    /\ k # "handshake" => ended["handshake"] = "success"
    /\ k \in {"read", "write"} => ended["shutdown"] = "none" /\ ~Outstanding("shutdown")
    /\ "duplex" \notin Uses => \A j \in IoOps : ~Outstanding(j)
    /\ k = "shutdown" /\ "early_shutdown" \notin Uses => \A j \in IoOps : ~Outstanding(j)

\* async_handshake, async_read_some, async_write_some, async_shutdown: async_io
Start(k) ==
    /\ running = Nobody /\ MayStart(k)
    /\ running' = k /\ start_' = TRUE
    /\ writes' = IF k = "write" THEN writes + 1 ELSE writes
    /\ UNCHANGED <<op, args, coreVars, engine, peerVars, wire, given, ended, promised, stopped>>

\* Cancellation through the slot of the operation: a transfer or a wait under way is aborted.
Cancel(k) ==
    /\ "cancel" \in Uses /\ running = Nobody /\ Outstanding(k) /\ ~Broken
    /\ op' = [op EXCEPT ![k].cancelled = TRUE]
    /\ args' = IF args[k] # NoArgs THEN args
                 ELSE [args EXCEPT ![k] = IF op[k].pc \in {"wait_read", "wait_write"} THEN TimerArgs
                                            ELSE [n |-> 0, ec |-> "aborted", timer |-> FALSE]]
    /\ stopped' = TRUE
    /\ UNCHANGED <<running, start_, coreVars, engine, peerVars, wire, writes, given, ended,
                   promised>>

-----------------------------------------------------------------------------
LoopStep(k) == Try(k) \/ Resume(k)
Transfer(k) == ReadSome(k) \/ WriteSome(k) \/ ReadNothing(k)

SslNext ==
    \/ \E k \in IoOps : LoopStep(k) \/ Transfer(k) \/ TransferFails(k) \/ Start(k) \/ Cancel(k)
    \/ PeerSends \/ PeerGone

SslSpec == SslInit /\ [][SslNext]_sslVars

(***************************************************************************)
(* Fairness: while a queued handler can run or the next layer can move     *)
(* something, one of them does.  Nothing is assumed of the program or of   *)
(* the peer.                                                               *)
(***************************************************************************)
SslFairSpec == SslSpec /\ WF_sslVars(\E k \in IoOps : LoopStep(k) \/ Transfer(k))

-----------------------------------------------------------------------------
(* Properties.                                                             *)

SslTypeOK ==
    /\ \A k \in IoOps : /\ op[k].pc \in {"idle", "reading", "writing", "wait_read", "wait_write", "posted"}
                         /\ op[k].want_ \in {"input_and_retry", "output", "output_and_retry", "nothing"}
                         /\ op[k].ec_ \in {"none", "eof", "ssl", "error", "aborted"}
                         /\ op[k].bytes_transferred_ \in 0 .. 1 /\ op[k].moved <= op[k].size
                         /\ args[k].n \in 0 .. BufferSize
    /\ running \in IoOps \cup {Nobody} /\ start_ \in BOOLEAN
    /\ pending_read_ \in BOOLEAN /\ pending_write_ \in BOOLEAN
    /\ input_.last <= Len(input_buffer_) /\ received <= Len(incoming)

\* The units that have been read and that the engine has not consumed, in the order in
\* which it will get them.
Unread ==
    engine.in \o [i \in 1 .. input_.last + 1 - input_.first |-> input_buffer_[input_.first + i - 1]]
InHand == UNION {{[reader |-> k, unit |-> i] : i \in 1 .. args[k].n} : k \in IoOps}
DataUpTo(n) == Cardinality({i \in 1 .. n : incoming[i] = "data"})

\* The engine gets every unit the peer has sent once and in order, although there is one
\* input_buffer_ for all operations and input_ is a view of it; every complete record
\* reaches the program; and a read that reports end of file has seen the peer's
\* notification with nothing behind it.
InputInOrder ==
    /\ SslTypeOK
    /\ \A i \in 1 .. Len(Unread) : Unread[i] = engine.eaten + i
    /\ received = engine.eaten + Len(Unread) + Cardinality(InHand)
    /\ ~Broken /\ ~engine.sent_close => given + op["read"].bytes_transferred_ = DataUpTo(engine.eaten)
    /\ ended["read"] = "eof" => engine.got_close /\ Unread = <<>>

\* An operation has begun to write before another, which the end of the last write had let go,
\* has run, and the peer has asked a second time.
AskedAgain == \E i, j \in 1 .. Len(incoming) : i # j /\ incoming[i] = "ask" /\ incoming[j] = "ask"
Exposed == overtaken /\ AskedAgain

\* One transfer of either kind at a time on the next layer, "we cannot allow more than one":
\* so the units go out once and in the order in which the engine made them, and what an
\* operation that made its own transfer has reported as done has gone out.  For writing this
\* ends where the code is exposed: the handler of the operation that was overtaken sets the
\* timer free under the write, and the second answer is written beside it.
Alone(pc) == \A j, k \in IoOps : op[j].pc = pc /\ op[k].pc = pc => j = k
OneTransfer == Alone("reading") /\ (~Exposed => Alone("writing"))
OutputInOrder ==
    /\ OneTransfer
    /\ ~Broken /\ ~Exposed =>
         (\A i \in 1 .. Len(wire) : wire[i] = i) /\ promised.own <= Len(wire)

\* No operation is left behind on a timer, nor with the input it needs already here.
Answered(k) == \E i \in engine.eaten + 1 .. Len(incoming) : incoming[i] \in Answers(k)
Owed(k) == Outstanding(k) /\ (k = "write" \/ op[k].pc = "wait_write" \/ Answered(k) \/ gone)
StreamOpsEnd == \A k \in IoOps : []<>~Owed(k)
=============================================================================
