---------------------------- MODULE ComposedOps ----------------------------
(***************************************************************************)
(* A composed asynchronous operation: async_read_until, async_read,        *)
(* async_write or async_connect.                                           *)
(*                                                                         *)
(* It starts an operation of its stream or socket, is called back with     *)
(* what that one has done, and starts the next, until it has what it       *)
(* wants.  Between two of them lie the position it has reached and what    *)
(* was asked of it meanwhile: a cancellation is remembered in its          *)
(* cancellation_state and passed on to the operation under way.            *)
(*                                                                         *)
(* A byte is its place in the stream.  What an operation reads goes into a *)
(* streambuf (async_read_until) or a sequence of buffers, which is given   *)
(* by the places where its elements end.  The module has an operation, its *)
(* stream and the signals; whose they are, and who runs the handlers, is   *)
(* in ComposedGroup.                                                       *)
(***************************************************************************)
EXTENDS Integers, Sequences, FiniteSets

CONSTANTS
    Text,          \* the bytes the peer sends before it closes the connection
    Delim,         \* what async_read_until looks for
    MaxSize,       \* max_size() of the streambuf
    Leftovers,     \* the bytes consumed and left over by earlier operations
    BufferDelta,   \* 128, the memory a streambuf begins with
    MinRead,       \* 512
    MaxTransfer,   \* 65536, default_max_transfer_size
    Ends,          \* the last place of each element of the buffer sequence
    MaxBuffers,    \* prepared_buffers::max_buffers
    Conditions,    \* completion conditions of reads and writes
    Endpoints,     \* the number of endpoints given to async_connect
    MayFail        \* whether the stream may fail

ASSUME ComposedAssumption ==
    /\ Len(Text) \in Nat /\ Len(Delim) \in Nat \ {0} /\ MaxSize \in Nat /\ MinRead \in Nat \ {0} /\ MaxTransfer \in Nat \ {0}
    /\ BufferDelta \in Nat \ {0}
    /\ \A l \in Leftovers : /\ l.consumed \in Nat /\ l.size \in Nat
                            /\ l.consumed + l.size <= Len(Text) /\ l.consumed + l.size <= MaxSize
    /\ Ends \in Seq(Nat) /\ \A d, e \in 1 .. Len(Ends) : d <= e => Ends[d] <= Ends[e]
    /\ MaxBuffers \in Nat \ {0} /\ Endpoints \in Nat /\ MayFail \in BOOLEAN
    /\ \A c \in Conditions : c.until \in {"all", "at_least", "exactly"} /\ c.size \in Nat

Kinds == {"read_until", "read", "write", "connect"}

VARIABLES
    kind, condition,    \* the operation; the condition of a read or write, the endpoints a
                        \* connect condition lets through
    phase,              \* "initial", "waiting", "queued" (the handler, with inner), "ended"
    inner,              \* what the operation of the stream has done
    asked,              \* how many bytes it may move
    taken,              \* the bytes that have gone through the stream
    sb,                 \* the streambuf; its memory ends at epptr()
    search_position_,
    next,               \* consuming_buffers: next_elem_, next_elem_offset_, total_consumed_
    moved,              \* the place of each byte that a read or write has moved, in order
    index_, open,       \* the endpoint, and whether the socket is open
    refused,            \* the endpoints that have refused
    cancelled_,
    result              \* what the handler of the composed operation is given

untilVars == <<sb, search_position_>>
transferVars == <<next, moved>>
connectVars == <<index_, open, refused>>
streamVars == <<phase, inner, asked, taken>>
opVars == <<kind, condition, streamVars, untilVars, transferVars, connectVars, cancelled_, result>>

Smaller(m, n) == IF m <= n THEN m ELSE n
Larger(m, n) == IF m >= n THEN m ELSE n
Least(S) == CHOOSE i \in S : \A j \in S : i <= j
NotFound == -1
NoResult == [ec |-> "none", n |-> 0]

ComposedInit ==
    /\ kind \in Kinds
    /\ condition \in IF kind = "connect" THEN SUBSET (1 .. Endpoints)
                     ELSE IF kind = "read_until" THEN {{}} ELSE Conditions
    /\ phase = "initial" /\ inner = NoResult /\ asked = 0
    /\ \E l \in IF kind = "read_until" THEN Leftovers ELSE {[consumed |-> 0, size |-> 0]} :
         /\ taken = l.consumed + l.size
         /\ sb = [mem |-> [i \in 1 .. Larger(taken, Smaller(MaxSize, BufferDelta)) |->
                             IF i <= taken THEN i ELSE 0],
                  gnext |-> l.consumed, pnext |-> taken]
    /\ search_position_ = 0 /\ next = [elem |-> 1, offset |-> 0, total |-> 0] /\ moved = <<>>
    /\ index_ = 1 /\ open = TRUE /\ refused = {}
    /\ cancelled_ = "none" /\ result = NoResult

-----------------------------------------------------------------------------
(* The common frame: an operation of the stream, and the end.              *)

\* An operation that has nothing to move is posted and does not wait.
Issue(n) ==
    /\ asked' = n /\ inner' = NoResult
    /\ phase' = IF n = 0 THEN "queued" ELSE "waiting"
    /\ UNCHANGED <<taken, result>>
End(ec, n) ==
    /\ phase' = "ended" /\ result' = [ec |-> ec, n |-> n]
    /\ UNCHANGED <<asked, inner, taken>>

NotLooked == FALSE                   \* mutant: cancelled() is not looked at
Cancelled == cancelled_ # "none"

-----------------------------------------------------------------------------
(* async_read_until, with a streambuf s.                                   *)

Size(s) == s.pnext - s.gnext
Data(s) == SubSeq(s.mem, s.gnext + 1, s.pnext)

\* prepare: if there is no room behind it, the data moves to the front of the memory.
Reserved(s, n) ==
    IF n <= Len(s.mem) - s.pnext THEN s
    ELSE [mem |-> Data(s) \o [i \in 1 .. Larger(Len(s.mem) - Size(s), n) |-> 0],
          gnext |-> 0, pnext |-> Size(s)]
Committed(s, n) == [s EXCEPT !.pnext = Smaller(@ + n, Len(s.mem))]

\* partial_search: the first position from which everything up to the end of the delimiter
\* or of the data is equal.
Agrees(d, i) == \A j \in 1 .. Smaller(Len(Delim), Len(d) - i) : Text[d[i + j]] = Delim[j]
PartialSearch(d, from) ==
    LET found == {i \in from .. Len(d) - 1 : Agrees(d, i)}
    IN  IF found = {} THEN Len(d) ELSE Least(found)

\* Where a match ends, or where the next search begins, and how much to read.
EndOfData(d, i) == Len(d)            \* mutant: a partial match at the end is forgotten
Resumed(d, i) == i
ReadSize(s) == Smaller(Larger(MinRead, Len(s.mem) - Size(s)), Smaller(MaxTransfer, MaxSize - Size(s)))
Looked(s) ==
    LET d == Data(s)
        i == PartialSearch(d, search_position_)
    IN  IF i + Len(Delim) <= Len(d) THEN [position |-> i + Len(Delim), bytes |-> 0]
        ELSE IF Len(d) = MaxSize THEN [position |-> NotFound, bytes |-> 0]
        ELSE [position |-> Resumed(d, i), bytes |-> ReadSize(s)]

EndReadUntil(ec, position) ==
    End(IF position = NotFound THEN "not_found" ELSE ec,
        IF ec # "none" \/ position = NotFound THEN 0 ELSE position)

\* The first read is started also if there is nothing to read.
BeginReadUntil ==
    /\ search_position_' = Looked(sb).position /\ sb' = Reserved(sb, Looked(sb).bytes)
    /\ Issue(Looked(sb).bytes)

HandleReadUntil ==
    LET s == Committed(sb, inner.n)
    IN  IF inner.ec # "none" \/ inner.n = 0
        THEN EndReadUntil(inner.ec, search_position_) /\ sb' = s /\ UNCHANGED search_position_
        ELSE IF Cancelled
        THEN EndReadUntil("aborted", search_position_) /\ sb' = s /\ UNCHANGED search_position_
        ELSE /\ search_position_' = Looked(s).position
             /\ sb' = Reserved(s, Looked(s).bytes)
             /\ IF Looked(s).bytes = 0 THEN EndReadUntil("none", Looked(s).position)
                                       ELSE Issue(Looked(s).bytes)

-----------------------------------------------------------------------------
(* async_read and async_write: read_op, write_op.                          *)

StartOf(e) == IF e = 1 THEN 0 ELSE Ends[e - 1]
Total == IF Ends = <<>> THEN 0 ELSE Ends[Len(Ends)]
Position(at) == IF at.elem > Len(Ends) THEN Total ELSE StartOf(at.elem) + at.offset

\* prepare(): the next elements that are not empty, no more than MaxBuffers of them.
Prepared(at, max_size) ==
    LET used(e) == {d \in at.elem .. e : Ends[d] > Larger(StartOf(d), Position(at))}
        last == {e \in at.elem .. Len(Ends) : Cardinality(used(e)) <= MaxBuffers}
        end == IF last = {} THEN Position(at) ELSE Ends[CHOOSE e \in last : \A d \in last : d <= e]
    IN  Smaller(max_size, end - Position(at))

\* consume(): an element that has been used up is left.
OffsetKept(e, place) ==               \* mutant: the offset is not reset
    [elem |-> IF place = Ends[e] THEN e + 1 ELSE e, offset |-> place - StartOf(e)]
Advanced(e, place) == IF place = Ends[e] THEN [elem |-> e + 1, offset |-> 0]
                      ELSE [elem |-> e, offset |-> place - StartOf(e)]
Consumed(at, n) ==
    LET place == Position(at) + n
        to == IF n = 0 THEN at ELSE Advanced(Least({e \in at.elem .. Len(Ends) : place <= Ends[e]}), place)
    IN  [elem |-> to.elem, offset |-> to.offset, total |-> at.total + n]

\* check_for_completion: how much may be moved next.
CheckForCompletion(ec, total) ==
    IF ec # "none" \/ (condition.until # "all" /\ total >= condition.size) THEN 0
    ELSE IF condition.until = "exactly" THEN Smaller(condition.size - total, MaxTransfer)
    ELSE MaxTransfer

BeginTransfer == Issue(Prepared(next, CheckForCompletion("none", 0))) /\ UNCHANGED next

HandleTransfer ==
    LET at == Consumed(next, inner.n)
        more == CheckForCompletion(inner.ec, at.total)
    IN  /\ next' = at
        /\ IF (inner.ec = "none" /\ inner.n = 0) \/ at.total >= Total \/ more = 0
           THEN End(inner.ec, at.total)
           ELSE IF Cancelled THEN End("aborted", at.total)
           ELSE Issue(Prepared(at, more))

-----------------------------------------------------------------------------
(* async_connect: range_connect_op, iterator_connect_op.                   *)

\* check_condition: the next endpoint that the condition lets through.
Accepted(i) ==
    LET rest == {j \in i .. Endpoints : j \in condition}
    IN  IF rest = {} THEN Endpoints + 1 ELSE Least(rest)

\* The socket is closed, and opened again by async_connect.
Attempt(i) ==
    /\ index_' = i /\ open' = TRUE /\ phase' = "waiting" /\ inner' = NoResult
    /\ UNCHANGED <<asked, taken, refused, result>>

BeginConnect ==
    IF Accepted(1) <= Endpoints THEN Attempt(Accepted(1))
    ELSE /\ index_' = Accepted(1) /\ phase' = "queued" /\ inner' = [ec |-> "not_found", n |-> 0]
         /\ UNCHANGED <<asked, taken, open, refused, result>>

StaysOpen == TRUE                    \* mutant: a socket that has been closed is not noticed
IsOpen == open
HandleConnect ==
    IF index_ > Endpoints THEN End(inner.ec, 0) /\ UNCHANGED connectVars
    ELSE IF ~IsOpen THEN End("aborted", 0) /\ UNCHANGED connectVars
    ELSE IF inner.ec = "none" THEN End("none", index_) /\ UNCHANGED connectVars
    ELSE IF Cancelled THEN End("aborted", 0) /\ UNCHANGED connectVars
    ELSE IF Accepted(index_ + 1) <= Endpoints THEN Attempt(Accepted(index_ + 1))
    ELSE End(inner.ec, 0) /\ index_' = Endpoints + 1 /\ UNCHANGED <<open, refused>>

-----------------------------------------------------------------------------
(* The composed operation.                                                 *)

Begin ==
    /\ phase = "initial"
    /\ \/ kind = "read_until" /\ BeginReadUntil /\ UNCHANGED <<transferVars, connectVars>>
       \/ kind \in {"read", "write"} /\ BeginTransfer /\ UNCHANGED <<untilVars, moved, connectVars>>
       \/ kind = "connect" /\ BeginConnect /\ UNCHANGED <<untilVars, transferVars>>
    /\ UNCHANGED <<kind, condition, cancelled_>>

\* operator(): the handler of the stream's operation.
Handle ==
    /\ phase = "queued"
    /\ \/ kind = "read_until" /\ HandleReadUntil /\ UNCHANGED <<transferVars, connectVars>>
       \/ kind \in {"read", "write"} /\ HandleTransfer /\ UNCHANGED <<untilVars, moved, connectVars>>
       \/ kind = "connect" /\ HandleConnect /\ UNCHANGED <<untilVars, transferVars>>
    /\ UNCHANGED <<kind, condition, cancelled_>>
Continues == Handle /\ phase' # "ended"
Finishes == Handle /\ phase' = "ended"

\* A signal, through the filter enable_partial_cancellation of all four operations.  It
\* replaces what an earlier one has left in cancelled_.
InProgress == phase \in {"waiting", "queued"}
Filtered(type) == IF type \in {"terminal", "partial"} THEN type ELSE "none"
Emit(type) ==
    /\ InProgress /\ cancelled_' = Filtered(type)
    /\ IF phase = "waiting" /\ Filtered(type) # "none"
       THEN inner' = [ec |-> "aborted", n |-> 0] /\ phase' = "queued"
       ELSE UNCHANGED <<inner, phase>>
    /\ UNCHANGED <<kind, condition, asked, taken, untilVars, transferVars, connectVars, result>>

-----------------------------------------------------------------------------
(* The stream, and the rest of the program.                                *)

Completes(n, ec) ==
    /\ phase = "waiting" /\ phase' = "queued" /\ inner' = [ec |-> ec, n |-> n]
    /\ UNCHANGED <<kind, condition, asked, search_position_, next, index_, cancelled_, result>>

\* Bytes go where prepare() has said, or come from there.
Filled(s, n) == [s EXCEPT !.mem = [i \in DOMAIN @ |-> IF i \in s.pnext + 1 .. s.pnext + n
                                                     THEN taken + i - s.pnext ELSE @[i]]]
MovesSome ==
    /\ kind # "connect"
    /\ \E n \in 1 .. asked :
         /\ kind # "write" => n <= Len(Text) - taken
         /\ Completes(n, "none") /\ taken' = taken + n
         /\ sb' = IF kind = "read_until" THEN Filled(sb, n) ELSE sb
         /\ moved' = IF kind = "read_until" THEN moved
                     ELSE moved \o [i \in 1 .. n |-> Position(next) + i]
    /\ UNCHANGED <<open, refused>>
EndOfFile ==
    /\ kind \in {"read_until", "read"} /\ taken = Len(Text) /\ Completes(0, "eof")
    /\ UNCHANGED <<taken, sb, moved, open, refused>>
Fails ==
    /\ MayFail /\ kind # "connect" /\ Completes(0, "error")
    /\ UNCHANGED <<taken, sb, moved, open, refused>>

Connected ==
    /\ kind = "connect" /\ Completes(0, "none")
    /\ UNCHANGED <<taken, sb, moved, open, refused>>
Refused ==
    /\ kind = "connect" /\ Completes(0, "refused") /\ refused' = refused \cup {index_}
    /\ UNCHANGED <<taken, sb, moved, open>>

\* The program closes the socket, before or after the attempt has ended.
CloseSocket ==
    /\ kind = "connect" /\ InProgress /\ open /\ index_ <= Endpoints
    /\ open' = FALSE
    /\ \/ Completes(0, "aborted")
       \/ phase = "queued" /\ UNCHANGED <<kind, condition, phase, inner, asked, search_position_,
                                          next, index_, cancelled_, result>>
    /\ UNCHANGED <<taken, sb, moved, refused>>

Outside == MovesSome \/ EndOfFile \/ Fails \/ Connected \/ Refused \/ CloseSocket

\* Signals of any type at any time, but none after one that has been let through, which it
\* could erase from cancelled_: a group, for one, signals each of its operations once.
Signalled == \E type \in {"terminal", "partial", "total"} : cancelled_ = "none" /\ Emit(type)
ComposedNext == Begin \/ Handle \/ Outside \/ Signalled
ComposedSpec == ComposedInit /\ [][ComposedNext]_opVars

-----------------------------------------------------------------------------
(* Properties.                                                             *)

\* Bytes are in the streambuf in order and without a gap, up to the last one read.
Committing == IF phase = "queued" THEN inner.n ELSE 0
DataInOrder == \A i \in 1 .. Size(sb) : Data(sb)[i] = taken - Committing - Size(sb) + i

\* The delimiter is at the end of the first n bytes of the data.
MatchEnds(n) ==
    /\ n \in Len(Delim) .. Size(sb)
    /\ \A j \in 1 .. Len(Delim) : Text[Data(sb)[n - Len(Delim) + j]] = Delim[j]

\* However the stream cuts the data, async_read_until ends at the first delimiter; it says
\* that there is none only if the streambuf is full and has none; and whatever happens,
\* what has been read is there for the next operation.
ReadUntilTrue ==
    kind = "read_until" =>
      /\ DataInOrder /\ (phase = "waiting" => Size(sb) + asked <= MaxSize)
      /\ phase = "ended" =>
           /\ result.ec = "none" => MatchEnds(result.n) /\ \A m \in 1 .. result.n - 1 : ~MatchEnds(m)
           /\ result.ec = "not_found" => Size(sb) = MaxSize /\ \A m \in 1 .. MaxSize : ~MatchEnds(m)
           /\ result.ec # "none" => result.n = 0

\* Reads and writes move every byte once, in order, however often they are interrupted;
\* they tell how many, and a success is what the completion condition demands.
Enough ==
    /\ condition.until = "all" => taken = Total
    /\ condition.until = "at_least" => taken >= Smaller(condition.size, Total)
    /\ condition.until = "exactly" => taken = Smaller(condition.size, Total)
TransferTrue ==
    kind \in {"read", "write"} =>
      /\ moved = [i \in 1 .. taken |-> i] /\ taken <= Total
      /\ condition.until = "exactly" => taken <= condition.size
      /\ phase = "ended" => result.n = taken /\ (result.ec = "none" => Enough)

\* A connection is to the first endpoint that has not refused; failure means that all have;
\* and a socket that the program has closed is not connected, nor opened again.
ConnectTrue ==
    kind = "connect" /\ phase = "ended" =>
      /\ result.ec = "none" => /\ open /\ result.n \in condition \ refused
                               /\ \A i \in condition : i < result.n => i \in refused
      /\ result.ec = "refused" => condition \subseteq refused
      /\ result.ec = "not_found" => condition = {}
      /\ ~open => result.ec = "aborted"

\* Whichever of the four operations it is, and wherever between two operations of its stream
\* a cancellation, a failure or a close meets it, it tells the truth about what it has done.
ComposedTrue == ReadUntilTrue /\ TransferTrue /\ ConnectTrue
=============================================================================
