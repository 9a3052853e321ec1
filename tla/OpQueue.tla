------------------------------- MODULE OpQueue -------------------------------
(***************************************************************************)
(* asio::detail::op_queue (detail/op_queue.hpp), the intrusive list of     *)
(* operations used throughout the library, as a sequence: push is Append,  *)
(* push of a whole queue is \o (the source is left empty), pop is Tail.    *)
(***************************************************************************)
EXTENDS Integers, Sequences

\* The operation is linked into the queue.
Has(q, x) == \E i \in 1 .. Len(q) : q[i] = x

\* An intrusive list cannot hold an operation twice.
AtMostOnce(q, x) == \A i, j \in 1 .. Len(q) : q[i] = x /\ q[j] = x => i = j

\* The queue after the operations in gone have been taken out, one loop over it that puts
\* the others back in their order.
Unlinked(q, gone) ==
    LET kept[n \in 0 .. Len(q)] ==
            IF n = 0 THEN <<>>
            ELSE IF q[n] \in gone THEN kept[n - 1] ELSE Append(kept[n - 1], q[n])
    IN  kept[Len(q)]

\* Behind every x there is a y.
EveryBefore(q, x, y) == \A i \in 1 .. Len(q) : q[i] = x => \E j \in i + 1 .. Len(q) : q[j] = y
=============================================================================
