----------------------------- MODULE FifoChannel -----------------------------
(***************************************************************************)
(* What a stream between two kernels promises (the FIFO interface of       *)
(* raftinc/fifo.hpp), with nothing of how the ring buffer does it: a       *)
(* bounded sequence that the producer extends at the tail, the consumer    *)
(* looks at and shortens at the head, and the producer may close.  The     *)
(* items are numbered in the order in which they are sent; the signals     *)
(* that go with them are not part of the channel.                          *)
(***************************************************************************)
EXTENDS Naturals, Sequences

CONSTANT
    MaxRange    \* the longest range that a call may ask for

VARIABLES
    cap,      \* the capacity of the stream
    q,        \* the items in the stream, oldest first
    next,     \* the number of the next item to be sent
    closed,   \* the stream says that the producer has invalidated it
    seen,     \* the item that the consumer looked at last, 0 before the first
    error     \* "none", or the exception the consumer's last call ended with

vars == <<cap, q, next, closed, seen, error>>

Init ==
    /\ cap \in Nat \ {0}
    /\ q = <<>>
    /\ next = 1
    /\ closed = FALSE
    /\ seen = 0
    /\ error = "none"

\* push, send and send_range: n items become visible at once, in order.
Send(n) ==
    /\ ~closed
    /\ Len(q) + n <= cap
    /\ q' = q \o [i \in 1 .. n |-> next + i - 1]
    /\ next' = next + n
    /\ UNCHANGED <<cap, closed, seen, error>>

\* pop, peek and peek_range: what is looked at is an item of the stream, at
\* the place asked for (the oldest one is at place 1).
Look(i) ==
    /\ i <= Len(q)
    /\ seen' = q[i]
    /\ UNCHANGED <<cap, q, next, closed, error>>

\* pop and recycle: the oldest item leaves the stream.
Remove ==
    /\ q # <<>>
    /\ q' = Tail(q)
    /\ UNCHANGED <<cap, next, closed, seen, error>>

\* pop, seen as one step.
Take ==
    /\ q # <<>>
    /\ seen' = Head(q)
    /\ q' = Tail(q)
    /\ UNCHANGED <<cap, next, closed, error>>

\* invalidate: nothing is sent after it.
Close ==
    /\ ~closed
    /\ closed' = TRUE
    /\ UNCHANGED <<cap, q, next, seen, error>>

\* ClosedPortAccessException: only when nothing is left and nothing can come.
FailClosed ==
    /\ closed
    /\ q = <<>>
    /\ error' = "closed"
    /\ UNCHANGED <<cap, q, next, closed, seen>>

\* NoMoreDataException: a range longer than what is left of a closed stream.
FailNoMoreData(n) ==
    /\ closed
    /\ Len(q) < n
    /\ error' = "no_more_data"
    /\ UNCHANGED <<cap, q, next, closed, seen>>

Next ==
    \/ \E n \in 1 .. cap : Send(n) \/ Look(n)
    \/ \E n \in 1 .. MaxRange : FailNoMoreData(n)
    \/ Remove
    \/ Take
    \/ Close
    \/ FailClosed

Spec == Init /\ [][Next]_vars

\* The buffer under the stream is replaced by a larger one: the items stay, but
\* the new buffer may have been filled in before the stream was closed.
Replace ==
    /\ cap' > cap
    /\ closed' \in {closed, FALSE}
    /\ UNCHANGED <<q, next, seen, error>>

\* A stream whose buffer may be replaced while it is in use.
ResizableSpec == Init /\ [][Next \/ Replace]_vars
=============================================================================
