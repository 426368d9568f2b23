------------------------------- MODULE Pointer -------------------------------
(***************************************************************************)
(* The read and write pointers of a ring buffer (src/pointer.cpp): an      *)
(* index a in 0..max_cap-1 and the number of times it has wrapped.  The    *)
(* two fields are stored one after the other, so an increment is given     *)
(* here as its two stores; another thread may run between them.            *)
(***************************************************************************)
EXTENDS Naturals

\* A pointer of a buffer that starts empty (w = 0), or that takes over a full
\* array of the caller's (w = 1 for the write pointer).
NewPointer(w) == [a |-> 0, wrap |-> w]

val(ptr) == ptr.a

wrapIndicator(ptr) == ptr.wrap

\* First store of incBy(ptr, in): the index.
IncIndex(ptr, in, max_cap) == [ptr EXCEPT !.a = (@ + in) % max_cap]

\* Second store of incBy(ptr, in): the wrap count, if the index came round.
IncWrap(ptr, in) == [ptr EXCEPT !.wrap = IF ptr.a < in THEN @ + 1 ELSE @]

\* The copy constructor used when a buffer is resized keeps the index only.
CopyPointer(other) == [a |-> other.a, wrap |-> 0]

PointerType(cap) == [a : 0 .. cap - 1, wrap : Nat]
=============================================================================
