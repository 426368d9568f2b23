--------------------------- MODULE RingBufferHeap ---------------------------
(***************************************************************************)
(* One stream between two kernels: the heap ring buffer for inline types   *)
(* (raftinc/ringbufferheap.tcc, raftinc/ringbufferheap_abstract.tcc), used *)
(* by one producer and one consumer thread that take no lock.  Every load  *)
(* of a shared pointer field, and every store to one, is a step of its     *)
(* own: size() reads four fields that the other thread is changing, and    *)
(* Pointer::inc publishes an item in two stores.                           *)
(*                                                                         *)
(* The buffer here is one that the allocator does not replace; replacing   *)
(* it, and the access flags and statistics kept for that purpose, are the  *)
(* subject of DataManager.                                                 *)
(*                                                                         *)
(* Items are numbered 1, 2, 3 ... in the order in which the producer sends *)
(* them, and the signal sent with item k is k; 0 is a slot never written   *)
(* and raft::none.                                                         *)
(***************************************************************************)
EXTENDS Naturals, Sequences, Pointer

CONSTANTS
    Cap,            \* max_cap, the number of slots
    MaxRange,       \* the longest range a call asks for
    MaxSent,        \* bound: the number of items that the producer sends
    ProducerOps,    \* the calls that the producing kernel makes
    ConsumerOps     \* the calls that the consuming kernel makes

ASSUME CapAssumption == Cap \in Nat \ {0}
ASSUME MaxRangeAssumption == MaxRange \in Nat \ {0}
ASSUME MaxSentAssumption == MaxSent \in Nat
ASSUME OpsAssumption ==
    /\ ProducerOps \subseteq {"push", "allocate", "allocate_range"}
    /\ ConsumerOps \subseteq {"pop", "peek", "peek_range", "recycle", "unpeek"}

VARIABLES
    write_pt, read_pt,  \* the two pointers of the buffer
    store, signal,      \* the two arrays of the buffer
    is_valid,           \* the producer has not closed the stream
    pc,                 \* what each thread does next
    op,                 \* the call that each thread is in
    n,                  \* how many items the call needs at once
    left,               \* how many repetitions of it are left
    ret,                \* where size() returns to
    sz,                 \* the locals of size() and its result
    allocate_called, n_allocated,   \* the producer's own data
    sent, taken,        \* history: items published, items removed
    got,                \* history: the last item that the consumer read
    error               \* history: the exception that ended the consumer

buffer == <<write_pt, read_pt, store, signal, is_valid>>
call == <<op, n, left>>
alloc == <<allocate_called, n_allocated>>
history == <<sent, taken, got, error>>
vars == <<buffer, pc, call, ret, sz, alloc, history>>

P == "producer"
C == "consumer"
Thread == {P, C}
Slot == 0 .. Cap - 1

\* The slot i places after the one that ptr points to, and how many places after
\* it slot s is, going round the ring.
SlotAt(ptr, i) == (val(ptr) + i) % Cap
Offset(ptr, s) == IF s >= val(ptr) THEN s - val(ptr) ELSE Cap - val(ptr) + s
SlotsFrom(ptr, k) == {s \in Slot : Offset(ptr, s) < k}
WriteSlots == SlotsFrom(write_pt, n[P])

\* The locals of size() once it has returned v (none of them is live then).
Returned(v) == [wrap_write |-> 0, wrap_read |-> 0, wpt |-> 0, res |-> v]

Goto(t, label) == pc' = [pc EXCEPT ![t] = label]

\* Thread t calls size(), which is to return to label.
CallSize(t, label) ==
    /\ Goto(t, "wrap_write")
    /\ ret' = [ret EXCEPT ![t] = label]

\* Thread t returns from its call, whose locals are gone with it.
Return(t) ==
    /\ Goto(t, "idle")
    /\ op' = [op EXCEPT ![t] = "none"]
    /\ n' = [n EXCEPT ![t] = 1]
    /\ left' = [left EXCEPT ![t] = 1]
    /\ ret' = [ret EXCEPT ![t] = "admit"]
    /\ sz' = [sz EXCEPT ![t] = Returned(0)]

\* Thread t goes on with the next item of insert, pop_range or recycle, if any.
NextItem(t) ==
    \/ left[t] = 1 /\ Return(t)
    \/ /\ left[t] > 1
       /\ left' = [left EXCEPT ![t] = @ - 1]
       /\ Goto(t, "wrap_write")
       /\ UNCHANGED <<op, n, ret, sz>>

Init ==
    /\ write_pt = NewPointer(0)
    /\ read_pt = NewPointer(0)
    /\ store = [s \in Slot |-> 0]
    /\ signal = [s \in Slot |-> 0]
    /\ is_valid = TRUE
    /\ pc = [t \in Thread |-> "idle"]
    /\ op = [t \in Thread |-> "none"]
    /\ n = [t \in Thread |-> 1]
    /\ left = [t \in Thread |-> 1]
    /\ ret = [t \in Thread |-> "admit"]
    /\ sz = [t \in Thread |-> Returned(0)]
    /\ allocate_called = FALSE
    /\ n_allocated = 1
    /\ sent = 0
    /\ taken = 0
    /\ got = [pos |-> 0, item |-> 0, sig |-> 0]
    /\ error = "none"

-----------------------------------------------------------------------------
(* size(), run by either thread.                                           *)

\* Mutant: the last case subtracts the wrong way round.
SizeOf_swapped(wrap_write, wrap_read, wpt, rpt) ==
    IF wpt = rpt THEN IF wrap_read < wrap_write THEN Cap ELSE 0
    ELSE IF rpt < wpt THEN wpt - rpt
    ELSE Cap + rpt - wpt

\* Mutant: equal wrap counts are taken for a full queue.
SizeOf_fullWhenEqual(wrap_write, wrap_read, wpt, rpt) ==
    IF wpt = rpt THEN IF wrap_read <= wrap_write THEN Cap ELSE 0
    ELSE IF rpt < wpt THEN wpt - rpt
    ELSE Cap - rpt + wpt

\* What size() makes of the four values it has read.
SizeOf(wrap_write, wrap_read, wpt, rpt) ==
    IF wpt = rpt THEN IF wrap_read < wrap_write THEN Cap ELSE 0
    ELSE IF rpt < wpt THEN wpt - rpt
    ELSE Cap - rpt + wpt

\* The reader is a wrap ahead for the moment between the writer's two stores.
Momentary(wrap_write, wrap_read, wpt, rpt) == wpt = rpt /\ wrap_read > wrap_write

ReadWrapWrite(t) ==
    /\ pc[t] = "wrap_write"
    /\ sz' = [sz EXCEPT ![t].wrap_write = wrapIndicator(write_pt)]
    /\ Goto(t, "wrap_read")
    /\ UNCHANGED <<buffer, call, ret, alloc, history>>

ReadWrapRead(t) ==
    /\ pc[t] = "wrap_read"
    /\ sz' = [sz EXCEPT ![t].wrap_read = wrapIndicator(read_pt)]
    /\ Goto(t, "wpt")
    /\ UNCHANGED <<buffer, call, ret, alloc, history>>

ReadWpt(t) ==
    /\ pc[t] = "wpt"
    /\ sz' = [sz EXCEPT ![t].wpt = val(write_pt)]
    /\ Goto(t, "rpt")
    /\ UNCHANGED <<buffer, call, ret, alloc, history>>

\* The last load, and the return of the value or the jump back to TOP.
ReadRpt(t) ==
    /\ pc[t] = "rpt"
    /\ LET s == sz[t]
           rpt == val(read_pt)
       IN  IF Momentary(s.wrap_write, s.wrap_read, s.wpt, rpt)
           THEN Goto(t, "wrap_write") /\ UNCHANGED sz
           ELSE /\ sz' = [sz EXCEPT ![t] = Returned(
                            SizeOf(s.wrap_write, s.wrap_read, s.wpt, rpt))]
                /\ Goto(t, ret[t])
    /\ UNCHANGED <<buffer, call, ret, alloc, history>>

Size(t) == ReadWrapWrite(t) \/ ReadWrapRead(t) \/ ReadWpt(t) \/ ReadRpt(t)

-----------------------------------------------------------------------------
(* The producer.                                                           *)

space_avail == Cap - sz[P].res

\* The kernel calls push (or insert, k times push), allocate or allocate_range.
Produce(o, k) ==
    /\ pc[P] = "idle"
    /\ o = "allocate" => k = 1
    /\ sent + k <= MaxSent
    /\ op' = [op EXCEPT ![P] = o]
    /\ n' = [n EXCEPT ![P] = IF o = "allocate_range" THEN k ELSE 1]
    /\ left' = [left EXCEPT ![P] = IF o = "push" THEN k ELSE 1]
    /\ CallSize(P, "admit")
    /\ UNCHANGED <<buffer, sz, alloc, history>>

\* Mutant: the producer waits on the size that it read before the loop.
ProducerSpins_staleSize ==
    /\ pc[P] = "admit"
    /\ space_avail < n[P]
    /\ Goto(P, "admit")
    /\ UNCHANGED <<buffer, call, ret, sz, alloc, history>>

\* Too little space: try again.
ProducerSpins ==
    /\ pc[P] = "admit"
    /\ space_avail < n[P]
    /\ CallSize(P, "admit")
    /\ UNCHANGED <<buffer, call, sz, alloc, history>>

\* local_push copies the item into the slot, ...
PushStore ==
    /\ pc[P] = "admit"
    /\ op[P] = "push"
    /\ space_avail >= n[P]
    /\ store' = [store EXCEPT ![val(write_pt)] = sent + 1]
    /\ Goto(P, "signal")
    /\ UNCHANGED <<write_pt, read_pt, signal, is_valid, call, ret, sz, alloc, history>>

\* Mutant: raft::none is not written for the items of insert but the last.
PushSignal_keepsOld ==
    /\ pc[P] = "signal"
    /\ signal' = [signal EXCEPT ![val(write_pt)] = IF left[P] = 1 THEN sent + 1 ELSE @]
    /\ Goto(P, "inc")
    /\ UNCHANGED <<write_pt, read_pt, store, is_valid, call, ret, sz, alloc, history>>

\* ... then the signal, which insert gives to the last item only.
PushSignal ==
    /\ pc[P] = "signal"
    /\ signal' = [signal EXCEPT ![val(write_pt)] = IF left[P] = 1 THEN sent + 1 ELSE 0]
    /\ Goto(P, "inc")
    /\ UNCHANGED <<write_pt, read_pt, store, is_valid, call, ret, sz, alloc, history>>

LocalAllocate ==
    /\ pc[P] = "admit"
    /\ op[P] = "allocate"
    /\ space_avail >= n[P]
    /\ allocate_called' = TRUE
    /\ Goto(P, "held")
    /\ UNCHANGED <<buffer, call, ret, sz, n_allocated, history>>

\* Mutant: allocate_range checks for one free slot, as allocate does.
LocalAllocateN_checksOne ==
    /\ pc[P] = "admit"
    /\ op[P] = "allocate_range"
    /\ space_avail > 0
    /\ signal' = [s \in Slot |-> IF s \in WriteSlots THEN 0 ELSE signal[s]]
    /\ n_allocated' = n[P]
    /\ allocate_called' = TRUE
    /\ Goto(P, "held")
    /\ UNCHANGED <<write_pt, read_pt, store, is_valid, call, ret, sz, history>>

LocalAllocateN ==
    /\ pc[P] = "admit"
    /\ op[P] = "allocate_range"
    /\ space_avail >= n[P]
    /\ signal' = [s \in Slot |-> IF s \in WriteSlots THEN 0 ELSE signal[s]]
    /\ n_allocated' = n[P]
    /\ allocate_called' = TRUE
    /\ Goto(P, "held")
    /\ UNCHANGED <<write_pt, read_pt, store, is_valid, call, ret, sz, history>>

\* The kernel writes through the references that it was given.
Fill ==
    /\ pc[P] = "held"
    /\ store' = [s \in Slot |->
                    IF s \in WriteSlots THEN sent + 1 + Offset(write_pt, s) ELSE store[s]]
    /\ Goto(P, "filled")
    /\ UNCHANGED <<write_pt, read_pt, signal, is_valid, call, ret, sz, alloc, history>>

Deallocate ==
    /\ pc[P] \in {"held", "filled"}
    /\ allocate_called' = FALSE
    /\ Return(P)
    /\ UNCHANGED <<buffer, n_allocated, history>>

Send ==
    /\ pc[P] = "filled"
    /\ op[P] = "allocate"
    /\ allocate_called
    /\ signal' = [signal EXCEPT ![val(write_pt)] = sent + 1]
    /\ allocate_called' = FALSE
    /\ Goto(P, "inc")
    /\ UNCHANGED <<write_pt, read_pt, store, is_valid, call, ret, sz, n_allocated, history>>

\* The signal goes to the first item of the range.
SendRange ==
    /\ pc[P] = "filled"
    /\ op[P] = "allocate_range"
    /\ allocate_called
    /\ signal' = [signal EXCEPT ![val(write_pt)] = sent + 1]
    /\ n' = [n EXCEPT ![P] = n_allocated]
    /\ allocate_called' = FALSE
    /\ n_allocated' = 0
    /\ Goto(P, "inc")
    /\ UNCHANGED <<write_pt, read_pt, store, is_valid, op, left, ret, sz, history>>

\* Mutant: send_range increments the pointer by one (inc for incBy).
IncWrite_byOne ==
    /\ pc[P] = "inc"
    /\ write_pt' = IncIndex(write_pt, 1, Cap)
    /\ sent' = sent + n[P]
    /\ Goto(P, "wrap")
    /\ UNCHANGED <<read_pt, store, signal, is_valid, call, ret, sz, alloc, taken, got, error>>

\* Pointer::inc or incBy on the write pointer: the index, ...
IncWrite ==
    /\ pc[P] = "inc"
    /\ write_pt' = IncIndex(write_pt, n[P], Cap)
    /\ sent' = sent + n[P]
    /\ Goto(P, "wrap")
    /\ UNCHANGED <<read_pt, store, signal, is_valid, call, ret, sz, alloc, taken, got, error>>

\* Mutant: the write pointer's wrap count is not kept.
IncWriteWrap_forgotten ==
    /\ pc[P] = "wrap"
    /\ UNCHANGED write_pt
    /\ NextItem(P)
    /\ UNCHANGED <<read_pt, store, signal, is_valid, alloc, history>>

\* ... then the wrap count, and the next item of an insert.
IncWriteWrap ==
    /\ pc[P] = "wrap"
    /\ write_pt' = IncWrap(write_pt, n[P])
    /\ NextItem(P)
    /\ UNCHANGED <<read_pt, store, signal, is_valid, alloc, history>>

\* The kernel has stopped, perhaps with an allocation that it never sent.
Invalidate ==
    /\ pc[P] \in {"idle", "held", "filled"}
    /\ is_valid' = FALSE
    /\ Goto(P, "done")
    /\ UNCHANGED <<write_pt, read_pt, store, signal, call, ret, sz, alloc, history>>

-----------------------------------------------------------------------------
(* The consumer.                                                           *)

\* What a read through the read pointer gives, i places after the head.
ItemAt(i) == [pos |-> taken + 1 + i, item |-> store[SlotAt(read_pt, i)], sig |-> 0]

\* The kernel calls pop (or pop_range, k times pop), peek, peek_range, recycle.
Consume(o, k) ==
    /\ pc[C] = "idle"
    /\ o = "peek" => k = 1
    /\ op' = [op EXCEPT ![C] = o]
    /\ n' = [n EXCEPT ![C] = IF o = "peek_range" THEN k ELSE 1]
    /\ left' = [left EXCEPT ![C] = IF o \in {"pop", "recycle"} THEN k ELSE 1]
    /\ CallSize(C, "admit")
    /\ UNCHANGED <<buffer, sz, alloc, history>>

\* Mutant: the consumer waits for items without looking at is_valid.
TooFew_ignoresClose ==
    /\ pc[C] = "admit"
    /\ sz[C].res < n[C]
    /\ CallSize(C, "admit")
    /\ UNCHANGED <<buffer, call, sz, alloc, history>>

\* Too few items: look whether the stream is closed.
TooFew ==
    /\ pc[C] = "admit"
    /\ sz[C].res < n[C]
    /\ Goto(C, "is_invalid")
    /\ UNCHANGED <<buffer, call, ret, sz, alloc, history>>

\* Mutant: the size is not asked for again once the stream is seen closed.
ReadIsValid_trustsFirstSize ==
    /\ pc[C] = "is_invalid"
    /\ IF is_valid THEN CallSize(C, "admit") ELSE Goto(C, "drained") /\ UNCHANGED ret
    /\ UNCHANGED <<buffer, call, sz, alloc, history>>

\* is_invalid(): if it is closed ask for the size again, else try again, which
\* peek_range does only after a second is_invalid() (ret tells which call it is).
ReadIsValid ==
    /\ pc[C] = "is_invalid"
    /\ \/ /\ ~is_valid
          /\ CallSize(C, IF ret[C] = "admit" THEN "drained" ELSE "short")
       \/ /\ is_valid
          /\ op[C] # "peek_range" \/ ret[C] # "admit"
          /\ CallSize(C, "admit")
       \/ /\ is_valid
          /\ op[C] = "peek_range" /\ ret[C] = "admit"
          /\ ret' = [ret EXCEPT ![C] = "drained"]
          /\ UNCHANGED pc
    /\ UNCHANGED <<buffer, call, sz, alloc, history>>

\* Closed and nothing left: pop and the peeks throw ClosedPortAccessException.
ThrowClosed ==
    /\ pc[C] = "drained"
    /\ sz[C].res = 0
    /\ op[C] # "recycle"
    /\ error' = "closed"
    /\ Goto(C, "failed")
    /\ UNCHANGED <<buffer, call, ret, sz, alloc, sent, taken, got>>

\* Closed and nothing left: recycle returns.
RecycleReturns ==
    /\ pc[C] = "drained"
    /\ sz[C].res = 0
    /\ op[C] = "recycle"
    /\ Return(C)
    /\ UNCHANGED <<buffer, alloc, history>>

\* Closed with something left: peek_range calls is_invalid() again, the others
\* retry.
NotDrained ==
    /\ pc[C] = "drained"
    /\ sz[C].res # 0
    /\ IF op[C] = "peek_range" THEN Goto(C, "is_invalid") /\ UNCHANGED ret
                               ELSE CallSize(C, "admit")
    /\ UNCHANGED <<buffer, call, sz, alloc, history>>

\* Closed with fewer items left than peek_range needs: NoMoreDataException.
ThrowNoMoreData ==
    /\ pc[C] = "short"
    /\ sz[C].res < n[C]
    /\ error' = "no_more_data"
    /\ Goto(C, "failed")
    /\ UNCHANGED <<buffer, call, ret, sz, alloc, sent, taken, got>>

NotShort ==
    /\ pc[C] = "short"
    /\ sz[C].res >= n[C]
    /\ CallSize(C, "admit")
    /\ UNCHANGED <<buffer, call, sz, alloc, history>>

LocalPop ==
    /\ pc[C] = "admit"
    /\ op[C] = "pop"
    /\ sz[C].res >= n[C]
    /\ got' = [ItemAt(0) EXCEPT !.sig = signal[val(read_pt)]]
    /\ Goto(C, "inc")
    /\ UNCHANGED <<buffer, call, ret, sz, alloc, sent, taken, error>>

LocalRecycle ==
    /\ pc[C] = "admit"
    /\ op[C] = "recycle"
    /\ sz[C].res >= n[C]
    /\ Goto(C, "inc")
    /\ UNCHANGED <<buffer, call, ret, sz, alloc, history>>

\* Mutant: peek_range checks for one item, as peek does.
LocalPeek_checksOne ==
    /\ pc[C] = "admit"
    /\ op[C] \in {"peek", "peek_range"}
    /\ sz[C].res > 0
    /\ got' = [ItemAt(0) EXCEPT !.sig = signal[val(read_pt)]]
    /\ Goto(C, "held")
    /\ UNCHANGED <<buffer, call, ret, sz, alloc, sent, taken, error>>

\* peek and peek_range return references, which the kernel keeps using.
LocalPeek ==
    /\ pc[C] = "admit"
    /\ op[C] \in {"peek", "peek_range"}
    /\ sz[C].res >= n[C]
    /\ got' = [ItemAt(0) EXCEPT !.sig = signal[val(read_pt)]]
    /\ Goto(C, "held")
    /\ UNCHANGED <<buffer, call, ret, sz, alloc, sent, taken, error>>

\* The kernel reads through one of the references that it holds.
LookAt(i) ==
    /\ pc[C] = "held"
    /\ i < n[C]
    /\ got' = ItemAt(i)
    /\ UNCHANGED <<buffer, pc, call, ret, sz, alloc, sent, taken, error>>

Unpeek ==
    /\ pc[C] = "held"
    /\ "unpeek" \in ConsumerOps
    /\ Return(C)
    /\ UNCHANGED <<buffer, alloc, history>>

\* The kernel is done with the references and removes what it peeked at.
RecyclePeeked ==
    /\ pc[C] = "held"
    /\ op' = [op EXCEPT ![C] = "recycle"]
    /\ left' = [left EXCEPT ![C] = n[C]]
    /\ n' = [n EXCEPT ![C] = 1]
    /\ CallSize(C, "admit")
    /\ UNCHANGED <<buffer, sz, alloc, history>>

IncRead ==
    /\ pc[C] = "inc"
    /\ read_pt' = IncIndex(read_pt, 1, Cap)
    /\ taken' = taken + 1
    /\ Goto(C, "wrap")
    /\ UNCHANGED <<write_pt, store, signal, is_valid, call, ret, sz, alloc, sent, got, error>>

IncReadWrap ==
    /\ pc[C] = "wrap"
    /\ read_pt' = IncWrap(read_pt, 1)
    /\ NextItem(C)
    /\ UNCHANGED <<write_pt, store, signal, is_valid, alloc, history>>

-----------------------------------------------------------------------------
ProducerNext ==
    \/ \E o \in ProducerOps, k \in 1 .. MaxRange : Produce(o, k)
    \/ Size(P)
    \/ ProducerSpins \/ PushStore \/ PushSignal \/ LocalAllocate \/ LocalAllocateN
    \/ Fill \/ Deallocate \/ Send \/ SendRange \/ IncWrite \/ IncWriteWrap
    \/ Invalidate

ConsumerNext ==
    \/ \E o \in ConsumerOps \ {"unpeek"}, k \in 1 .. MaxRange : Consume(o, k)
    \/ Size(C)
    \/ TooFew \/ ReadIsValid \/ ThrowClosed \/ RecycleReturns \/ NotDrained
    \/ ThrowNoMoreData \/ NotShort \/ LocalPop \/ LocalRecycle \/ LocalPeek
    \/ \E i \in 0 .. MaxRange - 1 : LookAt(i)
    \/ Unpeek \/ RecyclePeeked \/ IncRead \/ IncReadWrap

Next == ProducerNext \/ ConsumerNext

Spec == Init /\ [][Next]_vars

\* Each kernel has a thread of its own (simple_schedule), which the operating
\* system keeps running; the waits in the calls are loops that yield.
FairSpec == Spec /\ WF_vars(ProducerNext) /\ WF_vars(ConsumerNext)

-----------------------------------------------------------------------------
(* Properties.                                                             *)

ProducerLabel == {"idle", "wrap_write", "wrap_read", "wpt", "rpt", "admit",
                  "signal", "held", "filled", "inc", "wrap", "done"}
ConsumerLabel == {"idle", "wrap_write", "wrap_read", "wpt", "rpt", "admit",
                  "is_invalid", "drained", "short", "held", "inc", "wrap", "failed"}

\* Every variable has its type; in particular both indices stay inside the
\* arrays and size() never returns more than the capacity (the subtractions
\* in size() and space_avail() are of unsigned numbers).
TypeOK ==
    /\ write_pt \in PointerType(Cap)
    /\ read_pt \in PointerType(Cap)
    /\ store \in [Slot -> Nat]
    /\ signal \in [Slot -> Nat]
    /\ is_valid \in BOOLEAN
    /\ pc \in [Thread -> ProducerLabel \cup ConsumerLabel]
    /\ pc[P] \in ProducerLabel
    /\ pc[C] \in ConsumerLabel
    /\ op \in [Thread -> {"none", "push", "allocate", "allocate_range",
                          "pop", "peek", "peek_range", "recycle"}]
    /\ n \in [Thread -> 1 .. MaxRange]
    /\ left \in [Thread -> 1 .. MaxRange]
    /\ ret \in [Thread -> {"admit", "drained", "short"}]
    /\ sz \in [Thread -> [wrap_write : Nat, wrap_read : Nat, wpt : Slot, res : 0 .. Cap]]
    /\ allocate_called \in BOOLEAN
    /\ n_allocated \in 0 .. MaxRange
    /\ sent \in Nat
    /\ taken \in Nat
    /\ got \in [pos : Nat, item : Nat, sig : Nat]
    /\ error \in {"none", "closed", "no_more_data"}

\* The queue never overflows and never underflows: although size() reads the
\* four pointer fields one at a time while the other thread moves them, no push
\* is admitted into a full queue and no pop from an empty one.
Capacity == taken <= sent /\ sent - taken <= Cap

\* What size() returned errs on the caller's side: when the producer acts on it
\* the queue holds no more than that, when the consumer does it holds no less.
SizeIsConservative ==
    /\ pc[P] = "admit" => sent - taken <= sz[P].res
    /\ pc[C] \in {"admit", "drained", "short"} => sz[C].res <= sent - taken

\* The slots that the producer may be writing, and those the consumer may be
\* reading or holds a reference to, are never the same: the two threads share
\* the arrays without a lock (local_push, Fill; local_pop, local_peek).
ProducerSlots ==
    IF \/ pc[P] \in {"signal", "held", "filled", "inc"}
       \/ pc[P] = "admit" /\ space_avail >= n[P]
    THEN WriteSlots
    ELSE {}
ConsumerSlots ==
    IF \/ pc[C] \in {"held", "inc"}
       \/ pc[C] = "admit" /\ sz[C].res >= n[C]
    THEN SlotsFrom(read_pt, n[C])
    ELSE {}
SlotExclusion == ProducerSlots \cap ConsumerSlots = {}

\* The k-th item that leaves the queue is the k-th that was sent, with the
\* signal sent with it or none ("guaranteed to be delivered at the same time as
\* the object", raftinc/fifo.hpp:255): nothing lost, repeated or overwritten.
InOrder == got.item = got.pos /\ got.sig \in {0, got.pos}

\* A consumer is told that the stream is closed only when it has taken every
\* item that was ever sent, and that too little data is left only when no more
\* can come: the second size() after is_invalid() (local_pop, local_peek_range).
NothingLeftBehind ==
    /\ error = "closed" => ~is_valid /\ taken = sent
    /\ error = "no_more_data" => ~is_valid /\ sent - taken < n[C]

\* The items between the two pointers.
Queue == [i \in 1 .. sent - taken |-> store[SlotAt(read_pt, i - 1)]]

\* The buffer implements the stream that the FIFO interface promises: the items
\* between the two pointers are the stream's contents.
Channel == INSTANCE FifoChannel WITH
    cap <- Cap,
    q <- Queue,
    next <- sent + 1,
    closed <- ~is_valid,
    seen <- got.item

ImplementsChannel == Channel!Spec

\* Every item that is sent is taken, if the consumer keeps popping.
SentIsTaken == \A k \in 1 .. MaxSent : sent >= k ~> taken >= k

\* A call of the producer that waits for space gets it, if the consumer keeps
\* popping and the call asks for no more than the capacity.
ProducerIsServed == pc[P] = "wrap_write" ~> pc[P] \in {"idle", "held"}

\* What raftinc/fifo.hpp:212 promises of allocate_range: it returns even when
\* more is asked for than the capacity ("the number allocated is returned").
AllocateRangeReturns ==
    pc[P] = "wrap_write" /\ op[P] = "allocate_range" ~> pc[P] = "held"

\* A consumer that keeps popping learns that the stream was closed.
CloseIsNoticed == ~is_valid ~> error = "closed"
=============================================================================
