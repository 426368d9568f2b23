----------------------------- MODULE DataManager -----------------------------
(***************************************************************************)
(* Replacing the buffer of a stream while it is in use                     *)
(* (raftinc/datamanager.tcc, Buffer::Data in raftinc/bufferdata.tcc).      *)
(*                                                                         *)
(* A producer and a consumer announce every use of the buffer in a flag of *)
(* their own, size() in a counter, and all of them stay out while resizing *)
(* is set.  The allocator's thread sets resizing, looks at the flags and   *)
(* the counter and, if nobody is inside and the contents do not wrap,      *)
(* copies the buffer into one twice as large and deletes the old one.      *)
(* There is no lock: everything that one thread writes and another reads   *)
(* is a step of its own.                                                   *)
(*                                                                         *)
(* Inside the buffer a call is one step: that it may interleave with the   *)
(* other side is shown in RingBufferHeap.  A call that works on several    *)
(* items with an entry for each (insert, pop_range, recycle of a range) is *)
(* the same as several calls.  Besides the calls of the kernels there are  *)
(* those of the scheduler, which asks the consumer's stream for its size   *)
(* and whether it is closed from the consumer's thread, and sets no flag.  *)
(* A store into a deleted buffer has no effect here.                       *)
(***************************************************************************)
EXTENDS Naturals, Sequences, FiniteSets, Pointer

CONSTANTS
    InitCap,            \* capacity of the first buffer
    MaxResize,          \* bound: how often the allocator resizes the stream
    MaxCap,             \* bound: the capacity up to which it does
    Ranges,             \* the lengths that allocate_range is called with
    MaxSent,            \* bound: no call is made once so many items are sent
    ProducerOps,        \* the calls that the producing kernel makes
    ConsumerOps,        \* the calls that the consumer's thread makes
    SizeofT,            \* sizeof( T ), the type of the items
    SizeofSignal        \* sizeof( Buffer::Signal )

ASSUME InitCapAssumption == InitCap \in Nat \ {0} /\ MaxCap \in Nat /\ InitCap <= MaxCap
ASSUME BoundsAssumption == MaxResize \in Nat /\ Ranges \subseteq Nat \ {0} /\ MaxSent \in Nat
ASSUME OpsAssumption ==
    /\ ProducerOps \subseteq {"push", "allocate", "allocate_range"}
    /\ ConsumerOps \subseteq {"pop", "recycle", "peek", "size", "is_invalid"}
ASSUME SizeofAssumption == SizeofT \in Nat \ {0} /\ SizeofSignal \in Nat \ {0}

VARIABLES
    heap,               \* the buffers, by number
    buffer,             \* the current one
    thread_access,      \* the one whose flags are the current ones
    resizing,
    checking_size,
    exit_alloc,         \* the application is complete
    pc, op, n,          \* of each kernel's thread
    ta,                 \* the thread_access that set_helper was called with
    bp,                 \* the buffer that the thread holds a reference into
    ret,                \* where size() returns to
    res,                \* what size() returned: items or, to the producer, space
    rpc, new_buffer, old_buffer,        \* the allocator's thread, in resize()
    sent, taken, got, error             \* history, as in RingBufferHeap

manager == <<buffer, thread_access, resizing, checking_size, exit_alloc>>
thread == <<op, n, ta, bp, ret, res>>
resizer == <<rpc, new_buffer, old_buffer>>
history == <<sent, taken, got, error>>
vars == <<heap, manager, pc, thread, resizer, history>>

P == "producer"
C == "consumer"
Thread == {P, C}
Buffers == 0 .. MaxResize
Slot == 0 .. MaxCap - 1

capacity(b) == heap[b].max_cap

\* Buffer::Data( max_cap ), before anything is put into it.  (Its arrays are
\* written out to the largest capacity; nothing is done beyond its own.)
NewBuffer(max_cap, state) ==
    [max_cap |-> max_cap, write_pt |-> NewPointer(0), read_pt |-> NewPointer(0),
     store |-> [s \in Slot |-> 0], signal |-> [s \in Slot |-> 0],
     is_valid |-> TRUE, access |-> [t \in Thread |-> {}], state |-> state]

\* producer_data.write_stats and consumer_data.read_stats point into the first
\* buffer: init() sets them at construction, and nothing sets them again.
stats == 0

Init ==
    /\ heap = [b \in Buffers |-> NewBuffer(InitCap, IF b = 0 THEN "live" ELSE "none")]
    /\ buffer = 0
    /\ thread_access = 0
    /\ resizing = FALSE
    /\ checking_size = 0
    /\ exit_alloc = FALSE
    /\ pc = [t \in Thread |-> "idle"]
    /\ op = [t \in Thread |-> "none"]
    /\ n = [t \in Thread |-> 1]
    /\ ta = [t \in Thread |-> 0]
    /\ bp = [t \in Thread |-> 0]
    /\ ret = [t \in Thread |-> "admit"]
    /\ res = [t \in Thread |-> 0]
    /\ rpc = "idle"
    /\ new_buffer = 0
    /\ old_buffer = 0
    /\ sent = 0
    /\ taken = 0
    /\ got = [pos |-> 0, item |-> 0, sig |-> 0]
    /\ error = "none"

Goto(t, label) == pc' = [pc EXCEPT ![t] = label]

\* The number of items in buffer b, as size() computes it.
SizeIn(b) ==
    LET w == heap[b].write_pt
        r == heap[b].read_pt
    IN  IF val(w) = val(r)
        THEN IF wrapIndicator(r) < wrapIndicator(w) THEN capacity(b) ELSE 0
        ELSE IF val(r) < val(w) THEN val(w) - val(r)
        ELSE capacity(b) - val(r) + val(w)

-----------------------------------------------------------------------------
(* Entering and leaving the buffer.                                        *)

\* A kernel makes a call, whose loop begins with enterBuffer( key ), or the
\* scheduler calls size().
Call(t, o, k) ==
    /\ pc[t] = "idle"
    /\ o # "is_invalid"
    /\ k \in IF o = "allocate_range" THEN Ranges ELSE {1}
    /\ t = P => sent < MaxSent
    /\ op' = [op EXCEPT ![t] = o]
    /\ n' = [n EXCEPT ![t] = k]
    /\ ret' = [ret EXCEPT ![t] = "admit"]
    /\ Goto(t, IF o = "size" THEN "size" ELSE "enter")
    /\ UNCHANGED <<heap, manager, ta, bp, res, resizer, history>>

\* enterBuffer and exitBuffer pass on thread_access ... (A local that is not
\* looked at again is reset here and below.)
LoadAccess(t) ==
    /\ \/ pc[t] = "enter" /\ Goto(t, "set")
       \/ pc[t] = "exit" /\ Goto(t, "clear")
       \/ pc[t] = "backoff" /\ Goto(t, "clear_retry")
    /\ ta' = [ta EXCEPT ![t] = thread_access]
    /\ res' = [res EXCEPT ![t] = 0]
    /\ UNCHANGED <<heap, manager, op, n, bp, ret, resizer, history>>

\* ... and set_helper stores through it.
SetFlag(t) ==
    /\ pc[t] = "set"
    /\ heap' = [heap EXCEPT ![ta[t]].access[t] = @ \cup {op[t]}]
    /\ ta' = [ta EXCEPT ![t] = 0]
    /\ Goto(t, "check")
    /\ UNCHANGED <<manager, op, n, bp, ret, res, resizer, history>>

\* The call returns, and its locals are gone, or its loop begins again.
ClearFlag(t) ==
    /\ heap' = [heap EXCEPT ![ta[t]].access[t] = @ \ {op[t]}]
    /\ ta' = [ta EXCEPT ![t] = 0]
    /\ \/ /\ pc[t] = "clear"
          /\ Goto(t, "idle")
          /\ op' = [op EXCEPT ![t] = "none"]
          /\ n' = [n EXCEPT ![t] = 1]
       \/ /\ pc[t] = "clear_retry"
          /\ Goto(t, "enter")
          /\ UNCHANGED <<op, n>>
    /\ UNCHANGED <<manager, bp, ret, res, resizer, history>>

\* notResizing(): go on to ask for the size, or leave and try again.
CheckResizing(t) ==
    /\ pc[t] = "check"
    /\ Goto(t, IF resizing THEN "backoff" ELSE "size")
    /\ UNCHANGED <<heap, manager, thread, resizer, history>>

-----------------------------------------------------------------------------
(* size() and space_avail().                                               *)

SizeEnter(t) ==
    /\ pc[t] = "size"
    /\ checking_size' = checking_size + 1
    /\ Goto(t, "size_check")
    /\ UNCHANGED <<heap, buffer, thread_access, resizing, exit_alloc, thread, resizer, history>>

\* Mutant: a size() that has to wait does not take back its count.
SizeCheck_leaks(t) ==
    /\ pc[t] = "size_check"
    /\ Goto(t, IF resizing THEN "size" ELSE "size_read")
    /\ UNCHANGED <<heap, manager, thread, resizer, history>>

SizeCheck(t) ==
    /\ pc[t] = "size_check"
    /\ \/ /\ resizing
          /\ checking_size' = checking_size - 1
          /\ Goto(t, "size")
       \/ /\ ~resizing
          /\ Goto(t, "size_read")
          /\ UNCHANGED checking_size
    /\ UNCHANGED <<heap, buffer, thread_access, resizing, exit_alloc, thread, resizer, history>>

SizeRead(t) ==
    /\ pc[t] = "size_read"
    /\ res' = [res EXCEPT ![t] = IF t = P THEN capacity(buffer) - SizeIn(buffer) ELSE SizeIn(buffer)]
    /\ Goto(t, "size_exit")
    /\ UNCHANGED <<heap, manager, op, n, ta, bp, ret, resizer, history>>

\* What the scheduler does with the size is the subject of Schedule.
SizeExit(t) ==
    /\ pc[t] = "size_exit"
    /\ checking_size' = checking_size - 1
    /\ \/ /\ op[t] # "size"
          /\ Goto(t, ret[t])
          /\ UNCHANGED <<op, res>>
       \/ /\ op[t] = "size"
          /\ Goto(t, "idle")
          /\ op' = [op EXCEPT ![t] = "none"]
          /\ res' = [res EXCEPT ![t] = 0]
    /\ UNCHANGED <<heap, buffer, thread_access, resizing, exit_alloc, n, ta, bp, ret, resizer, history>>

Size(t) == SizeEnter(t) \/ SizeCheck(t) \/ SizeRead(t) \/ SizeExit(t)

-----------------------------------------------------------------------------
(* The producer.                                                           *)

Spin ==
    /\ pc[P] = "admit"
    /\ res[P] < n[P]
    /\ Goto(P, "backoff")
    /\ UNCHANGED <<heap, manager, thread, resizer, history>>

\* How many places slot s is behind the write pointer of buffer b.
Behind(b, s) == (s + capacity(b) - val(heap[b].write_pt)) % capacity(b)

\* The arrays of buffer b after the next k items, and their signals, are written.
Items(b, k) == [s \in Slot |->
    IF s < capacity(b) /\ Behind(b, s) < k THEN sent + 1 + Behind(b, s) ELSE heap[b].store[s]]
NoSignals(b, k) == [s \in Slot |->
    IF s < capacity(b) /\ Behind(b, s) < k THEN 0 ELSE heap[b].signal[s]]

\* Buffer b with a signal at its write pointer, which moves on by k.
Published(b, k) ==
    [heap[b] EXCEPT !.signal[val(heap[b].write_pt)] = sent + 1,
                    !.write_pt = IncWrap(IncIndex(@, k, capacity(b)), k)]

LocalPush ==
    /\ pc[P] = "admit"
    /\ op[P] = "push"
    /\ res[P] >= n[P]
    /\ heap' = [heap EXCEPT ![buffer] =
                    [Published(buffer, 1) EXCEPT !.store = Items(buffer, 1)]]
    /\ sent' = sent + 1
    /\ Goto(P, "exit")
    /\ UNCHANGED <<manager, thread, resizer, taken, got, error>>

\* Mutant: allocate leaves the buffer as soon as it has the reference.
LocalAllocate_exits ==
    /\ pc[P] = "admit"
    /\ op[P] \in {"allocate", "allocate_range"}
    /\ res[P] >= n[P]
    /\ heap' = [heap EXCEPT ![thread_access].access[P] = @ \ {op[P]}]
    /\ bp' = [bp EXCEPT ![P] = buffer]
    /\ res' = [res EXCEPT ![P] = 0]
    /\ Goto(P, "held")
    /\ UNCHANGED <<manager, op, n, ta, ret, resizer, history>>

\* allocate and allocate_range return references into the buffer, and leave
\* their flag set; allocate_range resets the signals of its slots.
LocalAllocate ==
    /\ pc[P] = "admit"
    /\ op[P] \in {"allocate", "allocate_range"}
    /\ res[P] >= n[P]
    /\ heap' = IF op[P] = "allocate" THEN heap
               ELSE [heap EXCEPT ![buffer].signal = NoSignals(buffer, n[P])]
    /\ bp' = [bp EXCEPT ![P] = buffer]
    /\ res' = [res EXCEPT ![P] = 0]
    /\ Goto(P, "held")
    /\ UNCHANGED <<manager, op, n, ta, ret, resizer, history>>

\* The kernel writes through the references.
Fill ==
    /\ pc[P] = "held"
    /\ heap' = [heap EXCEPT ![bp[P]].store = Items(bp[P], n[P])]
    /\ Goto(P, "filled")
    /\ UNCHANGED <<manager, thread, resizer, history>>

\* send and send_range look the buffer up again.
Send ==
    /\ pc[P] = "filled"
    /\ heap' = [heap EXCEPT ![buffer] = Published(buffer, n[P])]
    /\ sent' = sent + n[P]
    /\ bp' = [bp EXCEPT ![P] = 0]
    /\ Goto(P, "exit")
    /\ UNCHANGED <<manager, op, n, ta, ret, res, resizer, taken, got, error>>

\* deallocate takes back the flag of allocate, whichever of the two was called.
Deallocate ==
    /\ pc[P] \in {"held", "filled"}
    /\ op' = [op EXCEPT ![P] = "allocate"]
    /\ bp' = [bp EXCEPT ![P] = 0]
    /\ Goto(P, "exit")
    /\ UNCHANGED <<heap, manager, n, ta, ret, res, resizer, history>>

\* The kernel has stopped, perhaps with an allocation that it never sent.
\* invalidate() looks the buffer up and stores into it, and does not announce
\* that to the data manager.
Invalidate ==
    /\ \/ /\ pc[P] \in {"idle", "held", "filled"}
          /\ bp' = [bp EXCEPT ![P] = buffer]
          /\ Goto(P, "invalidate")
          /\ UNCHANGED heap
       \/ /\ pc[P] = "invalidate"
          /\ heap' = [heap EXCEPT ![bp[P]].is_valid = FALSE]
          /\ Goto(P, "done")
          /\ bp' = [bp EXCEPT ![P] = 0]
    /\ UNCHANGED <<manager, op, n, ta, ret, res, resizer, history>>

-----------------------------------------------------------------------------
(* The consumer.                                                           *)

\* The item at the head of buffer b.
Head0(b) ==
    LET r == val(heap[b].read_pt)
    IN  [pos |-> taken + 1, item |-> heap[b].store[r], sig |-> heap[b].signal[r]]

Advance(b) == [heap[b] EXCEPT !.read_pt = IncWrap(IncIndex(@, 1, capacity(b)), 1)]

\* Nothing there: look whether the stream is closed.  If it is not, recycle and
\* peek leave before they try again; pop tries again without leaving.
Empty ==
    /\ pc[C] = "admit"
    /\ res[C] = 0
    /\ \/ /\ heap[buffer].is_valid
          /\ Goto(C, IF op[C] = "pop" THEN "enter" ELSE "backoff")
          /\ UNCHANGED ret
       \/ /\ ~heap[buffer].is_valid
          /\ ret' = [ret EXCEPT ![C] = "drained"]
          /\ Goto(C, "size")
    /\ UNCHANGED <<heap, manager, op, n, ta, bp, res, resizer, history>>

\* Closed: with nothing left pop and peek throw, and recycle returns.
Drained ==
    /\ pc[C] = "drained"
    /\ ret' = [ret EXCEPT ![C] = "admit"]
    /\ \/ /\ res[C] # 0
          /\ Goto(C, IF op[C] = "pop" THEN "enter" ELSE "backoff")
          /\ UNCHANGED error
       \/ /\ res[C] = 0 /\ op[C] = "recycle"
          /\ Goto(C, "exit")
          /\ UNCHANGED error
       \/ /\ res[C] = 0 /\ op[C] # "recycle"
          /\ Goto(C, "failed")
          /\ error' = "closed"
    /\ UNCHANGED <<heap, manager, op, n, ta, bp, res, resizer, sent, taken, got>>

LocalPop ==
    /\ pc[C] = "admit"
    /\ op[C] \in {"pop", "recycle"}
    /\ res[C] > 0
    /\ got' = IF op[C] = "pop" THEN Head0(buffer) ELSE got
    /\ heap' = [heap EXCEPT ![buffer] = Advance(buffer)]
    /\ taken' = taken + 1
    /\ Goto(C, "exit")
    /\ UNCHANGED <<manager, thread, resizer, sent, error>>

\* peek returns a reference into the buffer, and leaves its flag set.
LocalPeek ==
    /\ pc[C] = "admit"
    /\ op[C] = "peek"
    /\ res[C] > 0
    /\ bp' = [bp EXCEPT ![C] = buffer]
    /\ res' = [res EXCEPT ![C] = 0]
    /\ Goto(C, "held")
    /\ UNCHANGED <<heap, manager, op, n, ta, ret, resizer, history>>

LookAt ==
    /\ pc[C] = "held"
    /\ got' = Head0(bp[C])
    /\ UNCHANGED <<heap, manager, pc, thread, resizer, sent, taken, error>>

Unpeek ==
    /\ pc[C] = "held"
    /\ bp' = [bp EXCEPT ![C] = 0]
    /\ Goto(C, "exit")
    /\ UNCHANGED <<heap, manager, op, n, ta, ret, res, resizer, history>>

\* The kernel recycles what it peeked at instead: the flag of peek stays set.
RecyclePeeked ==
    /\ pc[C] = "held"
    /\ "recycle" \in ConsumerOps
    /\ op' = [op EXCEPT ![C] = "recycle"]
    /\ bp' = [bp EXCEPT ![C] = 0]
    /\ Goto(C, "enter")
    /\ UNCHANGED <<heap, manager, n, ta, ret, res, resizer, history>>

\* The scheduler calls is_invalid(), which looks the buffer up and loads from it.
IsInvalid ==
    /\ \/ /\ pc[C] = "idle"
          /\ "is_invalid" \in ConsumerOps
          /\ bp' = [bp EXCEPT ![C] = buffer]
          /\ Goto(C, "is_invalid")
       \/ /\ pc[C] = "is_invalid"
          /\ bp' = [bp EXCEPT ![C] = 0]
          /\ Goto(C, "idle")
    /\ UNCHANGED <<heap, manager, op, n, ta, ret, res, resizer, history>>

-----------------------------------------------------------------------------
(* The allocator's thread: resize().                                       *)

Step(from, to) == rpc = from /\ rpc' = to

\* The monitor finds the stream blocked: a buffer of twice the capacity.
Resize ==
    /\ buffer < MaxResize
    /\ 2 * capacity(buffer) <= MaxCap
    /\ Step("idle", "test")
    /\ new_buffer' = buffer + 1
    /\ old_buffer' = buffer
    /\ heap' = [heap EXCEPT ![buffer + 1] = NewBuffer(2 * capacity(buffer), "live")]
    /\ UNCHANGED <<manager, pc, thread, history>>

\* Nothing to do any more: throw the new buffer away.
Abandon ==
    /\ exit_alloc \/ ~heap[old_buffer].is_valid
    /\ Step("test", "idle")
    /\ heap' = [heap EXCEPT ![new_buffer] = NewBuffer(InitCap, "none")]
    /\ resizing' = FALSE
    /\ UNCHANGED <<buffer, thread_access, checking_size, exit_alloc, pc, thread,
                   new_buffer, old_buffer, history>>

SetResizing ==
    /\ ~exit_alloc /\ heap[old_buffer].is_valid
    /\ Step("test", "clear_producer")
    /\ resizing' = TRUE
    /\ UNCHANGED <<heap, buffer, thread_access, checking_size, exit_alloc, pc, thread,
                   new_buffer, old_buffer, history>>

\* Mutant: allclear looks at the producer's flags only (i < 1 for i < 2).
AllClear_producerOnly ==
    /\ \/ rpc = "clear_producer" /\ rpc' = IF heap[thread_access].access[P] = {}
                                           THEN "clear_size" ELSE "back"
       \/ rpc = "clear_size" /\ rpc' = IF checking_size = 0 THEN "condition" ELSE "back"
    /\ UNCHANGED <<heap, manager, pc, thread, new_buffer, old_buffer, history>>

\* allclear: the two flag words, then the counter.
AllClear ==
    /\ \/ rpc = "clear_producer" /\ rpc' = IF heap[thread_access].access[P] = {}
                                           THEN "clear_consumer" ELSE "back"
       \/ rpc = "clear_consumer" /\ rpc' = IF heap[thread_access].access[C] = {}
                                           THEN "clear_size" ELSE "back"
       \/ rpc = "clear_size" /\ rpc' = IF checking_size = 0 THEN "condition" ELSE "back"
    /\ UNCHANGED <<heap, manager, pc, thread, new_buffer, old_buffer, history>>

\* Mutant: equal indices are taken for a buffer that can be copied.
buffercondition_orEqual == val(heap[old_buffer].read_pt) <= val(heap[old_buffer].write_pt)

\* The only case in which the items are in one piece and in place: rpt < wpt.
buffercondition == val(heap[old_buffer].read_pt) < val(heap[old_buffer].write_pt)

BufferCondition ==
    /\ rpc = "condition"
    /\ rpc' = IF buffercondition THEN "copy" ELSE "back"
    /\ UNCHANGED <<heap, manager, pc, thread, new_buffer, old_buffer, history>>

Back ==
    /\ Step("back", "test")
    /\ resizing' = FALSE
    /\ UNCHANGED <<heap, buffer, thread_access, checking_size, exit_alloc, pc, thread,
                   new_buffer, old_buffer, history>>

\* The signals that copyFrom copies: length_signal is sizeof( T ) * max_cap bytes.
SignalsCopied(b) == (capacity(b) * SizeofT) \div SizeofSignal

\* copyFrom( old_buffer ): what the new buffer is after it.
Copied ==
    LET old == heap[old_buffer]
        new == heap[new_buffer]
    IN  [new EXCEPT
            !.read_pt = CopyPointer(old.read_pt),
            !.write_pt = CopyPointer(old.write_pt),
            !.is_valid = old.is_valid,
            !.store = [s \in Slot |->
                IF s < capacity(old_buffer) THEN old.store[s] ELSE new.store[s]],
            !.signal = [s \in Slot |->
                IF s < capacity(old_buffer) /\ s < SignalsCopied(old_buffer)
                THEN old.signal[s] ELSE new.signal[s]],
            !.access = old.access]

\* Mutant: the new buffer keeps the read pointer that it was made with.
CopyFrom_newReadPt ==
    /\ Step("copy", "set_buffer")
    /\ heap' = [heap EXCEPT ![new_buffer] = [Copied EXCEPT !.read_pt = heap[new_buffer].read_pt]]
    /\ UNCHANGED <<manager, pc, thread, new_buffer, old_buffer, history>>

CopyFrom ==
    /\ Step("copy", "set_buffer")
    /\ heap' = [heap EXCEPT ![new_buffer] = Copied]
    /\ UNCHANGED <<manager, pc, thread, new_buffer, old_buffer, history>>

\* set( new_buffer ): the buffer, then the flags.
SetBuffer ==
    /\ \/ /\ Step("set_buffer", "set_access")
          /\ buffer' = new_buffer
          /\ UNCHANGED thread_access
       \/ /\ Step("set_access", "delete")
          /\ thread_access' = new_buffer
          /\ UNCHANGED buffer
    /\ UNCHANGED <<heap, resizing, checking_size, exit_alloc, pc, thread,
                   new_buffer, old_buffer, history>>

DeleteOld ==
    /\ Step("delete", "finish")
    /\ heap' = [heap EXCEPT ![old_buffer] = NewBuffer(InitCap, "deleted")]
    /\ UNCHANGED <<manager, pc, thread, new_buffer, old_buffer, history>>

FinishResize ==
    /\ Step("finish", "idle")
    /\ resizing' = FALSE
    /\ UNCHANGED <<heap, buffer, thread_access, checking_size, exit_alloc, pc, thread,
                   new_buffer, old_buffer, history>>

\* map::exe sets exit_alloc once every kernel has finished.
ExitAlloc ==
    /\ pc[P] = "done" /\ pc[C] = "failed"
    /\ ~exit_alloc
    /\ exit_alloc' = TRUE
    /\ UNCHANGED <<heap, buffer, thread_access, resizing, checking_size, pc, thread,
                   resizer, history>>

-----------------------------------------------------------------------------
Access(t) == LoadAccess(t) \/ SetFlag(t) \/ ClearFlag(t) \/ CheckResizing(t) \/ Size(t)

ProducerNext ==
    \/ \E o \in ProducerOps, k \in Ranges \cup {1} : Call(P, o, k)
    \/ Access(P)
    \/ Spin \/ LocalPush \/ LocalAllocate \/ Fill \/ Send \/ Deallocate \/ Invalidate

ConsumerNext ==
    \/ \E o \in ConsumerOps : Call(C, o, 1)
    \/ Access(C)
    \/ Empty \/ Drained \/ LocalPop \/ LocalPeek \/ LookAt \/ Unpeek \/ RecyclePeeked
    \/ IsInvalid

ResizerNext ==
    \/ Resize \/ Abandon \/ SetResizing \/ AllClear \/ BufferCondition \/ Back
    \/ CopyFrom \/ SetBuffer \/ DeleteOld \/ FinishResize \/ ExitAlloc

Next == ProducerNext \/ ConsumerNext \/ ResizerNext

Spec == Init /\ [][Next]_vars

\* All three threads keep running.
FairSpec ==
    Spec /\ WF_vars(ProducerNext) /\ WF_vars(ConsumerNext) /\ WF_vars(ResizerNext)

-----------------------------------------------------------------------------
(* Properties.                                                             *)

\* The labels of a thread that has entered the buffer and been let in, and the
\* threads that are there; a size() of the scheduler is when it has found resizing
\* to be false.
Inside == {"size", "size_check", "size_read", "size_exit", "admit", "drained",
           "held", "filled"}
IsInside(t) == pc[t] \in IF op[t] = "size" THEN {"size_read", "size_exit"} ELSE Inside

Label == Inside \cup {"idle", "enter", "set", "check", "backoff", "clear_retry",
                      "exit", "clear", "invalidate", "done", "is_invalid", "failed"}

BufferType ==
    [max_cap : 1 .. MaxCap, write_pt : PointerType(MaxCap), read_pt : PointerType(MaxCap),
     store : [Slot -> Nat], signal : [Slot -> Nat],
     is_valid : BOOLEAN, state : {"none", "live", "deleted"},
     access : [Thread -> SUBSET {"push", "allocate", "allocate_range", "pop", "recycle", "peek"}]]

\* Every variable has its type; the indices of a buffer stay below its capacity,
\* and the counter of size() never goes below zero.
TypeOK ==
    /\ heap \in [Buffers -> BufferType]
    /\ \A b \in Buffers : val(heap[b].write_pt) < capacity(b) /\ val(heap[b].read_pt) < capacity(b)
    /\ buffer \in Buffers /\ thread_access \in Buffers
    /\ resizing \in BOOLEAN /\ exit_alloc \in BOOLEAN
    /\ checking_size \in 0 .. 2
    /\ pc \in [Thread -> Label]
    /\ op \in [Thread -> {"none", "push", "allocate", "allocate_range",
                          "pop", "recycle", "peek", "size"}]
    /\ n \in [Thread -> Ranges \cup {1}]
    /\ ta \in [Thread -> Buffers] /\ bp \in [Thread -> Buffers]
    /\ ret \in [Thread -> {"admit", "drained"}]
    /\ res \in [Thread -> 0 .. MaxCap]
    /\ rpc \in {"idle", "test", "clear_producer", "clear_consumer", "clear_size",
                "condition", "back", "copy", "set_buffer", "set_access", "delete", "finish"}
    /\ new_buffer \in Buffers /\ old_buffer \in Buffers
    /\ sent \in Nat /\ taken \in Nat
    /\ got \in [pos : Nat, item : Nat, sig : Nat]
    /\ error \in {"none", "closed"}

\* While the allocator's thread copies, switches and deletes, no other thread is
\* inside the buffer (datamanager.tcc:166, "free to copy").
ResizeExcludes ==
    rpc \in {"copy", "set_buffer", "set_access", "delete"} => \A t \in Thread : ~IsInside(t)

\* The reference that a kernel holds between allocate and send, or between peek
\* and unpeek, stays a reference into the current buffer.
HeldReferencesAreCurrent ==
    \A t \in Thread : pc[t] \in {"held", "filled"} => bp[t] = buffer

\* Nothing is lost, repeated or reordered by a resize: the consumer reads the
\* k-th item sent as the k-th, with the signal that was sent with it, or none.
InOrder == got.item = got.pos /\ got.sig \in {0, got.pos}

\* A resize leaves the items of a stream alone: through all of it those between
\* the two pointers of the current buffer are the contents of a FIFO channel, whose
\* capacity only the switch to the new buffer changes.  What that switch may do
\* besides is to forget that the stream was closed (Replace of FifoChannel).
Contents ==
    [i \in 1 .. sent - taken |->
        heap[buffer].store[(val(heap[buffer].read_pt) + i - 1) % capacity(buffer)]]
Channel == INSTANCE FifoChannel WITH
    MaxRange <- MaxCap,
    cap <- capacity(buffer),
    q <- Contents,
    next <- sent + 1,
    closed <- ~heap[buffer].is_valid,
    seen <- got.item

ImplementsChannel == Channel!ResizableSpec

\* datamanager.tcc:166, "At this point nobody should have outstanding references
\* to the old buff": no thread goes on to use a reference into a deleted buffer.
NoOutstandingReference ==
    \A t \in Thread :
        /\ pc[t] \in {"set", "clear", "clear_retry"} => heap[ta[t]].state # "deleted"
        /\ pc[t] \in {"held", "filled", "invalidate", "is_invalid"} => heap[bp[t]].state # "deleted"

\* bufferdata.tcc:167, "stats objects are still valid": a thread that counts an
\* item counts it in a buffer that still exists.
StatsAreValid == (\E t \in Thread : pc[t] = "admit") => heap[stats].state # "deleted"

\* fifo.hpp:255, a signal is "guaranteed to be delivered at the same time as the
\* object": an item that push sent with a signal is read with it.
SignalWithItem == got.sig = got.pos

\* ringbufferheap_abstract.tcc:107, invalidate labels the queue as invalid: a
\* consumer that keeps popping is told.
CloseIsNoticed == pc[P] = "done" ~> error = "closed"
=============================================================================
