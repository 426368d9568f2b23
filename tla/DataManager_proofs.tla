------------------------- MODULE DataManager_proofs -------------------------
(***************************************************************************)
(* Proofs about replacing the buffer of a stream, for every capacity,      *)
(* range length and number of items: the types for any number of resizes,  *)
(* the exclusion for the first resize of a stream.                         *)
(***************************************************************************)
EXTENDS DataManager, Integers, TLAPS

-----------------------------------------------------------------------------
(* The inductive invariant.                                                *)

\* The labels of resize() before the copy, and before the switch.
Waiting == {"test", "clear_producer", "clear_consumer", "clear_size", "condition",
            "back", "copy"}
BeforeSwitch == Waiting \cup {"set_buffer"}

\* Which buffers the resizer and the two pointers of the manager are at.
Places ==
    /\ rpc = "idle" => thread_access = buffer
    /\ rpc \in BeforeSwitch => buffer = old_buffer /\ thread_access = old_buffer
    /\ rpc = "set_access" => buffer = new_buffer /\ thread_access = old_buffer
    /\ rpc \in {"delete", "finish"} => buffer = new_buffer /\ thread_access = new_buffer
    /\ rpc # "idle" => new_buffer = old_buffer + 1
    /\ resizing <=> rpc \notin {"idle", "test"}
    /\ rpc \in BeforeSwitch => capacity(new_buffer) = 2 * capacity(old_buffer)

\* The counter of size() counts the threads that are in it.
Counts(t) == IF pc[t] \in {"size_check", "size_read", "size_exit"} THEN 1 ELSE 0
Counted == checking_size = Counts(P) + Counts(C)

\* A thread in a kernel's call has a flag to set; size() needs none.
Calling ==
    \A t \in Thread :
        /\ op[t] = "none" => pc[t] \in {"idle", "invalidate", "done", "is_invalid"}
        /\ op[t] = "size" => pc[t] \in {"size", "size_check", "size_read", "size_exit"}

TInv == TypeOK /\ Places /\ Counted /\ Calling

\* Every kernel's call that is inside, or looks whether it may go on, has its flag
\* set where the resizer looks, and no store of a flag is on its way elsewhere.
Flagged(t) == pc[t] \in Inside /\ op[t] # "size"
Announced ==
    \A t \in Thread :
        /\ Flagged(t) \/ pc[t] = "check" => op[t] \in heap[thread_access].access[t]
        /\ pc[t] = "set" => ta[t] = thread_access

\* While the resizer may be looking at the flags they tell the truth, and so they
\* do as long as no buffer has been replaced.
FlagsTell == rpc \in Waiting \/ (rpc = "idle" /\ buffer = 0) => Announced

\* A thread that the resizer has found outside stays outside until it is done.
PastProducer == {"clear_consumer", "clear_size", "condition", "copy", "set_buffer",
                 "set_access", "delete"}
PastConsumer == PastProducer \ {"clear_consumer"}
PastSize == PastConsumer \ {"clear_size"}
StaysOut ==
    /\ rpc \in PastProducer => ~Flagged(P)
    /\ rpc \in PastConsumer => ~Flagged(C)
    /\ rpc \in PastSize => \A t \in Thread : ~IsInside(t)

EInv == TInv /\ FlagsTell /\ StaysOut /\ HeldReferencesAreCurrent

-----------------------------------------------------------------------------
(* Arithmetic of a ring of cap slots.                                      *)

\* Moving an index by k <= cap places is an addition and at most one subtraction.
LEMMA IndexMoves ==
    ASSUME NEW cap \in Nat \ {0}, NEW a \in 0 .. cap - 1, NEW k \in 0 .. cap
    PROVE  /\ (a + k) % cap = IF a + k < cap THEN a + k ELSE a + k - cap
           /\ (a + k) % cap \in 0 .. cap - 1
  BY SMT

\* An index stays below the capacity however far it moves.
LEMMA IndexInRange ==
    ASSUME NEW cap \in Nat \ {0}, NEW a \in Nat
    PROVE  a % cap \in 0 .. cap - 1
  BY SMT

\* The two stores of Pointer::incBy together.
LEMMA PointerMoves ==
    ASSUME NEW ptr \in [a : Nat, wrap : Nat], NEW k \in Nat, NEW cap \in Nat \ {0}
    PROVE  /\ IncWrap(IncIndex(ptr, k, cap), k) \in [a : 0 .. cap - 1, wrap : Nat]
           /\ IncWrap(IncIndex(ptr, k, cap), k).a = (ptr.a + k) % cap
           /\ IncWrap(IncIndex(ptr, k, cap), k).wrap =
                IF (ptr.a + k) % cap < k THEN ptr.wrap + 1 ELSE ptr.wrap
  <1> DEFINE x == (ptr.a + k) % cap
  <1>1. ptr.a + k \in Nat
    OBVIOUS
  <1>2. x \in 0 .. cap - 1
    BY <1>1, IndexInRange
  <1>3. IncIndex(ptr, k, cap) = [ptr EXCEPT !.a = x]
    BY DEF IncIndex
  <1> HIDE DEF x
  <1>4. [ptr EXCEPT !.a = x] = [a |-> x, wrap |-> ptr.wrap]
    OBVIOUS
  <1>5. IncWrap([a |-> x, wrap |-> ptr.wrap], k) =
            [a |-> x, wrap |-> IF x < k THEN ptr.wrap + 1 ELSE ptr.wrap]
    BY DEF IncWrap
  <1>6. ptr.wrap \in Nat
    OBVIOUS
  <1> QED
    BY <1>2, <1>3, <1>4, <1>5, <1>6 DEF x

\* How far slot s is behind index a.
Offset(cap, a, s) == IF s >= a THEN s - a ELSE cap - a + s

\* The offset is what Behind computes, and it is below the capacity.
LEMMA OffsetIs ==
    ASSUME NEW cap \in Nat \ {0}, NEW a \in 0 .. cap - 1, NEW s \in 0 .. cap - 1
    PROVE  /\ (s + cap - a) % cap = Offset(cap, a, s)
           /\ Offset(cap, a, s) \in 0 .. cap - 1
  BY SMT DEF Offset

-----------------------------------------------------------------------------
(* Types.                                                                  *)

\* A buffer whose fields have their types and whose indices are below its capacity.
Sound(r) == r \in BufferType /\ r.write_pt.a < r.max_cap /\ r.read_pt.a < r.max_cap
HeapSound ==
    /\ heap \in [Buffers -> BufferType]
    /\ \A b \in Buffers : val(heap[b].write_pt) < capacity(b) /\ val(heap[b].read_pt) < capacity(b)

\* What TypeOK says of one buffer, field by field.
LEMMA HeapIsSound ==
    ASSUME TypeOK, NEW b \in Buffers
    PROVE  /\ Sound(heap[b]) /\ HeapSound
           /\ capacity(b) \in 1 .. MaxCap /\ capacity(b) = heap[b].max_cap
           /\ heap[b].write_pt \in [a : Nat, wrap : Nat] /\ heap[b].read_pt \in [a : Nat, wrap : Nat]
           /\ heap[b].store \in [Slot -> Nat] /\ heap[b].signal \in [Slot -> Nat]
           /\ heap[b].is_valid \in BOOLEAN
           /\ heap[b].state \in {"none", "live", "deleted"}
           /\ heap[b].access \in [Thread -> SUBSET {"push", "allocate", "allocate_range",
                                                    "pop", "recycle", "peek"}]
           /\ heap[b].write_pt.a \in Slot /\ heap[b].read_pt.a \in Slot
  <1>1. heap[b] \in BufferType /\ val(heap[b].write_pt) < capacity(b) /\ val(heap[b].read_pt) < capacity(b)
    BY DEF TypeOK
  <1>2. Sound(heap[b]) /\ HeapSound
    BY <1>1 DEF TypeOK, Sound, HeapSound, capacity, val
  <1>3. /\ heap[b].max_cap \in 1 .. MaxCap
        /\ heap[b].write_pt \in PointerType(MaxCap) /\ heap[b].read_pt \in PointerType(MaxCap)
        /\ heap[b].store \in [Slot -> Nat] /\ heap[b].signal \in [Slot -> Nat]
        /\ heap[b].is_valid \in BOOLEAN
        /\ heap[b].state \in {"none", "live", "deleted"}
        /\ heap[b].access \in [Thread -> SUBSET {"push", "allocate", "allocate_range",
                                                 "pop", "recycle", "peek"}]
    BY <1>1 DEF BufferType
  <1>4. /\ heap[b].write_pt \in [a : Nat, wrap : Nat] /\ heap[b].read_pt \in [a : Nat, wrap : Nat]
        /\ heap[b].write_pt.a \in Slot /\ heap[b].read_pt.a \in Slot
    BY <1>3, InitCapAssumption DEF PointerType, Slot
  <1> QED
    BY <1>2, <1>3, <1>4 DEF capacity

\* Replacing one buffer by a sound one keeps the heap sound.
LEMMA HeapUpdate ==
    ASSUME HeapSound, NEW b \in Buffers, NEW r, Sound(r), heap' = [heap EXCEPT ![b] = r]
    PROVE  HeapSound'
  BY DEF HeapSound, Sound, capacity, val

\* A buffer as its constructor leaves it is sound.
LEMMA NewBufferSound ==
    ASSUME NEW cap \in 1 .. MaxCap, NEW state \in {"none", "live", "deleted"}
    PROVE  Sound(NewBuffer(cap, state))
  BY InitCapAssumption DEF Sound, NewBuffer, NewPointer, BufferType, PointerType, Slot

\* The lengths that the calls ask for are positive.
LEMMA RangesAreNumbers ==
    ASSUME NEW k \in Ranges \cup {1}
    PROVE  k \in Nat \ {0}
  <1>1. CASE k \in Ranges
    BY <1>1, BoundsAssumption
  <1>2. CASE k = 1
    BY <1>2
  <1> QED
    BY <1>1, <1>2

\* The same in numbers.
LEMMA Indices ==
    ASSUME TypeOK, NEW b \in Buffers
    PROVE  /\ capacity(b) \in Nat \ {0} /\ capacity(b) <= MaxCap /\ MaxCap \in Nat
           /\ heap[b].write_pt.a \in 0 .. capacity(b) - 1 /\ heap[b].write_pt.wrap \in Nat
           /\ heap[b].read_pt.a \in 0 .. capacity(b) - 1 /\ heap[b].read_pt.wrap \in Nat
  <1>1. /\ heap[b].write_pt.a \in Nat /\ heap[b].write_pt.wrap \in Nat
        /\ heap[b].read_pt.a \in Nat /\ heap[b].read_pt.wrap \in Nat
    BY HeapIsSound
  <1>2. heap[b].write_pt.a < capacity(b) /\ heap[b].read_pt.a < capacity(b)
    BY HeapIsSound DEF Sound
  <1>3. capacity(b) \in 1 .. MaxCap
    BY HeapIsSound
  <1> QED
    BY <1>1, <1>2, <1>3, InitCapAssumption

\* size() is between nothing and the capacity.
LEMMA SizeInRange ==
    ASSUME TypeOK, NEW b \in Buffers
    PROVE  SizeIn(b) \in 0 .. capacity(b)
  BY Indices DEF SizeIn, val

\* The slot s of buffer b is so many places behind the write pointer.
LEMMA BehindIs ==
    ASSUME TypeOK, NEW b \in Buffers, NEW s \in Slot, s < capacity(b)
    PROVE  /\ Behind(b, s) = Offset(capacity(b), heap[b].write_pt.a, s)
           /\ Behind(b, s) \in Nat /\ Behind(b, s) < capacity(b)
  <1>1. /\ capacity(b) \in Nat \ {0} /\ heap[b].write_pt.a \in 0 .. capacity(b) - 1
        /\ s \in 0 .. capacity(b) - 1
    BY Indices DEF Slot
  <1>2. /\ Behind(b, s) = Offset(capacity(b), heap[b].write_pt.a, s)
        /\ Offset(capacity(b), heap[b].write_pt.a, s) \in 0 .. capacity(b) - 1
    BY <1>1, OffsetIs DEF Behind, val
  <1> QED
    BY <1>1, <1>2

\* What is left to show of TypeOK and Places once the heap is known to be sound.
OthersTyped ==
    /\ buffer \in Buffers /\ thread_access \in Buffers
    /\ resizing \in BOOLEAN /\ exit_alloc \in BOOLEAN
    /\ pc \in [Thread -> Label]
    /\ op \in [Thread -> {"none", "push", "allocate", "allocate_range", "pop", "recycle", "peek", "size"}]
    /\ n \in [Thread -> Ranges \cup {1}]
    /\ ta \in [Thread -> Buffers] /\ bp \in [Thread -> Buffers]
    /\ ret \in [Thread -> {"admit", "drained"}]
    /\ res \in [Thread -> 0 .. MaxCap]
    /\ rpc \in {"idle", "test", "clear_producer", "clear_consumer", "clear_size",
                "condition", "back", "copy", "set_buffer", "set_access", "delete", "finish"}
    /\ new_buffer \in Buffers /\ old_buffer \in Buffers
    /\ sent \in Nat /\ taken \in Nat
    /\ got \in [pos : Nat, item : Nat, sig : Nat]
    /\ error \in {"none", "closed"}

\* TypeOK in three parts, of which most steps touch one.
LEMMA TypedParts == TypeOK <=> HeapSound /\ OthersTyped /\ checking_size \in 0 .. 2
  BY DEF TypeOK, HeapSound, OthersTyped

\* A thread counts for at most one.
LEMMA CountsInRange ==
    ASSUME Counted
    PROVE  checking_size \in 0 .. 2
  BY DEF Counted, Counts

\* A step that leaves the heap, the manager and the resizer alone.
LEMMA ThreadStepTyped ==
    ASSUME TInv, HeapSound', OthersTyped', Counted', Calling',
           \A b \in Buffers : heap'[b].max_cap = heap[b].max_cap,
           UNCHANGED <<buffer, thread_access, resizing, resizer>>
    PROVE  TInv'
  <1>1. checking_size' \in 0 .. 2
    BY DEF Counted, Counts
  <1>2. TypeOK'
    BY <1>1 DEF TypeOK, HeapSound, OthersTyped
  <1>3. Places'
    BY DEF TInv, TypeOK, Places, resizer, capacity, BeforeSwitch, Waiting
  <1> QED
    BY <1>2, <1>3 DEF TInv

\* Entering, leaving and asking for the size keep the types.
LEMMA AccessTyped ==
    ASSUME TInv, NEW t \in Thread,
           \/ LoadAccess(t) \/ CheckResizing(t)
           \/ SizeEnter(t) \/ SizeCheck(t) \/ SizeRead(t) \/ SizeExit(t)
    PROVE  TInv'
  <1> USE DEF TInv, Goto, Thread, P, C, manager, thread, resizer, history
  <1>1. HeapSound /\ OthersTyped /\ checking_size \in 0 .. 2
    BY TypedParts
  <1>2. heap' = heap /\ UNCHANGED <<buffer, thread_access, resizing, resizer>> /\ HeapSound'
    BY <1>1 DEF LoadAccess, CheckResizing, SizeEnter, SizeCheck, SizeRead, SizeExit, HeapSound,
       capacity
  <1>3. CASE LoadAccess(t)
    BY <1>1, <1>2, <1>3, ThreadStepTyped, InitCapAssumption
       DEF LoadAccess, OthersTyped, Label, Inside, Counted, Counts, Calling
  <1>4. CASE CheckResizing(t)
    BY <1>1, <1>2, <1>4, ThreadStepTyped DEF CheckResizing, OthersTyped, Label, Inside, Counted, Counts, Calling
  <1>5. CASE SizeEnter(t)
    BY <1>1, <1>2, <1>5, ThreadStepTyped DEF SizeEnter, OthersTyped, Label, Inside, Counted, Counts, Calling
  <1>6. CASE SizeCheck(t)
    BY <1>1, <1>2, <1>6, ThreadStepTyped DEF SizeCheck, OthersTyped, Label, Inside, Counted, Counts, Calling
  <1>7. CASE SizeRead(t)
    <2>1. /\ capacity(buffer) - SizeIn(buffer) \in 0 .. MaxCap
          /\ SizeIn(buffer) \in 0 .. MaxCap
      BY <1>1, SizeInRange, HeapIsSound, InitCapAssumption DEF OthersTyped
    <2>2. res' \in [Thread -> 0 .. MaxCap]
      BY <1>1, <1>7, <2>1 DEF SizeRead, OthersTyped
    <2>3. pc' = [pc EXCEPT ![t] = "size_exit"] /\ pc[t] = "size_read"
          /\ UNCHANGED <<heap, manager, op, n, ta, bp, ret, resizer, history>>
      BY <1>7 DEF SizeRead
    <2> QED
      BY <1>1, <1>2, <2>2, <2>3, ThreadStepTyped DEF OthersTyped, Label, Inside, Counted, Counts, Calling
  <1>8. CASE SizeExit(t)
    <2>1. /\ pc[t] = "size_exit" /\ checking_size' = checking_size - 1
          /\ \/ op[t] # "size" /\ pc' = [pc EXCEPT ![t] = ret[t]] /\ UNCHANGED <<op, res>>
             \/ /\ pc' = [pc EXCEPT ![t] = "idle"] /\ op' = [op EXCEPT ![t] = "none"]
                /\ res' = [res EXCEPT ![t] = 0]
          /\ UNCHANGED <<exit_alloc, n, ta, bp, ret, history>>
      BY <1>8 DEF SizeExit
    <2>2. OthersTyped'
      BY <1>1, <1>2, <2>1, InitCapAssumption DEF OthersTyped, Label, Inside
    <2>3. Counted'
      BY <1>1, <2>1 DEF OthersTyped, Counted, Counts
    <2>4. Calling'
      BY <1>1, <2>1 DEF OthersTyped, Calling
    <2> QED
      BY <1>2, <2>2, <2>3, <2>4, ThreadStepTyped
  <1> QED
    BY <1>3, <1>4, <1>5, <1>6, <1>7, <1>8

-----------------------------------------------------------------------------
(* What the calls make of a buffer is a buffer.                            *)

\* Setting or clearing a flag.
LEMMA FlagIs ==
    ASSUME TypeOK, NEW b \in Buffers, NEW t \in Thread,
           NEW X \in SUBSET {"push", "allocate", "allocate_range", "pop", "recycle", "peek"}
    PROVE  /\ Sound([heap[b] EXCEPT !.access[t] = X])
           /\ [heap[b] EXCEPT !.access[t] = X].max_cap = heap[b].max_cap
  <1>1. [heap[b].access EXCEPT ![t] = X] \in
            [Thread -> SUBSET {"push", "allocate", "allocate_range", "pop", "recycle", "peek"}]
    BY HeapIsSound
  <1> QED
    BY <1>1, HeapIsSound DEF Sound, BufferType

\* Writing items or resetting signals.
LEMMA ArraysTyped ==
    ASSUME TypeOK, NEW b \in Buffers, NEW k \in Nat
    PROVE  Items(b, k) \in [Slot -> Nat] /\ NoSignals(b, k) \in [Slot -> Nat]
  <1>1. sent \in Nat /\ heap[b].store \in [Slot -> Nat] /\ heap[b].signal \in [Slot -> Nat]
    BY HeapIsSound DEF TypeOK
  <1> QED
    BY <1>1, BehindIs DEF Items, NoSignals

\* A sound buffer stays sound with other arrays.
LEMMA ArraysSound ==
    ASSUME TypeOK, NEW b \in Buffers, NEW r, Sound(r), NEW arr \in [Slot -> Nat]
    PROVE  /\ Sound([r EXCEPT !.store = arr])
           /\ Sound([r EXCEPT !.signal = arr])
  BY DEF Sound, BufferType

\* Publishing k items: what is left alone, and where the write pointer goes.
LEMMA PublishedIs ==
    ASSUME TypeOK, NEW b \in Buffers, NEW k \in Nat
    PROVE  /\ Sound(Published(b, k))
           /\ Published(b, k).max_cap = heap[b].max_cap
           /\ Published(b, k).read_pt = heap[b].read_pt
           /\ Published(b, k).store = heap[b].store
           /\ Published(b, k).is_valid = heap[b].is_valid
           /\ Published(b, k).access = heap[b].access
           /\ Published(b, k).signal = [heap[b].signal EXCEPT ![heap[b].write_pt.a] = sent + 1]
           /\ Published(b, k).write_pt.a = (heap[b].write_pt.a + k) % capacity(b)
           /\ Published(b, k).write_pt.wrap =
                IF (heap[b].write_pt.a + k) % capacity(b) < k THEN heap[b].write_pt.wrap + 1
                                                              ELSE heap[b].write_pt.wrap
  <1> DEFINE w == heap[b].write_pt
             w2 == IncWrap(IncIndex(w, k, capacity(b)), k)
             sg == [heap[b].signal EXCEPT ![w.a] = sent + 1]
  <1>1. /\ w \in [a : Nat, wrap : Nat] /\ w.a \in Slot /\ heap[b] \in BufferType
        /\ capacity(b) = heap[b].max_cap /\ heap[b].signal \in [Slot -> Nat] /\ sent \in Nat
        /\ heap[b].read_pt.a < heap[b].max_cap
    BY HeapIsSound DEF Sound, TypeOK
  <1>2. capacity(b) \in Nat \ {0} /\ capacity(b) <= MaxCap /\ MaxCap \in Nat
    BY Indices
  <1>4. /\ w2 \in [a : 0 .. capacity(b) - 1, wrap : Nat]
        /\ w2.a = (w.a + k) % capacity(b)
        /\ w2.wrap = IF (w.a + k) % capacity(b) < k THEN w.wrap + 1 ELSE w.wrap
    BY <1>1, <1>2, PointerMoves
  <1>5. w2 \in PointerType(MaxCap) /\ w2.a < capacity(b)
    BY <1>2, <1>4 DEF PointerType
  <1>6. sg \in [Slot -> Nat]
    BY <1>1
  <1>7. Published(b, k) = [heap[b] EXCEPT !.signal = sg, !.write_pt = w2]
    BY <1>1 DEF Published, val, BufferType
  <1> HIDE DEF w2, sg
  <1>8. Sound(Published(b, k))
    BY <1>1, <1>5, <1>6, <1>7 DEF Sound, BufferType
  <1>9. /\ Published(b, k).max_cap = heap[b].max_cap
        /\ Published(b, k).read_pt = heap[b].read_pt
        /\ Published(b, k).store = heap[b].store
        /\ Published(b, k).is_valid = heap[b].is_valid
        /\ Published(b, k).access = heap[b].access
        /\ Published(b, k).signal = sg
        /\ Published(b, k).write_pt = w2
    BY <1>1, <1>7 DEF BufferType
  <1> QED
    BY <1>4, <1>8, <1>9 DEF sg

\* Removing an item moves the read pointer and leaves the rest alone.
LEMMA AdvanceIs ==
    ASSUME TypeOK, NEW b \in Buffers
    PROVE  /\ Sound(Advance(b))
           /\ Advance(b).max_cap = heap[b].max_cap
           /\ Advance(b).write_pt = heap[b].write_pt
           /\ Advance(b).store = heap[b].store
           /\ Advance(b).signal = heap[b].signal
           /\ Advance(b).is_valid = heap[b].is_valid
           /\ Advance(b).access = heap[b].access
           /\ Advance(b).read_pt.a = (heap[b].read_pt.a + 1) % capacity(b)
           /\ Advance(b).read_pt.wrap =
                IF (heap[b].read_pt.a + 1) % capacity(b) < 1 THEN heap[b].read_pt.wrap + 1
                                                             ELSE heap[b].read_pt.wrap
  <1> DEFINE r == heap[b].read_pt
             r2 == IncWrap(IncIndex(r, 1, capacity(b)), 1)
  <1>1. /\ r \in [a : Nat, wrap : Nat] /\ heap[b] \in BufferType
        /\ capacity(b) = heap[b].max_cap
        /\ heap[b].write_pt.a < heap[b].max_cap
    BY HeapIsSound DEF Sound, TypeOK
  <1>2. capacity(b) \in Nat \ {0} /\ capacity(b) <= MaxCap /\ MaxCap \in Nat
    BY Indices
  <1>4. /\ r2 \in [a : 0 .. capacity(b) - 1, wrap : Nat]
        /\ r2.a = (r.a + 1) % capacity(b)
        /\ r2.wrap = IF (r.a + 1) % capacity(b) < 1 THEN r.wrap + 1 ELSE r.wrap
    BY <1>1, <1>2, PointerMoves
  <1>5. r2 \in PointerType(MaxCap) /\ r2.a < capacity(b)
    BY <1>2, <1>4 DEF PointerType
  <1>6. Advance(b) = [heap[b] EXCEPT !.read_pt = r2]
    BY <1>1 DEF Advance
  <1> HIDE DEF r2
  <1>7. Sound(Advance(b))
    BY <1>1, <1>5, <1>6 DEF Sound, BufferType
  <1>8. /\ Advance(b).max_cap = heap[b].max_cap
        /\ Advance(b).write_pt = heap[b].write_pt
        /\ Advance(b).store = heap[b].store
        /\ Advance(b).signal = heap[b].signal
        /\ Advance(b).is_valid = heap[b].is_valid
        /\ Advance(b).access = heap[b].access
        /\ Advance(b).read_pt = r2
    BY <1>1, <1>6 DEF BufferType
  <1> QED
    BY <1>4, <1>7, <1>8

-----------------------------------------------------------------------------
(* Type correctness.                                                       *)

\* A step of a thread that replaces one buffer by one of the same capacity.
LEMMA ThreadWriteTyped ==
    ASSUME TInv, NEW b \in Buffers, NEW r, Sound(r), r.max_cap = heap[b].max_cap,
           heap' = [heap EXCEPT ![b] = r],
           OthersTyped', Counted', Calling',
           UNCHANGED <<buffer, thread_access, resizing, resizer>>
    PROVE  TInv'
  <1>1. HeapSound'
    BY HeapUpdate, TypedParts DEF TInv
  <1>2. \A c \in Buffers : heap'[c].max_cap = heap[c].max_cap
    BY DEF TInv, TypeOK
  <1> QED
    BY <1>1, <1>2, ThreadStepTyped

\* The flags.
LEMMA FlagsTyped ==
    ASSUME TInv, NEW t \in Thread, SetFlag(t) \/ ClearFlag(t)
    PROVE  TInv'
  <1> DEFINE ops == {"push", "allocate", "allocate_range", "pop", "recycle", "peek"}
  <1> USE DEF TInv, Goto, Thread, P, C, manager, thread, resizer, history
  <1>1. HeapSound /\ OthersTyped /\ TypeOK
    BY TypedParts
  <1>2. ta[t] \in Buffers /\ heap[ta[t]].access[t] \in SUBSET ops /\ MaxResize \in Nat
    BY <1>1, HeapIsSound, BoundsAssumption DEF OthersTyped
  <1>3. CASE SetFlag(t)
    <2> DEFINE X == heap[ta[t]].access[t] \cup {op[t]}
               r == [heap[ta[t]] EXCEPT !.access[t] = X]
    <2>1. op[t] \in ops
      BY <1>1, <1>3 DEF SetFlag, OthersTyped, Calling
    <2>2. X \in SUBSET ops
      BY <1>2, <2>1
    <2>4. heap' = [heap EXCEPT ![ta[t]] = r]
      BY <1>3 DEF SetFlag
    <2> HIDE DEF X
    <2>3. Sound(r) /\ r.max_cap = heap[ta[t]].max_cap
      BY <1>1, <1>2, <2>2, FlagIs
    <2>5. /\ ta' = [ta EXCEPT ![t] = 0] /\ pc' = [pc EXCEPT ![t] = "check"] /\ pc[t] = "set"
          /\ UNCHANGED <<manager, op, n, bp, ret, res, resizer, history>>
      BY <1>3 DEF SetFlag
    <2>6. OthersTyped' /\ Counted' /\ Calling'
      BY <1>1, <1>2, <2>5 DEF OthersTyped, Label, Inside, Counted, Counts, Calling, Buffers
    <2> HIDE DEF r
    <2> QED
      BY <1>2, <2>3, <2>4, <2>5, <2>6, ThreadWriteTyped
  <1>4. CASE ClearFlag(t)
    <2> DEFINE X == heap[ta[t]].access[t] \ {op[t]}
               r == [heap[ta[t]] EXCEPT !.access[t] = X]
    <2>2. X \in SUBSET ops
      BY <1>2
    <2>4. heap' = [heap EXCEPT ![ta[t]] = r]
      BY <1>4 DEF ClearFlag
    <2> HIDE DEF X
    <2>3. Sound(r) /\ r.max_cap = heap[ta[t]].max_cap
      BY <1>1, <1>2, <2>2, FlagIs
    <2>5. /\ ta' = [ta EXCEPT ![t] = 0]
          /\ \/ /\ pc[t] = "clear" /\ pc' = [pc EXCEPT ![t] = "idle"]
                /\ op' = [op EXCEPT ![t] = "none"] /\ n' = [n EXCEPT ![t] = 1]
             \/ pc[t] = "clear_retry" /\ pc' = [pc EXCEPT ![t] = "enter"] /\ UNCHANGED <<op, n>>
          /\ UNCHANGED <<manager, bp, ret, res, resizer, history>>
      BY <1>4 DEF ClearFlag
    <2>6. OthersTyped' /\ Counted' /\ Calling'
      BY <1>1, <1>2, <2>5 DEF OthersTyped, Label, Inside, Counted, Counts, Calling, Buffers
    <2> HIDE DEF r
    <2> QED
      BY <1>2, <2>3, <2>4, <2>5, <2>6, ThreadWriteTyped
  <1> QED
    BY <1>3, <1>4

\* The calls that leave the heap alone.
LEMMA LocalTyped ==
    ASSUME TInv,
           \/ \E o \in ProducerOps, k \in Ranges \cup {1} : Call(P, o, k)
           \/ Spin \/ Deallocate
           \/ \E o \in ConsumerOps : Call(C, o, 1)
           \/ Empty \/ Drained \/ LocalPeek \/ LookAt \/ Unpeek \/ RecyclePeeked \/ IsInvalid
    PROVE  TInv'
  <1> USE DEF TInv, Goto, Thread, P, C, manager, thread, resizer, history
  <1>1. HeapSound /\ OthersTyped /\ TypeOK
    BY TypedParts
  <1>2. heap' = heap /\ UNCHANGED <<buffer, thread_access, resizing, resizer>> /\ HeapSound'
    BY <1>1 DEF Call, Spin, Deallocate, Empty, Drained, LocalPeek, LookAt, Unpeek, RecyclePeeked,
       IsInvalid, HeapSound, capacity
  <1>3. MaxResize \in Nat /\ MaxCap \in Nat
    BY BoundsAssumption, InitCapAssumption
  <1>4. ASSUME NEW t \in Thread, NEW o \in {"push", "allocate", "allocate_range", "pop", "recycle", "peek", "size", "is_invalid"},
               NEW k \in Ranges \cup {1}, Call(t, o, k)
        PROVE  TInv'
    BY <1>1, <1>2, <1>4, ThreadStepTyped
       DEF Call, OthersTyped, Label, Inside, Counted, Counts, Calling
  <1>5. CASE \E o \in ProducerOps, k \in Ranges \cup {1} : Call(P, o, k)
    BY <1>4, <1>5, OpsAssumption
  <1>6. CASE \E o \in ConsumerOps : Call(C, o, 1)
    BY <1>4, <1>6, OpsAssumption
  <1>7. CASE Spin
    BY <1>1, <1>2, <1>7, ThreadStepTyped DEF Spin, OthersTyped, Label, Inside, Counted, Counts, Calling
  <1>8. CASE Deallocate
    BY <1>1, <1>2, <1>3, <1>8, ThreadStepTyped
       DEF Deallocate, OthersTyped, Label, Inside, Counted, Counts, Calling, Buffers
  <1>9. CASE Empty
    BY <1>1, <1>2, <1>9, ThreadStepTyped DEF Empty, OthersTyped, Label, Inside, Counted, Counts, Calling
  <1>10. CASE Drained
    BY <1>1, <1>2, <1>10, ThreadStepTyped DEF Drained, OthersTyped, Label, Inside, Counted, Counts, Calling
  <1>11. CASE LocalPeek
    BY <1>1, <1>2, <1>3, <1>11, ThreadStepTyped
       DEF LocalPeek, OthersTyped, Label, Inside, Counted, Counts, Calling, Buffers
  <1>12. CASE LookAt
    <2>1. got' \in [pos : Nat, item : Nat, sig : Nat]
      <3>1. bp[C] \in Buffers
        BY <1>1 DEF OthersTyped
      <3>2. /\ heap[bp[C]].read_pt.a \in Slot /\ heap[bp[C]].store \in [Slot -> Nat]
            /\ heap[bp[C]].signal \in [Slot -> Nat]
        BY <1>1, <3>1, HeapIsSound
      <3> QED
        BY <1>1, <1>12, <3>2 DEF LookAt, Head0, val, OthersTyped
    <2> QED
      BY <1>1, <1>2, <1>12, <2>1, ThreadStepTyped
         DEF LookAt, OthersTyped, Counted, Counts, Calling
  <1>13. CASE Unpeek
    BY <1>1, <1>2, <1>3, <1>13, ThreadStepTyped
       DEF Unpeek, OthersTyped, Label, Inside, Counted, Counts, Calling, Buffers
  <1>14. CASE RecyclePeeked
    BY <1>1, <1>2, <1>3, <1>14, ThreadStepTyped
       DEF RecyclePeeked, OthersTyped, Label, Inside, Counted, Counts, Calling, Buffers
  <1>15. CASE IsInvalid
    BY <1>1, <1>2, <1>3, <1>15, ThreadStepTyped
       DEF IsInvalid, OthersTyped, Label, Inside, Counted, Counts, Calling, Buffers
  <1> QED
    BY <1>5, <1>6, <1>7, <1>8, <1>9, <1>10, <1>11, <1>12, <1>13, <1>14, <1>15

\* The calls that write a buffer.
LEMMA WritesTyped ==
    ASSUME TInv, LocalPush \/ LocalAllocate \/ Fill \/ Send \/ Invalidate \/ LocalPop
    PROVE  TInv'
  <1> USE DEF TInv, Goto, Thread, P, C, manager, thread, resizer, history
  <1>1. HeapSound /\ OthersTyped /\ TypeOK
    BY TypedParts
  <1>2. /\ buffer \in Buffers /\ bp[P] \in Buffers /\ 0 \in Buffers /\ MaxCap \in Nat
        /\ n[P] \in Nat /\ sent \in Nat /\ taken \in Nat
    <2>1. n[P] \in Ranges \cup {1}
      BY <1>1 DEF OthersTyped
    <2>2. 0 \in Buffers /\ MaxCap \in Nat
      BY BoundsAssumption, InitCapAssumption DEF Buffers
    <2>3. n[P] \in Nat
      BY <2>1, RangesAreNumbers
    <2>4. buffer \in Buffers /\ bp[P] \in Buffers /\ sent \in Nat /\ taken \in Nat
      BY <1>1 DEF OthersTyped
    <2> QED
      BY <2>2, <2>3, <2>4
  <1>3. CASE LocalPush
    <2> DEFINE r == [Published(buffer, 1) EXCEPT !.store = Items(buffer, 1)]
    <2>1. Items(buffer, 1) \in [Slot -> Nat] /\ Sound(Published(buffer, 1))
          /\ Published(buffer, 1).max_cap = heap[buffer].max_cap
      BY <1>1, <1>2, PublishedIs, ArraysTyped
    <2>2. Sound(r) /\ r.max_cap = heap[buffer].max_cap
      BY <1>1, <1>2, <2>1, ArraysSound DEF Sound, BufferType
    <2>3. heap' = [heap EXCEPT ![buffer] = r]
      BY <1>3 DEF LocalPush
    <2>4. OthersTyped' /\ Counted' /\ Calling' /\ UNCHANGED <<buffer, thread_access, resizing, resizer>>
      BY <1>1, <1>2, <1>3 DEF LocalPush, OthersTyped, Label, Inside, Counted, Counts, Calling
    <2> HIDE DEF r
    <2> QED
      BY <1>2, <2>2, <2>3, <2>4, ThreadWriteTyped
  <1>4. CASE LocalAllocate
    <2> DEFINE r == [heap[buffer] EXCEPT !.signal = NoSignals(buffer, n[P])]
    <2>1. NoSignals(buffer, n[P]) \in [Slot -> Nat] /\ Sound(heap[buffer])
      BY <1>1, <1>2, HeapIsSound, ArraysTyped
    <2>2. Sound(r) /\ r.max_cap = heap[buffer].max_cap
      BY <1>1, <1>2, <2>1, ArraysSound DEF Sound, BufferType
    <2>3. heap' = [heap EXCEPT ![buffer] = r] \/ heap' = heap
      BY <1>4 DEF LocalAllocate
    <2>4. OthersTyped' /\ Counted' /\ Calling' /\ UNCHANGED <<buffer, thread_access, resizing, resizer>>
      BY <1>1, <1>2, <1>4 DEF LocalAllocate, OthersTyped, Label, Inside, Counted, Counts, Calling
    <2>5. heap' = heap => HeapSound' /\ \A b \in Buffers : heap'[b].max_cap = heap[b].max_cap
      BY <1>1 DEF HeapSound, capacity
    <2> HIDE DEF r
    <2> QED
      BY <1>2, <2>2, <2>3, <2>4, <2>5, ThreadWriteTyped, ThreadStepTyped
  <1>5. CASE Fill
    <2> DEFINE r == [heap[bp[P]] EXCEPT !.store = Items(bp[P], n[P])]
    <2>1. Items(bp[P], n[P]) \in [Slot -> Nat] /\ Sound(heap[bp[P]])
      BY <1>1, <1>2, HeapIsSound, ArraysTyped
    <2>2. Sound(r) /\ r.max_cap = heap[bp[P]].max_cap
      BY <1>1, <1>2, <2>1, ArraysSound DEF Sound, BufferType
    <2>3. heap' = [heap EXCEPT ![bp[P]] = r]
      BY <1>5 DEF Fill
    <2>4. OthersTyped' /\ Counted' /\ Calling' /\ UNCHANGED <<buffer, thread_access, resizing, resizer>>
      BY <1>1, <1>2, <1>5 DEF Fill, OthersTyped, Label, Inside, Counted, Counts, Calling
    <2> HIDE DEF r
    <2> QED
      BY <1>2, <2>2, <2>3, <2>4, ThreadWriteTyped
  <1>6. CASE Send
    <2>1. Sound(Published(buffer, n[P])) /\ Published(buffer, n[P]).max_cap = heap[buffer].max_cap
      BY <1>1, <1>2, PublishedIs
    <2>2. heap' = [heap EXCEPT ![buffer] = Published(buffer, n[P])]
      BY <1>6 DEF Send
    <2>3. OthersTyped' /\ Counted' /\ Calling' /\ UNCHANGED <<buffer, thread_access, resizing, resizer>>
      BY <1>1, <1>2, <1>6 DEF Send, OthersTyped, Label, Inside, Counted, Counts, Calling
    <2> QED
      BY <1>2, <2>1, <2>2, <2>3, ThreadWriteTyped
  <1>7. CASE Invalidate
    <2> DEFINE r == [heap[bp[P]] EXCEPT !.is_valid = FALSE]
    <2>1. Sound(r) /\ r.max_cap = heap[bp[P]].max_cap
      <3>1. Sound(heap[bp[P]])
        BY <1>1, <1>2, HeapIsSound
      <3> QED
        BY ONLY <3>1 DEF Sound, BufferType
    <2>2. heap' = [heap EXCEPT ![bp[P]] = r] \/ heap' = heap
      BY <1>7 DEF Invalidate
    <2>3. OthersTyped' /\ Counted' /\ Calling' /\ UNCHANGED <<buffer, thread_access, resizing, resizer>>
      BY <1>1, <1>2, <1>7 DEF Invalidate, OthersTyped, Label, Inside, Counted, Counts, Calling
    <2>4. heap' = heap => HeapSound' /\ \A b \in Buffers : heap'[b].max_cap = heap[b].max_cap
      BY <1>1 DEF HeapSound, capacity
    <2> HIDE DEF r
    <2> QED
      BY <1>2, <2>1, <2>2, <2>3, <2>4, ThreadWriteTyped, ThreadStepTyped
  <1>8. CASE LocalPop
    <2>1. Sound(Advance(buffer)) /\ Advance(buffer).max_cap = heap[buffer].max_cap
      BY <1>1, <1>2, AdvanceIs
    <2>2. heap' = [heap EXCEPT ![buffer] = Advance(buffer)]
      BY <1>8 DEF LocalPop
    <2>3. got' \in [pos : Nat, item : Nat, sig : Nat]
      <3>1. /\ heap[buffer].read_pt.a \in Slot /\ heap[buffer].store \in [Slot -> Nat]
            /\ heap[buffer].signal \in [Slot -> Nat]
        BY <1>1, <1>2, HeapIsSound
      <3> QED
        BY <1>1, <1>8, <3>1 DEF LocalPop, Head0, val, OthersTyped
    <2>4. OthersTyped' /\ Counted' /\ Calling' /\ UNCHANGED <<buffer, thread_access, resizing, resizer>>
      BY <1>1, <1>2, <1>8, <2>3 DEF LocalPop, OthersTyped, Label, Inside, Counted, Counts, Calling
    <2> QED
      BY <1>2, <2>1, <2>2, <2>4, ThreadWriteTyped
  <1> QED
    BY <1>3, <1>4, <1>5, <1>6, <1>7, <1>8

\* The pointers and the items of the old buffer are those of the copy.
LEMMA CopiedIs ==
    ASSUME TypeOK, old_buffer \in Buffers, new_buffer \in Buffers,
           capacity(new_buffer) = 2 * capacity(old_buffer)
    PROVE  /\ Sound(Copied)
           /\ Copied.max_cap = heap[new_buffer].max_cap
           /\ Copied.read_pt = [a |-> heap[old_buffer].read_pt.a, wrap |-> 0]
           /\ Copied.write_pt = [a |-> heap[old_buffer].write_pt.a, wrap |-> 0]
           /\ Copied.is_valid = heap[old_buffer].is_valid
           /\ \A s \in Slot : s < capacity(old_buffer) =>
                 /\ Copied.store[s] = heap[old_buffer].store[s]
                 /\ Copied.signal[s] \in {heap[new_buffer].signal[s], heap[old_buffer].signal[s]}
           /\ Copied.access = heap[old_buffer].access
  <1> DEFINE old == heap[old_buffer]
             new == heap[new_buffer]
             st == [s \in Slot |-> IF s < capacity(old_buffer) THEN old.store[s] ELSE new.store[s]]
             sg == [s \in Slot |->
                        IF s < capacity(old_buffer) /\ s < SignalsCopied(old_buffer)
                        THEN old.signal[s] ELSE new.signal[s]]
             rp == [a |-> old.read_pt.a, wrap |-> 0]
             wp == [a |-> old.write_pt.a, wrap |-> 0]
  <1>1. /\ new \in BufferType /\ old \in BufferType
        /\ new.store \in [Slot -> Nat] /\ new.signal \in [Slot -> Nat]
        /\ old.store \in [Slot -> Nat] /\ old.signal \in [Slot -> Nat]
        /\ old.access \in [Thread -> SUBSET {"push", "allocate", "allocate_range",
                                             "pop", "recycle", "peek"}]
        /\ old.is_valid \in BOOLEAN
    BY HeapIsSound DEF Sound
  <1>2. /\ capacity(old_buffer) \in Nat /\ capacity(new_buffer) = new.max_cap
        /\ capacity(new_buffer) \in Nat /\ capacity(new_buffer) <= MaxCap /\ MaxCap \in Nat
        /\ old.write_pt.a \in 0 .. capacity(old_buffer) - 1
        /\ old.read_pt.a \in 0 .. capacity(old_buffer) - 1
    BY Indices, HeapIsSound
  <1>3. /\ rp \in PointerType(MaxCap) /\ wp \in PointerType(MaxCap)
        /\ rp.a < new.max_cap /\ wp.a < new.max_cap
    BY <1>2 DEF PointerType
  <1>4. st \in [Slot -> Nat] /\ sg \in [Slot -> Nat]
    BY <1>1
  <1>5. Copied = [new EXCEPT !.read_pt = rp, !.write_pt = wp, !.is_valid = old.is_valid,
                             !.store = st, !.signal = sg, !.access = old.access]
    BY <1>1 DEF Copied, CopyPointer, BufferType
  <1>6. \A s \in Slot : s < capacity(old_buffer) =>
                 st[s] = old.store[s] /\ sg[s] \in {new.signal[s], old.signal[s]}
    OBVIOUS
  <1> HIDE DEF st, sg, rp, wp
  <1>7. Sound(Copied)
    BY <1>1, <1>3, <1>4, <1>5 DEF Sound, BufferType
  <1>8. /\ Copied.max_cap = new.max_cap /\ Copied.read_pt = rp /\ Copied.write_pt = wp
        /\ Copied.is_valid = old.is_valid /\ Copied.store = st /\ Copied.signal = sg
        /\ Copied.access = old.access
    BY <1>1, <1>5 DEF BufferType
  <1> QED
    BY <1>6, <1>7, <1>8 DEF rp, wp

\* The steps of the resizer that write a buffer.
LEMMA ResizerWritesTyped ==
    ASSUME TInv, Resize \/ Abandon \/ CopyFrom \/ DeleteOld
    PROVE  TInv'
  <1> USE DEF TInv, manager, thread, resizer, history, Step
  <1>1. HeapSound /\ OthersTyped /\ TypeOK /\ checking_size \in 0 .. 2
    BY TypedParts
  <1>2. /\ buffer \in Buffers /\ new_buffer \in Buffers /\ old_buffer \in Buffers
        /\ MaxResize \in Nat /\ InitCap \in 1 .. MaxCap /\ MaxCap \in Nat
    BY <1>1, BoundsAssumption, InitCapAssumption DEF OthersTyped
  <1>3. /\ UNCHANGED <<buffer, thread_access, checking_size, pc, op>>
        /\ Counted' /\ Calling'
    BY DEF Resize, Abandon, CopyFrom, DeleteOld, Counted, Counts, Calling
  <1>4. CASE Resize
    <2> DEFINE r == NewBuffer(2 * capacity(buffer), "live")
    <2>1. buffer + 1 \in Buffers /\ buffer + 1 # buffer
      BY <1>2, <1>4 DEF Resize, Buffers
    <2>2. 2 * capacity(buffer) \in 1 .. MaxCap
      BY <1>1, <1>2, <1>4, Indices DEF Resize
    <2>3. Sound(r) /\ r.max_cap = 2 * capacity(buffer)
      BY <2>2, NewBufferSound DEF NewBuffer
    <2>4. heap' = [heap EXCEPT ![buffer + 1] = r]
      BY <1>4 DEF Resize
    <2> HIDE DEF r
    <2>5. HeapSound'
      BY <1>1, <2>1, <2>3, <2>4, HeapUpdate
    <2>6. OthersTyped'
      BY <1>1, <1>4, <2>1 DEF Resize, OthersTyped
    <2>7. TypeOK'
      BY <1>1, <1>3, <2>5, <2>6 DEF TypeOK, HeapSound, OthersTyped
    <2>8. heap'[buffer + 1] = r /\ heap'[buffer] = heap[buffer]
      BY <1>1, <1>2, <2>1, <2>4 DEF HeapSound
    <2>9. Places'
      BY <1>3, <1>4, <2>3, <2>8 DEF Resize, Places, capacity, BeforeSwitch, Waiting
    <2> QED
      BY <1>3, <2>7, <2>9
  <1>5. CASE Abandon
    <2> DEFINE r == NewBuffer(InitCap, "none")
    <2>1. Sound(r)
      BY <1>2, NewBufferSound
    <2>2. heap' = [heap EXCEPT ![new_buffer] = r]
      BY <1>5 DEF Abandon
    <2> HIDE DEF r
    <2>3. HeapSound'
      BY <1>1, <1>2, <2>1, <2>2, HeapUpdate
    <2>4. OthersTyped'
      BY <1>1, <1>5 DEF Abandon, OthersTyped
    <2>5. TypeOK'
      BY <1>1, <1>3, <2>3, <2>4 DEF TypeOK, HeapSound, OthersTyped
    <2>6. Places'
      BY <1>3, <1>5 DEF Abandon, Places, BeforeSwitch, Waiting
    <2> QED
      BY <1>3, <2>5, <2>6
  <1>6. CASE CopyFrom
    <2>1. rpc = "copy" /\ capacity(new_buffer) = 2 * capacity(old_buffer)
      BY <1>6 DEF CopyFrom, Places, BeforeSwitch, Waiting
    <2>2. Sound(Copied) /\ Copied.max_cap = heap[new_buffer].max_cap
      BY <1>1, <1>2, <2>1, CopiedIs
    <2>3. heap' = [heap EXCEPT ![new_buffer] = Copied]
      BY <1>6 DEF CopyFrom
    <2>4. HeapSound'
      BY <1>1, <1>2, <2>2, <2>3, HeapUpdate
    <2>5. OthersTyped'
      BY <1>1, <1>6 DEF CopyFrom, OthersTyped
    <2>6. TypeOK'
      BY <1>1, <1>3, <2>4, <2>5 DEF TypeOK, HeapSound, OthersTyped
    <2>7. \A b \in Buffers : heap'[b].max_cap = heap[b].max_cap
      BY <1>1, <1>2, <2>2, <2>3 DEF HeapSound
    <2>8. Places'
      BY <1>2, <1>3, <1>6, <2>7 DEF CopyFrom, Places, capacity, BeforeSwitch, Waiting
    <2> QED
      BY <1>3, <2>6, <2>8
  <1>7. CASE DeleteOld
    <2> DEFINE r == NewBuffer(InitCap, "deleted")
    <2>1. Sound(r)
      BY <1>2, NewBufferSound
    <2>2. heap' = [heap EXCEPT ![old_buffer] = r]
      BY <1>7 DEF DeleteOld
    <2> HIDE DEF r
    <2>3. HeapSound'
      BY <1>1, <1>2, <2>1, <2>2, HeapUpdate
    <2>4. OthersTyped'
      BY <1>1, <1>7 DEF DeleteOld, OthersTyped
    <2>5. TypeOK'
      BY <1>1, <1>3, <2>3, <2>4 DEF TypeOK, HeapSound, OthersTyped
    <2>6. Places'
      BY <1>3, <1>7 DEF DeleteOld, Places, BeforeSwitch, Waiting
    <2> QED
      BY <1>3, <2>5, <2>6
  <1> QED
    BY <1>4, <1>5, <1>6, <1>7

\* The steps of the resizer that leave the heap alone.
LEMMA ResizerTyped ==
    ASSUME TInv,
           \/ SetResizing \/ AllClear \/ BufferCondition \/ Back
           \/ SetBuffer \/ FinishResize \/ ExitAlloc
    PROVE  TInv'
  <1> USE DEF TInv, manager, thread, resizer, history, Step
  <1>1. HeapSound /\ OthersTyped /\ TypeOK /\ checking_size \in 0 .. 2
    BY TypedParts
  <1>2. UNCHANGED <<heap, checking_size, pc, op>> /\ HeapSound' /\ Counted' /\ Calling'
    BY <1>1 DEF SetResizing, AllClear, BufferCondition, Back, SetBuffer, FinishResize, ExitAlloc,
       HeapSound, capacity, Counted, Counts, Calling
  <1>3. OthersTyped' /\ Places'
    <2> USE <1>1, <1>2 DEF OthersTyped, Places, capacity, BeforeSwitch, Waiting
    <2>1. CASE SetResizing
      BY <2>1 DEF SetResizing
    <2>2. CASE AllClear
      BY <2>2 DEF AllClear
    <2>3. CASE BufferCondition
      BY <2>3 DEF BufferCondition
    <2>4. CASE Back
      BY <2>4 DEF Back
    <2>5. CASE SetBuffer
      BY <2>5 DEF SetBuffer
    <2>6. CASE FinishResize
      BY <2>6 DEF FinishResize
    <2>7. CASE ExitAlloc
      BY <2>7 DEF ExitAlloc
    <2> QED
      BY <2>1, <2>2, <2>3, <2>4, <2>5, <2>6, <2>7
  <1>4. TypeOK'
    BY <1>1, <1>2, <1>3 DEF TypeOK, HeapSound, OthersTyped
  <1> QED
    BY <1>2, <1>3, <1>4

\* Every step of the three threads keeps the types.
LEMMA TypesPreserved ==
    ASSUME TInv, [Next]_vars
    PROVE  TInv'
  <1>1. P \in Thread /\ C \in Thread
    BY DEF Thread
  <1>2. CASE ProducerNext
    BY <1>1, <1>2, AccessTyped, FlagsTyped, LocalTyped, WritesTyped DEF ProducerNext, Access, Size
  <1>3. CASE ConsumerNext
    BY <1>1, <1>3, AccessTyped, FlagsTyped, LocalTyped, WritesTyped DEF ConsumerNext, Access, Size
  <1>4. CASE ResizerNext
    BY <1>4, ResizerWritesTyped, ResizerTyped DEF ResizerNext
  <1>5. CASE UNCHANGED vars
    BY <1>5 DEF vars, manager, thread, resizer, history, TInv, TypeOK, Places, Counted, Counts,
       Calling, capacity
  <1> QED
    BY <1>2, <1>3, <1>4, <1>5 DEF Next

\* They hold before the first call.
LEMMA InitTyped ==
    ASSUME Init
    PROVE  TInv
  <1>1. 0 \in Buffers /\ InitCap \in 1 .. MaxCap /\ 0 \in 0 .. MaxCap
    BY BoundsAssumption, InitCapAssumption DEF Buffers
  <1>2. \A b \in Buffers : Sound(heap[b])
    BY <1>1, NewBufferSound DEF Init
  <1>3. HeapSound
    BY <1>2 DEF Init, HeapSound, Sound, capacity, val
  <1>4. OthersTyped /\ checking_size \in 0 .. 2
    <2>1. n \in [Thread -> Ranges \cup {1}] /\ pc \in [Thread -> Label]
      BY DEF Init, Label
    <2>2. res \in [Thread -> 0 .. MaxCap] /\ ta \in [Thread -> Buffers] /\ bp \in [Thread -> Buffers]
      BY <1>1 DEF Init
    <2>3. got \in [pos : Nat, item : Nat, sig : Nat]
      BY DEF Init
    <2>4. /\ op \in [Thread -> {"none", "push", "allocate", "allocate_range", "pop", "recycle", "peek", "size"}]
          /\ ret \in [Thread -> {"admit", "drained"}]
      BY DEF Init
    <2>5. resizing \in BOOLEAN /\ exit_alloc \in BOOLEAN
      BY DEF Init
    <2>6. /\ buffer = 0 /\ thread_access = 0
          /\ rpc = "idle" /\ new_buffer = 0 /\ old_buffer = 0 /\ sent = 0 /\ taken = 0
          /\ error = "none" /\ checking_size = 0
      BY DEF Init
    <2> QED
      BY <1>1, <2>1, <2>2, <2>3, <2>4, <2>5, <2>6 DEF OthersTyped
  <1>5. TypeOK
    BY <1>3, <1>4, TypedParts
  <1>6. Places /\ Counted /\ Calling
    BY DEF Init, Places, Counted, Counts, Calling, BeforeSwitch, Waiting, Thread, P, C
  <1> QED
    BY <1>5, <1>6 DEF TInv

\* Every variable keeps its type, for every capacity, range length and number of
\* resizes: the indices of a buffer stay below its capacity, also after they have
\* been copied, and size() counts itself in and out (datamanager.tcc, set_helper).
THEOREM TypeCorrect == Spec => []TypeOK
  <1>1. Init => TInv
    BY InitTyped
  <1>2. TInv /\ [Next]_vars => TInv'
    BY TypesPreserved
  <1>3. TInv => TypeOK
    BY DEF TInv
  <1> QED
    BY <1>1, <1>2, <1>3, PTL DEF Spec

-----------------------------------------------------------------------------
(* What the steps do to the buffers, field by field.                       *)

\* Every buffer but b stays as it is, and of b what is named.
Others(b) == \A c \in Buffers \ {b} : heap'[c] = heap[c]
KeepsFlags(b) == heap'[b].access = heap[b].access
KeepsFrame(b) == heap'[b].max_cap = heap[b].max_cap /\ heap'[b].is_valid = heap[b].is_valid
KeepsArrays(b) == heap'[b].store = heap[b].store /\ heap'[b].signal = heap[b].signal
KeepsPointers(b) == heap'[b].write_pt = heap[b].write_pt /\ heap'[b].read_pt = heap[b].read_pt

\* Publishing k items, with st for the array of items.
Publishes(b, k, st) ==
    /\ Others(b) /\ KeepsFlags(b) /\ KeepsFrame(b)
    /\ heap'[b].read_pt = heap[b].read_pt
    /\ heap'[b].store = st
    /\ heap'[b].signal = [heap[b].signal EXCEPT ![heap[b].write_pt.a] = sent + 1]
    /\ heap'[b].write_pt.a = (heap[b].write_pt.a + k) % capacity(b)
    /\ heap'[b].write_pt.wrap =
          IF (heap[b].write_pt.a + k) % capacity(b) < k THEN heap[b].write_pt.wrap + 1
                                                        ELSE heap[b].write_pt.wrap

\* push publishes into the current buffer and leaves the others and all flags alone.
LEMMA PushEffect ==
    ASSUME TypeOK, LocalPush
    PROVE  Publishes(buffer, 1, Items(buffer, 1))
  <1> DEFINE r == [Published(buffer, 1) EXCEPT !.store = Items(buffer, 1)]
  <1>1. buffer \in Buffers /\ heap \in [Buffers -> BufferType] /\ Published(buffer, 1) \in BufferType
    BY PublishedIs DEF TypeOK, Sound
  <1>2. heap' = [heap EXCEPT ![buffer] = r]
    BY DEF LocalPush
  <1>3. /\ r.max_cap = Published(buffer, 1).max_cap /\ r.read_pt = Published(buffer, 1).read_pt
        /\ r.is_valid = Published(buffer, 1).is_valid /\ r.access = Published(buffer, 1).access
        /\ r.signal = Published(buffer, 1).signal /\ r.write_pt = Published(buffer, 1).write_pt
        /\ r.store = Items(buffer, 1)
    BY <1>1 DEF BufferType
  <1> HIDE DEF r
  <1>4. heap'[buffer] = r /\ Others(buffer)
    BY <1>1, <1>2 DEF Others
  <1> QED
    BY <1>1, <1>3, <1>4, PublishedIs DEF Publishes, KeepsFlags, KeepsFrame

\* send and send_range publish into the current buffer and leave all flags alone.
LEMMA SendEffect ==
    ASSUME TypeOK, Send
    PROVE  Publishes(buffer, n[P], heap[buffer].store)
  <1>1. buffer \in Buffers /\ heap \in [Buffers -> BufferType]
    BY DEF TypeOK
  <1>2. n[P] \in Nat
    BY RangesAreNumbers DEF TypeOK, Thread
  <1>3. heap' = [heap EXCEPT ![buffer] = Published(buffer, n[P])]
    BY DEF Send
  <1>4. heap'[buffer] = Published(buffer, n[P]) /\ Others(buffer)
    BY <1>1, <1>3 DEF Others
  <1> DEFINE r == Published(buffer, n[P])
  <1>5. /\ r.max_cap = heap[buffer].max_cap /\ r.read_pt = heap[buffer].read_pt
        /\ r.store = heap[buffer].store /\ r.is_valid = heap[buffer].is_valid
        /\ r.access = heap[buffer].access
        /\ r.signal = [heap[buffer].signal EXCEPT ![heap[buffer].write_pt.a] = sent + 1]
        /\ r.write_pt.a = (heap[buffer].write_pt.a + n[P]) % capacity(buffer)
        /\ r.write_pt.wrap =
              IF (heap[buffer].write_pt.a + n[P]) % capacity(buffer) < n[P]
              THEN heap[buffer].write_pt.wrap + 1 ELSE heap[buffer].write_pt.wrap
    BY <1>1, <1>2, PublishedIs
  <1> HIDE DEF r
  <1>6. heap'[buffer] = r
    BY <1>4 DEF r
  <1> QED
    BY <1>4, <1>5, <1>6 DEF Publishes, KeepsFlags, KeepsFrame

\* Writing an array.
LEMMA AllocateEffect ==
    ASSUME TypeOK, LocalAllocate
    PROVE  /\ Others(buffer) /\ KeepsFlags(buffer) /\ KeepsFrame(buffer) /\ KeepsPointers(buffer)
           /\ heap'[buffer].store = heap[buffer].store
           /\ heap'[buffer].signal = IF op[P] = "allocate" THEN heap[buffer].signal
                                     ELSE NoSignals(buffer, n[P])
  <1> DEFINE r == [heap[buffer] EXCEPT !.signal = NoSignals(buffer, n[P])]
  <1>1. buffer \in Buffers /\ heap \in [Buffers -> BufferType] /\ heap[buffer] \in BufferType
    BY DEF TypeOK
  <1>2. heap' = IF op[P] = "allocate" THEN heap ELSE [heap EXCEPT ![buffer] = r]
    BY DEF LocalAllocate
  <1>3. /\ r.max_cap = heap[buffer].max_cap /\ r.read_pt = heap[buffer].read_pt
        /\ r.is_valid = heap[buffer].is_valid /\ r.access = heap[buffer].access
        /\ r.store = heap[buffer].store /\ r.write_pt = heap[buffer].write_pt
        /\ r.signal = NoSignals(buffer, n[P])
    BY <1>1 DEF BufferType
  <1> HIDE DEF r
  <1>4. /\ op[P] # "allocate" => heap'[buffer] = r
        /\ op[P] = "allocate" => heap'[buffer] = heap[buffer]
        /\ Others(buffer)
    BY <1>1, <1>2 DEF Others
  <1> QED
    BY <1>3, <1>4 DEF KeepsFlags, KeepsFrame, KeepsPointers

\* A write through held references is a write into the current buffer.
LEMMA FillEffect ==
    ASSUME TypeOK, Fill
    PROVE  /\ Others(bp[P]) /\ KeepsFlags(bp[P]) /\ KeepsFrame(bp[P]) /\ KeepsPointers(bp[P])
           /\ heap'[bp[P]].store = Items(bp[P], n[P])
           /\ heap'[bp[P]].signal = heap[bp[P]].signal
  <1> DEFINE b == bp[P]
             r == [heap[b] EXCEPT !.store = Items(b, n[P])]
  <1>1. b \in Buffers /\ heap \in [Buffers -> BufferType] /\ heap[b] \in BufferType
    BY DEF TypeOK, Thread
  <1>2. heap' = [heap EXCEPT ![b] = r]
    BY DEF Fill
  <1> HIDE DEF b
  <1>3. /\ r.max_cap = heap[b].max_cap /\ r.read_pt = heap[b].read_pt
        /\ r.is_valid = heap[b].is_valid /\ r.access = heap[b].access
        /\ r.signal = heap[b].signal /\ r.write_pt = heap[b].write_pt
        /\ r.store = Items(b, n[P])
    BY <1>1 DEF BufferType
  <1> HIDE DEF r
  <1>4. heap'[b] = r /\ Others(b)
    BY <1>1, <1>2 DEF Others
  <1> QED
    BY <1>3, <1>4 DEF KeepsFlags, KeepsFrame, KeepsPointers, b

\* Closing the stream: the second half of invalidate.
LEMMA CloseEffect ==
    ASSUME TypeOK, Invalidate, pc[P] = "invalidate"
    PROVE  /\ Others(bp[P]) /\ KeepsFlags(bp[P]) /\ KeepsArrays(bp[P]) /\ KeepsPointers(bp[P])
           /\ heap'[bp[P]].max_cap = heap[bp[P]].max_cap
           /\ ~heap'[bp[P]].is_valid
  <1> DEFINE b == bp[P]
             r == [heap[b] EXCEPT !.is_valid = FALSE]
  <1>1. b \in Buffers /\ heap \in [Buffers -> BufferType] /\ heap[b] \in BufferType
    BY DEF TypeOK, Thread
  <1>2. heap' = [heap EXCEPT ![b] = r]
    BY DEF Invalidate
  <1> HIDE DEF b
  <1>3. /\ r.max_cap = heap[b].max_cap /\ r.read_pt = heap[b].read_pt
        /\ r.access = heap[b].access /\ r.store = heap[b].store
        /\ r.signal = heap[b].signal /\ r.write_pt = heap[b].write_pt
    BY <1>1 DEF BufferType
  <1>4. ~r.is_valid
    BY <1>1 DEF BufferType
  <1> HIDE DEF r
  <1>5. heap'[b] = r /\ Others(b)
    BY <1>1, <1>2 DEF Others
  <1> QED
    BY <1>3, <1>4, <1>5 DEF KeepsFlags, KeepsArrays, KeepsPointers, b

\* Removing the item at the head.
LEMMA PopEffect ==
    ASSUME TypeOK, LocalPop
    PROVE  /\ Others(buffer) /\ KeepsFlags(buffer) /\ KeepsFrame(buffer) /\ KeepsArrays(buffer)
           /\ heap'[buffer].write_pt = heap[buffer].write_pt
           /\ heap'[buffer].read_pt.a = (heap[buffer].read_pt.a + 1) % capacity(buffer)
           /\ heap'[buffer].read_pt.wrap =
                IF (heap[buffer].read_pt.a + 1) % capacity(buffer) < 1
                THEN heap[buffer].read_pt.wrap + 1 ELSE heap[buffer].read_pt.wrap
  <1>1. buffer \in Buffers /\ heap \in [Buffers -> BufferType]
    BY DEF TypeOK
  <1>2. heap' = [heap EXCEPT ![buffer] = Advance(buffer)]
    BY DEF LocalPop
  <1>3. heap'[buffer] = Advance(buffer) /\ Others(buffer)
    BY <1>1, <1>2 DEF Others
  <1> QED
    BY <1>1, <1>3, AdvanceIs DEF KeepsFlags, KeepsFrame, KeepsArrays

\* Setting and clearing a flag: nothing but the thread's own word of the buffer
\* that it stores through.
LEMMA FlagEffect ==
    ASSUME TypeOK, NEW t \in Thread, SetFlag(t) \/ ClearFlag(t)
    PROVE  /\ Others(ta[t]) /\ KeepsFrame(ta[t]) /\ KeepsArrays(ta[t]) /\ KeepsPointers(ta[t])
           /\ \A u \in Thread \ {t} : heap'[ta[t]].access[u] = heap[ta[t]].access[u]
           /\ SetFlag(t) => heap'[ta[t]].access[t] = heap[ta[t]].access[t] \cup {op[t]}
           /\ ClearFlag(t) => heap'[ta[t]].access[t] = heap[ta[t]].access[t] \ {op[t]}
  <1> DEFINE b == ta[t]
             f(X) == [heap[b].access EXCEPT ![t] = X]
             r(X) == [heap[b] EXCEPT !.access = f(X)]
             X1 == heap[b].access[t] \cup {op[t]}
             X2 == heap[b].access[t] \ {op[t]}
  <1>1. b \in Buffers /\ heap \in [Buffers -> BufferType] /\ heap[b] \in BufferType
    BY DEF TypeOK
  <1>2. heap[b].access \in [Thread -> SUBSET {"push", "allocate", "allocate_range", "pop",
                                               "recycle", "peek"}]
    BY <1>1 DEF BufferType
  <1>3. /\ SetFlag(t) => heap' = [heap EXCEPT ![b] = r(X1)]
        /\ ClearFlag(t) => heap' = [heap EXCEPT ![b] = r(X2)]
    BY <1>1 DEF SetFlag, ClearFlag
  <1> HIDE DEF b, X1, X2
  <1>4. ASSUME NEW X
        PROVE  /\ r(X).max_cap = heap[b].max_cap /\ r(X).read_pt = heap[b].read_pt
               /\ r(X).write_pt = heap[b].write_pt /\ r(X).is_valid = heap[b].is_valid
               /\ r(X).store = heap[b].store /\ r(X).signal = heap[b].signal
               /\ r(X).access = f(X)
    BY <1>1 DEF BufferType
  <1>5. ASSUME NEW X
        PROVE  f(X)[t] = X /\ \A u \in Thread \ {t} : f(X)[u] = heap[b].access[u]
    BY <1>2
  <1> HIDE DEF r, f
  <1>6. ASSUME NEW X, heap' = [heap EXCEPT ![b] = r(X)]
        PROVE  heap'[b] = r(X) /\ Others(b)
    BY <1>1, <1>6 DEF Others
  <1>7. ASSUME NEW X, heap' = [heap EXCEPT ![b] = r(X)]
        PROVE  /\ Others(b) /\ KeepsFrame(b) /\ KeepsArrays(b) /\ KeepsPointers(b)
               /\ \A u \in Thread \ {t} : heap'[b].access[u] = heap[b].access[u]
               /\ heap'[b].access[t] = X
    <2>1. heap'[b] = r(X) /\ Others(b)
      BY <1>6, <1>7
    <2>2. heap'[b].access = f(X) /\ KeepsFrame(b) /\ KeepsArrays(b) /\ KeepsPointers(b)
      BY <1>4, <2>1 DEF KeepsFrame, KeepsArrays, KeepsPointers
    <2> QED
      BY <1>5, <2>1, <2>2
  <1>8. ~ (SetFlag(t) /\ ClearFlag(t))
    BY DEF SetFlag, ClearFlag
  <1> QED
    BY <1>3, <1>7, <1>8 DEF b, X1, X2

-----------------------------------------------------------------------------
(* The resizer and the two threads exclude each other.                     *)

\* What a step of thread t may do to the exclusion: it comes inside only past a
\* check of resizing, with its flag stored through the thread_access that it has
\* loaded, and it does not touch what belongs to the other thread.
Enters(t) ==
    /\ UNCHANGED <<rpc, buffer, thread_access, resizing>>
    /\ \A u \in Thread \ {t} :
          /\ pc'[u] = pc[u] /\ op'[u] = op[u] /\ ta'[u] = ta[u] /\ bp'[u] = bp[u]
          /\ \A b \in Buffers : heap'[b].access[u] = heap[b].access[u]
    /\ Flagged(t)' => Flagged(t) \/ (pc[t] = "check" /\ ~resizing)
    /\ IsInside(t)' => IsInside(t) \/ ~resizing
    /\ Flagged(t)' \/ pc'[t] = "check" =>
          /\ op'[t] = op[t]
          /\ \/ /\ Flagged(t) \/ pc[t] = "check"
                /\ \A b \in Buffers : heap'[b].access[t] = heap[b].access[t]
             \/ pc[t] = "set" /\ op[t] \in heap'[ta[t]].access[t]
    /\ pc'[t] = "set" => ta'[t] = thread_access
    /\ pc'[t] \in {"held", "filled"} =>
          bp'[t] = buffer \/ (pc[t] \in {"held", "filled"} /\ bp'[t] = bp[t])

\* Leaving the flags alone is enough for a step that stays inside or goes out.
LEMMA CallEnters ==
    ASSUME TypeOK, NEW t \in Thread,
           UNCHANGED <<rpc, buffer, thread_access, resizing, ta>>,
           \A b \in Buffers : KeepsFlags(b),
           \A u \in Thread \ {t} : pc'[u] = pc[u] /\ op'[u] = op[u] /\ bp'[u] = bp[u],
           Flagged(t)' => Flagged(t) /\ op'[t] = op[t],
           IsInside(t)' => IsInside(t) \/ ~resizing,
           pc'[t] \notin {"check", "set"},
           pc'[t] \in {"held", "filled"} =>
              bp'[t] = buffer \/ (pc[t] \in {"held", "filled"} /\ bp'[t] = bp[t])
    PROVE  Enters(t)
  BY DEF Enters, KeepsFlags

\* The steps that enter and leave.
LEMMA AccessEnters ==
    ASSUME TInv, NEW t \in Thread, Access(t)
    PROVE  Enters(t)
  <1> USE DEF Goto, manager, thread, resizer, history, Flagged, IsInside
  <1>0. TypeOK /\ Calling
    BY DEF TInv
  <1>1. /\ pc \in [Thread -> Label] /\ ta \in [Thread -> Buffers] /\ ret[t] \in {"admit", "drained"}
        /\ op[t] = "size" => pc[t] \in {"size", "size_check", "size_read", "size_exit"}
        /\ op \in [Thread -> {"none", "push", "allocate", "allocate_range", "pop", "recycle", "peek", "size"}]
    BY <1>0 DEF TypeOK, Calling
  <1>2. CASE LoadAccess(t)
    BY <1>1, <1>2 DEF LoadAccess, Enters, Inside
  <1>3. CASE CheckResizing(t)
    BY <1>1, <1>3 DEF CheckResizing, Enters, Inside
  <1>4. CASE SetFlag(t)
    <2>1. /\ pc[t] = "set" /\ pc' = [pc EXCEPT ![t] = "check"] /\ ta' = [ta EXCEPT ![t] = 0]
          /\ UNCHANGED <<rpc, buffer, thread_access, resizing, op, bp>>
      BY <1>4 DEF SetFlag
    <2>2. /\ Others(ta[t]) /\ op[t] \in heap'[ta[t]].access[t]
          /\ \A u \in Thread \ {t} : heap'[ta[t]].access[u] = heap[ta[t]].access[u]
      BY <1>0, <1>4, FlagEffect
    <2>3. \A u \in Thread \ {t}, b \in Buffers : heap'[b].access[u] = heap[b].access[u]
      BY <2>2 DEF Others
    <2> QED
      BY <1>1, <2>1, <2>2, <2>3 DEF Enters, Inside
  <1>5. CASE ClearFlag(t)
    <2>1. /\ pc' = [pc EXCEPT ![t] = "idle"] \/ pc' = [pc EXCEPT ![t] = "enter"]
          /\ ta' = [ta EXCEPT ![t] = 0]
          /\ op' = [op EXCEPT ![t] = "none"] \/ op' = op
          /\ UNCHANGED <<rpc, buffer, thread_access, resizing, bp>>
      BY <1>5 DEF ClearFlag
    <2>2. /\ Others(ta[t])
          /\ \A u \in Thread \ {t} : heap'[ta[t]].access[u] = heap[ta[t]].access[u]
      BY <1>0, <1>5, FlagEffect
    <2>3. \A u \in Thread \ {t}, b \in Buffers : heap'[b].access[u] = heap[b].access[u]
      BY <2>2 DEF Others
    <2>4. \A u \in Thread \ {t} : pc'[u] = pc[u] /\ op'[u] = op[u] /\ ta'[u] = ta[u] /\ bp'[u] = bp[u]
      BY <1>1, <2>1 DEF TypeOK
    <2>5. pc'[t] \in {"idle", "enter"}
      BY <1>1, <2>1
    <2> QED
      BY <2>1, <2>3, <2>4, <2>5 DEF Enters, Inside
  <1>6. CASE Size(t)
    <2>1. /\ heap' = heap /\ UNCHANGED <<rpc, buffer, thread_access, resizing, ta, bp>>
          /\ \A u \in Thread \ {t} : pc'[u] = pc[u] /\ op'[u] = op[u]
          /\ pc'[t] \notin {"check", "set", "held", "filled"}
      BY <1>1, <1>6 DEF Size, SizeEnter, SizeCheck, SizeRead, SizeExit
    <2>2. Flagged(t)' => Flagged(t) /\ op'[t] = op[t]
      BY <1>1, <1>6 DEF Size, SizeEnter, SizeCheck, SizeRead, SizeExit, Inside
    <2>3. IsInside(t)' => IsInside(t) \/ ~resizing
      BY <1>1, <1>6 DEF Size, SizeEnter, SizeCheck, SizeRead, SizeExit, Inside
    <2> QED
      BY <1>0, <2>1, <2>2, <2>3, CallEnters DEF KeepsFlags
  <1> QED
    BY <1>2, <1>3, <1>4, <1>5, <1>6 DEF Access

\* The calls of the producer.
LEMMA ProducerEnters ==
    ASSUME TInv,
           \/ \E o \in ProducerOps, k \in Ranges \cup {1} : Call(P, o, k)
           \/ Spin \/ LocalPush \/ LocalAllocate \/ Fill \/ Send \/ Deallocate \/ Invalidate
    PROVE  Enters(P)
  <1> USE DEF TInv, Goto, manager, thread, resizer, history
  <1>1. /\ P \in Thread /\ pc \in [Thread -> Label] /\ buffer \in Buffers
        /\ bp \in [Thread -> Buffers] /\ bp[P] \in Buffers
        /\ op[P] = "size" => pc[P] \in {"size", "size_check", "size_read", "size_exit"}
        /\ op \in [Thread -> {"none", "push", "allocate", "allocate_range", "pop", "recycle", "peek", "size"}]
    BY DEF TypeOK, Calling, Thread
  <1>2. UNCHANGED <<rpc, buffer, thread_access, resizing, ta>>
    BY DEF Call, Spin, LocalPush, LocalAllocate, Fill, Send, Deallocate, Invalidate
  <1>3. \A b \in Buffers : KeepsFlags(b)
    <2>1. CASE LocalPush
      BY <2>1, PushEffect DEF Publishes, Others, KeepsFlags
    <2>2. CASE LocalAllocate
      BY <2>2, AllocateEffect DEF Others, KeepsFlags
    <2>3. CASE Fill
      BY <2>3, FillEffect DEF Others, KeepsFlags
    <2>4. CASE Send
      BY <2>4, SendEffect DEF Publishes, Others, KeepsFlags
    <2>5. CASE Invalidate /\ pc[P] = "invalidate"
      BY <2>5, CloseEffect DEF Others, KeepsFlags
    <2>6. CASE Invalidate /\ pc[P] # "invalidate"
      BY <2>6 DEF Invalidate, KeepsFlags
    <2>7. CASE (\E o \in ProducerOps, k \in Ranges \cup {1} : Call(P, o, k)) \/ Spin \/ Deallocate
      BY <2>7 DEF Call, Spin, Deallocate, KeepsFlags
    <2> QED
      BY <2>1, <2>2, <2>3, <2>4, <2>5, <2>6, <2>7
  <1>4. \A u \in Thread \ {P} : pc'[u] = pc[u] /\ op'[u] = op[u] /\ bp'[u] = bp[u]
    <2>1. CASE \E o \in ProducerOps, k \in Ranges \cup {1} : Call(P, o, k)
      BY <1>1, <2>1 DEF Call
    <2>2. CASE Spin \/ LocalPush \/ LocalAllocate \/ Fill \/ Send \/ Deallocate \/ Invalidate
      BY <1>1, <2>2 DEF Spin, LocalPush, LocalAllocate, Fill, Send, Deallocate, Invalidate
    <2> QED
      BY <2>1, <2>2
  <1>5. /\ Flagged(P)' => Flagged(P) /\ op'[P] = op[P]
        /\ IsInside(P)' => IsInside(P) \/ ~resizing
    <2> USE DEF Flagged, IsInside
    <2>1. CASE \E o \in ProducerOps, k \in Ranges \cup {1} : Call(P, o, k)
      BY <1>1, <2>1 DEF Call, Inside
    <2>2. CASE LocalAllocate \/ Fill
      BY <1>1, <2>2 DEF LocalAllocate, Fill, Inside
    <2>3. CASE Spin \/ LocalPush \/ Send \/ Deallocate \/ Invalidate
      BY <1>1, <2>3 DEF Spin, LocalPush, Send, Deallocate, Invalidate, Inside
    <2> QED
      BY <2>1, <2>2, <2>3
  <1>6. /\ pc'[P] \notin {"check", "set"}
        /\ pc'[P] \in {"held", "filled"} =>
              bp'[P] = buffer \/ (pc[P] \in {"held", "filled"} /\ bp'[P] = bp[P])
    <2>1. CASE \E o \in ProducerOps, k \in Ranges \cup {1} : Call(P, o, k)
      BY <1>1, <2>1 DEF Call
    <2>2. CASE LocalAllocate \/ Fill
      BY <1>1, <2>2 DEF LocalAllocate, Fill
    <2>3. CASE Spin \/ LocalPush \/ Send \/ Deallocate \/ Invalidate
      BY <1>1, <2>3 DEF Spin, LocalPush, Send, Deallocate, Invalidate
    <2> QED
      BY <2>1, <2>2, <2>3
  <1> QED
    BY <1>1, <1>2, <1>3, <1>4, <1>5, <1>6, CallEnters

\* The calls of the consumer.
LEMMA ConsumerEnters ==
    ASSUME TInv,
           \/ \E o \in ConsumerOps : Call(C, o, 1)
           \/ Empty \/ Drained \/ LocalPop \/ LocalPeek \/ LookAt \/ Unpeek \/ RecyclePeeked
           \/ IsInvalid
    PROVE  Enters(C)
  <1> USE DEF TInv, Goto, manager, thread, resizer, history
  <1>1. /\ C \in Thread /\ pc \in [Thread -> Label] /\ buffer \in Buffers
        /\ bp \in [Thread -> Buffers] /\ bp[C] \in Buffers
        /\ op[C] = "size" => pc[C] \in {"size", "size_check", "size_read", "size_exit"}
        /\ op \in [Thread -> {"none", "push", "allocate", "allocate_range", "pop", "recycle", "peek", "size"}]
    BY DEF TypeOK, Calling, Thread
  <1>2. UNCHANGED <<rpc, buffer, thread_access, resizing, ta>>
    BY DEF Call, Empty, Drained, LocalPop, LocalPeek, LookAt, Unpeek, RecyclePeeked, IsInvalid
  <1>3. \A b \in Buffers : KeepsFlags(b)
    <2>1. CASE LocalPop
      BY <2>1, PopEffect DEF Others, KeepsFlags
    <2>2. CASE \/ \E o \in ConsumerOps : Call(C, o, 1)
               \/ Empty \/ Drained \/ LocalPeek \/ LookAt \/ Unpeek \/ RecyclePeeked \/ IsInvalid
      BY <2>2 DEF Call, Empty, Drained, LocalPeek, LookAt, Unpeek, RecyclePeeked, IsInvalid, KeepsFlags
    <2> QED
      BY <2>1, <2>2
  <1>4. \A u \in Thread \ {C} : pc'[u] = pc[u] /\ op'[u] = op[u] /\ bp'[u] = bp[u]
    <2>1. CASE \E o \in ConsumerOps : Call(C, o, 1)
      BY <1>1, <2>1 DEF Call
    <2>2. CASE Empty \/ Drained \/ LocalPop \/ LocalPeek \/ LookAt \/ Unpeek \/ RecyclePeeked \/ IsInvalid
      BY <1>1, <2>2 DEF Empty, Drained, LocalPop, LocalPeek, LookAt, Unpeek, RecyclePeeked, IsInvalid
    <2> QED
      BY <2>1, <2>2
  <1>5. /\ Flagged(C)' => Flagged(C) /\ op'[C] = op[C]
        /\ IsInside(C)' => IsInside(C) \/ ~resizing
    <2> USE DEF Flagged, IsInside
    <2>1. CASE \E o \in ConsumerOps : Call(C, o, 1)
      BY <1>1, <2>1 DEF Call, Inside
    <2>2. CASE Empty \/ Drained \/ LocalPop \/ LocalPeek
      BY <1>1, <2>2 DEF Empty, Drained, LocalPop, LocalPeek, Inside
    <2>3. CASE LookAt \/ Unpeek \/ RecyclePeeked \/ IsInvalid
      BY <1>1, <2>3 DEF LookAt, Unpeek, RecyclePeeked, IsInvalid, Inside
    <2> QED
      BY <2>1, <2>2, <2>3
  <1>6. /\ pc'[C] \notin {"check", "set"}
        /\ pc'[C] \in {"held", "filled"} =>
              bp'[C] = buffer \/ (pc[C] \in {"held", "filled"} /\ bp'[C] = bp[C])
    <2>1. CASE \E o \in ConsumerOps : Call(C, o, 1)
      BY <1>1, <2>1 DEF Call
    <2>2. CASE Empty \/ Drained \/ LocalPop \/ LocalPeek
      BY <1>1, <2>2 DEF Empty, Drained, LocalPop, LocalPeek
    <2>3. CASE LookAt \/ Unpeek \/ RecyclePeeked \/ IsInvalid
      BY <1>1, <2>3 DEF LookAt, Unpeek, RecyclePeeked, IsInvalid
    <2> QED
      BY <2>1, <2>2, <2>3
  <1> QED
    BY <1>1, <1>2, <1>3, <1>4, <1>5, <1>6, CallEnters

\* No step of a thread disturbs the exclusion.
LEMMA ThreadsKeepOut ==
    ASSUME EInv, TInv', NEW t \in Thread, Enters(t)
    PROVE  EInv'
  <1>1. TypeOK /\ thread_access \in Buffers /\ ta[t] \in Buffers
    BY DEF EInv, TInv, TypeOK
  <1>2. Announced => Announced'
    <2> SUFFICES ASSUME Announced, NEW u \in Thread
                 PROVE  /\ Flagged(u)' \/ pc'[u] = "check" => op'[u] \in heap'[thread_access].access[u]
                        /\ pc'[u] = "set" => ta'[u] = thread_access
      BY DEF Announced, Enters
    <2>1. CASE u # t
      BY <1>1, <2>1 DEF Announced, Enters, Flagged
    <2>2. CASE u = t
      BY <1>1, <2>2 DEF Announced, Enters
    <2> QED
      BY <2>1, <2>2
  <1>3. FlagsTell'
    BY <1>2 DEF EInv, FlagsTell, Enters
  <1>4. rpc \in PastProducer => resizing
    BY DEF EInv, TInv, Places, PastProducer
  <1>5. \A u \in Thread : rpc \in PastProducer =>
            (Flagged(u)' => Flagged(u)) /\ (IsInside(u)' => IsInside(u))
    BY <1>4 DEF Enters, Flagged, IsInside
  <1>6. StaysOut'
    BY <1>5 DEF EInv, StaysOut, Enters, Thread, PastConsumer, PastSize
  <1>7. HeldReferencesAreCurrent'
    BY DEF EInv, HeldReferencesAreCurrent, Enters
  <1> QED
    BY <1>3, <1>6, <1>7 DEF EInv

\* The flags that tell of the threads stay where they are.
LEMMA StillAnnounced ==
    ASSUME Announced, UNCHANGED <<pc, op, ta, thread_access>>,
           heap'[thread_access].access = heap[thread_access].access
    PROVE  Announced'
  BY DEF Announced, Flagged

\* The steps of the resizer that write a buffer write neither the current one nor
\* the one whose flags are the current ones, until the old one is deleted.
LEMMA ResizerWrites ==
    ASSUME TInv, Resize \/ Abandon \/ CopyFrom \/ DeleteOld
    PROVE  /\ heap'[buffer] = heap[buffer] /\ heap'[thread_access] = heap[thread_access]
           /\ UNCHANGED <<pc, op, n, ta, bp, ret, res, buffer, thread_access, checking_size, history>>
  <1> USE DEF manager, thread, resizer, history, Step
  <1>1. /\ buffer \in Buffers /\ thread_access \in Buffers /\ new_buffer \in Buffers
        /\ old_buffer \in Buffers /\ heap \in [Buffers -> BufferType]
        /\ buffer \in Nat /\ old_buffer \in Nat
    <2>1. Buffers \subseteq Nat
      BY BoundsAssumption DEF Buffers
    <2> QED
      BY <2>1 DEF TInv, TypeOK
  <1>2. UNCHANGED <<pc, op, n, ta, bp, ret, res, buffer, thread_access, checking_size, history>>
    BY DEF Resize, Abandon, CopyFrom, DeleteOld
  <1>3. CASE Resize
    BY <1>1, <1>2, <1>3 DEF Resize, TInv, Places
  <1>4. CASE Abandon
    BY <1>1, <1>2, <1>4 DEF Abandon, TInv, Places, BeforeSwitch, Waiting
  <1>5. CASE CopyFrom
    <2>1. heap' = [heap EXCEPT ![new_buffer] = Copied] /\ rpc = "copy"
      BY <1>5 DEF CopyFrom
    <2>2. buffer # new_buffer /\ thread_access # new_buffer
      BY <1>1, <2>1 DEF TInv, Places, BeforeSwitch, Waiting
    <2> QED
      BY <1>1, <1>2, <2>1, <2>2
  <1>6. CASE DeleteOld
    BY <1>1, <1>2, <1>6 DEF DeleteOld, TInv, Places
  <1> QED
    BY <1>3, <1>4, <1>5, <1>6

\* The resizer goes on only past a thread that is outside, and switches the
\* buffer only past both.
LEMMA ResizerKeepsOut ==
    ASSUME EInv, TInv', ResizerNext, Resize => Announced
    PROVE  EInv'
  <1> USE DEF manager, thread, resizer, history, Step
  <1>1. TInv /\ thread_access \in Buffers
    BY DEF EInv, TInv, TypeOK
  <1>2. UNCHANGED <<pc, op, ta, bp>>
    BY DEF ResizerNext, Resize, Abandon, SetResizing, AllClear, BufferCondition, Back, CopyFrom,
       SetBuffer, DeleteOld, FinishResize, ExitAlloc
  <1>3. CASE Resize \/ Abandon \/ CopyFrom \/ DeleteOld
    <2>1. /\ heap'[thread_access] = heap[thread_access] /\ UNCHANGED <<buffer, thread_access>>
      BY <1>1, <1>3, ResizerWrites
    <2>2. rpc' \in Waiting \/ rpc' = "idle" => Announced
      BY <1>3 DEF Resize, Abandon, CopyFrom, DeleteOld, EInv, FlagsTell, Waiting
    <2>3. FlagsTell'
      BY <1>2, <2>1, <2>2, StillAnnounced DEF FlagsTell
    <2>4. StaysOut'
      BY <1>2, <1>3 DEF Resize, Abandon, CopyFrom, DeleteOld, EInv, StaysOut, PastProducer, PastConsumer,
         PastSize, Flagged, IsInside
    <2>5. HeldReferencesAreCurrent'
      BY <1>2, <2>1 DEF EInv, HeldReferencesAreCurrent
    <2> QED
      BY <2>3, <2>4, <2>5 DEF EInv
  <1>4. CASE SetResizing \/ BufferCondition \/ Back \/ ExitAlloc
    <2>1. UNCHANGED <<heap, buffer, thread_access>>
      BY <1>4 DEF SetResizing, BufferCondition, Back, ExitAlloc
    <2>2. rpc' \in Waiting \/ (rpc' = "idle" /\ buffer = 0) => Announced
      BY <1>4 DEF SetResizing, BufferCondition, Back, ExitAlloc, EInv, FlagsTell, Waiting
    <2>3. FlagsTell'
      BY <1>2, <2>1, <2>2, StillAnnounced DEF FlagsTell
    <2>4. StaysOut'
      BY <1>2, <1>4 DEF SetResizing, BufferCondition, Back, ExitAlloc, EInv, StaysOut, PastProducer,
         PastConsumer, PastSize, Flagged, IsInside
    <2>5. HeldReferencesAreCurrent'
      BY <1>2, <2>1 DEF EInv, HeldReferencesAreCurrent
    <2> QED
      BY <2>3, <2>4, <2>5 DEF EInv
  <1>5. CASE AllClear
    <2>1. UNCHANGED <<heap, buffer, thread_access>> /\ rpc \in Waiting
      BY <1>5 DEF AllClear, Waiting
    <2>2. Announced
      BY <2>1 DEF EInv, FlagsTell
    <2>3. FlagsTell'
      BY <1>2, <2>1, <2>2, StillAnnounced DEF FlagsTell
    <2>4. \A t \in Thread : heap[thread_access].access[t] = {} => ~Flagged(t)
      BY <2>2 DEF Announced
    <2>7. checking_size = 0 => \A t \in Thread : IsInside(t) => Flagged(t)
      BY DEF EInv, TInv, Counted, Counts, IsInside, Flagged, Thread, Calling
    <2>5. StaysOut'
      <3>1. UNCHANGED <<pc, op>>
        BY <1>2
      <3>2. (\A t \in Thread : Flagged(t)' = Flagged(t) /\ IsInside(t)' = IsInside(t))
        BY <3>1 DEF Flagged, IsInside
      <3>3. P \in Thread /\ C \in Thread /\ Thread = {P, C}
        BY DEF Thread
      <3> QED
        BY <1>5, <2>4, <2>7, <3>2, <3>3 DEF AllClear, EInv, StaysOut, PastProducer, PastConsumer, PastSize
    <2>6. HeldReferencesAreCurrent'
      BY <1>2, <2>1 DEF EInv, HeldReferencesAreCurrent
    <2> QED
      BY <2>3, <2>5, <2>6 DEF EInv
  <1>6. CASE SetBuffer
    <2>1. \/ rpc = "set_buffer" /\ rpc' = "set_access"
          \/ rpc = "set_access" /\ rpc' = "delete"
      BY <1>6 DEF SetBuffer
    <2>2. \A t \in Thread : ~Flagged(t) /\ ~IsInside(t) /\ pc[t] \notin {"held", "filled"}
      BY <2>1 DEF EInv, TInv, Calling, StaysOut, PastProducer, PastConsumer, PastSize, Thread, Flagged, Inside
    <2>3. FlagsTell' /\ StaysOut' /\ HeldReferencesAreCurrent'
      BY <1>2, <2>1, <2>2
         DEF FlagsTell, Waiting, StaysOut, HeldReferencesAreCurrent, Flagged, IsInside, Thread
    <2> QED
      BY <2>3 DEF EInv
  <1>7. CASE FinishResize
    <2>1. UNCHANGED <<buffer, thread_access>> /\ rpc = "finish" /\ rpc' = "idle"
      BY <1>7 DEF FinishResize
    <2>2. buffer # 0
      <3>1. buffer = old_buffer + 1
        BY <2>1 DEF EInv, TInv, Places
      <3>2. old_buffer \in Nat
        BY BoundsAssumption DEF EInv, TInv, TypeOK, Buffers
      <3> QED
        BY <3>1, <3>2
    <2>3. FlagsTell' /\ StaysOut' /\ HeldReferencesAreCurrent'
      BY <1>2, <2>1, <2>2
         DEF FlagsTell, Waiting, StaysOut, PastProducer, PastConsumer, PastSize, EInv, HeldReferencesAreCurrent
    <2> QED
      BY <2>3 DEF EInv
  <1> QED
    BY <1>3, <1>4, <1>5, <1>6, <1>7 DEF ResizerNext

\* Every step keeps the exclusion, if a resize begins announced.
LEMMA ExclusionPreserved ==
    ASSUME EInv, [Next /\ (Resize => Announced)]_vars
    PROVE  EInv'
  <1>1. TInv /\ TInv' /\ P \in Thread /\ C \in Thread
    BY TypesPreserved DEF EInv, TInv, Thread
  <1>2. CASE ProducerNext
    BY <1>1, <1>2, AccessEnters, ProducerEnters, ThreadsKeepOut DEF ProducerNext
  <1>3. CASE ConsumerNext
    BY <1>1, <1>3, AccessEnters, ConsumerEnters, ThreadsKeepOut DEF ConsumerNext
  <1>4. CASE ResizerNext /\ (Resize => Announced)
    BY <1>1, <1>4, ResizerKeepsOut
  <1>5. CASE UNCHANGED vars
    BY <1>1, <1>5 DEF vars, manager, thread, resizer, history, EInv, FlagsTell, Announced, StaysOut,
       HeldReferencesAreCurrent, Flagged, IsInside
  <1> QED
    BY <1>2, <1>3, <1>4, <1>5 DEF Next

\* It holds before the first call.
LEMMA InitExcludes ==
    ASSUME Init
    PROVE  EInv
  <1>1. TInv
    BY InitTyped
  <1>2. rpc = "idle" /\ \A t \in Thread : pc[t] = "idle"
    BY DEF Init
  <1>3. Announced /\ StaysOut /\ HeldReferencesAreCurrent
    BY <1>2 DEF Announced, StaysOut, HeldReferencesAreCurrent, Inside, Flagged, IsInside, PastProducer,
       PastConsumer, PastSize
  <1> QED
    BY <1>1, <1>3 DEF EInv, FlagsTell

-----------------------------------------------------------------------------
(* The first resize of a stream.                                           *)

\* It begins while the first buffer is the current one, and then the flags are
\* where the resizer looks for them.
LEMMA FirstResizeAnnounced ==
    ASSUME MaxResize <= 1, EInv, [Next]_vars
    PROVE  [Next /\ (Resize => Announced)]_vars
  <1>1. ASSUME Resize PROVE Announced
    <2>1. buffer = 0 /\ rpc = "idle"
      BY <1>1, BoundsAssumption DEF Resize, Step, EInv, TInv, TypeOK, Buffers
    <2> QED
      BY <2>1 DEF EInv, FlagsTell
  <1> QED
    BY <1>1

\* The exclusion, with the invariant it needs.
LEMMA Exclusion == MaxResize <= 1 => (Spec => []EInv)
  <1> SUFFICES ASSUME MaxResize <= 1 PROVE Spec => []EInv
    OBVIOUS
  <1>1. Init => EInv
    BY InitExcludes
  <1>2. EInv /\ [Next]_vars => EInv'
    BY FirstResizeAnnounced, ExclusionPreserved
  <1> QED
    BY <1>1, <1>2, PTL DEF Spec

\* While the buffer of a stream is replaced for the first time no thread is inside
\* it (datamanager.tcc:166): nothing can have misplaced a flag before.
THEOREM FirstResizeExcludes == MaxResize <= 1 => (Spec => []ResizeExcludes)
  <1>1. EInv => ResizeExcludes
    BY DEF EInv, StaysOut, ResizeExcludes, PastProducer, PastConsumer, PastSize
  <1> QED
    BY <1>1, Exclusion, PTL

\* And that replacement invalidates no reference that allocate or peek gave away.
THEOREM FirstResizeReferences == MaxResize <= 1 => (Spec => []HeldReferencesAreCurrent)
  <1>1. EInv => HeldReferencesAreCurrent
    BY DEF EInv
  <1> QED
    BY <1>1, Exclusion, PTL
=============================================================================
