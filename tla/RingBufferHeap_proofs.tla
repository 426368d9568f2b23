------------------------ MODULE RingBufferHeap_proofs ------------------------
(***************************************************************************)
(* Proofs that the ring buffer of RingBufferHeap is correct for every      *)
(* capacity, range length and number of items.                             *)
(*                                                                         *)
(* None of the safety properties is inductive: they say what a thread may  *)
(* rely on once size() has returned, and size() takes four loads between   *)
(* which the other thread moves its pointer in two stores.  The inductive  *)
(* invariant IInv therefore says what each thread knows after each load    *)
(* (ProducerKnows, ConsumerKnows, CloseKnows), in terms of the position of *)
(* the two pointers (Positions), and what the slots between the pointers   *)
(* hold (Contents).                                                        *)
(***************************************************************************)
EXTENDS RingBufferHeap, ItemNumbers

\* The wrap counts, counting the increment that a thread is about to store.
WrapW == IF pc[P] = "wrap" /\ write_pt.a < n[P] THEN write_pt.wrap + 1 ELSE write_pt.wrap
WrapR == IF pc[C] = "wrap" /\ read_pt.a < 1 THEN read_pt.wrap + 1 ELSE read_pt.wrap

\* The write pointer is sent - taken places ahead of the read pointer, and at
\* most once round.
Apart(ww, wr, w, r, s, t) ==
    \/ ww = wr /\ r <= w /\ s + r = t + w
    \/ ww = wr + 1 /\ w <= r /\ s + r = t + Cap + w
Positions == Apart(WrapW, WrapR, write_pt.a, read_pt.a, sent, taken)

\* What the producer's call is, by where it is.
ProducerCall ==
    /\ ret[P] = "admit"
    /\ op[P] # "allocate_range" => n[P] = 1
    /\ op[P] \in {"none", "push", "allocate", "allocate_range"}
    /\ pc[P] = "signal" => op[P] = "push"
    /\ pc[P] \in {"held", "filled"} => op[P] \in {"allocate", "allocate_range"}
    /\ pc[P] \in {"held", "filled"} /\ op[P] = "allocate_range" => n_allocated = n[P]

\* The producer's loads of its own pointer are exact; the read pointer it has
\* seen is perhaps behind, so the queue is no fuller than it thinks.
ProducerKnows ==
    /\ pc[P] \in {"wrap_read", "wpt", "rpt"} => sz[P].wrap_write = write_pt.wrap
    /\ pc[P] \in {"wpt", "rpt"} => sz[P].wrap_read <= WrapR
    /\ pc[P] = "rpt" => sz[P].wpt = write_pt.a
    /\ pc[P] = "admit" => sent <= taken + sz[P].res
    /\ pc[P] \in {"signal", "held", "filled", "inc"} => sent + n[P] <= taken + Cap

\* What the consumer's call is, by where it is.
ConsumerCall ==
    /\ op[C] \in {"pop", "recycle"} => n[C] = 1
    /\ pc[C] \in {"idle", "admit", "held", "inc", "wrap"} => ret[C] = "admit"
    /\ pc[C] = "drained" => ret[C] = "drained"
    /\ pc[C] = "short" => ret[C] = "short"
    /\ pc[C] \in {"inc", "wrap"} => n[C] = 1

\* The consumer's loads of its own pointer are exact; the write pointer it has
\* seen is perhaps behind, so the queue is no emptier than it thinks.
ConsumerKnows ==
    /\ pc[C] \in {"wrap_read", "wpt", "rpt"} => sz[C].wrap_write <= WrapW
    /\ pc[C] \in {"wpt", "rpt"} => sz[C].wrap_read = read_pt.wrap
    /\ pc[C] = "rpt" =>
          taken + SizeOf(sz[C].wrap_write, sz[C].wrap_read, sz[C].wpt, read_pt.a) <= sent
    /\ pc[C] \in {"admit", "drained", "short"} => taken + sz[C].res <= sent
    /\ pc[C] \in {"held", "inc"} => taken + n[C] <= sent

\* Once the consumer has seen the stream closed the producer has stopped, and
\* the consumer's next size() is exact.
CloseKnows ==
    /\ ~is_valid => pc[P] = "done"
    /\ ret[C] # "admit" /\ pc[C] # "is_invalid" => ~is_valid
    /\ ret[C] # "admit" /\ pc[C] \in {"wrap_read", "wpt", "rpt"} =>
          sz[C].wrap_write = write_pt.wrap
    /\ ret[C] # "admit" /\ pc[C] = "rpt" => sz[C].wpt = write_pt.a
    /\ pc[C] \in {"drained", "short"} => taken + sz[C].res = sent
    /\ error # "none" => pc[C] = "failed"
    /\ error = "closed" => ~is_valid /\ taken = sent
    /\ error = "no_more_data" => ~is_valid /\ sent < taken + n[C]

\* The slots between the pointers hold the items not yet taken, in order.
Stored ==
    \A s \in Slot : Offset(read_pt, s) < sent - taken =>
        /\ store[s] = taken + 1 + Offset(read_pt, s)
        /\ signal[s] \in {0, taken + 1 + Offset(read_pt, s)}

\* The slots that the producer has written and not yet published.
Written ==
    \A s \in Slot : Offset(write_pt, s) < n[P] =>
        /\ pc[P] \in {"signal", "filled", "inc"} => store[s] = sent + 1 + Offset(write_pt, s)
        /\ pc[P] = "inc" => signal[s] \in {0, sent + 1 + Offset(write_pt, s)}
        /\ pc[P] \in {"held", "filled"} /\ op[P] = "allocate_range" => signal[s] = 0

Contents == Stored /\ Written /\ InOrder

IInv == /\ TypeOK /\ Positions /\ ProducerCall /\ ProducerKnows
        /\ ConsumerCall /\ ConsumerKnows /\ CloseKnows /\ Contents

-----------------------------------------------------------------------------
(* Arithmetic of the ring.                                                 *)

\* Moving an index by k <= Cap places is an addition and at most one subtraction.
LEMMA IndexMoves ==
    ASSUME NEW a \in Slot, NEW k \in 0 .. Cap
    PROVE  /\ (a + k) % Cap = IF a + k < Cap THEN a + k ELSE a + k - Cap
           /\ (a + k) % Cap \in Slot
  BY CapAssumption, SMT DEF Slot

\* The index of a slot stays in the array however far it moves.
LEMMA IndexInRange ==
    ASSUME NEW a \in Nat
    PROVE  a % Cap \in Slot
  BY CapAssumption, SMT DEF Slot

\* size() never exceeds the capacity, whatever four values it has read.
LEMMA SizeInRange ==
    ASSUME NEW ww \in Nat, NEW wr \in Nat, NEW w \in Slot, NEW r \in Slot
    PROVE  SizeOf(ww, wr, w, r) \in 0 .. Cap
  BY CapAssumption, SMT DEF Slot, SizeOf

\* The producer's size() is never too small: it knows its own pointer, and the
\* wrap count of the other that it has read is perhaps behind.
LEMMA SizeForProducer ==
    ASSUME NEW ww \in Nat, NEW wr \in Nat, NEW w \in Slot, NEW r \in Slot,
           NEW s \in Nat, NEW t \in Nat, Apart(ww, wr, w, r, s, t),
           NEW seen \in Nat, seen <= wr
    PROVE  s <= t + SizeOf(ww, seen, w, r)
  BY CapAssumption, SMT DEF Slot, SizeOf, Apart

\* The consumer's size() is never too large.
LEMMA SizeForConsumer ==
    ASSUME NEW ww \in Nat, NEW wr \in Nat, NEW w \in Slot, NEW r \in Slot,
           NEW s \in Nat, NEW t \in Nat, Apart(ww, wr, w, r, s, t),
           NEW seen \in Nat, seen <= ww
    PROVE  t + SizeOf(seen, wr, w, r) <= s
  BY CapAssumption, SMT DEF Slot, SizeOf, Apart

\* While neither pointer moves, size() is exact.
LEMMA SizeWhenStill ==
    ASSUME NEW ww \in Nat, NEW wr \in Nat, NEW w \in Slot, NEW r \in Slot,
           NEW s \in Nat, NEW t \in Nat, Apart(ww, wr, w, r, s, t)
    PROVE  t + SizeOf(ww, wr, w, r) = s
  BY CapAssumption, SMT DEF Slot, SizeOf, Apart

-----------------------------------------------------------------------------
(* Type correctness.                                                       *)

\* What TypeOK says of the parts of the state.
LEMMA Types ==
    ASSUME TypeOK
    PROVE  /\ write_pt.a \in Slot /\ write_pt.wrap \in Nat
           /\ read_pt.a \in Slot /\ read_pt.wrap \in Nat
           /\ WrapW \in Nat /\ WrapR \in Nat /\ sent \in Nat /\ taken \in Nat
           /\ \A t \in Thread :
                 /\ sz[t].wrap_write \in Nat /\ sz[t].wrap_read \in Nat
                 /\ sz[t].wpt \in Slot /\ sz[t].res \in 0 .. Cap
                 /\ n[t] \in Nat /\ n[t] >= 1 /\ left[t] \in Nat /\ left[t] >= 1
  <1>1. /\ write_pt.a \in Slot /\ write_pt.wrap \in Nat
        /\ read_pt.a \in Slot /\ read_pt.wrap \in Nat
    BY DEF TypeOK, PointerType, Slot
  <1>2. \A t \in Thread :
            /\ sz[t].wrap_write \in Nat /\ sz[t].wrap_read \in Nat
            /\ sz[t].wpt \in Slot /\ sz[t].res \in 0 .. Cap
            /\ n[t] \in Nat /\ n[t] >= 1 /\ left[t] \in Nat /\ left[t] >= 1
    BY MaxRangeAssumption DEF TypeOK
  <1>3. WrapW \in Nat /\ WrapR \in Nat
    BY <1>1 DEF WrapW, WrapR
  <1> QED
    BY <1>1, <1>2, <1>3 DEF TypeOK

\* The locals of a size() that has returned are typed.
LEMMA ReturnedType ==
    ASSUME NEW v \in 0 .. Cap
    PROVE  Returned(v) \in [wrap_write : Nat, wrap_read : Nat, wpt : Slot, res : 0 .. Cap]
  BY CapAssumption DEF Returned, Slot

\* A call that returns leaves its variables typed.
LEMMA ReturnType ==
    ASSUME TypeOK, NEW t \in Thread, Return(t)
    PROVE  /\ op' \in [Thread -> {"none", "push", "allocate", "allocate_range",
                                 "pop", "peek", "peek_range", "recycle"}]
           /\ n' \in [Thread -> 1 .. MaxRange]
           /\ left' \in [Thread -> 1 .. MaxRange]
           /\ ret' \in [Thread -> {"admit", "drained", "short"}]
           /\ sz' \in [Thread -> [wrap_write : Nat, wrap_read : Nat, wpt : Slot, res : 0 .. Cap]]
           /\ pc' \in [Thread -> ProducerLabel \cup ConsumerLabel]
           /\ pc'[P] \in ProducerLabel
           /\ pc'[C] \in ConsumerLabel
  <1>1. Returned(0) \in [wrap_write : Nat, wrap_read : Nat, wpt : Slot, res : 0 .. Cap]
    BY ReturnedType, CapAssumption
  <1>2. sz' \in [Thread -> [wrap_write : Nat, wrap_read : Nat, wpt : Slot, res : 0 .. Cap]]
    BY <1>1 DEF TypeOK, Return
  <1> QED
    BY <1>2, MaxRangeAssumption DEF TypeOK, Return, Goto, ProducerLabel, ConsumerLabel,
       Thread, P, C

\* A step of size() keeps the types: it writes the caller's pc and locals only.
LEMMA SizeType ==
    ASSUME IInv, NEW t \in Thread, Size(t)
    PROVE  TypeOK'
  <1> USE CapAssumption DEF IInv, TypeOK, ProducerLabel, ConsumerLabel, Thread, P, C,
     PointerType, Goto, buffer, call, alloc, history, wrapIndicator, val
  <1>1. CASE ReadWrapWrite(t)
    BY <1>1 DEF ReadWrapWrite
  <1>2. CASE ReadWrapRead(t)
    BY <1>2 DEF ReadWrapRead
  <1>3. CASE ReadWpt(t)
    BY <1>3 DEF ReadWpt, Slot
  <1>4. CASE ReadRpt(t)
    <2> DEFINE v == SizeOf(sz[t].wrap_write, sz[t].wrap_read, sz[t].wpt, val(read_pt))
    <2>1. v \in 0 .. Cap
      BY SizeInRange DEF Slot
    <2>2. Returned(v) \in [wrap_write : Nat, wrap_read : Nat, wpt : Slot, res : 0 .. Cap]
      BY <2>1, ReturnedType
    <2>3. t = P => ret[t] = "admit"
      BY DEF ProducerCall
    <2>4. sz' \in [Thread -> [wrap_write : Nat, wrap_read : Nat, wpt : Slot, res : 0 .. Cap]]
      BY <1>4, <2>2 DEF ReadRpt
    <2> QED
      BY <1>4, <2>3, <2>4 DEF ReadRpt
  <1> QED
    BY <1>1, <1>2, <1>3, <1>4 DEF Size

-----------------------------------------------------------------------------
(* What a thread leaves alone.                                             *)

\* The consumer's own state, and what a step of the producer leaves of it.
ConsumerState == <<pc[C], op[C], n[C], left[C], ret[C], sz[C], read_pt, taken, got, error>>
ProducerState == <<pc[P], op[P], n[P], left[P], ret[P], sz[P], write_pt, sent, is_valid,
                   store, signal, allocate_called, n_allocated>>

\* What the consumer relies on in a step of the producer: its own state is left
\* alone, the write pointer only moves forward, the slots with items in them are
\* not written, and nothing moves once the stream is closed.
ProducerGuarantee ==
    /\ UNCHANGED ConsumerState
    /\ sent' >= sent /\ WrapW' >= WrapW
    /\ \A s \in Slot : Offset(read_pt, s) < sent - taken =>
          store'[s] = store[s] /\ signal'[s] = signal[s]
    /\ ~is_valid => UNCHANGED <<write_pt, sent, is_valid>>
    /\ ~is_valid' => pc'[P] = "done"

\* What the producer relies on in a step of the consumer.
ConsumerGuarantee ==
    /\ UNCHANGED ProducerState
    /\ taken' >= taken /\ WrapR' >= WrapR

\* A step of size() by the producer.
LEMMA ProducerSize ==
    ASSUME IInv, Size(P)
    PROVE  Positions' /\ ProducerCall' /\ ProducerKnows' /\ Stored' /\ Written' /\ ProducerGuarantee
  <1> DEFINE loads == {"wrap_write", "wrap_read", "wpt", "rpt"}
  <1>1. /\ UNCHANGED <<buffer, call, ret, alloc, history>>
        /\ pc[P] \in loads /\ pc'[P] \in loads \cup {"admit"}
        /\ pc'[C] = pc[C] /\ sz'[C] = sz[C]
    BY DEF IInv, TypeOK, ProducerCall, Size, ReadWrapWrite, ReadWrapRead, ReadWpt,
       ReadRpt, Goto, Thread, P, C
  <1>2. UNCHANGED <<write_pt, read_pt, store, signal, is_valid, op, n, left, ret, allocate_called, n_allocated, sent, taken, got, error>>
    BY <1>1 DEF buffer, call, alloc, history
  <1>3. WrapW' = WrapW /\ WrapR' = WrapR
    BY <1>1, <1>2 DEF WrapW, WrapR
  <1>4. Positions' /\ ProducerCall'
    BY <1>1, <1>2, <1>3 DEF IInv, Positions, ProducerCall
  <1>5. Stored' /\ Written'
    BY <1>1, <1>2 DEF IInv, Contents, Stored, Written
  <1>6. ProducerGuarantee
    BY <1>1, <1>2, <1>3 DEF IInv, TypeOK, PointerType, WrapW, CloseKnows,
       ProducerGuarantee, ConsumerState
  <1>7. ProducerKnows'
    <2> USE DEF ProducerKnows, Goto, wrapIndicator, val
    <2>1. CASE ReadWrapWrite(P)
      BY <2>1, <1>2 DEF ReadWrapWrite, IInv, TypeOK, Thread, P, C
    <2>2. CASE ReadWrapRead(P)
      <3>1. read_pt.wrap <= WrapR
        BY Types DEF IInv, WrapR
      <3> QED
        BY <2>2, <1>2, <1>3, <3>1 DEF ReadWrapRead, IInv, TypeOK, Thread, P, C
    <2>3. CASE ReadWpt(P)
      BY <2>3, <1>2, <1>3 DEF ReadWpt, IInv, TypeOK, Thread, P, C
    <2>4. CASE ReadRpt(P)
      <3> DEFINE v == SizeOf(sz[P].wrap_write, sz[P].wrap_read, sz[P].wpt, read_pt.a)
      <3>1. /\ sz[P].wrap_write = write_pt.wrap /\ sz[P].wpt = write_pt.a
            /\ sz[P].wrap_read <= WrapR
            /\ Apart(write_pt.wrap, WrapR, write_pt.a, read_pt.a, sent, taken)
        BY <2>4 DEF IInv, ReadRpt, Positions, WrapW
      <3>2. sent <= taken + v
        BY <3>1, Types, SizeForProducer DEF IInv, Thread
      <3>3. \/ pc'[P] = "wrap_write"
            \/ pc'[P] = "admit" /\ sz'[P].res = v
        BY <2>4 DEF IInv, TypeOK, Thread, P, C, ReadRpt, ProducerCall, Returned
      <3> QED
        BY <1>2, <3>2, <3>3
    <2> QED
      BY <2>1, <2>2, <2>3, <2>4 DEF Size
  <1> QED
    BY <1>4, <1>5, <1>6, <1>7

\* The slots with items, counted from the read pointer, and the others, counted
\* from the write pointer.
LEMMA OffsetsApart ==
    ASSUME TypeOK, Positions, NEW s \in Slot
    PROVE  /\ sent - taken \in 0 .. Cap
           /\ Offset(read_pt, s) \in 0 .. Cap - 1
           /\ Offset(write_pt, s) \in 0 .. Cap - 1
           /\ Offset(write_pt, s) = IF Offset(read_pt, s) >= sent - taken
                                    THEN Offset(read_pt, s) - (sent - taken)
                                    ELSE Offset(read_pt, s) - (sent - taken) + Cap
  <1>1. /\ write_pt.a \in Slot /\ read_pt.a \in Slot /\ sent \in Nat /\ taken \in Nat
        /\ \/ read_pt.a <= write_pt.a /\ sent + read_pt.a = taken + write_pt.a
           \/ write_pt.a <= read_pt.a /\ sent + read_pt.a = taken + Cap + write_pt.a
    BY Types DEF Positions, Apart
  <1> QED
    BY <1>1, CapAssumption DEF Slot, Offset, val

\* A step of the producer that does not move the write pointer and writes only
\* slots that are free.
LEMMA ProducerStays ==
    ASSUME IInv, UNCHANGED <<write_pt, sent>>, UNCHANGED ConsumerState,
           pc[P] \notin {"wrap", "done"}, pc'[P] # "wrap",
           ~is_valid' => pc'[P] = "done",
           \A s \in Slot : (store'[s] # store[s] \/ signal'[s] # signal[s]) =>
               Offset(write_pt, s) < n[P] /\ sent + n[P] <= taken + Cap
    PROVE  Positions' /\ Stored' /\ ProducerGuarantee
  <1>1. UNCHANGED <<read_pt, taken>> /\ pc'[C] = pc[C]
    BY DEF ConsumerState
  <1>2. WrapW' = WrapW /\ WrapR' = WrapR
    BY <1>1 DEF WrapW, WrapR
  <1>3. Positions'
    BY <1>1, <1>2 DEF IInv, Positions
  <1>4. ASSUME NEW s \in Slot, Offset(read_pt, s) < sent - taken
        PROVE  store'[s] = store[s] /\ signal'[s] = signal[s]
    <2>1. /\ sent - taken \in 0 .. Cap /\ Offset(read_pt, s) \in 0 .. Cap - 1
          /\ Offset(write_pt, s) = Offset(read_pt, s) - (sent - taken) + Cap
      BY <1>4, OffsetsApart DEF IInv
    <2>2. n[P] \in Nat /\ sent \in Nat /\ taken \in Nat
      BY Types DEF IInv, Thread
    <2>3. ~ (Offset(write_pt, s) < n[P] /\ sent + n[P] <= taken + Cap)
      BY <2>1, <2>2, CapAssumption
    <2> QED
      BY <2>3
  <1>5. Stored'
    BY <1>1, <1>4 DEF IInv, Contents, Stored
  <1>6. ProducerGuarantee
    BY <1>2, <1>4, Types DEF IInv, CloseKnows, ProducerGuarantee
  <1> QED
    BY <1>3, <1>5, <1>6

\* The steps of the producer that leave the arrays and the pointers alone.
LEMMA ProducerLocal ==
    ASSUME IInv,
           \/ \E o \in ProducerOps, k \in 1 .. MaxRange : Produce(o, k)
           \/ ProducerSpins \/ LocalAllocate \/ Deallocate \/ Invalidate
    PROVE  /\ TypeOK' /\ Positions' /\ ProducerCall' /\ ProducerKnows' /\ Stored' /\ Written'
           /\ ProducerGuarantee
  <1> USE DEF IInv, TypeOK, Goto, CallSize, Return, Thread, P, C, buffer, call, alloc,
     history
  <1>1. /\ UNCHANGED <<write_pt, sent, store, signal>>
        /\ UNCHANGED ConsumerState
        /\ pc[P] \notin {"wrap", "done"} /\ pc'[P] \notin {"wrap", "signal", "filled", "inc"}
        /\ ~is_valid' => pc'[P] = "done"
    BY DEF CloseKnows, Produce, ProducerSpins, LocalAllocate, Deallocate, Invalidate,
       ConsumerState
  <1>2. Positions' /\ Stored' /\ ProducerGuarantee
    BY ONLY <1>1, IInv, ProducerStays
  <1>3. CASE \E o \in ProducerOps, k \in 1 .. MaxRange : Produce(o, k)
    <2>1. PICK o \in ProducerOps, k \in 1 .. MaxRange : Produce(o, k)
      BY <1>3
    <2>2. o \in {"push", "allocate", "allocate_range"}
      BY OpsAssumption
    <2>3. TypeOK'
      BY <2>1, <2>2, MaxRangeAssumption DEF Produce, ProducerLabel, ConsumerLabel
    <2>4. ProducerCall'
      BY <2>1, <2>2 DEF Produce, ProducerCall
    <2>5. ProducerKnows' /\ Written'
      BY <2>1, <2>2 DEF Produce, ProducerKnows, Written
    <2> QED
      BY <1>2, <2>3, <2>4, <2>5
  <1>4. CASE ProducerSpins
    <2>1. TypeOK'
      BY <1>4 DEF ProducerSpins, ProducerLabel, ConsumerLabel
    <2>2. ProducerCall' /\ ProducerKnows' /\ Written'
      BY <1>4 DEF ProducerSpins, ProducerCall, ProducerKnows, Written
    <2> QED
      BY <1>2, <2>1, <2>2
  <1>5. CASE LocalAllocate
    <2>1. TypeOK'
      BY <1>5 DEF LocalAllocate, ProducerLabel, ConsumerLabel
    <2>2. ProducerCall' /\ Written'
      BY <1>5 DEF LocalAllocate, ProducerCall, Written
    <2>3. sent + n[P] <= taken + Cap
      BY <1>5, Types, CapAssumption DEF LocalAllocate, ProducerKnows, space_avail
    <2>4. ProducerKnows'
      BY <1>5, <2>3 DEF LocalAllocate, ProducerKnows
    <2> QED
      BY <1>2, <2>1, <2>2, <2>4
  <1>6. CASE Deallocate
    <2>1. TypeOK'
      BY <1>6, ReturnType DEF Deallocate
    <2>2. ProducerCall' /\ ProducerKnows' /\ Written'
      BY <1>6 DEF Deallocate, ProducerCall, ProducerKnows, Written
    <2> QED
      BY <1>2, <2>1, <2>2
  <1>7. CASE Invalidate
    <2>1. TypeOK'
      BY <1>7 DEF Invalidate, ProducerLabel, ConsumerLabel
    <2>2. ProducerCall' /\ ProducerKnows' /\ Written'
      BY <1>7 DEF Invalidate, ProducerCall, ProducerKnows, Written
    <2> QED
      BY <1>2, <2>1, <2>2
  <1> QED
    BY <1>3, <1>4, <1>5, <1>6, <1>7

\* The slot that the write pointer points to is the first of the slots to write.
LEMMA FirstSlot ==
    ASSUME TypeOK, NEW s \in Slot
    PROVE  /\ Offset(write_pt, write_pt.a) = 0
           /\ s # write_pt.a => Offset(write_pt, s) >= 1
           /\ Offset(read_pt, read_pt.a) = 0
           /\ s # read_pt.a => Offset(read_pt, s) >= 1
  BY Types, CapAssumption DEF Slot, Offset, val

\* The steps of the producer that write the arrays.
LEMMA ProducerWrites ==
    ASSUME IInv, PushStore \/ PushSignal \/ LocalAllocateN \/ Fill \/ Send \/ SendRange
    PROVE  /\ TypeOK' /\ Positions' /\ ProducerCall' /\ ProducerKnows' /\ Stored' /\ Written'
           /\ ProducerGuarantee
  <1> USE DEF IInv, Goto, val, call, history
  <1>1. sent + n[P] <= taken + Cap
    <2>1. pc[P] = "admit" /\ space_avail >= n[P] => sent + n[P] <= taken + Cap
      BY Types, CapAssumption DEF ProducerKnows, space_avail, Thread
    <2> QED
      BY <2>1 DEF ProducerKnows, PushStore, PushSignal, LocalAllocateN, Fill, Send,
         SendRange
  <1>2. n[P] \in Nat /\ n[P] >= 1 /\ sent \in Nat /\ write_pt.a \in Slot
    BY Types DEF Thread
  <1>3. /\ UNCHANGED <<write_pt, sent>> /\ UNCHANGED ConsumerState
        /\ pc[P] \notin {"wrap", "done"} /\ pc'[P] # "wrap"
        /\ ~is_valid' => pc'[P] = "done"
    BY DEF CloseKnows, PushStore, PushSignal, LocalAllocateN, Fill, Send, SendRange,
       ConsumerState,
           TypeOK, Thread, P, C
  <1>4. ASSUME NEW s \in Slot, store'[s] # store[s] \/ signal'[s] # signal[s]
        PROVE  Offset(write_pt, s) < n[P]
    BY <1>2, <1>4, FirstSlot
       DEF PushStore, PushSignal, LocalAllocateN, Fill, Send, SendRange, TypeOK, WriteSlots, SlotsFrom
  <1>5. Positions' /\ Stored' /\ ProducerGuarantee
    BY <1>1, <1>3, <1>4, ProducerStays
  <1>5a. ASSUME op[P] # "allocate_range", NEW s \in Slot, Offset(write_pt, s) < n[P]
        PROVE  s = write_pt.a /\ Offset(write_pt, s) = 0
    <2>1. n[P] = 1
      BY <1>5a DEF ProducerCall
    <2> QED
      BY <1>5a, <2>1, FirstSlot, OffsetsApart
  <1>6. CASE PushStore
    <2>1. TypeOK'
      BY <1>2, <1>6 DEF PushStore, TypeOK, ProducerLabel, ConsumerLabel, Thread, P, C, alloc
    <2>2. ProducerCall' /\ ProducerKnows'
      BY <1>1, <1>6 DEF PushStore, ProducerCall, ProducerKnows, TypeOK, Thread, P, C, alloc
    <2>3. Written'
      BY <1>2, <1>6, <1>5a DEF PushStore, Written, TypeOK, Thread, P, C
    <2> QED
      BY <1>5, <2>1, <2>2, <2>3
  <1>7. CASE PushSignal
    <2>1. TypeOK'
      BY <1>2, <1>7 DEF PushSignal, TypeOK, ProducerLabel, ConsumerLabel, Thread, P, C,
         alloc
    <2>2. ProducerCall' /\ ProducerKnows'
      BY <1>1, <1>7 DEF PushSignal, ProducerCall, ProducerKnows, TypeOK, Thread, P, C, alloc
    <2>3. Written'
      BY <1>2, <1>7, <1>5a DEF PushSignal, ProducerCall, Written, Contents, TypeOK,
         Thread, P, C
    <2> QED
      BY <1>5, <2>1, <2>2, <2>3
  <1>8. CASE LocalAllocateN
    <2>1. TypeOK'
      BY <1>8 DEF LocalAllocateN, TypeOK, ProducerLabel, ConsumerLabel, Thread, P, C
    <2>2. ProducerCall' /\ ProducerKnows'
      BY <1>1, <1>8 DEF LocalAllocateN, ProducerCall, ProducerKnows, TypeOK, Thread, P, C
    <2>3. Written'
      BY <1>8 DEF LocalAllocateN, Written, WriteSlots, SlotsFrom, TypeOK, Thread, P, C
    <2> QED
      BY <1>5, <2>1, <2>2, <2>3
  <1>9. CASE Fill
    <2>1. \A s \in Slot : Offset(write_pt, s) \in Nat
      BY OffsetsApart
    <2>2. TypeOK'
      BY <1>2, <1>9, <2>1 DEF Fill, TypeOK, ProducerLabel, ConsumerLabel, Thread, P, C,
         alloc
    <2>3. ProducerCall' /\ ProducerKnows'
      BY <1>1, <1>9 DEF Fill, ProducerCall, ProducerKnows, TypeOK, Thread, P, C, alloc
    <2>4. Written'
      BY <1>9 DEF Fill, Written, Contents, WriteSlots, SlotsFrom, TypeOK, Thread, P, C
    <2> QED
      BY <1>5, <2>2, <2>3, <2>4
  <1>10. CASE Send
    <2>1. /\ pc[P] = "filled" /\ op[P] = "allocate"
          /\ signal' = [signal EXCEPT ![write_pt.a] = sent + 1]
          /\ pc' = [pc EXCEPT ![P] = "inc"]
          /\ UNCHANGED <<write_pt, read_pt, store, is_valid, op, n, left, ret, sz, n_allocated,
                        sent, taken, got, error>>
      BY <1>10 DEF Send
    <2>2. allocate_called' \in BOOLEAN
      BY <1>10 DEF Send
    <2>3. TypeOK'
      BY <1>2, <2>1, <2>2 DEF TypeOK, ProducerLabel, ConsumerLabel, Thread, P, C
    <2>4. ProducerCall' /\ ProducerKnows'
      BY <1>1, <2>1 DEF ProducerCall, ProducerKnows, TypeOK, Thread, P, C
    <2>5. Written'
      BY <1>2, <2>1, <1>5a DEF Written, Contents, TypeOK, Thread, P, C
    <2> QED
      BY <1>5, <2>3, <2>4, <2>5
  <1>11. CASE SendRange
    <2>1. /\ pc[P] = "filled" /\ op[P] = "allocate_range"
          /\ signal' = [signal EXCEPT ![write_pt.a] = sent + 1]
          /\ pc' = [pc EXCEPT ![P] = "inc"]
          /\ n' = [n EXCEPT ![P] = n_allocated] /\ n_allocated' = 0
          /\ UNCHANGED <<write_pt, read_pt, store, is_valid, op, left, ret, sz,
                        sent, taken, got, error>>
      BY <1>11 DEF SendRange
    <2>2. allocate_called' \in BOOLEAN
      BY <1>11 DEF SendRange
    <2>3. n' = n
      BY <2>1 DEF ProducerCall, TypeOK, Thread, P, C
    <2>4. TypeOK'
      BY <1>2, <2>1, <2>2, <2>3, MaxRangeAssumption DEF TypeOK, ProducerLabel,
         ConsumerLabel, Thread, P, C
    <2>5. ProducerCall' /\ ProducerKnows'
      BY <1>1, <2>1, <2>3 DEF ProducerCall, ProducerKnows, TypeOK, Thread, P, C
    <2>6. Written'
      BY <1>2, <2>1, <2>3, FirstSlot DEF Written, Contents, TypeOK, Thread, P, C
    <2> QED
      BY <1>5, <2>4, <2>5, <2>6
  <1> QED
    BY <1>6, <1>7, <1>8, <1>9, <1>10, <1>11

\* Publishing k items moves the write pointer k places on.
LEMMA WriteMoves ==
    ASSUME NEW ww \in Nat, NEW wr \in Nat, NEW w \in Slot, NEW r \in Slot,
           NEW s \in Nat, NEW t \in Nat, Apart(ww, wr, w, r, s, t),
           NEW k \in 0 .. Cap, s + k <= t + Cap, NEW w2, w2 = (w + k) % Cap
    PROVE  /\ w2 \in Slot
           /\ Apart(IF w2 < k THEN ww + 1 ELSE ww, wr, w2, r, s + k, t)
  <1>1. w2 = (IF w + k < Cap THEN w + k ELSE w + k - Cap) /\ w2 \in Slot
    BY IndexMoves
  <1> QED
    BY <1>1, CapAssumption DEF Slot, Apart

\* Removing an item moves the read pointer one place on.
LEMMA ReadMoves ==
    ASSUME NEW ww \in Nat, NEW wr \in Nat, NEW w \in Slot, NEW r \in Slot,
           NEW s \in Nat, NEW t \in Nat, Apart(ww, wr, w, r, s, t),
           t + 1 <= s, NEW r2, r2 = (r + 1) % Cap
    PROVE  /\ r2 \in Slot
           /\ Apart(ww, IF r2 < 1 THEN wr + 1 ELSE wr, w, r2, s, t + 1)
  <1>1. r2 = (IF r + 1 < Cap THEN r + 1 ELSE r + 1 - Cap) /\ r2 \in Slot
    BY IndexMoves, CapAssumption
  <1> QED
    BY <1>1, CapAssumption DEF Slot, Apart

\* The two stores by which the producer publishes.
LEMMA ProducerMoves ==
    ASSUME IInv, IncWrite \/ IncWriteWrap
    PROVE  /\ TypeOK' /\ Positions' /\ ProducerCall' /\ ProducerKnows' /\ Stored' /\ Written'
           /\ ProducerGuarantee
  <1> USE DEF IInv
  <1>1. CASE IncWrite
    <2>1. /\ pc[P] = "inc" /\ pc' = [pc EXCEPT ![P] = "wrap"] /\ sent' = sent + n[P]
          /\ write_pt' = [write_pt EXCEPT !.a = (@ + n[P]) % Cap]
          /\ UNCHANGED <<read_pt, store, signal, is_valid, op, n, left, ret, sz,
                         allocate_called, n_allocated, taken, got, error>>
      BY <1>1 DEF IncWrite, IncIndex, Goto, call, alloc
    <2>2. pc'[P] = "wrap" /\ pc'[C] = pc[C]
      BY <2>1 DEF TypeOK, Thread, P, C
    <2>3. /\ sent + n[P] <= taken + Cap /\ n[P] \in 1 .. Cap
          /\ sent - taken \in 0 .. Cap
      <3>1. sent + n[P] <= taken + Cap
        BY <2>1 DEF ProducerKnows
      <3>2. sent - taken \in 0 .. Cap
        BY OffsetsApart, Types
      <3>3. n[P] \in Nat /\ n[P] >= 1 /\ sent \in Nat /\ taken \in Nat
        BY Types DEF Thread
      <3> QED
        BY <3>1, <3>2, <3>3, CapAssumption
    <2>4. /\ write_pt'.a = (write_pt.a + n[P]) % Cap
          /\ write_pt'.wrap = write_pt.wrap
      BY <2>1 DEF TypeOK, PointerType
    <2>5. /\ WrapW = write_pt.wrap /\ WrapR' = WrapR
          /\ WrapW' = IF write_pt'.a < n[P] THEN write_pt.wrap + 1 ELSE write_pt.wrap
      BY <2>1, <2>2, <2>4 DEF WrapW, WrapR
    <2>6. write_pt'.a \in Slot /\ Positions'
      <3>1. Apart(write_pt.wrap, WrapR, write_pt.a, read_pt.a, sent, taken)
        BY <2>5 DEF Positions
      <3>2. /\ write_pt'.a \in Slot
            /\ Apart(IF write_pt'.a < n[P] THEN write_pt.wrap + 1 ELSE write_pt.wrap,
                     WrapR, write_pt'.a, read_pt.a, sent + n[P], taken)
        <4>1. /\ write_pt.wrap \in Nat /\ WrapR \in Nat /\ write_pt.a \in Slot
              /\ read_pt.a \in Slot /\ sent \in Nat /\ taken \in Nat
          BY Types
        <4>2. n[P] \in 0 .. Cap /\ sent + n[P] <= taken + Cap
          BY <2>3
        <4> QED
          BY ONLY <2>4, <3>1, <4>1, <4>2, WriteMoves
      <3> QED
        BY <2>1, <2>5, <3>2 DEF Positions
    <2>7. TypeOK'
      <3>1. write_pt' \in PointerType(Cap)
        BY <2>1, <2>6, <2>4 DEF TypeOK, PointerType, Slot
      <3> QED
        BY <2>1, <2>3, <3>1 DEF TypeOK, ProducerLabel, ConsumerLabel, Thread, P, C
    <2>8. ProducerCall' /\ ProducerKnows' /\ Written'
      BY <2>1, <2>2 DEF ProducerCall, ProducerKnows, Written
    <2>9. Stored'
      <3> SUFFICES ASSUME NEW s \in Slot, Offset(read_pt', s) < sent' - taken'
                   PROVE  /\ store'[s] = taken' + 1 + Offset(read_pt', s)
                          /\ signal'[s] \in {0, taken' + 1 + Offset(read_pt', s)}
        BY DEF Stored
      <3>1. CASE Offset(read_pt, s) < sent - taken
        BY <2>1, <3>1 DEF Contents, Stored
      <3>2. CASE ~ (Offset(read_pt, s) < sent - taken)
        <4>1. Offset(write_pt, s) < n[P] /\ sent + 1 + Offset(write_pt, s) = taken + 1 + Offset(read_pt, s)
          BY <2>1, <2>3, <3>2, OffsetsApart, Types
        <4> QED
          BY <2>1, <4>1 DEF Contents, Written
      <3> QED
        BY <3>1, <3>2
    <2>10. ProducerGuarantee
      <3>1. sent' >= sent /\ WrapW' >= WrapW
        BY <2>1, <2>3, <2>5, Types
      <3>2. UNCHANGED ConsumerState
        BY <2>1 DEF ConsumerState, TypeOK, Thread, P, C
      <3>3. is_valid
        BY <2>1 DEF CloseKnows
      <3> QED
        BY <2>1, <3>1, <3>2, <3>3 DEF ProducerGuarantee
    <2> QED
      BY <2>6, <2>7, <2>8, <2>9, <2>10
  <1>2. CASE IncWriteWrap
    <2>1. /\ pc[P] = "wrap" /\ NextItem(P)
          /\ write_pt' = [write_pt EXCEPT !.wrap = IF write_pt.a < n[P] THEN @ + 1 ELSE @]
          /\ UNCHANGED <<read_pt, store, signal, is_valid, allocate_called, n_allocated,
                         sent, taken, got, error>>
      BY <1>2 DEF IncWriteWrap, IncWrap, alloc, history
    <2>2. /\ pc'[P] \in {"idle", "wrap_write"} /\ ret'[P] = "admit"
          /\ \/ op'[P] = "none" /\ n'[P] = 1
             \/ op'[P] = op[P] /\ n'[P] = n[P]
          /\ UNCHANGED ConsumerState
      BY <2>1 DEF NextItem, Return, Goto, ConsumerState, ProducerCall, TypeOK, Thread, P, C
    <2>3. /\ write_pt'.a = write_pt.a /\ write_pt'.wrap = WrapW
          /\ write_pt' \in PointerType(Cap)
      BY <2>1, Types DEF WrapW, PointerType, TypeOK
    <2>4. TypeOK'
      <3>1. CASE Return(P)
        BY <2>1, <2>3, <3>1, ReturnType DEF TypeOK, Thread
      <3>2. CASE left[P] > 1 /\ left' = [left EXCEPT ![P] = @ - 1]
                 /\ Goto(P, "wrap_write") /\ UNCHANGED <<op, n, ret, sz>>
        <4>1. left' \in [Thread -> 1 .. MaxRange]
          BY <3>2, MaxRangeAssumption DEF TypeOK, Thread
        <4> QED
          BY <2>1, <2>3, <3>2, <4>1 DEF TypeOK, Goto, ProducerLabel, ConsumerLabel,
             Thread, P, C
      <3> QED
        BY <2>1, <3>1, <3>2 DEF NextItem
    <2>5. WrapW' = WrapW /\ WrapR' = WrapR
      BY <2>1, <2>2, <2>3 DEF WrapW, WrapR, ConsumerState
    <2>6. Positions' /\ Stored'
      BY <2>1, <2>3, <2>5 DEF Positions, Contents, Stored
    <2>7. ProducerCall' /\ ProducerKnows' /\ Written'
      BY <2>1, <2>2 DEF ProducerCall, ProducerKnows, Written
    <2>8. ProducerGuarantee
      BY <2>1, <2>2, <2>5, Types DEF ProducerGuarantee, CloseKnows
    <2> QED
      BY <2>4, <2>6, <2>7, <2>8
  <1> QED
    BY <1>1, <1>2

\* What the consumer knows survives a step of the producer.
LEMMA ConsumerRelies ==
    ASSUME IInv, ProducerGuarantee, TypeOK'
    PROVE  ConsumerCall' /\ ConsumerKnows' /\ CloseKnows' /\ InOrder'
  <1>1. UNCHANGED <<read_pt, taken, got, error>>
    BY DEF ProducerGuarantee, ConsumerState
  <1>2. /\ pc'[C] = pc[C] /\ op'[C] = op[C] /\ n'[C] = n[C] /\ ret'[C] = ret[C] /\ sz'[C] = sz[C]
    BY DEF ProducerGuarantee, ConsumerState
  <1>3. sent' >= sent /\ WrapW' >= WrapW
    BY DEF ProducerGuarantee
  <1>4. /\ sent \in Nat /\ sent' \in Nat /\ WrapW \in Nat /\ WrapW' \in Nat
        /\ taken \in Nat /\ n[C] \in Nat /\ read_pt.a \in Slot
        /\ sz[C].wrap_write \in Nat /\ sz[C].wrap_read \in Nat /\ sz[C].wpt \in Slot
        /\ sz[C].res \in Nat
    <2>1. write_pt'.a \in Nat /\ write_pt'.wrap \in Nat /\ sent' \in Nat
      BY DEF TypeOK, PointerType
    <2>2. WrapW' \in Nat
      BY <2>1 DEF WrapW
    <2> QED
      BY Types, <2>1, <2>2, CapAssumption DEF IInv, Thread
  <1>5. ConsumerCall'
    BY <1>2 DEF IInv, ConsumerCall
  <1>6. ConsumerKnows'
    <2> DEFINE v == SizeOf(sz[C].wrap_write, sz[C].wrap_read, sz[C].wpt, read_pt.a)
    <2>1. v \in Nat
      <3>1. v \in 0 .. Cap
        BY ONLY <1>4, SizeInRange
      <3> QED
        BY ONLY <3>1, CapAssumption
    <2>2. SizeOf(sz[C].wrap_write, sz[C].wrap_read, sz[C].wpt, read_pt.a)'
          = v
      BY <1>1, <1>2 DEF SizeOf
    <2> HIDE DEF v
    <2> QED
      BY <1>1, <1>2, <1>3, <1>4, <2>1, <2>2 DEF IInv, ConsumerKnows, v
  <1>7. CloseKnows'
    <2>1. ~is_valid => ~is_valid' /\ UNCHANGED <<write_pt, sent>>
      BY DEF ProducerGuarantee
    <2>2. ~is_valid' => pc'[P] = "done"
      BY DEF ProducerGuarantee
    <2> QED
      BY <1>1, <1>2, <2>1, <2>2 DEF IInv, CloseKnows, ConsumerCall
  <1>8. InOrder'
    BY <1>1 DEF IInv, Contents, InOrder
  <1> QED
    BY <1>5, <1>6, <1>7, <1>8

\* Every step of the producer preserves the invariant.
LEMMA ProducerPreserves ==
    ASSUME IInv, ProducerNext
    PROVE  IInv'
  <1> DEFINE Kept == /\ TypeOK' /\ Positions' /\ ProducerCall' /\ ProducerKnows' /\ Stored' /\ Written'
                     /\ ProducerGuarantee
  <1>1. ASSUME \E o \in ProducerOps, k \in 1 .. MaxRange : Produce(o, k)
        PROVE  Kept
    BY <1>1, ProducerLocal
  <1>2. ASSUME Size(P) PROVE Kept
    BY <1>2, ProducerSize, SizeType DEF Thread
  <1>3. ASSUME ProducerSpins \/ LocalAllocate \/ Deallocate \/ Invalidate PROVE Kept
    BY <1>3, ProducerLocal
  <1>4. ASSUME PushStore \/ PushSignal \/ LocalAllocateN \/ Fill \/ Send \/ SendRange PROVE Kept
    BY <1>4, ProducerWrites
  <1>5. ASSUME IncWrite \/ IncWriteWrap PROVE Kept
    BY <1>5, ProducerMoves
  <1>6. Kept
    BY <1>1, <1>2, <1>3, <1>4, <1>5 DEF ProducerNext
  <1>7. ConsumerCall' /\ ConsumerKnows' /\ CloseKnows' /\ InOrder'
    BY <1>6, ConsumerRelies
  <1> QED
    BY <1>6, <1>7 DEF IInv, Contents

-----------------------------------------------------------------------------
(* The consumer.                                                           *)

\* A step of the consumer that does not move the read pointer.
LEMMA ConsumerStays ==
    ASSUME IInv, UNCHANGED <<read_pt, taken>>, UNCHANGED ProducerState,
           pc[C] # "wrap", pc'[C] # "wrap"
    PROVE  Positions' /\ Stored' /\ ConsumerGuarantee
  <1>1. UNCHANGED <<write_pt, sent, store, signal>> /\ pc'[P] = pc[P] /\ n'[P] = n[P]
    BY DEF ProducerState
  <1>2. WrapW' = WrapW /\ WrapR' = WrapR
    BY <1>1 DEF WrapW, WrapR
  <1>3. Positions' /\ Stored'
    BY <1>1, <1>2 DEF IInv, Positions, Contents, Stored
  <1>4. ConsumerGuarantee
    BY <1>2, Types DEF IInv, ConsumerGuarantee
  <1> QED
    BY <1>3, <1>4

\* A step of size() by the consumer.
LEMMA ConsumerSize ==
    ASSUME IInv, Size(C)
    PROVE  /\ Positions' /\ ConsumerCall' /\ ConsumerKnows' /\ CloseKnows' /\ Stored' /\ InOrder'
           /\ ConsumerGuarantee
  <1> DEFINE loads == {"wrap_write", "wrap_read", "wpt", "rpt"}
  <1>1. /\ UNCHANGED <<buffer, call, ret, alloc, history>>
        /\ pc[C] \in loads /\ pc'[C] \in loads \cup {ret[C]}
        /\ pc'[P] = pc[P] /\ sz'[P] = sz[P]
    BY DEF IInv, TypeOK, Size, ReadWrapWrite, ReadWrapRead, ReadWpt, ReadRpt, Goto,
       Thread, P, C
  <1>2. UNCHANGED <<write_pt, read_pt, store, signal, is_valid, op, n, left, ret,
                    allocate_called, n_allocated, sent, taken, got, error>>
    BY <1>1 DEF buffer, call, alloc, history
  <1>3. ret[C] \in {"admit", "drained", "short"}
    BY DEF IInv, TypeOK, Thread
  <1>4. WrapW' = WrapW /\ UNCHANGED ProducerState
    BY <1>1, <1>2 DEF WrapW, ProducerState
  <1>5. Positions' /\ Stored' /\ ConsumerGuarantee
    BY <1>1, <1>2, <1>3, <1>4, ConsumerStays
  <1>6. ConsumerCall' /\ InOrder'
    BY <1>1, <1>2, <1>3 DEF IInv, ConsumerCall, Contents, InOrder
  <1>7. ConsumerKnows' /\ CloseKnows'
    <2>1. CASE ReadWrapWrite(C)
      <3>1. pc'[C] = "wrap_read" /\ sz'[C].wrap_write = write_pt.wrap
        BY <2>1 DEF IInv, TypeOK, ReadWrapWrite, Goto, wrapIndicator, Thread, P, C
      <3>2. write_pt.wrap <= WrapW
        BY Types DEF IInv, WrapW
      <3> QED
        BY <1>1, <1>2, <1>4, <3>1, <3>2 DEF IInv, ConsumerKnows, CloseKnows
    <2>2. CASE ReadWrapRead(C)
      <3>1. /\ pc[C] = "wrap_read" /\ pc'[C] = "wpt" /\ sz'[C].wrap_read = read_pt.wrap
            /\ sz'[C].wrap_write = sz[C].wrap_write
        BY <2>2 DEF IInv, TypeOK, ReadWrapRead, Goto, wrapIndicator, Thread, P, C
      <3> QED
        BY <1>1, <1>2, <1>4, <3>1 DEF IInv, ConsumerKnows, CloseKnows
    <2>3. CASE ReadWpt(C)
      <3>1. /\ pc[C] = "wpt" /\ pc'[C] = "rpt" /\ sz'[C].wpt = write_pt.a
            /\ sz'[C].wrap_write = sz[C].wrap_write /\ sz'[C].wrap_read = sz[C].wrap_read
        BY <2>3 DEF IInv, TypeOK, ReadWpt, Goto, val, Thread, P, C
      <3>2. /\ sz[C].wrap_write <= WrapW /\ sz[C].wrap_read = read_pt.wrap
            /\ Apart(WrapW, read_pt.wrap, write_pt.a, read_pt.a, sent, taken)
        BY <3>1 DEF IInv, ConsumerKnows, Positions, WrapR
      <3>3. /\ WrapW \in Nat /\ read_pt.wrap \in Nat /\ write_pt.a \in Slot /\ read_pt.a \in Slot
            /\ sent \in Nat /\ taken \in Nat /\ sz[C].wrap_write \in Nat
        BY Types DEF IInv, Thread
      <3>4. taken + SizeOf(sz[C].wrap_write, read_pt.wrap, write_pt.a, read_pt.a) <= sent
        BY ONLY <3>2, <3>3, SizeForConsumer
      <3> QED
        BY <1>1, <1>2, <1>4, <3>1, <3>2, <3>4 DEF IInv, ConsumerKnows, CloseKnows
    <2>4. CASE ReadRpt(C)
      <3> DEFINE v == SizeOf(sz[C].wrap_write, sz[C].wrap_read, sz[C].wpt, read_pt.a)
      <3>1. /\ pc[C] = "rpt"
            /\ \/ pc'[C] = "wrap_write"
               \/ pc'[C] = ret[C] /\ sz'[C].res = v
        BY <2>4 DEF IInv, TypeOK, ReadRpt, Returned, Goto, val, Thread, P, C
      <3>2. taken + v <= sent
        BY <3>1 DEF IInv, ConsumerKnows
      <3>3. ASSUME ret[C] # "admit"
            PROVE  taken + v = sent
        <4>1. /\ sz[C].wrap_write = write_pt.wrap /\ sz[C].wrap_read = read_pt.wrap
              /\ sz[C].wpt = write_pt.a /\ pc[P] = "done"
          BY <3>1, <3>3 DEF IInv, CloseKnows, ConsumerKnows
        <4>2. Apart(write_pt.wrap, read_pt.wrap, write_pt.a, read_pt.a, sent, taken)
          BY <3>1, <4>1 DEF IInv, Positions, WrapW, WrapR
        <4>3. /\ write_pt.wrap \in Nat /\ read_pt.wrap \in Nat /\ write_pt.a \in Slot
              /\ read_pt.a \in Slot /\ sent \in Nat /\ taken \in Nat
          BY Types DEF IInv
        <4> QED
          BY ONLY <4>1, <4>2, <4>3, SizeWhenStill
      <3> HIDE DEF v
      <3> QED
        BY <1>1, <1>2, <1>3, <3>1, <3>2, <3>3 DEF IInv, ConsumerKnows, CloseKnows
    <2> QED
      BY <2>1, <2>2, <2>3, <2>4 DEF Size
  <1> QED
    BY <1>5, <1>6, <1>7

\* The steps of the consumer that only decide where it goes next.
ConsumerDecides ==
    \/ \E o \in ConsumerOps \ {"unpeek"}, k \in 1 .. MaxRange : Consume(o, k)
    \/ TooFew \/ ReadIsValid \/ ThrowClosed \/ RecycleReturns \/ NotDrained
    \/ ThrowNoMoreData \/ NotShort \/ LocalRecycle \/ Unpeek \/ RecyclePeeked

\* They keep the types ...
LEMMA ConsumerDecidesType ==
    ASSUME IInv, ConsumerDecides
    PROVE  TypeOK'
  <1> USE DEF IInv, TypeOK, Goto, CallSize, Thread, P, C, buffer, call, alloc, history,
              ProducerLabel, ConsumerLabel
  <1>1. ASSUME NEW o \in ConsumerOps \ {"unpeek"}, NEW k \in 1 .. MaxRange, Consume(o, k)
        PROVE  TypeOK'
    <2>1. o \in {"pop", "peek", "peek_range", "recycle"}
      BY OpsAssumption
    <2> QED
      BY <1>1, <2>1, MaxRangeAssumption DEF Consume
  <1>2. CASE TooFew
    BY <1>2 DEF TooFew
  <1>3. CASE ReadIsValid
    BY <1>3 DEF ReadIsValid
  <1>4. CASE ThrowClosed
    BY <1>4 DEF ThrowClosed
  <1>5. CASE RecycleReturns
    BY <1>5, ReturnType DEF RecycleReturns
  <1>6. CASE NotDrained
    BY <1>6 DEF NotDrained
  <1>7. CASE ThrowNoMoreData
    BY <1>7 DEF ThrowNoMoreData
  <1>8. CASE NotShort
    BY <1>8 DEF NotShort
  <1>9. CASE LocalRecycle
    BY <1>9 DEF LocalRecycle
  <1>10. CASE Unpeek
    BY <1>10, ReturnType DEF Unpeek
  <1>11. CASE RecyclePeeked
    BY <1>11, MaxRangeAssumption DEF RecyclePeeked
  <1> QED
    BY <1>1, <1>2, <1>3, <1>4, <1>5, <1>6, <1>7, <1>8, <1>9, <1>10, <1>11 DEF
       ConsumerDecides

\* ... and what the consumer knows.
LEMMA ConsumerDecidesKnows ==
    ASSUME IInv, ConsumerDecides
    PROVE  /\ Positions' /\ ConsumerCall' /\ ConsumerKnows' /\ CloseKnows' /\ Stored' /\ InOrder'
           /\ ConsumerGuarantee
  <1>1. /\ UNCHANGED <<read_pt, taken, got>> /\ UNCHANGED ProducerState
        /\ pc[C] # "wrap" /\ pc'[C] # "wrap"
    BY DEF ConsumerDecides, Consume, TooFew, ReadIsValid, ThrowClosed, RecycleReturns,
       NotDrained,
           ThrowNoMoreData, NotShort, LocalRecycle, Unpeek, RecyclePeeked, ProducerState,
           IInv, TypeOK, Goto, CallSize, Return, Thread, P, C, buffer, call, alloc, history
  <1>2. Positions' /\ Stored' /\ ConsumerGuarantee
    BY <1>1, ConsumerStays
  <1>3. InOrder'
    BY <1>1 DEF IInv, Contents, InOrder
  <1>4. pc[C] # "failed" => error = "none"
    BY DEF IInv, CloseKnows
  <1>5. UNCHANGED <<write_pt, sent, is_valid>> /\ pc'[P] = pc[P]
    BY <1>1 DEF ProducerState
  <1> SUFFICES ConsumerCall' /\ ConsumerKnows' /\ CloseKnows'
    BY <1>2, <1>3
  <1> USE DEF IInv, Goto, CallSize, buffer, call, alloc, history, Thread, P, C, TypeOK,
              ConsumerCall, ConsumerKnows, CloseKnows
  <1>6. ASSUME NEW o \in ConsumerOps \ {"unpeek"}, NEW k \in 1 .. MaxRange, Consume(o, k)
        PROVE  ConsumerCall' /\ ConsumerKnows' /\ CloseKnows'
    <2>1. o \in {"pop", "peek", "peek_range", "recycle"}
      BY OpsAssumption
    <2> QED
      BY <1>4, <1>6, <2>1 DEF Consume
  <1>7. CASE TooFew
    BY <1>4, <1>7 DEF TooFew
  <1>8. CASE ReadIsValid
    BY <1>4, <1>8 DEF ReadIsValid
  <1>9. CASE ThrowClosed
    BY <1>9 DEF ThrowClosed
  <1>10. CASE RecycleReturns
    BY <1>4, <1>10 DEF RecycleReturns, Return
  <1>11. CASE NotDrained
    BY <1>4, <1>11 DEF NotDrained
  <1>12. CASE ThrowNoMoreData
    BY <1>12, Types DEF ThrowNoMoreData
  <1>13. CASE NotShort
    BY <1>4, <1>13 DEF NotShort
  <1>14. CASE LocalRecycle
    BY <1>4, <1>14, Types DEF LocalRecycle
  <1>15. CASE Unpeek
    BY <1>4, <1>15 DEF Unpeek, Return
  <1>16. CASE RecyclePeeked
    BY <1>4, <1>16 DEF RecyclePeeked
  <1> QED
    BY <1>6, <1>7, <1>8, <1>9, <1>10, <1>11, <1>12, <1>13, <1>14, <1>15, <1>16
       DEF ConsumerDecides

\* The slot i places after the read pointer holds the i-th item not yet taken.
LEMMA ItemInPlace ==
    ASSUME IInv, NEW i \in Nat, taken + i + 1 <= sent
    PROVE  /\ SlotAt(read_pt, i) \in Slot
           /\ store[SlotAt(read_pt, i)] = taken + 1 + i
           /\ signal[SlotAt(read_pt, i)] \in {0, taken + 1 + i}
           /\ SlotAt(read_pt, 0) = read_pt.a
  <1>1. /\ read_pt.a \in Slot /\ sent \in Nat /\ taken \in Nat
        /\ sent - taken \in 0 .. Cap
    BY Types, OffsetsApart DEF IInv
  <1>2. i \in 0 .. Cap /\ 0 \in 0 .. Cap
    BY <1>1, CapAssumption
  <1>3. /\ SlotAt(read_pt, i) = IF read_pt.a + i < Cap THEN read_pt.a + i ELSE read_pt.a + i - Cap
        /\ SlotAt(read_pt, i) \in Slot
    BY <1>1, <1>2, IndexMoves DEF SlotAt, val
  <1>4. SlotAt(read_pt, 0) = read_pt.a
    BY <1>1, <1>2, IndexMoves, CapAssumption DEF SlotAt, val, Slot
  <1>5. Offset(read_pt, SlotAt(read_pt, i)) = i /\ i < sent - taken
    BY <1>1, <1>3, CapAssumption DEF Offset, val, Slot
  <1> QED
    BY <1>3, <1>4, <1>5 DEF IInv, Contents, Stored

\* The steps of the consumer that read an item.
LEMMA ConsumerReads ==
    ASSUME IInv, LocalPop \/ LocalPeek \/ \E i \in 0 .. MaxRange - 1 : LookAt(i)
    PROVE  /\ TypeOK' /\ Positions' /\ ConsumerCall' /\ ConsumerKnows' /\ CloseKnows'
           /\ Stored' /\ InOrder' /\ ConsumerGuarantee
  <1>1. /\ UNCHANGED <<buffer, call, ret, sz, alloc, sent, taken, error>>
        /\ pc[C] \in {"admit", "held"} /\ pc'[C] \in {"inc", "held"} /\ pc'[P] = pc[P]
        /\ pc' \in [Thread -> ProducerLabel \cup ConsumerLabel]
    BY DEF LocalPop, LocalPeek, LookAt, Goto, IInv, TypeOK, Thread, P, C, ConsumerLabel
  <1>2. UNCHANGED <<write_pt, read_pt, store, signal, is_valid, op, n, left,
                    allocate_called, n_allocated>>
    BY <1>1 DEF buffer, call, alloc
  <1>3. UNCHANGED ProducerState
    BY <1>1, <1>2 DEF ProducerState
  <1>4. Positions' /\ Stored' /\ ConsumerGuarantee
    BY <1>1, <1>2, <1>3, ConsumerStays
  <1>5. n[C] \in Nat /\ n[C] >= 1 /\ sent \in Nat /\ taken \in Nat /\ sz[C].res \in Nat
    BY Types, CapAssumption DEF IInv, Thread
  <1>6. taken + n[C] <= sent
    BY <1>5 DEF LocalPop, LocalPeek, LookAt, IInv, ConsumerKnows
  <1>7. PICK i \in Nat : /\ taken + i + 1 <= sent
                         /\ got'.pos = taken + 1 + i
                         /\ got'.item = store[SlotAt(read_pt, i)]
                         /\ got'.sig \in {0, signal[SlotAt(read_pt, i)]}
                         /\ got' = [pos |-> got'.pos, item |-> got'.item, sig |-> got'.sig]
    <2>1. CASE LocalPop \/ LocalPeek
      <3>1. SlotAt(read_pt, 0) = read_pt.a
        BY <1>5, <1>6, ItemInPlace
      <3>2. /\ got'.pos = taken + 1 + 0 /\ got'.item = store[SlotAt(read_pt, 0)]
            /\ got'.sig = signal[SlotAt(read_pt, 0)]
            /\ got' = [pos |-> got'.pos, item |-> got'.item, sig |-> got'.sig]
        BY <2>1, <3>1 DEF LocalPop, LocalPeek, ItemAt, val
      <3> QED
        BY <1>5, <1>6, <3>2
    <2>2. CASE \E i \in 0 .. MaxRange - 1 : LookAt(i)
      <3>1. PICK i \in 0 .. MaxRange - 1 : LookAt(i)
        BY <2>2
      <3>2. taken + i + 1 <= sent
        BY <1>5, <1>6, <3>1, MaxRangeAssumption DEF LookAt
      <3>3. /\ got'.pos = taken + 1 + i /\ got'.item = store[SlotAt(read_pt, i)]
            /\ got'.sig = 0
            /\ got' = [pos |-> got'.pos, item |-> got'.item, sig |-> got'.sig]
        BY <3>1 DEF LookAt, ItemAt
      <3> QED
        BY <3>2, <3>3, MaxRangeAssumption
    <2> QED
      BY <2>1, <2>2
  <1>8. InOrder' /\ got' \in [pos : Nat, item : Nat, sig : Nat]
    <2>1. /\ store[SlotAt(read_pt, i)] = taken + 1 + i
          /\ signal[SlotAt(read_pt, i)] \in {0, taken + 1 + i}
      BY <1>7, ItemInPlace
    <2>2. /\ got'.item = got'.pos /\ got'.sig \in {0, got'.pos} /\ got'.pos \in Nat
      BY <1>5, <1>7, <2>1
    <2> QED
      BY <1>7, <2>2 DEF InOrder
  <1>9. TypeOK'
    BY <1>1, <1>2, <1>8 DEF IInv, TypeOK, ProducerLabel, ConsumerLabel
  <1>10. ConsumerCall' /\ ConsumerKnows' /\ CloseKnows'
    <2>1. pc'[C] = "inc" => n[C] = 1
      BY DEF LocalPop, LocalPeek, LookAt, Goto, IInv, TypeOK, ConsumerCall, Thread, P, C
    <2> QED
      BY <1>1, <1>2, <1>6, <2>1 DEF IInv, ConsumerCall, ConsumerKnows, CloseKnows
  <1> QED
    BY <1>4, <1>8, <1>9, <1>10

\* The two stores by which the consumer removes an item.
LEMMA ConsumerMoves ==
    ASSUME IInv, IncRead \/ IncReadWrap
    PROVE  /\ TypeOK' /\ Positions' /\ ConsumerCall' /\ ConsumerKnows' /\ CloseKnows'
           /\ Stored' /\ InOrder' /\ ConsumerGuarantee
  <1> USE DEF IInv
  <1>1. CASE IncRead
    <2>1. /\ pc[C] = "inc" /\ pc' = [pc EXCEPT ![C] = "wrap"] /\ taken' = taken + 1
          /\ read_pt' = [read_pt EXCEPT !.a = (@ + 1) % Cap]
          /\ UNCHANGED <<write_pt, store, signal, is_valid, op, n, left, ret, sz,
                         allocate_called, n_allocated, sent, got, error>>
      BY <1>1 DEF IncRead, IncIndex, Goto, call, alloc
    <2>2. pc'[C] = "wrap" /\ pc'[P] = pc[P]
      BY <2>1 DEF TypeOK, Thread, P, C
    <2>3. taken + 1 <= sent /\ n[C] = 1 /\ ret[C] = "admit"
      BY <2>1 DEF ConsumerKnows, ConsumerCall
    <2>4. read_pt'.a = (read_pt.a + 1) % Cap /\ read_pt'.wrap = read_pt.wrap
      BY <2>1 DEF TypeOK, PointerType
    <2>5. /\ WrapR = read_pt.wrap /\ WrapW' = WrapW
          /\ WrapR' = IF read_pt'.a < 1 THEN read_pt.wrap + 1 ELSE read_pt.wrap
      BY <2>1, <2>2, <2>4 DEF WrapW, WrapR
    <2>6. /\ WrapW \in Nat /\ read_pt.wrap \in Nat /\ write_pt.a \in Slot
          /\ read_pt.a \in Slot /\ sent \in Nat /\ taken \in Nat
      BY Types
    <2>7. read_pt'.a \in Slot /\ Positions'
      <3>1. Apart(WrapW, read_pt.wrap, write_pt.a, read_pt.a, sent, taken)
        BY <2>5 DEF Positions
      <3>2. /\ read_pt'.a \in Slot
            /\ Apart(WrapW, IF read_pt'.a < 1 THEN read_pt.wrap + 1 ELSE read_pt.wrap,
                     write_pt.a, read_pt'.a, sent, taken + 1)
        BY ONLY <2>3, <2>4, <2>6, <3>1, ReadMoves
      <3> QED
        BY <2>1, <2>5, <3>2 DEF Positions
    <2>8. TypeOK'
      <3>1. read_pt' \in PointerType(Cap)
        BY <2>1, <2>4, <2>7 DEF TypeOK, PointerType, Slot
      <3> QED
        BY <2>1, <3>1 DEF TypeOK, ProducerLabel, ConsumerLabel, Thread, P, C
    <2>9. ConsumerCall' /\ ConsumerKnows' /\ CloseKnows' /\ InOrder'
      BY <2>1, <2>2, <2>3 DEF ConsumerCall, ConsumerKnows, CloseKnows, Contents, InOrder
    <2>10. Stored'
      <3> SUFFICES ASSUME NEW s \in Slot, Offset(read_pt', s) < sent' - taken'
                   PROVE  /\ store'[s] = taken' + 1 + Offset(read_pt', s)
                          /\ signal'[s] \in {0, taken' + 1 + Offset(read_pt', s)}
        BY DEF Stored
      <3>1. Offset(read_pt, s) < sent - taken /\ Offset(read_pt, s) = Offset(read_pt', s) + 1
        <4>1. read_pt'.a = IF read_pt.a + 1 < Cap THEN read_pt.a + 1 ELSE read_pt.a + 1 - Cap
          BY <2>4, <2>6, IndexMoves, CapAssumption
        <4>2. sent - taken <= Cap
          BY <2>6, OffsetsApart
        <4> QED
          BY ONLY <2>1, <2>3, <2>6, <4>1, <4>2, CapAssumption, Offset(read_pt', s) < sent'
             - taken', s \in Slot
             DEF Offset, val, Slot
      <3>2. Offset(read_pt', s) \in Nat
        BY <3>1, <2>6, <2>7, CapAssumption DEF Offset, val, Slot
      <3> QED
        BY <2>1, <2>6, <3>1, <3>2 DEF Contents, Stored
    <2>11. ConsumerGuarantee
      <3>1. UNCHANGED ProducerState
        BY <2>1 DEF ProducerState, TypeOK, Thread, P, C
      <3> QED
        BY <2>1, <2>5, <2>6, <3>1 DEF ConsumerGuarantee
    <2> QED
      BY <2>7, <2>8, <2>9, <2>10, <2>11
  <1>2. CASE IncReadWrap
    <2>1. /\ pc[C] = "wrap" /\ NextItem(C)
          /\ read_pt' = [read_pt EXCEPT !.wrap = IF read_pt.a < 1 THEN @ + 1 ELSE @]
          /\ UNCHANGED <<write_pt, store, signal, is_valid, allocate_called, n_allocated,
                         sent, taken, got, error>>
      BY <1>2 DEF IncReadWrap, IncWrap, alloc, history
    <2>2. /\ pc'[C] \in {"idle", "wrap_write"} /\ ret'[C] = "admit" /\ n'[C] = 1
          /\ UNCHANGED ProducerState
      BY <2>1 DEF NextItem, Return, Goto, ProducerState, ConsumerCall, TypeOK, Thread, P, C
    <2>3. /\ read_pt'.a = read_pt.a /\ read_pt'.wrap = WrapR
          /\ read_pt' \in PointerType(Cap)
      BY <2>1, Types DEF WrapR, PointerType, TypeOK
    <2>4. TypeOK'
      <3>1. CASE Return(C)
        BY <2>1, <2>3, <3>1, ReturnType DEF TypeOK, Thread
      <3>2. CASE left[C] > 1 /\ left' = [left EXCEPT ![C] = @ - 1]
                 /\ Goto(C, "wrap_write") /\ UNCHANGED <<op, n, ret, sz>>
        <4>1. left' \in [Thread -> 1 .. MaxRange]
          BY <3>2, MaxRangeAssumption DEF TypeOK, Thread
        <4> QED
          BY <2>1, <2>3, <3>2, <4>1 DEF TypeOK, Goto, ProducerLabel, ConsumerLabel,
             Thread, P, C
      <3> QED
        BY <2>1, <3>1, <3>2 DEF NextItem
    <2>5. WrapW' = WrapW /\ WrapR' = WrapR
      BY <2>1, <2>2, <2>3 DEF WrapW, WrapR, ProducerState
    <2>6. Positions' /\ InOrder'
      BY <2>1, <2>3, <2>5 DEF Positions, Contents, InOrder
    <2>7. Stored'
      BY <2>1, <2>3 DEF Contents, Stored, Offset, val
    <2>8. ConsumerCall' /\ ConsumerKnows' /\ CloseKnows'
      BY <2>1, <2>2 DEF ConsumerCall, ConsumerKnows, CloseKnows, ProducerState
    <2>9. ConsumerGuarantee
      BY <2>1, <2>2, <2>5, Types DEF ConsumerGuarantee
    <2> QED
      BY <2>4, <2>6, <2>7, <2>8, <2>9
  <1> QED
    BY <1>1, <1>2

\* What the producer knows survives a step of the consumer.
LEMMA ProducerRelies ==
    ASSUME IInv, ConsumerGuarantee, TypeOK'
    PROVE  ProducerCall' /\ ProducerKnows' /\ Written'
  <1>1. /\ pc'[P] = pc[P] /\ op'[P] = op[P] /\ n'[P] = n[P] /\ ret'[P] = ret[P] /\ sz'[P] = sz[P]
        /\ UNCHANGED <<write_pt, sent, store, signal, n_allocated>>
    BY DEF ConsumerGuarantee, ProducerState
  <1>2. taken' >= taken /\ WrapR' >= WrapR
    BY DEF ConsumerGuarantee
  <1>3. /\ taken \in Nat /\ taken' \in Nat /\ WrapR \in Nat /\ WrapR' \in Nat
        /\ sent \in Nat /\ n[P] \in Nat /\ sz[P].wrap_read \in Nat /\ sz[P].res \in Nat
    <2>1. read_pt'.a \in Nat /\ read_pt'.wrap \in Nat /\ taken' \in Nat
      BY DEF TypeOK, PointerType
    <2>2. WrapR' \in Nat
      BY <2>1 DEF WrapR
    <2> QED
      BY Types, <2>1, <2>2, CapAssumption DEF IInv, Thread
  <1>4. ProducerCall'
    BY <1>1 DEF IInv, ProducerCall
  <1>5. ProducerKnows'
    BY <1>1, <1>2, <1>3, CapAssumption DEF IInv, ProducerKnows
  <1>6. Written'
    BY <1>1 DEF IInv, Contents, Written
  <1> QED
    BY <1>4, <1>5, <1>6

\* Every step of the consumer preserves the invariant.
LEMMA ConsumerPreserves ==
    ASSUME IInv, ConsumerNext
    PROVE  IInv'
  <1> DEFINE Kept == /\ TypeOK' /\ Positions' /\ ConsumerCall' /\ ConsumerKnows' /\ CloseKnows'
                     /\ Stored' /\ InOrder' /\ ConsumerGuarantee
  <1>1. ASSUME ConsumerDecides PROVE Kept
    BY <1>1, ConsumerDecidesType, ConsumerDecidesKnows
  <1>2. ASSUME Size(C) PROVE Kept
    BY <1>2, ConsumerSize, SizeType DEF Thread
  <1>3. ASSUME LocalPop \/ LocalPeek \/ \E i \in 0 .. MaxRange - 1 : LookAt(i) PROVE Kept
    BY <1>3, ConsumerReads
  <1>4. ASSUME IncRead \/ IncReadWrap PROVE Kept
    BY <1>4, ConsumerMoves
  <1>5. Kept
    BY <1>1, <1>2, <1>3, <1>4 DEF ConsumerNext, ConsumerDecides
  <1>6. ProducerCall' /\ ProducerKnows' /\ Written'
    BY <1>5, ProducerRelies
  <1> QED
    BY <1>5, <1>6 DEF IInv, Contents

-----------------------------------------------------------------------------
(* The theorems.                                                           *)

\* The invariant holds at the start: both pointers are at slot 0 of an empty
\* buffer.
LEMMA InitInvariant ==
    ASSUME Init
    PROVE  IInv
  <1>1. Returned(0) \in [wrap_write : Nat, wrap_read : Nat, wpt : Slot, res : 0 .. Cap]
    BY ReturnedType, CapAssumption
  <1>2. NewPointer(0) \in PointerType(Cap) /\ NewPointer(0).a = 0 /\ NewPointer(0).wrap = 0
    BY CapAssumption DEF NewPointer, PointerType
  <1>3. TypeOK
    <2>1. /\ write_pt \in PointerType(Cap) /\ read_pt \in PointerType(Cap)
          /\ sz \in [Thread -> [wrap_write : Nat, wrap_read : Nat, wpt : Slot, res : 0 .. Cap]]
      BY <1>1, <1>2 DEF Init
    <2>2. /\ n \in [Thread -> 1 .. MaxRange] /\ left \in [Thread -> 1 .. MaxRange]
          /\ n_allocated \in 0 .. MaxRange
      BY MaxRangeAssumption DEF Init
    <2>3. /\ pc \in [Thread -> ProducerLabel \cup ConsumerLabel]
          /\ pc[P] \in ProducerLabel /\ pc[C] \in ConsumerLabel
      BY DEF Init, Thread, ProducerLabel, ConsumerLabel
    <2>4. is_valid \in BOOLEAN /\ allocate_called \in BOOLEAN
      BY DEF Init
    <2> QED
      BY <2>1, <2>2, <2>3, <2>4 DEF Init, TypeOK
  <1>4. Positions
    BY <1>2 DEF Init, Positions, Apart, WrapW, WrapR, Thread, P, C
  <1>5. ProducerCall /\ ProducerKnows /\ ConsumerCall /\ ConsumerKnows /\ CloseKnows
    BY DEF Init, ProducerCall, ProducerKnows, ConsumerCall, ConsumerKnows, CloseKnows,
       Thread, P, C
  <1>6. Contents
    <2>1. \A s \in Slot : ~ (Offset(read_pt, s) < sent - taken)
      BY <1>3, <1>4, OffsetsApart DEF Init
    <2> QED
      BY <2>1 DEF Init, Contents, Stored, Written, InOrder, Thread, P, C
  <1> QED
    BY <1>3, <1>4, <1>5, <1>6 DEF IInv

\* A step that changes nothing preserves the invariant.
LEMMA StutterPreserves ==
    ASSUME IInv, UNCHANGED vars
    PROVE  IInv'
  <1>1. UNCHANGED <<write_pt, read_pt, store, signal, is_valid, pc, op, n, left, ret, sz,
                    allocate_called, n_allocated, sent, taken, got, error>>
    BY DEF vars, buffer, call, alloc, history
  <1> QED
    BY <1>1 DEF IInv, TypeOK, Positions, WrapW, WrapR, ProducerCall, ProducerKnows,
       ConsumerCall,
                ConsumerKnows, CloseKnows, Contents, Stored, Written, InOrder

\* IInv is an invariant of the buffer.
THEOREM Invariance == Spec => []IInv
  <1>1. Init => IInv
    BY InitInvariant
  <1>2. IInv /\ [Next]_vars => IInv'
    BY ProducerPreserves, ConsumerPreserves, StutterPreserves DEF Next
  <1> QED
    BY <1>1, <1>2, PTL DEF Spec

\* Every variable keeps its type, for every capacity and range length: the two
\* indices stay inside the arrays and size() never exceeds the capacity
\* (ringbufferheap_abstract.tcc, pointer.cpp).
THEOREM TypeCorrect == Spec => []TypeOK
  <1>1. IInv => TypeOK
    BY DEF IInv
  <1> QED
    BY <1>1, Invariance, PTL

\* The queue never overflows and never underflows, although both sides act on a
\* size() that was read while the other side moved (local_push, local_pop).
THEOREM CapacityRespected == Spec => []Capacity
  <1>1. ASSUME IInv PROVE Capacity
    <2>1. 0 \in Slot
      BY CapAssumption DEF Slot
    <2>2. sent - taken \in 0 .. Cap /\ sent \in Nat /\ taken \in Nat
      BY <1>1, <2>1, OffsetsApart, Types DEF IInv
    <2> QED
      BY <2>2, CapAssumption DEF Capacity
  <1> QED
    BY <1>1, Invariance, PTL

\* What size() returned errs on its caller's side (ringbufferheap_abstract.tcc,
\* size and space_avail).
THEOREM SizeConservative == Spec => []SizeIsConservative
  <1>1. ASSUME IInv PROVE SizeIsConservative
    BY <1>1, Types, CapAssumption DEF IInv, ProducerKnows, ConsumerKnows,
       SizeIsConservative, Thread
  <1> QED
    BY <1>1, Invariance, PTL

\* The two threads never have the same slot in their hands: the arrays need no
\* lock (local_push, local_allocate_n, local_pop, local_peek_range).
THEOREM SlotsExcluded == Spec => []SlotExclusion
  <1>1. ASSUME IInv PROVE SlotExclusion
    <2> SUFFICES ASSUME NEW s \in Slot, s \in ProducerSlots, s \in ConsumerSlots
                 PROVE  FALSE
      BY DEF SlotExclusion, ProducerSlots, ConsumerSlots, WriteSlots, SlotsFrom
    <2>1. /\ sent \in Nat /\ taken \in Nat /\ n[P] \in Nat /\ n[C] \in Nat
          /\ sz[P].res \in 0 .. Cap /\ sz[C].res \in 0 .. Cap
      BY <1>1, Types DEF IInv, Thread
    <2>2. Offset(write_pt, s) < n[P] /\ sent + n[P] <= taken + Cap
      BY <1>1, <2>1, CapAssumption DEF IInv, ProducerKnows, ProducerSlots, WriteSlots,
         SlotsFrom, space_avail
    <2>3. Offset(read_pt, s) < n[C] /\ taken + n[C] <= sent
      BY <1>1, <2>1, CapAssumption DEF IInv, ConsumerKnows, ConsumerSlots, SlotsFrom
    <2>4. /\ Offset(read_pt, s) \in 0 .. Cap - 1
          /\ Offset(write_pt, s) = IF Offset(read_pt, s) >= sent - taken
                                   THEN Offset(read_pt, s) - (sent - taken)
                                   ELSE Offset(read_pt, s) - (sent - taken) + Cap
      BY <1>1, OffsetsApart DEF IInv
    <2> QED
      BY <2>1, <2>2, <2>3, <2>4, CapAssumption
  <1> QED
    BY <1>1, Invariance, PTL

\* The consumer reads the k-th item sent as the k-th, with the signal sent with
\* it or none (local_pop, local_peek, local_peek_range).
THEOREM ReadInOrder == Spec => []InOrder
  <1>1. IInv => InOrder
    BY DEF IInv, Contents
  <1> QED
    BY <1>1, Invariance, PTL

\* A consumer that is told that the stream is closed, or has too little left, has
\* not missed an item (the second size() in local_pop and local_peek_range).
THEOREM NothingIsLeftBehind == Spec => []NothingLeftBehind
  <1>1. ASSUME IInv PROVE NothingLeftBehind
    <2>1. sent \in Nat /\ taken \in Nat /\ n[C] \in Nat
      BY <1>1, Types DEF IInv, Thread
    <2> QED
      BY <1>1, <2>1 DEF IInv, CloseKnows, NothingLeftBehind
  <1> QED
    BY <1>1, Invariance, PTL

-----------------------------------------------------------------------------
(* The refinement of FifoChannel.  By the invariant the items between the  *)
(* two pointers are the numbers from taken + 1 to sent, so what a step     *)
(* does to the stream can be read off what it does to the two counters; a  *)
(* step that moves neither, reads nothing and closes nothing is a stutter. *)

-----------------------------------------------------------------------------
(* The stream that the buffer holds.                                       *)

\* The items between the two pointers are those sent and not yet taken.
QueueInv ==
    /\ sent \in Nat /\ taken \in Nat /\ taken <= sent /\ sent <= taken + Cap
    /\ Queue = Numbers(taken, sent)

\* So says the inductive invariant (Stored and Positions).
LEMMA QueueIsNumbers == IInv => QueueInv
  <1> SUFFICES ASSUME IInv PROVE QueueInv
    OBVIOUS
  <1>1. /\ sent \in Nat /\ taken \in Nat /\ taken <= sent /\ sent <= taken + Cap
        /\ read_pt.a \in Slot
    <2>1. 0 \in Slot
      BY CapAssumption DEF Slot
    <2>2. sent - taken \in 0 .. Cap /\ sent \in Nat /\ taken \in Nat /\ read_pt.a \in Slot
      BY <2>1, OffsetsApart, Types DEF IInv
    <2> QED
      BY <2>2, CapAssumption
  <1>2. ASSUME NEW i \in 1 .. sent - taken
        PROVE  store[SlotAt(read_pt, i - 1)] = taken + i
    <2> DEFINE s == SlotAt(read_pt, i - 1)
    <2>1. i - 1 \in 0 .. Cap
      BY <1>1, CapAssumption
    <2>2. /\ s = (IF read_pt.a + (i - 1) < Cap THEN read_pt.a + (i - 1) ELSE read_pt.a + (i - 1) - Cap)
          /\ s \in Slot
      BY <1>1, <2>1, IndexMoves DEF SlotAt, val
    <2>3. Offset(read_pt, s) = i - 1
      BY <1>1, <2>2, CapAssumption DEF Offset, val, Slot
    <2>4. store[s] = taken + 1 + (i - 1)
      BY <1>1, <2>2, <2>3 DEF IInv, Contents, Stored
    <2> QED
      BY <1>1, <2>4
  <1> QED
    BY <1>1, <1>2 DEF Queue, Numbers, QueueInv

\* The stream is as long as the two counters are apart.
LEMMA QueueLength ==
    ASSUME QueueInv
    PROVE  Len(Queue) = sent - taken
  BY NumbersAreSequence DEF QueueInv

\* The item that a read i places after the head gives is in the stream there.
LEMMA ItemInQueue ==
    ASSUME QueueInv, NEW i \in Nat, i < sent - taken
    PROVE  i + 1 <= Len(Queue) /\ ItemAt(i).item = Queue[i + 1]
  <1>1. Len(Queue) = sent - taken
    BY QueueLength
  <1>2. i + 1 \in 1 .. sent - taken /\ (i + 1) - 1 = i
    BY DEF QueueInv
  <1> QED
    BY <1>1, <1>2 DEF ItemAt, Queue, QueueInv

-----------------------------------------------------------------------------
(* Every step is a step of the stream or a stutter.                        *)

\* A step that sends nothing, takes nothing, reads nothing and closes nothing.
LEMMA Stutters ==
    ASSUME QueueInv, QueueInv', UNCHANGED <<sent, taken, is_valid, got, error>>
    PROVE  UNCHANGED Channel!vars
  BY DEF QueueInv, Channel!vars

\* The steps of the producer: the store of the index sends.
LEMMA ProducerRefines ==
    ASSUME IInv, QueueInv, QueueInv', ProducerNext
    PROVE  [Channel!Next]_(Channel!vars)
  <1>1. CASE IncWrite
    <2>1. /\ pc[P] = "inc" /\ sent' = sent + n[P]
          /\ UNCHANGED <<is_valid, taken, got, error>>
      BY <1>1 DEF IncWrite
    <2>2. is_valid /\ sent + n[P] <= taken + Cap
      BY <2>1 DEF IInv, CloseKnows, ProducerKnows, TypeOK
    <2>3. n[P] \in 1 .. Cap
      BY <2>2, Types, CapAssumption DEF QueueInv, IInv, Thread
    <2>4. Len(Queue) + n[P] <= Cap
      BY <2>2, <2>3, QueueLength, CapAssumption DEF QueueInv
    <2>5. Queue' = Queue \o [i \in 1 .. n[P] |-> sent + 1 + i - 1]
      <3>1. Queue' = Numbers(taken, sent + n[P])
        BY <2>1 DEF QueueInv
      <3>2. n[P] \in Nat
        BY <2>3, CapAssumption
      <3> QED
        BY <3>1, <3>2, NumbersSend DEF QueueInv
    <2>6. (sent + 1)' = sent + 1 + n[P]
      BY <2>1, <2>3 DEF QueueInv
    <2>7. Channel!Send(n[P])
      BY <2>1, <2>2, <2>4, <2>5, <2>6 DEF Channel!Send
    <2> QED
      BY <2>3, <2>7 DEF Channel!Next
  <1>2. CASE Invalidate
    <2>1. is_valid /\ ~is_valid' /\ UNCHANGED <<sent, taken, got, error>>
      BY <1>2 DEF Invalidate, IInv, CloseKnows, TypeOK, history
    <2>2. Channel!Close
      BY <2>1 DEF Channel!Close, QueueInv
    <2> QED
      BY <2>2 DEF Channel!Next
  <1>3. CASE \/ \E o \in ProducerOps, k \in 1 .. MaxRange : Produce(o, k)
             \/ ProducerSpins \/ PushStore \/ PushSignal \/ LocalAllocate \/ LocalAllocateN
             \/ Fill \/ Deallocate \/ Send \/ SendRange \/ IncWriteWrap
    <2>1. UNCHANGED <<sent, taken, is_valid, got, error>>
      BY <1>3 DEF Produce, ProducerSpins, PushStore, PushSignal, LocalAllocate, LocalAllocateN,
         Fill, Deallocate, Send, SendRange, IncWriteWrap, history, buffer
    <2> QED
      BY <2>1, Stutters
  <1>4. CASE Size(P)
    <2>1. UNCHANGED <<sent, taken, is_valid, got, error>>
      BY <1>4 DEF Size, ReadWrapWrite, ReadWrapRead, ReadWpt, ReadRpt, history, buffer
    <2> QED
      BY <2>1, Stutters
  <1> QED
    BY <1>1, <1>2, <1>3, <1>4 DEF ProducerNext

\* The steps of the consumer: a read looks, the store of the index removes, and
\* the exceptions are those of a closed stream.
LEMMA ConsumerRefines ==
    ASSUME IInv, QueueInv, QueueInv', ConsumerNext
    PROVE  [Channel!Next]_(Channel!vars)
  <1>1. ASSUME NEW i \in Nat, i < sent - taken, got'.item = ItemAt(i).item,
               UNCHANGED <<sent, taken, is_valid, error>>
        PROVE  Channel!Next
    <2>1. i + 1 <= Len(Queue) /\ got'.item = Queue[i + 1] /\ i + 1 \in 1 .. Cap
      BY <1>1, ItemInQueue, CapAssumption DEF QueueInv
    <2>2. Channel!Look(i + 1)
      BY <1>1, <2>1 DEF Channel!Look, QueueInv
    <2> QED
      BY <2>1, <2>2 DEF Channel!Next
  <1>2. CASE LocalPop \/ LocalPeek
    <2>1. 0 < sent - taken
      BY <1>2, Types DEF LocalPop, LocalPeek, IInv, ConsumerKnows, Thread
    <2>2. /\ got'.item = ItemAt(0).item
          /\ UNCHANGED <<sent, taken, is_valid, error>>
      BY <1>2 DEF LocalPop, LocalPeek, ItemAt, buffer
    <2> QED
      BY <1>1, <2>1, <2>2
  <1>3. CASE \E i \in 0 .. MaxRange - 1 : LookAt(i)
    <2>1. PICK i \in 0 .. MaxRange - 1 : LookAt(i)
      BY <1>3
    <2>2. i \in Nat /\ i < sent - taken
      BY <2>1, Types, MaxRangeAssumption DEF LookAt, IInv, ConsumerKnows, Thread, QueueInv
    <2>3. /\ got'.item = ItemAt(i).item
          /\ UNCHANGED <<sent, taken, is_valid, error>>
      BY <2>1 DEF LookAt, buffer
    <2> QED
      BY <1>1, <2>2, <2>3
  <1>4. CASE IncRead
    <2>1. /\ pc[C] = "inc" /\ taken' = taken + 1
          /\ UNCHANGED <<is_valid, sent, got, error>>
      BY <1>4 DEF IncRead
    <2>2. taken < sent
      BY <2>1, Types DEF IInv, ConsumerKnows, ConsumerCall, QueueInv
    <2>3. Queue # << >> /\ Queue' = Tail(Queue)
      BY <2>1, <2>2, NumbersTake DEF QueueInv
    <2>4. Channel!Remove
      BY <2>1, <2>3 DEF Channel!Remove
    <2> QED
      BY <2>4 DEF Channel!Next
  <1>5. CASE ThrowClosed
    <2>1. /\ pc[C] = "drained" /\ sz[C].res = 0 /\ error' = "closed"
          /\ UNCHANGED <<sent, taken, is_valid, got>>
      BY <1>5 DEF ThrowClosed, buffer
    <2>2. ~is_valid /\ taken = sent
      BY <2>1 DEF IInv, CloseKnows, ConsumerCall, QueueInv
    <2>3. Queue = << >>
      BY <2>2, NumbersEmpty DEF QueueInv
    <2>4. Channel!FailClosed
      BY <2>1, <2>2, <2>3 DEF Channel!FailClosed, QueueInv
    <2> QED
      BY <2>4 DEF Channel!Next
  <1>6. CASE ThrowNoMoreData
    <2>1. /\ pc[C] = "short" /\ sz[C].res < n[C] /\ error' = "no_more_data"
          /\ UNCHANGED <<sent, taken, is_valid, got>>
      BY <1>6 DEF ThrowNoMoreData, buffer
    <2>2. ~is_valid /\ taken + sz[C].res = sent
      BY <2>1 DEF IInv, CloseKnows, ConsumerCall, QueueInv
    <2>3. n[C] \in 1 .. MaxRange /\ sz[C].res \in 0 .. Cap
      BY DEF IInv, TypeOK, Thread
    <2>4. Len(Queue) < n[C]
      <3>1. Len(Queue) = sent - taken /\ sent \in Nat /\ taken \in Nat
        BY QueueLength DEF QueueInv
      <3>2. n[C] \in Nat /\ sz[C].res \in Nat
        BY <2>3, MaxRangeAssumption, CapAssumption
      <3> QED
        BY <2>1, <2>2, <3>1, <3>2
    <2>5. Channel!FailNoMoreData(n[C])
      BY <2>1, <2>2, <2>4 DEF Channel!FailNoMoreData, QueueInv
    <2> QED
      BY <2>3, <2>5 DEF Channel!Next
  <1>7. CASE \/ \E o \in ConsumerOps \ {"unpeek"}, k \in 1 .. MaxRange : Consume(o, k)
             \/ TooFew \/ ReadIsValid \/ RecycleReturns \/ NotDrained \/ NotShort \/ LocalRecycle
             \/ Unpeek \/ RecyclePeeked \/ IncReadWrap
    <2>1. UNCHANGED <<sent, taken, is_valid, got, error>>
      BY <1>7 DEF Consume, TooFew, ReadIsValid, RecycleReturns, NotDrained, NotShort,
         LocalRecycle, Unpeek, RecyclePeeked, IncReadWrap, history, buffer
    <2> QED
      BY <2>1, Stutters
  <1>8. CASE Size(C)
    <2>1. UNCHANGED <<sent, taken, is_valid, got, error>>
      BY <1>8 DEF Size, ReadWrapWrite, ReadWrapRead, ReadWpt, ReadRpt, history, buffer
    <2> QED
      BY <2>1, Stutters
  <1> QED
    BY <1>2, <1>3, <1>4, <1>5, <1>6, <1>7, <1>8 DEF ConsumerNext

\* The ring buffer implements the stream that raftinc/fifo.hpp promises: every
\* step of its two threads sends, looks at, removes or refuses exactly what the
\* stream would, or changes nothing that can be seen (push, send, send_range,
\* pop, recycle, peek, peek_range, invalidate).
THEOREM Refinement == Spec => ImplementsChannel
  <1>1. Init => Channel!Init
    <2> SUFFICES ASSUME Init PROVE Channel!Init
      OBVIOUS
    <2>1. IInv
      BY InitInvariant
    <2>2. QueueInv
      BY <2>1, QueueIsNumbers
    <2>3. sent = 0 /\ taken = 0 /\ is_valid = TRUE /\ got.item = 0 /\ error = "none"
      BY DEF Init
    <2>4. Queue = << >>
      BY <2>2, <2>3, NumbersEmpty DEF QueueInv
    <2> QED
      BY <2>3, <2>4, CapAssumption DEF Channel!Init
  <1>2. IInv /\ QueueInv /\ QueueInv' /\ [Next]_vars => [Channel!Next]_(Channel!vars)
    <2>1. ASSUME QueueInv, QueueInv', UNCHANGED vars
          PROVE  UNCHANGED Channel!vars
      BY <2>1, Stutters DEF vars, buffer, history
    <2> QED
      BY <2>1, ProducerRefines, ConsumerRefines DEF Next
  <1> QED
    BY <1>1, <1>2, Invariance, QueueIsNumbers, PTL DEF Spec, ImplementsChannel, Channel!Spec
=============================================================================
