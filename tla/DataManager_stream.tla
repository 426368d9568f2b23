------------------------- MODULE DataManager_stream -------------------------
(***************************************************************************)
(* Proof that the first replacement of its buffer does not disturb the     *)
(* items of a stream: they stay in order, and the stream is a resizable    *)
(* one of FifoChannel, for every capacity, range length and number of      *)
(* items.                                                                  *)
(*                                                                         *)
(* The argument rests on the exclusion proved in DataManager_proofs: a     *)
(* thread that is inside works on the current buffer, and while the        *)
(* contents are copied and the buffers are switched no thread is inside.   *)
(***************************************************************************)
EXTENDS DataManager_proofs, ItemNumbers

-----------------------------------------------------------------------------
(* The inductive invariant.                                                *)

\* The write pointer is s - t places ahead of the read pointer, and at most once
\* round a ring of cap slots.
Apart(cap, ww, wr, w, r, s, t) ==
    \/ ww = wr /\ r <= w /\ s + r = t + w
    \/ ww = wr + 1 /\ w <= r /\ s + r = t + cap + w

\* Buffer b holds the items sent and not yet taken, each with its signal or none.
Positions(b) ==
    Apart(capacity(b), heap[b].write_pt.wrap, heap[b].read_pt.wrap,
          heap[b].write_pt.a, heap[b].read_pt.a, sent, taken)
Ahead(b, s) == Offset(capacity(b), heap[b].read_pt.a, s)
Stored(b) ==
    \A s \in Slot : s < capacity(b) /\ Ahead(b, s) < sent - taken =>
        /\ heap[b].store[s] = taken + 1 + Ahead(b, s)
        /\ heap[b].signal[s] \in {0, taken + 1 + Ahead(b, s)}
Holds(b) == Positions(b) /\ Stored(b)

\* The current buffer holds the stream, and so does the copy of it.
StreamKept ==
    /\ Holds(buffer)
    /\ rpc = "set_buffer" => Holds(new_buffer)
    /\ rpc = "copy" => buffercondition
    /\ rpc \in Waiting => \A s \in Slot : heap[new_buffer].signal[s] = 0

\* What the producer's call is, by where it is, and what it may rely on.
ProducerCall ==
    /\ ret[P] = "admit"
    /\ op[P] \in {"none", "push", "allocate", "allocate_range"}
    /\ /\ pc[P] \in Inside \cup {"enter", "set", "check", "backoff", "clear_retry"}
       /\ op[P] # "allocate_range"
       => n[P] = 1
    /\ pc[P] \in {"held", "filled"} => op[P] \in {"allocate", "allocate_range"}
ProducerKnows ==
    /\ pc[P] \in {"size_exit", "admit"} => sent + res[P] <= taken + capacity(buffer)
    /\ pc[P] \in {"held", "filled"} => sent + n[P] <= taken + capacity(buffer)
Written ==
    \A s \in Slot : s < capacity(buffer) /\ Behind(buffer, s) < n[P] =>
        /\ pc[P] = "filled" => heap[buffer].store[s] = sent + 1 + Behind(buffer, s)
        /\ pc[P] \in {"held", "filled"} /\ op[P] = "allocate_range" =>
              heap[buffer].signal[s] = 0

\* What the consumer may rely on; a stream that it has seen closed is complete.
ConsumerKnows ==
    /\ pc[C] \in {"size_exit", "admit", "drained"} => taken + res[C] <= sent
    /\ pc[C] = "held" => taken < sent
    /\ pc[C] = "drained" => ret[C] = "drained"
    /\ ret[C] = "drained" => pc[P] = "done"
    /\ ret[C] = "drained" /\ pc[C] \in {"size_exit", "drained"} => taken + res[C] = sent
    /\ \A b \in Buffers : ~heap[b].is_valid => pc[P] = "done"

DInv == /\ StreamKept /\ ProducerCall /\ ProducerKnows /\ Written
        /\ ConsumerKnows /\ InOrder

IInv == EInv /\ DInv

-----------------------------------------------------------------------------
(* Arithmetic of a ring of cap slots whose write index is w and whose read *)
(* index is r, with s items sent and t taken.                              *)

\* No more items are in the ring than it has slots.
LEMMA ApartBounds ==
    ASSUME NEW cap \in Nat \ {0}, NEW w \in 0 .. cap - 1, NEW r \in 0 .. cap - 1,
           NEW ww \in Nat, NEW wr \in Nat, NEW s \in Nat, NEW t \in Nat,
           Apart(cap, ww, wr, w, r, s, t)
    PROVE  t <= s /\ s <= t + cap
  BY DEF Apart

\* Publishing k items that there is room for keeps the pointers apart.
LEMMA PublishApart ==
    ASSUME NEW cap \in Nat \ {0}, NEW w \in 0 .. cap - 1, NEW r \in 0 .. cap - 1,
           NEW ww \in Nat, NEW wr \in Nat, NEW s \in Nat, NEW t \in Nat,
           Apart(cap, ww, wr, w, r, s, t), NEW k \in Nat \ {0}, s + k <= t + cap
    PROVE  Apart(cap, IF (w + k) % cap < k THEN ww + 1 ELSE ww, wr, (w + k) % cap, r, s + k, t)
  <1> DEFINE x == (w + k) % cap
  <1>1. t <= s
    BY ApartBounds
  <1>2. k \in 0 .. cap
    BY <1>1
  <1> HIDE DEF x
  <1>3. x = (IF w + k < cap THEN w + k ELSE w + k - cap) /\ x \in Nat
    <2>1. x = (IF w + k < cap THEN w + k ELSE w + k - cap)
      BY <1>2, IndexMoves, Zenon DEF x
    <2> QED
      BY <2>1
  <1>4. CASE w + k < cap
    <2>1. x = w + k /\ ~(x < k)
      BY <1>3, <1>4
    <2> QED
      BY <1>4, <2>1 DEF x, Apart
  <1>5. CASE w + k >= cap
    <2>1. x = w + k - cap /\ x < k
      BY <1>2, <1>3, <1>5
    <2>2. Apart(cap, ww + 1, wr, x, r, s + k, t)
      BY <1>1, <1>5, <2>1 DEF Apart
    <2> QED
      BY <2>1, <2>2 DEF x
  <1> QED
    BY <1>4, <1>5

\* Removing the item at the head keeps the pointers apart.
LEMMA TakeApart ==
    ASSUME NEW cap \in Nat \ {0}, NEW w \in 0 .. cap - 1, NEW r \in 0 .. cap - 1,
           NEW ww \in Nat, NEW wr \in Nat, NEW s \in Nat, NEW t \in Nat,
           Apart(cap, ww, wr, w, r, s, t), t < s
    PROVE  Apart(cap, ww, IF (r + 1) % cap < 1 THEN wr + 1 ELSE wr, w, (r + 1) % cap, s, t + 1)
  <1>1. (r + 1) % cap = IF r + 1 < cap THEN r + 1 ELSE r + 1 - cap
    <2>1. 1 \in 0 .. cap
      OBVIOUS
    <2> QED
      BY <2>1, IndexMoves, Zenon
  <1>2. CASE r + 1 < cap
    BY <1>1, <1>2 DEF Apart
  <1>3. CASE r + 1 = cap
    <2>1. (r + 1) % cap = 0
      BY <1>1, <1>3
    <2>2. Apart(cap, ww, wr + 1, w, 0, s, t + 1)
      BY <1>3 DEF Apart
    <2> QED
      BY <2>1, <2>2
  <1> QED
    BY <1>2, <1>3

\* The items that remain move up by one.
LEMMA TakeOffsets ==
    ASSUME NEW cap \in Nat \ {0}, NEW r \in 0 .. cap - 1, NEW s \in Nat, NEW t \in Nat,
           s <= t + cap, NEW x \in 0 .. cap - 1
    PROVE  Offset(cap, (r + 1) % cap, x) < s - (t + 1) =>
               Offset(cap, r, x) = Offset(cap, (r + 1) % cap, x) + 1
  <1>1. (r + 1) % cap = IF r + 1 < cap THEN r + 1 ELSE r + 1 - cap
    <2>1. 1 \in 0 .. cap
      OBVIOUS
    <2> QED
      BY <2>1, IndexMoves, Zenon
  <1>2. CASE r + 1 < cap
    BY <1>1, <1>2 DEF Offset
  <1>3. CASE r + 1 = cap
    <2>1. (r + 1) % cap = 0
      BY <1>1, <1>3
    <2> QED
      BY <1>3, <2>1 DEF Offset
  <1> QED
    BY <1>2, <1>3

-----------------------------------------------------------------------------
(* A buffer that holds the stream.                                         *)

\* The counters and indices of the invariant are numbers.
LEMMA Numbered ==
    ASSUME TypeOK, NEW b \in Buffers
    PROVE  /\ capacity(b) \in Nat \ {0} /\ capacity(b) <= MaxCap /\ MaxCap \in Nat
           /\ heap[b].write_pt.a \in 0 .. capacity(b) - 1 /\ heap[b].write_pt.wrap \in Nat
           /\ heap[b].read_pt.a \in 0 .. capacity(b) - 1 /\ heap[b].read_pt.wrap \in Nat
           /\ sent \in Nat /\ taken \in Nat
           /\ \A s \in Slot : s < capacity(b) => s \in 0 .. capacity(b) - 1
           /\ \A s \in 0 .. capacity(b) - 1 : s \in Slot /\ s < capacity(b)
  <1>1. sent \in Nat /\ taken \in Nat
    BY DEF TypeOK
  <1>2. /\ capacity(b) \in Nat \ {0} /\ capacity(b) <= MaxCap /\ MaxCap \in Nat
        /\ heap[b].write_pt.a \in 0 .. capacity(b) - 1 /\ heap[b].write_pt.wrap \in Nat
        /\ heap[b].read_pt.a \in 0 .. capacity(b) - 1 /\ heap[b].read_pt.wrap \in Nat
    BY Indices
  <1> QED
    BY <1>1, <1>2 DEF Slot

\* It holds no more items than it has slots.
LEMMA HoldsBounds ==
    ASSUME TypeOK, NEW b \in Buffers, Holds(b)
    PROVE  taken <= sent /\ sent <= taken + capacity(b)
  BY Numbered, ApartBounds DEF Holds, Positions

\* size() is the number of items sent and not yet taken.
LEMMA SizeIs ==
    ASSUME TypeOK, NEW b \in Buffers, Holds(b)
    PROVE  SizeIn(b) = sent - taken
  <1> DEFINE w == heap[b].write_pt.a
             r == heap[b].read_pt.a
             ww == heap[b].write_pt.wrap
             wr == heap[b].read_pt.wrap
             cap == capacity(b)
  <1>1. /\ cap \in Nat \ {0} /\ w \in 0 .. cap - 1 /\ r \in 0 .. cap - 1
        /\ ww \in Nat /\ wr \in Nat /\ sent \in Nat /\ taken \in Nat
    BY Numbered
  <1>2. \/ ww = wr /\ r <= w /\ sent + r = taken + w
        \/ ww = wr + 1 /\ w <= r /\ sent + r = taken + cap + w
    BY DEF Holds, Positions, Apart
  <1>3. SizeIn(b) = IF w = r THEN IF wr < ww THEN cap ELSE 0
                    ELSE IF r < w THEN w - r ELSE cap - r + w
    BY DEF SizeIn, val, wrapIndicator
  <1> HIDE DEF w, r, ww, wr, cap
  <1> QED
    BY <1>1, <1>2, <1>3

\* The item at the head is the next to be taken.
LEMMA HeadIs ==
    ASSUME TypeOK, NEW b \in Buffers, Holds(b), taken < sent
    PROVE  /\ Head0(b).pos = taken + 1 /\ Head0(b).item = taken + 1
           /\ Head0(b).sig \in {0, taken + 1}
  <1> DEFINE r == heap[b].read_pt.a
  <1>1. /\ r \in Slot /\ r < capacity(b) /\ r \in 0 .. capacity(b) - 1 /\ sent \in Nat /\ taken \in Nat
        /\ capacity(b) \in Nat
    BY Numbered
  <1>2. Ahead(b, r) = 0
    BY <1>1 DEF Ahead, Offset
  <1>3. heap[b].store[r] = taken + 1 /\ heap[b].signal[r] \in {0, taken + 1}
    BY <1>1, <1>2 DEF Holds, Stored
  <1> QED
    BY <1>3 DEF Head0, val

\* A slot that one of the next k items goes to holds none that is in the stream.
LEMMA RoomIsFree ==
    ASSUME TypeOK, NEW b \in Buffers, Holds(b), NEW k \in Nat, sent + k <= taken + capacity(b),
           NEW s \in Slot, s < capacity(b)
    PROVE  /\ Behind(b, s) < k => Ahead(b, s) = sent - taken + Behind(b, s)
           /\ Ahead(b, s) < sent + k - taken => Ahead(b, s) < sent - taken \/ Behind(b, s) < k
           /\ Behind(b, s) < 1 <=> s = heap[b].write_pt.a
  <1>1. Behind(b, s) = Offset(capacity(b), heap[b].write_pt.a, s)
    BY BehindIs
  <1> DEFINE w == heap[b].write_pt.a
             r == heap[b].read_pt.a
             ww == heap[b].write_pt.wrap
             wr == heap[b].read_pt.wrap
             cap == capacity(b)
  <1>2. /\ cap \in Nat \ {0} /\ w \in 0 .. cap - 1 /\ r \in 0 .. cap - 1
        /\ ww \in Nat /\ wr \in Nat /\ sent \in Nat /\ taken \in Nat /\ s \in 0 .. cap - 1
    BY Numbered
  <1>3. Apart(cap, ww, wr, w, r, sent, taken)
    BY DEF Holds, Positions
  <1>4. sent + k <= taken + cap
    OBVIOUS
  <1>5. /\ Offset(cap, w, s) < k => Offset(cap, r, s) = sent - taken + Offset(cap, w, s)
        /\ Offset(cap, r, s) < sent + k - taken => Offset(cap, r, s) < sent - taken \/ Offset(cap, w, s) < k
        /\ Offset(cap, w, s) < 1 <=> s = w
    <2> HIDE DEF w, r, ww, wr, cap
    <2> QED
      BY <1>2, <1>3, <1>4 DEF Apart, Offset
  <1> QED
    BY <1>1, <1>5 DEF Ahead

\* Nothing happens to the buffer, or only to slots that are not in use.
LEMMA WriteHolds ==
    ASSUME NEW b \in Buffers, Holds(b), KeepsPointers(b), heap'[b].max_cap = heap[b].max_cap,
           UNCHANGED <<sent, taken>>,
           \A s \in Slot : s < capacity(b) /\ Ahead(b, s) < sent - taken =>
              /\ heap'[b].store[s] = heap[b].store[s]
              /\ heap'[b].signal[s] \in {0, heap[b].signal[s]}
    PROVE  Holds(b)'
  <1>1. Positions(b)'
    BY DEF Holds, Positions, KeepsPointers, capacity
  <1>2. ASSUME NEW s \in Slot
        PROVE  Ahead(b, s)' = Ahead(b, s) /\ capacity(b)' = capacity(b)
    BY DEF Ahead, KeepsPointers, capacity
  <1>3. Stored(b)'
    BY <1>2 DEF Holds, Stored
  <1> QED
    BY <1>1, <1>3 DEF Holds

\* A buffer that is left alone holds what it held.
LEMMA SameHolds ==
    ASSUME NEW b \in Buffers, Holds(b), KeepsPointers(b), KeepsArrays(b),
           heap'[b].max_cap = heap[b].max_cap, UNCHANGED <<sent, taken>>
    PROVE  Holds(b)'
  BY WriteHolds DEF KeepsArrays

\* Publishing k items that have been written.
LEMMA PublishHolds ==
    ASSUME TypeOK, NEW b \in Buffers, NEW k \in Nat \ {0}, NEW st, Holds(b), Publishes(b, k, st),
           sent + k <= taken + capacity(b), sent' = sent + k, taken' = taken,
           \A s \in Slot : s < capacity(b) =>
              st[s] = IF Behind(b, s) < k THEN sent + 1 + Behind(b, s) ELSE heap[b].store[s],
           \/ k = 1
           \/ \A s \in Slot : s < capacity(b) /\ Behind(b, s) < k => heap[b].signal[s] = 0
    PROVE  Holds(b)'
  <1> DEFINE w == heap[b].write_pt.a
             r == heap[b].read_pt.a
             ww == heap[b].write_pt.wrap
             wr == heap[b].read_pt.wrap
             cap == capacity(b)
  <1>1. /\ cap \in Nat \ {0} /\ w \in 0 .. cap - 1 /\ r \in 0 .. cap - 1
        /\ ww \in Nat /\ wr \in Nat /\ sent \in Nat /\ taken \in Nat
    BY Numbered
  <1>2. Positions(b)'
    <2>1. Apart(cap, ww, wr, w, r, sent, taken)
      BY DEF Holds, Positions
    <2>2. sent + k <= taken + cap
      OBVIOUS
    <2>3. Apart(cap, IF (w + k) % cap < k THEN ww + 1 ELSE ww, wr, (w + k) % cap, r, sent + k, taken)
      <3> HIDE DEF w, r, ww, wr, cap
      <3> QED
        BY <1>1, <2>1, <2>2, PublishApart, Zenon
    <2> QED
      BY <2>3 DEF Positions, Publishes, KeepsFrame, capacity
  <1>3. ASSUME NEW s \in Slot
        PROVE  Ahead(b, s)' = Ahead(b, s) /\ capacity(b)' = capacity(b)
    BY DEF Ahead, Publishes, KeepsFrame, capacity
  <1>4. ASSUME NEW s \in Slot, s < capacity(b), Ahead(b, s) < sent + k - taken
        PROVE  /\ heap'[b].store[s] = taken + 1 + Ahead(b, s)
               /\ heap'[b].signal[s] \in {0, taken + 1 + Ahead(b, s)}
    <2>1. /\ Behind(b, s) < k => Ahead(b, s) = sent - taken + Behind(b, s)
          /\ Ahead(b, s) < sent - taken \/ Behind(b, s) < k
      BY <1>4, RoomIsFree
    <2>2. Behind(b, s) < 1 <=> s = w
      <3>1. sent + 0 <= taken + capacity(b)
        BY <1>1, HoldsBounds
      <3> QED
        BY <1>4, <3>1, RoomIsFree
    <2>3. Behind(b, s) \in Nat
      BY <1>4, BehindIs
    <2>4. /\ heap'[b].store[s] = st[s]
          /\ heap'[b].signal[s] = IF s = w THEN sent + 1 ELSE heap[b].signal[s]
      BY HeapIsSound DEF Publishes
    <2>5. st[s] = IF Behind(b, s) < k THEN sent + 1 + Behind(b, s) ELSE heap[b].store[s]
      BY <1>4
    <2>6. Ahead(b, s) < sent - taken =>
              /\ heap[b].store[s] = taken + 1 + Ahead(b, s)
              /\ heap[b].signal[s] \in {0, taken + 1 + Ahead(b, s)}
      BY <1>4 DEF Holds, Stored
    <2>7. CASE Behind(b, s) < k
      <3>1. Ahead(b, s) = sent - taken + Behind(b, s) /\ sent + 1 + Behind(b, s) = taken + 1 + Ahead(b, s)
        BY <1>1, <2>1, <2>3, <2>7
      <3>2. heap'[b].store[s] = taken + 1 + Ahead(b, s)
        BY <2>4, <2>5, <2>7, <3>1
      <3>3. CASE s = w
        <4>1. Behind(b, s) = 0
          BY <2>2, <2>3, <3>3
        <4>2. heap'[b].signal[s] = taken + 1 + Ahead(b, s)
          BY <1>1, <2>4, <3>1, <3>3, <4>1
        <4> QED
          BY <3>2, <4>2
      <3>4. CASE s # w
        <4>1. k # 1
          BY <2>2, <2>7, <3>4
        <4>2. heap[b].signal[s] = 0
          BY <1>4, <2>7, <4>1
        <4> QED
          BY <2>4, <3>2, <3>4, <4>2
      <3> QED
        BY <3>3, <3>4
    <2>8. CASE ~ (Behind(b, s) < k)
      <3>1. Ahead(b, s) < sent - taken
        BY <2>1, <2>8
      <3>2. s # w
        BY <2>2, <2>3, <2>8
      <3> QED
        BY <2>4, <2>5, <2>6, <2>8, <3>1, <3>2
    <2> QED
      BY <2>7, <2>8
  <1>5. Stored(b)'
    <2> SUFFICES ASSUME NEW s \in Slot, s < capacity(b)', Ahead(b, s)' < sent' - taken'
                 PROVE  /\ heap'[b].store[s] = taken' + 1 + Ahead(b, s)'
                        /\ heap'[b].signal[s] \in {0, taken' + 1 + Ahead(b, s)'}
      BY DEF Stored
    <2>1. Ahead(b, s)' = Ahead(b, s) /\ capacity(b)' = capacity(b)
      BY <1>3
    <2>2. s < capacity(b) /\ Ahead(b, s) < sent + k - taken
      BY <1>1, <2>1
    <2> QED
      BY <1>4, <2>1, <2>2
  <1> QED
    BY <1>2, <1>5 DEF Holds

\* Removing the item at the head.
LEMMA TakeHolds ==
    ASSUME TypeOK, LocalPop, Holds(buffer), taken < sent, NEW b \in Buffers, b = buffer
    PROVE  Holds(b)'
  <1> DEFINE w == heap[b].write_pt.a
             r == heap[b].read_pt.a
             ww == heap[b].write_pt.wrap
             wr == heap[b].read_pt.wrap
             cap == capacity(b)
  <1>1. /\ cap \in Nat \ {0} /\ w \in 0 .. cap - 1 /\ r \in 0 .. cap - 1
        /\ ww \in Nat /\ wr \in Nat /\ sent \in Nat /\ taken \in Nat
    BY Numbered
  <1>2. /\ KeepsFrame(b) /\ KeepsArrays(b)
        /\ heap'[b].write_pt = heap[b].write_pt
        /\ heap'[b].read_pt.a = (r + 1) % cap
        /\ heap'[b].read_pt.wrap = IF (r + 1) % cap < 1 THEN wr + 1 ELSE wr
    BY PopEffect
  <1>3. sent' = sent /\ taken' = taken + 1
    BY DEF LocalPop
  <1>4. Holds(b)
    OBVIOUS
  <1>5. Positions(b)'
    <2>1. Apart(cap, ww, wr, w, r, sent, taken)
      BY <1>4 DEF Holds, Positions
    <2>2. Apart(cap, ww, IF (r + 1) % cap < 1 THEN wr + 1 ELSE wr, w, (r + 1) % cap, sent, taken + 1)
      <3> HIDE DEF w, r, ww, wr, cap
      <3> QED
        BY <1>1, <2>1, TakeApart, Zenon
    <2> QED
      BY <1>2, <1>3, <2>2 DEF Positions, KeepsFrame, capacity
  <1>6. sent <= taken + cap
    BY <1>4, HoldsBounds
  <1>7. ASSUME NEW s \in Slot, s < capacity(b)
        PROVE  /\ Ahead(b, s)' < sent - (taken + 1) => Ahead(b, s) = Ahead(b, s)' + 1
               /\ capacity(b)' = capacity(b) /\ Ahead(b, s)' \in Nat
    <2>1. s \in 0 .. cap - 1
      BY <1>7, Numbered
    <2>2. Ahead(b, s) = Offset(cap, r, s) /\ Ahead(b, s)' = Offset(cap, (r + 1) % cap, s)
          /\ capacity(b)' = capacity(b)
      BY <1>2 DEF Ahead, KeepsFrame, capacity
    <2> HIDE DEF w, r, ww, wr, cap
    <2>3. (r + 1) % cap \in 0 .. cap - 1
      BY <1>1, IndexInRange
    <2>4. Offset(cap, (r + 1) % cap, s) \in Nat
      BY <1>1, <2>1, <2>3 DEF Offset
    <2>5. Offset(cap, (r + 1) % cap, s) < sent - (taken + 1) =>
              Offset(cap, r, s) = Offset(cap, (r + 1) % cap, s) + 1
      BY <1>1, <1>6, <2>1, TakeOffsets
    <2> QED
      BY <2>2, <2>4, <2>5
  <1>8. Stored(b)'
    <2> SUFFICES ASSUME NEW s \in Slot, s < capacity(b)', Ahead(b, s)' < sent' - taken'
                 PROVE  /\ heap'[b].store[s] = taken' + 1 + Ahead(b, s)'
                        /\ heap'[b].signal[s] \in {0, taken' + 1 + Ahead(b, s)'}
      BY DEF Stored
    <2>1. s < capacity(b)
      BY <1>2 DEF KeepsFrame, capacity
    <2>2. Ahead(b, s) = Ahead(b, s)' + 1 /\ Ahead(b, s)' \in Nat
      BY <1>3, <1>7, <2>1
    <2>3. Ahead(b, s) < sent - taken /\ taken + 1 + Ahead(b, s) = taken' + 1 + Ahead(b, s)'
      BY <1>1, <1>3, <2>2
    <2>4. /\ heap[b].store[s] = taken + 1 + Ahead(b, s)
          /\ heap[b].signal[s] \in {0, taken + 1 + Ahead(b, s)}
      BY <1>4, <2>1, <2>3 DEF Holds, Stored
    <2> QED
      BY <1>2, <2>3, <2>4 DEF KeepsArrays
  <1> QED
    BY <1>5, <1>8 DEF Holds

\* Copying contents that are in one piece.
LEMMA CopyHolds ==
    ASSUME TypeOK, NEW b \in Buffers, b = new_buffer, capacity(new_buffer) = 2 * capacity(old_buffer),
           Holds(old_buffer), buffercondition, \A s \in Slot : heap[new_buffer].signal[s] = 0,
           heap'[b] = Copied, UNCHANGED <<sent, taken>>
    PROVE  Holds(b)'
  <1> DEFINE w == heap[old_buffer].write_pt.a
             r == heap[old_buffer].read_pt.a
             ww == heap[old_buffer].write_pt.wrap
             wr == heap[old_buffer].read_pt.wrap
             cap == capacity(old_buffer)
  <1>1. old_buffer \in Buffers
    BY DEF TypeOK
  <1>2. /\ cap \in Nat \ {0} /\ w \in 0 .. cap - 1 /\ r \in 0 .. cap - 1
        /\ ww \in Nat /\ wr \in Nat /\ sent \in Nat /\ taken \in Nat
    BY <1>1, Numbered
  <1>3. /\ heap'[b].max_cap = 2 * cap
        /\ heap'[b].read_pt = [a |-> r, wrap |-> 0] /\ heap'[b].write_pt = [a |-> w, wrap |-> 0]
        /\ \A s \in Slot : s < cap =>
              /\ heap'[b].store[s] = heap[old_buffer].store[s]
              /\ heap'[b].signal[s] \in {0, heap[old_buffer].signal[s]}
    BY <1>1, CopiedIs DEF capacity
  <1>4. Apart(cap, ww, wr, w, r, sent, taken) /\ r < w
    BY DEF Holds, Positions, buffercondition, val
  <1>5. /\ Apart(2 * cap, 0, 0, w, r, sent, taken)
        /\ \A x \in 0 .. 2 * cap - 1 : Offset(2 * cap, r, x) < sent - taken =>
              x < cap /\ Offset(cap, r, x) = Offset(2 * cap, r, x)
    <2> HIDE DEF w, r, ww, wr, cap
    <2> QED
      BY <1>2, <1>4 DEF Apart, Offset
  <1>6. Positions(b)'
    BY <1>3, <1>5 DEF Positions, capacity
  <1>7. Stored(b)'
    <2>1. \A s \in Slot : Ahead(b, s)' = Offset(2 * cap, r, s) /\ capacity(b)' = 2 * cap
      BY <1>3 DEF Ahead, capacity
    <2> SUFFICES ASSUME NEW s \in Slot, s < 2 * cap, Offset(2 * cap, r, s) < sent - taken
                 PROVE  /\ heap'[b].store[s] = taken + 1 + Offset(2 * cap, r, s)
                        /\ heap'[b].signal[s] \in {0, taken + 1 + Offset(2 * cap, r, s)}
      BY <2>1 DEF Stored
    <2>2. s \in 0 .. 2 * cap - 1
      BY <1>2 DEF Slot
    <2>3. s < cap /\ Ahead(old_buffer, s) = Offset(2 * cap, r, s)
      BY <1>5, <2>2 DEF Ahead
    <2>4. /\ heap[old_buffer].store[s] = taken + 1 + Offset(2 * cap, r, s)
          /\ heap[old_buffer].signal[s] \in {0, taken + 1 + Offset(2 * cap, r, s)}
      BY <2>3 DEF Holds, Stored
    <2> QED
      BY <1>3, <2>3, <2>4
  <1> QED
    BY <1>6, <1>7 DEF Holds

-----------------------------------------------------------------------------
(* What a step leaves alone stays true.                                    *)

\* The parts of the invariant that are about one thread.
ProducerPart == ProducerCall /\ ProducerKnows /\ Written
ConsumerPart == ConsumerKnows /\ InOrder

\* The producer, when the other threads move.
LEMMA ProducerUndisturbed ==
    ASSUME TypeOK, ProducerPart,
           pc'[P] = pc[P], op'[P] = op[P], n'[P] = n[P], res'[P] = res[P], ret'[P] = ret[P],
           sent' = sent, taken' \in Nat, taken <= taken',
           \/ pc[P] \notin Inside
           \/ /\ buffer' = buffer /\ KeepsArrays(buffer)
              /\ heap'[buffer].max_cap = heap[buffer].max_cap
              /\ heap'[buffer].write_pt = heap[buffer].write_pt
    PROVE  ProducerPart'
  <1>1. ProducerCall'
    BY DEF ProducerPart, ProducerCall
  <1>2. CASE pc[P] \notin Inside
    BY <1>1, <1>2 DEF ProducerPart, ProducerKnows, Written, Inside
  <1>3. CASE /\ buffer' = buffer /\ KeepsArrays(buffer)
             /\ heap'[buffer].max_cap = heap[buffer].max_cap
             /\ heap'[buffer].write_pt = heap[buffer].write_pt
    <2>1. capacity(buffer)' = capacity(buffer)
      BY <1>3 DEF capacity
    <2>2. /\ capacity(buffer) \in Nat /\ sent \in Nat /\ taken \in Nat /\ res[P] \in Nat /\ n[P] \in Nat
      <3>1. buffer \in Buffers /\ n[P] \in Ranges \cup {1} /\ res[P] \in 0 .. MaxCap
        BY DEF TypeOK, Thread
      <3> QED
        BY <3>1, Numbered, RangesAreNumbers
    <2>3. ProducerKnows'
      BY <2>1, <2>2 DEF ProducerPart, ProducerKnows
    <2>4. \A s \in Slot : Behind(buffer, s)' = Behind(buffer, s)
      BY <1>3 DEF Behind, capacity
    <2>5. Written'
      BY <1>3, <2>1, <2>4 DEF ProducerPart, Written, KeepsArrays
    <2> QED
      BY <1>1, <2>3, <2>5 DEF ProducerPart
  <1> QED
    BY <1>2, <1>3

\* The consumer, when the other threads move.
LEMMA ConsumerUndisturbed ==
    ASSUME TypeOK, ConsumerPart,
           pc'[C] = pc[C], res'[C] = res[C], ret'[C] = ret[C], UNCHANGED <<taken, got>>,
           sent' \in Nat, sent <= sent',
           pc[P] = "done" => pc'[P] = "done" /\ sent' = sent,
           \A b \in Buffers : ~heap'[b].is_valid => pc'[P] = "done"
    PROVE  ConsumerPart'
  <1>1. sent \in Nat /\ taken \in Nat /\ res[C] \in Nat
    BY InitCapAssumption DEF TypeOK, Thread
  <1>2. InOrder'
    BY DEF ConsumerPart, InOrder
  <1>3. ConsumerKnows'
    BY <1>1 DEF ConsumerPart, ConsumerKnows
  <1> QED
    BY <1>2, <1>3 DEF ConsumerPart

\* The stream, when no pointer and no array changes ...
LEMMA StreamUndisturbed ==
    ASSUME TypeOK, StreamKept,
           \A b \in Buffers : /\ KeepsPointers(b) /\ KeepsArrays(b)
                              /\ heap'[b].max_cap = heap[b].max_cap,
           UNCHANGED <<buffer, rpc, new_buffer, old_buffer, sent, taken>>
    PROVE  StreamKept'
  <1>1. buffer \in Buffers /\ new_buffer \in Buffers /\ old_buffer \in Buffers
    BY DEF TypeOK
  <1>2. ASSUME NEW b \in Buffers, Holds(b)
        PROVE  Holds(b)'
    BY <1>2, SameHolds
  <1>3. PICK b \in Buffers : b = buffer
    BY <1>1
  <1>4. PICK c \in Buffers : c = new_buffer
    BY <1>1
  <1>5. Holds(b)' /\ (rpc = "set_buffer" => Holds(c)')
    BY <1>2, <1>3, <1>4 DEF StreamKept
  <1>6. rpc = "copy" => buffercondition'
    BY <1>1 DEF StreamKept, buffercondition, KeepsPointers
  <1>7. rpc \in Waiting => \A s \in Slot : heap'[new_buffer].signal[s] = 0
    BY <1>1 DEF StreamKept, KeepsArrays
  <1> QED
    BY <1>3, <1>4, <1>5, <1>6, <1>7 DEF StreamKept

\* ... and when a thread that is inside writes the current buffer.
LEMMA StreamWritten ==
    ASSUME EInv, StreamKept, NEW t \in Thread, pc[t] \in {"admit", "held", "filled"},
           NEW b \in Buffers, b = buffer, Others(b), Holds(b)',
           UNCHANGED <<buffer, rpc, new_buffer, old_buffer>>
    PROVE  StreamKept'
  <1>1. rpc \notin {"copy", "set_buffer"}
    <2>1. IsInside(t)
      BY DEF EInv, TInv, Calling, IsInside, Inside
    <2> QED
      BY <2>1 DEF EInv, StaysOut, PastProducer, PastConsumer, PastSize
  <1>2. rpc \in Waiting => new_buffer # buffer /\ new_buffer \in Buffers
    <2>1. old_buffer \in Nat /\ new_buffer \in Buffers
      BY BoundsAssumption DEF EInv, TInv, TypeOK, Buffers
    <2> QED
      BY <2>1 DEF EInv, TInv, Places, BeforeSwitch, Waiting
  <1>3. rpc \in Waiting => \A s \in Slot : heap'[new_buffer].signal[s] = 0
    BY <1>2 DEF StreamKept, Others
  <1> QED
    BY <1>1, <1>3 DEF StreamKept

-----------------------------------------------------------------------------
(* Entering, leaving and asking for the size.                              *)

\* Of the buffers only the flags are touched, and of the rest only what belongs to
\* the thread.
LEMMA AccessKeeps ==
    ASSUME TypeOK, NEW t \in Thread, Access(t)
    PROVE  /\ UNCHANGED <<buffer, rpc, new_buffer, old_buffer, history>>
           /\ \A b \in Buffers : /\ KeepsPointers(b) /\ KeepsArrays(b) /\ KeepsFrame(b)
                                 /\ heap'[b].max_cap = heap[b].max_cap
                                 /\ heap'[b].is_valid = heap[b].is_valid
           /\ \A u \in Thread \ {t} : /\ pc'[u] = pc[u] /\ op'[u] = op[u] /\ n'[u] = n[u]
                                      /\ res'[u] = res[u] /\ ret'[u] = ret[u]
  <1> USE DEF Goto, manager, thread, resizer, history, Access, Size
  <1>1. UNCHANGED <<buffer, rpc, new_buffer, old_buffer, history>>
    BY DEF LoadAccess, SetFlag, ClearFlag, CheckResizing, SizeEnter, SizeCheck, SizeRead, SizeExit
  <1>2. \A u \in Thread \ {t} : /\ pc'[u] = pc[u] /\ op'[u] = op[u] /\ n'[u] = n[u]
                                /\ res'[u] = res[u] /\ ret'[u] = ret[u]
    BY DEF TypeOK, LoadAccess, SetFlag, ClearFlag, CheckResizing, SizeEnter, SizeCheck, SizeRead,
       SizeExit
  <1>3. \A b \in Buffers : KeepsPointers(b) /\ KeepsArrays(b) /\ KeepsFrame(b)
    <2>1. CASE SetFlag(t) \/ ClearFlag(t)
      BY <2>1, FlagEffect DEF Others, KeepsPointers, KeepsArrays, KeepsFrame
    <2>2. CASE \/ LoadAccess(t) \/ CheckResizing(t)
               \/ SizeEnter(t) \/ SizeCheck(t) \/ SizeRead(t) \/ SizeExit(t)
      BY <2>2 DEF LoadAccess, CheckResizing, SizeEnter, SizeCheck, SizeRead, SizeExit,
         KeepsPointers, KeepsArrays, KeepsFrame
    <2> QED
      BY <2>1, <2>2
  <1> QED
    BY <1>1, <1>2, <1>3 DEF KeepsFrame

\* What the producer learns from size() is that there is room.
LEMMA ProducerAccess ==
    ASSUME EInv, DInv, Access(P)
    PROVE  DInv'
  <1> USE DEF Goto, manager, thread, resizer, history, Thread
  <1>1. TypeOK /\ StreamKept /\ ProducerPart /\ ConsumerPart /\ P \in Thread /\ C \in Thread \ {P}
    BY DEF EInv, TInv, DInv, ProducerPart, ConsumerPart, P, C
  <1>2. /\ UNCHANGED <<buffer, rpc, new_buffer, old_buffer, history>>
        /\ \A b \in Buffers : /\ KeepsPointers(b) /\ KeepsArrays(b)
                              /\ heap'[b].max_cap = heap[b].max_cap
                              /\ heap'[b].is_valid = heap[b].is_valid
        /\ pc'[C] = pc[C] /\ res'[C] = res[C] /\ ret'[C] = ret[C]
    BY <1>1, AccessKeeps
  <1>3. StreamKept'
    BY <1>1, <1>2, StreamUndisturbed
  <1>4. pc[P] # "done"
    BY DEF Access, Size, LoadAccess, SetFlag, ClearFlag, CheckResizing, SizeEnter, SizeCheck,
       SizeRead, SizeExit
  <1>5. ConsumerPart'
    <2>1. sent' \in Nat /\ sent <= sent'
      BY <1>1, <1>2 DEF TypeOK
    <2>2. \A b \in Buffers : ~heap'[b].is_valid => pc'[P] = "done"
      BY <1>1, <1>2, <1>4 DEF ConsumerPart, ConsumerKnows
    <2> QED
      BY <1>1, <1>2, <1>4, <2>1, <2>2, ConsumerUndisturbed
  <1>6. /\ pc \in [Thread -> Label] /\ op \in [Thread -> {"none", "push", "allocate",
              "allocate_range", "pop", "recycle", "peek", "size"}]
        /\ n \in [Thread -> Ranges \cup {1}] /\ res \in [Thread -> 0 .. MaxCap]
        /\ ret \in [Thread -> {"admit", "drained"}] /\ ret[P] = "admit"
        /\ buffer \in Buffers
    BY <1>1 DEF TypeOK, ProducerPart, ProducerCall
  <1>7. ProducerCall' /\ pc'[P] \notin {"held", "filled"}
    <2> USE <1>1, <1>6 DEF ProducerPart, ProducerCall, Inside
    <2>1. CASE LoadAccess(P)
      BY <2>1 DEF LoadAccess
    <2>2. CASE SetFlag(P)
      BY <2>2 DEF SetFlag
    <2>3. CASE ClearFlag(P)
      BY <2>3 DEF ClearFlag
    <2>4. CASE CheckResizing(P)
      BY <2>4 DEF CheckResizing
    <2>5. CASE Size(P)
      BY <2>5 DEF Size, SizeEnter, SizeCheck, SizeRead, SizeExit
    <2> QED
      BY <2>1, <2>2, <2>3, <2>4, <2>5 DEF Access
  <1>8. Written'
    BY <1>7 DEF Written
  <1>9. ProducerKnows'
    <2>1. capacity(buffer)' = capacity(buffer)
      BY <1>2, <1>6 DEF capacity
    <2>2. CASE SizeRead(P)
      <3>1. /\ res'[P] = capacity(buffer) - SizeIn(buffer)
        BY <1>6, <2>2 DEF SizeRead
      <3>2. SizeIn(buffer) = sent - taken
        BY <1>1, <1>6, SizeIs DEF StreamKept
      <3>3. capacity(buffer) \in Nat /\ sent \in Nat /\ taken \in Nat
        BY <1>1, <1>6, Numbered
      <3> QED
        BY <1>2, <1>7, <2>1, <3>1, <3>2, <3>3 DEF ProducerKnows
    <2>3. CASE SizeExit(P)
      <3>1. pc[P] = "size_exit" /\ res' = res
        BY <1>1, <2>3 DEF SizeExit, ProducerPart, ProducerCall
      <3> QED
        BY <1>1, <1>2, <1>7, <2>1, <3>1 DEF ProducerKnows, ProducerPart
    <2>4. CASE ~SizeRead(P) /\ ~SizeExit(P)
      <3>1. pc'[P] \notin {"size_exit", "admit"}
        BY <1>6, <2>4 DEF Access, Size, LoadAccess, SetFlag, ClearFlag, CheckResizing, SizeEnter, SizeCheck
      <3> QED
        BY <1>7, <3>1 DEF ProducerKnows
    <2> QED
      BY <2>2, <2>3, <2>4
  <1> QED
    BY <1>3, <1>5, <1>7, <1>8, <1>9 DEF DInv, ConsumerPart

\* What the consumer learns from size() is how many items it can count on; once
\* the stream is closed, how many there are.
LEMMA ConsumerAccess ==
    ASSUME EInv, DInv, Access(C)
    PROVE  DInv'
  <1> USE DEF Goto, manager, thread, resizer, history, Thread
  <1>1. TypeOK /\ StreamKept /\ ProducerPart /\ ConsumerPart /\ C \in Thread /\ P \in Thread \ {C}
    BY DEF EInv, TInv, DInv, ProducerPart, ConsumerPart, P, C
  <1>2. /\ UNCHANGED <<buffer, rpc, new_buffer, old_buffer, sent, taken, got>>
        /\ \A b \in Buffers : /\ KeepsPointers(b) /\ KeepsArrays(b)
                              /\ heap'[b].max_cap = heap[b].max_cap
                              /\ heap'[b].is_valid = heap[b].is_valid
        /\ pc'[P] = pc[P] /\ op'[P] = op[P] /\ n'[P] = n[P] /\ res'[P] = res[P] /\ ret'[P] = ret[P]
    BY <1>1, AccessKeeps
  <1>3. StreamKept'
    BY <1>1, <1>2, StreamUndisturbed
  <1>4. /\ pc \in [Thread -> Label]
        /\ res \in [Thread -> 0 .. MaxCap] /\ res[C] \in Nat
        /\ ret \in [Thread -> {"admit", "drained"}] /\ ret[C] \in {"admit", "drained"}
        /\ buffer \in Buffers /\ sent \in Nat /\ taken \in Nat
    BY <1>1, InitCapAssumption DEF TypeOK
  <1>5. ProducerPart'
    BY <1>1, <1>2, <1>4, ProducerUndisturbed DEF KeepsPointers
  <1>6. ConsumerKnows'
    <2>1. /\ ret' = ret /\ \A b \in Buffers : ~heap'[b].is_valid => pc'[P] = "done"
      BY <1>1, <1>2 DEF ConsumerPart, ConsumerKnows, Access, Size, LoadAccess, SetFlag, ClearFlag,
         CheckResizing, SizeEnter, SizeCheck, SizeRead, SizeExit
    <2>2. CASE SizeRead(C)
      <3>1. res'[C] = SizeIn(buffer) /\ pc'[C] = "size_exit"
        BY <1>4, <2>2 DEF SizeRead, P, C
      <3>2. SizeIn(buffer) = sent - taken
        BY <1>1, <1>4, SizeIs DEF StreamKept
      <3> QED
        BY <1>1, <1>2, <1>4, <2>1, <3>1, <3>2 DEF ConsumerPart, ConsumerKnows
    <2>3. CASE SizeExit(C)
      <3>1. pc[C] = "size_exit" /\ ((pc'[C] = ret[C] /\ res' = res) \/ pc'[C] = "idle")
        BY <1>4, <2>3 DEF SizeExit
      <3> QED
        BY <1>1, <1>2, <1>4, <2>1, <3>1 DEF ConsumerPart, ConsumerKnows
    <2>4. CASE ~SizeRead(C) /\ ~SizeExit(C)
      <3>1. pc'[C] \notin {"size_exit", "admit", "drained", "held"}
        BY <1>4, <2>4 DEF Access, Size, LoadAccess, SetFlag, ClearFlag, CheckResizing, SizeEnter, SizeCheck
      <3> QED
        BY <1>1, <1>2, <2>1, <3>1 DEF ConsumerPart, ConsumerKnows
    <2> QED
      BY <2>2, <2>3, <2>4
  <1>7. InOrder'
    BY <1>1, <1>2 DEF ConsumerPart, InOrder
  <1> QED
    BY <1>3, <1>5, <1>6, <1>7 DEF DInv, ProducerPart

-----------------------------------------------------------------------------
(* The calls of the producer.                                              *)

\* A step of the producer that leaves the items alone; it may close the stream.
LEMMA ProducerElsewhere ==
    ASSUME EInv, DInv,
           \/ \E o \in ProducerOps, k \in Ranges \cup {1} : Call(P, o, k)
           \/ Spin \/ Deallocate \/ Invalidate
    PROVE  DInv'
  <1> USE DEF Goto, manager, thread, resizer, history, Thread
  <1>1. TypeOK /\ StreamKept /\ ProducerPart /\ ConsumerPart /\ P # C
    BY DEF EInv, TInv, DInv, ProducerPart, ConsumerPart, P, C
  <1>2. /\ pc \in [Thread -> Label] /\ op \in [Thread -> {"none", "push", "allocate",
              "allocate_range", "pop", "recycle", "peek", "size"}]
        /\ n \in [Thread -> Ranges \cup {1}] /\ res \in [Thread -> 0 .. MaxCap]
        /\ ret \in [Thread -> {"admit", "drained"}] /\ sent \in Nat
    BY <1>1 DEF TypeOK
  <1>3. UNCHANGED <<buffer, rpc, new_buffer, old_buffer, sent, taken, got>>
    BY DEF Call, Spin, Deallocate, Invalidate
  <1>4. pc'[C] = pc[C] /\ res'[C] = res[C] /\ ret'[C] = ret[C] /\ pc[P] # "done"
    <2>1. CASE \E o \in ProducerOps, k \in Ranges \cup {1} : Call(P, o, k)
      BY <1>1, <1>2, <2>1 DEF Call
    <2>2. CASE Spin \/ Deallocate \/ Invalidate
      BY <1>1, <1>2, <2>2 DEF Spin, Deallocate, Invalidate
    <2> QED
      BY <2>1, <2>2
  <1>5. \A b \in Buffers : /\ KeepsPointers(b) /\ KeepsArrays(b)
                           /\ heap'[b].max_cap = heap[b].max_cap
                           /\ heap'[b].is_valid = heap[b].is_valid \/ pc'[P] = "done"
    <2>1. CASE Invalidate /\ pc[P] = "invalidate"
      <3>1. pc'[P] = "done"
        BY <1>2, <2>1 DEF Invalidate
      <3> QED
        BY <1>1, <2>1, <3>1, CloseEffect DEF Others, KeepsPointers, KeepsArrays
    <2>2. CASE \/ \E o \in ProducerOps, k \in Ranges \cup {1} : Call(P, o, k)
               \/ Spin \/ Deallocate \/ (Invalidate /\ pc[P] # "invalidate")
      BY <2>2 DEF Call, Spin, Deallocate, Invalidate, KeepsPointers, KeepsArrays
    <2> QED
      BY <2>1, <2>2
  <1>6. StreamKept'
    BY <1>1, <1>3, <1>5, StreamUndisturbed
  <1>7. ConsumerPart'
    <2>1. \A b \in Buffers : ~heap'[b].is_valid => pc'[P] = "done"
      BY <1>1, <1>4, <1>5 DEF ConsumerPart, ConsumerKnows
    <2> QED
      BY <1>1, <1>2, <1>3, <1>4, <2>1, ConsumerUndisturbed
  <1>8. ProducerCall' /\ pc'[P] \notin {"held", "filled", "size_exit", "admit"}
    <2>1. CASE \E o \in ProducerOps, k \in Ranges \cup {1} : Call(P, o, k)
      <3>1. PICK o \in ProducerOps, k \in Ranges \cup {1} : Call(P, o, k)
        BY <2>1
      <3>2. o \in {"push", "allocate", "allocate_range"}
        BY OpsAssumption
      <3>3. /\ op'[P] = o /\ pc'[P] = "enter" /\ ret'[P] = "admit" /\ n'[P] = k
            /\ k \in IF o = "allocate_range" THEN Ranges ELSE {1}
        BY <1>2, <3>1, <3>2 DEF Call
      <3> QED
        BY <3>2, <3>3 DEF ProducerCall
    <2>2. CASE Spin \/ Deallocate \/ Invalidate
      BY <1>1, <1>2, <2>2 DEF Spin, Deallocate, Invalidate, ProducerPart, ProducerCall, Inside
    <2> QED
      BY <2>1, <2>2
  <1>9. ProducerKnows' /\ Written'
    BY <1>8 DEF ProducerKnows, Written
  <1> QED
    BY <1>6, <1>7, <1>8, <1>9 DEF DInv, ConsumerPart

\* push and send publish items that have been written, in slots that are free.
LEMMA ProducerPublishes ==
    ASSUME EInv, DInv, LocalPush \/ Send
    PROVE  DInv'
  <1> USE DEF Goto, manager, thread, resizer, history, Thread
  <1>1. TypeOK /\ StreamKept /\ ProducerPart /\ ConsumerPart /\ P # C /\ Holds(buffer)
    BY DEF EInv, TInv, DInv, ProducerPart, ConsumerPart, P, C, StreamKept
  <1>2. /\ pc \in [Thread -> Label] /\ op \in [Thread -> {"none", "push", "allocate",
              "allocate_range", "pop", "recycle", "peek", "size"}]
        /\ n[P] \in Ranges \cup {1} /\ res[P] \in 0 .. MaxCap
        /\ sent \in Nat /\ taken \in Nat /\ buffer \in Buffers
    BY <1>1 DEF TypeOK
  <1>3. /\ UNCHANGED <<buffer, rpc, new_buffer, old_buffer, taken, got, op, n, ret, res>>
        /\ pc[P] \in {"admit", "filled"} /\ pc' = [pc EXCEPT ![P] = "exit"]
    BY DEF LocalPush, Send
  <1>4. n[P] \in Nat \ {0} /\ res[P] \in Nat /\ capacity(buffer) \in Nat
    BY <1>1, <1>2, RangesAreNumbers, Numbered
  <1>5. PICK b \in Buffers : b = buffer
    BY <1>2
  <1>6. /\ Holds(b)' /\ Others(b) /\ KeepsFrame(b)
        /\ sent' = sent + n[P]
    <2>1. CASE LocalPush
      <3>1. n[P] = 1 /\ sent' = sent + 1 /\ sent + 1 <= taken + capacity(b)
        <4>1. pc[P] = "admit" /\ op[P] = "push" /\ res[P] >= n[P] /\ sent' = sent + 1
          BY <2>1 DEF LocalPush
        <4>2. n[P] = 1 /\ sent + res[P] <= taken + capacity(buffer)
          BY <1>1, <4>1 DEF ProducerPart, ProducerCall, ProducerKnows, Inside
        <4> QED
          BY <1>2, <1>4, <1>5, <4>1, <4>2
      <3>2. Publishes(b, 1, Items(b, 1))
        BY <1>1, <1>5, <2>1, PushEffect
      <3>3. \A s \in Slot : s < capacity(b) =>
                Items(b, 1)[s] = IF Behind(b, s) < 1 THEN sent + 1 + Behind(b, s) ELSE heap[b].store[s]
        BY DEF Items
      <3>4. Holds(b)'
        <4>1. Holds(b) /\ taken' = taken
          BY <1>1, <1>3, <1>5
        <4> DEFINE st == Items(b, 1)
        <4> HIDE DEF st
        <4>2. /\ Publishes(b, 1, st)
              /\ \A s \in Slot : s < capacity(b) =>
                st[s] = IF Behind(b, s) < 1 THEN sent + 1 + Behind(b, s) ELSE heap[b].store[s]
          BY <3>2, <3>3 DEF st
        <4> QED
          BY <1>1, <3>1, <4>1, <4>2, PublishHolds
      <3> QED
        BY <3>1, <3>2, <3>4 DEF Publishes
    <2>2. CASE Send
      <3>1. pc[P] = "filled" /\ sent' = sent + n[P]
        BY <2>2 DEF Send
      <3>2. sent + n[P] <= taken + capacity(b) /\ op[P] \in {"allocate", "allocate_range"}
        BY <1>1, <1>5, <3>1 DEF ProducerPart, ProducerCall, ProducerKnows
      <3>3. n[P] = 1 \/ op[P] = "allocate_range"
        BY <1>1, <3>1, <3>2 DEF ProducerPart, ProducerCall, Inside
      <3>4. Publishes(b, n[P], heap[b].store)
        BY <1>1, <1>5, <2>2, SendEffect
      <3>5. \A s \in Slot : s < capacity(b) =>
                heap[b].store[s] = IF Behind(b, s) < n[P] THEN sent + 1 + Behind(b, s) ELSE heap[b].store[s]
        BY <1>1, <1>5, <3>1 DEF ProducerPart, Written
      <3>6. op[P] = "allocate_range" =>
                \A s \in Slot : s < capacity(b) /\ Behind(b, s) < n[P] => heap[b].signal[s] = 0
        BY <1>1, <1>5, <3>1 DEF ProducerPart, Written
      <3>7. Holds(b)'
        <4>1. Holds(b) /\ taken' = taken
          BY <1>1, <1>3, <1>5
        <4> DEFINE st == heap[b].store
                   k == n[P]
        <4>2. /\ Publishes(b, k, st) /\ sent' = sent + k /\ sent + k <= taken + capacity(b)
              /\ k \in Nat \ {0}
              /\ \A s \in Slot : s < capacity(b) =>
                st[s] = IF Behind(b, s) < k THEN sent + 1 + Behind(b, s) ELSE heap[b].store[s]
              /\ \/ k = 1
                 \/ \A s \in Slot : s < capacity(b) /\ Behind(b, s) < k => heap[b].signal[s] = 0
          BY <1>4, <3>1, <3>2, <3>3, <3>4, <3>5, <3>6
        <4> HIDE DEF st, k
        <4> QED
          BY <1>1, <4>1, <4>2, PublishHolds
      <3> QED
        BY <3>1, <3>4, <3>7 DEF Publishes
    <2> QED
      BY <2>1, <2>2
  <1>7. StreamKept'
    <2>1. pc[P] \in {"admit", "held", "filled"}
      BY <1>3
    <2> QED
      BY <1>1, <1>3, <1>5, <1>6, <2>1, StreamWritten
  <1>8. ConsumerPart'
    <2>1. sent' \in Nat /\ sent <= sent'
      BY <1>2, <1>4, <1>6
    <2>2. \A c \in Buffers : heap'[c].is_valid = heap[c].is_valid
      BY <1>6 DEF Others, KeepsFrame
    <2>3. \A c \in Buffers : ~heap'[c].is_valid => pc'[P] = "done"
      BY <1>1, <1>3, <2>2 DEF ConsumerPart, ConsumerKnows
    <2>4. pc'[C] = pc[C]
      BY <1>1, <1>2, <1>3
    <2> QED
      BY <1>1, <1>3, <2>1, <2>3, <2>4, ConsumerUndisturbed
  <1>9. ProducerCall' /\ ProducerKnows' /\ Written'
    <2>1. pc'[P] = "exit" /\ op'[P] = op[P] /\ ret'[P] = ret[P]
      BY <1>2, <1>3
    <2> QED
      BY <1>1, <2>1 DEF ProducerPart, ProducerCall, ProducerKnows, Written, Inside
  <1> QED
    BY <1>7, <1>8, <1>9 DEF DInv, ConsumerPart

\* allocate and the stores through its references touch only free slots.
LEMMA ProducerWrites ==
    ASSUME EInv, DInv, LocalAllocate \/ Fill
    PROVE  DInv'
  <1> USE DEF Goto, manager, thread, resizer, history, Thread
  <1>1. TypeOK /\ StreamKept /\ ProducerPart /\ ConsumerPart /\ P # C /\ Holds(buffer)
    BY DEF EInv, TInv, DInv, ProducerPart, ConsumerPart, P, C, StreamKept
  <1>2. /\ pc \in [Thread -> Label] /\ op \in [Thread -> {"none", "push", "allocate",
              "allocate_range", "pop", "recycle", "peek", "size"}]
        /\ n[P] \in Ranges \cup {1} /\ res \in [Thread -> 0 .. MaxCap] /\ res[P] \in 0 .. MaxCap
        /\ sent \in Nat /\ taken \in Nat /\ buffer \in Buffers
    BY <1>1 DEF TypeOK
  <1>3. /\ UNCHANGED <<buffer, rpc, new_buffer, old_buffer, sent, taken, got, op, n, ret>>
        /\ pc[P] \in {"admit", "held"} /\ res'[C] = res[C]
        /\ LocalAllocate => pc[P] = "admit" /\ pc'[P] = "held"
        /\ Fill => pc[P] = "held" /\ pc'[P] = "filled" /\ bp[P] = buffer
        /\ pc'[C] = pc[C]
    BY <1>1, <1>2 DEF LocalAllocate, Fill, EInv, HeldReferencesAreCurrent
  <1>4. n[P] \in Nat \ {0} /\ res[P] \in Nat /\ capacity(buffer) \in Nat
    BY <1>1, <1>2, RangesAreNumbers, Numbered
  <1>5. /\ sent + n[P] <= taken + capacity(buffer)
        /\ op[P] \in {"allocate", "allocate_range"}
    <2>1. CASE LocalAllocate
      <3>1. pc[P] = "admit" /\ res[P] >= n[P] /\ op[P] \in {"allocate", "allocate_range"}
        BY <2>1 DEF LocalAllocate
      <3> QED
        BY <1>1, <1>2, <1>4, <3>1 DEF ProducerPart, ProducerKnows
    <2>2. CASE Fill
      BY <1>1, <1>3, <2>2 DEF ProducerPart, ProducerCall, ProducerKnows
    <2> QED
      BY <2>1, <2>2
  <1>6. PICK b \in Buffers : b = buffer
    BY <1>2
  <1>7. /\ Others(b) /\ KeepsFrame(b) /\ KeepsPointers(b)
        /\ heap'[b].max_cap = heap[b].max_cap
        /\ LocalAllocate => /\ heap'[b].store = heap[b].store
                            /\ heap'[b].signal = IF op[P] = "allocate" THEN heap[b].signal
                                                 ELSE NoSignals(b, n[P])
        /\ Fill => heap'[b].store = Items(b, n[P]) /\ heap'[b].signal = heap[b].signal
    BY <1>1, <1>3, <1>6, AllocateEffect, FillEffect DEF KeepsFrame
  <1>8. ASSUME NEW s \in Slot
        PROVE  /\ NoSignals(b, n[P])[s] =
                    IF s < capacity(b) /\ Behind(b, s) < n[P] THEN 0 ELSE heap[b].signal[s]
               /\ Items(b, n[P])[s] =
                    IF s < capacity(b) /\ Behind(b, s) < n[P] THEN sent + 1 + Behind(b, s)
                                                              ELSE heap[b].store[s]
    BY DEF NoSignals, Items
  <1>9. Holds(b)'
    <2>1. ASSUME NEW s \in Slot, s < capacity(b), Ahead(b, s) < sent - taken
          PROVE  /\ heap'[b].store[s] = heap[b].store[s]
                 /\ heap'[b].signal[s] \in {0, heap[b].signal[s]}
      <3>1. Behind(b, s) < n[P] => Ahead(b, s) = sent - taken + Behind(b, s)
        BY <1>1, <1>4, <1>5, <1>6, <2>1, RoomIsFree
      <3>2. Behind(b, s) \in Nat
        BY <1>1, <2>1, BehindIs
      <3>3. ~ (Behind(b, s) < n[P])
        BY <1>2, <2>1, <3>1, <3>2
      <3> QED
        BY <1>7, <1>8, <3>3
    <2> QED
      BY <1>1, <1>3, <1>6, <1>7, <2>1, WriteHolds
  <1>10. StreamKept'
    <2>1. pc[P] \in {"admit", "held", "filled"}
      BY <1>3
    <2> QED
      BY <1>1, <1>3, <1>6, <1>7, <1>9, <2>1, StreamWritten
  <1>11. ConsumerPart'
    <2>1. \A c \in Buffers : heap'[c].is_valid = heap[c].is_valid
      BY <1>7 DEF Others, KeepsFrame
    <2>2. \A c \in Buffers : ~heap'[c].is_valid => pc'[P] = "done"
      BY <1>1, <1>3, <2>1 DEF ConsumerPart, ConsumerKnows
    <2> QED
      BY <1>1, <1>2, <1>3, <2>2, ConsumerUndisturbed
  <1>12. ProducerCall' /\ ProducerKnows'
    <2>1. capacity(buffer)' = capacity(buffer)
      BY <1>3, <1>6, <1>7 DEF capacity
    <2>2. pc'[P] \in {"held", "filled"} /\ pc[P] \in Inside
      BY <1>3 DEF Inside
    <2>3. ProducerCall'
      BY <1>1, <1>3, <1>5, <2>2 DEF ProducerPart, ProducerCall
    <2>4. ProducerKnows'
      BY <1>3, <1>5, <2>1, <2>2 DEF ProducerKnows
    <2> QED
      BY <2>3, <2>4
  <1>13. Written'
    <2>1. \A s \in Slot : Behind(buffer, s)' = Behind(b, s) /\ capacity(buffer)' = capacity(b)
      BY <1>3, <1>6, <1>7 DEF Behind, KeepsPointers, capacity
    <2> SUFFICES ASSUME NEW s \in Slot, s < capacity(b), Behind(b, s) < n[P]
                 PROVE  /\ pc'[P] = "filled" => heap'[b].store[s] = sent + 1 + Behind(b, s)
                        /\ pc'[P] \in {"held", "filled"} /\ op[P] = "allocate_range" =>
                              heap'[b].signal[s] = 0
      BY <1>3, <1>6, <2>1 DEF Written
    <2>2. CASE LocalAllocate
      <3>1. pc'[P] = "held"
        BY <1>3, <2>2
      <3>2. op[P] = "allocate_range" => heap'[b].signal[s] = 0
        BY <1>7, <1>8, <2>2
      <3> QED
        BY <3>1, <3>2
    <2>3. CASE Fill
      <3>1. heap'[b].store[s] = sent + 1 + Behind(b, s)
        BY <1>7, <1>8, <2>3
      <3>2. op[P] = "allocate_range" => heap[b].signal[s] = 0
        BY <1>1, <1>3, <1>6, <2>3 DEF ProducerPart, Written
      <3> QED
        BY <1>7, <2>3, <3>1, <3>2
    <2> QED
      BY <2>2, <2>3
  <1> QED
    BY <1>10, <1>11, <1>12, <1>13 DEF DInv, ConsumerPart

-----------------------------------------------------------------------------
(* The calls of the consumer.                                              *)

\* A step of the consumer that leaves the buffers alone; it may look at the head.
LEMMA ConsumerElsewhere ==
    ASSUME EInv, DInv,
           \/ \E o \in ConsumerOps : Call(C, o, 1)
           \/ Empty \/ Drained \/ LocalPeek \/ LookAt \/ Unpeek \/ RecyclePeeked \/ IsInvalid
    PROVE  DInv'
  <1> USE DEF Goto, manager, thread, resizer, history, Thread
  <1>1. TypeOK /\ StreamKept /\ ProducerPart /\ ConsumerPart /\ P # C
    BY DEF EInv, TInv, DInv, ProducerPart, ConsumerPart, P, C
  <1>2. /\ pc \in [Thread -> Label] /\ op \in [Thread -> {"none", "push", "allocate",
              "allocate_range", "pop", "recycle", "peek", "size"}]
        /\ n \in [Thread -> Ranges \cup {1}] /\ res \in [Thread -> 0 .. MaxCap]
        /\ ret \in [Thread -> {"admit", "drained"}] /\ sent \in Nat /\ taken \in Nat
        /\ res[C] \in Nat /\ buffer \in Buffers
    BY <1>1, InitCapAssumption DEF TypeOK
  <1>3. UNCHANGED <<heap, buffer, rpc, new_buffer, old_buffer, sent, taken>>
    BY DEF Call, Empty, Drained, LocalPeek, LookAt, Unpeek, RecyclePeeked, IsInvalid
  <1>4. pc'[P] = pc[P] /\ op'[P] = op[P] /\ n'[P] = n[P] /\ res'[P] = res[P] /\ ret'[P] = ret[P]
    <2>1. CASE \E o \in ConsumerOps : Call(C, o, 1)
      BY <1>1, <1>2, <2>1 DEF Call
    <2>2. CASE Empty \/ Drained \/ LocalPeek \/ LookAt \/ Unpeek \/ RecyclePeeked \/ IsInvalid
      BY <1>1, <1>2, <2>2 DEF Empty, Drained, LocalPeek, LookAt, Unpeek, RecyclePeeked, IsInvalid
    <2> QED
      BY <2>1, <2>2
  <1>5. StreamKept' /\ ProducerPart'
    BY <1>1, <1>2, <1>3, <1>4, StreamUndisturbed, ProducerUndisturbed DEF KeepsPointers, KeepsArrays
  <1>6. ConsumerKnows'
    <2> USE <1>1, <1>2, <1>3, <1>4 DEF ConsumerPart, ConsumerKnows
    <2>1. CASE \E o \in ConsumerOps : Call(C, o, 1)
      <3>1. pc'[C] \in {"enter", "size"} /\ ret'[C] = "admit"
        BY <2>1 DEF Call
      <3> QED
        BY <3>1
    <2>2. CASE Empty
      <3>1. \/ pc'[C] \in {"enter", "backoff"} /\ ret' = ret
            \/ ~heap[buffer].is_valid /\ pc'[C] = "size"
        BY <2>2 DEF Empty
      <3> QED
        BY <3>1
    <2>3. CASE Drained
      <3>1. pc'[C] \in {"enter", "backoff", "exit", "failed"} /\ ret'[C] = "admit"
        BY <2>3 DEF Drained
      <3> QED
        BY <3>1
    <2>4. CASE LocalPeek
      <3>1. pc[C] = "admit" /\ res[C] > 0 /\ pc'[C] = "held" /\ ret' = ret
        BY <2>4 DEF LocalPeek
      <3> QED
        BY <3>1
    <2>5. CASE LookAt
      BY <2>5 DEF LookAt
    <2>6. CASE Unpeek \/ RecyclePeeked \/ IsInvalid
      <3>1. pc'[C] \in {"exit", "enter", "is_invalid", "idle"} /\ ret' = ret
        BY <2>6 DEF Unpeek, RecyclePeeked, IsInvalid
      <3> QED
        BY <3>1
    <2> QED
      BY <2>1, <2>2, <2>3, <2>4, <2>5, <2>6
  <1>7. InOrder'
    <2>1. CASE LookAt
      <3>1. pc[C] = "held" /\ got' = Head0(buffer)
        BY <2>1 DEF LookAt, EInv, HeldReferencesAreCurrent
      <3>2. taken < sent
        BY <1>1, <3>1 DEF ConsumerPart, ConsumerKnows
      <3> QED
        BY <1>1, <1>2, <3>1, <3>2, HeadIs DEF InOrder, StreamKept
    <2>2. CASE ~LookAt
      <3>1. got' = got
        BY <2>2 DEF Call, Empty, Drained, LocalPeek, Unpeek, RecyclePeeked, IsInvalid
      <3> QED
        BY <1>1, <3>1 DEF ConsumerPart, InOrder
    <2> QED
      BY <2>1, <2>2
  <1> QED
    BY <1>5, <1>6, <1>7 DEF DInv, ProducerPart

\* pop and recycle remove the item at the head, which is the next in order.
LEMMA ConsumerTakes ==
    ASSUME EInv, DInv, LocalPop
    PROVE  DInv'
  <1> USE DEF Goto, manager, thread, resizer, history, Thread
  <1>1. TypeOK /\ StreamKept /\ ProducerPart /\ ConsumerPart /\ P # C /\ Holds(buffer)
    BY DEF EInv, TInv, DInv, ProducerPart, ConsumerPart, P, C, StreamKept
  <1>2. /\ pc \in [Thread -> Label] /\ sent \in Nat /\ taken \in Nat /\ res[C] \in Nat
        /\ buffer \in Buffers
    BY <1>1, InitCapAssumption DEF TypeOK
  <1>3. /\ UNCHANGED <<buffer, rpc, new_buffer, old_buffer, sent, op, n, ret, res>>
        /\ taken' = taken + 1 /\ pc[C] = "admit" /\ res[C] > 0
        /\ pc' = [pc EXCEPT ![C] = "exit"]
        /\ got' = got \/ got' = Head0(buffer)
    BY DEF LocalPop
  <1>4. taken < sent
    BY <1>1, <1>2, <1>3 DEF ConsumerPart, ConsumerKnows
  <1>5. PICK b \in Buffers : b = buffer
    BY <1>2
  <1>6. Holds(b)'
    BY <1>1, <1>4, <1>5, TakeHolds
  <1>7. /\ Others(b) /\ KeepsFrame(b) /\ KeepsArrays(b)
        /\ heap'[b].write_pt = heap[b].write_pt
    BY <1>1, <1>5, PopEffect
  <1>8. StreamKept'
    <2>1. pc[C] \in {"admit", "held", "filled"}
      BY <1>3
    <2> QED
      BY <1>1, <1>3, <1>5, <1>6, <1>7, <2>1, StreamWritten
  <1>9. ProducerPart'
    <2>1. pc'[P] = pc[P]
      BY <1>1, <1>2, <1>3
    <2>2. taken' \in Nat /\ taken <= taken'
      BY <1>2, <1>3
    <2> QED
      BY <1>1, <1>3, <1>5, <1>7, <2>1, <2>2, ProducerUndisturbed DEF KeepsFrame
  <1>10. ConsumerKnows'
    <2>1. pc'[C] = "exit" /\ pc'[P] = pc[P]
      BY <1>1, <1>2, <1>3
    <2>2. \A c \in Buffers : heap'[c].is_valid = heap[c].is_valid
      BY <1>7 DEF Others, KeepsFrame
    <2> QED
      BY <1>1, <1>3, <2>1, <2>2 DEF ConsumerPart, ConsumerKnows
  <1>11. InOrder'
    BY <1>1, <1>2, <1>3, <1>4, HeadIs DEF InOrder, ConsumerPart
  <1> QED
    BY <1>8, <1>9, <1>10, <1>11 DEF DInv, ProducerPart

-----------------------------------------------------------------------------
(* The resizer.                                                            *)

\* The threads do not notice what the resizer does to the buffers.
LEMMA ThreadsUndisturbed ==
    ASSUME TypeOK, ProducerPart, ConsumerPart,
           UNCHANGED <<pc, op, n, res, ret, sent, taken, got>>,
           \/ pc[P] \notin Inside
           \/ buffer' = buffer /\ heap'[buffer] = heap[buffer],
           \A b \in Buffers : ~heap'[b].is_valid => pc[P] = "done"
    PROVE  ProducerPart' /\ ConsumerPart'
  <1>1. sent \in Nat /\ taken \in Nat
    BY DEF TypeOK
  <1>2. ProducerPart'
    BY <1>1, ProducerUndisturbed DEF KeepsArrays
  <1>3. ConsumerPart'
    BY <1>1, ConsumerUndisturbed
  <1> QED
    BY <1>2, <1>3

\* The steps that leave the heap alone: the switch is to a buffer that holds the
\* stream, while nobody is inside.
LEMMA ResizerSwitches ==
    ASSUME EInv, DInv,
           \/ SetResizing \/ AllClear \/ BufferCondition \/ Back
           \/ SetBuffer \/ FinishResize \/ ExitAlloc
    PROVE  DInv'
  <1> USE DEF manager, thread, resizer, history, Step
  <1>1. TypeOK /\ StreamKept /\ ProducerPart /\ ConsumerPart
    BY DEF EInv, TInv, DInv, ProducerPart, ConsumerPart
  <1>2. UNCHANGED <<heap, pc, op, n, res, ret, sent, taken, got, new_buffer, old_buffer>>
    BY DEF SetResizing, AllClear, BufferCondition, Back, SetBuffer, FinishResize, ExitAlloc
  <1>3. \A b \in Buffers : ~heap'[b].is_valid => pc[P] = "done"
    BY <1>1, <1>2 DEF ConsumerPart, ConsumerKnows
  <1>4. StreamKept' /\ (pc[P] \notin Inside \/ buffer' = buffer)
    <2>1. PICK b \in Buffers : b = buffer
      BY <1>1 DEF TypeOK
    <2>2. PICK c \in Buffers : c = new_buffer
      BY <1>1 DEF TypeOK
    <2>3. Holds(b)' /\ (rpc = "set_buffer" => Holds(c)')
      BY <1>1, <1>2, <2>1, <2>2, SameHolds DEF StreamKept, KeepsPointers, KeepsArrays
    <2>4. buffercondition' <=> buffercondition
      BY <1>2 DEF buffercondition
    <2>5. CASE SetResizing \/ AllClear \/ BufferCondition \/ Back \/ FinishResize \/ ExitAlloc
      <3>1. buffer' = buffer
        BY <2>5 DEF SetResizing, AllClear, BufferCondition, Back, FinishResize, ExitAlloc
      <3>2. /\ rpc' = "set_buffer" => rpc = "set_buffer"
            /\ rpc' = "copy" => buffercondition
            /\ rpc' \in Waiting => rpc \in Waiting
        BY <1>1, <2>5 DEF SetResizing, AllClear, BufferCondition, Back, FinishResize, ExitAlloc,
           StreamKept, Waiting
      <3> QED
        BY <1>1, <1>2, <2>1, <2>2, <2>3, <2>4, <3>1, <3>2 DEF StreamKept
    <2>6. CASE SetBuffer
      <3>1. /\ rpc' \in {"set_access", "delete"}
            /\ \/ rpc = "set_buffer" /\ buffer' = new_buffer
               \/ rpc = "set_access" /\ buffer' = buffer
        BY <2>6 DEF SetBuffer
      <3>2. pc[P] \notin Inside
        BY <1>1, <3>1 DEF EInv, StaysOut, PastProducer, Flagged, ProducerPart, ProducerCall
      <3> QED
        BY <2>1, <2>2, <2>3, <3>1, <3>2 DEF StreamKept, Waiting
    <2> QED
      BY <2>5, <2>6
  <1>5. ProducerPart' /\ ConsumerPart'
    BY <1>1, <1>2, <1>3, <1>4, ThreadsUndisturbed
  <1> QED
    BY <1>4, <1>5 DEF DInv, ProducerPart, ConsumerPart

\* A buffer as it is made is valid, and has no signals.
LEMMA NewBufferIs ==
    ASSUME NEW cap, NEW state
    PROVE  /\ NewBuffer(cap, state).is_valid = TRUE
           /\ \A s \in Slot : NewBuffer(cap, state).signal[s] = 0
  BY DEF NewBuffer

\* The steps that write a buffer: the copy holds what the old buffer does.
LEMMA ResizerCopies ==
    ASSUME EInv, DInv, Resize \/ Abandon \/ CopyFrom \/ DeleteOld
    PROVE  DInv'
  <1> USE DEF manager, thread, resizer, history, Step
  <1>1. TInv /\ TypeOK /\ StreamKept /\ ProducerPart /\ ConsumerPart
    BY DEF EInv, TInv, DInv, ProducerPart, ConsumerPart
  <1>2. /\ UNCHANGED <<pc, op, n, res, ret, buffer, sent, taken, got>>
        /\ heap'[buffer] = heap[buffer]
    BY <1>1, ResizerWrites
  <1>3. /\ heap \in [Buffers -> BufferType] /\ buffer \in Buffers /\ new_buffer \in Buffers
        /\ old_buffer \in Buffers
    BY <1>1 DEF TypeOK
  <1>4. PICK b \in Buffers : b = buffer
    BY <1>3
  <1>5. Holds(b)'
    BY <1>1, <1>2, <1>4, SameHolds DEF StreamKept, KeepsPointers, KeepsArrays
  <1>6. \A c \in Buffers : ~heap[c].is_valid => pc[P] = "done"
    BY <1>1 DEF ConsumerPart, ConsumerKnows
  <1>7. CASE Resize
    <2> DEFINE r == NewBuffer(2 * capacity(buffer), "live")
    <2>1. /\ heap' = [heap EXCEPT ![buffer + 1] = r] /\ new_buffer' = buffer + 1 /\ rpc' = "test"
          /\ buffer < MaxResize
      BY <1>7 DEF Resize
    <2>2. r.is_valid = TRUE /\ \A s \in Slot : r.signal[s] = 0
      BY NewBufferIs
    <2> HIDE DEF r
    <2>3. buffer + 1 \in Buffers
      BY <1>3, <2>1, BoundsAssumption DEF Buffers
    <2>4. heap'[buffer + 1] = r /\ \A c \in Buffers : heap'[c] = heap[c] \/ heap'[c] = r
      BY <1>3, <2>1, <2>3
    <2>5. StreamKept'
      BY <1>2, <1>4, <1>5, <2>1, <2>2, <2>4 DEF StreamKept
    <2>6. ProducerPart' /\ ConsumerPart'
      BY <1>1, <1>2, <1>6, <2>2, <2>4, ThreadsUndisturbed
    <2> QED
      BY <2>5, <2>6 DEF DInv, ProducerPart, ConsumerPart
  <1>8. CASE Abandon
    <2> DEFINE r == NewBuffer(InitCap, "none")
    <2>1. heap' = [heap EXCEPT ![new_buffer] = r] /\ rpc' = "idle"
      BY <1>8 DEF Abandon
    <2>2. r.is_valid = TRUE
      BY NewBufferIs
    <2> HIDE DEF r
    <2>3. \A c \in Buffers : heap'[c] = heap[c] \/ heap'[c] = r
      BY <1>3, <2>1
    <2>4. StreamKept'
      BY <1>2, <1>4, <1>5, <2>1 DEF StreamKept, Waiting
    <2>5. ProducerPart' /\ ConsumerPart'
      BY <1>1, <1>2, <1>6, <2>2, <2>3, ThreadsUndisturbed
    <2> QED
      BY <2>4, <2>5 DEF DInv, ProducerPart, ConsumerPart
  <1>9. CASE CopyFrom
    <2>1. /\ heap' = [heap EXCEPT ![new_buffer] = Copied] /\ rpc = "copy" /\ rpc' = "set_buffer"
          /\ new_buffer' = new_buffer
      BY <1>9 DEF CopyFrom
    <2>2. capacity(new_buffer) = 2 * capacity(old_buffer) /\ buffer = old_buffer
      BY <1>1, <2>1 DEF TInv, Places, BeforeSwitch, Waiting
    <2>3. Copied.is_valid = heap[old_buffer].is_valid
      BY <1>1, <1>3, <2>2, CopiedIs
    <2>4. \A c \in Buffers : heap'[c] = heap[c] \/ heap'[c] = Copied
      BY <1>3, <2>1
    <2>5. PICK c \in Buffers : c = new_buffer
      BY <1>3
    <2>6. heap'[c] = Copied
      BY <1>3, <2>1, <2>5
    <2>7. buffercondition /\ \A s \in Slot : heap[new_buffer].signal[s] = 0
      BY <1>1, <2>1 DEF StreamKept, Waiting
    <2>8. Holds(c)'
      BY <1>1, <1>2, <2>2, <2>5, <2>6, <2>7, CopyHolds DEF StreamKept
    <2>9. StreamKept'
      BY <1>2, <1>4, <1>5, <2>1, <2>5, <2>8 DEF StreamKept, Waiting
    <2>10. ProducerPart' /\ ConsumerPart'
      BY <1>1, <1>2, <1>3, <1>6, <2>3, <2>4, ThreadsUndisturbed
    <2> QED
      BY <2>9, <2>10 DEF DInv, ProducerPart, ConsumerPart
  <1>10. CASE DeleteOld
    <2> DEFINE r == NewBuffer(InitCap, "deleted")
    <2>1. heap' = [heap EXCEPT ![old_buffer] = r] /\ rpc' = "finish"
      BY <1>10 DEF DeleteOld
    <2>2. r.is_valid = TRUE
      BY NewBufferIs
    <2> HIDE DEF r
    <2>3. \A c \in Buffers : heap'[c] = heap[c] \/ heap'[c] = r
      BY <1>3, <2>1
    <2>4. StreamKept'
      BY <1>2, <1>4, <1>5, <2>1 DEF StreamKept, Waiting
    <2>5. ProducerPart' /\ ConsumerPart'
      BY <1>1, <1>2, <1>6, <2>2, <2>3, ThreadsUndisturbed
    <2> QED
      BY <2>4, <2>5 DEF DInv, ProducerPart, ConsumerPart
  <1> QED
    BY <1>7, <1>8, <1>9, <1>10

-----------------------------------------------------------------------------
(* The stream stays in order.                                              *)

\* Every step of the three threads keeps the stream.
LEMMA StreamPreserved ==
    ASSUME IInv, [Next /\ (Resize => Announced)]_vars
    PROVE  IInv'
  <1>1. EInv /\ DInv /\ EInv'
    BY ExclusionPreserved DEF IInv
  <1>2. CASE ProducerNext
    BY <1>1, <1>2, ProducerAccess, ProducerElsewhere, ProducerPublishes, ProducerWrites
       DEF ProducerNext, IInv
  <1>3. CASE ConsumerNext
    BY <1>1, <1>3, ConsumerAccess, ConsumerElsewhere, ConsumerTakes DEF ConsumerNext, IInv
  <1>4. CASE ResizerNext
    BY <1>1, <1>4, ResizerSwitches, ResizerCopies DEF ResizerNext, IInv
  <1>5. CASE UNCHANGED vars
    <2>1. UNCHANGED <<heap, pc, op, n, res, ret, buffer, rpc, new_buffer, old_buffer, sent, taken, got>>
      BY <1>5 DEF vars, manager, thread, resizer, history
    <2>2. TypeOK /\ StreamKept /\ ProducerPart /\ ConsumerPart
      BY <1>1 DEF EInv, TInv, DInv, ProducerPart, ConsumerPart
    <2>3. StreamKept'
      BY <2>1, <2>2, StreamUndisturbed DEF KeepsPointers, KeepsArrays
    <2>4. ProducerPart' /\ ConsumerPart'
      BY <2>1, <2>2, ThreadsUndisturbed DEF ConsumerPart, ConsumerKnows
    <2> QED
      BY <1>1, <2>3, <2>4 DEF IInv, DInv, ProducerPart, ConsumerPart
  <1> QED
    BY <1>2, <1>3, <1>4, <1>5 DEF Next

\* The empty stream of the first buffer is kept.
LEMMA InitStream ==
    ASSUME Init
    PROVE  IInv
  <1>1. EInv
    BY InitExcludes
  <1>2. /\ buffer = 0 /\ rpc = "idle" /\ sent = 0 /\ taken = 0 /\ got = [pos |-> 0, item |-> 0, sig |-> 0]
        /\ 0 \in Buffers /\ pc[P] = "idle" /\ pc[C] = "idle" /\ op[P] = "none"
        /\ ret[P] = "admit" /\ ret[C] = "admit"
    BY BoundsAssumption DEF Init, Buffers, Thread
  <1>3. /\ heap[0].write_pt = [a |-> 0, wrap |-> 0] /\ heap[0].read_pt = [a |-> 0, wrap |-> 0]
        /\ capacity(0) \in Nat
    BY <1>1, <1>2, Numbered DEF Init, NewBuffer, NewPointer, EInv, TInv
  <1>4. \A b \in Buffers : heap[b].is_valid = TRUE
    BY NewBufferIs DEF Init
  <1>5. Positions(0)
    BY <1>2, <1>3 DEF Positions, Apart
  <1>6. Stored(0)
    <2> SUFFICES ASSUME NEW s \in Slot, s < capacity(0), Ahead(0, s) < sent - taken
                 PROVE  FALSE
      BY DEF Stored
    <2>1. s \in Nat
      BY InitCapAssumption DEF Slot
    <2> QED
      BY <1>2, <1>3, <2>1 DEF Ahead, Offset
  <1>7. StreamKept
    BY <1>2, <1>5, <1>6 DEF StreamKept, Holds, Waiting
  <1>8. ProducerCall /\ ProducerKnows /\ Written
    BY <1>2 DEF ProducerCall, ProducerKnows, Written, Inside
  <1>9. ConsumerKnows /\ InOrder
    BY <1>2, <1>4 DEF ConsumerKnows, InOrder
  <1> QED
    BY <1>1, <1>7, <1>8, <1>9 DEF IInv, DInv

\* The invariant of the stream holds always, up to the first resize and after it.
LEMMA Kept == MaxResize <= 1 => (Spec => []IInv)
  <1> SUFFICES ASSUME MaxResize <= 1 PROVE Spec => []IInv
    OBVIOUS
  <1>1. Init => IInv
    BY InitStream
  <1>2. IInv /\ [Next]_vars => IInv'
    BY FirstResizeAnnounced, StreamPreserved DEF IInv
  <1> QED
    BY <1>1, <1>2, PTL DEF Spec

\* Nothing is lost, repeated or reordered by the first resize of a stream (pop,
\* peek, and copyFrom in bufferdata.tcc).
THEOREM FirstResizeInOrder == MaxResize <= 1 => (Spec => []InOrder)
  <1>1. IInv => InOrder
    BY DEF IInv, DInv
  <1> QED
    BY <1>1, Kept, PTL

-----------------------------------------------------------------------------
(* The refinement.  By the invariant the contents of the current buffer    *)
(* are the numbers from taken + 1 to sent, whichever buffer that is; the   *)
(* resizer moves neither counter, and what it does to the capacity and to  *)
(* the close it does at the switch.                                        *)

\* The current buffer contains the items sent and not yet taken.
ContentsInv ==
    /\ sent \in Nat /\ taken \in Nat /\ taken <= sent /\ sent <= taken + capacity(buffer)
    /\ capacity(buffer) \in Nat \ {0}
    /\ Contents = Numbers(taken, sent)

\* A consumer that has found the stream closed is inside until it has asked for the
\* size again; the copy is not closed before the buffer it is a copy of, since
\* invalidate() looked up a buffer that was current.
CloseKept ==
    /\ ret[C] = "drained" =>
        /\ pc[C] \in {"size", "size_check", "size_read", "size_exit", "drained"}
        /\ op[C] # "size"
        /\ ~heap[buffer].is_valid
    /\ rpc = "set_buffer" => (heap[buffer].is_valid => heap[new_buffer].is_valid)
    /\ pc[P] = "invalidate" => bp[P] <= buffer

RInv == IInv /\ ContentsInv /\ CloseKept

\* The current buffer holds the items sent and not yet taken, in order.
LEMMA ContentsAreNumbers == IInv => ContentsInv
  <1> SUFFICES ASSUME IInv PROVE ContentsInv
    OBVIOUS
  <1> DEFINE cap == capacity(buffer)
             r == heap[buffer].read_pt.a
  <1>1. TypeOK /\ buffer \in Buffers /\ Holds(buffer)
    BY DEF IInv, EInv, TInv, TypeOK, DInv, StreamKept
  <1>2. /\ sent \in Nat /\ taken \in Nat /\ taken <= sent /\ sent <= taken + cap
        /\ cap \in Nat \ {0} /\ cap <= MaxCap /\ MaxCap \in Nat /\ r \in 0 .. cap - 1
    BY <1>1, Numbered, HoldsBounds
  <1>3. ASSUME NEW i \in 1 .. sent - taken
        PROVE  heap[buffer].store[(r + i - 1) % cap] = taken + i
    <2> DEFINE s == (r + i - 1) % cap
    <2>1. r + i - 1 = r + (i - 1) /\ i - 1 \in 0 .. cap
      BY <1>2
    <2>2. s = (IF r + (i - 1) < cap THEN r + (i - 1) ELSE r + (i - 1) - cap) /\ s \in 0 .. cap - 1
      <3> HIDE DEF cap, r
      <3> QED
        BY <1>2, <2>1, IndexMoves
    <2> HIDE DEF s
    <2>3. Offset(cap, r, s) = i - 1
      <3> HIDE DEF cap, r
      <3> QED
        BY <1>2, <2>1, <2>2 DEF Offset
    <2>4. Ahead(buffer, s) = i - 1 /\ s \in Slot /\ s < cap
      BY <1>1, <2>2, <2>3, Numbered DEF Ahead
    <2>5. heap[buffer].store[s] = taken + 1 + (i - 1)
      BY <1>1, <1>2, <2>4 DEF Holds, Stored
    <2>6. taken + 1 + (i - 1) = taken + i
      BY <1>2
    <2> QED
      BY <2>5, <2>6 DEF s
  <1>4. Contents = Numbers(taken, sent)
    BY <1>3 DEF Contents, Numbers, val
  <1> QED
    BY <1>2, <1>4 DEF ContentsInv

\* They are as many as the two counters are apart.
LEMMA ContentsLength ==
    ASSUME ContentsInv
    PROVE  /\ Len(Contents) = sent - taken
           /\ \A i \in 1 .. sent - taken : Contents[i] = taken + i
  BY NumbersAreSequence DEF ContentsInv

-----------------------------------------------------------------------------
(* The close.                                                              *)

\* But for the store of invalidate no step of a kernel's thread changes the
\* capacity of a buffer, or whether it is closed.
LEMMA ThreadsKeepFrames ==
    ASSUME TypeOK, ProducerNext \/ ConsumerNext, ~(Invalidate /\ pc[P] = "invalidate")
    PROVE  /\ UNCHANGED <<buffer, rpc, new_buffer, old_buffer>>
           /\ \A b \in Buffers : KeepsFrame(b)
  <1> USE DEF Goto, manager, thread, resizer, history
  <1>1. CASE Access(P) \/ Access(C)
    BY <1>1, AccessKeeps DEF Thread
  <1>2. CASE \/ \E o \in ProducerOps, k \in Ranges \cup {1} : Call(P, o, k)
             \/ Spin \/ Deallocate \/ (Invalidate /\ pc[P] # "invalidate")
    BY <1>2 DEF Call, Spin, Deallocate, Invalidate, KeepsFrame
  <1>3. CASE \/ \E o \in ConsumerOps : Call(C, o, 1)
             \/ Empty \/ Drained \/ LocalPeek \/ LookAt \/ Unpeek \/ RecyclePeeked \/ IsInvalid
    BY <1>3 DEF Call, Empty, Drained, LocalPeek, LookAt, Unpeek, RecyclePeeked, IsInvalid, KeepsFrame
  <1>4. CASE LocalPush \/ Send
    <2>1. UNCHANGED <<buffer, rpc, new_buffer, old_buffer>>
      BY <1>4 DEF LocalPush, Send
    <2>2. KeepsFrame(buffer) /\ Others(buffer)
      BY <1>4, PushEffect, SendEffect DEF Publishes
    <2> QED
      BY <2>1, <2>2 DEF Others, KeepsFrame
  <1>5. CASE LocalAllocate \/ LocalPop
    <2>1. UNCHANGED <<buffer, rpc, new_buffer, old_buffer>>
      BY <1>5 DEF LocalAllocate, LocalPop
    <2>2. KeepsFrame(buffer) /\ Others(buffer)
      BY <1>5, AllocateEffect, PopEffect
    <2> QED
      BY <2>1, <2>2 DEF Others, KeepsFrame
  <1>6. CASE Fill
    <2>1. UNCHANGED <<buffer, rpc, new_buffer, old_buffer>>
      BY <1>6 DEF Fill
    <2>2. KeepsFrame(bp[P]) /\ Others(bp[P])
      BY <1>6, FillEffect
    <2> QED
      BY <2>1, <2>2 DEF Others, KeepsFrame
  <1> QED
    BY <1>1, <1>2, <1>3, <1>4, <1>5, <1>6 DEF ProducerNext, ConsumerNext

\* A consumer that believes the close goes on to ask for the size, and forgets it.
LEMMA DrainedIsInside ==
    ASSUME TypeOK, ConsumerNext, ret'[C] = "drained",
           ret[C] = "drained" => /\ pc[C] \in {"size", "size_check", "size_read", "size_exit", "drained"}
                                 /\ op[C] # "size" /\ ~heap[buffer].is_valid,
           op[C] = "size" => pc[C] \in {"size", "size_check", "size_read", "size_exit"}
    PROVE  /\ pc'[C] \in {"size", "size_check", "size_read", "size_exit", "drained"}
           /\ op'[C] # "size" /\ ~heap[buffer].is_valid
  <1> USE DEF Goto, manager, thread, resizer, history
  <1>1. /\ pc \in [Thread -> Label] /\ ret \in [Thread -> {"admit", "drained"}] /\ C \in Thread
        /\ op \in [Thread -> {"none", "push", "allocate", "allocate_range",
                              "pop", "recycle", "peek", "size"}]
    BY DEF TypeOK, Thread
  <1>2. CASE \E o \in ConsumerOps : Call(C, o, 1)
    BY <1>1, <1>2 DEF Call
  <1>3. CASE Access(C)
    BY <1>1, <1>3 DEF Access, Size, LoadAccess, SetFlag, ClearFlag, CheckResizing, SizeEnter,
       SizeCheck, SizeRead, SizeExit
  <1>4. CASE \/ Empty \/ Drained \/ LocalPop \/ LocalPeek \/ LookAt \/ Unpeek \/ RecyclePeeked
             \/ IsInvalid
    BY <1>1, <1>4 DEF Empty, Drained, LocalPop, LocalPeek, LookAt, Unpeek, RecyclePeeked, IsInvalid
  <1> QED
    BY <1>2, <1>3, <1>4 DEF ConsumerNext

\* invalidate() looks up the current buffer.
LEMMA InvalidateLooksUp ==
    ASSUME TypeOK, ProducerNext, pc'[P] = "invalidate"
    PROVE  pc[P] # "invalidate" /\ bp'[P] = buffer /\ buffer' = buffer
  <1> USE DEF Goto, manager, thread, resizer, history
  <1>1. /\ pc \in [Thread -> Label] /\ ret \in [Thread -> {"admit", "drained"}] /\ P \in Thread
        /\ bp \in [Thread -> Buffers]
    BY DEF TypeOK, Thread
  <1>2. CASE \E o \in ProducerOps, k \in Ranges \cup {1} : Call(P, o, k)
    BY <1>1, <1>2 DEF Call
  <1>3. CASE Access(P)
    BY <1>1, <1>3 DEF Access, Size, LoadAccess, SetFlag, ClearFlag, CheckResizing, SizeEnter,
       SizeCheck, SizeRead, SizeExit
  <1>4. CASE Spin \/ LocalPush \/ LocalAllocate \/ Fill \/ Send \/ Deallocate \/ Invalidate
    BY <1>1, <1>4 DEF Spin, LocalPush, LocalAllocate, Fill, Send, Deallocate, Invalidate
  <1> QED
    BY <1>2, <1>3, <1>4 DEF ProducerNext

\* A step of one thread leaves the locals of the other alone.
LEMMA OwnLocals ==
    ASSUME TypeOK
    PROVE  /\ ProducerNext => pc'[C] = pc[C] /\ op'[C] = op[C] /\ ret'[C] = ret[C]
           /\ ConsumerNext => pc'[P] = pc[P] /\ bp'[P] = bp[P]
  <1> USE DEF Goto, manager, thread, resizer, history
  <1>1. /\ pc \in [Thread -> Label] /\ ret \in [Thread -> {"admit", "drained"}]
        /\ bp \in [Thread -> Buffers] /\ P \in Thread /\ C \in Thread /\ P # C
        /\ op \in [Thread -> {"none", "push", "allocate", "allocate_range",
                              "pop", "recycle", "peek", "size"}]
    BY DEF TypeOK, Thread, P, C
  <1>2. ASSUME ProducerNext
        PROVE  pc'[C] = pc[C] /\ op'[C] = op[C] /\ ret'[C] = ret[C]
    <2>1. CASE \E o \in ProducerOps, k \in Ranges \cup {1} : Call(P, o, k)
      BY <1>1, <2>1 DEF Call
    <2>2. CASE Access(P)
      BY <1>1, <2>2 DEF Access, Size, LoadAccess, SetFlag, ClearFlag, CheckResizing, SizeEnter,
         SizeCheck, SizeRead, SizeExit
    <2>3. CASE Spin \/ LocalPush \/ LocalAllocate \/ Fill \/ Send \/ Deallocate \/ Invalidate
      BY <1>1, <2>3 DEF Spin, LocalPush, LocalAllocate, Fill, Send, Deallocate, Invalidate
    <2> QED
      BY <1>2, <2>1, <2>2, <2>3 DEF ProducerNext
  <1>3. ASSUME ConsumerNext
        PROVE  pc'[P] = pc[P] /\ bp'[P] = bp[P]
    <2>1. CASE \E o \in ConsumerOps : Call(C, o, 1)
      BY <1>1, <2>1 DEF Call
    <2>2. CASE Access(C)
      BY <1>1, <2>2 DEF Access, Size, LoadAccess, SetFlag, ClearFlag, CheckResizing, SizeEnter,
         SizeCheck, SizeRead, SizeExit
    <2>3. CASE \/ Empty \/ Drained \/ LocalPop \/ LocalPeek \/ LookAt \/ Unpeek \/ RecyclePeeked
               \/ IsInvalid
      BY <1>1, <2>3 DEF Empty, Drained, LocalPop, LocalPeek, LookAt, Unpeek, RecyclePeeked, IsInvalid
    <2> QED
      BY <1>3, <2>1, <2>2, <2>3 DEF ConsumerNext
  <1> QED
    BY <1>2, <1>3

\* No step of the resizer opens or closes the current buffer, and it switches to the
\* copy only while no consumer is between finding the stream closed and asking again.
LEMMA ResizerKeepsClose ==
    ASSUME IInv, CloseKept, ResizerNext
    PROVE  CloseKept'
  <1> USE DEF manager, thread, resizer, history, Step
  <1>1. /\ TInv /\ TypeOK /\ heap \in [Buffers -> BufferType] /\ Buffers \subseteq Nat
        /\ buffer \in Buffers /\ new_buffer \in Buffers /\ old_buffer \in Buffers
        /\ bp[P] \in Buffers
    BY BoundsAssumption DEF IInv, EInv, TInv, TypeOK, Thread, Buffers
  <1>2. CASE Resize \/ Abandon \/ DeleteOld
    <2>1. UNCHANGED <<pc, op, bp, ret, buffer>> /\ heap'[buffer] = heap[buffer]
      BY <1>1, <1>2, ResizerWrites
    <2>2. rpc' # "set_buffer"
      BY <1>2 DEF Resize, Abandon, DeleteOld
    <2> QED
      BY <2>1, <2>2 DEF CloseKept
  <1>3. CASE CopyFrom
    <2>1. UNCHANGED <<pc, op, bp, ret, buffer>> /\ heap'[buffer] = heap[buffer]
      BY <1>1, <1>3, ResizerWrites
    <2>2. rpc = "copy" /\ heap' = [heap EXCEPT ![new_buffer] = Copied] /\ new_buffer' = new_buffer
      BY <1>3 DEF CopyFrom
    <2>3. buffer = old_buffer /\ capacity(new_buffer) = 2 * capacity(old_buffer)
      BY <1>1, <2>2 DEF TInv, Places, BeforeSwitch, Waiting
    <2>4. Copied.is_valid = heap[old_buffer].is_valid
      BY <1>1, <2>3, CopiedIs
    <2>5. heap'[new_buffer] = Copied
      BY <1>1, <2>2
    <2> QED
      BY <2>1, <2>2, <2>3, <2>4, <2>5 DEF CloseKept
  <1>4. CASE SetBuffer /\ rpc = "set_buffer"
    <2>1. /\ buffer' = new_buffer /\ rpc' = "set_access" /\ UNCHANGED <<heap, pc, op, bp, ret>>
      BY <1>4 DEF SetBuffer
    <2>2. buffer = old_buffer /\ new_buffer = old_buffer + 1
      BY <1>1, <1>4 DEF TInv, Places, BeforeSwitch, Waiting
    <2>3. ret[C] # "drained"
      BY <1>4 DEF IInv, EInv, StaysOut, PastConsumer, PastProducer, Flagged, CloseKept, Inside
    <2>4. bp[P] <= buffer => bp[P] <= new_buffer
      <3>1. bp[P] \in Nat /\ old_buffer \in Nat
        BY <1>1
      <3> QED
        BY <2>2, <3>1
    <2> QED
      BY <2>1, <2>3, <2>4 DEF CloseKept
  <1>5. CASE \/ SetResizing \/ AllClear \/ BufferCondition \/ Back \/ FinishResize \/ ExitAlloc
             \/ (SetBuffer /\ rpc # "set_buffer")
    <2>1. UNCHANGED <<heap, pc, op, bp, ret, buffer, new_buffer>>
      BY <1>5 DEF SetResizing, AllClear, BufferCondition, Back, FinishResize, ExitAlloc, SetBuffer
    <2>2. rpc' = "set_buffer" => rpc = "set_buffer"
      BY <1>5 DEF SetResizing, AllClear, BufferCondition, Back, FinishResize, ExitAlloc, SetBuffer
    <2> QED
      BY <2>1, <2>2 DEF CloseKept
  <1> QED
    BY <1>2, <1>3, <1>4, <1>5 DEF ResizerNext

\* Every step keeps what is known of the close.
LEMMA ClosePreserved ==
    ASSUME IInv, CloseKept, [Next]_vars
    PROVE  CloseKept'
  <1>1. /\ TInv /\ TypeOK /\ Buffers \subseteq Nat /\ P \in Thread /\ C \in Thread
        /\ buffer \in Buffers /\ new_buffer \in Buffers /\ old_buffer \in Buffers
        /\ bp[P] \in Buffers
    BY BoundsAssumption DEF IInv, EInv, TInv, TypeOK, Thread, Buffers
  <1>2. CASE Invalidate /\ pc[P] = "invalidate"
    <2>1. /\ UNCHANGED <<buffer, rpc, new_buffer, op, ret>> /\ pc' = [pc EXCEPT ![P] = "done"]
      BY <1>2 DEF Invalidate, manager, resizer, Goto
    <2>2. pc'[P] = "done" /\ pc'[C] = pc[C]
      BY <1>1, <2>1 DEF TypeOK, P, C
    <2>3. \A b \in Buffers : /\ ~heap[b].is_valid => ~heap'[b].is_valid
                             /\ b # bp[P] => heap'[b] = heap[b]
      BY <1>1, <1>2, CloseEffect DEF Others
    <2>4. rpc = "set_buffer" => new_buffer # bp[P]
      <3>1. rpc = "set_buffer" => buffer = old_buffer /\ new_buffer = old_buffer + 1
        BY <1>1 DEF TInv, Places, BeforeSwitch, Waiting
      <3>2. bp[P] \in Nat /\ old_buffer \in Nat /\ bp[P] <= buffer
        BY <1>1, <1>2 DEF CloseKept
      <3> QED
        BY <3>1, <3>2
    <2>5. rpc = "set_buffer" => (heap'[buffer].is_valid => heap'[new_buffer].is_valid)
      BY <1>1, <2>3, <2>4 DEF CloseKept
    <2> QED
      BY <1>1, <2>1, <2>2, <2>3, <2>5 DEF CloseKept
  <1>3. CASE ProducerNext /\ ~(Invalidate /\ pc[P] = "invalidate")
    <2>1. UNCHANGED <<buffer, rpc, new_buffer>> /\ \A b \in Buffers : KeepsFrame(b)
      BY <1>1, <1>3, ThreadsKeepFrames
    <2>2. pc'[C] = pc[C] /\ op'[C] = op[C] /\ ret'[C] = ret[C]
      BY <1>1, <1>3, OwnLocals
    <2>3. pc'[P] = "invalidate" => bp'[P] <= buffer
      BY <1>1, <1>3, InvalidateLooksUp
    <2> QED
      BY <1>1, <2>1, <2>2, <2>3 DEF CloseKept, KeepsFrame
  <1>4. CASE ConsumerNext /\ ~(Invalidate /\ pc[P] = "invalidate")
    <2>1. UNCHANGED <<buffer, rpc, new_buffer>> /\ \A b \in Buffers : KeepsFrame(b)
      BY <1>1, <1>4, ThreadsKeepFrames
    <2>2. pc'[P] = pc[P] /\ bp'[P] = bp[P]
      BY <1>1, <1>4, OwnLocals
    <2>3. ret'[C] = "drained" =>
            /\ pc'[C] \in {"size", "size_check", "size_read", "size_exit", "drained"}
            /\ op'[C] # "size" /\ ~heap[buffer].is_valid
      BY <1>1, <1>4, DrainedIsInside DEF CloseKept, TInv, Calling
    <2> QED
      BY <1>1, <2>1, <2>2, <2>3 DEF CloseKept, KeepsFrame
  <1>5. CASE ResizerNext
    BY <1>5, ResizerKeepsClose
  <1>6. CASE UNCHANGED vars
    BY <1>6 DEF vars, manager, thread, resizer, CloseKept
  <1> QED
    BY <1>2, <1>3, <1>4, <1>5, <1>6 DEF Next

-----------------------------------------------------------------------------
(* Every step is a step of the stream, a switch, or a stutter.             *)

\* A step that sends nothing, takes nothing, reads nothing and closes nothing.
LEMMA Stutters ==
    ASSUME ContentsInv, ContentsInv', UNCHANGED <<sent, taken, got, error, buffer>>,
           KeepsFrame(buffer)
    PROVE  UNCHANGED Channel!vars
  <1>1. Contents' = Contents /\ (sent + 1)' = sent + 1 /\ (got.item)' = got.item /\ error' = error
    BY DEF ContentsInv
  <1>2. capacity(buffer)' = capacity(buffer) /\ (~heap[buffer].is_valid)' = ~heap[buffer].is_valid
    BY DEF KeepsFrame, capacity
  <1> QED
    BY <1>1, <1>2 DEF Channel!vars

\* The calls of the producer: push and send send, and invalidate closes if the
\* buffer that it looked up is still the current one.
LEMMA ProducerRefines ==
    ASSUME IInv, ContentsInv, ContentsInv', ProducerNext
    PROVE  [Channel!Next]_(Channel!vars)
  <1> USE DEF Goto, manager, thread, resizer, history
  <1>1. /\ TypeOK /\ pc \in [Thread -> Label] /\ P \in Thread /\ buffer \in Buffers
        /\ n[P] \in Ranges \cup {1} /\ res[P] \in 0 .. MaxCap
    BY DEF IInv, EInv, TInv, TypeOK, Thread
  <1>2. /\ n[P] \in Nat \ {0} /\ res[P] \in Nat /\ capacity(buffer) \in Nat \ {0}
    BY <1>1, RangesAreNumbers, Numbered
  <1>3. heap[buffer].is_valid \/ pc[P] = "done"
    BY <1>1 DEF IInv, DInv, ConsumerKnows
  <1>4. ASSUME ~(Invalidate /\ pc[P] = "invalidate")
        PROVE  /\ UNCHANGED buffer /\ KeepsFrame(buffer)
               /\ capacity(buffer)' = capacity(buffer)
               /\ (~heap[buffer].is_valid)' = ~heap[buffer].is_valid
    BY <1>1, <1>4, ThreadsKeepFrames DEF KeepsFrame, capacity
  <1>5. CASE LocalPush \/ Send
    <2>1. /\ sent' = sent + n[P] /\ UNCHANGED <<taken, got, error>>
          /\ pc[P] \notin {"done", "invalidate"}
          /\ sent + n[P] <= taken + capacity(buffer)
      <3>1. CASE LocalPush
        <4>1. /\ pc[P] = "admit" /\ op[P] = "push" /\ res[P] >= n[P] /\ sent' = sent + 1
              /\ UNCHANGED <<taken, got, error>>
          BY <1>1, <3>1 DEF LocalPush
        <4>2. n[P] = 1 /\ sent + res[P] <= taken + capacity(buffer)
          BY <4>1 DEF IInv, DInv, ProducerCall, ProducerKnows, Inside
        <4> QED
          BY <1>2, <4>1, <4>2 DEF ContentsInv
      <3>2. CASE Send
        <4>1. /\ pc[P] = "filled" /\ sent' = sent + n[P] /\ UNCHANGED <<taken, got, error>>
          BY <1>1, <3>2 DEF Send
        <4>2. sent + n[P] <= taken + capacity(buffer)
          BY <4>1 DEF IInv, DInv, ProducerKnows
        <4> QED
          BY <4>1, <4>2
      <3> QED
        BY <1>5, <3>1, <3>2
    <2>2. n[P] \in 1 .. capacity(buffer)
      BY <1>2, <2>1 DEF ContentsInv
    <2>3. Len(Contents) + n[P] <= capacity(buffer)
      BY <1>2, <2>1, ContentsLength DEF ContentsInv
    <2>4. Contents' = Contents \o [i \in 1 .. n[P] |-> sent + 1 + i - 1]
      <3>1. Contents' = Numbers(taken, sent + n[P])
        BY <2>1 DEF ContentsInv
      <3> QED
        BY <1>2, <3>1, NumbersSend DEF ContentsInv
    <2>5. (sent + 1)' = sent + 1 + n[P]
      BY <1>2, <2>1 DEF ContentsInv
    <2>6. Channel!Send(n[P])
      BY <1>3, <1>4, <2>1, <2>3, <2>4, <2>5 DEF Channel!Send
    <2> QED
      BY <2>2, <2>6 DEF Channel!Next
  <1>6. CASE Invalidate /\ pc[P] = "invalidate"
    <2>1. UNCHANGED <<sent, taken, got, error, buffer>>
      BY <1>6 DEF Invalidate
    <2>2. CASE bp[P] = buffer
      <3>1. Contents' = Contents /\ (sent + 1)' = sent + 1
        BY <2>1 DEF ContentsInv
      <3>2. heap[buffer].is_valid /\ ~heap'[buffer].is_valid /\ heap'[buffer].max_cap = heap[buffer].max_cap
        BY <1>1, <1>3, <1>6, <2>2, CloseEffect
      <3>3. /\ ~(~heap[buffer].is_valid) /\ (~heap[buffer].is_valid)' = TRUE
            /\ capacity(buffer)' = capacity(buffer)
        BY <2>1, <3>2 DEF capacity
      <3>4. Channel!Close
        BY <2>1, <3>1, <3>3 DEF Channel!Close
      <3> QED
        BY <3>4 DEF Channel!Next
    <2>3. CASE bp[P] # buffer
      <3>1. KeepsFrame(buffer)
        BY <1>1, <1>6, <2>3, CloseEffect DEF Others, KeepsFrame
      <3> QED
        BY <2>1, <3>1, Stutters
    <2> QED
      BY <2>2, <2>3
  <1>7. CASE \/ \E o \in ProducerOps, k \in Ranges \cup {1} : Call(P, o, k)
             \/ Spin \/ LocalAllocate \/ Fill \/ Deallocate \/ (Invalidate /\ pc[P] # "invalidate")
    <2>1. UNCHANGED <<sent, taken, got, error>>
      BY <1>7 DEF Call, Spin, LocalAllocate, Fill, Deallocate, Invalidate
    <2>2. ~(Invalidate /\ pc[P] = "invalidate")
      BY <1>7 DEF Call, Spin, LocalAllocate, Fill, Deallocate
    <2> QED
      BY <1>4, <2>1, <2>2, Stutters
  <1>8. CASE Access(P)
    <2>1. UNCHANGED <<sent, taken, got, error, buffer>> /\ KeepsFrame(buffer)
      BY <1>1, <1>8, AccessKeeps
    <2> QED
      BY <2>1, Stutters
  <1> QED
    BY <1>5, <1>6, <1>7, <1>8 DEF ProducerNext

\* The calls of the consumer: pop takes, recycle removes, a read through the
\* reference of peek looks, and the exception is that of a closed stream.
LEMMA ConsumerRefines ==
    ASSUME RInv, ContentsInv', ConsumerNext
    PROVE  [Channel!Next]_(Channel!vars)
  <1> USE DEF Goto, manager, thread, resizer, history
  <1>1. /\ IInv /\ ContentsInv /\ CloseKept
        /\ TypeOK /\ pc \in [Thread -> Label] /\ C \in Thread /\ P # C /\ buffer \in Buffers
        /\ res[C] \in Nat /\ Holds(buffer)
    BY DEF RInv, IInv, EInv, TInv, TypeOK, Thread, P, C, DInv, StreamKept
  <1>2. CASE Invalidate /\ pc[P] = "invalidate"
    <2>1. ProducerNext
      BY <1>2 DEF ProducerNext
    <2> QED
      BY <1>1, <2>1, ProducerRefines
  <1>3. ASSUME ~(Invalidate /\ pc[P] = "invalidate")
        PROVE  [Channel!Next]_(Channel!vars)
    <2>1. /\ UNCHANGED buffer /\ KeepsFrame(buffer)
          /\ capacity(buffer)' = capacity(buffer)
          /\ (~heap[buffer].is_valid)' = ~heap[buffer].is_valid
      BY <1>1, <1>3, ThreadsKeepFrames DEF KeepsFrame, capacity
    <2>2. CASE LocalPop
      <3>1. /\ pc[C] = "admit" /\ res[C] > 0 /\ taken' = taken + 1 /\ UNCHANGED <<sent, error>>
            /\ got' = got \/ got' = Head0(buffer)
        BY <2>2 DEF LocalPop
      <3>2. taken < sent
        BY <1>1, <3>1 DEF IInv, DInv, ConsumerKnows, ContentsInv
      <3>3. Contents # << >> /\ Head(Contents) = taken + 1 /\ Contents' = Tail(Contents)
        BY <1>1, <3>1, <3>2, NumbersTake DEF ContentsInv
      <3>4. got' = Head0(buffer) => got'.item = Head(Contents)
        BY <1>1, <3>2, <3>3, HeadIs
      <3>5. (sent + 1)' = sent + 1
        BY <3>1
      <3>6. CASE got' = got
        <4>1. Channel!Remove
          BY <2>1, <3>1, <3>3, <3>5, <3>6 DEF Channel!Remove
        <4> QED
          BY <4>1 DEF Channel!Next
      <3>7. CASE got' = Head0(buffer)
        <4>1. Channel!Take
          BY <2>1, <3>1, <3>3, <3>4, <3>5, <3>7 DEF Channel!Take
        <4> QED
          BY <4>1 DEF Channel!Next
      <3> QED
        BY <3>1, <3>6, <3>7
    <2>3. CASE LookAt
      <3>1. pc[C] = "held" /\ got' = Head0(buffer) /\ UNCHANGED <<sent, taken, error>>
        BY <1>1, <2>3 DEF LookAt, IInv, EInv, HeldReferencesAreCurrent
      <3>2. taken < sent
        BY <1>1, <3>1 DEF IInv, DInv, ConsumerKnows
      <3>3. got'.item = taken + 1
        BY <1>1, <3>1, <3>2, HeadIs
      <3>4. 1 <= Len(Contents) /\ Contents[1] = taken + 1 /\ 1 \in 1 .. capacity(buffer)
        BY <1>1, <3>2, ContentsLength DEF ContentsInv
      <3>5. Contents' = Contents /\ (sent + 1)' = sent + 1
        BY <1>1, <3>1 DEF ContentsInv
      <3>6. Channel!Look(1)
        BY <2>1, <3>1, <3>3, <3>4, <3>5 DEF Channel!Look
      <3> QED
        BY <3>4, <3>6 DEF Channel!Next
    <2>4. CASE Drained /\ error' # error
      <3>1. pc[C] = "drained" /\ res[C] = 0 /\ error' = "closed" /\ UNCHANGED <<sent, taken, got>>
        BY <2>4 DEF Drained
      <3>2. ~heap[buffer].is_valid /\ taken = sent
        BY <1>1, <3>1 DEF IInv, DInv, ConsumerKnows, ContentsInv, CloseKept
      <3>3. Contents = << >>
        BY <1>1, <3>2, NumbersEmpty DEF ContentsInv
      <3>4. Contents' = Contents /\ (sent + 1)' = sent + 1
        BY <1>1, <3>1 DEF ContentsInv
      <3>5. Channel!FailClosed
        BY <2>1, <3>1, <3>2, <3>3, <3>4 DEF Channel!FailClosed
      <3> QED
        BY <3>5 DEF Channel!Next
    <2>5. CASE \/ \E o \in ConsumerOps : Call(C, o, 1)
               \/ Empty \/ (Drained /\ error' = error) \/ LocalPeek \/ Unpeek \/ RecyclePeeked
               \/ IsInvalid
      <3>1. UNCHANGED <<sent, taken, got, error>>
        BY <2>5 DEF Call, Empty, Drained, LocalPeek, Unpeek, RecyclePeeked, IsInvalid
      <3> QED
        BY <1>1, <2>1, <3>1, Stutters
    <2>6. CASE Access(C)
      <3>1. UNCHANGED <<sent, taken, got, error>>
        BY <1>1, <2>6, AccessKeeps
      <3> QED
        BY <1>1, <2>1, <3>1, Stutters
    <2> QED
      BY <2>2, <2>3, <2>4, <2>5, <2>6 DEF ConsumerNext
  <1> QED
    BY <1>2, <1>3

\* The resizer replaces the buffer when it stores the new one, and all its other
\* steps cannot be seen.
LEMMA ResizerRefines ==
    ASSUME RInv, ContentsInv', ResizerNext
    PROVE  [Channel!Next \/ Channel!Replace]_(Channel!vars)
  <1> USE DEF manager, thread, resizer, history, Step
  <1>1. /\ IInv /\ ContentsInv /\ CloseKept /\ TInv
        /\ heap \in [Buffers -> BufferType] /\ buffer \in Buffers /\ new_buffer \in Buffers
    BY DEF RInv, IInv, EInv, TInv, TypeOK
  <1>2. UNCHANGED <<sent, taken, got, error>>
    BY DEF ResizerNext, Resize, Abandon, SetResizing, AllClear, BufferCondition, Back, CopyFrom,
       SetBuffer, DeleteOld, FinishResize, ExitAlloc
  <1>3. CASE Resize \/ Abandon \/ CopyFrom \/ DeleteOld
    <2>1. UNCHANGED buffer /\ heap'[buffer] = heap[buffer]
      BY <1>1, <1>3, ResizerWrites
    <2> QED
      BY <1>1, <1>2, <2>1, Stutters DEF KeepsFrame
  <1>4. CASE SetBuffer /\ rpc = "set_buffer"
    <2>1. buffer' = new_buffer /\ heap' = heap
      BY <1>4 DEF SetBuffer
    <2>2. heap[new_buffer].max_cap = 2 * heap[buffer].max_cap
      BY <1>1, <1>4 DEF TInv, Places, BeforeSwitch, Waiting, capacity
    <2>3. capacity(buffer)' = 2 * capacity(buffer) /\ capacity(buffer) \in Nat \ {0}
      BY <1>1, <2>1, <2>2 DEF capacity, ContentsInv
    <2>4. capacity(buffer)' > capacity(buffer)
      BY <2>3
    <2>5. /\ heap[buffer].is_valid \in BOOLEAN /\ heap[new_buffer].is_valid \in BOOLEAN
          /\ (~heap[buffer].is_valid)' = ~heap[new_buffer].is_valid
      BY <1>1, <2>1 DEF BufferType
    <2>6. (~heap[buffer].is_valid)' \in {~heap[buffer].is_valid, FALSE}
      BY <1>1, <1>4, <2>5 DEF CloseKept
    <2>7. Contents' = Contents /\ (sent + 1)' = sent + 1 /\ (got.item)' = got.item
      BY <1>1, <1>2 DEF ContentsInv
    <2>8. Channel!Replace
      BY <1>2, <2>4, <2>6, <2>7 DEF Channel!Replace
    <2> QED
      BY <2>8
  <1>5. CASE \/ SetResizing \/ AllClear \/ BufferCondition \/ Back \/ FinishResize \/ ExitAlloc
             \/ (SetBuffer /\ rpc # "set_buffer")
    <2>1. UNCHANGED <<heap, buffer>>
      BY <1>5 DEF SetResizing, AllClear, BufferCondition, Back, FinishResize, ExitAlloc, SetBuffer
    <2> QED
      BY <1>1, <1>2, <2>1, Stutters DEF KeepsFrame
  <1> QED
    BY <1>3, <1>4, <1>5 DEF ResizerNext

\* A stream whose buffer is replaced once is a resizable stream of FifoChannel: the
\* items stay in it in order, their number within the capacity of the moment, and
\* the exception comes only when it says that it is closed and nothing is left.  What
\* the switch can do is to make the capacity larger and to lose the close (set() in
\* datamanager.tcc, copyFrom in bufferdata.tcc).
THEOREM FirstResizeRefinement == MaxResize <= 1 => (Spec => ImplementsChannel)
  <1> SUFFICES ASSUME MaxResize <= 1 PROVE Spec => ImplementsChannel
    OBVIOUS
  <1>1. Init => Channel!Init /\ CloseKept
    <2> SUFFICES ASSUME Init PROVE Channel!Init /\ CloseKept
      OBVIOUS
    <2>1. ContentsInv
      BY InitStream, ContentsAreNumbers
    <2>2. /\ sent = 0 /\ taken = 0 /\ got.item = 0 /\ error = "none" /\ buffer = 0 /\ 0 \in Buffers
          /\ rpc = "idle" /\ pc[P] = "idle" /\ ret[C] = "admit"
      BY BoundsAssumption DEF Init, Thread, Buffers
    <2>3. Contents = << >>
      BY <2>1, <2>2, NumbersEmpty DEF ContentsInv
    <2>4. heap[buffer].is_valid = TRUE
      BY <2>2, NewBufferIs DEF Init
    <2>5. (~heap[buffer].is_valid) = FALSE
      BY <2>4
    <2>6. CloseKept
      BY <2>2 DEF CloseKept
    <2> QED
      BY <2>1, <2>2, <2>3, <2>5, <2>6 DEF Channel!Init, ContentsInv
  <1>2. IInv /\ CloseKept /\ [Next]_vars => CloseKept'
    BY ClosePreserved
  <1>3. IInv /\ ContentsInv /\ CloseKept /\ ContentsInv' /\ [Next]_vars
            => [Channel!Next \/ Channel!Replace]_(Channel!vars)
    <2> SUFFICES ASSUME IInv, ContentsInv, CloseKept, ContentsInv', [Next]_vars
                 PROVE  [Channel!Next \/ Channel!Replace]_(Channel!vars)
      OBVIOUS
    <2>1. CASE Next
      BY <2>1, ProducerRefines, ConsumerRefines, ResizerRefines DEF Next, RInv
    <2>2. CASE UNCHANGED vars
      BY <2>2, Stutters DEF vars, manager, history, KeepsFrame
    <2> QED
      BY <2>1, <2>2
  <1> QED
    BY <1>1, <1>2, <1>3, Kept, ContentsAreNumbers, PTL DEF Spec, ImplementsChannel,
       Channel!ResizableSpec
=============================================================================
