---------------------------- MODULE ItemNumbers ----------------------------
(***************************************************************************)
(* The contents of a stream as the numbers of its items, which are sent in *)
(* the order 1, 2, 3 ...: what is in a stream of which t items have been   *)
(* taken and s sent, and what sending and taking do to it.  The proofs     *)
(* that the two buffers implement FifoChannel share these facts.           *)
(***************************************************************************)
EXTENDS Naturals, Integers, Sequences, TLAPS, SequenceTheorems

\* The items with the numbers t + 1 to s, in order.
Numbers(t, s) == [i \in 1 .. s - t |-> t + i]

\* They are sequences, and as long as the two counters are apart.
LEMMA NumbersAreSequence ==
    ASSUME NEW t \in Nat, NEW s \in Nat, t <= s
    PROVE  /\ Numbers(t, s) \in Seq(Nat)
           /\ Len(Numbers(t, s)) = s - t
           /\ \A i \in 1 .. s - t : Numbers(t, s)[i] = t + i
  BY DEF Numbers

\* Sending k items appends their numbers.
LEMMA NumbersSend ==
    ASSUME NEW t \in Nat, NEW s \in Nat, t <= s, NEW k \in Nat
    PROVE  Numbers(t, s + k) = Numbers(t, s) \o [i \in 1 .. k |-> s + 1 + i - 1]
  BY DEF Numbers

\* Taking an item removes the head.
LEMMA NumbersTake ==
    ASSUME NEW t \in Nat, NEW s \in Nat, t < s
    PROVE  /\ Numbers(t, s) # << >>
           /\ Head(Numbers(t, s)) = t + 1
           /\ Numbers(t + 1, s) = Tail(Numbers(t, s))
  <1>1. /\ Numbers(t, s) \in Seq(Nat)
        /\ Len(Numbers(t, s)) = s - t
        /\ \A i \in 1 .. s - t : Numbers(t, s)[i] = t + i
    BY NumbersAreSequence
  <1>2. Numbers(t, s) # << >>
    BY <1>1, EmptySeq
  <1>3. Head(Numbers(t, s)) = t + 1
    BY <1>1, <1>2, HeadTailProperties
  <1>4. /\ Tail(Numbers(t, s)) \in Seq(Nat)
        /\ Len(Tail(Numbers(t, s))) = s - t - 1
        /\ \A i \in 1 .. s - t - 1 : Tail(Numbers(t, s))[i] = t + 1 + i
    BY <1>1, <1>2, HeadTailProperties
  <1>5. /\ Numbers(t + 1, s) \in Seq(Nat)
        /\ Len(Numbers(t + 1, s)) = s - t - 1
        /\ \A i \in 1 .. s - t - 1 : Numbers(t + 1, s)[i] = t + 1 + i
    BY NumbersAreSequence
  <1>6. Numbers(t + 1, s) = Tail(Numbers(t, s))
    BY <1>4, <1>5, SeqEqual
  <1> QED
    BY <1>2, <1>3, <1>6

\* With both counters equal there is nothing.
LEMMA NumbersEmpty ==
    ASSUME NEW t \in Nat
    PROVE  Numbers(t, t) = << >>
  BY DEF Numbers
=============================================================================
