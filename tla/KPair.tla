------------------------------- MODULE KPair --------------------------------
(***************************************************************************)
(* The operators >>, <= and >= that describe a piece of a stream graph     *)
(* (kpair.hpp, kpair.cpp).  Each call builds one kpair on the heap; the    *)
(* pairs of an expression are chained by next, and head is the first.      *)
(*                                                                         *)
(* An operator of the model takes the world w, a record that holds the     *)
(* kernels, the pairs and the exception in flight, and returns the world   *)
(* the call leaves behind.                                                 *)
(***************************************************************************)
EXTENDS Port

NoPair == 0

Throw(w, exception) == [w EXCEPT !.thrown = exception]
Thrown(w) == w.thrown # NoException

(* An operand is a kernel, with the ports its brackets name, or the pair   *)
(* an operator built before.                                               *)
Kernel(k, ports) == [pair |-> NoPair, kernel |-> k, ports |-> ports]
Pair(p) == [pair |-> p, kernel |-> NoKernel, ports |-> <<>>]
IsPair(operand) == operand.pair # NoPair

(* The overloads there are: no operator takes every combination. *)
Overloads(op, l, r) ==
    CASE op \in {">>", ">>out"} -> ~IsPair(r)
      [] op = "<=" -> ~IsPair(l)
      [] op = ">=" -> TRUE

(* kernel[ name ][ name ]: one name after the other, until there are two. *)
Enabled(w, k, names) == [w EXCEPT !.kernels[k].enabled_port = @ \o names]
Brackets(w, operand) ==
    LET k == operand.kernel
        free == MaxEnabled - Len(w.kernels[k].enabled_port)
        named == ~Thrown(w) /\ operand.ports # <<>>
    IN CASE ~named -> w
         [] named /\ Len(operand.ports) <= free -> Enabled(w, k, operand.ports)
         [] named /\ Len(operand.ports) > free ->
               Throw(Enabled(w, k, SubSeq(operand.ports, 1, free)), "AmbiguousPortAssignment")

(* What every constructor begins with, the one of two kernels: the names   *)
(* come from the ports that are enabled, and are enabled no more.          *)
Disabled(w, k) == [w EXCEPT !.kernels[k] = Disable(@)]
TwoKernels(w, a, b) ==
    LET v == Disabled(w, a)
        p == Len(w.pairs) + 1
    IN [Disabled(v, b) EXCEPT !.pairs = Append(@,
          [src |-> a, src_name |-> EnabledPort(w.kernels[a]),
           dst |-> b, dst_name |-> EnabledPort(v.kernels[b]),
           src_out_count |-> count(w.kernels[a].output),
           dst_in_count |-> count(w.kernels[b].input),
           buffer_size |-> 0, out_of_order |-> FALSE,
           split_to |-> FALSE, join_from |-> FALSE, head |-> p, next |-> NoPair])]

(* The other constructors.  A pair on the left ends at the source of the   *)
(* new pair, which becomes its next; a pair on the right starts at its     *)
(* destination and becomes the next of the new one.                        *)
NewPair(w, l, r, split, join) ==
    LET a == IF IsPair(l) THEN w.pairs[l.pair].dst ELSE l.kernel
        b == IF IsPair(r) THEN w.pairs[r.pair].src ELSE r.kernel
        v == TwoKernels(w, a, b)
        p == Len(v.pairs)
        head == IF IsPair(l) THEN w.pairs[l.pair].head ELSE p
        new == [v.pairs[p] EXCEPT !.head = head, !.next = r.pair,
                                  !.split_to = split, !.join_from = join]
    IN [v EXCEPT !.pairs = [i \in 1..p |->
          CASE i = p -> new
            [] IsPair(l) /\ i = l.pair -> [v.pairs[i] EXCEPT !.next = p]
            [] IsPair(l) /\ i = r.pair -> [v.pairs[i] EXCEPT !.head = head]
            [] OTHER -> v.pairs[i]]]

(* A pair that is written to. *)
SetPair(w, p, pair) == [w EXCEPT !.pairs[p] = pair]

setOoO(w) ==
    LET p == Len(w.pairs) IN SetPair(w, p, [w.pairs[p] EXCEPT !.out_of_order = TRUE])

(* a >> b, and a >> order::out >> b *)
Continue(w, l, r) == NewPair(w, l, r, FALSE, FALSE)
ContinueOutOfOrder(w, l, r) == setOoO(NewPair(w, l, r, FALSE, FALSE))

(* a <= b, and a >= b *)
Split(w, l, r) == NewPair(w, l, r, TRUE, FALSE)
Join(w, l, r) == NewPair(w, l, r, FALSE, TRUE)

(* One operator of an expression, its brackets first. *)
Apply(w, op, l, r) ==
    LET v == Brackets(Brackets(w, l), r)
    IN CASE Thrown(v) -> v
         [] ~Thrown(v) /\ op = ">>" -> Continue(v, l, r)
         [] ~Thrown(v) /\ op = ">>out" -> ContinueOutOfOrder(v, l, r)
         [] ~Thrown(v) /\ op = "<=" -> Split(v, l, r)
         [] ~Thrown(v) /\ op = ">=" -> Join(v, l, r)
=============================================================================
