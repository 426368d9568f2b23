----------------------------- MODULE Map_proofs ------------------------------
(***************************************************************************)
(* Proofs about graph construction, for every application: whatever its    *)
(* statements are, and wherever an exception cuts one short, the ends of   *)
(* the streams name each other, a stream once linked is linked for good,   *)
(* and the map owns just the kernels that were made for it.                *)
(***************************************************************************)
EXTENDS Map, FiniteSetTheorems, TLAPS

-----------------------------------------------------------------------------
(* The state space. *)
Texts == STRING \cup {NoName}
PortType ==
    [my_name : STRING, type : STRING, other_kernel : Nat, other_name : Texts,
     out_of_order : BOOLEAN, fixed_buffer_size : Nat, nitems : Nat, start_index : Int, fifo : Nat]
KernelType ==
    [class : Nat, id : Nat, clones : BOOLEAN, stops : BOOLEAN, input : Seq(PortType),
     output : Seq(PortType), internal_alloc : BOOLEAN, enabled_port : Seq(STRING), core_assign : Int]
PairType ==
    [src : Nat, src_name : Texts, dst : Nat, dst_name : Texts, src_out_count : Nat,
     dst_in_count : Nat, buffer_size : Nat, out_of_order : BOOLEAN, split_to : BOOLEAN,
     join_from : BOOLEAN, head : Nat, next : Nat]
KeeperType == [source : SUBSET Nat, dst : SUBSET Nat, all : SUBSET Nat, internal : SUBSET Nat]
WorldType ==
    [kernels : Seq(KernelType), kernel_count : Nat, pairs : Seq(PairType), keeper : KeeperType,
     thrown : Exceptions]

-----------------------------------------------------------------------------
(* What every operation on the world keeps. *)
Names(ports) == \A i, j \in DOMAIN ports : ports[i].my_name = ports[j].my_name => i = j
NamesApart(w) ==
    \A k \in DOMAIN w.kernels : Names(w.kernels[k].input) /\ Names(w.kernels[k].output)

\* A stream from the i-th output of a to the j-th input of b.
Stream(w, a, i, b, j) ==
    LET out == w.kernels[a].output[i]
        in  == w.kernels[b].input[j]
    IN /\ out.other_kernel = b /\ out.other_name = in.my_name
       /\ in.other_kernel = a /\ in.other_name = out.my_name
       /\ out.type = in.type
       /\ a \in w.keeper.all /\ b \in w.keeper.all
       /\ a \in DOMAIN w.kernels /\ b \in DOMAIN w.kernels

Mutual(w) ==
    \A k \in DOMAIN w.kernels :
      /\ \A i \in DOMAIN w.kernels[k].output :
            LET b == w.kernels[k].output[i].other_kernel
            IN b # NoKernel => \E j \in DOMAIN w.kernels[b].input : Stream(w, k, i, b, j)
      /\ \A j \in DOMAIN w.kernels[k].input :
            LET a == w.kernels[k].input[j].other_kernel
            IN a # NoKernel => \E i \in DOMAIN w.kernels[a].output : Stream(w, a, i, k, j)

Kept(w) ==
    /\ w.keeper.all \subseteq DOMAIN w.kernels
    /\ w.keeper.source \subseteq w.keeper.all
    /\ w.keeper.internal = {k \in w.keeper.all : w.kernels[k].internal_alloc}

Paired(w) ==
    \A p \in DOMAIN w.pairs :
      /\ w.pairs[p].src \in DOMAIN w.kernels /\ w.pairs[p].dst \in DOMAIN w.kernels
      /\ w.pairs[p].head \in DOMAIN w.pairs /\ w.pairs[p].next \in {NoPair} \cup DOMAIN w.pairs

Bracketed(w) == \A k \in DOMAIN w.kernels : Len(w.kernels[k].enabled_port) <= MaxEnabled

Sound(w) == w \in WorldType /\ NamesApart(w) /\ Mutual(w) /\ Kept(w) /\ Paired(w) /\ Bracketed(w)

\* What no operation takes back: a kernel stays what it is, a port that is
\* connected stays connected; a kernel that is new was made for the map.
SamePort(p, q) ==
    /\ q.my_name = p.my_name /\ q.type = p.type /\ q.nitems = p.nitems /\ q.fifo = p.fifo
    /\ p.other_kernel # NoKernel => q.other_kernel = p.other_kernel /\ q.other_name = p.other_name
SamePorts(ports, ports2) ==
    /\ DOMAIN ports2 = DOMAIN ports
    /\ \A i \in DOMAIN ports : SamePort(ports[i], ports2[i])
NoStreamAt(ports) == \A i \in DOMAIN ports : ports[i].fifo = NoFifo
Grows(w, v) ==
    /\ DOMAIN w.kernels \subseteq DOMAIN v.kernels
    /\ w.keeper.all \subseteq v.keeper.all /\ w.keeper.source \subseteq v.keeper.source
    /\ \A k \in DOMAIN w.kernels :
         /\ v.kernels[k].internal_alloc = w.kernels[k].internal_alloc
         /\ v.kernels[k].core_assign = w.kernels[k].core_assign
         /\ SamePorts(w.kernels[k].input, v.kernels[k].input)
         /\ SamePorts(w.kernels[k].output, v.kernels[k].output)
    /\ \A k \in DOMAIN v.kernels \ DOMAIN w.kernels :
         /\ v.kernels[k].internal_alloc /\ v.kernels[k].core_assign = NoCore
         /\ NoStreamAt(v.kernels[k].input) /\ NoStreamAt(v.kernels[k].output)

\* An operation that leaves a sound world behind, with as many pairs.
Keeps(w, v) == Sound(v) /\ Grows(w, v) /\ DOMAIN v.pairs = DOMAIN w.pairs

-----------------------------------------------------------------------------
(* Steps that follow one another. *)

\* A sound world may stay as it is.
LEMMA KeepsItself ==
    ASSUME NEW w, Sound(w)
    PROVE  Keeps(w, w)
  BY DEF Keeps, Grows, SamePorts, SamePort

\* What grows, and grows again, has grown.
LEMMA GrowsOn ==
    ASSUME NEW w, NEW v, NEW u, Grows(w, v), Grows(v, u)
    PROVE  Grows(w, u)
  <1>1. ASSUME NEW p, NEW q, NEW r, SamePorts(p, q), SamePorts(q, r)
        PROVE  SamePorts(p, r)
    BY <1>1 DEF SamePorts, SamePort
  <1>2. ASSUME NEW k \in DOMAIN w.kernels
        PROVE  /\ u.kernels[k].internal_alloc = w.kernels[k].internal_alloc
               /\ u.kernels[k].core_assign = w.kernels[k].core_assign
               /\ SamePorts(w.kernels[k].input, u.kernels[k].input)
               /\ SamePorts(w.kernels[k].output, u.kernels[k].output)
    BY <1>1 DEF Grows
  <1>3. ASSUME NEW k \in DOMAIN u.kernels \ DOMAIN w.kernels
        PROVE  /\ u.kernels[k].internal_alloc /\ u.kernels[k].core_assign = NoCore
               /\ NoStreamAt(u.kernels[k].input) /\ NoStreamAt(u.kernels[k].output)
    <2>1. CASE k \in DOMAIN v.kernels
      <3>1. /\ u.kernels[k].internal_alloc = v.kernels[k].internal_alloc /\ v.kernels[k].internal_alloc
            /\ u.kernels[k].core_assign = v.kernels[k].core_assign /\ v.kernels[k].core_assign = NoCore
            /\ SamePorts(v.kernels[k].input, u.kernels[k].input) /\ NoStreamAt(v.kernels[k].input)
            /\ SamePorts(v.kernels[k].output, u.kernels[k].output) /\ NoStreamAt(v.kernels[k].output)
        BY <1>3, <2>1 DEF Grows
      <3> QED
        BY <3>1 DEF SamePorts, SamePort, NoStreamAt
    <2>2. CASE k \notin DOMAIN v.kernels
      BY <1>3, <2>2 DEF Grows
    <2> QED
      BY <2>1, <2>2
  <1> QED
    BY <1>2, <1>3 DEF Grows

\* Operations that follow one another keep what each of them keeps.
LEMMA KeepsOn ==
    ASSUME NEW w, NEW v, NEW u, Keeps(w, v), Keeps(v, u)
    PROVE  Keeps(w, u)
  BY GrowsOn DEF Keeps

-----------------------------------------------------------------------------
(* Ports that are looked up and written to. *)

\* Names are different, so that a port is found by its name.
LEMMA FindIs ==
    ASSUME NEW ports \in Seq(PortType), Names(ports), NEW j \in DOMAIN ports
    PROVE  Find(ports, ports[j].my_name) = j
  <1> DEFINE I == {i \in 1 .. Len(ports) : ports[i].my_name = ports[j].my_name}
  <1>1. I = {j}
    BY DEF Names
  <1>2. Min(I) = j
    BY <1>1 DEF Min
  <1> QED
    BY <1>1, <1>2 DEF Find, SelectInSeq

\* What is found has the name, and 0 is found where there is none.
LEMMA FindFinds ==
    ASSUME NEW ports \in Seq(PortType), Names(ports), NEW name
    PROVE  \/ Find(ports, name) = 0
           \/ Find(ports, name) \in DOMAIN ports /\ ports[Find(ports, name)].my_name = name
  <1>1. CASE \E j \in DOMAIN ports : ports[j].my_name = name
    BY <1>1, FindIs
  <1>2. CASE ~\E j \in DOMAIN ports : ports[j].my_name = name
    <2>1. {i \in 1 .. Len(ports) : ports[i].my_name = name} = {}
      BY <1>2
    <2> QED
      BY <2>1 DEF Find, SelectInSeq
  <1> QED
    BY <1>1, <1>2

\* link() gets a port, or an exception.
LEMMA DiscoverFinds ==
    ASSUME NEW ports \in Seq(PortType), Names(ports), NEW name
    PROVE  LET found == Discover(ports, name)
           IN \/ found.thrown = NoException /\ found.at \in DOMAIN ports
              \/ found.thrown \in PortExceptions /\ found.at = 0
  <1>1. CASE name = NoName
    <2>1. Discover(ports, name) = getPortInfo(ports)
      BY <1>1 DEF Discover
    <2>0. Len(ports) \in Nat /\ DOMAIN ports = 1 .. Len(ports)
      OBVIOUS
    <2>2. CASE Len(ports) > 1
      <3>1. getPortInfo(ports) = Missing("AmbiguousPortAssignment")
        BY <2>0, <2>2 DEF getPortInfo, count
      <3> QED
        BY <2>1, <3>1 DEF Missing, PortExceptions
    <2>3. CASE Len(ports) = 0
      <3>1. getPortInfo(ports) = Missing("PortNotFound")
        BY <2>0, <2>3 DEF getPortInfo, count
      <3> QED
        BY <2>1, <3>1 DEF Missing, PortExceptions
    <2>4. CASE Len(ports) = 1
      <3>1. getPortInfo(ports) = Found(1)
        BY <2>0, <2>4 DEF getPortInfo, count
      <3>2. 1 \in DOMAIN ports
        BY <2>0, <2>4
      <3> QED
        BY <2>1, <3>1, <3>2 DEF Found
    <2> QED
      BY <2>0, <2>2, <2>3, <2>4
  <1>2. CASE name # NoName
    BY <1>2, FindFinds DEF Discover, getPortInfoFor, Missing, Found, PortExceptions
  <1> QED
    BY <1>1, <1>2

-----------------------------------------------------------------------------
(* A port of one kernel is written to. *)

\* Only that port changes.
LEMMA SetOutputType ==
    ASSUME NEW w \in WorldType, NEW a \in DOMAIN w.kernels,
           NEW i \in DOMAIN w.kernels[a].output, NEW q \in PortType
    PROVE  SetOutput(w, a, i, q) \in WorldType
  <1> DEFINE k == w.kernels[a]
             ports == [k.output EXCEPT ![i] = q]
             new == [k EXCEPT !.output = ports]
             all == [w.kernels EXCEPT ![a] = new]
  <1>1. k \in KernelType
    BY DEF WorldType
  <1>2. ports \in Seq(PortType)
    BY <1>1 DEF KernelType
  <1>3. new \in KernelType
    BY <1>1, <1>2 DEF KernelType
  <1>4. all \in Seq(KernelType)
    BY <1>3 DEF WorldType
  <1>5. SetOutput(w, a, i, q) = [w EXCEPT !.kernels = all]
    BY DEF SetOutput
  <1> QED
    BY <1>4, <1>5 DEF WorldType

\* Likewise for an input.
LEMMA SetInputType ==
    ASSUME NEW w \in WorldType, NEW b \in DOMAIN w.kernels,
           NEW j \in DOMAIN w.kernels[b].input, NEW q \in PortType
    PROVE  SetInput(w, b, j, q) \in WorldType
  <1> DEFINE k == w.kernels[b]
             ports == [k.input EXCEPT ![j] = q]
             new == [k EXCEPT !.input = ports]
             all == [w.kernels EXCEPT ![b] = new]
  <1>1. k \in KernelType
    BY DEF WorldType
  <1>2. ports \in Seq(PortType)
    BY <1>1 DEF KernelType
  <1>3. new \in KernelType
    BY <1>1, <1>2 DEF KernelType
  <1>4. all \in Seq(KernelType)
    BY <1>3 DEF WorldType
  <1>5. SetInput(w, b, j, q) = [w EXCEPT !.kernels = all]
    BY DEF SetInput
  <1> QED
    BY <1>4, <1>5 DEF WorldType

\* What stays the same in a kernel whose ports are written to.
SameButPorts(w, v) ==
    /\ DOMAIN v.kernels = DOMAIN w.kernels
    /\ v.keeper = w.keeper /\ v.pairs = w.pairs /\ v.thrown = w.thrown
    /\ v.kernel_count = w.kernel_count
    /\ \A k \in DOMAIN w.kernels :
         /\ v.kernels[k].internal_alloc = w.kernels[k].internal_alloc
         /\ v.kernels[k].enabled_port = w.kernels[k].enabled_port
         /\ v.kernels[k].core_assign = w.kernels[k].core_assign
         /\ DOMAIN v.kernels[k].output = DOMAIN w.kernels[k].output
         /\ DOMAIN v.kernels[k].input = DOMAIN w.kernels[k].input

\* What an output that is written to leaves alone.
LEMMA SetOutputEffect ==
    ASSUME NEW w \in WorldType, NEW a \in DOMAIN w.kernels,
           NEW i \in DOMAIN w.kernels[a].output, NEW q
    PROVE  LET v == SetOutput(w, a, i, q)
           IN /\ SameButPorts(w, v)
              /\ \A k \in DOMAIN w.kernels :
                   /\ v.kernels[k].input = w.kernels[k].input
                   /\ \A n \in DOMAIN w.kernels[k].output :
                        v.kernels[k].output[n] =
                            IF k = a /\ n = i THEN q ELSE w.kernels[k].output[n]
  <1> DEFINE v == SetOutput(w, a, i, q)
             ports == [w.kernels[a].output EXCEPT ![i] = q]
             new == [w.kernels[a] EXCEPT !.output = ports]
             all == [w.kernels EXCEPT ![a] = new]
  <1>1. v = [w EXCEPT !.kernels = all]
    BY DEF SetOutput
  <1>2. /\ v.kernels = all /\ v.keeper = w.keeper /\ v.pairs = w.pairs /\ v.thrown = w.thrown
        /\ v.kernel_count = w.kernel_count
    BY <1>1 DEF WorldType
  <1>3. DOMAIN all = DOMAIN w.kernels /\ \A k \in DOMAIN w.kernels : all[k] = IF k = a THEN new ELSE w.kernels[k]
    OBVIOUS
  <1>4. w.kernels[a] \in KernelType
    BY DEF WorldType
  <1>5. /\ new.input = w.kernels[a].input /\ new.output = ports
        /\ new.internal_alloc = w.kernels[a].internal_alloc
        /\ new.enabled_port = w.kernels[a].enabled_port
        /\ new.core_assign = w.kernels[a].core_assign
    BY <1>4 DEF KernelType
  <1>6. /\ DOMAIN ports = DOMAIN w.kernels[a].output
        /\ \A n \in DOMAIN w.kernels[a].output : ports[n] = IF n = i THEN q ELSE w.kernels[a].output[n]
    BY <1>4 DEF KernelType
  <1> QED
    BY <1>2, <1>3, <1>5, <1>6 DEF SameButPorts

\* Likewise for an input.
LEMMA SetInputEffect ==
    ASSUME NEW w \in WorldType, NEW b \in DOMAIN w.kernels,
           NEW j \in DOMAIN w.kernels[b].input, NEW q
    PROVE  LET v == SetInput(w, b, j, q)
           IN /\ SameButPorts(w, v)
              /\ \A k \in DOMAIN w.kernels :
                   /\ v.kernels[k].output = w.kernels[k].output
                   /\ \A n \in DOMAIN w.kernels[k].input :
                        v.kernels[k].input[n] =
                            IF k = b /\ n = j THEN q ELSE w.kernels[k].input[n]
  <1> DEFINE v == SetInput(w, b, j, q)
             ports == [w.kernels[b].input EXCEPT ![j] = q]
             new == [w.kernels[b] EXCEPT !.input = ports]
             all == [w.kernels EXCEPT ![b] = new]
  <1>1. v = [w EXCEPT !.kernels = all]
    BY DEF SetInput
  <1>2. /\ v.kernels = all /\ v.keeper = w.keeper /\ v.pairs = w.pairs /\ v.thrown = w.thrown
        /\ v.kernel_count = w.kernel_count
    BY <1>1 DEF WorldType
  <1>3. DOMAIN all = DOMAIN w.kernels /\ \A k \in DOMAIN w.kernels : all[k] = IF k = b THEN new ELSE w.kernels[k]
    OBVIOUS
  <1>4. w.kernels[b] \in KernelType
    BY DEF WorldType
  <1>5. /\ new.output = w.kernels[b].output /\ new.input = ports
        /\ new.internal_alloc = w.kernels[b].internal_alloc
        /\ new.enabled_port = w.kernels[b].enabled_port
        /\ new.core_assign = w.kernels[b].core_assign
    BY <1>4 DEF KernelType
  <1>6. /\ DOMAIN ports = DOMAIN w.kernels[b].input
        /\ \A n \in DOMAIN w.kernels[b].input : ports[n] = IF n = j THEN q ELSE w.kernels[b].input[n]
    BY <1>4 DEF KernelType
  <1> QED
    BY <1>2, <1>3, <1>5, <1>6 DEF SameButPorts

\* What leaves alone which kernels the ports lead to.
SameEnds(p, q) ==
    /\ q.my_name = p.my_name /\ q.type = p.type /\ q.nitems = p.nitems
    /\ q.other_kernel = p.other_kernel /\ q.other_name = p.other_name
Retouched(w, v) ==
    /\ SameButPorts(w, v)
    /\ \A k \in DOMAIN w.kernels :
         /\ \A n \in DOMAIN w.kernels[k].output : SameEnds(w.kernels[k].output[n], v.kernels[k].output[n])
         /\ \A n \in DOMAIN w.kernels[k].input : SameEnds(w.kernels[k].input[n], v.kernels[k].input[n])

\* A world whose ports lead where they did is as sound as before.
LEMMA RetouchedIsSound ==
    ASSUME NEW w, Sound(w), NEW v \in WorldType, Retouched(w, v)
    PROVE  Sound(v)
  <1>1. NamesApart(v)
    BY DEF Sound, NamesApart, Names, Retouched, SameButPorts, SameEnds
  <1>2. ASSUME NEW a \in DOMAIN w.kernels, NEW b \in DOMAIN w.kernels,
               NEW i \in DOMAIN w.kernels[a].output, NEW j \in DOMAIN w.kernels[b].input,
               Stream(w, a, i, b, j)
        PROVE  Stream(v, a, i, b, j)
    BY <1>2 DEF Stream, Retouched, SameButPorts, SameEnds
  <1>3. ASSUME NEW k \in DOMAIN v.kernels, NEW i \in DOMAIN v.kernels[k].output,
               v.kernels[k].output[i].other_kernel # NoKernel
        PROVE  \E j \in DOMAIN v.kernels[v.kernels[k].output[i].other_kernel].input :
                   Stream(v, k, i, v.kernels[k].output[i].other_kernel, j)
    <2> DEFINE b == w.kernels[k].output[i].other_kernel
    <2>1. /\ k \in DOMAIN w.kernels /\ i \in DOMAIN w.kernels[k].output
          /\ v.kernels[k].output[i].other_kernel = b /\ b # NoKernel
      BY <1>3 DEF Retouched, SameButPorts, SameEnds
    <2>2. PICK j \in DOMAIN w.kernels[b].input : Stream(w, k, i, b, j)
      BY <2>1 DEF Sound, Mutual
    <2>3. b \in DOMAIN w.kernels /\ j \in DOMAIN v.kernels[b].input
      BY <2>2 DEF Stream, Retouched, SameButPorts
    <2> QED
      BY <1>2, <2>1, <2>2, <2>3
  <1>4. ASSUME NEW k \in DOMAIN v.kernels, NEW j \in DOMAIN v.kernels[k].input,
               v.kernels[k].input[j].other_kernel # NoKernel
        PROVE  \E i \in DOMAIN v.kernels[v.kernels[k].input[j].other_kernel].output :
                   Stream(v, v.kernels[k].input[j].other_kernel, i, k, j)
    <2> DEFINE a == w.kernels[k].input[j].other_kernel
    <2>1. /\ k \in DOMAIN w.kernels /\ j \in DOMAIN w.kernels[k].input
          /\ v.kernels[k].input[j].other_kernel = a /\ a # NoKernel
      BY <1>4 DEF Retouched, SameButPorts, SameEnds
    <2>2. PICK i \in DOMAIN w.kernels[a].output : Stream(w, a, i, k, j)
      BY <2>1 DEF Sound, Mutual
    <2>3. a \in DOMAIN w.kernels /\ i \in DOMAIN v.kernels[a].output
      BY <2>2 DEF Stream, Retouched, SameButPorts
    <2> QED
      BY <1>2, <2>1, <2>2, <2>3
  <1>5. Mutual(v)
    BY <1>3, <1>4 DEF Mutual
  <1>6. Kept(v) /\ Paired(v) /\ Bracketed(v)
    BY DEF Sound, Kept, Paired, Bracketed, Retouched, SameButPorts
  <1> QED
    BY <1>1, <1>5, <1>6 DEF Sound

\* What leaves the streams at the ports alone, too.
LEMMA RetouchedKeeps ==
    ASSUME NEW w, Sound(w), NEW v \in WorldType, Retouched(w, v),
           \A k \in DOMAIN w.kernels :
             /\ \A n \in DOMAIN w.kernels[k].output : v.kernels[k].output[n].fifo = w.kernels[k].output[n].fifo
             /\ \A n \in DOMAIN w.kernels[k].input : v.kernels[k].input[n].fifo = w.kernels[k].input[n].fifo
    PROVE  Keeps(w, v)
  <1>1. Grows(w, v)
    BY DEF Retouched, SameButPorts, SameEnds, Grows, SamePorts, SamePort
  <1> QED
    BY <1>1, RetouchedIsSound DEF Keeps, Retouched, SameButPorts

\* The buffer size, or the order, of one port is set.
LEMMA OutputKeeps ==
    ASSUME NEW w, Sound(w), NEW a \in DOMAIN w.kernels, NEW i \in DOMAIN w.kernels[a].output,
           NEW q \in PortType, SameEnds(w.kernels[a].output[i], q), q.fifo = w.kernels[a].output[i].fifo
    PROVE  Keeps(w, SetOutput(w, a, i, q))
  <1> DEFINE v == SetOutput(w, a, i, q)
  <1>1. v \in WorldType
    BY SetOutputType DEF Sound
  <1>2. /\ SameButPorts(w, v)
        /\ \A k \in DOMAIN w.kernels :
             /\ v.kernels[k].input = w.kernels[k].input
             /\ \A n \in DOMAIN w.kernels[k].output :
                  v.kernels[k].output[n] = IF k = a /\ n = i THEN q ELSE w.kernels[k].output[n]
    BY SetOutputEffect DEF Sound
  <1> HIDE DEF v
  <1>3. Retouched(w, v)
    BY <1>2 DEF Retouched, SameEnds
  <1>4. \A k \in DOMAIN w.kernels :
             /\ \A n \in DOMAIN w.kernels[k].output : v.kernels[k].output[n].fifo = w.kernels[k].output[n].fifo
             /\ \A n \in DOMAIN w.kernels[k].input : v.kernels[k].input[n].fifo = w.kernels[k].input[n].fifo
    BY <1>2
  <1>5. Keeps(w, v)
    BY <1>1, <1>3, <1>4, RetouchedKeeps
  <1> QED
    BY <1>5 DEF v

\* Likewise for an input.
LEMMA InputKeeps ==
    ASSUME NEW w, Sound(w), NEW b \in DOMAIN w.kernels, NEW j \in DOMAIN w.kernels[b].input,
           NEW q \in PortType, SameEnds(w.kernels[b].input[j], q), q.fifo = w.kernels[b].input[j].fifo
    PROVE  Keeps(w, SetInput(w, b, j, q))
  <1> DEFINE v == SetInput(w, b, j, q)
  <1>1. v \in WorldType
    BY SetInputType DEF Sound
  <1>2. /\ SameButPorts(w, v)
        /\ \A k \in DOMAIN w.kernels :
             /\ v.kernels[k].output = w.kernels[k].output
             /\ \A n \in DOMAIN w.kernels[k].input :
                  v.kernels[k].input[n] = IF k = b /\ n = j THEN q ELSE w.kernels[k].input[n]
    BY SetInputEffect DEF Sound
  <1> HIDE DEF v
  <1>3. Retouched(w, v)
    BY <1>2 DEF Retouched, SameEnds
  <1>4. \A k \in DOMAIN w.kernels :
             /\ \A n \in DOMAIN w.kernels[k].output : v.kernels[k].output[n].fifo = w.kernels[k].output[n].fifo
             /\ \A n \in DOMAIN w.kernels[k].input : v.kernels[k].input[n].fifo = w.kernels[k].input[n].fifo
    BY <1>2
  <1>5. Keeps(w, v)
    BY <1>1, <1>3, <1>4, RetouchedKeeps
  <1> QED
    BY <1>5 DEF v

\* The ports of a sound world have their type.
LEMMA PortTypes ==
    ASSUME NEW w \in WorldType, NEW k \in DOMAIN w.kernels
    PROVE  /\ w.kernels[k] \in KernelType
           /\ w.kernels[k].output \in Seq(PortType) /\ w.kernels[k].input \in Seq(PortType)
           /\ \A i \in DOMAIN w.kernels[k].output : w.kernels[k].output[i] \in PortType
           /\ \A i \in DOMAIN w.kernels[k].input : w.kernels[k].input[i] \in PortType
  <1>1. w.kernels[k] \in KernelType
    BY DEF WorldType
  <1>2. w.kernels[k].output \in Seq(PortType) /\ w.kernels[k].input \in Seq(PortType)
    BY <1>1 DEF KernelType
  <1> QED
    BY <1>1, <1>2

\* link() sets the buffer size of each end.
LEMMA FixKeeps ==
    ASSUME NEW w, Sound(w), NEW buffer \in Nat
    PROVE  /\ \A a \in DOMAIN w.kernels : \A i \in DOMAIN w.kernels[a].output :
                Keeps(w, FixOutput(w, a, i, buffer)) /\ FixOutput(w, a, i, buffer).thrown = w.thrown
           /\ \A b \in DOMAIN w.kernels : \A j \in DOMAIN w.kernels[b].input :
                Keeps(w, FixInput(w, b, j, buffer)) /\ FixInput(w, b, j, buffer).thrown = w.thrown
  <1>0. w \in WorldType
    BY DEF Sound
  <1>1. ASSUME NEW a \in DOMAIN w.kernels, NEW i \in DOMAIN w.kernels[a].output
        PROVE  Keeps(w, FixOutput(w, a, i, buffer)) /\ FixOutput(w, a, i, buffer).thrown = w.thrown
    <2> DEFINE p == w.kernels[a].output[i]
               q == [p EXCEPT !.fixed_buffer_size = buffer]
    <2>1. p \in PortType
      BY <1>0, PortTypes
    <2>2. q \in PortType /\ SameEnds(p, q) /\ q.fifo = p.fifo
      BY <2>1 DEF PortType, SameEnds
    <2> HIDE DEF q
    <2>3. Keeps(w, SetOutput(w, a, i, q))
      BY <2>2, OutputKeeps
    <2>4. SetOutput(w, a, i, q).thrown = w.thrown
      BY <1>0, SetOutputEffect DEF SameButPorts
    <2> QED
      BY <2>3, <2>4 DEF FixOutput, q
  <1>2. ASSUME NEW b \in DOMAIN w.kernels, NEW j \in DOMAIN w.kernels[b].input
        PROVE  Keeps(w, FixInput(w, b, j, buffer)) /\ FixInput(w, b, j, buffer).thrown = w.thrown
    <2> DEFINE p == w.kernels[b].input[j]
               q == [p EXCEPT !.fixed_buffer_size = buffer]
    <2>1. p \in PortType
      BY <1>0, PortTypes
    <2>2. q \in PortType /\ SameEnds(p, q) /\ q.fifo = p.fifo
      BY <2>1 DEF PortType, SameEnds
    <2> HIDE DEF q
    <2>3. Keeps(w, SetInput(w, b, j, q))
      BY <2>2, InputKeeps
    <2>4. SetInput(w, b, j, q).thrown = w.thrown
      BY <1>0, SetInputEffect DEF SameButPorts
    <2> QED
      BY <2>3, <2>4 DEF FixInput, q
  <1> QED
    BY <1>1, <1>2

\* link() sets the order of both ends.
LEMMA OrderKeeps ==
    ASSUME NEW w, Sound(w), NEW a \in DOMAIN w.kernels, NEW i \in DOMAIN w.kernels[a].output,
           NEW b \in DOMAIN w.kernels, NEW j \in DOMAIN w.kernels[b].input, NEW order \in BOOLEAN
    PROVE  /\ Keeps(w, set_order(w, a, i, b, j, order))
           /\ set_order(w, a, i, b, j, order).thrown = w.thrown
  <1>0. w \in WorldType
    BY DEF Sound
  <1>1. CASE Thrown(w)
    BY <1>1, KeepsItself DEF set_order
  <1>2. CASE ~Thrown(w)
    <2> DEFINE p == w.kernels[a].output[i]
               q == [p EXCEPT !.out_of_order = order]
               r == w.kernels[b].input[j]
               s == [r EXCEPT !.out_of_order = order]
               v == SetOutput(w, a, i, q)
               u == SetInput(v, b, j, s)
    <2>1. p \in PortType /\ r \in PortType
      BY <1>0, PortTypes
    <2>2. q \in PortType /\ SameEnds(p, q) /\ q.fifo = p.fifo
      BY <2>1 DEF PortType, SameEnds
    <2>3. s \in PortType /\ SameEnds(r, s) /\ s.fifo = r.fifo
      BY <2>1 DEF PortType, SameEnds
    <2>4. set_order(w, a, i, b, j, order) = u
      BY <1>2 DEF set_order
    <2> HIDE DEF q, s
    <2>5. Keeps(w, v)
      BY <2>2, OutputKeeps
    <2>6. /\ b \in DOMAIN v.kernels /\ v.kernels[b].input = w.kernels[b].input
          /\ v.thrown = w.thrown
      BY <1>0, SetOutputEffect DEF SameButPorts
    <2> HIDE DEF v
    <2>7. Sound(v)
      BY <2>5 DEF Keeps
    <2>8. Keeps(v, u)
      BY <2>3, <2>6, <2>7, InputKeeps
    <2>9. u.thrown = v.thrown
      BY <2>6, <2>7, SetInputEffect DEF SameButPorts, Sound
    <2> HIDE DEF u
    <2> QED
      BY <2>4, <2>5, <2>6, <2>8, <2>9, KeepsOn
  <1> QED
    BY <1>1, <1>2

-----------------------------------------------------------------------------
(* Two ports are linked. *)

\* Two ports that led nowhere lead to each other, and the others where they did.
LEMMA ConnectKeeps ==
    ASSUME NEW w, Sound(w), NEW a \in w.keeper.all, NEW b \in w.keeper.all,
           NEW i \in DOMAIN w.kernels[a].output, NEW j \in DOMAIN w.kernels[b].input,
           w.kernels[a].output[i].type = w.kernels[b].input[j].type,
           w.kernels[a].output[i].other_kernel = NoKernel,
           w.kernels[b].input[j].other_kernel = NoKernel
    PROVE  /\ Keeps(w, Connect(w, a, i, b, j))
           /\ Connect(w, a, i, b, j).thrown = w.thrown
           /\ SameButPorts(w, Connect(w, a, i, b, j))
  <1> DEFINE p == w.kernels[a].output[i]
             r == w.kernels[b].input[j]
             q == [p EXCEPT !.other_kernel = b, !.other_name = r.my_name]
             s == [r EXCEPT !.other_kernel = a, !.other_name = p.my_name]
             u == SetOutput(w, a, i, q)
             v == SetInput(u, b, j, s)
  <1>0. /\ w \in WorldType /\ a \in DOMAIN w.kernels /\ b \in DOMAIN w.kernels
        /\ a \in Nat \ {0} /\ b \in Nat \ {0}
    BY DEF Sound, Kept, WorldType
  <1>1. p \in PortType /\ r \in PortType
    BY <1>0, PortTypes
  <1>2. /\ q \in PortType /\ q.my_name = p.my_name /\ q.type = p.type /\ q.nitems = p.nitems
        /\ q.fifo = p.fifo /\ q.other_kernel = b /\ q.other_name = r.my_name
    <2>1. r.my_name \in Texts
      BY <1>1 DEF PortType, Texts
    <2> QED
      BY <1>0, <1>1, <2>1 DEF PortType
  <1>3. /\ s \in PortType /\ s.my_name = r.my_name /\ s.type = r.type /\ s.nitems = r.nitems
        /\ s.fifo = r.fifo /\ s.other_kernel = a /\ s.other_name = p.my_name
    <2>1. p.my_name \in Texts
      BY <1>1 DEF PortType, Texts
    <2> QED
      BY <1>0, <1>1, <2>1 DEF PortType
  <1>4. Connect(w, a, i, b, j) = v
    BY DEF Connect
  <1> HIDE DEF q, s
  <1>5. /\ u \in WorldType /\ SameButPorts(w, u)
        /\ \A k \in DOMAIN w.kernels :
             /\ u.kernels[k].input = w.kernels[k].input
             /\ \A n \in DOMAIN w.kernels[k].output :
                  u.kernels[k].output[n] = IF k = a /\ n = i THEN q ELSE w.kernels[k].output[n]
    BY <1>0, <1>2, SetOutputEffect, SetOutputType
  <1> HIDE DEF u
  <1>6. /\ b \in DOMAIN u.kernels /\ j \in DOMAIN u.kernels[b].input
    BY <1>0, <1>5 DEF SameButPorts
  <1>7. /\ v \in WorldType /\ SameButPorts(u, v)
        /\ \A k \in DOMAIN u.kernels :
             /\ v.kernels[k].output = u.kernels[k].output
             /\ \A n \in DOMAIN u.kernels[k].input :
                  v.kernels[k].input[n] = IF k = b /\ n = j THEN s ELSE u.kernels[k].input[n]
    BY <1>3, <1>5, <1>6, SetInputEffect, SetInputType
  <1> HIDE DEF v
  <1>8. SameButPorts(w, v)
    BY <1>5, <1>7 DEF SameButPorts
  <1>9. \A k \in DOMAIN w.kernels :
             /\ \A n \in DOMAIN w.kernels[k].output :
                  v.kernels[k].output[n] = IF k = a /\ n = i THEN q ELSE w.kernels[k].output[n]
             /\ \A n \in DOMAIN w.kernels[k].input :
                  v.kernels[k].input[n] = IF k = b /\ n = j THEN s ELSE w.kernels[k].input[n]
    BY <1>5, <1>7 DEF SameButPorts
  <1>10. NamesApart(v)
    BY <1>2, <1>3, <1>8, <1>9 DEF Sound, NamesApart, Names, SameButPorts
  <1>11. Stream(v, a, i, b, j)
    BY <1>0, <1>2, <1>3, <1>8, <1>9 DEF Stream, SameButPorts
  <1>12. ASSUME NEW c \in DOMAIN w.kernels, NEW d \in DOMAIN w.kernels,
                NEW m \in DOMAIN w.kernels[c].output, NEW n \in DOMAIN w.kernels[d].input,
                Stream(w, c, m, d, n)
         PROVE  Stream(v, c, m, d, n)
    <2>1. c # NoKernel /\ d # NoKernel
      BY <1>0 DEF NoKernel, WorldType
    <2>2. ~(c = a /\ m = i) /\ ~(d = b /\ n = j)
      BY <1>12, <2>1 DEF Stream
    <2> QED
      BY <1>8, <1>9, <1>12, <2>2 DEF Stream, SameButPorts
  <1>13. ASSUME NEW k \in DOMAIN v.kernels, NEW m \in DOMAIN v.kernels[k].output,
                v.kernels[k].output[m].other_kernel # NoKernel
         PROVE  \E n \in DOMAIN v.kernels[v.kernels[k].output[m].other_kernel].input :
                    Stream(v, k, m, v.kernels[k].output[m].other_kernel, n)
    <2>1. CASE k = a /\ m = i
      <3>1. v.kernels[k].output[m].other_kernel = b /\ j \in DOMAIN v.kernels[b].input
        BY <1>0, <1>2, <1>8, <1>9, <2>1 DEF SameButPorts
      <3> QED
        BY <1>11, <2>1, <3>1
    <2>2. CASE ~(k = a /\ m = i)
      <3> DEFINE d == w.kernels[k].output[m].other_kernel
      <3>1. /\ k \in DOMAIN w.kernels /\ m \in DOMAIN w.kernels[k].output
            /\ v.kernels[k].output[m].other_kernel = d /\ d # NoKernel
        BY <1>8, <1>9, <1>13, <2>2 DEF SameButPorts
      <3>2. PICK n \in DOMAIN w.kernels[d].input : Stream(w, k, m, d, n)
        BY <3>1 DEF Sound, Mutual
      <3>3. d \in DOMAIN w.kernels /\ n \in DOMAIN v.kernels[d].input
        BY <1>8, <3>2 DEF Stream, SameButPorts
      <3> QED
        BY <1>12, <3>1, <3>2, <3>3
    <2> QED
      BY <2>1, <2>2
  <1>14. ASSUME NEW k \in DOMAIN v.kernels, NEW n \in DOMAIN v.kernels[k].input,
                v.kernels[k].input[n].other_kernel # NoKernel
         PROVE  \E m \in DOMAIN v.kernels[v.kernels[k].input[n].other_kernel].output :
                    Stream(v, v.kernels[k].input[n].other_kernel, m, k, n)
    <2>1. CASE k = b /\ n = j
      <3>1. v.kernels[k].input[n].other_kernel = a /\ i \in DOMAIN v.kernels[a].output
        BY <1>0, <1>3, <1>8, <1>9, <2>1 DEF SameButPorts
      <3> QED
        BY <1>11, <2>1, <3>1
    <2>2. CASE ~(k = b /\ n = j)
      <3> DEFINE c == w.kernels[k].input[n].other_kernel
      <3>1. /\ k \in DOMAIN w.kernels /\ n \in DOMAIN w.kernels[k].input
            /\ v.kernels[k].input[n].other_kernel = c /\ c # NoKernel
        BY <1>8, <1>9, <1>14, <2>2 DEF SameButPorts
      <3>2. PICK m \in DOMAIN w.kernels[c].output : Stream(w, c, m, k, n)
        BY <3>1 DEF Sound, Mutual
      <3>3. c \in DOMAIN w.kernels /\ m \in DOMAIN v.kernels[c].output
        BY <1>8, <3>2 DEF Stream, SameButPorts
      <3> QED
        BY <1>12, <3>1, <3>2, <3>3
    <2> QED
      BY <2>1, <2>2
  <1>15. Mutual(v)
    BY <1>13, <1>14 DEF Mutual
  <1>16. Kept(v) /\ Paired(v) /\ Bracketed(v)
    BY <1>8 DEF Sound, Kept, Paired, Bracketed, SameButPorts
  <1>17. Grows(w, v)
    BY <1>2, <1>3, <1>8, <1>9 DEF SameButPorts, Grows, SamePorts, SamePort
  <1>18. Keeps(w, v)
    BY <1>7, <1>8, <1>10, <1>15, <1>16, <1>17 DEF Keeps, Sound, SameButPorts
  <1> QED
    BY <1>4, <1>8, <1>18 DEF SameButPorts

\* An exception leaves the world as it is.
LEMMA ThrowKeeps ==
    ASSUME NEW w, Sound(w), NEW exception \in Exceptions
    PROVE  Keeps(w, Throw(w, exception)) /\ Throw(w, exception).thrown = exception
  <1> DEFINE v == Throw(w, exception)
  <1>1. /\ v \in WorldType /\ v.thrown = exception
        /\ v.kernels = w.kernels /\ v.pairs = w.pairs /\ v.keeper = w.keeper
    BY DEF Throw, Sound, WorldType
  <1> HIDE DEF v
  <1>2. Sound(v)
    <2>1. NamesApart(v) /\ Kept(v) /\ Paired(v) /\ Bracketed(v)
      BY <1>1 DEF Sound, NamesApart, Kept, Paired, Bracketed
    <2>2. \A a, i, b, j : Stream(w, a, i, b, j) => Stream(v, a, i, b, j)
      BY <1>1 DEF Stream
    <2>3. Mutual(v)
      BY <1>1, <2>2 DEF Sound, Mutual
    <2> QED
      BY <1>1, <2>1, <2>3 DEF Sound
  <1>3. Grows(w, v)
    BY <1>1 DEF Grows, SamePorts, SamePort
  <1>4. Keeps(w, v)
    BY <1>1, <1>2, <1>3 DEF Keeps
  <1> QED
    BY <1>1, <1>4 DEF v

\* join() connects two ports, or throws and leaves them alone.
LEMMA PortJoinKeeps ==
    ASSUME NEW w, Sound(w), NEW a \in w.keeper.all, NEW b \in w.keeper.all,
           NEW i \in DOMAIN w.kernels[a].output, NEW j \in DOMAIN w.kernels[b].input
    PROVE  /\ Keeps(w, join(w, a, i, b, j))
           /\ \/ join(w, a, i, b, j).thrown = w.thrown
              \/ join(w, a, i, b, j).thrown \in PortExceptions
           /\ DOMAIN join(w, a, i, b, j).kernels = DOMAIN w.kernels
           /\ DOMAIN join(w, a, i, b, j).kernels[a].output = DOMAIN w.kernels[a].output
           /\ DOMAIN join(w, a, i, b, j).kernels[b].input = DOMAIN w.kernels[b].input
  <1> DEFINE out == w.kernels[a].output[i]
             in == w.kernels[b].input[j]
             v == join(w, a, i, b, j)
  <1>0. a \in DOMAIN w.kernels /\ b \in DOMAIN w.kernels
    BY DEF Sound, Kept
  <1>1. ASSUME NEW e \in {"PortTypeMismatch", "PortDoubleInitialize"}, v = Throw(w, e)
        PROVE  /\ Keeps(w, v) /\ v.thrown \in PortExceptions
               /\ v.kernels = w.kernels
    <2>1. Throw(w, e).kernels = w.kernels
      BY DEF Throw, Sound, WorldType
    <2>2. e \in Exceptions /\ e \in PortExceptions
      BY DEF PortExceptions, Exceptions
    <2>3. Keeps(w, Throw(w, e)) /\ Throw(w, e).thrown = e
      BY <2>2, ThrowKeeps
    <2> HIDE DEF v
    <2> QED
      BY <1>1, <2>1, <2>2, <2>3
  <1>2. CASE out.type # in.type
    <2>1. v = Throw(w, "PortTypeMismatch")
      BY <1>2 DEF join
    <2> QED
      BY <1>1, <2>1
  <1>3. CASE out.type = in.type /\ (out.other_kernel # NoKernel \/ in.other_kernel # NoKernel)
    <2>1. v = Throw(w, "PortDoubleInitialize")
      BY <1>3 DEF join
    <2> QED
      BY <1>1, <2>1
  <1>4. CASE out.type = in.type /\ out.other_kernel = NoKernel /\ in.other_kernel = NoKernel
    <2>1. v = Connect(w, a, i, b, j)
      BY <1>4 DEF join
    <2> QED
      BY <1>0, <1>4, <2>1, ConnectKeeps DEF SameButPorts
  <1> QED
    BY <1>2, <1>3, <1>4

\* The kernels of a link are in the map, and are to be deleted if they were made
\* for it, before anything can throw.
LEMMA UpdateKeeps ==
    ASSUME NEW w, Sound(w), NEW a \in DOMAIN w.kernels, NEW b \in DOMAIN w.kernels
    PROVE  LET u == updateKernels(w, a, b)
           IN /\ Keeps(w, u) /\ u.kernels = w.kernels /\ u.thrown = w.thrown
              /\ u.keeper.all = w.keeper.all \cup {a, b}
  <1> DEFINE u == updateKernels(w, a, b)
             made(k) == IF w.kernels[k].internal_alloc THEN {k} ELSE {}
             src == IF ~hasPorts(w.kernels[a].input) THEN {a} ELSE {}
             dst == IF ~hasPorts(w.kernels[b].output) THEN {b} ELSE {}
             keeper == [source |-> w.keeper.source \cup src, dst |-> w.keeper.dst \cup dst,
                        all |-> w.keeper.all \cup {a, b},
                        internal |-> w.keeper.internal \cup made(a) \cup made(b)]
  <1>0. /\ w \in WorldType /\ w.keeper \in KeeperType /\ a \in Nat /\ b \in Nat
        /\ \A k \in DOMAIN w.kernels : w.kernels[k].internal_alloc \in BOOLEAN
    <2>1. w \in WorldType
      BY DEF Sound
    <2>2. w.keeper \in KeeperType /\ a \in Nat /\ b \in Nat
      BY <2>1 DEF WorldType
    <2>3. \A k \in DOMAIN w.kernels : w.kernels[k] \in KernelType
      BY <2>1, PortTypes
    <2>4. \A k \in DOMAIN w.kernels : w.kernels[k].internal_alloc \in BOOLEAN
      BY <2>3 DEF KernelType
    <2> QED
      BY <2>1, <2>2, <2>4
  <1>1. u = [w EXCEPT !.keeper = keeper]
    BY DEF updateKernels
  <1>2. keeper \in KeeperType
    BY <1>0 DEF KeeperType
  <1> HIDE DEF keeper
  <1>3. /\ u \in WorldType /\ u.keeper = keeper /\ u.kernels = w.kernels /\ u.pairs = w.pairs
        /\ u.thrown = w.thrown
    BY <1>0, <1>1, <1>2 DEF WorldType
  <1> HIDE DEF u
  <1>4. /\ u.keeper.all = w.keeper.all \cup {a, b} /\ u.keeper.source = w.keeper.source \cup src
        /\ u.keeper.internal = w.keeper.internal \cup made(a) \cup made(b)
    BY <1>3 DEF keeper
  <1>5. Kept(u)
    <2>1. u.keeper.all \subseteq DOMAIN u.kernels /\ u.keeper.source \subseteq u.keeper.all
      BY <1>3, <1>4 DEF Sound, Kept
    <2>2. u.keeper.internal = {k \in u.keeper.all : u.kernels[k].internal_alloc}
      BY <1>0, <1>3, <1>4 DEF Sound, Kept
    <2> QED
      BY <2>1, <2>2 DEF Kept
  <1>6. NamesApart(u) /\ Paired(u) /\ Bracketed(u)
    BY <1>3 DEF Sound, NamesApart, Paired, Bracketed
  <1>7. Mutual(u)
    <2>1. \A c, m, d, n : Stream(w, c, m, d, n) => Stream(u, c, m, d, n)
      BY <1>3, <1>4 DEF Stream
    <2> QED
      BY <1>3, <2>1 DEF Sound, Mutual
  <1>8. Grows(w, u)
    BY <1>3, <1>4 DEF Grows, SamePorts, SamePort
  <1>9. Keeps(w, u)
    BY <1>3, <1>5, <1>6, <1>7, <1>8 DEF Keeps, Sound
  <1> QED
    BY <1>3, <1>4, <1>9 DEF u

\* link() keeps the world sound whether it throws or not.
LEMMA LinkKeeps ==
    ASSUME NEW w, Sound(w), NEW a \in DOMAIN w.kernels, NEW b \in DOMAIN w.kernels,
           NEW a_port \in Texts, NEW b_port \in Texts, NEW buffer \in Nat, NEW order \in BOOLEAN
    PROVE  Keeps(w, link(w, a, a_port, b, b_port, buffer, order))
  <1> DEFINE u == updateKernels(w, a, b)
             i == Discover(u.kernels[a].output, a_port)
             v == FixOutput(u, a, i.at, buffer)
             j == Discover(v.kernels[b].input, b_port)
             z == FixInput(v, b, j.at, buffer)
             x == join(z, a, i.at, b, j.at)
             y == set_order(x, a, i.at, b, j.at, order)
             result == link(w, a, a_port, b, b_port, buffer, order)
  <1>1. result = CASE i.thrown # NoException -> Throw(u, i.thrown)
                   [] i.thrown = NoException /\ j.thrown # NoException -> Throw(v, j.thrown)
                   [] OTHER -> y
    BY DEF link
  <1> HIDE DEF result
  <1>2. Keeps(w, u) /\ u.kernels = w.kernels /\ a \in u.keeper.all /\ b \in u.keeper.all
    BY UpdateKeeps
  <1> HIDE DEF u
  <1>3. Sound(u) /\ a \in DOMAIN u.kernels /\ b \in DOMAIN u.kernels
    BY <1>2 DEF Keeps
  <1>4. \/ i.thrown = NoException /\ i.at \in DOMAIN u.kernels[a].output
        \/ i.thrown \in PortExceptions
    <2>1. u.kernels[a].output \in Seq(PortType) /\ Names(u.kernels[a].output)
      BY <1>3, PortTypes DEF Sound, NamesApart
    <2> QED
      BY <2>1, DiscoverFinds
  <1> HIDE DEF i
  <1>5. \A e \in PortExceptions : e \in Exceptions /\ e # NoException
    BY DEF PortExceptions, Exceptions, NoException
  <1>6. CASE i.thrown \in PortExceptions
    <2>1. result = Throw(u, i.thrown)
      BY <1>1, <1>5, <1>6
    <2>2. Keeps(u, Throw(u, i.thrown))
      BY <1>3, <1>5, <1>6, ThrowKeeps
    <2> QED
      BY <1>2, <2>1, <2>2, KeepsOn DEF result
  <1>7. CASE i.thrown = NoException /\ i.at \in DOMAIN u.kernels[a].output
    <2>1. Keeps(u, v)
      BY <1>3, <1>7, FixKeeps
    <2> HIDE DEF v
    <2>2. /\ Sound(v) /\ a \in DOMAIN v.kernels /\ b \in DOMAIN v.kernels
          /\ a \in v.keeper.all /\ b \in v.keeper.all /\ i.at \in DOMAIN v.kernels[a].output
      BY <1>2, <1>3, <1>7, <2>1 DEF Keeps, Grows, SamePorts
    <2>3. \/ j.thrown = NoException /\ j.at \in DOMAIN v.kernels[b].input
          \/ j.thrown \in PortExceptions
      <3>1. v.kernels[b].input \in Seq(PortType) /\ Names(v.kernels[b].input)
        BY <2>2, PortTypes DEF Sound, NamesApart
      <3> QED
        BY <3>1, DiscoverFinds
    <2> HIDE DEF j
    <2>4. Keeps(w, v)
      BY <1>2, <2>1, KeepsOn
    <2>5. CASE j.thrown \in PortExceptions
      <3>1. result = Throw(v, j.thrown)
        BY <1>1, <1>5, <1>7, <2>5
      <3>2. Keeps(v, Throw(v, j.thrown))
        BY <1>5, <2>2, <2>5, ThrowKeeps
      <3> QED
        BY <2>4, <3>1, <3>2, KeepsOn DEF result
    <2>6. CASE j.thrown = NoException /\ j.at \in DOMAIN v.kernels[b].input
      <3>1. Keeps(v, z)
        BY <2>2, <2>6, FixKeeps
      <3> HIDE DEF z
      <3>2. /\ Sound(z) /\ a \in z.keeper.all /\ b \in z.keeper.all
            /\ i.at \in DOMAIN z.kernels[a].output /\ j.at \in DOMAIN z.kernels[b].input
        BY <2>2, <2>6, <3>1 DEF Keeps, Grows, SamePorts
      <3>3. /\ Keeps(z, x) /\ DOMAIN x.kernels = DOMAIN z.kernels
            /\ DOMAIN x.kernels[a].output = DOMAIN z.kernels[a].output
            /\ DOMAIN x.kernels[b].input = DOMAIN z.kernels[b].input
        BY <3>2, PortJoinKeeps
      <3> HIDE DEF x
      <3>4. /\ Sound(x) /\ a \in DOMAIN x.kernels /\ b \in DOMAIN x.kernels
            /\ i.at \in DOMAIN x.kernels[a].output /\ j.at \in DOMAIN x.kernels[b].input
        BY <3>2, <3>3 DEF Keeps, Sound, Kept
      <3>5. Keeps(x, y)
        BY <3>4, OrderKeeps
      <3> HIDE DEF y
      <3>6. result = y
        BY <1>1, <1>7, <2>6
      <3>7. Keeps(w, y)
        BY <2>4, <3>1, <3>3, <3>5, KeepsOn
      <3> QED
        BY <3>6, <3>7 DEF result
    <2> QED
      BY <2>3, <2>5, <2>6
  <1> QED
    BY <1>4, <1>6, <1>7

-----------------------------------------------------------------------------
(* A world whose kernels keep their ports. *)

\* What has the same ports, the same streams in its map and the same pairs, or sound
\* ones, is sound too.
AtTheirPlaces(w, v) ==
    /\ DOMAIN v.kernels = DOMAIN w.kernels /\ v.keeper = w.keeper
    /\ \A k \in DOMAIN w.kernels :
         /\ v.kernels[k].input = w.kernels[k].input /\ v.kernels[k].output = w.kernels[k].output
         /\ v.kernels[k].internal_alloc = w.kernels[k].internal_alloc
SamePlaces(w, v) ==
    /\ AtTheirPlaces(w, v)
    /\ \A k \in DOMAIN w.kernels : v.kernels[k].core_assign = w.kernels[k].core_assign

\* Such a world is sound.
LEMMA PlacesAreSound ==
    ASSUME NEW w, Sound(w), NEW v \in WorldType, AtTheirPlaces(w, v), Paired(v), Bracketed(v)
    PROVE  Sound(v)
  <1>1. NamesApart(v) /\ Kept(v)
    BY DEF AtTheirPlaces, Sound, NamesApart, Kept
  <1>2. ASSUME NEW a, NEW i, NEW b, NEW j, Stream(w, a, i, b, j)
        PROVE  Stream(v, a, i, b, j)
    BY <1>2 DEF Stream, AtTheirPlaces
  <1>3. Mutual(v)
    <2>1. ASSUME NEW k \in DOMAIN v.kernels, NEW i \in DOMAIN v.kernels[k].output,
                 v.kernels[k].output[i].other_kernel # NoKernel
          PROVE  \E j \in DOMAIN v.kernels[v.kernels[k].output[i].other_kernel].input :
                     Stream(v, k, i, v.kernels[k].output[i].other_kernel, j)
      <3> DEFINE b == w.kernels[k].output[i].other_kernel
      <3>1. v.kernels[k].output = w.kernels[k].output /\ b # NoKernel
        BY <2>1 DEF AtTheirPlaces
      <3>2. PICK j \in DOMAIN w.kernels[b].input : Stream(w, k, i, b, j)
        BY <2>1, <3>1 DEF Sound, Mutual, AtTheirPlaces
      <3>3. v.kernels[b].input = w.kernels[b].input
        BY <3>2 DEF Stream, AtTheirPlaces
      <3> QED
        BY <1>2, <3>1, <3>2, <3>3
    <2>2. ASSUME NEW k \in DOMAIN v.kernels, NEW j \in DOMAIN v.kernels[k].input,
                 v.kernels[k].input[j].other_kernel # NoKernel
          PROVE  \E i \in DOMAIN v.kernels[v.kernels[k].input[j].other_kernel].output :
                     Stream(v, v.kernels[k].input[j].other_kernel, i, k, j)
      <3> DEFINE a == w.kernels[k].input[j].other_kernel
      <3>1. v.kernels[k].input = w.kernels[k].input /\ a # NoKernel
        BY <2>2 DEF AtTheirPlaces
      <3>2. PICK i \in DOMAIN w.kernels[a].output : Stream(w, a, i, k, j)
        BY <2>2, <3>1 DEF Sound, Mutual, AtTheirPlaces
      <3>3. v.kernels[a].output = w.kernels[a].output
        BY <3>2 DEF Stream, AtTheirPlaces
      <3> QED
        BY <1>2, <3>1, <3>2, <3>3
    <2> QED
      BY <2>1, <2>2 DEF Mutual
  <1> QED
    BY <1>1, <1>3 DEF Sound

\* If the kernels keep their cores, too, it has grown from the one before.
LEMMA SamePlacesKeep ==
    ASSUME NEW w, Sound(w), NEW v \in WorldType, SamePlaces(w, v), Paired(v), Bracketed(v)
    PROVE  Sound(v) /\ Grows(w, v)
  <1>1. Grows(w, v)
    BY DEF SamePlaces, AtTheirPlaces, Grows, SamePorts, SamePort
  <1> QED
    BY <1>1, PlacesAreSound DEF SamePlaces

\* A kernel is given other enabled ports.
LEMMA EnabledPortKeeps ==
    ASSUME NEW w, Sound(w), NEW k \in DOMAIN w.kernels,
           NEW names \in Seq(STRING), Len(names) <= MaxEnabled
    PROVE  LET v == [w EXCEPT !.kernels[k] = [w.kernels[k] EXCEPT !.enabled_port = names]]
           IN /\ Keeps(w, v) /\ v.thrown = w.thrown /\ v.pairs = w.pairs
              /\ DOMAIN v.kernels = DOMAIN w.kernels
              /\ v.kernels[k].enabled_port = names
  <1> DEFINE new == [w.kernels[k] EXCEPT !.enabled_port = names]
             all == [w.kernels EXCEPT ![k] = new]
             v == [w EXCEPT !.kernels[k] = new]
  <1>0. w \in WorldType
    BY DEF Sound
  <1>1. w.kernels[k] \in KernelType
    BY <1>0, PortTypes
  <1>2. /\ new \in KernelType /\ new.enabled_port = names
        /\ new.input = w.kernels[k].input /\ new.output = w.kernels[k].output
        /\ new.internal_alloc = w.kernels[k].internal_alloc
        /\ new.core_assign = w.kernels[k].core_assign
    BY <1>1 DEF KernelType
  <1> HIDE DEF new
  <1>3. all \in Seq(KernelType)
    BY <1>0, <1>2 DEF WorldType
  <1>4. /\ DOMAIN all = DOMAIN w.kernels /\ all[k] = new
        /\ \A i \in DOMAIN w.kernels : i # k => all[i] = w.kernels[i]
    BY <1>0 DEF WorldType
  <1>5. v = [w EXCEPT !.kernels = all]
    OBVIOUS
  <1> HIDE DEF all
  <1>6. /\ v \in WorldType /\ v.kernels = all /\ v.keeper = w.keeper /\ v.pairs = w.pairs
        /\ v.thrown = w.thrown
    BY <1>0, <1>3, <1>5 DEF WorldType
  <1> HIDE DEF v
  <1>7. SamePlaces(w, v)
    BY <1>2, <1>4, <1>6 DEF SamePlaces, AtTheirPlaces
  <1>8. Paired(v) /\ Bracketed(v)
    BY <1>2, <1>4, <1>6 DEF Sound, Paired, Bracketed
  <1>9. Keeps(w, v)
    BY <1>6, <1>7, <1>8, SamePlacesKeep DEF Keeps
  <1> QED
    BY <1>2, <1>4, <1>6, <1>9 DEF v, new

\* A pair is written to.
LEMMA SetPairKeeps ==
    ASSUME NEW w, Sound(w), NEW p \in DOMAIN w.pairs, NEW pair \in PairType,
           pair.src \in DOMAIN w.kernels, pair.dst \in DOMAIN w.kernels,
           pair.head \in DOMAIN w.pairs, pair.next \in {NoPair} \cup DOMAIN w.pairs
    PROVE  LET v == SetPair(w, p, pair)
           IN /\ Keeps(w, v) /\ v.thrown = w.thrown /\ v.kernels = w.kernels
              /\ v.pairs[p] = pair
              /\ \A q \in DOMAIN w.pairs : q # p => v.pairs[q] = w.pairs[q]
  <1> DEFINE pairs == [w.pairs EXCEPT ![p] = pair]
             v == SetPair(w, p, pair)
  <1>0. w \in WorldType
    BY DEF Sound
  <1>1. /\ pairs \in Seq(PairType) /\ DOMAIN pairs = DOMAIN w.pairs
        /\ pairs[p] = pair /\ \A q \in DOMAIN w.pairs : q # p => pairs[q] = w.pairs[q]
    BY <1>0 DEF WorldType
  <1>2. v = [w EXCEPT !.pairs = pairs]
    BY DEF SetPair
  <1> HIDE DEF pairs
  <1>3. /\ v \in WorldType /\ v.pairs = pairs /\ v.kernels = w.kernels /\ v.keeper = w.keeper
        /\ v.thrown = w.thrown
    BY <1>0, <1>1, <1>2 DEF WorldType
  <1> HIDE DEF v
  <1>4. SamePlaces(w, v)
    BY <1>3 DEF SamePlaces, AtTheirPlaces
  <1>5. Paired(v)
    BY <1>1, <1>3 DEF Sound, Paired
  <1>6. Bracketed(v)
    BY <1>3 DEF Sound, Bracketed
  <1>7. Keeps(w, v)
    BY <1>1, <1>3, <1>4, <1>5, <1>6, SamePlacesKeep DEF Keeps
  <1> QED
    BY <1>1, <1>3, <1>7 DEF v

-----------------------------------------------------------------------------
(* A kernel is copied. *)

\* The ports of a new kernel, by those of another.
FreshOf(ports) == [i \in DOMAIN ports |-> PortInfo(ports[i].my_name, ports[i].type, 0, 0)]

\* The ports of a copy have the names and the types of the original's, and lead nowhere.
LEMMA FreshPorts ==
    ASSUME NEW ports \in Seq(PortType)
    PROVE  /\ FreshOf(ports) \in Seq(PortType) /\ DOMAIN FreshOf(ports) = DOMAIN ports
           /\ \A i \in DOMAIN ports :
                /\ FreshOf(ports)[i].my_name = ports[i].my_name
                /\ FreshOf(ports)[i].other_kernel = NoKernel /\ FreshOf(ports)[i].fifo = NoFifo
  <1>1. ASSUME NEW i \in DOMAIN ports
        PROVE  PortInfo(ports[i].my_name, ports[i].type, 0, 0) \in PortType
    <2>1. ports[i] \in PortType
      OBVIOUS
    <2>2. ports[i].my_name \in STRING /\ ports[i].type \in STRING
      BY <2>1 DEF PortType
    <2> QED
      BY <2>2 DEF PortInfo, PortType, NoKernel, NoFifo, Texts
  <1>2. FreshOf(ports) \in Seq(PortType)
    <2>1. DOMAIN ports = 1 .. Len(ports) /\ Len(ports) \in Nat
      OBVIOUS
    <2>2. FreshOf(ports) \in [1 .. Len(ports) -> PortType]
      BY <1>1, <2>1 DEF FreshOf
    <2> QED
      BY <2>1, <2>2
  <1> QED
    BY <1>2 DEF FreshOf, PortInfo

\* The copy of a kernel was made for the map.
LEMMA CopyIs ==
    ASSUME NEW kernel \in KernelType, NEW id \in Nat
    PROVE  LET copy == CopyOf(kernel, id)
           IN /\ copy \in KernelType /\ copy.internal_alloc /\ copy.core_assign = NoCore
              /\ copy.enabled_port = <<>>
              /\ copy.input = FreshOf(kernel.input) /\ copy.output = FreshOf(kernel.output)
  <1> DEFINE ins == FreshOf(kernel.input)
             outs == FreshOf(kernel.output)
  <1>1. kernel.input \in Seq(PortType) /\ kernel.output \in Seq(PortType)
    BY DEF KernelType
  <1>2. ins \in Seq(PortType) /\ outs \in Seq(PortType)
    BY <1>1, FreshPorts
  <1>3. CopyOf(kernel, id) =
          [kernel EXCEPT !.id = id, !.internal_alloc = TRUE, !.enabled_port = <<>>,
                         !.input = ins, !.output = outs, !.core_assign = NoCore]
    BY DEF CopyOf, FreshOf
  <1> HIDE DEF ins, outs
  <1>4. NoCore \in Int /\ <<>> \in Seq(STRING)
    BY DEF NoCore
  <1> DEFINE copy == CopyOf(kernel, id)
  <1>5. copy \in KernelType
    BY <1>2, <1>3, <1>4 DEF KernelType
  <1>6. /\ copy.internal_alloc = TRUE /\ copy.core_assign = NoCore /\ copy.enabled_port = <<>>
        /\ copy.input = ins /\ copy.output = outs
    BY <1>3 DEF KernelType
  <1> QED
    BY <1>5, <1>6 DEF ins, outs

\* clone() adds a kernel that no port leads to, or it throws.
LEMMA CloneKeeps ==
    ASSUME NEW w, Sound(w), NEW k \in DOMAIN w.kernels
    PROVE  /\ Keeps(w, clone(w, k)) /\ clone(w, k).pairs = w.pairs
           /\ Newest(clone(w, k)) \in DOMAIN clone(w, k).kernels
           /\ clone(w, k).thrown = w.thrown \/ Thrown(clone(w, k))
  <1> DEFINE v == clone(w, k)
  <1>0. w \in WorldType /\ w.kernels[k] \in KernelType
    BY PortTypes DEF Sound
  <1>00. /\ w.kernels \in Seq(KernelType) /\ w.kernel_count \in Nat
         /\ DOMAIN w.kernels = 1 .. Len(w.kernels) /\ Len(w.kernels) \in Nat \ {0}
    BY <1>0 DEF WorldType
  <1>1. CASE Thrown(w)
    BY <1>00, <1>1, KeepsItself DEF clone, Newest
  <1>2. CASE ~Thrown(w) /\ ~w.kernels[k].clones
    <2>1. v = Throw(w, "CloneNotImplemented")
      BY <1>2 DEF clone
    <2>2. "CloneNotImplemented" \in Exceptions /\ "CloneNotImplemented" # NoException
      BY DEF Exceptions, NoException
    <2>3. Throw(w, "CloneNotImplemented").kernels = w.kernels /\ Throw(w, "CloneNotImplemented").pairs = w.pairs
      BY <1>0 DEF Throw, WorldType
    <2> QED
      BY <1>00, <2>1, <2>2, <2>3, ThrowKeeps DEF Newest, Thrown
  <1>3. CASE ~Thrown(w) /\ w.kernels[k].clones
    <2> DEFINE copy == CopyOf(w.kernels[k], w.kernel_count)
               all == Append(w.kernels, copy)
               new == Len(w.kernels) + 1
    <2>1. v = [w EXCEPT !.kernels = all, !.kernel_count = @ + 1]
      BY <1>3 DEF clone
    <2>2. /\ copy \in KernelType /\ copy.internal_alloc /\ copy.core_assign = NoCore
          /\ copy.enabled_port = <<>>
          /\ copy.input = FreshOf(w.kernels[k].input) /\ copy.output = FreshOf(w.kernels[k].output)
      BY <1>0, <1>00, CopyIs
    <2>3. /\ DOMAIN copy.input = DOMAIN w.kernels[k].input
          /\ DOMAIN copy.output = DOMAIN w.kernels[k].output
          /\ \A i \in DOMAIN copy.input : /\ copy.input[i].my_name = w.kernels[k].input[i].my_name
                                          /\ copy.input[i].other_kernel = NoKernel
                                          /\ copy.input[i].fifo = NoFifo
          /\ \A i \in DOMAIN copy.output : /\ copy.output[i].my_name = w.kernels[k].output[i].my_name
                                           /\ copy.output[i].other_kernel = NoKernel
                                           /\ copy.output[i].fifo = NoFifo
      BY <1>0, <2>2, PortTypes, FreshPorts
    <2> HIDE DEF copy
    <2>4. /\ all \in Seq(KernelType) /\ Len(all) = new /\ DOMAIN all = DOMAIN w.kernels \cup {new}
          /\ all[new] = copy /\ \A i \in DOMAIN w.kernels : all[i] = w.kernels[i]
          /\ new \notin DOMAIN w.kernels
      BY <1>00, <2>2
    <2> HIDE DEF all, new
    <2>5. /\ v \in WorldType /\ v.kernels = all /\ v.pairs = w.pairs /\ v.keeper = w.keeper
          /\ v.thrown = w.thrown
      <3>1. w.kernel_count + 1 \in Nat
        BY <1>00
      <3> QED
        BY <1>0, <2>1, <2>4, <3>1 DEF WorldType
    <2> HIDE DEF v
    <2>6. NamesApart(v)
      <3>1. Names(copy.input) /\ Names(copy.output)
        BY <2>3 DEF Sound, NamesApart, Names
      <3> QED
        BY <2>4, <2>5, <3>1 DEF Sound, NamesApart
    <2>7. ASSUME NEW a, NEW i, NEW b, NEW j, Stream(w, a, i, b, j)
          PROVE  Stream(v, a, i, b, j) /\ a \in DOMAIN w.kernels /\ b \in DOMAIN w.kernels
      BY <2>4, <2>5, <2>7 DEF Stream
    <2>8. Mutual(v)
      <3>1. ASSUME NEW c \in DOMAIN v.kernels, NEW i \in DOMAIN v.kernels[c].output,
                   v.kernels[c].output[i].other_kernel # NoKernel
            PROVE  \E j \in DOMAIN v.kernels[v.kernels[c].output[i].other_kernel].input :
                       Stream(v, c, i, v.kernels[c].output[i].other_kernel, j)
        <4>1. c \in DOMAIN w.kernels /\ v.kernels[c] = w.kernels[c]
          <5>1. CASE c = new
            BY <2>3, <2>4, <2>5, <3>1, <5>1
          <5> QED
            BY <2>4, <2>5, <3>1, <5>1
        <4> DEFINE b == w.kernels[c].output[i].other_kernel
        <4>2. PICK j \in DOMAIN w.kernels[b].input : Stream(w, c, i, b, j)
          BY <3>1, <4>1 DEF Sound, Mutual
        <4>3. Stream(v, c, i, b, j) /\ v.kernels[b] = w.kernels[b]
          BY <2>4, <2>5, <2>7, <4>2
        <4> QED
          BY <4>1, <4>2, <4>3
      <3>2. ASSUME NEW c \in DOMAIN v.kernels, NEW j \in DOMAIN v.kernels[c].input,
                   v.kernels[c].input[j].other_kernel # NoKernel
            PROVE  \E i \in DOMAIN v.kernels[v.kernels[c].input[j].other_kernel].output :
                       Stream(v, v.kernels[c].input[j].other_kernel, i, c, j)
        <4>1. c \in DOMAIN w.kernels /\ v.kernels[c] = w.kernels[c]
          <5>1. CASE c = new
            BY <2>3, <2>4, <2>5, <3>2, <5>1
          <5> QED
            BY <2>4, <2>5, <3>2, <5>1
        <4> DEFINE a == w.kernels[c].input[j].other_kernel
        <4>2. PICK i \in DOMAIN w.kernels[a].output : Stream(w, a, i, c, j)
          BY <3>2, <4>1 DEF Sound, Mutual
        <4>3. Stream(v, a, i, c, j) /\ v.kernels[a] = w.kernels[a]
          BY <2>4, <2>5, <2>7, <4>2
        <4> QED
          BY <4>1, <4>2, <4>3
      <3> QED
        BY <3>1, <3>2 DEF Mutual
    <2>9. Kept(v)
      BY <2>4, <2>5 DEF Sound, Kept
    <2>10. Paired(v)
      BY <2>4, <2>5 DEF Sound, Paired
    <2>11. Bracketed(v)
      <3>1. Len(copy.enabled_port) <= MaxEnabled
        BY <2>2 DEF MaxEnabled
      <3> QED
        BY <2>4, <2>5, <3>1 DEF Sound, Bracketed
    <2>12. Grows(w, v)
      <3>1. NoStreamAt(copy.input) /\ NoStreamAt(copy.output)
        BY <2>3 DEF NoStreamAt
      <3> QED
        BY <2>2, <2>4, <2>5, <3>1 DEF Grows, SamePorts, SamePort
    <2>13. Keeps(w, v)
      BY <2>5, <2>6, <2>8, <2>9, <2>10, <2>11, <2>12 DEF Keeps, Sound
    <2>14. Newest(v) \in DOMAIN v.kernels
      BY <2>4, <2>5 DEF Newest
    <2> QED
      BY <2>5, <2>13, <2>14 DEF v
  <1> QED
    BY <1>1, <1>2, <1>3

-----------------------------------------------------------------------------
(* The pieces of operator +=. *)

\* The pairs of a sound world have their type.
LEMMA PairTypes ==
    ASSUME NEW w, Sound(w), NEW p \in DOMAIN w.pairs
    PROVE  /\ w.pairs[p] \in PairType
           /\ w.pairs[p].src \in DOMAIN w.kernels /\ w.pairs[p].dst \in DOMAIN w.kernels
           /\ w.pairs[p].head \in DOMAIN w.pairs /\ w.pairs[p].next \in {NoPair} \cup DOMAIN w.pairs
           /\ DOMAIN w.pairs \subseteq Nat \ {0} /\ DOMAIN w.kernels \subseteq Nat \ {0}
  <1>1. w \in WorldType
    BY DEF Sound
  <1>2. w.pairs[p] \in PairType /\ DOMAIN w.pairs \subseteq Nat \ {0} /\ DOMAIN w.kernels \subseteq Nat \ {0}
    BY <1>1 DEF WorldType
  <1> QED
    BY <1>2 DEF Sound, Paired

\* A pair is given another source, another destination, or another port.
LEMMA PairFieldsKeep ==
    ASSUME NEW w, Sound(w), NEW p \in DOMAIN w.pairs,
           NEW k \in DOMAIN w.kernels, NEW name \in Texts
    PROVE  /\ Keeps(w, SetPair(w, p, [w.pairs[p] EXCEPT !.src = k]))
           /\ Keeps(w, SetPair(w, p, [w.pairs[p] EXCEPT !.dst = k]))
           /\ Keeps(w, SetPair(w, p, [w.pairs[p] EXCEPT !.dst_name = name]))
           /\ Keeps(w, SetPair(w, p, [w.pairs[p] EXCEPT !.src = k, !.src_name = name]))
           /\ Keeps(w, SetPair(w, p, [w.pairs[p] EXCEPT !.src = k, !.dst_name = name]))
  <1> DEFINE pair == w.pairs[p]
  <1>1. /\ pair \in PairType /\ pair.src \in DOMAIN w.kernels /\ pair.dst \in DOMAIN w.kernels
        /\ pair.head \in DOMAIN w.pairs /\ pair.next \in {NoPair} \cup DOMAIN w.pairs
        /\ k \in Nat
    BY PairTypes
  <1>2. ASSUME NEW new \in PairType, new.src \in {pair.src, k}, new.dst \in {pair.dst, k},
               new.head = pair.head, new.next = pair.next
        PROVE  Keeps(w, SetPair(w, p, new))
    <2>1. /\ new.src \in DOMAIN w.kernels /\ new.dst \in DOMAIN w.kernels
          /\ new.head \in DOMAIN w.pairs /\ new.next \in {NoPair} \cup DOMAIN w.pairs
      BY <1>1, <1>2
    <2> QED
      BY <2>1, SetPairKeeps
  <1> HIDE DEF pair
  <1>3. Keeps(w, SetPair(w, p, [pair EXCEPT !.src = k]))
    <2> DEFINE new == [pair EXCEPT !.src = k]
    <2>1. new \in PairType /\ new.src = k /\ new.dst = pair.dst /\ new.head = pair.head /\ new.next = pair.next
      BY <1>1 DEF PairType
    <2> HIDE DEF new
    <2>2. Keeps(w, SetPair(w, p, new))
      BY <1>2, <2>1
    <2> QED
      BY <2>2 DEF new
  <1>4. Keeps(w, SetPair(w, p, [pair EXCEPT !.dst = k]))
    <2> DEFINE new == [pair EXCEPT !.dst = k]
    <2>1. new \in PairType /\ new.src = pair.src /\ new.dst = k /\ new.head = pair.head /\ new.next = pair.next
      BY <1>1 DEF PairType
    <2> HIDE DEF new
    <2>2. Keeps(w, SetPair(w, p, new))
      BY <1>2, <2>1
    <2> QED
      BY <2>2 DEF new
  <1>5. Keeps(w, SetPair(w, p, [pair EXCEPT !.dst_name = name]))
    <2> DEFINE new == [pair EXCEPT !.dst_name = name]
    <2>1. new \in PairType /\ new.src = pair.src /\ new.dst = pair.dst /\ new.head = pair.head /\ new.next = pair.next
      BY <1>1 DEF PairType
    <2> HIDE DEF new
    <2>2. Keeps(w, SetPair(w, p, new))
      BY <1>2, <2>1
    <2> QED
      BY <2>2 DEF new
  <1>6. Keeps(w, SetPair(w, p, [pair EXCEPT !.src = k, !.src_name = name]))
    <2> DEFINE new == [pair EXCEPT !.src = k, !.src_name = name]
    <2>1. new \in PairType /\ new.src = k /\ new.dst = pair.dst /\ new.head = pair.head /\ new.next = pair.next
      BY <1>1 DEF PairType
    <2> HIDE DEF new
    <2>2. Keeps(w, SetPair(w, p, new))
      BY <1>2, <2>1
    <2> QED
      BY <2>2 DEF new
  <1>7. Keeps(w, SetPair(w, p, [pair EXCEPT !.src = k, !.dst_name = name]))
    <2> DEFINE new == [pair EXCEPT !.src = k, !.dst_name = name]
    <2>1. new \in PairType /\ new.src = k /\ new.dst = pair.dst /\ new.head = pair.head /\ new.next = pair.next
      BY <1>1 DEF PairType
    <2> HIDE DEF new
    <2>2. Keeps(w, SetPair(w, p, new))
      BY <1>2, <2>1
    <2> QED
      BY <2>2 DEF new
  <1> QED
    BY <1>3, <1>4, <1>5, <1>6, <1>7 DEF pair

\* joink() links what a pair says.
LEMMA JoinkKeeps ==
    ASSUME NEW w, Sound(w), NEW p \in DOMAIN w.pairs
    PROVE  Keeps(w, joink(w, p))
  <1>1. CASE Thrown(w)
    BY <1>1, KeepsItself DEF joink
  <1>2. CASE ~Thrown(w)
    <2>1. /\ w.pairs[p].src \in DOMAIN w.kernels /\ w.pairs[p].dst \in DOMAIN w.kernels
          /\ w.pairs[p] \in PairType
      BY PairTypes
    <2>2. /\ w.pairs[p].src_name \in Texts /\ w.pairs[p].dst_name \in Texts
          /\ w.pairs[p].buffer_size \in Nat /\ w.pairs[p].out_of_order \in BOOLEAN
      BY <2>1 DEF PairType
    <2>3. joink(w, p) = link(w, w.pairs[p].src, w.pairs[p].src_name, w.pairs[p].dst,
                             w.pairs[p].dst_name, w.pairs[p].buffer_size, w.pairs[p].out_of_order)
      BY <1>2 DEF joink
    <2> QED
      BY <2>1, <2>2, <2>3, LinkKeeps
  <1> QED
    BY <1>1, <1>2

\* The destination, or the source, of a pair is replaced by a copy of it.
LEMMA CloneEndKeeps ==
    ASSUME NEW w, Sound(w), NEW p \in DOMAIN w.pairs
    PROVE  Keeps(w, CloneDst(w, p)) /\ Keeps(w, CloneSrc(w, p))
  <1>0. /\ w.pairs[p].src \in DOMAIN w.kernels /\ w.pairs[p].dst \in DOMAIN w.kernels
        /\ NoName \in Texts
    BY PairTypes DEF Texts
  <1>1. ASSUME NEW v, Keeps(w, v), Newest(v) \in DOMAIN v.kernels
        PROVE  /\ Keeps(w, SetPair(v, p, [v.pairs[p] EXCEPT !.dst = Newest(v)]))
               /\ Keeps(w, SetPair(v, p, [v.pairs[p] EXCEPT !.src = Newest(v)]))
    <2>1. Sound(v) /\ p \in DOMAIN v.pairs
      BY <1>1 DEF Keeps
    <2>2. /\ Keeps(v, SetPair(v, p, [v.pairs[p] EXCEPT !.dst = Newest(v)]))
          /\ Keeps(v, SetPair(v, p, [v.pairs[p] EXCEPT !.src = Newest(v)]))
      BY <1>0, <1>1, <2>1, PairFieldsKeep
    <2> QED
      BY <1>1, <2>2, KeepsOn
  <1>2. Keeps(w, CloneDst(w, p))
    <2> DEFINE v == clone(w, w.pairs[p].dst)
    <2>1. Keeps(w, v) /\ Newest(v) \in DOMAIN v.kernels
      BY <1>0, CloneKeeps
    <2>2. CloneDst(w, p) = IF Thrown(v) THEN v ELSE SetPair(v, p, [v.pairs[p] EXCEPT !.dst = Newest(v)])
      BY DEF CloneDst
    <2> HIDE DEF v
    <2> QED
      BY <1>1, <2>1, <2>2
  <1>3. Keeps(w, CloneSrc(w, p))
    <2> DEFINE v == clone(w, w.pairs[p].src)
    <2>1. Keeps(w, v) /\ Newest(v) \in DOMAIN v.kernels
      BY <1>0, CloneKeeps
    <2>2. CloneSrc(w, p) = IF Thrown(v) THEN v ELSE SetPair(v, p, [v.pairs[p] EXCEPT !.src = Newest(v)])
      BY DEF CloneSrc
    <2> HIDE DEF v
    <2> QED
      BY <1>1, <2>1, <2>2
  <1> QED
    BY <1>2, <1>3

\* The two kernels of the pair at the head are copied and linked.
LEMMA CopyChainKeeps ==
    ASSUME NEW w, Sound(w), NEW h \in DOMAIN w.pairs, NEW p \in DOMAIN w.pairs
    PROVE  Keeps(w, CopyChain(w, h, p))
  <1> DEFINE a == CloneSrc(w, h)
             b == CloneDst(a, h)
             v == joink(b, h)
  <1>1. Keeps(w, a)
    BY CloneEndKeeps
  <1> HIDE DEF a
  <1>2. Sound(a) /\ h \in DOMAIN a.pairs
    BY <1>1 DEF Keeps
  <1>3. Keeps(a, b)
    BY <1>2, CloneEndKeeps
  <1> HIDE DEF b
  <1>4. Sound(b) /\ h \in DOMAIN b.pairs
    BY <1>2, <1>3 DEF Keeps
  <1>5. Keeps(b, v)
    BY <1>4, JoinkKeeps
  <1> HIDE DEF v
  <1>6. Keeps(w, v) /\ Sound(v) /\ h \in DOMAIN v.pairs /\ p \in DOMAIN v.pairs
    BY <1>1, <1>3, <1>5, KeepsOn DEF Keeps
  <1>7. v.pairs[h].dst \in DOMAIN v.kernels /\ NoName \in Texts
    BY <1>6, PairTypes DEF Texts
  <1>8. Keeps(v, SetPair(v, p, [v.pairs[p] EXCEPT !.src = v.pairs[h].dst]))
    BY <1>6, <1>7, PairFieldsKeep
  <1>9. CopyChain(w, h, p) = IF Thrown(v) THEN v ELSE SetPair(v, p, [v.pairs[p] EXCEPT !.src = v.pairs[h].dst])
    BY DEF CopyChain, v, b, a
  <1> QED
    BY <1>6, <1>8, <1>9, KeepsOn

-----------------------------------------------------------------------------
(* The operators of a statement. *)

\* The pairs are replaced by others that are sound.
LEMMA PairsKeep ==
    ASSUME NEW w, Sound(w), NEW pairs \in Seq(PairType),
           \A p \in DOMAIN pairs :
             /\ pairs[p].src \in DOMAIN w.kernels /\ pairs[p].dst \in DOMAIN w.kernels
             /\ pairs[p].head \in DOMAIN pairs /\ pairs[p].next \in {NoPair} \cup DOMAIN pairs
    PROVE  LET v == [w EXCEPT !.pairs = pairs]
           IN Sound(v) /\ Grows(w, v) /\ v.pairs = pairs /\ v.kernels = w.kernels /\ v.thrown = w.thrown
  <1> DEFINE v == [w EXCEPT !.pairs = pairs]
  <1>1. /\ v \in WorldType /\ v.pairs = pairs /\ v.kernels = w.kernels /\ v.keeper = w.keeper
        /\ v.thrown = w.thrown
    BY DEF Sound, WorldType
  <1> HIDE DEF v
  <1>2. SamePlaces(w, v)
    BY <1>1 DEF SamePlaces, AtTheirPlaces
  <1>3. Paired(v)
    BY <1>1 DEF Paired
  <1>4. Bracketed(v)
    BY <1>1 DEF Sound, Bracketed
  <1>5. Sound(v) /\ Grows(w, v)
    BY <1>1, <1>2, <1>3, <1>4, SamePlacesKeep
  <1> QED
    BY <1>1, <1>5 DEF v

\* An operand is a kernel there is, or a pair there is.
GoodOperand(w, x) ==
    /\ x.pair \in Nat /\ x.ports \in Seq(STRING)
    /\ IF IsPair(x) THEN x.pair \in DOMAIN w.pairs /\ x.ports = <<>> ELSE x.kernel \in DOMAIN w.kernels

\* The brackets of an operand.
LEMMA BracketsKeep ==
    ASSUME NEW w, Sound(w), NEW x, GoodOperand(w, x)
    PROVE  LET v == Brackets(w, x)
           IN Keeps(w, v) /\ v.pairs = w.pairs /\ DOMAIN v.kernels = DOMAIN w.kernels
  <1> DEFINE k == x.kernel
             names == w.kernels[k].enabled_port
             free == MaxEnabled - Len(names)
  <1>1. CASE Thrown(w) \/ x.ports = <<>>
    <2>1. Brackets(w, x) = w
      BY <1>1 DEF Brackets
    <2> QED
      BY <2>1, KeepsItself
  <1>2. CASE ~Thrown(w) /\ x.ports # <<>>
    <2>1. /\ k \in DOMAIN w.kernels /\ x.ports \in Seq(STRING) /\ Len(x.ports) \in Nat \ {0}
      BY <1>2 DEF GoodOperand
    <2>2. names \in Seq(STRING) /\ free \in Nat /\ Len(names) \in Nat /\ MaxEnabled \in Nat
      <3>1. w.kernels[k] \in KernelType
        BY <2>1, PortTypes DEF Sound
      <3>2. names \in Seq(STRING)
        BY <3>1 DEF KernelType
      <3> QED
        BY <2>1, <3>2 DEF Sound, Bracketed, MaxEnabled
    <2>30. Brackets(w, x) = IF Len(x.ports) <= free THEN Enabled(w, k, x.ports)
                            ELSE Throw(Enabled(w, k, SubSeq(x.ports, 1, free)), "AmbiguousPortAssignment")
      BY <1>2, <2>1, <2>2 DEF Brackets
    <2>31. \A more : Enabled(w, k, more) =
                        [w EXCEPT !.kernels[k] = [w.kernels[k] EXCEPT !.enabled_port = names \o more]]
      BY DEF Enabled
    <2>32. free = MaxEnabled - Len(names)
      OBVIOUS
    <2> HIDE DEF names, free
    <2>3. ASSUME NEW more \in Seq(STRING), Len(more) <= free
          PROVE  LET v == Enabled(w, k, more)
                 IN Keeps(w, v) /\ v.pairs = w.pairs /\ DOMAIN v.kernels = DOMAIN w.kernels
      <3> DEFINE new == names \o more
      <3>1. new \in Seq(STRING) /\ Len(new) <= MaxEnabled
        BY <2>2, <2>3, <2>32
      <3>2. Enabled(w, k, more) = [w EXCEPT !.kernels[k] = [w.kernels[k] EXCEPT !.enabled_port = new]]
        BY <2>31
      <3> HIDE DEF new
      <3> QED
        BY <2>1, <3>1, <3>2, EnabledPortKeeps
    <2>4. CASE Len(x.ports) <= free
      <3>1. Brackets(w, x) = Enabled(w, k, x.ports)
        BY <2>4, <2>30
      <3> QED
        BY <2>1, <2>2, <2>3, <2>4, <3>1
    <2>5. CASE Len(x.ports) > free
      <3> DEFINE more == SubSeq(x.ports, 1, free)
                 v == Enabled(w, k, more)
                 e == "AmbiguousPortAssignment"
      <3>1. Brackets(w, x) = Throw(v, e)
        BY <2>1, <2>2, <2>5, <2>30
      <3>2. more \in Seq(STRING) /\ Len(more) <= free
        <4>1. ASSUME NEW s \in Seq(STRING), NEW n \in Nat, n < Len(s)
              PROVE  SubSeq(s, 1, n) \in Seq(STRING) /\ Len(SubSeq(s, 1, n)) = n
          BY <4>1
        <4> QED
          BY <2>1, <2>2, <2>5, <4>1
      <3>3. Keeps(w, v) /\ v.pairs = w.pairs /\ DOMAIN v.kernels = DOMAIN w.kernels
        BY <2>3, <3>2
      <3> HIDE DEF v
      <3>4. Sound(v) /\ e \in Exceptions
        BY <3>3 DEF Keeps, Exceptions, PortExceptions
      <3>5. Keeps(v, Throw(v, e)) /\ Throw(v, e).pairs = v.pairs /\ Throw(v, e).kernels = v.kernels
        BY <3>4, ThrowKeeps DEF Throw, Sound, WorldType
      <3> QED
        BY <3>1, <3>3, <3>5, KeepsOn
    <2> QED
      BY <2>1, <2>2, <2>4, <2>5
  <1> QED
    BY <1>1, <1>2

\* The port that was enabled first is enabled no more.
LEMMA DisabledKeeps ==
    ASSUME NEW w, Sound(w), NEW k \in DOMAIN w.kernels
    PROVE  /\ Keeps(w, Disabled(w, k)) /\ Disabled(w, k).pairs = w.pairs
           /\ Disabled(w, k).thrown = w.thrown
           /\ DOMAIN Disabled(w, k).kernels = DOMAIN w.kernels
           /\ EnabledPort(w.kernels[k]) \in Texts
  <1> DEFINE names == w.kernels[k].enabled_port
  <1>0. w.kernels[k] \in KernelType /\ w \in WorldType
    BY PortTypes DEF Sound
  <1>1. names \in Seq(STRING) /\ Len(names) <= MaxEnabled
    BY <1>0 DEF KernelType, Sound, Bracketed
  <1>2. EnabledPort(w.kernels[k]) \in Texts
    BY <1>1 DEF EnabledPort, Texts
  <1>3. CASE names = <<>>
    <2>1. Disabled(w, k) = w
      <3>1. [w EXCEPT !.kernels[k] = w.kernels[k]] = w
        BY <1>0 DEF WorldType
      <3> QED
        BY <1>3, <3>1 DEF Disabled, Disable
    <2> QED
      BY <1>2, <2>1, KeepsItself
  <1>4. CASE names # <<>>
    <2> DEFINE rest == Tail(names)
    <2>1. rest \in Seq(STRING) /\ Len(rest) <= MaxEnabled
      <3> HIDE DEF names
      <3>1. Tail(names) \in Seq(STRING) /\ Len(Tail(names)) = Len(names) - 1 /\ Len(names) \in Nat
        BY <1>1, <1>4
      <3> QED
        BY <1>1, <3>1 DEF MaxEnabled
    <2>2. Disabled(w, k) = [w EXCEPT !.kernels[k] = [w.kernels[k] EXCEPT !.enabled_port = rest]]
      BY <1>4 DEF Disabled, Disable
    <2> HIDE DEF rest
    <2> QED
      BY <1>2, <2>1, <2>2, EnabledPortKeeps
  <1> QED
    BY <1>3, <1>4

\* An operator adds one pair.
AddsPair(w, v) ==
    /\ Sound(v) /\ Grows(w, v) /\ v.thrown = w.thrown /\ DOMAIN v.kernels = DOMAIN w.kernels
    /\ Len(v.pairs) = Len(w.pairs) + 1

\* The pair of two kernels, with the ports they have enabled.
LEMMA TwoKernelsKeep ==
    ASSUME NEW w, Sound(w), NEW a \in DOMAIN w.kernels, NEW b \in DOMAIN w.kernels
    PROVE  LET v == TwoKernels(w, a, b)
           IN AddsPair(w, v) /\ \A q \in DOMAIN w.pairs : v.pairs[q] = w.pairs[q]
  <1> DEFINE u == Disabled(w, a)
             x == Disabled(u, b)
             p == Len(w.pairs) + 1
             new == [src |-> a, src_name |-> EnabledPort(w.kernels[a]),
                     dst |-> b, dst_name |-> EnabledPort(u.kernels[b]),
                     src_out_count |-> count(w.kernels[a].output),
                     dst_in_count |-> count(w.kernels[b].input),
                     buffer_size |-> 0, out_of_order |-> FALSE,
                     split_to |-> FALSE, join_from |-> FALSE, head |-> p, next |-> NoPair]
             pairs == Append(x.pairs, new)
             v == [x EXCEPT !.pairs = pairs]
  <1>1. TwoKernels(w, a, b) = v
    BY DEF TwoKernels
  <1>2. /\ w.pairs \in Seq(PairType) /\ Len(w.pairs) \in Nat /\ DOMAIN w.pairs = 1 .. Len(w.pairs)
        /\ a \in Nat /\ b \in Nat
    BY DEF Sound, WorldType
  <1>3. /\ Keeps(w, u) /\ u.pairs = w.pairs /\ u.thrown = w.thrown /\ DOMAIN u.kernels = DOMAIN w.kernels
        /\ EnabledPort(w.kernels[a]) \in Texts
    BY DisabledKeeps
  <1> HIDE DEF u
  <1>4. Sound(u)
    BY <1>3 DEF Keeps
  <1>5. /\ Keeps(u, x) /\ x.pairs = w.pairs /\ x.thrown = w.thrown /\ DOMAIN x.kernels = DOMAIN w.kernels
        /\ EnabledPort(u.kernels[b]) \in Texts
    BY <1>3, <1>4, DisabledKeeps
  <1> HIDE DEF x
  <1>6. Sound(x) /\ Grows(w, x)
    BY <1>3, <1>5, KeepsOn DEF Keeps
  <1>7. count(w.kernels[a].output) \in Nat /\ count(w.kernels[b].input) \in Nat
    <2>1. w.kernels[a].output \in Seq(PortType) /\ w.kernels[b].input \in Seq(PortType)
      BY PortTypes DEF Sound
    <2> QED
      BY <2>1 DEF count
  <1>8. /\ new \in PairType /\ new.src = a /\ new.dst = b /\ new.head = p /\ new.next = NoPair
    BY <1>2, <1>3, <1>5, <1>7 DEF PairType, NoPair
  <1> HIDE DEF new
  <1>9. /\ pairs \in Seq(PairType) /\ Len(pairs) = p /\ DOMAIN pairs = 1 .. p
        /\ pairs[p] = new /\ \A q \in DOMAIN w.pairs : pairs[q] = w.pairs[q]
    BY <1>2, <1>5, <1>8
  <1> HIDE DEF pairs
  <1>10. ASSUME NEW q \in DOMAIN pairs
         PROVE  /\ pairs[q].src \in DOMAIN x.kernels /\ pairs[q].dst \in DOMAIN x.kernels
                /\ pairs[q].head \in DOMAIN pairs /\ pairs[q].next \in {NoPair} \cup DOMAIN pairs
    <2>1. CASE q = p
      BY <1>2, <1>5, <1>8, <1>9, <2>1
    <2>2. CASE q # p
      <3>1. q \in DOMAIN w.pairs
        BY <1>2, <1>9, <2>2
      <3> QED
        BY <1>2, <1>5, <1>9, <3>1, PairTypes
    <2> QED
      BY <2>1, <2>2
  <1>11. Sound(v) /\ Grows(x, v) /\ v.pairs = pairs /\ v.kernels = x.kernels /\ v.thrown = x.thrown
    BY <1>6, <1>9, <1>10, PairsKeep
  <1> HIDE DEF v
  <1>12. Grows(w, v)
    BY <1>6, <1>11, GrowsOn
  <1> QED
    BY <1>1, <1>2, <1>5, <1>9, <1>11, <1>12 DEF AddsPair

\* Each constructor of a pair: one that is chained to the pairs on its sides.
LEMMA NewPairKeeps ==
    ASSUME NEW w, Sound(w), NEW l, NEW r, GoodOperand(w, l), GoodOperand(w, r),
           NEW split \in BOOLEAN, NEW join_ \in BOOLEAN
    PROVE  AddsPair(w, NewPair(w, l, r, split, join_))
  <1> DEFINE a == IF IsPair(l) THEN w.pairs[l.pair].dst ELSE l.kernel
             b == IF IsPair(r) THEN w.pairs[r.pair].src ELSE r.kernel
             v == TwoKernels(w, a, b)
             p == Len(v.pairs)
             head == IF IsPair(l) THEN w.pairs[l.pair].head ELSE p
             new == [v.pairs[p] EXCEPT !.head = head, !.next = r.pair,
                                       !.split_to = split, !.join_from = join_]
             pairs == [i \in 1..p |->
                         CASE i = p -> new
                           [] IsPair(l) /\ i = l.pair -> [v.pairs[i] EXCEPT !.next = p]
                           [] IsPair(l) /\ i = r.pair -> [v.pairs[i] EXCEPT !.head = head]
                           [] OTHER -> v.pairs[i]]
             u == [v EXCEPT !.pairs = pairs]
  <1>1. NewPair(w, l, r, split, join_) = u
    BY DEF NewPair
  <1>2. a \in DOMAIN w.kernels /\ b \in DOMAIN w.kernels
    <2>1. a \in DOMAIN w.kernels
      BY PairTypes DEF GoodOperand
    <2>2. b \in DOMAIN w.kernels
      BY PairTypes DEF GoodOperand
    <2> QED
      BY <2>1, <2>2
  <1> HIDE DEF a, b
  <1>3. AddsPair(w, v) /\ \A q \in DOMAIN w.pairs : v.pairs[q] = w.pairs[q]
    BY <1>2, TwoKernelsKeep
  <1> HIDE DEF v
  <1>4. Sound(v) /\ Grows(w, v) /\ v.thrown = w.thrown /\ DOMAIN v.kernels = DOMAIN w.kernels
    BY <1>3 DEF AddsPair
  <1>5. /\ v.pairs \in Seq(PairType) /\ p \in Nat \ {0} /\ DOMAIN v.pairs = 1 .. p
        /\ DOMAIN w.pairs = 1 .. p - 1 /\ p = Len(w.pairs) + 1
    BY <1>3 DEF AddsPair, Sound, WorldType
  <1>6. head \in 1 .. p
    <2>1. CASE IsPair(l)
      <3>1. w.pairs[l.pair].head \in DOMAIN w.pairs
        BY <2>1, PairTypes DEF GoodOperand
      <3> QED
        BY <1>5, <2>1, <3>1
    <2> QED
      BY <1>5, <2>1
  <1>7. r.pair \in {NoPair} \cup 1 .. p
    BY <1>5 DEF GoodOperand, IsPair
  <1>8. r.pair \in Nat
    BY DEF GoodOperand
  <1> HIDE DEF head, p
  <1>9. ASSUME NEW i \in 1 .. p
        PROVE  /\ v.pairs[i] \in PairType
               /\ v.pairs[i].src \in DOMAIN v.kernels /\ v.pairs[i].dst \in DOMAIN v.kernels
               /\ v.pairs[i].head \in 1 .. p /\ v.pairs[i].next \in {NoPair} \cup 1 .. p
    BY <1>4, <1>5, PairTypes
  <1>10. ASSUME NEW i \in 1 .. p
         PROVE  /\ pairs[i] \in PairType
                /\ pairs[i].src \in DOMAIN v.kernels /\ pairs[i].dst \in DOMAIN v.kernels
                /\ pairs[i].head \in 1 .. p /\ pairs[i].next \in {NoPair} \cup 1 .. p
    <2> DEFINE onward == [v.pairs[i] EXCEPT !.next = p]
               begun == [v.pairs[i] EXCEPT !.head = head]
    <2>0. \/ i = p /\ pairs[i] = new
          \/ pairs[i] = onward
          \/ pairs[i] = begun
          \/ pairs[i] = v.pairs[i]
      <3> HIDE DEF new, onward, begun
      <3>1. pairs[i] = CASE i = p -> new
                         [] IsPair(l) /\ i = l.pair -> onward
                         [] IsPair(l) /\ i = r.pair -> begun
                         [] OTHER -> v.pairs[i]
        BY DEF onward, begun
      <3> HIDE DEF pairs
      <3> QED
        BY <3>1
    <2> HIDE DEF pairs
    <2>1. CASE i = p /\ pairs[i] = new
      <3>0. v.pairs[p] \in PairType /\ head \in Nat
        BY <1>5, <1>6, <1>9
      <3>1. /\ new \in PairType /\ new.src = v.pairs[p].src /\ new.dst = v.pairs[p].dst
            /\ new.head = head /\ new.next = r.pair
        BY <1>8, <3>0 DEF PairType
      <3> QED
        BY <1>6, <1>7, <1>9, <2>1, <3>1
    <2>2. CASE pairs[i] = onward
      <3>1. /\ onward \in PairType /\ onward.src = v.pairs[i].src /\ onward.dst = v.pairs[i].dst
            /\ onward.head = v.pairs[i].head /\ onward.next = p
        <4>1. v.pairs[i] \in PairType /\ p \in Nat
          BY <1>5, <1>9
        <4> QED
          BY <4>1 DEF PairType
      <3> QED
        BY <1>5, <1>9, <2>2, <3>1
    <2>3. CASE pairs[i] = begun
      <3>1. /\ begun \in PairType /\ begun.src = v.pairs[i].src /\ begun.dst = v.pairs[i].dst
            /\ begun.head = head /\ begun.next = v.pairs[i].next
        BY <1>6, <1>9 DEF PairType
      <3> QED
        BY <1>6, <1>9, <2>3, <3>1
    <2>4. CASE pairs[i] = v.pairs[i]
      BY <1>9, <2>4
    <2> QED
      BY <2>0, <2>1, <2>2, <2>3, <2>4
  <1>11. DOMAIN pairs = 1 .. p
    OBVIOUS
  <1> HIDE DEF pairs
  <1>12. pairs \in Seq(PairType) /\ Len(pairs) = p
    <2>1. pairs \in [1 .. p -> PairType]
      BY <1>10, <1>11 DEF pairs
    <2> QED
      BY <1>5, <2>1
  <1>13. Sound(u) /\ Grows(v, u) /\ u.pairs = pairs /\ u.kernels = v.kernels /\ u.thrown = v.thrown
    BY <1>4, <1>10, <1>11, <1>12, PairsKeep
  <1> HIDE DEF u
  <1>14. Grows(w, u)
    BY <1>4, <1>13, GrowsOn
  <1> QED
    BY <1>1, <1>4, <1>5, <1>12, <1>13, <1>14 DEF AddsPair

\* What an operator of a statement does: it throws and leaves no pair behind, or it
\* adds one.
LEMMA ApplyKeeps ==
    ASSUME NEW w, Sound(w), NEW l, NEW r, GoodOperand(w, l), GoodOperand(w, r),
           NEW op \in {">>", ">>out", "<=", ">="}
    PROVE  LET v == Apply(w, op, l, r)
           IN /\ Sound(v) /\ Grows(w, v)
              /\ ~Thrown(v) => Len(v.pairs) = Len(w.pairs) + 1
  <1> DEFINE x == Brackets(w, l)
             v == Brackets(x, r)
             result == Apply(w, op, l, r)
  <1>1. Keeps(w, x) /\ x.pairs = w.pairs /\ DOMAIN x.kernels = DOMAIN w.kernels
    BY BracketsKeep
  <1>2. result = CASE Thrown(v) -> v
                   [] ~Thrown(v) /\ op = ">>" -> Continue(v, l, r)
                   [] ~Thrown(v) /\ op = ">>out" -> ContinueOutOfOrder(v, l, r)
                   [] ~Thrown(v) /\ op = "<=" -> Split(v, l, r)
                   [] ~Thrown(v) /\ op = ">=" -> Join(v, l, r)
    BY DEF Apply
  <1> HIDE DEF x, result
  <1>3. Sound(x) /\ GoodOperand(x, r)
    BY <1>1 DEF Keeps, GoodOperand
  <1>4. Keeps(x, v) /\ v.pairs = x.pairs /\ DOMAIN v.kernels = DOMAIN x.kernels
    BY <1>3, BracketsKeep
  <1> HIDE DEF v
  <1>5. Sound(v) /\ Grows(w, v) /\ GoodOperand(v, l) /\ GoodOperand(v, r) /\ v.pairs = w.pairs
    BY <1>1, <1>4, KeepsOn DEF Keeps, GoodOperand
  <1>6. ASSUME NEW split \in BOOLEAN, NEW join_ \in BOOLEAN
        PROVE  AddsPair(v, NewPair(v, l, r, split, join_))
    BY <1>5, NewPairKeeps
  <1>7. ASSUME NEW u, AddsPair(v, u)
        PROVE  Sound(u) /\ Grows(w, u) /\ Len(u.pairs) = Len(w.pairs) + 1
    BY <1>5, <1>7, GrowsOn DEF AddsPair
  <1>8. CASE Thrown(v)
    BY <1>2, <1>5, <1>8 DEF result
  <1>9. CASE ~Thrown(v) /\ op = ">>"
    <2>1. result = NewPair(v, l, r, FALSE, FALSE)
      BY <1>2, <1>9 DEF Continue
    <2> QED
      BY <1>6, <1>7, <2>1 DEF result
  <1>10. CASE ~Thrown(v) /\ op = "<="
    <2>1. result = NewPair(v, l, r, TRUE, FALSE)
      BY <1>2, <1>10 DEF Split
    <2> QED
      BY <1>6, <1>7, <2>1 DEF result
  <1>11. CASE ~Thrown(v) /\ op = ">="
    <2>1. result = NewPair(v, l, r, FALSE, TRUE)
      BY <1>2, <1>11 DEF Join
    <2> QED
      BY <1>6, <1>7, <2>1 DEF result
  <1>12. CASE ~Thrown(v) /\ op = ">>out"
    <2> DEFINE u == NewPair(v, l, r, FALSE, FALSE)
               p == Len(u.pairs)
               new == [u.pairs[p] EXCEPT !.out_of_order = TRUE]
    <2>1. result = SetPair(u, p, new)
      BY <1>2, <1>12 DEF ContinueOutOfOrder, setOoO
    <2>2. AddsPair(v, u)
      BY <1>6
    <2> HIDE DEF u
    <2>3. Sound(u) /\ Grows(w, u) /\ p = Len(w.pairs) + 1
      BY <1>7, <2>2
    <2>4. p \in DOMAIN u.pairs /\ Len(w.pairs) \in Nat /\ p = Len(u.pairs) /\ u.pairs \in Seq(PairType)
      BY <2>3 DEF Sound, WorldType
    <2> HIDE DEF p
    <2>5. /\ u.pairs[p] \in PairType
          /\ u.pairs[p].src \in DOMAIN u.kernels /\ u.pairs[p].dst \in DOMAIN u.kernels
          /\ u.pairs[p].head \in DOMAIN u.pairs /\ u.pairs[p].next \in {NoPair} \cup DOMAIN u.pairs
      BY <2>3, <2>4, PairTypes
    <2>6. /\ new \in PairType /\ new.src = u.pairs[p].src /\ new.dst = u.pairs[p].dst
          /\ new.head = u.pairs[p].head /\ new.next = u.pairs[p].next
      BY <2>5 DEF PairType
    <2> HIDE DEF new
    <2>7. Keeps(u, SetPair(u, p, new))
      BY <2>3, <2>4, <2>5, <2>6, SetPairKeeps
    <2>8. Sound(result) /\ Grows(w, result) /\ DOMAIN result.pairs = DOMAIN u.pairs
      BY <2>1, <2>3, <2>7, GrowsOn DEF Keeps
    <2>9. Len(result.pairs) = Len(u.pairs)
      BY <2>3, <2>8 DEF Sound, WorldType
    <2> QED
      BY <2>3, <2>4, <2>8, <2>9 DEF result
  <1> QED
    BY <1>8, <1>9, <1>10, <1>11, <1>12

-----------------------------------------------------------------------------
(* The inductive invariant of graph construction. *)

\* The local variables of operator +=: kernels there are, in groups, and the pair that
\* is next.  Nothing is said of the sources.
AddType(a, w) ==
    a \in [next : {NoPair} \cup DOMAIN w.pairs,
           groups : Seq(Seq(DOMAIN w.kernels)), temp_groups : Seq(Seq(DOMAIN w.kernels)),
           split_out_edges : Seq(Nat), initialized : BOOLEAN, src : {a.src},
           dst : Seq(DOMAIN w.kernels), group : Nat \ {0}, kernel : Nat \ {0}, port : Nat]

InExe == {"partition", "dot", "dotting", "spawn", "wait", "join_sched", "join_mem", "join_para"}

\* The world is sound until the map is destroyed, which forgets the kernels to delete;
\* the streams stay as they are even then.
GraphSound ==
    /\ graph \in WorldType /\ NamesApart(graph) /\ Mutual(graph) /\ Bracketed(graph)
    /\ pc # "done" => Sound(graph)
    /\ pc \notin {"thrown", "terminated"} => ~Thrown(graph)

\* The kernels of main() come first, and those behind them were made for the map.
KernelsMade ==
    /\ Declared <= Len(graph.kernels)
    /\ \A k \in DOMAIN graph.kernels :
         graph.kernels[k].internal_alloc <=> (k > Declared \/ Program[prog].kernels[k].made)

\* Between the operators of a statement there is a pair for each that was evaluated,
\* and there is none outside of additions.
AtWork ==
    /\ prog \in Programs /\ stmt \in Nat \ {0} /\ step \in Nat \ {0}
    /\ ret.dst \in Seq(DOMAIN graph.kernels)
    /\ pc = "main" => Len(graph.pairs) = step - 1 /\ (step > 1 => AtStatement("add"))
    /\ pc \in InExe => graph.pairs = <<>>
    /\ pc = "adding" => AddType(add, graph)

MInv == GraphSound /\ KernelsMade /\ AtWork

-----------------------------------------------------------------------------
(* The steps of graph construction. *)

\* A sequence of kernels there are is one when there are more.
LEMMA SeqGrows ==
    ASSUME NEW S, NEW T, S \subseteq T
    PROVE  (\A s \in Seq(S) : s \in Seq(T)) /\ (\A s \in Seq(Seq(S)) : s \in Seq(Seq(T)))
  OBVIOUS

\* One kernel is a sequence of kernels.
LEMMA OneElement ==
    ASSUME NEW S, NEW x \in S
    PROVE  <<x>> \in Seq(S)
  OBVIOUS

\* The parts of a sequence, and two sequences put together.
LEMMA SeqParts ==
    ASSUME NEW S, NEW s \in Seq(S), NEW t \in Seq(S)
    PROVE  /\ s # <<>> => Head(s) \in S /\ Tail(s) \in Seq(S)
           /\ s \o t \in Seq(S)
  OBVIOUS

\* The destinations so far stay groups of kernels.
LEMMA GroupsStay ==
    ASSUME NEW S, NEW groups \in Seq(Seq(S)), NEW k \in S
    PROVE  /\ NewGroup(groups) \in Seq(Seq(S))
           /\ Put(groups, k) \in Seq(Seq(S)) /\ PutFirst(groups, k) \in Seq(Seq(S))
  <1>0. Len(groups) \in Nat /\ DOMAIN groups = 1 .. Len(groups) /\ \A g \in DOMAIN groups : groups[g] \in Seq(S)
    OBVIOUS
  <1>1. NewGroup(groups) \in Seq(Seq(S))
    <2>1. <<>> \in Seq(S)
      OBVIOUS
    <2> HIDE DEF NewGroup
    <2> QED
      BY <2>1 DEF NewGroup
  <1>2. ASSUME NEW g \in Nat
        PROVE  [groups EXCEPT ![g] = Append(@, k)] \in Seq(Seq(S))
    <2> DEFINE new == Append(groups[g], k)
               result == [groups EXCEPT ![g] = new]
    <2>1. g \in DOMAIN groups => new \in Seq(S)
      BY <1>0
    <2> HIDE DEF new
    <2>2. result \in [1 .. Len(groups) -> Seq(S)]
      BY <1>0, <2>1
    <2>3. result \in Seq(Seq(S))
      BY <1>0, <2>2
    <2> QED
      BY <2>3 DEF new
  <1> QED
    BY <1>0, <1>1, <1>2 DEF Put, PutFirst

\* operator += goes on in a world that has grown.
LEMMA AddTypeGrows ==
    ASSUME NEW a, NEW w, NEW v, AddType(a, w), Keeps(w, v)
    PROVE  AddType(a, v)
  <1>1. DOMAIN w.kernels \subseteq DOMAIN v.kernels /\ DOMAIN v.pairs = DOMAIN w.pairs
    BY DEF Keeps, Grows
  <1>2. /\ a.groups \in Seq(Seq(DOMAIN w.kernels)) /\ a.temp_groups \in Seq(Seq(DOMAIN w.kernels))
        /\ a.dst \in Seq(DOMAIN w.kernels)
    BY DEF AddType
  <1>3. /\ a.groups \in Seq(Seq(DOMAIN v.kernels)) /\ a.temp_groups \in Seq(Seq(DOMAIN v.kernels))
        /\ a.dst \in Seq(DOMAIN v.kernels)
    BY <1>1, <1>2, SeqGrows
  <1> QED
    BY <1>1, <1>3 DEF AddType

\* The local variables that the loops of operator += count with.
LEMMA AddTypeTurns ==
    ASSUME NEW a, NEW w, AddType(a, w), NEW temp \in Seq(Seq(DOMAIN w.kernels)),
           NEW groups \in Seq(Seq(DOMAIN w.kernels)), NEW dst \in Seq(DOMAIN w.kernels)
    PROVE  /\ AddType([a EXCEPT !.temp_groups = temp], w)
           /\ AddType([a EXCEPT !.temp_groups = temp, !.kernel = @ + 1], w)
           /\ AddType([a EXCEPT !.temp_groups = temp, !.port = 1], w)
           /\ AddType([a EXCEPT !.temp_groups = temp, !.port = @ + 1], w)
           /\ AddType([a EXCEPT !.group = @ + 1, !.kernel = 1, !.port = 0], w)
           /\ AddType([a EXCEPT !.kernel = @ + 1, !.port = 0], w)
           /\ AddType([a EXCEPT !.port = @ + 1], w)
           /\ AddType([a EXCEPT !.port = @ + 1, !.groups = groups], w)
           /\ AddType([a EXCEPT !.dst = dst, !.groups = groups], w)
  <1>1. a.kernel + 1 \in Nat \ {0} /\ a.port + 1 \in Nat /\ a.group + 1 \in Nat \ {0}
    BY DEF AddType
  <1>2. AddType([a EXCEPT !.temp_groups = temp], w)
    BY DEF AddType
  <1>3. AddType([a EXCEPT !.temp_groups = temp, !.kernel = @ + 1], w)
    BY <1>1 DEF AddType
  <1>4. AddType([a EXCEPT !.temp_groups = temp, !.port = 1], w)
    BY DEF AddType
  <1>5. AddType([a EXCEPT !.temp_groups = temp, !.port = @ + 1], w)
    BY <1>1 DEF AddType
  <1>6. AddType([a EXCEPT !.group = @ + 1, !.kernel = 1, !.port = 0], w)
    <2> DEFINE next == a.group + 1
    <2>1. next \in Nat \ {0} /\ 0 \in Nat /\ 1 \in Nat \ {0}
      BY <1>1
    <2> HIDE DEF next
    <2>2. AddType([a EXCEPT !.group = next, !.kernel = 1, !.port = 0], w)
      BY <2>1 DEF AddType
    <2> QED
      BY <2>2 DEF next
  <1>7. AddType([a EXCEPT !.kernel = @ + 1, !.port = 0], w)
    BY <1>1 DEF AddType
  <1>8. AddType([a EXCEPT !.port = @ + 1], w)
    BY <1>1 DEF AddType
  <1>9. AddType([a EXCEPT !.port = @ + 1, !.groups = groups], w)
    BY <1>1 DEF AddType
  <1>10. AddType([a EXCEPT !.dst = dst, !.groups = groups], w)
    BY DEF AddType
  <1> QED
    BY <1>2, <1>3, <1>4, <1>5, <1>6, <1>7, <1>8, <1>9, <1>10

\* Kernels that are new were made for the map.
LEMMA KernelsMadeStays ==
    ASSUME MInv, Sound(graph'), Grows(graph, graph'), prog' = prog
    PROVE  KernelsMade' /\ ret.dst \in Seq(DOMAIN graph'.kernels)
  <1>1. /\ DOMAIN graph.kernels = 1 .. Len(graph.kernels) /\ Len(graph.kernels) \in Nat
        /\ DOMAIN graph'.kernels = 1 .. Len(graph'.kernels) /\ Len(graph'.kernels) \in Nat
    BY DEF MInv, GraphSound, Sound, WorldType
  <1>2. Declared \in Nat /\ Declared <= Len(graph.kernels) /\ Declared' = Declared
    <2>1. Program[prog].kernels \in Seq(Classes)
      BY ProgramsAssumption DEF MInv, AtWork
    <2> QED
      BY <2>1 DEF MInv, KernelsMade, Declared
  <1>3. DOMAIN graph.kernels \subseteq DOMAIN graph'.kernels
    BY DEF Grows
  <1>4. Len(graph.kernels) <= Len(graph'.kernels)
    <2>1. CASE Len(graph.kernels) = 0
      BY <1>1, <2>1
    <2>2. CASE Len(graph.kernels) # 0
      BY <1>1, <1>3, <2>2
    <2> QED
      BY <2>1, <2>2
  <1>5. ASSUME NEW k \in DOMAIN graph'.kernels
        PROVE  graph'.kernels[k].internal_alloc <=> (k > Declared \/ Program[prog].kernels[k].made)
    <2>1. CASE k \in DOMAIN graph.kernels
      BY <2>1 DEF Grows, MInv, KernelsMade
    <2>2. CASE k \notin DOMAIN graph.kernels
      <3>1. k > Declared
        BY <1>1, <1>2, <1>5, <2>2
      <3> QED
        BY <1>5, <2>2, <3>1 DEF Grows
    <2> QED
      BY <2>1, <2>2
  <1>6. ret.dst \in Seq(DOMAIN graph'.kernels)
    BY <1>3, SeqGrows DEF MInv, AtWork
  <1>7. KernelsMade'
    BY <1>1, <1>2, <1>4, <1>5 DEF KernelsMade
  <1> QED
    BY <1>6, <1>7

\* A step of operator +=.
LEMMA WorksKeeps ==
    ASSUME MInv, pc = "adding", NEW w, NEW a, Works(w, a), Keeps(graph, w),
           AddType(add, w) => AddType(a, w)
    PROVE  MInv' /\ Grows(graph, graph')
  <1>1. /\ graph' = w /\ UNCHANGED <<prog, stmt, step, ret>>
        /\ \/ Thrown(w) /\ pc' = "thrown"
           \/ ~Thrown(w) /\ pc' = "adding" /\ add' = a
    BY DEF Works
  <1>2. Sound(graph') /\ Grows(graph, graph')
    BY <1>1 DEF Keeps
  <1>3. AddType(a, w)
    BY AddTypeGrows DEF MInv, AtWork
  <1>4. KernelsMade' /\ ret.dst \in Seq(DOMAIN graph'.kernels)
    BY <1>1, <1>2, KernelsMadeStays
  <1>5. GraphSound'
    BY <1>1, <1>2 DEF GraphSound, Sound, Thrown
  <1>6. AtWork'
    BY <1>1, <1>3, <1>4 DEF MInv, AtWork, InExe
  <1> QED
    BY <1>2, <1>4, <1>5, <1>6 DEF MInv

\* The pair that operator += is at, and the group.
LEMMA AtPairIs ==
    ASSUME MInv, NEW splits, NEW joins, AtPair(splits, joins)
    PROVE  /\ pc = "adding" /\ Sound(graph) /\ AddType(add, graph)
           /\ add.next \in DOMAIN graph.pairs
           /\ Next0 \in PairType /\ Next0.src \in DOMAIN graph.kernels /\ Next0.dst \in DOMAIN graph.kernels
           /\ Next0.head \in DOMAIN graph.pairs /\ Next0.next \in {NoPair} \cup DOMAIN graph.pairs
           /\ InGroups => Group \in Seq(DOMAIN graph.kernels)
           /\ InGroup => Group[add.kernel] \in DOMAIN graph.kernels
           /\ add.temp_groups \in Seq(Seq(DOMAIN graph.kernels)) /\ add.groups \in Seq(Seq(DOMAIN graph.kernels))
           /\ add.split_out_edges \in Seq(Nat) /\ add.port \in Nat
  <1>1. pc = "adding" /\ Sound(graph) /\ AddType(add, graph)
    BY DEF AtPair, MInv, GraphSound, AtWork
  <1>2. /\ add.next \in DOMAIN graph.pairs
        /\ add.temp_groups \in Seq(Seq(DOMAIN graph.kernels)) /\ add.groups \in Seq(Seq(DOMAIN graph.kernels))
        /\ add.split_out_edges \in Seq(Nat) /\ add.port \in Nat
        /\ add.group \in Nat \ {0} /\ add.kernel \in Nat \ {0}
    BY <1>1 DEF AtPair, AddType
  <1>3. InGroups => Group \in Seq(DOMAIN graph.kernels)
    BY <1>2 DEF InGroups, Group
  <1>4. InGroup => Group[add.kernel] \in DOMAIN graph.kernels
    BY <1>2, <1>3 DEF InGroup
  <1> QED
    BY <1>1, <1>2, <1>3, <1>4, PairTypes DEF Next0

\* The end of a turn of the loop along the pairs.
LEMMA TurnKeeps ==
    ASSUME MInv, NEW splits, NEW joins, AtPair(splits, joins),
           NEW sources, NEW edges \in Seq(Nat), Turn(sources, edges)
    PROVE  MInv' /\ Grows(graph, graph')
  <1> DEFINE a == [NotAdding EXCEPT !.next = Next0.next, !.groups = add.temp_groups,
                                    !.split_out_edges = edges, !.initialized = TRUE, !.src = sources]
  <1>1. /\ pc = "adding" /\ Sound(graph) /\ Next0.next \in {NoPair} \cup DOMAIN graph.pairs
        /\ add.temp_groups \in Seq(Seq(DOMAIN graph.kernels))
    BY AtPairIs
  <1>2. AddType(NotAdding, graph)
    BY DEF AddType, NotAdding
  <1>3. AddType(a, graph)
    <2> DEFINE next == Next0.next
               groups == add.temp_groups
               b == [NotAdding EXCEPT !.next = next, !.groups = groups]
    <2> HIDE DEF next, groups
    <2>1. AddType(b, graph)
      BY <1>1, <1>2 DEF AddType, next, groups
    <2>2. a = [b EXCEPT !.split_out_edges = edges, !.initialized = TRUE, !.src = sources]
      BY DEF next, groups
    <2> HIDE DEF a, b
    <2> QED
      BY <2>1, <2>2 DEF AddType
  <1>4. Works(graph, a)
    BY DEF Turn
  <1> HIDE DEF a
  <1> QED
    BY <1>1, <1>3, <1>4, WorksKeeps, KeepsItself

\* The steps of >>.
LEMMA ContKeeps ==
    ASSUME MInv, ContGroup \/ ContKernel \/ ContGroupDone \/ AddCont
    PROVE  MInv' /\ Grows(graph, graph')
  <1>0. AtPair(FALSE, FALSE)
    BY DEF ContGroup, ContKernel, ContGroupDone, AddCont
  <1>1. /\ pc = "adding" /\ Sound(graph) /\ add.next \in DOMAIN graph.pairs
        /\ Keeps(graph, graph) /\ NoName \in Texts
        /\ Next0.dst \in DOMAIN graph.kernels
        /\ add.temp_groups \in Seq(Seq(DOMAIN graph.kernels)) /\ add.split_out_edges \in Seq(Nat)
    BY <1>0, AtPairIs, KeepsItself DEF Texts
  <1>2. CASE ContGroup
    <2> DEFINE temp == NewGroup(add.temp_groups)
               a == [add EXCEPT !.temp_groups = temp]
    <2>1. Works(graph, a)
      BY <1>2 DEF ContGroup
    <2>2. temp \in Seq(Seq(DOMAIN graph.kernels))
      BY <1>1, GroupsStay
    <2> HIDE DEF temp
    <2>3. AddType(add, graph) => AddType(a, graph)
      BY <1>1, <2>2, AddTypeTurns DEF MInv, AtWork, AddType
    <2> HIDE DEF a
    <2> QED
      BY <1>1, <2>1, <2>3, WorksKeeps
  <1>3. CASE ContKernel
    <2> DEFINE k == Group[add.kernel]
               s == SetPair(graph, add.next, [Next0 EXCEPT !.src = k])
               copied == CloneDst(s, add.next)
    <2>1. k \in DOMAIN graph.kernels
      BY <1>0, <1>3, AtPairIs DEF ContKernel
    <2>2. CASE NoneYet
      <3> DEFINE w == joink(graph, add.next)
                 temp == PutFirst(add.temp_groups, Next0.dst)
                 a == [add EXCEPT !.temp_groups = temp, !.kernel = @ + 1]
      <3>1. Works(w, a)
        BY <1>3, <2>2 DEF ContKernel
      <3>2. Keeps(graph, w)
        BY <1>1, JoinkKeeps
      <3> HIDE DEF w
      <3>3. temp \in Seq(Seq(DOMAIN w.kernels))
        <4>1. temp \in Seq(Seq(DOMAIN graph.kernels))
          BY <1>1, GroupsStay
        <4> HIDE DEF temp
        <4> QED
          BY <3>2, <4>1, SeqGrows DEF Keeps, Grows
      <3> HIDE DEF temp
      <3>4. AddType(add, w) => AddType(a, w)
        BY <3>3, AddTypeTurns DEF AddType
      <3> HIDE DEF a
      <3> QED
        BY <1>1, <3>1, <3>2, <3>4, WorksKeeps
    <2>3. CASE ~NoneYet
      <3> DEFINE w == joink(copied, add.next)
                 temp == Put(add.temp_groups, copied.pairs[add.next].dst)
                 a == [add EXCEPT !.temp_groups = temp, !.kernel = @ + 1]
      <3>1. Works(w, a)
        BY <1>3, <2>3 DEF ContKernel
      <3>2. Keeps(graph, s)
        BY <1>1, <2>1, PairFieldsKeep DEF Next0
      <3> HIDE DEF s
      <3>3. Keeps(s, copied)
        BY <1>1, <3>2, CloneEndKeeps DEF Keeps
      <3> HIDE DEF copied
      <3>4. Keeps(graph, copied) /\ Sound(copied) /\ add.next \in DOMAIN copied.pairs
        BY <1>1, <3>2, <3>3, KeepsOn DEF Keeps
      <3>5. Keeps(copied, w)
        BY <3>4, JoinkKeeps
      <3> HIDE DEF w
      <3>6. Keeps(graph, w)
        BY <3>4, <3>5, KeepsOn
      <3>7. temp \in Seq(Seq(DOMAIN w.kernels))
        <4>1. /\ add.temp_groups \in Seq(Seq(DOMAIN w.kernels))
          BY <1>1, <3>6, SeqGrows DEF Keeps, Grows
        <4>2. copied.pairs[add.next].dst \in DOMAIN w.kernels
          BY <3>4, <3>5, PairTypes DEF Keeps, Grows
        <4> QED
          BY <4>1, <4>2, GroupsStay
      <3> HIDE DEF temp
      <3>8. AddType(add, w) => AddType(a, w)
        BY <3>7, AddTypeTurns DEF AddType
      <3> HIDE DEF a
      <3> QED
        BY <1>1, <3>1, <3>6, <3>8, WorksKeeps
    <2> QED
      BY <2>2, <2>3
  <1>4. CASE ContGroupDone
    <2> DEFINE a == NextGroup
    <2>1. Works(graph, a)
      BY <1>4 DEF ContGroupDone
    <2>2. AddType(add, graph) => AddType(a, graph)
      BY <1>1, AddTypeTurns DEF NextGroup, AddType
    <2> HIDE DEF a
    <2> QED
      BY <1>1, <2>1, <2>2, WorksKeeps
  <1>5. CASE AddCont
    BY <1>0, <1>1, <1>5, TurnKeeps DEF AddCont
  <1> QED
    BY <1>2, <1>3, <1>4, <1>5

\* The steps of <=.
LEMMA SplitKeeps ==
    ASSUME MInv, SplitKernel \/ SplitPort \/ SplitKernelDone \/ SplitGroupDone \/ AddSplit
    PROVE  MInv' /\ Grows(graph, graph')
  <1>0. AtPair(TRUE, FALSE)
    BY DEF SplitKernel, SplitPort, SplitKernelDone, SplitGroupDone, AddSplit
  <1>1. /\ pc = "adding" /\ Sound(graph) /\ add.next \in DOMAIN graph.pairs
        /\ Keeps(graph, graph) /\ Next0 \in PairType
        /\ Next0.dst \in DOMAIN graph.kernels
        /\ add.temp_groups \in Seq(Seq(DOMAIN graph.kernels)) /\ add.split_out_edges \in Seq(Nat)
    BY <1>0, AtPairIs, KeepsItself
  <1>2. CASE SplitKernel
    <2> DEFINE temp == NewGroup(add.temp_groups)
               a == [add EXCEPT !.temp_groups = temp, !.port = 1]
    <2>1. Works(graph, a)
      BY <1>2 DEF SplitKernel
    <2>2. temp \in Seq(Seq(DOMAIN graph.kernels))
      BY <1>1, GroupsStay
    <2> HIDE DEF temp
    <2>3. AddType(add, graph) => AddType(a, graph)
      BY <1>1, <2>2, AddTypeTurns DEF MInv, AtWork, AddType
    <2> HIDE DEF a
    <2> QED
      BY <1>1, <2>1, <2>3, WorksKeeps
  <1>3. CASE SplitPort
    <2> DEFINE k == Group[add.kernel]
               name == graph.kernels[k].output[add.port].my_name
               v == SetPair(graph, add.next, [Next0 EXCEPT !.src = k, !.src_name = name])
               d == IF NoneYet /\ add.port = 1 THEN v ELSE CloneDst(v, add.next)
               w == joink(d, add.next)
               temp == Put(add.temp_groups, d.pairs[add.next].dst)
               a == [add EXCEPT !.temp_groups = temp, !.port = @ + 1]
    <2>1. k \in DOMAIN graph.kernels /\ add.port \in DOMAIN graph.kernels[k].output
      BY <1>0, <1>3, AtPairIs DEF SplitPort
    <2>2. name \in Texts
      <3>1. graph.kernels[k].output[add.port] \in PortType
        BY <1>1, <2>1, PortTypes DEF Sound
      <3> QED
        BY <3>1 DEF PortType, Texts
    <2>3. Works(w, a)
      BY <1>3 DEF SplitPort
    <2> HIDE DEF name
    <2>4. Keeps(graph, v)
      BY <1>1, <2>1, <2>2, PairFieldsKeep DEF Next0
    <2> HIDE DEF v
    <2>5. Sound(v) /\ add.next \in DOMAIN v.pairs
      BY <1>1, <2>4 DEF Keeps
    <2>6. Keeps(v, d)
      BY <2>5, CloneEndKeeps, KeepsItself
    <2> HIDE DEF d
    <2>7. Keeps(graph, d) /\ Sound(d) /\ add.next \in DOMAIN d.pairs
      BY <2>4, <2>5, <2>6, KeepsOn DEF Keeps
    <2>8. Keeps(d, w)
      BY <2>7, JoinkKeeps
    <2> HIDE DEF w
    <2>9. Keeps(graph, w)
      BY <2>7, <2>8, KeepsOn
    <2>10. temp \in Seq(Seq(DOMAIN w.kernels))
      <3>1. add.temp_groups \in Seq(Seq(DOMAIN w.kernels))
        BY <1>1, <2>9, SeqGrows DEF Keeps, Grows
      <3>2. d.pairs[add.next].dst \in DOMAIN w.kernels
        BY <2>7, <2>8, PairTypes DEF Keeps, Grows
      <3> QED
        BY <3>1, <3>2, GroupsStay
    <2> HIDE DEF temp
    <2>11. AddType(add, w) => AddType(a, w)
      BY <2>10, AddTypeTurns DEF AddType
    <2> HIDE DEF a
    <2> QED
      BY <1>1, <2>3, <2>9, <2>11, WorksKeeps
  <1>4. CASE SplitKernelDone
    <2> DEFINE a == [add EXCEPT !.kernel = @ + 1, !.port = 0]
    <2>1. Works(graph, a)
      BY <1>4 DEF SplitKernelDone
    <2>2. AddType(add, graph) => AddType(a, graph)
      BY <1>1, AddTypeTurns DEF AddType
    <2> HIDE DEF a
    <2> QED
      BY <1>1, <2>1, <2>2, WorksKeeps
  <1>5. CASE SplitGroupDone
    <2> DEFINE a == NextGroup
    <2>1. Works(graph, a)
      BY <1>5 DEF SplitGroupDone
    <2>2. AddType(add, graph) => AddType(a, graph)
      BY <1>1, AddTypeTurns DEF NextGroup, AddType
    <2> HIDE DEF a
    <2> QED
      BY <1>1, <2>1, <2>2, WorksKeeps
  <1>6. CASE AddSplit
    <2> DEFINE edges == <<Next0.src_out_count>> \o add.split_out_edges
    <2>1. edges \in Seq(Nat)
      <3>1. Next0.src_out_count \in Nat
        BY <1>1 DEF PairType
      <3> QED
        BY <1>1, <3>1
    <2>2. Turn(Sources, edges)
      BY <1>6 DEF AddSplit
    <2> HIDE DEF edges
    <2> QED
      BY <1>0, <2>1, <2>2, TurnKeeps
  <1> QED
    BY <1>2, <1>3, <1>4, <1>5, <1>6

\* The steps of >= after a <=.
LEMMA AddJoinKeeps ==
    ASSUME MInv, JoinGroup \/ JoinPort \/ JoinGroupDone \/ AddJoin
    PROVE  MInv' /\ Grows(graph, graph')
  <1>0. AtPair(FALSE, TRUE)
    BY DEF JoinGroup, JoinPort, JoinGroupDone, AddJoin
  <1>1. /\ pc = "adding" /\ Sound(graph) /\ add.next \in DOMAIN graph.pairs
        /\ Keeps(graph, graph) /\ Next0.dst \in DOMAIN graph.kernels
        /\ add.temp_groups \in Seq(Seq(DOMAIN graph.kernels)) /\ add.split_out_edges \in Seq(Nat)
        /\ add.port \in Nat
    BY <1>0, AtPairIs, KeepsItself
  <1>2. CASE JoinGroup
    <2> DEFINE edges == Head(add.split_out_edges)
               temp == IF add.group = 1 \/ (edges # 0 /\ (add.group - 1) % edges = 0)
                       THEN NewGroup(add.temp_groups) ELSE add.temp_groups
               d == IF temp[1] = <<>> THEN graph ELSE CloneDst(graph, add.next)
               temp2 == Put(temp, d.pairs[add.next].dst)
               a == [add EXCEPT !.temp_groups = temp2, !.port = 1]
    <2>1. Works(d, a)
      BY <1>2 DEF JoinGroup
    <2>2. temp \in Seq(Seq(DOMAIN graph.kernels))
      BY <1>1, GroupsStay
    <2> HIDE DEF temp
    <2>3. Keeps(graph, d)
      BY <1>1, CloneEndKeeps
    <2> HIDE DEF d
    <2>4. temp2 \in Seq(Seq(DOMAIN d.kernels))
      <3>1. temp \in Seq(Seq(DOMAIN d.kernels))
        BY <2>2, <2>3, SeqGrows DEF Keeps, Grows
      <3>2. d.pairs[add.next].dst \in DOMAIN d.kernels
        BY <1>1, <2>3, PairTypes DEF Keeps
      <3> QED
        BY <3>1, <3>2, GroupsStay
    <2> HIDE DEF temp2
    <2>5. AddType(add, d) => AddType(a, d)
      BY <2>4, AddTypeTurns DEF AddType
    <2> HIDE DEF a
    <2> QED
      BY <1>1, <2>1, <2>3, <2>5, WorksKeeps
  <1>3. CASE JoinPort
    <2>1. CASE add.port > Len(Group)
      <3>1. Works(Throw(graph, "OutOfBounds"), add)
        BY <1>3, <2>1 DEF JoinPort
      <3>2. Keeps(graph, Throw(graph, "OutOfBounds"))
        <4>1. "OutOfBounds" \in Exceptions
          BY DEF Exceptions
        <4> QED
          BY <1>1, <4>1, ThrowKeeps
      <3> QED
        BY <1>1, <3>1, <3>2, WorksKeeps
    <2>2. CASE ~(add.port > Len(Group))
      <3> DEFINE k == Group[add.port]
                 name == graph.kernels[Next0.dst].input[add.port].my_name
                 v == SetPair(graph, add.next, [Next0 EXCEPT !.src = k, !.dst_name = name])
                 w == joink(v, add.next)
                 a == [add EXCEPT !.port = @ + 1]
      <3>1. Works(w, a)
        BY <1>3, <2>2 DEF JoinPort
      <3>2. /\ Group \in Seq(DOMAIN graph.kernels)
            /\ add.port \in DOMAIN graph.kernels[Next0.dst].input
        BY <1>0, <1>3, AtPairIs DEF JoinPort
      <3>3. /\ graph.kernels[Next0.dst].input[add.port] \in PortType
            /\ graph.kernels[Next0.dst].input \in Seq(PortType)
        BY <1>1, <3>2, PortTypes DEF Sound
      <3>4. name \in Texts /\ add.port # 0
        <4>1. add.port # 0
          BY <3>2, <3>3
        <4>2. name \in Texts
          BY <3>3 DEF PortType, Texts
        <4> QED
          BY <4>1, <4>2
      <3>5. k \in DOMAIN graph.kernels
        BY <1>1, <2>2, <3>2, <3>4
      <3> HIDE DEF k, name
      <3>6. Keeps(graph, v)
        BY <1>1, <3>4, <3>5, PairFieldsKeep DEF Next0
      <3> HIDE DEF v
      <3>7. Keeps(v, w)
        BY <1>1, <3>6, JoinkKeeps DEF Keeps
      <3> HIDE DEF w
      <3>8. Keeps(graph, w)
        BY <3>6, <3>7, KeepsOn
      <3>9. AddType(add, w) => AddType(a, w)
        BY AddTypeTurns DEF AddType
      <3> HIDE DEF a
      <3> QED
        BY <1>1, <3>1, <3>8, <3>9, WorksKeeps
    <2> QED
      BY <2>1, <2>2
  <1>4. CASE JoinGroupDone
    <2> DEFINE a == NextGroup
    <2>1. Works(graph, a)
      BY <1>4 DEF JoinGroupDone
    <2>2. AddType(add, graph) => AddType(a, graph)
      BY <1>1, AddTypeTurns DEF NextGroup, AddType
    <2> HIDE DEF a
    <2> QED
      BY <1>1, <2>1, <2>2, WorksKeeps
  <1>5. CASE AddJoin
    <2> DEFINE edges == Tail(add.split_out_edges)
    <2>1. edges \in Seq(Nat)
      BY <1>1, <1>5 DEF AddJoin
    <2>2. Turn(Sources, edges)
      BY <1>5 DEF AddJoin
    <2> HIDE DEF edges
    <2> QED
      BY <1>0, <2>1, <2>2, TurnKeeps
  <1> QED
    BY <1>2, <1>3, <1>4, <1>5

\* The steps of >= without a <=.
LEMMA DupJoinKeeps ==
    ASSUME MInv, DupJoinBegin \/ DupJoinPort \/ AddDupJoin
    PROVE  MInv' /\ Grows(graph, graph')
  <1>0. AtPair(FALSE, TRUE)
    BY DEF DupJoinBegin, DupJoinPort, AddDupJoin, DupJoinOver
  <1>1. /\ pc = "adding" /\ Sound(graph) /\ add.next \in DOMAIN graph.pairs
        /\ Keeps(graph, graph) /\ Next0.dst \in DOMAIN graph.kernels /\ Next0.head \in DOMAIN graph.pairs
        /\ add.temp_groups \in Seq(Seq(DOMAIN graph.kernels)) /\ add.groups \in Seq(Seq(DOMAIN graph.kernels))
    BY <1>0, AtPairIs, KeepsItself
  <1>2. CASE DupJoinBegin
    <2> DEFINE temp == NewGroup(add.temp_groups)
               a == [add EXCEPT !.temp_groups = temp, !.port = 1]
    <2>1. Works(graph, a)
      BY <1>2 DEF DupJoinBegin
    <2>2. temp \in Seq(Seq(DOMAIN graph.kernels))
      BY <1>1, GroupsStay
    <2> HIDE DEF temp
    <2>3. AddType(add, graph) => AddType(a, graph)
      BY <1>1, <2>2, AddTypeTurns DEF MInv, AtWork, AddType
    <2> HIDE DEF a
    <2> QED
      BY <1>1, <2>1, <2>3, WorksKeeps
  <1>3. CASE DupJoinPort
    <2> DEFINE p == add.next
               h == Next0.head
               first == add.port = 1
               v == CASE first -> graph
                      [] ~first /\ h # p -> CopyChain(graph, h, p)
                      [] ~first /\ h = p -> CloneSrc(graph, p)
               name == graph.kernels[Next0.dst].input[add.port].my_name
               w == IF Thrown(v) THEN v
                    ELSE joink(SetPair(v, p, [v.pairs[p] EXCEPT !.dst_name = name]), p)
               b == [add EXCEPT !.port = @ + 1]
               a == IF first THEN [b EXCEPT !.temp_groups = Put(@, Next0.dst)]
                    ELSE [b EXCEPT !.groups[1] = Append(@, v.pairs[h].src)]
    <2>1. Works(w, a)
      BY <1>3 DEF DupJoinPort
    <2>2. name \in Texts
      <3>1. graph.kernels[Next0.dst].input[add.port] \in PortType
        BY <1>1, <1>3, PortTypes DEF Sound, DupJoinPort
      <3> QED
        BY <3>1 DEF PortType, Texts
    <2> HIDE DEF name
    <2>3. Keeps(graph, v)
      <3>1. Keeps(graph, CopyChain(graph, h, p)) /\ Keeps(graph, CloneSrc(graph, p))
        BY <1>1, CopyChainKeeps, CloneEndKeeps
      <3> HIDE DEF p, h, first
      <3> QED
        BY <1>1, <3>1
    <2> HIDE DEF v
    <2>4. Sound(v) /\ p \in DOMAIN v.pairs /\ h \in DOMAIN v.pairs
      BY <1>1, <2>3 DEF Keeps
    <2>5. Keeps(v, w)
      <3> DEFINE s == SetPair(v, p, [v.pairs[p] EXCEPT !.dst_name = name])
      <3>1. v.pairs[p].src \in DOMAIN v.kernels
        BY <2>4, PairTypes
      <3>2. Keeps(v, s)
        BY <2>2, <2>4, <3>1, PairFieldsKeep
      <3> HIDE DEF s
      <3>3. Keeps(s, joink(s, p))
        BY <2>4, <3>2, JoinkKeeps DEF Keeps
      <3>4. Keeps(v, joink(s, p))
        BY <3>2, <3>3, KeepsOn
      <3>5. w = IF Thrown(v) THEN v ELSE joink(s, p)
        BY DEF s
      <3> HIDE DEF w
      <3> QED
        BY <2>4, <3>4, <3>5, KeepsItself
    <2> HIDE DEF w
    <2>6. Keeps(graph, w)
      BY <2>3, <2>5, KeepsOn
    <2>7. ASSUME AddType(add, w) PROVE AddType(a, w)
      <3>0. add.temp_groups \in Seq(Seq(DOMAIN w.kernels)) /\ add.groups \in Seq(Seq(DOMAIN w.kernels))
        BY <2>7 DEF AddType
      <3>1. CASE first
        <4> DEFINE temp == Put(add.temp_groups, Next0.dst)
        <4>1. temp \in Seq(Seq(DOMAIN w.kernels))
          BY <1>1, <2>6, <3>0, GroupsStay DEF Keeps, Grows
        <4>2. a = [add EXCEPT !.temp_groups = temp, !.port = @ + 1]
          BY <2>7, <3>1 DEF AddType
        <4> HIDE DEF temp, a
        <4> QED
          BY <2>7, <4>1, <4>2, AddTypeTurns DEF AddType
      <3>2. CASE ~first
        <4> DEFINE groups == PutFirst(add.groups, v.pairs[h].src)
        <4>1. groups \in Seq(Seq(DOMAIN w.kernels))
          <5>1. v.pairs[h].src \in DOMAIN w.kernels
            BY <2>4, <2>5, PairTypes DEF Keeps, Grows
          <5> QED
            BY <3>0, <5>1, GroupsStay
        <4>2. a = [add EXCEPT !.port = @ + 1, !.groups = groups]
          BY <2>7, <3>2 DEF AddType, PutFirst
        <4> HIDE DEF groups, a
        <4> QED
          BY <2>7, <4>1, <4>2, AddTypeTurns DEF AddType
      <3> QED
        BY <3>1, <3>2
    <2> HIDE DEF a
    <2> QED
      BY <1>1, <2>1, <2>6, <2>7, WorksKeeps
  <1>4. CASE AddDupJoin
    <2>1. <<>> \in Seq(Nat)
      OBVIOUS
    <2> QED
      BY <1>0, <1>4, <2>1, TurnKeeps DEF AddDupJoin
  <1> QED
    BY <1>2, <1>3, <1>4

\* The loop of operator += along the pairs.
LEMMA InlineKeeps ==
    ASSUME MInv, Inline
    PROVE  MInv' /\ Grows(graph, graph')
  <1>1. CASE ContGroup \/ ContKernel \/ ContGroupDone \/ AddCont
    BY <1>1, ContKeeps
  <1>2. CASE SplitKernel \/ SplitPort \/ SplitKernelDone \/ SplitGroupDone \/ AddSplit
    BY <1>2, SplitKeeps
  <1>3. CASE JoinGroup \/ JoinPort \/ JoinGroupDone \/ AddJoin
    BY <1>3, AddJoinKeeps
  <1>4. CASE DupJoinBegin \/ DupJoinPort \/ AddDupJoin
    BY <1>4, DupJoinKeeps
  <1> QED
    BY <1>1, <1>2, <1>3, <1>4 DEF Inline

\* The application is one that C++ lets through.
LEMMA StatementIs ==
    ASSUME MInv, NEW kind, AtStatement(kind)
    PROVE  /\ IsStatement(Statement, Program[prog].kernels) /\ Statement.kind = kind
           /\ Program[prog].kernels \in Seq(Classes)
           /\ DOMAIN Program[prog].kernels \subseteq DOMAIN graph.kernels
  <1>1. prog \in Programs /\ stmt \in Nat \ {0} /\ stmt <= Len(Code)
    BY DEF MInv, AtWork, AtStatement
  <1>2. /\ Program[prog].main \in Seq(ToSet(Program[prog].main)) /\ Program[prog].kernels \in Seq(Classes)
        /\ \A i \in DOMAIN Program[prog].main : IsStatement(Program[prog].main[i], Program[prog].kernels)
    BY <1>1, ProgramsAssumption
  <1>3. stmt \in DOMAIN Code
    BY <1>1, <1>2 DEF Code
  <1>4. graph.kernels \in Seq(KernelType) /\ Declared <= Len(graph.kernels)
    BY DEF MInv, GraphSound, WorldType, KernelsMade
  <1>5. DOMAIN Program[prog].kernels \subseteq DOMAIN graph.kernels
    BY <1>2, <1>4 DEF Declared
  <1> QED
    BY <1>2, <1>3, <1>5 DEF Code, Statement, AtStatement

\* An operand is a kernel, the result of an addition, or a pair that the statement has
\* built before.
LEMMA OperandIsGood ==
    ASSUME MInv, pc = "main", AtStatement("add"), NEW x, HasValue(x),
           IsOperand(x, Program[prog].kernels, step - 1)
    PROVE  GoodOperand(graph, Operand(x))
  <1>1. DOMAIN graph.pairs = 1 .. step - 1
    BY DEF MInv, AtWork, GraphSound, WorldType
  <1>2. DOMAIN Program[prog].kernels \subseteq DOMAIN graph.kernels
    BY StatementIs
  <1>3. /\ x \in Operands
        /\ IsPair(x) => x.pair \in 1 .. step - 1 /\ x.ports = <<>>
        /\ ~IsPair(x) => x.kernel \in DOMAIN Program[prog].kernels \cup {Latest}
    BY DEF IsOperand
  <1>30. x.pair \in Nat /\ x.ports \in Seq(STRING)
    BY <1>3 DEF Operands
  <1>4. CASE x.kernel = Latest
    <2> DEFINE y == [x EXCEPT !.kernel = Head(ret.dst)]
    <2>1. Head(ret.dst) \in DOMAIN graph.kernels
      BY <1>4 DEF HasValue, MInv, AtWork
    <2>2. y.pair = x.pair /\ y.ports = x.ports /\ y.kernel = Head(ret.dst)
      BY <1>3 DEF Operands
    <2>3. Operand(x) = y
      BY <1>4 DEF Operand
    <2> HIDE DEF y
    <2> QED
      BY <1>1, <1>3, <1>30, <2>1, <2>2, <2>3 DEF GoodOperand, IsPair
  <1>5. CASE x.kernel # Latest
    <2>1. Operand(x) = x
      BY <1>5 DEF Operand
    <2> QED
      BY <1>1, <1>2, <1>3, <1>30, <1>5, <2>1 DEF GoodOperand
  <1> QED
    BY <1>4, <1>5

\* An operator of the statement.
LEMMA EvalKeeps ==
    ASSUME MInv, EvalOperator
    PROVE  MInv' /\ Grows(graph, graph')
  <1> DEFINE e == Statement.ops[step]
             w == Apply(graph, e.op, Operand(e.l), Operand(e.r))
  <1>1. /\ AtStatement("add") /\ pc = "main" /\ step <= Len(Statement.ops)
        /\ HasValue(e.l) /\ HasValue(e.r)
        /\ graph' = w /\ UNCHANGED <<prog, stmt, add, ret>>
        /\ \/ Thrown(w) /\ pc' = "thrown" /\ step' = step
           \/ ~Thrown(w) /\ pc' = "main" /\ step' = step + 1
    BY DEF EvalOperator, AtStatement
  <1>2. /\ Sound(graph) /\ step \in Nat \ {0} /\ Len(graph.pairs) = step - 1
    BY <1>1 DEF MInv, GraphSound, AtWork
  <1>3. /\ IsOperand(e.l, Program[prog].kernels, step - 1) /\ IsOperand(e.r, Program[prog].kernels, step - 1)
        /\ e.op \in {">>", ">>out", "<=", ">="}
    <2>1. IsStatement(Statement, Program[prog].kernels) /\ Statement.kind = "add"
      BY <1>1, StatementIs
    <2>2. /\ Statement.ops \in Seq(Operators)
          /\ \A j \in DOMAIN Statement.ops :
               /\ IsOperand(Statement.ops[j].l, Program[prog].kernels, j - 1)
               /\ IsOperand(Statement.ops[j].r, Program[prog].kernels, j - 1)
      BY <2>1 DEF IsStatement
    <2>3. step \in DOMAIN Statement.ops
      BY <1>1, <1>2, <2>2
    <2>4. IsOperand(e.l, Program[prog].kernels, step - 1) /\ IsOperand(e.r, Program[prog].kernels, step - 1)
      BY <2>2, <2>3, Zenon
    <2>5. e \in Operators
      BY <2>2, <2>3
    <2> HIDE DEF e
    <2>6. e.op \in {">>", ">>out", "<=", ">="}
      BY <2>5 DEF Operators
    <2> QED
      BY <2>4, <2>6
  <1>4. GoodOperand(graph, Operand(e.l)) /\ GoodOperand(graph, Operand(e.r))
    BY <1>1, <1>3, OperandIsGood
  <1>5. Sound(w) /\ Grows(graph, w) /\ (~Thrown(w) => Len(w.pairs) = Len(graph.pairs) + 1)
    BY <1>2, <1>3, <1>4, ApplyKeeps
  <1> HIDE DEF w, e
  <1>6. KernelsMade' /\ ret.dst \in Seq(DOMAIN graph'.kernels)
    BY <1>1, <1>5, KernelsMadeStays
  <1>7. GraphSound'
    BY <1>1, <1>5 DEF GraphSound, Sound, Thrown
  <1>8. AtWork'
    BY <1>1, <1>2, <1>5, <1>6 DEF MInv, AtWork, InExe, AtStatement, Statement, Code
  <1> QED
    BY <1>1, <1>5, <1>6, <1>7, <1>8 DEF MInv

\* operator += starts at the head of the last pair.
LEMMA AddBeginKeeps ==
    ASSUME MInv, AddBegin
    PROVE  MInv' /\ Grows(graph, graph')
  <1>1. /\ AtStatement("add") /\ pc = "main" /\ step > Len(Statement.ops) /\ pc' = "adding"
        /\ UNCHANGED <<prog, graph, stmt, step, ret>>
    BY DEF AddBegin, AtStatement
  <1>2. /\ Sound(graph) /\ step \in Nat \ {0} /\ Len(graph.pairs) = step - 1
        /\ graph.pairs \in Seq(PairType)
    BY <1>1 DEF MInv, GraphSound, AtWork, WorldType
  <1>3. Statement.ops # <<>> /\ Len(Statement.ops) \in Nat \ {0}
    <2>1. IsStatement(Statement, Program[prog].kernels) /\ Statement.kind = "add"
      BY <1>1, StatementIs
    <2>2. /\ Statement.ops \in Seq(Operators)
          /\ Statement.ops # <<>>
      BY <2>1 DEF IsStatement
    <2> QED
      BY <2>2
  <1>4. Len(graph.pairs) \in DOMAIN graph.pairs
    BY <1>1, <1>2, <1>3
  <1> DEFINE first == graph.pairs[Len(graph.pairs)].head
             source == graph.pairs[first].src
             a == [NotAdding EXCEPT !.next = first, !.groups = << <<source>> >>]
  <1>5. first \in DOMAIN graph.pairs
    BY <1>2, <1>4, PairTypes
  <1>6. source \in DOMAIN graph.kernels
    BY <1>2, <1>5, PairTypes
  <1>7. add' = a
    BY DEF AddBegin
  <1> HIDE DEF first, source
  <1>8. AddType(a, graph)
    <2>1. AddType(NotAdding, graph)
      BY DEF AddType, NotAdding
    <2> DEFINE group == <<source>>
               groups == <<group>>
    <2>2. groups \in Seq(Seq(DOMAIN graph.kernels))
      <3>1. group \in Seq(DOMAIN graph.kernels)
        BY <1>6, OneElement
      <3> HIDE DEF group
      <3> QED
        BY <3>1, OneElement
    <2> HIDE DEF groups
    <2>3. AddType([NotAdding EXCEPT !.next = first, !.groups = groups], graph)
      BY <1>5, <2>1, <2>2 DEF AddType
    <2> QED
      BY <2>3 DEF groups
  <1> HIDE DEF a
  <1>9. Grows(graph, graph')
    BY <1>1, <1>2, KeepsItself DEF Keeps
  <1>10. MInv'
    BY <1>1, <1>7, <1>8 DEF MInv, GraphSound, KernelsMade, AtWork, InExe, Declared
  <1> QED
    BY <1>9, <1>10

\* The pairs of a statement go when it is over.
LEMMA PairsGo ==
    ASSUME NEW w, Sound(w), NEW v, v = [w EXCEPT !.pairs = <<>>]
    PROVE  Sound(v) /\ Grows(w, v) /\ v.pairs = <<>> /\ v.kernels = w.kernels /\ v.thrown = w.thrown
  <1>1. <<>> \in Seq(PairType) /\ DOMAIN << >> = {}
    OBVIOUS
  <1> QED
    BY <1>1, PairsKeep

\* What comes after the loop of operator +=.
LEMMA AddEndKeeps ==
    ASSUME MInv, AddDst \/ AddEnd
    PROVE  MInv' /\ Grows(graph, graph')
  <1>0. pc = "adding" /\ Sound(graph) /\ AddType(add, graph) /\ Keeps(graph, graph)
    BY KeepsItself DEF AddDst, AddEnd, Added, MInv, GraphSound, AtWork
  <1>1. /\ add.groups \in Seq(Seq(DOMAIN graph.kernels)) /\ add.dst \in Seq(DOMAIN graph.kernels)
    BY <1>0 DEF AddType
  <1>2. CASE AddDst
    <2> DEFINE dst == add.dst \o Head(add.groups)
               groups == Tail(add.groups)
               a == [add EXCEPT !.dst = dst, !.groups = groups]
    <2>1. Works(graph, a)
      BY <1>2 DEF AddDst
    <2>2. groups \in Seq(Seq(DOMAIN graph.kernels)) /\ Head(add.groups) \in Seq(DOMAIN graph.kernels)
      BY <1>1, <1>2, SeqParts DEF AddDst
    <2>3. dst \in Seq(DOMAIN graph.kernels)
      BY <1>1, <2>2, SeqParts
    <2> HIDE DEF dst, groups
    <2>4. AddType(add, graph) => AddType(a, graph)
      BY <1>0, <2>2, <2>3, AddTypeTurns DEF AddType
    <2> HIDE DEF a
    <2> QED
      BY <1>0, <2>1, <2>4, WorksKeeps
  <1>3. CASE AddEnd
    <2>1. /\ graph' = [graph EXCEPT !.pairs = <<>>] /\ ret'.dst = add.dst
          /\ pc' = "main" /\ stmt' = stmt + 1 /\ step' = 1 /\ prog' = prog
      BY <1>3 DEF AddEnd, NextStatement
    <2>2. /\ Sound(graph') /\ Grows(graph, graph') /\ graph'.pairs = <<>>
          /\ graph'.kernels = graph.kernels /\ graph'.thrown = graph.thrown
      BY <1>0, <2>1, PairsGo
    <2>3. KernelsMade'
      BY <2>1, <2>2, KernelsMadeStays
    <2>4. GraphSound'
      BY <1>0, <2>1, <2>2 DEF MInv, GraphSound, Sound, Thrown
    <2>5. AtWork'
      BY <1>1, <2>1, <2>2 DEF MInv, AtWork, InExe
    <2> QED
      BY <2>2, <2>3, <2>4, <2>5 DEF MInv
  <1> QED
    BY <1>2, <1>3

\* link() called by the application.
LEMMA LinkDirectlyKeeps ==
    ASSUME MInv, LinkDirectly
    PROVE  MInv' /\ Grows(graph, graph')
  <1> DEFINE s == Statement
             w == link(graph, s.a, s.a_port, s.b, s.b_port, s.buffer, FALSE)
  <1>1. /\ AtStatement("link") /\ pc = "main" /\ graph' = w /\ prog' = prog
        /\ \/ Thrown(w) /\ pc' = "thrown" /\ UNCHANGED <<stmt, step, ret>>
           \/ ~Thrown(w) /\ pc' = "main" /\ stmt' = stmt + 1 /\ step' = 1
              /\ ret' = [src |-> <<s.a>>, dst |-> <<s.b>>]
    BY DEF LinkDirectly, EndsAs, NextStatement, AtStatement
  <1>2. IsStatement(s, Program[prog].kernels) /\ s.kind = "link" /\ DOMAIN Program[prog].kernels \subseteq DOMAIN graph.kernels
    BY <1>1, StatementIs
  <1>3. /\ s.a \in DOMAIN graph.kernels /\ s.b \in DOMAIN graph.kernels
        /\ s.a_port \in Texts /\ s.b_port \in Texts /\ s.buffer \in Nat
    BY <1>2 DEF IsStatement, Texts
  <1>4. Sound(graph) /\ step = 1 /\ Len(graph.pairs) = 0
    <2>1. ~AtStatement("add")
      BY <1>1 DEF AtStatement
    <2> QED
      BY <1>1, <2>1 DEF MInv, GraphSound, AtWork
  <1>5. Keeps(graph, w)
    BY <1>3, <1>4, LinkKeeps
  <1> HIDE DEF w
  <1>6. Sound(graph') /\ Grows(graph, graph') /\ DOMAIN graph'.pairs = DOMAIN graph.pairs
    BY <1>1, <1>5 DEF Keeps
  <1>7. KernelsMade' /\ ret.dst \in Seq(DOMAIN graph'.kernels)
    BY <1>1, <1>6, KernelsMadeStays
  <1>8. Len(graph'.pairs) = 0
    BY <1>4, <1>6 DEF Sound, WorldType
  <1>9. <<s.b>> \in Seq(DOMAIN graph'.kernels)
    <2>1. s.b \in DOMAIN graph'.kernels
      BY <1>3, <1>6 DEF Grows
    <2> QED
      BY <2>1, OneElement
  <1> HIDE DEF s
  <1>10. GraphSound'
    BY <1>1, <1>6 DEF GraphSound, Sound, Thrown
  <1>11. AtWork'
    <2>1. ret'.dst \in Seq(DOMAIN graph'.kernels)
      BY <1>1, <1>7, <1>9
    <2>2. stmt \in Nat \ {0} /\ prog \in Programs
      BY DEF MInv, AtWork
    <2> QED
      BY <1>1, <1>4, <1>8, <2>1, <2>2 DEF AtWork, InExe
  <1> QED
    BY <1>6, <1>7, <1>10, <1>11 DEF MInv

\* The application catches an exception, or ends by it.
LEMMA CatchKeeps ==
    ASSUME MInv, Catch \/ Terminate
    PROVE  MInv' /\ Grows(graph, graph')
  <1>0. pc = "thrown" /\ Sound(graph)
    BY DEF Catch, Terminate, MInv, GraphSound
  <1>1. CASE Catch
    <2> DEFINE v == Throw(graph, NoException)
    <2>1. /\ graph' = [v EXCEPT !.pairs = <<>>]
          /\ pc' = "main" /\ stmt' = stmt + 1 /\ step' = 1 /\ UNCHANGED <<prog, ret>>
      BY <1>1 DEF Catch, NextStatement, Throw
    <2>2. NoException \in Exceptions
      BY DEF Exceptions
    <2>3. Keeps(graph, v) /\ v.thrown = NoException
      BY <1>0, <2>2, ThrowKeeps
    <2> HIDE DEF v
    <2>4. Sound(v) /\ Grows(graph, v)
      BY <2>3 DEF Keeps
    <2>5. Sound(graph') /\ Grows(v, graph') /\ graph'.pairs = <<>> /\ graph'.thrown = NoException
      BY <2>1, <2>3, <2>4, PairsGo
    <2>6. Grows(graph, graph')
      BY <2>4, <2>5, GrowsOn
    <2>7. KernelsMade' /\ ret.dst \in Seq(DOMAIN graph'.kernels)
      BY <2>1, <2>5, <2>6, KernelsMadeStays
    <2>8. GraphSound'
      BY <2>1, <2>5 DEF GraphSound, Sound, Thrown
    <2>9. AtWork'
      BY <2>1, <2>5, <2>7 DEF MInv, AtWork, InExe
    <2> QED
      BY <2>6, <2>7, <2>8, <2>9 DEF MInv
  <1>2. CASE Terminate
    <2>1. pc' = "terminated" /\ UNCHANGED <<prog, graph, stmt, step, add, ret>>
      BY <1>2 DEF Terminate
    <2>2. Grows(graph, graph')
      BY <1>0, <2>1, KeepsItself DEF Keeps
    <2>3. MInv'
      BY <1>0, <2>1 DEF MInv, GraphSound, KernelsMade, AtWork, InExe, Declared
    <2> QED
      BY <2>2, <2>3
  <1> QED
    BY <1>1, <1>2

\* Every step that builds the graph.
LEMMA BuildingKeeps ==
    ASSUME MInv, Building
    PROVE  MInv' /\ Grows(graph, graph')
  BY EvalKeeps, AddBeginKeeps, InlineKeeps, AddEndKeeps, LinkDirectlyKeeps, CatchKeeps DEF Building

\* The map is destroyed: the kernels it has made go, the streams are not touched.
LEMMA DestroyKeeps ==
    ASSUME MInv, Destroy
    PROVE  MInv' /\ graph'.kernels = graph.kernels
  <1>1. /\ pc = "main" /\ pc' = "done" /\ graph' = [graph EXCEPT !.keeper.internal = {}]
        /\ UNCHANGED <<prog, stmt, step, add, ret>>
    BY DEF Destroy
  <1> DEFINE keeper == [graph.keeper EXCEPT !.internal = {}]
  <1>2. graph \in WorldType /\ graph.keeper \in KeeperType
    BY DEF MInv, GraphSound, WorldType
  <1>3. keeper \in KeeperType /\ keeper.all = graph.keeper.all
    BY <1>2 DEF KeeperType
  <1>4. graph' = [graph EXCEPT !.keeper = keeper]
    BY <1>1
  <1> HIDE DEF keeper
  <1>5. /\ graph' \in WorldType /\ graph'.kernels = graph.kernels /\ graph'.keeper = keeper
        /\ graph'.thrown = graph.thrown /\ graph'.pairs = graph.pairs
    BY <1>2, <1>3, <1>4 DEF WorldType
  <1>6. NamesApart(graph') /\ Bracketed(graph')
    BY <1>5 DEF MInv, GraphSound, NamesApart, Bracketed
  <1>7. Mutual(graph')
    <2>1. \A c, m, d, n : Stream(graph, c, m, d, n) => Stream(graph', c, m, d, n)
      BY <1>3, <1>5 DEF Stream
    <2> QED
      BY <1>5, <2>1 DEF MInv, GraphSound, Mutual
  <1>8. GraphSound'
    BY <1>1, <1>5, <1>6, <1>7 DEF MInv, GraphSound, Thrown
  <1>9. KernelsMade'
    BY <1>1, <1>5 DEF MInv, KernelsMade, Declared
  <1>10. AtWork'
    BY <1>1, <1>5 DEF MInv, AtWork, InExe
  <1> QED
    BY <1>5, <1>8, <1>9, <1>10 DEF MInv

-----------------------------------------------------------------------------
(* The kernels of main(), and what the invariant says. *)

\* A port as add_port() leaves it.
FreshPort(p, spec) ==
    p \in PortType /\ p.my_name = spec.name /\ p.other_kernel = NoKernel /\ p.fifo = NoFifo

\* The ports of a kernel that is built have different names and lead nowhere.
LEMMA NewPorts ==
    ASSUME NEW specs \in PortSpecs, NamesDiffer(specs), NEW ports,
           DOMAIN ports = DOMAIN specs, \A i \in DOMAIN specs : FreshPort(ports[i], specs[i]),
           ports = [i \in DOMAIN specs |-> ports[i]]
    PROVE  /\ ports \in Seq(PortType) /\ Names(ports) /\ NoStreamAt(ports)
           /\ \A i \in DOMAIN ports : ports[i].other_kernel = NoKernel
  <1>1. Len(specs) \in Nat /\ DOMAIN specs = 1 .. Len(specs)
    BY DEF PortSpecs
  <1>2. ports \in [1 .. Len(specs) -> PortType]
    BY <1>1 DEF FreshPort
  <1>3. ports \in Seq(PortType)
    BY <1>1, <1>2
  <1>4. Names(ports)
    BY DEF NamesDiffer, Names, FreshPort
  <1> QED
    BY <1>3, <1>4 DEF NoStreamAt, FreshPort

\* A kernel that is built, with a buffer of its own or without one.
LEMMA NewKernelIs ==
    ASSUME NEW class \in Classes, NamesDiffer(class.input), NamesDiffer(class.output),
           NEW what \in Nat, NEW id \in Nat
    PROVE  LET k == NewKernel(class, what, id)
           IN /\ k \in KernelType /\ k.internal_alloc = class.made /\ k.core_assign = NoCore
              /\ k.enabled_port = <<>>
              /\ Names(k.input) /\ Names(k.output) /\ NoStreamAt(k.input) /\ NoStreamAt(k.output)
              /\ \A i \in DOMAIN k.input : k.input[i].other_kernel = NoKernel
              /\ \A i \in DOMAIN k.output : k.output[i].other_kernel = NoKernel
  <1> DEFINE ins == addPort(class.input)
             outs == IF class.length = 0 THEN addPort(class.output)
                     ELSE addInPlacePorts(class.output, class.length)
             k == NewKernel(class, what, id)
  <1>1. /\ class.input \in PortSpecs /\ class.output \in PortSpecs /\ class.length \in Nat
        /\ class.made \in BOOLEAN /\ class.clones \in BOOLEAN /\ class.stops \in BOOLEAN
    BY DEF Classes
  <1>2. ASSUME NEW specs \in PortSpecs, NEW i \in DOMAIN specs, NEW n \in Nat, NEW start \in Int
        PROVE  FreshPort(PortInfo(specs[i].name, specs[i].type, n, start), specs[i])
    <2>1. specs[i].name \in STRING /\ specs[i].type \in STRING
      <3> DEFINE Spec0 == [name : STRING, type : STRING]
      <3>1. specs \in Seq(Spec0)
        BY DEF PortSpecs
      <3> HIDE DEF Spec0
      <3>2. specs[i] \in Spec0
        BY <3>1
      <3> QED
        BY <3>2 DEF Spec0
    <2> QED
      BY <2>1 DEF FreshPort, PortInfo, PortType, NoKernel, NoFifo, Texts
  <1>3. ASSUME NEW specs \in PortSpecs, NamesDiffer(specs)
        PROVE  /\ addPort(specs) \in Seq(PortType) /\ Names(addPort(specs)) /\ NoStreamAt(addPort(specs))
               /\ \A i \in DOMAIN addPort(specs) : addPort(specs)[i].other_kernel = NoKernel
    <2> DEFINE ports == addPort(specs)
    <2>1. /\ DOMAIN ports = DOMAIN specs /\ ports = [i \in DOMAIN specs |-> ports[i]]
          /\ \A i \in DOMAIN specs : ports[i] = PortInfo(specs[i].name, specs[i].type, 0, 0)
      BY DEF addPort, add_port
    <2>2. \A i \in DOMAIN specs : FreshPort(ports[i], specs[i])
      BY <1>2, <2>1
    <2> HIDE DEF ports
    <2>3. /\ ports \in Seq(PortType) /\ Names(ports) /\ NoStreamAt(ports)
          /\ \A i \in DOMAIN ports : ports[i].other_kernel = NoKernel
      BY <1>3, <2>1, <2>2, NewPorts
    <2> QED
      BY <2>3 DEF ports
  <1>4. ASSUME NEW specs \in PortSpecs, NamesDiffer(specs), NEW length \in Nat
        PROVE  LET ports == addInPlacePorts(specs, length)
               IN /\ ports \in Seq(PortType) /\ Names(ports) /\ NoStreamAt(ports)
                  /\ \A i \in DOMAIN ports : ports[i].other_kernel = NoKernel
    <2> DEFINE ports == addInPlacePorts(specs, length)
               n == Len(specs)
               share(i) == length \div n + IF i = n THEN length % n ELSE 0
               start(i) == (i - 1) * (length \div n)
    <2>0. n \in Nat /\ DOMAIN specs = 1 .. n
      BY DEF PortSpecs
    <2>1. /\ DOMAIN ports = DOMAIN specs /\ ports = [i \in DOMAIN specs |-> ports[i]]
          /\ \A i \in DOMAIN specs : ports[i] = PortInfo(specs[i].name, specs[i].type, share(i), start(i))
      BY <2>0 DEF addInPlacePorts
    <2>2. \A i \in DOMAIN specs : share(i) \in Nat /\ start(i) \in Int
      <3>1. ASSUME NEW i \in DOMAIN specs
            PROVE  share(i) \in Nat /\ start(i) \in Int
        <4>1. n > 0 /\ i \in Int
          BY <2>0
        <4>2. length \div n \in Nat /\ length % n \in Nat
          BY <2>0, <4>1
        <4> QED
          BY <4>1, <4>2
      <3> QED
        BY <3>1
    <2> HIDE DEF share, start
    <2>3. \A i \in DOMAIN specs : FreshPort(ports[i], specs[i])
      BY <1>2, <2>1, <2>2
    <2> HIDE DEF ports
    <2>4. /\ ports \in Seq(PortType) /\ Names(ports) /\ NoStreamAt(ports)
          /\ \A i \in DOMAIN ports : ports[i].other_kernel = NoKernel
      BY <1>4, <2>1, <2>3, NewPorts
    <2> QED
      BY <2>4 DEF ports
  <1>5. /\ ins \in Seq(PortType) /\ Names(ins) /\ NoStreamAt(ins)
        /\ \A i \in DOMAIN ins : ins[i].other_kernel = NoKernel
    BY <1>1, <1>3
  <1>6. /\ outs \in Seq(PortType) /\ Names(outs) /\ NoStreamAt(outs)
        /\ \A i \in DOMAIN outs : outs[i].other_kernel = NoKernel
    <2>1. CASE class.length = 0
      BY <1>1, <1>3, <2>1
    <2>2. CASE class.length # 0
      BY <1>1, <1>4, <2>2
    <2> QED
      BY <2>1, <2>2
  <1> HIDE DEF ins, outs
  <1>7. k = [class |-> what, id |-> id, clones |-> class.clones, stops |-> class.stops,
             input |-> ins, output |-> outs, internal_alloc |-> class.made,
             enabled_port |-> <<>>, core_assign |-> NoCore]
    BY DEF NewKernel, ins, outs
  <1>8. NoCore \in Int /\ <<>> \in Seq(STRING)
    BY DEF NoCore
  <1>9. k \in KernelType
    BY <1>1, <1>5, <1>6, <1>7, <1>8 DEF KernelType
  <1> HIDE DEF k
  <1>10. /\ k.internal_alloc = class.made /\ k.core_assign = NoCore /\ k.enabled_port = <<>>
         /\ k.input = ins /\ k.output = outs
    BY <1>7
  <1> QED
    BY <1>5, <1>6, <1>9, <1>10 DEF k

\* main() starts with a sound world: kernels, and no streams.
LEMMA ConstructedIsSound ==
    ASSUME NEW p \in Programs
    PROVE  LET w == Constructed(p)
           IN /\ Sound(w) /\ ~Thrown(w) /\ w.pairs = <<>> /\ w.keeper = NoKernels
              /\ DOMAIN w.kernels = DOMAIN Program[p].kernels
              /\ \A k \in DOMAIN w.kernels :
                   /\ w.kernels[k].internal_alloc = Program[p].kernels[k].made
                   /\ w.kernels[k].core_assign = NoCore
                   /\ NoStreamAt(w.kernels[k].input) /\ NoStreamAt(w.kernels[k].output)
  <1> DEFINE classes == Program[p].kernels
             counted(k) == Cardinality({j \in 1 .. k - 1 : Counts(classes[j]) = 1})
             kernels == [k \in DOMAIN classes |-> NewKernel(classes[k], k, counted(k))]
             w == Constructed(p)
  <1>1. /\ classes \in Seq(Classes) /\ Len(classes) \in Nat /\ DOMAIN classes = 1 .. Len(classes)
        /\ \A k \in DOMAIN classes : NamesDiffer(classes[k].input) /\ NamesDiffer(classes[k].output)
    BY ProgramsAssumption
  <1>2. ASSUME NEW k \in Nat
        PROVE  counted(k) \in Nat
    <2>1. IsFiniteSet(1 .. k - 1)
      BY FS_Interval
    <2>2. IsFiniteSet({j \in 1 .. k - 1 : Counts(classes[j]) = 1})
      BY <2>1, FS_Subset
    <2> QED
      BY <2>2, FS_CardinalityType
  <1>3. w = [kernels |-> kernels, kernel_count |-> counted(Len(classes) + 1), pairs |-> <<>>,
             keeper |-> NoKernels, thrown |-> NoException]
    BY DEF Constructed
  <1> HIDE DEF counted, classes
  <1>4. counted(Len(classes) + 1) \in Nat
    <2>1. Len(classes) + 1 \in Nat
      BY <1>1
    <2> QED
      BY <1>2, <2>1
  <1>5. ASSUME NEW k \in DOMAIN classes
        PROVE  LET new == kernels[k]
               IN /\ new \in KernelType /\ new.internal_alloc = classes[k].made /\ new.core_assign = NoCore
                  /\ new.enabled_port = <<>>
                  /\ Names(new.input) /\ Names(new.output) /\ NoStreamAt(new.input) /\ NoStreamAt(new.output)
                  /\ \A i \in DOMAIN new.input : new.input[i].other_kernel = NoKernel
                  /\ \A i \in DOMAIN new.output : new.output[i].other_kernel = NoKernel
    <2>1. classes[k] \in Classes /\ k \in Nat /\ NamesDiffer(classes[k].input) /\ NamesDiffer(classes[k].output)
      BY <1>1
    <2>2. counted(k) \in Nat
      BY <1>2, <2>1
    <2>3. kernels[k] = NewKernel(classes[k], k, counted(k))
      OBVIOUS
    <2> HIDE DEF kernels
    <2> DEFINE class == classes[k]
               n == counted(k)
    <2> HIDE DEF class, n
    <2>4. LET new == NewKernel(class, k, n)
          IN /\ new \in KernelType /\ new.internal_alloc = class.made /\ new.core_assign = NoCore
             /\ new.enabled_port = <<>>
             /\ Names(new.input) /\ Names(new.output) /\ NoStreamAt(new.input) /\ NoStreamAt(new.output)
             /\ \A i \in DOMAIN new.input : new.input[i].other_kernel = NoKernel
             /\ \A i \in DOMAIN new.output : new.output[i].other_kernel = NoKernel
      <3>1. class \in Classes /\ n \in Nat /\ k \in Nat /\ NamesDiffer(class.input) /\ NamesDiffer(class.output)
        BY <2>1, <2>2 DEF class, n
      <3> QED
        BY <3>1, NewKernelIs
    <2> QED
      BY <2>3, <2>4 DEF class, n
  <1>6. DOMAIN kernels = DOMAIN classes /\ kernels \in Seq(KernelType)
    <2>1. kernels \in [1 .. Len(classes) -> KernelType]
      BY <1>1, <1>5
    <2> QED
      BY <1>1, <2>1
  <1> HIDE DEF kernels
  <1>7. /\ w \in WorldType /\ w.kernels = kernels /\ w.pairs = <<>> /\ w.keeper = NoKernels
        /\ w.thrown = NoException
    <2>1. NoKernels \in KeeperType
      BY DEF NoKernels, KeeperType
    <2>2. NoException \in Exceptions /\ <<>> \in Seq(PairType)
      BY DEF Exceptions
    <2> QED
      BY <1>3, <1>4, <1>6, <2>1, <2>2 DEF WorldType
  <1> HIDE DEF w
  <1>8. Sound(w)
    <2>1. NamesApart(w) /\ Mutual(w)
      BY <1>5, <1>6, <1>7 DEF NamesApart, Mutual
    <2>2. Kept(w) /\ Paired(w)
      BY <1>7 DEF Kept, Paired, NoKernels
    <2>3. Bracketed(w)
      BY <1>5, <1>6, <1>7 DEF Bracketed, MaxEnabled
    <2> QED
      BY <1>7, <2>1, <2>2, <2>3 DEF Sound
  <1> QED
    BY <1>5, <1>6, <1>7, <1>8 DEF w, classes, Thrown

\* The invariant holds when main() starts.
LEMMA MapInitKeeps == ASSUME MapInit PROVE MInv
  <1>1. /\ prog \in Programs /\ graph = Constructed(prog) /\ pc = "main" /\ stmt = 1 /\ step = 1
        /\ ret.dst = <<>>
    BY DEF MapInit, NoResult
  <1>2. /\ Sound(graph) /\ ~Thrown(graph) /\ graph.pairs = <<>>
        /\ DOMAIN graph.kernels = DOMAIN Program[prog].kernels
        /\ \A k \in DOMAIN graph.kernels : graph.kernels[k].internal_alloc = Program[prog].kernels[k].made
    BY <1>1, ConstructedIsSound
  <1>3. GraphSound
    BY <1>1, <1>2 DEF GraphSound, Sound
  <1>4. KernelsMade
    <2>1. /\ Program[prog].kernels \in Seq(Classes) /\ graph.kernels \in Seq(KernelType)
      BY <1>1, <1>2, ProgramsAssumption DEF Sound, WorldType
    <2>2. Len(graph.kernels) = Declared /\ Declared \in Nat /\ DOMAIN graph.kernels = 1 .. Declared
      BY <1>2, <2>1 DEF Declared
    <2> QED
      BY <1>2, <2>2 DEF KernelsMade
  <1>5. AtWork
    BY <1>1, <1>2 DEF AtWork, InExe
  <1> QED
    BY <1>3, <1>4, <1>5 DEF MInv

\* The invariant implies that the ends of a stream name each other, and it is a stream
\* of one type.
LEMMA InvMutual == ASSUME MInv PROVE EdgesAreMutual
  <1>0. graph \in WorldType /\ NamesApart(graph) /\ Mutual(graph)
    BY DEF MInv, GraphSound
  <1>1. ASSUME NEW k \in DOMAIN graph.kernels, NEW i \in DOMAIN Outputs(k),
               Outputs(k)[i].other_kernel # NoKernel
        PROVE  LET out == Outputs(k)[i]
                   j == Find(Inputs(out.other_kernel), out.other_name)
               IN /\ j # 0
                  /\ Inputs(out.other_kernel)[j].other_kernel = k
                  /\ Inputs(out.other_kernel)[j].other_name = out.my_name
                  /\ Inputs(out.other_kernel)[j].type = out.type
    <2> DEFINE b == Outputs(k)[i].other_kernel
    <2>1. PICK j \in DOMAIN graph.kernels[b].input : Stream(graph, k, i, b, j)
      BY <1>0, <1>1 DEF Mutual, Outputs
    <2>2. /\ b \in DOMAIN graph.kernels /\ Outputs(k)[i].other_name = Inputs(b)[j].my_name
          /\ Inputs(b)[j].other_kernel = k /\ Inputs(b)[j].other_name = Outputs(k)[i].my_name
          /\ Inputs(b)[j].type = Outputs(k)[i].type
      BY <2>1 DEF Stream, Outputs, Inputs
    <2>3. Find(Inputs(b), Inputs(b)[j].my_name) = j /\ j # 0
      <3>1. Inputs(b) \in Seq(PortType) /\ Names(Inputs(b)) /\ j \in DOMAIN Inputs(b)
        BY <1>0, <2>1, <2>2, PortTypes DEF NamesApart, Inputs
      <3> QED
        BY <3>1, FindIs
    <2> QED
      BY <2>2, <2>3
  <1>2. ASSUME NEW k \in DOMAIN graph.kernels, NEW j \in DOMAIN Inputs(k),
               Inputs(k)[j].other_kernel # NoKernel
        PROVE  LET in == Inputs(k)[j]
                   i == Find(Outputs(in.other_kernel), in.other_name)
               IN i # 0 /\ Outputs(in.other_kernel)[i].other_kernel = k
    <2> DEFINE a == Inputs(k)[j].other_kernel
    <2>1. PICK i \in DOMAIN graph.kernels[a].output : Stream(graph, a, i, k, j)
      BY <1>0, <1>2 DEF Mutual, Inputs
    <2>2. /\ a \in DOMAIN graph.kernels /\ Inputs(k)[j].other_name = Outputs(a)[i].my_name
          /\ Outputs(a)[i].other_kernel = k
      BY <2>1 DEF Stream, Outputs, Inputs
    <2>3. Find(Outputs(a), Outputs(a)[i].my_name) = i /\ i # 0
      <3>1. Outputs(a) \in Seq(PortType) /\ Names(Outputs(a)) /\ i \in DOMAIN Outputs(a)
        BY <1>0, <2>1, <2>2, PortTypes DEF NamesApart, Outputs
      <3> QED
        BY <3>1, FindIs
    <2> QED
      BY <2>2, <2>3
  <1> QED
    BY <1>1, <1>2 DEF EdgesAreMutual

\* The invariant implies that the map is to delete the kernels made for it.
LEMMA InvOwns == ASSUME MInv PROVE MapOwnsItsKernels
  <1>1. ASSUME pc # "done"
        PROVE  graph.keeper.internal =
                 {k \in graph.keeper.all : k > Declared \/ Program[prog].kernels[k].made}
    <2>1. /\ graph.keeper.all \subseteq DOMAIN graph.kernels
          /\ graph.keeper.internal = {k \in graph.keeper.all : graph.kernels[k].internal_alloc}
      BY <1>1 DEF MInv, GraphSound, Sound, Kept
    <2>2. \A k \in DOMAIN graph.kernels :
            graph.kernels[k].internal_alloc <=> (k > Declared \/ Program[prog].kernels[k].made)
      BY DEF MInv, KernelsMade
    <2> QED
      BY <2>1, <2>2
  <1> QED
    BY <1>1 DEF MapOwnsItsKernels

\* What is connected stays so.
Stays(w, v) ==
    \A k \in DOMAIN w.kernels : \A side \in {"input", "output"} :
      \A i \in DOMAIN w.kernels[k][side] :
        LET before == w.kernels[k][side][i]
            after == v.kernels[k][side][i]
        IN before.other_kernel # NoKernel =>
             /\ after.other_kernel = before.other_kernel
             /\ after.other_name = before.other_name

\* A world that grows keeps its connections.
LEMMA GrowsStays ==
    ASSUME NEW w, NEW v, Grows(w, v)
    PROVE  Stays(w, v)
  <1>1. ASSUME NEW k \in DOMAIN w.kernels
        PROVE  SamePorts(w.kernels[k].input, v.kernels[k].input)
               /\ SamePorts(w.kernels[k].output, v.kernels[k].output)
    BY DEF Grows
  <1> QED
    BY <1>1 DEF Stays, SamePorts, SamePort
=============================================================================
