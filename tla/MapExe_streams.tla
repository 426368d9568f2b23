---------------------------- MODULE MapExe_streams ---------------------------
(***************************************************************************)
(* Proofs about the graph and its streams, for every application and every *)
(* choice of template arguments: exe() runs only graphs that are connected *)
(* throughout, a traversal from the sources calls its function once for    *)
(* every edge it can reach, each stream is held by its two ends and no     *)
(* other port, keeps the size it was given, and outlives its users.        *)
(*                                                                         *)
(* The argument adds to the order of the threads, which MapExe_proofs has, *)
(* and to the graph that Map_proofs is about, what a traversal has seen    *)
(* (Walking): whatever lies behind it has been visited, so that at its end *)
(* the kernels visited are those that can be reached.                      *)
(***************************************************************************)
EXTENDS MapExe_proofs

-----------------------------------------------------------------------------
(* The inductive invariant. *)

\* Past checkEdges() every port of the kernels of the map is connected.
Connected == pc \in InExe => \A k \in graph.keeper.all : AllConnected(graph.kernels[k])

\* A kernel has a core there is, or none.
CoreRange == {NoCore} \cup 0 .. Cores - 1
Placed(w) == \A k \in DOMAIN w.kernels : w.kernels[k].core_assign \in CoreRange

\* The kernels that a traversal has still to leave, and the ports behind it.
Waiting(wk) == wk.sources \cup {wk.queue[n] : n \in DOMAIN wk.queue}
Behind(wk, k, i) == k \notin Waiting(wk) \/ (k \in AtFront(wk) /\ i < wk.port)
Passed(wk, kernels) ==
    {s \in UNION {{<<k, i>> : i \in DOMAIN kernels[k].output} : k \in wk.visited} :
        Behind(wk, s[1], s[2])}

\* A traversal of a connected graph: what can be reached from the ports behind it has
\* been visited, and no kernel is queued twice.
WalkType(wk) ==
    /\ wk \in [sources : SUBSET Nat, queue : Seq(Nat), visited : SUBSET Nat, port : Nat \ {0}]
    /\ wk.sources \subseteq wk.visited /\ wk.queue \in Seq(wk.visited)
Once(wk) ==
    /\ \A m, n \in DOMAIN wk.queue : wk.queue[m] = wk.queue[n] => m = n
    /\ \A n \in DOMAIN wk.queue : wk.queue[n] \notin wk.sources
Walking(wk, kernels, sources) ==
    /\ WalkType(wk) /\ Once(wk)
    /\ sources \subseteq wk.visited /\ wk.visited \subseteq Reachable(kernels, sources)
    /\ \A k \in wk.visited : \A i \in DOMAIN kernels[k].output :
         Behind(wk, k, i) => kernels[k].output[i].other_kernel \in wk.visited

Walks ==
    /\ DOMAIN walk = {"main", "mem", "para"}
    /\ pc = "dotting" => Walking(walk.main, graph.kernels, graph.keeper.source)
    /\ lock = "mem" => Walking(walk.mem, graph.kernels, graph.keeper.source)

\* The file of GEN_DOT has a line for each port behind the traversal.
Dotted ==
    /\ pc # "dotting" => dot = <<>>
    /\ pc = "dotting" =>
         /\ IsFiniteSet(Passed(walk.main, graph.kernels))
         /\ dot \in Seq({DotLine(s[1], s[2]) : s \in Passed(walk.main, graph.kernels)})
         /\ Len(dot) = Cardinality(Passed(walk.main, graph.kernels))
         /\ {dot[n] : n \in DOMAIN dot} = {DotLine(s[1], s[2]) : s \in Passed(walk.main, graph.kernels)}

\* The streams of the ports exist; both ends of an edge hold one stream, no two outputs
\* hold the same, and a port without an edge holds none.
Within(w, n) ==
    \A k \in DOMAIN w.kernels :
      /\ \A i \in DOMAIN w.kernels[k].output : w.kernels[k].output[i].fifo \in 0 .. n
      /\ \A i \in DOMAIN w.kernels[k].input : w.kernels[k].input[i].fifo \in 0 .. n
EndsAgree(w) ==
    \A a \in DOMAIN w.kernels : \A i \in DOMAIN w.kernels[a].output :
      \A b \in DOMAIN w.kernels : \A j \in DOMAIN w.kernels[b].input :
        Stream(w, a, i, b, j) => w.kernels[b].input[j].fifo = w.kernels[a].output[i].fifo
LooseEnds(w) ==
    \A k \in DOMAIN w.kernels :
      /\ \A i \in DOMAIN w.kernels[k].output :
           w.kernels[k].output[i].other_kernel = NoKernel => w.kernels[k].output[i].fifo = NoFifo
      /\ \A i \in DOMAIN w.kernels[k].input :
           w.kernels[k].input[i].other_kernel = NoKernel => w.kernels[k].input[i].fifo = NoFifo
Distinct(w) ==
    \A a, b \in DOMAIN w.kernels :
      \A i \in DOMAIN w.kernels[a].output : \A j \in DOMAIN w.kernels[b].output :
        w.kernels[a].output[i].fifo = w.kernels[b].output[j].fifo =>
          w.kernels[a].output[i].fifo = NoFifo \/ (a = b /\ i = j)
Reached(w) ==
    \A k \in DOMAIN w.kernels : \A i \in DOMAIN w.kernels[k].output :
      w.kernels[k].output[i].fifo # NoFifo => k \in Reachable(w.kernels, w.keeper.source)
Streams(w, n) == Within(w, n) /\ EndsAgree(w) /\ LooseEnds(w) /\ Distinct(w) /\ Reached(w)

\* The streams themselves: those that there are before exe() has threads have been
\* deleted, the others have the size they were given.
FifoType == [capacity : Nat \ {0}, external : BOOLEAN]
Stored ==
    /\ fifos \in Seq(FifoType) /\ deleted \subseteq DOMAIN fifos
    /\ pc \in Alone => deleted = DOMAIN fifos
    /\ \A f \in DOMAIN mem.size_map : mem.size_map[f] \in 0 .. 3
Fits(out, fs) ==
    /\ fs[out.fifo].external = (out.nitems # 0)
    /\ out.nitems # 0 => fs[out.fifo].capacity = out.nitems
    /\ out.nitems = 0 /\ out.fixed_buffer_size # 0 => fs[out.fifo].capacity = out.fixed_buffer_size
Sized ==
    \A k \in DOMAIN graph.kernels : \A i \in DOMAIN graph.kernels[k].output :
        LET out == graph.kernels[k].output[i]
        IN out.fifo \notin {NoFifo} \cup deleted => Fits(out, fifos)

\* The allocator has made a stream for each port behind it, and, once it is ready, for
\* each that can be reached; a stream that it resizes is one that may be resized.
Live(k, i) == graph.kernels[k].output[i].fifo \notin {NoFifo} \cup deleted
MayGrow(wk, k) ==
    /\ AtEdge(wk, graph.kernels, k)
    /\ LET out == graph.kernels[k].output[wk.port]
       IN out.fixed_buffer_size = 0 /\ ~fifos[out.fifo].external
Growing == mem.pc \in {"resizing", "copied"} => \A k \in AtFront(walk.mem) : MayGrow(walk.mem, k)
Made ==
    /\ mem.pc \in {"check", "want"} \cup Monitoring => mem.ready
    /\ mem.pc = "allocating" => \A s \in Passed(walk.mem, graph.kernels) : Live(s[1], s[2])
    /\ mem.ready /\ (pc = "wait" \/ Executing) =>
         \A k \in FromSources : \A i \in DOMAIN graph.kernels[k].output : Live(k, i)
    /\ StreamsOutliveTheirUsers
    /\ Growing

GInv == IInv /\ MInv /\ Connected /\ Placed(graph)
SInv == GInv /\ Walks /\ Dotted /\ Streams(graph, Len(fifos)) /\ Stored /\ Sized /\ Made

-----------------------------------------------------------------------------
(* The graph during exe(). *)

\* Inside of exe() the kernels and the pairs of the graph stay as many as they are.
LEMMA ExeGraphKeeps ==
    ASSUME MInv, pc \in InExe, pc' \in InExe \cup {"terminated", "exited"},
           Sound(graph'), DOMAIN graph'.kernels = DOMAIN graph.kernels,
           graph'.pairs = graph.pairs, graph'.thrown = graph.thrown,
           \A k \in DOMAIN graph.kernels :
             graph'.kernels[k].internal_alloc = graph.kernels[k].internal_alloc,
           UNCHANGED <<prog, stmt, step, ret>>
    PROVE  MInv'
  <1>1. GraphSound'
    BY DEF MInv, GraphSound, Sound, Thrown, InExe
  <1>2. Len(graph'.kernels) = Len(graph.kernels)
    <2>1. graph.kernels \in Seq(KernelType) /\ graph'.kernels \in Seq(KernelType)
      BY DEF Sound, MInv, GraphSound, WorldType
    <2> QED
      BY <2>1
  <1>3. KernelsMade'
    BY <1>2 DEF MInv, KernelsMade, Declared
  <1>4. AtWork'
    BY DEF MInv, AtWork, InExe
  <1> QED
    BY <1>1, <1>3, <1>4 DEF MInv

\* exe() has returned.
LEMMA ReturnKeepsGraph ==
    ASSUME MInv, Return
    PROVE  MInv'
  <1>1. /\ pc = "join_para" /\ pc' = "main" /\ step' = 1 /\ stmt' = stmt + 1
        /\ UNCHANGED <<prog, graph, ret>>
    BY DEF Return, NextStatement
  <1>2. graph.pairs = <<>> /\ stmt' \in Nat \ {0}
    BY <1>1 DEF MInv, AtWork, InExe
  <1>3. GraphSound' /\ KernelsMade'
    BY <1>1 DEF MInv, GraphSound, KernelsMade, Declared
  <1>4. AtWork'
    BY <1>1, <1>2 DEF MInv, AtWork, InExe
  <1> QED
    BY <1>3, <1>4 DEF MInv

\* Kernels are given cores.
LEMMA CoresKeep ==
    ASSUME NEW w, Sound(w), NEW A, NEW core, \A k \in A : core[k] \in 0 .. Cores - 1
    PROVE  LET v == [w EXCEPT !.kernels = [k \in DOMAIN w.kernels |->
                       IF k \in A THEN [w.kernels[k] EXCEPT !.core_assign = core[k]] ELSE w.kernels[k]]]
           IN /\ Sound(v) /\ AtTheirPlaces(w, v) /\ v.pairs = w.pairs /\ v.thrown = w.thrown
              /\ Placed(w) => Placed(v)
  <1> DEFINE new(k) == IF k \in A THEN [w.kernels[k] EXCEPT !.core_assign = core[k]] ELSE w.kernels[k]
             all == [k \in DOMAIN w.kernels |-> new(k)]
             v == [w EXCEPT !.kernels = all]
  <1>0. w \in WorldType /\ Cores \in Nat
    BY ExeAssumption DEF Sound
  <1>1. ASSUME NEW k \in DOMAIN w.kernels
        PROVE  /\ new(k) \in KernelType
               /\ new(k).input = w.kernels[k].input /\ new(k).output = w.kernels[k].output
               /\ new(k).internal_alloc = w.kernels[k].internal_alloc
               /\ new(k).enabled_port = w.kernels[k].enabled_port
               /\ new(k).core_assign \in CoreRange \cup {w.kernels[k].core_assign}
    <2>1. w.kernels[k] \in KernelType
      BY <1>0, PortTypes
    <2>2. CASE k \in A
      <3>1. core[k] \in Int /\ core[k] \in CoreRange
        BY <1>0, <2>2 DEF CoreRange
      <3> QED
        BY <2>1, <2>2, <3>1 DEF KernelType
    <2>3. CASE k \notin A
      BY <2>1, <2>3
    <2> QED
      BY <2>2, <2>3
  <1> HIDE DEF new
  <1>2. all \in Seq(KernelType)
    <2>1. w.kernels \in Seq(KernelType)
      BY <1>0 DEF WorldType
    <2>2. DOMAIN w.kernels = 1 .. Len(w.kernels) /\ Len(w.kernels) \in Nat
      BY <2>1
    <2> QED
      BY <1>1, <2>2
  <1>3. DOMAIN all = DOMAIN w.kernels /\ \A k \in DOMAIN w.kernels : all[k] = new(k)
    OBVIOUS
  <1> HIDE DEF all
  <1>4. /\ v \in WorldType /\ v.kernels = all /\ v.keeper = w.keeper
        /\ v.pairs = w.pairs /\ v.thrown = w.thrown
    BY <1>0, <1>2 DEF WorldType
  <1> HIDE DEF v
  <1>5. AtTheirPlaces(w, v)
    BY <1>1, <1>3, <1>4 DEF AtTheirPlaces
  <1>6. Paired(v) /\ Bracketed(v)
    BY <1>1, <1>3, <1>4 DEF Sound, Paired, Bracketed
  <1>7. Sound(v)
    BY <1>4, <1>5, <1>6, PlacesAreSound
  <1>8. Placed(w) => Placed(v)
    BY <1>1, <1>3, <1>4 DEF Placed
  <1> QED
    BY <1>4, <1>5, <1>7, <1>8 DEF v, all, new

\* The place of a kernel in the order of the addresses.
LEMMA PlaceIs ==
    ASSUME NEW S, NEW n \in Nat, S \subseteq 1 .. n, NEW k \in S
    PROVE  /\ Cardinality({j \in S : j <= k}) \in 1 .. Cardinality(S)
           /\ Cardinality(S) \in Nat
  <1> DEFINE T == {j \in S : j <= k}
  <1>1. IsFiniteSet(S)
    <2>1. IsFiniteSet(1 .. n)
      BY FS_Interval
    <2> QED
      BY <2>1, FS_Subset
  <1>2. k \in T /\ T \subseteq S
    OBVIOUS
  <1> HIDE DEF T
  <1>3. IsFiniteSet(T) /\ Cardinality(T) <= Cardinality(S)
    BY <1>1, <1>2, FS_Subset
  <1>4. Cardinality(T) \in Nat /\ Cardinality(S) \in Nat
    BY <1>1, <1>3, FS_CardinalityType
  <1>5. Cardinality(T) # 0
    BY <1>2, <1>3, FS_EmptySet
  <1>6. Cardinality(T) \in 1 .. Cardinality(S)
    BY <1>3, <1>4, <1>5
  <1> QED
    BY <1>4, <1>6 DEF T

\* Each of the partitions leaves the graph as it is, except for the cores.
LEMMA PartitionKeepsGraph ==
    ASSUME MInv, pc \in InExe, Placed(graph), partition_dummy \/ partition_basic \/ partition_scotch
    PROVE  /\ Sound(graph') /\ AtTheirPlaces(graph, graph') /\ Placed(graph')
           /\ graph'.pairs = graph.pairs /\ graph'.thrown = graph.thrown
  <1> DEFINE S == graph.keeper.all
             kernels == graph.kernels
             place(k) == Cardinality({j \in S : j <= k})
             Recored(core) == [graph EXCEPT !.kernels = [k \in DOMAIN kernels |->
                 IF k \in S THEN [kernels[k] EXCEPT !.core_assign = core[k]] ELSE kernels[k]]]
             Result2 == /\ Sound(graph') /\ AtTheirPlaces(graph, graph') /\ Placed(graph')
                        /\ graph'.pairs = graph.pairs /\ graph'.thrown = graph.thrown
  <1>1. Sound(graph) /\ Cores \in Nat \ {0}
    BY ExeAssumption DEF MInv, GraphSound, InExe
  <1>2. Len(kernels) \in Nat /\ S \subseteq 1 .. Len(kernels)
    BY <1>1 DEF Sound, Kept, WorldType
  <1>3. ASSUME NEW core, \A k \in S : core[k] \in 0 .. Cores - 1, graph' = Recored(core)
        PROVE  Result2
    <2> DEFINE v == Recored(core)
    <2>1. /\ Sound(v) /\ AtTheirPlaces(graph, v) /\ v.pairs = graph.pairs /\ v.thrown = graph.thrown
          /\ Placed(graph) => Placed(v)
      BY <1>1, <1>3, CoresKeep
    <2> HIDE DEF v
    <2>2. graph' = v
      BY <1>3 DEF v
    <2> QED
      BY <2>1, <2>2
  <1>4. ASSUME NEW cores, \A i \in 1 .. Cardinality(S) : cores[i] \in 0 .. Cores - 1,
               graph' = Assigned(cores)
        PROVE  Result2
    <2> DEFINE core == [k \in S |-> cores[place(k)]]
    <2>1. \A k \in S : core[k] \in 0 .. Cores - 1
      BY <1>2, <1>4, PlaceIs
    <2>2. graph' = Recored(core)
      BY <1>4 DEF Assigned
    <2> HIDE DEF core
    <2> QED
      BY <1>3, <2>1, <2>2
  <1>5. Cardinality(S) \in Nat
    <2>1. IsFiniteSet(1 .. Len(kernels))
      BY <1>2, FS_Interval
    <2>2. IsFiniteSet(S)
      BY <1>2, <2>1, FS_Subset
    <2> QED
      BY <2>2, FS_CardinalityType
  <1>6. CASE partition_dummy
    BY <1>1, <1>6 DEF partition_dummy, AtTheirPlaces
  <1>7. CASE partition_basic
    <2> DEFINE cores == [i \in 1 .. Cardinality(S) |-> (i - 1) % Cores]
    <2>1. graph' = Assigned(cores)
      BY <1>7 DEF partition_basic
    <2>2. \A i \in 1 .. Cardinality(S) : cores[i] \in 0 .. Cores - 1
      BY <1>1, <1>5
    <2> HIDE DEF cores
    <2> QED
      BY <1>4, <2>1, <2>2
  <1>8. CASE partition_scotch
    <2>1. CASE Cardinality(S) <= Cores
      <3> DEFINE cores == [i \in 1 .. Cores |-> i - 1]
      <3>1. graph' = Assigned(cores)
        BY <1>8, <2>1 DEF partition_scotch
      <3>2. \A i \in 1 .. Cardinality(S) : cores[i] \in 0 .. Cores - 1
        BY <1>1, <1>5, <2>1
      <3> HIDE DEF cores
      <3> QED
        BY <1>4, <3>1, <3>2
    <2>2. CASE ~(Cardinality(S) <= Cores)
      <3>1. PICK part \in [S -> 0 .. Cores - 1] : graph' = Recored(part)
        BY <1>8, <2>2 DEF partition_scotch, run_scotch
      <3> QED
        BY <1>3, <3>1
    <2> QED
      BY <2>1, <2>2
  <1> QED
    BY <1>6, <1>7, <1>8

\* allocate() for an edge: the ports at both ends get the stream, and no other port.
LEMMA AllocatedIs ==
    ASSUME NEW w, Sound(w), NEW a \in DOMAIN w.kernels, NEW i \in DOMAIN w.kernels[a].output,
           NEW b \in DOMAIN w.kernels, NEW j \in DOMAIN w.kernels[b].input, Stream(w, a, i, b, j),
           NEW f \in Nat
    PROVE  LET v == Allocated(w, a, i, f)
           IN /\ OtherEnd(w.kernels, w.kernels[a].output[i]) = j
              /\ Sound(v) /\ Retouched(w, v)
              /\ \A k \in DOMAIN w.kernels :
                   /\ \A n \in DOMAIN w.kernels[k].output :
                        /\ v.kernels[k].output[n].fixed_buffer_size = w.kernels[k].output[n].fixed_buffer_size
                        /\ v.kernels[k].output[n].fifo =
                             IF k = a /\ n = i THEN f ELSE w.kernels[k].output[n].fifo
                   /\ \A n \in DOMAIN w.kernels[k].input :
                        v.kernels[k].input[n].fifo =
                          IF k = b /\ n = j THEN f ELSE w.kernels[k].input[n].fifo
  <1> DEFINE out == w.kernels[a].output[i]
             in == w.kernels[b].input[j]
             out2 == [out EXCEPT !.fifo = f]
             in2 == [in EXCEPT !.fifo = f]
             u == SetOutput(w, a, i, out2)
             v == SetInput(u, b, j, in2)
  <1>0. w \in WorldType /\ out \in PortType /\ in \in PortType /\ w.kernels[b].input \in Seq(PortType)
    BY PortTypes DEF Sound
  <1>1. out.other_kernel = b /\ out.other_name = in.my_name
    BY DEF Stream
  <1>2. OtherEnd(w.kernels, out) = j
    <2>1. Names(w.kernels[b].input)
      BY DEF Sound, NamesApart
    <2>2. Find(w.kernels[b].input, in.my_name) = j
      BY <1>0, <2>1, FindIs
    <2> QED
      BY <1>1, <2>2 DEF OtherEnd
  <1>3. Allocated(w, a, i, f) = v
    BY <1>1, <1>2 DEF Allocated
  <1>4. /\ out2 \in PortType /\ SameEnds(out, out2) /\ out2.fifo = f
        /\ out2.fixed_buffer_size = out.fixed_buffer_size
    BY <1>0 DEF PortType, SameEnds
  <1>5. in2 \in PortType /\ SameEnds(in, in2) /\ in2.fifo = f
    BY <1>0 DEF PortType, SameEnds
  <1> HIDE DEF out2, in2
  <1>6. u \in WorldType
    BY <1>0, <1>4, SetOutputType
  <1>7. /\ SameButPorts(w, u)
        /\ \A k \in DOMAIN w.kernels :
             /\ u.kernels[k].input = w.kernels[k].input
             /\ \A n \in DOMAIN w.kernels[k].output :
                  u.kernels[k].output[n] = IF k = a /\ n = i THEN out2 ELSE w.kernels[k].output[n]
    BY <1>0, SetOutputEffect
  <1> HIDE DEF u
  <1>8. b \in DOMAIN u.kernels /\ j \in DOMAIN u.kernels[b].input
    BY <1>7 DEF SameButPorts
  <1>9. v \in WorldType
    BY <1>5, <1>6, <1>8, SetInputType
  <1>10. /\ SameButPorts(u, v)
         /\ \A k \in DOMAIN u.kernels :
              /\ v.kernels[k].output = u.kernels[k].output
              /\ \A n \in DOMAIN u.kernels[k].input :
                   v.kernels[k].input[n] = IF k = b /\ n = j THEN in2 ELSE u.kernels[k].input[n]
    BY <1>6, <1>8, SetInputEffect
  <1> HIDE DEF v
  <1>11. \A k \in DOMAIN w.kernels :
           /\ \A n \in DOMAIN w.kernels[k].output :
                v.kernels[k].output[n] = IF k = a /\ n = i THEN out2 ELSE w.kernels[k].output[n]
           /\ \A n \in DOMAIN w.kernels[k].input :
                v.kernels[k].input[n] = IF k = b /\ n = j THEN in2 ELSE w.kernels[k].input[n]
    BY <1>7, <1>10 DEF SameButPorts
  <1>12. SameButPorts(w, v)
    BY <1>7, <1>10 DEF SameButPorts
  <1>13. Retouched(w, v)
    BY <1>4, <1>5, <1>11, <1>12 DEF Retouched, SameEnds
  <1>14. Sound(v)
    BY <1>9, <1>13, RetouchedIsSound
  <1> QED
    BY <1>2, <1>3, <1>4, <1>5, <1>11, <1>13, <1>14

-----------------------------------------------------------------------------
(* What can be reached. *)

\* What can be reached is in every closed set that holds the sources.
LEMMA ReachableIs ==
    ASSUME NEW kernels, NEW S, S \subseteq DOMAIN kernels, NEW k
    PROVE  k \in Reachable(kernels, S) <=>
             /\ k \in DOMAIN kernels
             /\ \A K \in SUBSET DOMAIN kernels : S \subseteq K /\ Closed(kernels, K) => k \in K
  <1> DEFINE sets == {K \in {R \cup S : R \in SUBSET (DOMAIN kernels \ S)} : Closed(kernels, K)}
  <1>1. ASSUME NEW K \in SUBSET DOMAIN kernels, S \subseteq K, Closed(kernels, K)
        PROVE  K \in sets
    <2>1. K = (K \ S) \cup S /\ K \ S \in SUBSET (DOMAIN kernels \ S)
      BY <1>1
    <2> QED
      BY <1>1, <2>1
  <1>2. ASSUME NEW K \in sets
        PROVE  K \in SUBSET DOMAIN kernels /\ S \subseteq K /\ Closed(kernels, K)
    BY <1>2
  <1> QED
    BY <1>1, <1>2 DEF Reachable

\* The sources of a sound world can be reached, and so can the kernel behind an edge;
\* all of them are kernels of the map.
LEMMA ReachableOn ==
    ASSUME NEW w, Sound(w)
    PROVE  LET R == Reachable(w.kernels, w.keeper.source)
           IN /\ w.keeper.source \subseteq R /\ R \subseteq w.keeper.all /\ R \subseteq DOMAIN w.kernels
              /\ \A k \in R : \A i \in DOMAIN w.kernels[k].output :
                   w.kernels[k].output[i].other_kernel # NoKernel =>
                     w.kernels[k].output[i].other_kernel \in R
  <1> DEFINE S == w.keeper.source
             R == Reachable(w.kernels, S)
  <1>1. /\ S \subseteq w.keeper.all /\ w.keeper.all \subseteq DOMAIN w.kernels
        /\ NoKernel \notin DOMAIN w.kernels
    BY DEF Sound, Kept, WorldType, NoKernel
  <1>2. \A k \in DOMAIN w.kernels : \A i \in DOMAIN w.kernels[k].output :
          w.kernels[k].output[i].other_kernel # NoKernel =>
            w.kernels[k].output[i].other_kernel \in w.keeper.all
    BY DEF Sound, Mutual, Stream
  <1>3. S \subseteq R
    BY <1>1, ReachableIs
  <1>4. Closed(w.kernels, w.keeper.all)
    BY <1>1, <1>2 DEF Closed, Edges
  <1>5. R \subseteq w.keeper.all
    BY <1>1, <1>4, ReachableIs
  <1>6. ASSUME NEW k \in R, NEW i \in DOMAIN w.kernels[k].output,
               w.kernels[k].output[i].other_kernel # NoKernel
        PROVE  w.kernels[k].output[i].other_kernel \in R
    <2> DEFINE b == w.kernels[k].output[i].other_kernel
    <2>1. k \in DOMAIN w.kernels /\ b \in DOMAIN w.kernels /\ k # NoKernel
      BY <1>1, <1>2, <1>5, <1>6
    <2>2. i \in Edges(w.kernels, k)
      BY <1>6, <2>1 DEF Edges
    <2>3. ASSUME NEW K \in SUBSET DOMAIN w.kernels, S \subseteq K, Closed(w.kernels, K)
          PROVE  b \in K
      <3>1. k \in K
        BY <1>1, <1>6, <2>3, ReachableIs
      <3> QED
        BY <2>2, <2>3, <3>1 DEF Closed
    <2> QED
      BY <1>1, <2>1, <2>3, ReachableIs
  <1> QED
    BY <1>1, <1>3, <1>5, <1>6

\* A set of kernels that holds the sources, and what is behind each of them, holds all
\* that can be reached.
LEMMA ReachableLeast ==
    ASSUME NEW w, Sound(w), NEW K \in SUBSET DOMAIN w.kernels, w.keeper.source \subseteq K,
           \A k \in K : \A i \in DOMAIN w.kernels[k].output :
             w.kernels[k].output[i].other_kernel # NoKernel => w.kernels[k].output[i].other_kernel \in K
    PROVE  Reachable(w.kernels, w.keeper.source) \subseteq K
  <1>1. w.keeper.source \subseteq DOMAIN w.kernels
    BY DEF Sound, Kept
  <1>2. Closed(w.kernels, K)
    BY DEF Closed, Edges
  <1> QED
    BY <1>1, <1>2, ReachableIs

\* A world with at least the kernels, the sources and the connections of another.
Extends(w, v) ==
    /\ DOMAIN w.kernels \subseteq DOMAIN v.kernels /\ w.keeper.source \subseteq v.keeper.source
    /\ \A k \in DOMAIN w.kernels :
         /\ DOMAIN v.kernels[k].output = DOMAIN w.kernels[k].output
         /\ \A i \in DOMAIN w.kernels[k].output :
              w.kernels[k].output[i].other_kernel # NoKernel =>
                v.kernels[k].output[i].other_kernel = w.kernels[k].output[i].other_kernel

\* What can be reached stays so when nothing is taken away.
LEMMA ReachableStays ==
    ASSUME NEW w, Sound(w), NEW v, Sound(v), Extends(w, v)
    PROVE  Reachable(w.kernels, w.keeper.source) \subseteq Reachable(v.kernels, v.keeper.source)
  <1> DEFINE R == Reachable(v.kernels, v.keeper.source)
             K == R \cap DOMAIN w.kernels
  <1>1. /\ v.keeper.source \subseteq R
        /\ \A k \in R : \A i \in DOMAIN v.kernels[k].output :
             v.kernels[k].output[i].other_kernel # NoKernel => v.kernels[k].output[i].other_kernel \in R
    BY ReachableOn
  <1> HIDE DEF R
  <1>2. w.keeper.source \subseteq K
    BY <1>1 DEF Sound, Kept, Extends
  <1>3. ASSUME NEW k \in K, NEW i \in DOMAIN w.kernels[k].output,
               w.kernels[k].output[i].other_kernel # NoKernel
        PROVE  w.kernels[k].output[i].other_kernel \in K
    <2>1. w.kernels[k].output[i].other_kernel \in R
      BY <1>1, <1>3 DEF Extends
    <2>2. w.kernels[k].output[i].other_kernel \in DOMAIN w.kernels
      BY <1>3 DEF Sound, Mutual, Stream
    <2> QED
      BY <2>1, <2>2
  <1>4. Reachable(w.kernels, w.keeper.source) \subseteq K
    BY <1>2, <1>3, ReachableLeast
  <1> QED
    BY <1>4 DEF R

-----------------------------------------------------------------------------
(* The traversal of edges. *)

\* The members of a queue.
Members(q) == {q[n] : n \in DOMAIN q}
NoTwice(q) == \A m, n \in DOMAIN q : q[m] = q[n] => m = n

\* The first leaves a queue ...
LEMMA QueueTail ==
    ASSUME NEW V, NEW q \in Seq(V), q # <<>>, NoTwice(q)
    PROVE  /\ Tail(q) \in Seq(V) /\ NoTwice(Tail(q)) /\ Head(q) \in Members(q) /\ Head(q) \in V
           /\ Members(Tail(q)) = Members(q) \ {Head(q)}
  <1> DEFINE t == Tail(q)
  <1>1. /\ Len(q) \in Nat /\ Len(q) >= 1 /\ DOMAIN q = 1 .. Len(q) /\ Head(q) = q[1] /\ q[1] \in V
    OBVIOUS
  <1>2. t \in Seq(V) /\ DOMAIN t = 1 .. Len(q) - 1 /\ \A n \in DOMAIN t : t[n] = q[n + 1]
    OBVIOUS
  <1> HIDE DEF t
  <1>3. NoTwice(t)
    BY <1>1, <1>2 DEF NoTwice
  <1>4. Members(t) \subseteq Members(q) \ {q[1]}
    BY <1>1, <1>2 DEF NoTwice, Members
  <1>5. ASSUME NEW x \in Members(q), x # q[1]
        PROVE  x \in Members(t)
    <2>1. PICK n \in DOMAIN q : x = q[n]
      BY <1>5 DEF Members
    <2>2. n - 1 \in DOMAIN t /\ t[n - 1] = x
      BY <1>1, <1>2, <1>5, <2>1
    <2> QED
      BY <2>2 DEF Members
  <1>6. q[1] \in Members(q)
    BY <1>1 DEF Members
  <1> QED
    BY <1>1, <1>2, <1>3, <1>4, <1>5, <1>6 DEF t

\* Members are added to a sequence.
LEMMA AppendMembers ==
    ASSUME NEW V, NEW q \in Seq(V), NEW c
    PROVE  /\ Append(q, c) \in Seq(V \cup {c}) /\ Len(Append(q, c)) = Len(q) + 1
           /\ Members(Append(q, c)) = Members(q) \cup {c}
  <1> DEFINE t == Append(q, c)
  <1>1. Len(q) \in Nat /\ DOMAIN q = 1 .. Len(q)
    OBVIOUS
  <1>2. /\ t \in Seq(V \cup {c}) /\ Len(t) = Len(q) + 1 /\ DOMAIN t = 1 .. Len(q) + 1
        /\ t[Len(q) + 1] = c /\ \A n \in DOMAIN q : t[n] = q[n]
    OBVIOUS
  <1> HIDE DEF t
  <1>3. ASSUME NEW n \in DOMAIN t
        PROVE  t[n] \in Members(q) \cup {c}
    BY <1>1, <1>2 DEF Members
  <1>4. ASSUME NEW n \in DOMAIN q
        PROVE  q[n] \in Members(t)
    <2>1. n \in DOMAIN t /\ t[n] = q[n]
      BY <1>1, <1>2
    <2> QED
      BY <2>1 DEF Members
  <1>5. c \in Members(t)
    <2>1. Len(q) + 1 \in DOMAIN t
      BY <1>1, <1>2
    <2> QED
      BY <1>2, <2>1 DEF Members
  <1> QED
    BY <1>2, <1>3, <1>4, <1>5 DEF t, Members

\* ... and another is put behind the last.
LEMMA QueueAppend ==
    ASSUME NEW V, NEW q \in Seq(V), NEW c, NoTwice(q), c \notin Members(q)
    PROVE  /\ Append(q, c) \in Seq(V \cup {c}) /\ NoTwice(Append(q, c))
           /\ Members(Append(q, c)) = Members(q) \cup {c} /\ Append(q, c) # <<>>
           /\ q # <<>> => Head(Append(q, c)) = Head(q)
  <1> DEFINE t == Append(q, c)
  <1>1. Len(q) \in Nat /\ DOMAIN q = 1 .. Len(q)
    OBVIOUS
  <1>2. /\ t \in Seq(V \cup {c}) /\ DOMAIN t = 1 .. Len(q) + 1 /\ t[Len(q) + 1] = c
        /\ \A n \in DOMAIN q : t[n] = q[n]
    OBVIOUS
  <1>3. t # <<>> /\ (q # <<>> => Head(t) = Head(q))
    <2>1. Len(q) + 1 \in DOMAIN t /\ Head(t) = t[1] /\ Head(q) = q[1]
      BY <1>1, <1>2
    <2>2. q # <<>> => 1 \in DOMAIN q
      BY <1>1
    <2>3. t # <<>>
      BY <2>1
    <2> QED
      BY <1>2, <2>1, <2>2, <2>3
  <1> HIDE DEF t
  <1>4. NoTwice(t)
    BY <1>1, <1>2 DEF NoTwice, Members
  <1>5. Members(t) = Members(q) \cup {c}
    BY AppendMembers DEF t
  <1> QED
    BY <1>2, <1>3, <1>4, <1>5 DEF t

\* The kernel at the front is the only one there.
LEMMA FrontIs ==
    ASSUME NEW wk, WalkType(wk), Once(wk), NEW k \in AtFront(wk)
    PROVE  /\ AtFront(wk) = {k} /\ k \in Waiting(wk) /\ k \in wk.visited
           /\ \/ wk.sources # {} /\ k \in wk.sources
              \/ wk.sources = {} /\ wk.queue # <<>> /\ k = Head(wk.queue)
  <1>1. CASE wk.sources # {}
    <2>1. AtFront(wk) = {j \in wk.sources : \A m \in wk.sources : j <= m}
      BY <1>1 DEF AtFront
    <2>2. wk.sources \subseteq Nat /\ k \in wk.sources /\ \A m \in wk.sources : k <= m
      BY <2>1 DEF WalkType
    <2>3. ASSUME NEW j \in AtFront(wk)
          PROVE  j = k
      <3>1. j \in wk.sources /\ j <= k /\ k <= j /\ j \in Nat /\ k \in Nat
        BY <2>1, <2>2, <2>3
      <3> QED
        BY <3>1
    <2> QED
      BY <1>1, <2>2, <2>3 DEF Waiting, WalkType
  <1>2. CASE wk.sources = {}
    <2>1. wk.queue # <<>> /\ AtFront(wk) = {Head(wk.queue)}
      BY <1>2 DEF AtFront
    <2>2. NoTwice(wk.queue) /\ wk.queue \in Seq(wk.visited)
      BY DEF Once, WalkType, NoTwice
    <2>3. Head(wk.queue) \in Members(wk.queue) /\ Head(wk.queue) \in wk.visited
      BY <2>1, <2>2, QueueTail
    <2> QED
      BY <1>2, <2>1, <2>3 DEF Waiting, Members
  <1> QED
    BY <1>1, <1>2

\* The ports behind a traversal.
LEMMA PassedIs ==
    ASSUME NEW wk, NEW kernels
    PROVE  /\ \A k, i : <<k, i>> \in Passed(wk, kernels) <=>
                /\ k \in wk.visited /\ i \in DOMAIN kernels[k].output /\ Behind(wk, k, i)
           /\ \A s \in Passed(wk, kernels) : s = <<s[1], s[2]>>
  BY DEF Passed

\* Two sets of ports with the same members.
LEMMA SamePairs ==
    ASSUME NEW S, NEW T, \A s \in S : s = <<s[1], s[2]>>, \A s \in T : s = <<s[1], s[2]>>,
           \A k, i : <<k, i>> \in S <=> <<k, i>> \in T
    PROVE  S = T
  OBVIOUS

\* A traversal begins.
LEMMA WalkBegins ==
    ASSUME NEW w, Sound(w)
    PROVE  LET wk == BFS(w.keeper.source)
           IN Walking(wk, w.kernels, w.keeper.source) /\ Passed(wk, w.kernels) = {}
  <1> DEFINE S == w.keeper.source
             wk == BFS(S)
  <1>1. wk.sources = S /\ wk.queue = <<>> /\ wk.visited = S /\ wk.port = 1
    BY DEF BFS
  <1>2. WalkType(wk)
    <2>1. S \in SUBSET Nat
      BY DEF Sound, WorldType, KeeperType
    <2> HIDE DEF S
    <2> QED
      BY <2>1 DEF WalkType, BFS
  <1> HIDE DEF wk
  <1>3. S \subseteq Reachable(w.kernels, S) /\ S \subseteq DOMAIN w.kernels
    BY ReachableOn
  <1>4. ASSUME NEW k \in S, NEW i \in DOMAIN w.kernels[k].output
        PROVE  ~Behind(wk, k, i)
    <2>1. w.kernels[k].output \in Seq(PortType)
      BY <1>3, PortTypes DEF Sound
    <2>2. i \in Nat /\ i >= 1
      BY <2>1
    <2> QED
      BY <1>1, <2>2 DEF Behind, Waiting
  <1>5. Once(wk)
    BY <1>1 DEF Once
  <1>6. Walking(wk, w.kernels, S)
    BY <1>1, <1>2, <1>3, <1>4, <1>5 DEF Walking
  <1>7. Passed(wk, w.kernels) = {}
    BY <1>1, <1>4, PassedIs
  <1> QED
    BY <1>6, <1>7 DEF wk

\* A port is followed to the kernel behind it.
LEMMA FollowIs ==
    ASSUME NEW wk, WalkType(wk), Once(wk), NEW k \in AtFront(wk), NEW c \in Nat
    PROVE  LET wk2 == Follow(wk, c)
           IN /\ WalkType(wk2) /\ Once(wk2) /\ wk2.visited = wk.visited \cup {c}
              /\ \A x \in wk2.visited : \A i \in Nat :
                   Behind(wk2, x, i) <=> (x \in wk.visited /\ Behind(wk, x, i)) \/ (x = k /\ i = wk.port)
  <1> DEFINE wk2 == Follow(wk, c)
             q2 == IF c \in wk.visited THEN wk.queue ELSE Append(wk.queue, c)
  <1>1. wk \in [sources : SUBSET Nat, queue : Seq(Nat), visited : SUBSET Nat, port : Nat \ {0}]
    BY DEF WalkType
  <1>2. /\ wk2.sources = wk.sources /\ wk2.queue = q2 /\ wk2.visited = wk.visited \cup {c}
        /\ wk2.port = wk.port + 1
    BY <1>1 DEF Follow
  <1>3. /\ wk.queue \in Seq(wk.visited) /\ NoTwice(wk.queue) /\ wk.port \in Nat \ {0}
        /\ wk.sources \subseteq wk.visited
        /\ Members(wk.queue) \subseteq wk.visited /\ Members(wk.queue) \cap wk.sources = {}
    BY DEF WalkType, Once, NoTwice, Members
  <1>4. /\ q2 \in Seq(wk.visited \cup {c}) /\ NoTwice(q2)
        /\ Members(q2) = Members(wk.queue) \cup ({c} \ wk.visited)
        /\ wk.queue # <<>> => q2 # <<>> /\ Head(q2) = Head(wk.queue)
    <2>1. CASE c \in wk.visited
      BY <1>3, <2>1
    <2>2. CASE c \notin wk.visited
      BY <1>3, <2>2, QueueAppend
    <2> QED
      BY <2>1, <2>2
  <1>5. WalkType(wk2)
    <2>1. q2 \in Seq(Nat) /\ wk.visited \cup {c} \in SUBSET Nat /\ wk.port + 1 \in Nat \ {0}
      BY <1>1, <1>4
    <2>2. wk2 \in [sources : SUBSET Nat, queue : Seq(Nat), visited : SUBSET Nat, port : Nat \ {0}]
      BY <1>1, <2>1 DEF Follow
    <2> HIDE DEF q2, wk2
    <2> QED
      BY <1>2, <1>3, <1>4, <2>2 DEF WalkType
  <1> HIDE DEF q2, wk2
  <1>6. Once(wk2)
    <2>1. Members(q2) \cap wk.sources = {}
      BY <1>3, <1>4
    <2> QED
      BY <1>2, <1>4, <2>1 DEF Once, NoTwice, Members
  <1>7. /\ AtFront(wk) = {k} /\ k \in Waiting(wk) /\ k \in wk.visited
        /\ \/ wk.sources # {} /\ k \in wk.sources
           \/ wk.sources = {} /\ wk.queue # <<>> /\ k = Head(wk.queue)
    BY FrontIs
  <1>8. AtFront(wk2) = {k}
    <2>1. CASE wk.sources # {}
      BY <1>2, <1>7, <2>1 DEF AtFront
    <2>2. CASE wk.sources = {}
      BY <1>2, <1>4, <1>7, <2>2 DEF AtFront
    <2> QED
      BY <2>1, <2>2
  <1>9. Waiting(wk2) = Waiting(wk) \cup ({c} \ wk.visited) /\ Waiting(wk) \subseteq wk.visited
    BY <1>2, <1>3, <1>4 DEF Waiting, Members
  <1>10. ASSUME NEW x \in wk2.visited, NEW i \in Nat
         PROVE  Behind(wk2, x, i) <=> (x \in wk.visited /\ Behind(wk, x, i)) \/ (x = k /\ i = wk.port)
    <2>1. x \notin Waiting(wk2) <=> x \in wk.visited /\ x \notin Waiting(wk)
      BY <1>2, <1>9, <1>10
    <2>2. i < wk2.port <=> i < wk.port \/ i = wk.port
      BY <1>2, <1>3
    <2> QED
      BY <1>7, <1>8, <2>1, <2>2 DEF Behind
  <1> QED
    BY <1>2, <1>5, <1>6, <1>10 DEF wk2

\* The kernel at the front is left.
LEMMA LeaveIs ==
    ASSUME NEW wk, WalkType(wk), Once(wk), NEW k \in AtFront(wk)
    PROVE  LET wk2 == Leave(wk, k)
           IN /\ WalkType(wk2) /\ Once(wk2) /\ wk2.visited = wk.visited
              /\ \A x \in wk.visited : \A i \in Nat \ {0} :
                   Behind(wk2, x, i) <=> x \notin Waiting(wk) \/ x = k
  <1> DEFINE wk2 == Leave(wk, k)
             q2 == IF wk.sources = {} THEN Tail(wk.queue) ELSE wk.queue
  <1>1. wk \in [sources : SUBSET Nat, queue : Seq(Nat), visited : SUBSET Nat, port : Nat \ {0}]
    BY DEF WalkType
  <1>2. wk2.sources = wk.sources \ {k} /\ wk2.queue = q2 /\ wk2.visited = wk.visited /\ wk2.port = 1
    BY <1>1 DEF Leave
  <1>3. /\ wk.queue \in Seq(wk.visited) /\ NoTwice(wk.queue)
        /\ wk.sources \subseteq wk.visited /\ Members(wk.queue) \cap wk.sources = {}
    BY DEF WalkType, Once, NoTwice, Members
  <1>4. /\ AtFront(wk) = {k} /\ k \in Waiting(wk) /\ k \in wk.visited
        /\ \/ wk.sources # {} /\ k \in wk.sources
           \/ wk.sources = {} /\ wk.queue # <<>> /\ k = Head(wk.queue)
    BY FrontIs
  <1>5. /\ q2 \in Seq(wk.visited) /\ NoTwice(q2) /\ Members(q2) = Members(wk.queue) \ {k}
    <2>1. CASE wk.sources = {}
      BY <1>3, <1>4, <2>1, QueueTail
    <2>2. CASE wk.sources # {}
      BY <1>3, <1>4, <2>2
    <2> QED
      BY <2>1, <2>2
  <1>6. WalkType(wk2)
    <2>1. q2 \in Seq(Nat) /\ wk.sources \ {k} \in SUBSET Nat /\ 1 \in Nat \ {0}
      BY <1>1, <1>5
    <2>2. wk2 \in [sources : SUBSET Nat, queue : Seq(Nat), visited : SUBSET Nat, port : Nat \ {0}]
      BY <1>1, <2>1 DEF Leave
    <2> HIDE DEF q2, wk2
    <2> QED
      BY <1>2, <1>3, <1>5, <2>2 DEF WalkType
  <1> HIDE DEF q2, wk2
  <1>7. Once(wk2)
    <2>1. Members(q2) \cap wk2.sources = {}
      BY <1>2, <1>3, <1>5
    <2> QED
      BY <1>2, <1>5, <2>1 DEF Once, NoTwice, Members
  <1>8. Waiting(wk2) = Waiting(wk) \ {k}
    <2>1. Waiting(wk) = wk.sources \cup Members(wk.queue) /\ Waiting(wk2) = wk2.sources \cup Members(q2)
      BY <1>2 DEF Waiting, Members
    <2> QED
      BY <1>2, <1>5, <2>1
  <1>9. ASSUME NEW x \in wk.visited, NEW i \in Nat \ {0}
        PROVE  Behind(wk2, x, i) <=> x \notin Waiting(wk) \/ x = k
    BY <1>2, <1>8 DEF Behind
  <1> QED
    BY <1>2, <1>6, <1>7, <1>9 DEF wk2

\* Every port of the kernels of the map is connected.
AllLead(w) == \A k \in w.keeper.all : AllConnected(w.kernels[k])

\* A step of a traversal puts one more port behind it, or leaves a kernel that has none
\* left.
LEMMA WalkSteps ==
    ASSUME NEW w, Sound(w), AllLead(w), NEW wk, Walking(wk, w.kernels, w.keeper.source), NEW k \in AtFront(wk)
    PROVE  LET wk2 == BFS_edges(wk, w.kernels, k)
           IN /\ k \in Reachable(w.kernels, w.keeper.source) /\ k \in DOMAIN w.kernels
              /\ k \in wk.visited /\ wk.visited \subseteq wk2.visited
              /\ Walking(wk2, w.kernels, w.keeper.source)
              /\ AtEdge(wk, w.kernels, k) =>
                   /\ wk.port \in DOMAIN w.kernels[k].output
                   /\ w.kernels[k].output[wk.port].other_kernel # NoKernel
                   /\ Passed(wk2, w.kernels) = Passed(wk, w.kernels) \cup {<<k, wk.port>>}
                   /\ <<k, wk.port>> \notin Passed(wk, w.kernels)
              /\ ~AtEdge(wk, w.kernels, k) => Passed(wk2, w.kernels) = Passed(wk, w.kernels)
  <1> DEFINE S == w.keeper.source
             R == Reachable(w.kernels, S)
             ports(x) == w.kernels[x].output
             wk2 == BFS_edges(wk, w.kernels, k)
             c == ports(k)[wk.port].other_kernel
  <1>1. /\ WalkType(wk) /\ Once(wk) /\ S \subseteq wk.visited /\ wk.visited \subseteq R
        /\ \A x \in wk.visited : \A i \in DOMAIN ports(x) : Behind(wk, x, i) => ports(x)[i].other_kernel \in wk.visited
    BY DEF Walking
  <1>2. /\ AtFront(wk) = {k} /\ k \in Waiting(wk) /\ k \in wk.visited
    BY <1>1, FrontIs
  <1>3. /\ R \subseteq w.keeper.all /\ R \subseteq DOMAIN w.kernels
        /\ \A x \in R : \A i \in DOMAIN ports(x) :
             ports(x)[i].other_kernel # NoKernel => ports(x)[i].other_kernel \in R
    BY ReachableOn
  <1>4. /\ NoKernel \notin DOMAIN w.kernels /\ DOMAIN w.kernels \subseteq Nat
        /\ \A x \in DOMAIN w.kernels : DOMAIN ports(x) = 1 .. Len(ports(x)) /\ Len(ports(x)) \in Nat
    <2>1. w \in WorldType
      BY DEF Sound
    <2>2. \A x \in DOMAIN w.kernels : ports(x) \in Seq(PortType)
      BY <2>1, PortTypes
    <2>3. w.kernels \in Seq(KernelType)
      BY <2>1 DEF WorldType
    <2> QED
      BY <2>2, <2>3 DEF NoKernel
  <1>5. ASSUME NEW x \in R, NEW i \in DOMAIN ports(x)
        PROVE  /\ ports(x)[i].other_kernel # NoKernel /\ ports(x)[i].other_kernel \in R
               /\ ports(x)[i].other_kernel \in Nat /\ i \in Nat \ {0}
    <2>1. ports(x)[i].other_kernel # NoKernel
      BY <1>3, <1>5 DEF AllLead, AllConnected
    <2> QED
      BY <1>3, <1>4, <1>5, <2>1
  <1>6. k \in R /\ k \in DOMAIN w.kernels /\ k # NoKernel /\ wk.port \in Nat \ {0}
    BY <1>1, <1>2, <1>3, <1>4 DEF WalkType
  <1>7. AtEdge(wk, w.kernels, k) <=> HasPort(wk, w.kernels, k)
    BY <1>5, <1>6 DEF AtEdge, HasPort, Edges
  <1> HIDE DEF R
  <1>8. CASE HasPort(wk, w.kernels, k)
    <2>1. wk.port \in DOMAIN ports(k) /\ wk2 = Follow(wk, c) /\ c # NoKernel /\ c \in R /\ c \in Nat
      BY <1>5, <1>6, <1>8 DEF HasPort, BFS_edges, Child
    <2>2. /\ WalkType(wk2) /\ Once(wk2) /\ wk2.visited = wk.visited \cup {c}
          /\ \A x \in wk2.visited : \A i \in Nat :
               Behind(wk2, x, i) <=> (x \in wk.visited /\ Behind(wk, x, i)) \/ (x = k /\ i = wk.port)
      BY <1>1, <2>1, FollowIs
    <2> HIDE DEF wk2
    <2>3. ASSUME NEW x \in wk2.visited, NEW i \in DOMAIN ports(x), Behind(wk2, x, i)
          PROVE  ports(x)[i].other_kernel \in wk2.visited
      <3>1. x \in R /\ i \in Nat
        BY <1>1, <1>5, <2>1, <2>2, <2>3
      <3>2. CASE x \in wk.visited /\ Behind(wk, x, i)
        BY <1>1, <2>2, <2>3, <3>2
      <3>3. CASE x = k /\ i = wk.port
        BY <2>2, <3>3
      <3> QED
        BY <2>2, <2>3, <3>1, <3>2, <3>3
    <2>4. Walking(wk2, w.kernels, S)
      BY <1>1, <2>1, <2>2, <2>3 DEF Walking, R
    <2>5. ASSUME NEW x, NEW i
          PROVE  <<x, i>> \in Passed(wk2, w.kernels) <=>
                   <<x, i>> \in Passed(wk, w.kernels) \cup {<<k, wk.port>>}
      <3>1. <<x, i>> \in Passed(wk2, w.kernels) <=>
              x \in wk2.visited /\ i \in DOMAIN ports(x) /\ Behind(wk2, x, i)
        BY PassedIs
      <3>2. <<x, i>> \in Passed(wk, w.kernels) <=>
              x \in wk.visited /\ i \in DOMAIN ports(x) /\ Behind(wk, x, i)
        BY PassedIs
      <3>3. x \in wk2.visited /\ i \in DOMAIN ports(x) => i \in Nat
        BY <1>1, <1>5, <2>1, <2>2
      <3>4. <<x, i>> = <<k, wk.port>> <=> x = k /\ i = wk.port
        OBVIOUS
      <3> QED
        BY <1>2, <2>1, <2>2, <3>1, <3>2, <3>3, <3>4
    <2>6. Passed(wk2, w.kernels) = Passed(wk, w.kernels) \cup {<<k, wk.port>>}
      <3> DEFINE P == Passed(wk2, w.kernels)
                 Q == Passed(wk, w.kernels) \cup {<<k, wk.port>>}
      <3>1. (\A s \in P : s = <<s[1], s[2]>>) /\ (\A s \in Q : s = <<s[1], s[2]>>)
        BY PassedIs
      <3>2. \A x, i : <<x, i>> \in P <=> <<x, i>> \in Q
        BY <2>5
      <3> HIDE DEF P, Q
      <3>3. P = Q
        BY <3>1, <3>2, SamePairs
      <3> QED
        BY <3>3 DEF P, Q
    <2>7. <<k, wk.port>> \notin Passed(wk, w.kernels)
      <3>1. ~Behind(wk, k, wk.port)
        BY <1>2, <1>6 DEF Behind
      <3> QED
        BY <3>1, PassedIs
    <2> QED
      BY <1>2, <1>6, <1>7, <1>8, <2>1, <2>2, <2>4, <2>6, <2>7 DEF wk2, R
  <1>9. CASE ~HasPort(wk, w.kernels, k)
    <2>1. wk2 = Leave(wk, k) /\ wk.port \notin DOMAIN ports(k)
      BY <1>6, <1>9 DEF HasPort, BFS_edges
    <2>2. /\ WalkType(wk2) /\ Once(wk2) /\ wk2.visited = wk.visited
          /\ \A x \in wk.visited : \A i \in Nat \ {0} :
               Behind(wk2, x, i) <=> x \notin Waiting(wk) \/ x = k
      BY <1>1, <2>1, LeaveIs
    <2> HIDE DEF wk2
    <2>3. \A i \in DOMAIN ports(k) : i < wk.port
      BY <1>4, <1>6, <2>1
    <2>4. ASSUME NEW x \in wk.visited, NEW i \in DOMAIN ports(x)
          PROVE  Behind(wk2, x, i) <=> Behind(wk, x, i)
      <3>1. i \in Nat \ {0}
        BY <1>1, <1>5, <2>4
      <3>2. Behind(wk, x, i) <=> x \notin Waiting(wk) \/ x = k
        BY <1>2, <2>3, <2>4 DEF Behind
      <3> QED
        BY <2>2, <3>1, <3>2
    <2>5. Walking(wk2, w.kernels, S)
      BY <1>1, <2>2, <2>4 DEF Walking, R
    <2>6. Passed(wk2, w.kernels) = Passed(wk, w.kernels)
      <3>1. \A x, i : <<x, i>> \in Passed(wk2, w.kernels) <=> <<x, i>> \in Passed(wk, w.kernels)
        BY <2>2, <2>4, PassedIs
      <3> QED
        BY <3>1, PassedIs, SamePairs
    <2> QED
      BY <1>2, <1>6, <1>7, <1>9, <2>2, <2>5, <2>6 DEF wk2, R
  <1> QED
    BY <1>8, <1>9

\* A traversal that is at its end has visited what can be reached.
LEMMA WalkEnds ==
    ASSUME NEW w, Sound(w), AllLead(w), NEW wk, Walking(wk, w.kernels, w.keeper.source), Finished(wk)
    PROVE  /\ wk.visited = Reachable(w.kernels, w.keeper.source)
           /\ \A k, i : <<k, i>> \in Passed(wk, w.kernels) <=>
                k \in wk.visited /\ i \in DOMAIN w.kernels[k].output
  <1>1. \A k, i : Behind(wk, k, i)
    BY DEF Finished, Behind, Waiting
  <1>2. /\ wk.visited \subseteq Reachable(w.kernels, w.keeper.source)
        /\ wk.visited \in SUBSET DOMAIN w.kernels
    BY ReachableOn DEF Walking
  <1>3. Reachable(w.kernels, w.keeper.source) \subseteq wk.visited
    <2>1. /\ w.keeper.source \subseteq wk.visited
          /\ \A k \in wk.visited : \A i \in DOMAIN w.kernels[k].output :
               w.kernels[k].output[i].other_kernel \in wk.visited
      BY <1>1 DEF Walking
    <2> QED
      BY <1>2, <2>1, ReachableLeast
  <1> QED
    BY <1>1, <1>2, <1>3, PassedIs

\* A traversal does not notice changes that leave alone where the ports lead to.
LEMMA WalkMoves ==
    ASSUME NEW w, Sound(w), NEW v, Sound(v), Extends(w, v), Extends(v, w),
           NEW wk, Walking(wk, w.kernels, w.keeper.source), AllLead(w)
    PROVE  /\ Walking(wk, v.kernels, v.keeper.source) /\ v.keeper.source = w.keeper.source
           /\ Reachable(v.kernels, v.keeper.source) = Reachable(w.kernels, w.keeper.source)
           /\ Passed(wk, v.kernels) = Passed(wk, w.kernels)
  <1>1. v.keeper.source = w.keeper.source /\ DOMAIN v.kernels = DOMAIN w.kernels
    BY DEF Extends
  <1>2. Reachable(v.kernels, v.keeper.source) = Reachable(w.kernels, w.keeper.source)
    BY ReachableStays
  <1>3. wk.visited \subseteq w.keeper.all /\ wk.visited \subseteq DOMAIN w.kernels
    BY ReachableOn DEF Walking
  <1>4. ASSUME NEW k \in wk.visited
        PROVE  /\ DOMAIN v.kernels[k].output = DOMAIN w.kernels[k].output
               /\ \A i \in DOMAIN w.kernels[k].output :
                    v.kernels[k].output[i].other_kernel = w.kernels[k].output[i].other_kernel
    BY <1>3 DEF Extends, AllLead, AllConnected
  <1>5. Walking(wk, v.kernels, v.keeper.source)
    BY <1>1, <1>2, <1>4 DEF Walking
  <1>6. Passed(wk, v.kernels) = Passed(wk, w.kernels)
    <2>1. \A k, i : <<k, i>> \in Passed(wk, v.kernels) <=> <<k, i>> \in Passed(wk, w.kernels)
      BY <1>4, PassedIs
    <2> QED
      BY <2>1, PassedIs, SamePairs
  <1> QED
    BY <1>1, <1>2, <1>5, <1>6

-----------------------------------------------------------------------------
(* The streams at the ports. *)

\* A stream is known by either of its ends.
LEMMA StreamIs ==
    ASSUME NEW w, Sound(w),
           NEW a \in DOMAIN w.kernels, NEW i \in DOMAIN w.kernels[a].output,
           NEW b \in DOMAIN w.kernels, NEW j \in DOMAIN w.kernels[b].input, Stream(w, a, i, b, j)
    PROVE  /\ \A b2 \in DOMAIN w.kernels : \A j2 \in DOMAIN w.kernels[b2].input :
                Stream(w, a, i, b2, j2) => b2 = b /\ j2 = j
           /\ \A a2 \in DOMAIN w.kernels : \A i2 \in DOMAIN w.kernels[a2].output :
                Stream(w, a2, i2, b, j) => a2 = a /\ i2 = i
  BY DEF Sound, NamesApart, Names, Stream

\* A graph that grows keeps its streams, and what is new has none.
LEMMA StreamsGrow ==
    ASSUME NEW w, Sound(w), NEW v, Sound(v), Grows(w, v), NEW n \in Nat, Streams(w, n)
    PROVE  Streams(v, n)
  <1>1. ASSUME NEW k \in DOMAIN v.kernels, NEW i \in DOMAIN v.kernels[k].output
        PROVE  \/ v.kernels[k].output[i].fifo = NoFifo
               \/ /\ k \in DOMAIN w.kernels /\ i \in DOMAIN w.kernels[k].output
                  /\ v.kernels[k].output[i].fifo = w.kernels[k].output[i].fifo
                  /\ w.kernels[k].output[i].other_kernel # NoKernel
                  /\ v.kernels[k].output[i].other_kernel = w.kernels[k].output[i].other_kernel
                  /\ v.kernels[k].output[i].other_name = w.kernels[k].output[i].other_name
    <2>1. CASE k \in DOMAIN w.kernels
      <3>1. SamePorts(w.kernels[k].output, v.kernels[k].output)
        BY <2>1 DEF Grows
      <3> QED
        BY <2>1, <3>1 DEF SamePorts, SamePort, Streams, LooseEnds
    <2>2. CASE k \notin DOMAIN w.kernels
      BY <2>2 DEF Grows, NoStreamAt
    <2> QED
      BY <2>1, <2>2
  <1>2. ASSUME NEW k \in DOMAIN v.kernels, NEW j \in DOMAIN v.kernels[k].input
        PROVE  \/ v.kernels[k].input[j].fifo = NoFifo
               \/ /\ k \in DOMAIN w.kernels /\ j \in DOMAIN w.kernels[k].input
                  /\ v.kernels[k].input[j].fifo = w.kernels[k].input[j].fifo
                  /\ w.kernels[k].input[j].other_kernel # NoKernel
                  /\ v.kernels[k].input[j].other_kernel = w.kernels[k].input[j].other_kernel
                  /\ v.kernels[k].input[j].other_name = w.kernels[k].input[j].other_name
    <2>1. CASE k \in DOMAIN w.kernels
      <3>1. SamePorts(w.kernels[k].input, v.kernels[k].input)
        BY <2>1 DEF Grows
      <3> QED
        BY <2>1, <3>1 DEF SamePorts, SamePort, Streams, LooseEnds
    <2>2. CASE k \notin DOMAIN w.kernels
      BY <2>2 DEF Grows, NoStreamAt
    <2> QED
      BY <2>1, <2>2
  <1>3. Within(v, n)
    BY <1>1, <1>2 DEF Streams, Within, NoFifo
  <1>4. LooseEnds(v)
    BY <1>1, <1>2 DEF LooseEnds
  <1>5. Distinct(v)
    BY <1>1 DEF Streams, Distinct
  <1>6. Reached(v)
    <2>1. Extends(w, v)
      BY DEF Extends, Grows, SamePorts, SamePort
    <2>2. Reachable(w.kernels, w.keeper.source) \subseteq Reachable(v.kernels, v.keeper.source)
      BY <2>1, ReachableStays
    <2> QED
      BY <1>1, <2>2 DEF Streams, Reached
  <1>7. ASSUME NEW a \in DOMAIN w.kernels, NEW i \in DOMAIN w.kernels[a].output,
               NEW b \in DOMAIN w.kernels, NEW j \in DOMAIN w.kernels[b].input, Stream(w, a, i, b, j)
        PROVE  /\ Stream(v, a, i, b, j) /\ v.kernels[a].output[i].fifo = w.kernels[a].output[i].fifo
               /\ a \in DOMAIN v.kernels /\ i \in DOMAIN v.kernels[a].output
               /\ b \in DOMAIN v.kernels /\ j \in DOMAIN v.kernels[b].input
               /\ v.kernels[b].input[j].fifo = w.kernels[a].output[i].fifo
    <2>1. /\ SamePorts(w.kernels[a].output, v.kernels[a].output)
          /\ SamePorts(w.kernels[b].input, v.kernels[b].input)
          /\ a \in DOMAIN v.kernels /\ b \in DOMAIN v.kernels
          /\ w.keeper.all \subseteq v.keeper.all
      BY DEF Grows
    <2>2. /\ SamePort(w.kernels[a].output[i], v.kernels[a].output[i])
          /\ SamePort(w.kernels[b].input[j], v.kernels[b].input[j])
          /\ i \in DOMAIN v.kernels[a].output /\ j \in DOMAIN v.kernels[b].input
      BY <2>1 DEF SamePorts
    <2>3. w.kernels[b].input[j].fifo = w.kernels[a].output[i].fifo
      BY <1>7 DEF Streams, EndsAgree
    <2>4. a # NoKernel /\ b # NoKernel
      BY DEF Sound, WorldType, NoKernel
    <2> QED
      BY <1>7, <2>1, <2>2, <2>3, <2>4 DEF SamePort, Stream
  <1>8. EndsAgree(v)
    <2>1. ASSUME NEW a \in DOMAIN v.kernels, NEW i \in DOMAIN v.kernels[a].output,
                 NEW b \in DOMAIN v.kernels, NEW j \in DOMAIN v.kernels[b].input, Stream(v, a, i, b, j)
          PROVE  v.kernels[b].input[j].fifo = v.kernels[a].output[i].fifo
      <3>1. CASE /\ a \in DOMAIN w.kernels /\ i \in DOMAIN w.kernels[a].output
                 /\ w.kernels[a].output[i].other_kernel # NoKernel
        <4> DEFINE b2 == w.kernels[a].output[i].other_kernel
        <4>1. PICK j2 \in DOMAIN w.kernels[b2].input : Stream(w, a, i, b2, j2)
          BY <3>1 DEF Sound, Mutual
        <4>2. b2 \in DOMAIN w.kernels
          BY <4>1 DEF Stream
        <4>3. /\ Stream(v, a, i, b2, j2) /\ b2 \in DOMAIN v.kernels /\ j2 \in DOMAIN v.kernels[b2].input
              /\ v.kernels[b2].input[j2].fifo = v.kernels[a].output[i].fifo
          BY <1>7, <3>1, <4>1, <4>2
        <4> HIDE DEF b2
        <4>4. b2 = b /\ j2 = j
          BY <2>1, <4>3, StreamIs
        <4> QED
          BY <4>3, <4>4
      <3>2. CASE /\ b \in DOMAIN w.kernels /\ j \in DOMAIN w.kernels[b].input
                 /\ w.kernels[b].input[j].other_kernel # NoKernel
        <4> DEFINE a2 == w.kernels[b].input[j].other_kernel
        <4>1. PICK i2 \in DOMAIN w.kernels[a2].output : Stream(w, a2, i2, b, j)
          BY <3>2 DEF Sound, Mutual
        <4>2. a2 \in DOMAIN w.kernels
          BY <4>1 DEF Stream
        <4>3. /\ Stream(v, a2, i2, b, j) /\ a2 \in DOMAIN v.kernels /\ i2 \in DOMAIN v.kernels[a2].output
              /\ v.kernels[b].input[j].fifo = v.kernels[a2].output[i2].fifo
          BY <1>7, <3>2, <4>1, <4>2
        <4> HIDE DEF a2
        <4>4. a2 = a /\ i2 = i
          BY <2>1, <4>3, StreamIs
        <4> QED
          BY <4>3, <4>4
      <3> QED
        BY <1>1, <1>2, <3>1, <3>2
    <2> QED
      BY <2>1 DEF EndsAgree
  <1> QED
    BY <1>3, <1>4, <1>5, <1>6, <1>8 DEF Streams

\* Streams do not depend on what else a kernel holds.
LEMMA StreamsMove ==
    ASSUME NEW w, Sound(w), NEW v, Sound(v), AtTheirPlaces(w, v), NEW n, Streams(w, n)
    PROVE  Streams(v, n)
  <1>1. Within(v, n) /\ LooseEnds(v) /\ Distinct(v)
    BY DEF AtTheirPlaces, Streams, Within, LooseEnds, Distinct
  <1>2. EndsAgree(v)
    <2>1. \A a \in DOMAIN w.kernels, b \in DOMAIN w.kernels :
            \A i \in DOMAIN w.kernels[a].output : \A j \in DOMAIN w.kernels[b].input :
              Stream(v, a, i, b, j) => Stream(w, a, i, b, j)
      BY DEF AtTheirPlaces, Stream
    <2> QED
      BY <2>1 DEF AtTheirPlaces, Streams, EndsAgree
  <1>3. Reached(v)
    <2>1. Extends(w, v)
      BY DEF AtTheirPlaces, Extends
    <2> QED
      BY <2>1, ReachableStays DEF AtTheirPlaces, Streams, Reached
  <1> QED
    BY <1>1, <1>2, <1>3 DEF Streams

\* A new stream for an edge that has none.
LEMMA StreamsAdd ==
    ASSUME NEW w, Sound(w), NEW n \in Nat, Streams(w, n),
           NEW a \in Reachable(w.kernels, w.keeper.source), NEW i \in DOMAIN w.kernels[a].output,
           NEW b \in DOMAIN w.kernels, NEW j \in DOMAIN w.kernels[b].input, Stream(w, a, i, b, j),
           NEW v, Sound(v), Retouched(w, v),
           \A k \in DOMAIN w.kernels :
             /\ \A m \in DOMAIN w.kernels[k].output :
                  v.kernels[k].output[m].fifo = IF k = a /\ m = i THEN n + 1 ELSE w.kernels[k].output[m].fifo
             /\ \A m \in DOMAIN w.kernels[k].input :
                  v.kernels[k].input[m].fifo = IF k = b /\ m = j THEN n + 1 ELSE w.kernels[k].input[m].fifo
    PROVE  Streams(v, n + 1)
  <1>0. /\ DOMAIN v.kernels = DOMAIN w.kernels /\ v.keeper = w.keeper
        /\ \A k \in DOMAIN w.kernels :
             /\ DOMAIN v.kernels[k].output = DOMAIN w.kernels[k].output
             /\ DOMAIN v.kernels[k].input = DOMAIN w.kernels[k].input
             /\ \A m \in DOMAIN w.kernels[k].output :
                  SameEnds(w.kernels[k].output[m], v.kernels[k].output[m])
             /\ \A m \in DOMAIN w.kernels[k].input :
                  SameEnds(w.kernels[k].input[m], v.kernels[k].input[m])
    BY DEF Retouched, SameButPorts
  <1>1. a \in DOMAIN w.kernels
    BY ReachableOn
  <1>2. Within(v, n + 1)
    <2>1. \A f \in 0 .. n : f \in 0 .. n + 1 /\ f # n + 1
      OBVIOUS
    <2>2. n + 1 \in 0 .. n + 1
      OBVIOUS
    <2> QED
      BY <1>0, <2>1, <2>2 DEF Within, Streams
  <1>3. LooseEnds(v)
    <2>1. w.kernels[a].output[i].other_kernel # NoKernel /\ w.kernels[b].input[j].other_kernel # NoKernel
      BY <1>1 DEF Stream, Sound, WorldType, NoKernel
    <2>2. ASSUME NEW k \in DOMAIN w.kernels, NEW m \in DOMAIN w.kernels[k].output,
                 v.kernels[k].output[m].other_kernel = NoKernel
          PROVE  v.kernels[k].output[m].fifo = NoFifo
      <3>1. w.kernels[k].output[m].other_kernel = NoKernel
        BY <1>0, <2>2 DEF SameEnds
      <3> QED
        BY <2>1, <3>1 DEF LooseEnds, Streams
    <2>3. ASSUME NEW k \in DOMAIN w.kernels, NEW m \in DOMAIN w.kernels[k].input,
                 v.kernels[k].input[m].other_kernel = NoKernel
          PROVE  v.kernels[k].input[m].fifo = NoFifo
      <3>1. w.kernels[k].input[m].other_kernel = NoKernel
        BY <1>0, <2>3 DEF SameEnds
      <3> QED
        BY <2>1, <3>1 DEF LooseEnds, Streams
    <2> QED
      BY <1>0, <2>2, <2>3 DEF LooseEnds
  <1>4. Distinct(v)
    <2>1. \A k \in DOMAIN w.kernels : \A m \in DOMAIN w.kernels[k].output : w.kernels[k].output[m].fifo # n + 1
      BY DEF Streams, Within
    <2> QED
      BY <1>0, <2>1 DEF Distinct, Streams
  <1>5. \A c \in DOMAIN w.kernels, d \in DOMAIN w.kernels :
          \A m \in DOMAIN w.kernels[c].output : \A l \in DOMAIN w.kernels[d].input :
            Stream(v, c, m, d, l) => Stream(w, c, m, d, l)
    <2>1. ASSUME NEW c \in DOMAIN w.kernels, NEW m \in DOMAIN w.kernels[c].output,
                 NEW d \in DOMAIN w.kernels, NEW l \in DOMAIN w.kernels[d].input, Stream(v, c, m, d, l)
          PROVE  Stream(w, c, m, d, l)
      <3>1. /\ SameEnds(w.kernels[c].output[m], v.kernels[c].output[m])
            /\ SameEnds(w.kernels[d].input[l], v.kernels[d].input[l])
        BY <1>0
      <3> QED
        BY <1>0, <2>1, <3>1 DEF Stream, SameEnds
    <2> QED
      BY <2>1
  <1>6. EndsAgree(v)
    <2>1. ASSUME NEW c \in DOMAIN w.kernels, NEW m \in DOMAIN w.kernels[c].output,
                 NEW d \in DOMAIN w.kernels, NEW l \in DOMAIN w.kernels[d].input, Stream(v, c, m, d, l)
          PROVE  v.kernels[d].input[l].fifo = v.kernels[c].output[m].fifo
      <3>1. Stream(w, c, m, d, l)
        BY <1>5, <2>1
      <3>2. (c = a /\ m = i) <=> (d = b /\ l = j)
        BY <1>1, <3>1, StreamIs
      <3>3. w.kernels[d].input[l].fifo = w.kernels[c].output[m].fifo
        BY <3>1 DEF Streams, EndsAgree
      <3> QED
        BY <3>2, <3>3
    <2> QED
      BY <1>0, <2>1 DEF EndsAgree
  <1>7. Reached(v)
    <2>1. Extends(w, v)
      BY <1>0 DEF Extends, SameEnds
    <2>2. Reachable(w.kernels, w.keeper.source) \subseteq Reachable(v.kernels, v.keeper.source)
      BY <2>1, ReachableStays
    <2> QED
      BY <1>0, <2>2 DEF Reached, Streams
  <1> QED
    BY <1>2, <1>3, <1>4, <1>6, <1>7 DEF Streams

-----------------------------------------------------------------------------
(* main() before exe() has threads. *)

\* The streams there are have been deleted, and no one uses them.
LEMMA AloneKeepsStreams ==
    ASSUME SInv, IInv', MInv', Connected', Placed(graph'), Streams(graph', Len(fifos)),
           Walks', Dotted', pc \in Alone, pc' \in Alone \cup Over,
           UNCHANGED <<fifos, deleted, lock, mem, thread>>
    PROVE  SInv'
  <1>1. Stored' /\ deleted' = DOMAIN fifos
    BY DEF SInv, Stored
  <1>2. Sized'
    <2>1. \A k \in DOMAIN graph'.kernels : \A i \in DOMAIN graph'.kernels[k].output :
            graph'.kernels[k].output[i].fifo \in {NoFifo} \cup deleted'
      <3>1. DOMAIN fifos = 1 .. Len(fifos) /\ Len(fifos) \in Nat
        BY DEF SInv, Stored
      <3> QED
        BY <1>1, <3>1 DEF Streams, Within, NoFifo
    <2> QED
      BY <2>1 DEF Sized
  <1>3. mem.pc \in {"none", "ended"} /\ Resting
    BY DEF SInv, GInv, IInv, MemPlace, ThreadsJoined, NoKernelsYet
  <1>4. Made'
    <2>1. ~(pc' = "wait" \/ Executing')
      BY DEF Executing, Alone, Over, Building0
    <2>2. StreamsOutliveTheirUsers'
      BY <1>3 DEF StreamsOutliveTheirUsers, Resting
    <2> QED
      BY <1>3, <2>1, <2>2 DEF SInv, Made, Growing, Monitoring
  <1>5. Streams(graph, Len(fifos))'
    OBVIOUS
  <1>6. GInv'
    BY DEF GInv
  <1> QED
    BY <1>1, <1>2, <1>4, <1>5, <1>6 DEF SInv

\* What main() knows while it is alone.
LEMMA AloneIs ==
    ASSUME SInv, pc \in Alone
    PROVE  /\ Sound(graph) /\ Placed(graph) /\ Streams(graph, Len(fifos)) /\ Len(fifos) \in Nat
           /\ lock # "mem" /\ DOMAIN walk = {"main", "mem", "para"}
           /\ pc # "dotting" => dot = <<>>
  <1>1. Sound(graph)
    BY DEF SInv, GInv, MInv, GraphSound, Alone, Building0
  <1>2. lock # "mem"
    BY DEF SInv, GInv, IInv, MemPlace, LockHeld, Monitoring
  <1>3. Len(fifos) \in Nat
    BY DEF SInv, Stored
  <1> QED
    BY <1>1, <1>2, <1>3 DEF SInv, GInv, Walks, Dotted

\* Building the graph.
LEMMA BuildingKeepsStreams ==
    ASSUME SInv, IInv', Building, UNCHANGED exeVars
    PROVE  SInv' /\ Stays(graph, graph')
  <1>0. pc \in Building0 /\ pc' \in Building0 \cup {"terminated"}
    BY BuildingStays
  <1>1. /\ Sound(graph) /\ Placed(graph) /\ Streams(graph, Len(fifos)) /\ Len(fifos) \in Nat
        /\ lock # "mem" /\ DOMAIN walk = {"main", "mem", "para"} /\ dot = <<>>
    BY <1>0, AloneIs DEF Alone, Building0
  <1>2. MInv' /\ Grows(graph, graph')
    BY BuildingKeeps DEF SInv, GInv
  <1>3. Sound(graph')
    BY <1>0, <1>2 DEF MInv, GraphSound, Building0
  <1>4. Streams(graph', Len(fifos))
    BY <1>1, <1>2, <1>3, StreamsGrow
  <1>5. Placed(graph')
    BY <1>1, <1>2 DEF Placed, Grows, CoreRange
  <1>6. Connected' /\ Walks' /\ Dotted'
    BY <1>0, <1>1 DEF Connected, Walks, Dotted, InExe, Building0, exeVars, storage
  <1>7. UNCHANGED <<fifos, deleted, lock, mem, thread>>
    BY DEF exeVars, storage
  <1>8. SInv'
    BY <1>0, <1>2, <1>4, <1>5, <1>6, <1>7, AloneKeepsStreams DEF Alone, Over
  <1> QED
    BY <1>2, <1>8, GrowsStays

\* The map is destroyed.
LEMMA DestroyKeepsStreams ==
    ASSUME SInv, IInv', Destroy, UNCHANGED exeVars
    PROVE  SInv' /\ Stays(graph, graph')
  <1>0. pc = "main" /\ pc' = "done" /\ graph' = [graph EXCEPT !.keeper.internal = {}]
    BY DEF Destroy
  <1>1. /\ Sound(graph) /\ Placed(graph) /\ Streams(graph, Len(fifos)) /\ Len(fifos) \in Nat
        /\ lock # "mem" /\ DOMAIN walk = {"main", "mem", "para"} /\ dot = <<>>
    BY <1>0, AloneIs DEF Alone, Building0
  <1>2. MInv' /\ graph'.kernels = graph.kernels
    BY DestroyKeeps DEF SInv, GInv
  <1>3. graph'.keeper.source = graph.keeper.source /\ graph'.keeper.all = graph.keeper.all
    BY <1>0, <1>1 DEF Sound, WorldType, KeeperType
  <1>4. Streams(graph', Len(fifos))
    <2>1. \A a, i, b, j : Stream(graph', a, i, b, j) <=> Stream(graph, a, i, b, j)
      BY <1>2, <1>3 DEF Stream
    <2>2. EndsAgree(graph')
      BY <1>1, <1>2, <2>1 DEF Streams, EndsAgree
    <2>3. Within(graph', Len(fifos)) /\ LooseEnds(graph') /\ Distinct(graph') /\ Reached(graph')
      BY <1>1, <1>2, <1>3 DEF Streams, Within, LooseEnds, Distinct, Reached
    <2> QED
      BY <2>2, <2>3 DEF Streams
  <1>5. Placed(graph')
    BY <1>1, <1>2 DEF Placed
  <1>6. Connected' /\ Walks' /\ Dotted'
    BY <1>0, <1>1 DEF Connected, Walks, Dotted, InExe, exeVars, storage
  <1>7. UNCHANGED <<fifos, deleted, lock, mem, thread>>
    BY DEF exeVars, storage
  <1>8. SInv'
    BY <1>0, <1>2, <1>4, <1>5, <1>6, <1>7, AloneKeepsStreams DEF Alone, Over, Building0
  <1> QED
    BY <1>2, <1>8 DEF Stays

\* checkEdges() lets a graph pass that is connected, or throws.
LEMMA CheckKeepsStreams ==
    ASSUME SInv, IInv', checkEdges
    PROVE  SInv' /\ Stays(graph, graph')
  <1> DEFINE connected == \A k \in graph.keeper.all : AllConnected(graph.kernels[k])
  <1>0. /\ pc = "main" /\ AtStatement("exe") /\ UNCHANGED <<prog, stmt, step, add, ret>>
        /\ \/ connected /\ pc' = "partition" /\ graph' = graph
           \/ ~connected /\ pc' = "thrown" /\ graph' = Throw(graph, "PortUnconnected")
    BY DEF checkEdges, AtStatement, BuildUnchanged
  <1>1. /\ Sound(graph) /\ Placed(graph) /\ Streams(graph, Len(fifos)) /\ Len(fifos) \in Nat
        /\ lock # "mem" /\ DOMAIN walk = {"main", "mem", "para"} /\ dot = <<>> /\ MInv
    BY <1>0, AloneIs DEF Alone, Building0, SInv, GInv
  <1>2. Keeps(graph, graph') /\ (connected => graph'.thrown = graph.thrown)
    <2>1. CASE connected
      BY <1>0, <1>1, <2>1, KeepsItself
    <2>2. CASE ~connected
      BY <1>0, <1>1, <2>2, ThrowKeeps DEF Exceptions, PortExceptions
    <2> QED
      BY <2>1, <2>2
  <1>3. graph.pairs = <<>> /\ graph'.pairs = <<>>
    <2>1. ~AtStatement("add")
      BY <1>0 DEF AtStatement
    <2>2. Len(graph.pairs) = step - 1 /\ step \in Nat \ {0} /\ ~(step > 1)
      BY <1>0, <1>1, <2>1 DEF MInv, AtWork
    <2>3. graph.pairs \in Seq(PairType) /\ graph'.pairs \in Seq(PairType) /\ DOMAIN graph'.pairs = DOMAIN graph.pairs
      BY <1>1, <1>2 DEF Sound, WorldType, Keeps
    <2>4. Len(graph.pairs) = 0
      BY <2>2
    <2> QED
      BY <2>3, <2>4
  <1>4. Sound(graph') /\ Grows(graph, graph')
    BY <1>2 DEF Keeps
  <1>5. Streams(graph', Len(fifos)) /\ Placed(graph')
    BY <1>1, <1>4, StreamsGrow DEF Placed, Grows, CoreRange
  <1>6. MInv'
    <2>1. KernelsMade' /\ ret.dst \in Seq(DOMAIN graph'.kernels)
      BY <1>0, <1>1, <1>4, KernelsMadeStays
    <2>2. GraphSound'
      BY <1>0, <1>1, <1>2, <1>4 DEF MInv, GraphSound, Sound, Thrown
    <2>3. AtWork'
      BY <1>0, <1>1, <1>3, <2>1 DEF MInv, AtWork, InExe
    <2> QED
      BY <2>1, <2>2, <2>3 DEF MInv
  <1>7. Connected'
    BY <1>0 DEF Connected, InExe
  <1>8. Walks' /\ Dotted' /\ UNCHANGED <<fifos, deleted, lock, mem, thread>>
    BY <1>0, <1>1 DEF checkEdges, Walks, Dotted, exeVars, storage
  <1>9. SInv'
    BY <1>0, <1>5, <1>6, <1>7, <1>8, AloneKeepsStreams DEF Alone, Over, Building0
  <1> QED
    BY <1>4, <1>9, GrowsStays

\* The kernels are given cores.
LEMMA PartitionKeepsStreams ==
    ASSUME SInv, IInv', Partition
    PROVE  SInv' /\ Stays(graph, graph')
  <1>0. /\ pc = "partition" /\ pc' = "dot" /\ UNCHANGED <<prog, stmt, step, add, ret>>
        /\ UNCHANGED exeVars
        /\ partition_dummy \/ partition_basic \/ partition_scotch
    BY DEF Partition, Main, BuildUnchanged
  <1>1. /\ Sound(graph) /\ Placed(graph) /\ Streams(graph, Len(fifos)) /\ Len(fifos) \in Nat
        /\ lock # "mem" /\ DOMAIN walk = {"main", "mem", "para"} /\ dot = <<>> /\ MInv
    BY <1>0, AloneIs DEF Alone, SInv, GInv
  <1>2. /\ Sound(graph') /\ AtTheirPlaces(graph, graph') /\ Placed(graph')
        /\ graph'.pairs = graph.pairs /\ graph'.thrown = graph.thrown
    BY <1>0, <1>1, PartitionKeepsGraph DEF InExe
  <1>3. Streams(graph', Len(fifos))
    BY <1>1, <1>2, StreamsMove
  <1>4. MInv'
    BY <1>0, <1>1, <1>2, ExeGraphKeeps DEF AtTheirPlaces, InExe
  <1>5. Connected'
    <2>1. \A k \in graph.keeper.all : AllConnected(graph.kernels[k]) /\ k \in DOMAIN graph.kernels
      BY <1>0, <1>1 DEF SInv, GInv, Connected, InExe, Sound, Kept
    <2>2. graph'.keeper = graph.keeper
      BY <1>2 DEF AtTheirPlaces
    <2>3. ASSUME NEW k \in graph.keeper.all
          PROVE  AllConnected(graph'.kernels[k])
      <3>1. graph'.kernels[k].input = graph.kernels[k].input /\ graph'.kernels[k].output = graph.kernels[k].output
        BY <1>2, <2>1 DEF AtTheirPlaces
      <3> QED
        BY <2>1, <3>1 DEF AllConnected
    <2> QED
      BY <2>2, <2>3 DEF Connected
  <1>6. Walks' /\ Dotted' /\ UNCHANGED <<fifos, deleted, lock, mem, thread>>
    BY <1>0, <1>1 DEF Walks, Dotted, exeVars, storage
  <1>7. SInv'
    BY <1>0, <1>2, <1>3, <1>4, <1>5, <1>6, AloneKeepsStreams DEF Alone, Over
  <1> QED
    BY <1>2, <1>7 DEF AtTheirPlaces, Stays

\* Inside of exe() all ports of the map lead somewhere.
LEMMA ExeIs ==
    ASSUME SInv, pc \in InExe
    PROVE  Sound(graph) /\ AllLead(graph) /\ MInv
  BY DEF SInv, GInv, MInv, GraphSound, InExe, Connected, AllLead

\* Steps of exe() that leave the graph alone.
LEMMA ExeLeaves ==
    ASSUME SInv, pc \in InExe, pc' \in InExe \cup {"terminated", "exited"}, graph' = graph,
           UNCHANGED <<prog, stmt, step, ret>>
    PROVE  MInv' /\ Connected' /\ Placed(graph') /\ Stays(graph, graph')
  <1>1. Sound(graph) /\ MInv
    BY ExeIs
  <1>2. MInv'
    BY <1>1, ExeGraphKeeps
  <1>3. Connected'
    BY DEF SInv, GInv, Connected
  <1>4. Placed(graph')
    BY DEF SInv, GInv
  <1>5. Stays(graph, graph')
    BY DEF Stays
  <1> QED
    BY <1>2, <1>3, <1>4, <1>5

\* The file of GEN_DOT is begun.
LEMMA DotBeginKeeps ==
    ASSUME SInv, IInv', DotBegin
    PROVE  SInv' /\ Stays(graph, graph')
  <1>0. /\ pc = "dot" /\ pc' = "dotting" /\ UNCHANGED <<prog, stmt, step, add, ret, graph>>
        /\ UNCHANGED <<fifos, deleted, lock, mem, thread, dot>>
        /\ walk' = [walk EXCEPT !.main = BFS(graph.keeper.source)]
    BY DEF DotBegin, Main, BuildUnchanged, storage
  <1>1. /\ Sound(graph) /\ Placed(graph) /\ Streams(graph, Len(fifos))
        /\ lock # "mem" /\ DOMAIN walk = {"main", "mem", "para"} /\ dot = <<>>
    BY <1>0, AloneIs DEF Alone
  <1>2. MInv' /\ Connected' /\ Placed(graph') /\ Stays(graph, graph')
    BY <1>0, ExeLeaves DEF InExe
  <1>3. walk'.main = BFS(graph.keeper.source) /\ DOMAIN walk' = {"main", "mem", "para"}
    BY <1>0, <1>1
  <1>4. /\ Walking(walk'.main, graph.kernels, graph.keeper.source)
        /\ Passed(walk'.main, graph.kernels) = {}
    BY <1>1, <1>3, WalkBegins
  <1>5. Walks'
    BY <1>0, <1>1, <1>3, <1>4 DEF Walks
  <1>6. Dotted'
    <2>1. Cardinality({}) = 0 /\ IsFiniteSet({})
      BY FS_EmptySet
    <2>2. Passed(walk.main, graph.kernels)' = {}
      BY <1>0, <1>4
    <2>3. /\ dot' = <<>> /\ {DotLine(s[1], s[2])' : s \in {}} = {}
          /\ <<>> \in Seq({}) /\ Len(<<>>) = 0 /\ {dot'[n] : n \in DOMAIN dot'} = {}
      BY <1>0, <1>1
    <2> QED
      BY <1>0, <2>1, <2>2, <2>3 DEF Dotted
  <1> QED
    BY <1>0, <1>1, <1>2, <1>5, <1>6, AloneKeepsStreams DEF Alone

\* A line is written for each edge that the traversal meets.
LEMMA DotLineKeeps ==
    ASSUME SInv, IInv', generate_edge_list
    PROVE  SInv' /\ Stays(graph, graph')
  <1>0. /\ pc = "dotting" /\ UNCHANGED <<prog, graph, pc, stmt, step, add, ret>>
        /\ UNCHANGED <<fifos, deleted, lock, mem, thread>>
    BY DEF generate_edge_list, mapVars, storage
  <1>1. PICK k \in AtFront(walk.main) :
          /\ dot' = IF AtEdge(walk.main, graph.kernels, k) THEN Append(dot, DotLine(k, walk.main.port)) ELSE dot
          /\ walk' = [walk EXCEPT !.main = BFS_edges(walk.main, graph.kernels, k)]
    BY DEF generate_edge_list
  <1> DEFINE wk == walk.main
             P == Passed(wk, graph.kernels)
             P2 == Passed(walk'.main, graph.kernels)
             edge == AtEdge(wk, graph.kernels, k)
             line == DotLine(k, wk.port)
             lines == {DotLine(s[1], s[2]) : s \in P}
             lines2 == {DotLine(s[1], s[2]) : s \in P2}
  <1>2. /\ Placed(graph) /\ Streams(graph, Len(fifos)) /\ Sound(graph) /\ AllLead(graph)
        /\ lock # "mem" /\ DOMAIN walk = {"main", "mem", "para"}
        /\ Walking(wk, graph.kernels, graph.keeper.source)
        /\ dot \in Seq(lines) /\ Len(dot) = Cardinality(P) /\ IsFiniteSet(P) /\ {dot[n] : n \in DOMAIN dot} = lines
    BY <1>0, AloneIs, ExeIs DEF Alone, InExe, SInv, Walks, Dotted
  <1>3. walk'.main = BFS_edges(wk, graph.kernels, k) /\ DOMAIN walk' = {"main", "mem", "para"}
    BY <1>1, <1>2
  <1>4. /\ Walking(walk'.main, graph.kernels, graph.keeper.source)
        /\ edge => P2 = P \cup {<<k, wk.port>>} /\ <<k, wk.port>> \notin P
        /\ ~edge => P2 = P
    BY <1>2, <1>3, WalkSteps
  <1>5. Walks'
    BY <1>0, <1>2, <1>3, <1>4 DEF Walks
  <1>6. /\ dot' \in Seq(lines2) /\ Len(dot') = Cardinality(P2) /\ IsFiniteSet(P2)
        /\ {dot'[n] : n \in DOMAIN dot'} = lines2
    <2>1. CASE ~edge
      BY <1>1, <1>2, <1>4, <2>1
    <2>2. CASE edge
      <3>1. dot' = Append(dot, line) /\ P2 = P \cup {<<k, wk.port>>} /\ <<k, wk.port>> \notin P
        BY <1>1, <1>4, <2>2
      <3>2. IsFiniteSet(P2) /\ Cardinality(P2) = Cardinality(P) + 1
        BY <1>2, <3>1, FS_AddElement
      <3>3. lines2 = lines \cup {line}
        BY <3>1
      <3> HIDE DEF line, lines, lines2, P, P2
      <3>4. /\ Append(dot, line) \in Seq(lines \cup {line}) /\ Len(Append(dot, line)) = Len(dot) + 1
            /\ Members(Append(dot, line)) = Members(dot) \cup {line}
        BY <1>2, AppendMembers
      <3> QED
        BY <1>2, <3>1, <3>2, <3>3, <3>4 DEF Members
    <2> QED
      BY <2>1, <2>2
  <1>7. Dotted'
    <2>1. \A x, i : DotLine(x, i)' = DotLine(x, i)
      BY <1>0 DEF DotLine
    <2>2. Passed(walk.main, graph.kernels)' = P2
      BY <1>0
    <2>3. {DotLine(s[1], s[2])' : s \in P2} = lines2
      BY <2>1
    <2> HIDE DEF P2, lines2
    <2> QED
      BY <1>0, <1>6, <2>2, <2>3 DEF Dotted
  <1>8. MInv' /\ Connected' /\ Placed(graph') /\ Stays(graph, graph')
    BY <1>0, ExeLeaves DEF InExe
  <1> QED
    BY <1>0, <1>2, <1>5, <1>7, <1>8, AloneKeepsStreams DEF Alone

\* The file is closed.
LEMMA DotEndKeeps ==
    ASSUME SInv, IInv', DotEnd
    PROVE  SInv' /\ Stays(graph, graph')
  <1>0. /\ pc = "dotting" /\ pc' \in {"spawn", "exited"} /\ UNCHANGED <<prog, stmt, step, add, ret, graph>>
        /\ UNCHANGED <<fifos, deleted, lock, mem, thread>> /\ dot' = <<>>
        /\ walk' = [walk EXCEPT !.main = NoWalk]
    BY DEF DotEnd, BuildUnchanged, storage
  <1>1. /\ Streams(graph, Len(fifos)) /\ lock # "mem" /\ DOMAIN walk = {"main", "mem", "para"}
    BY <1>0, AloneIs DEF Alone
  <1>2. MInv' /\ Connected' /\ Placed(graph') /\ Stays(graph, graph')
    BY <1>0, ExeLeaves DEF InExe
  <1>3. DOMAIN walk' = {"main", "mem", "para"}
    BY <1>0, <1>1
  <1>4. Walks' /\ Dotted'
    BY <1>0, <1>1, <1>3 DEF Walks, Dotted
  <1> QED
    BY <1>0, <1>1, <1>2, <1>4, AloneKeepsStreams DEF Alone, Over

-----------------------------------------------------------------------------
(* exe() once it has threads. *)
WithThreads == {"wait", "join_sched", "join_mem", "join_para"}

\* Steps that leave the graph and the streams as they are.
LEMMA InsideKeeps ==
    ASSUME SInv, IInv', pc \in InExe \ {"dotting"}, pc' \in WithThreads \cup {"terminated"},
           UNCHANGED <<prog, stmt, step, ret, graph, fifos, deleted, dot>>, Walks', Made',
           \A f \in DOMAIN mem'.size_map : mem'.size_map[f] \in 0 .. 3
    PROVE  SInv' /\ Stays(graph, graph')
  <1>1. MInv' /\ Connected' /\ Placed(graph') /\ Stays(graph, graph')
    BY ExeLeaves DEF InExe, WithThreads
  <1>2. Dotted'
    BY DEF SInv, Dotted, WithThreads
  <1>3. Stored'
    BY DEF SInv, Stored, WithThreads, Alone, Building0
  <1>4. Sized'
    BY DEF SInv, Sized
  <1>5. Streams(graph, Len(fifos))'
    BY DEF SInv
  <1>6. GInv'
    BY <1>1 DEF GInv
  <1> QED
    BY <1>1, <1>2, <1>3, <1>4, <1>5, <1>6 DEF SInv

\* The allocator's thread is started.
LEMMA SpawnKeepsStreams ==
    ASSUME SInv, IInv', SpawnAllocator
    PROVE  SInv' /\ Stays(graph, graph')
  <1>0. /\ pc \in {"dot", "spawn"} /\ pc' = "wait" /\ UNCHANGED <<prog, stmt, step, add, ret, graph>>
        /\ UNCHANGED <<fifos, deleted, lock, walk, thread, dot>>
        /\ mem'.pc = "want_alloc" /\ ~mem'.ready /\ mem'.size_map = <<>>
    BY DEF SpawnAllocator, NoThreads, BuildUnchanged, storage
  <1>1. lock # "mem" /\ Resting
    BY <1>0, AloneIs DEF Alone, SInv, GInv, IInv, ThreadsJoined, NoKernelsYet
  <1>2. Walks'
    BY <1>0, <1>1 DEF SInv, Walks
  <1>3. Made'
    <2>1. StreamsOutliveTheirUsers'
      BY <1>0, <1>1 DEF StreamsOutliveTheirUsers, Resting
    <2> QED
      BY <1>0, <2>1 DEF Made, Growing, Monitoring
  <1>4. \A f \in DOMAIN mem'.size_map : mem'.size_map[f] \in 0 .. 3
    BY <1>0
  <1> QED
    BY <1>0, <1>2, <1>3, <1>4, InsideKeeps DEF InExe, WithThreads

\* The first part of StreamsOutliveTheirUsers.
Using == {"running", "blocked", "finished"}
UsersOk == \A k \in DOMAIN thread : thread[k] \in Using =>
             \A f \in FifosOf(k) : f # NoFifo /\ f \notin deleted

\* Threads that do not touch the streams.
LEMMA ElsewhereKeeps ==
    ASSUME SInv, IInv', pc \in WithThreads, pc' \in WithThreads \cup {"terminated"},
           UNCHANGED <<prog, stmt, step, ret, graph, fifos, deleted, dot, mem>>,
           DOMAIN walk' = DOMAIN walk, walk'.mem = walk.mem, lock' = "mem" => lock = "mem",
           UsersOk'
    PROVE  SInv' /\ Stays(graph, graph')
  <1>1. Walks'
    BY DEF SInv, Walks, WithThreads
  <1>2. StreamsOutliveTheirUsers'
    BY DEF SInv, Made, StreamsOutliveTheirUsers, UsersOk, Using, Outputs
  <1>3. Made'
    <2>1. FromSources' = FromSources /\ \A k, i : Live(k, i)' = Live(k, i)
      BY DEF FromSources, Live
    <2>2. pc' = "wait" \/ Executing' => pc = "wait" \/ Executing
      BY DEF WithThreads, Executing
    <2>3. Growing'
      BY DEF SInv, Made, Growing, MayGrow
    <2> QED
      BY <1>2, <2>1, <2>2, <2>3 DEF SInv, Made
  <1>4. \A f \in DOMAIN mem'.size_map : mem'.size_map[f] \in 0 .. 3
    BY DEF SInv, Stored
  <1> QED
    BY <1>1, <1>3, <1>4, InsideKeeps DEF InExe, WithThreads

\* The same, when no thread of a kernel begins to use its streams.
LEMMA OthersKeep ==
    ASSUME SInv, IInv', pc \in WithThreads, pc' \in WithThreads,
           UNCHANGED <<prog, stmt, step, ret, graph, fifos, deleted, dot, mem>>,
           DOMAIN walk' = DOMAIN walk, walk'.mem = walk.mem, lock' = "mem" => lock = "mem",
           \A k \in DOMAIN thread' : thread'[k] \in Using =>
              k \in DOMAIN thread /\ thread[k] \in Using
    PROVE  SInv' /\ Stays(graph, graph')
  <1>1. \A k : FifosOf(k)' = FifosOf(k)
    BY DEF FifosOf
  <1>2. UsersOk'
    BY <1>1 DEF SInv, Made, StreamsOutliveTheirUsers, UsersOk, Using
  <1> QED
    BY <1>2, ElsewhereKeeps

\* main() starts the scheduler and the parallelism monitor, and joins the threads.
LEMMA JoinsKeepStreams ==
    ASSUME SInv, IInv', waitTillReady \/ JoinScheduler \/ JoinAllocator
    PROVE  SInv' /\ Stays(graph, graph')
  <1>1. /\ pc \in WithThreads /\ pc' \in WithThreads
        /\ UNCHANGED <<prog, stmt, step, ret, graph, fifos, deleted, dot, mem, walk, lock>>
    BY DEF waitTillReady, JoinScheduler, JoinAllocator, Main, BuildUnchanged, storage, WithThreads
  <1>2. \A k \in DOMAIN thread' : thread'[k] \in Using =>
          k \in DOMAIN thread /\ thread[k] \in Using
    BY DEF waitTillReady, JoinScheduler, JoinAllocator, Using
  <1> QED
    BY <1>1, <1>2, OthersKeep

\* The scheduler's thread.
LEMMA SchedulerKeepsStreams ==
    ASSUME SInv, IInv', Alive, SchedNext
    PROVE  SInv' /\ Stays(graph, graph')
  <1>1. pc = "join_sched"
    <2>1. sched.pc \notin {"none", "ended"}
      BY DEF SchedNext, StartThread, StoreLoc, Scheduled, AllTerminated, JoinThread
    <2> QED
      BY <2>1 DEF SInv, GInv, IInv, Shape, ThreadsJoined, NoKernelsYet, Alive, Over
  <1>2. UNCHANGED <<prog, stmt, step, ret, graph, fifos, deleted, dot, mem, walk, lock, pc>>
    BY DEF SchedNext, StartThread, StoreLoc, Scheduled, AllTerminated, JoinThread, mapVars, storage
  <1>3. \A k \in DOMAIN thread' : thread'[k] \in Using =>
          k \in DOMAIN thread /\ thread[k] \in Using
    BY DEF SchedNext, StartThread, StoreLoc, Scheduled, AllTerminated, JoinThread, Using
  <1> QED
    BY <1>1, <1>2, <1>3, OthersKeep DEF WithThreads

\* The parallelism monitor's thread.
LEMMA MonitorKeepsStreams ==
    ASSUME SInv, IInv', Alive, ParaNext
    PROVE  SInv' /\ Stays(graph, graph')
  <1>1. pc \in WithThreads
    <2>1. para \notin {"none", "ended"}
      BY DEF ParaNext, ParaCheck, ParaAcquire, ParaVisit, ParaDone
    <2> QED
      BY <2>1 DEF SInv, GInv, IInv, Shape, LockHeld, NoKernelsYet, Alive, Over, WithThreads
  <1>2. UNCHANGED <<prog, stmt, step, ret, graph, fifos, deleted, dot, mem, pc, thread>>
    BY DEF ParaNext, ParaCheck, ParaAcquire, ParaVisit, ParaDone, mapVars, storage
  <1>3. DOMAIN walk' = DOMAIN walk /\ walk'.mem = walk.mem /\ (lock' = "mem" => lock = "mem")
    <2>1. \/ walk' = walk
          \/ \E wk : walk' = [walk EXCEPT !.para = wk]
      BY DEF ParaNext, ParaCheck, ParaAcquire, ParaVisit, ParaDone
    <2>2. lock' = "mem" => lock = "mem"
      BY DEF ParaNext, ParaCheck, ParaAcquire, ParaVisit, ParaDone, Acquire, Release
    <2>3. DOMAIN walk = {"main", "mem", "para"}
      BY DEF SInv, Walks
    <2> QED
      BY <2>1, <2>2, <2>3
  <1> QED
    BY <1>1, <1>2, <1>3, OthersKeep

\* A kernel of the map that has a port without a stream does not get past setPtrSets();
\* the streams of the others live as long as exe() does.
LEMMA KernelsKeepStreams ==
    ASSUME SInv, IInv', Alive, SomeKernelNext
    PROVE  SInv' /\ Stays(graph, graph')
  <1>1. PICK k \in DOMAIN thread : KernelNext(k)
    BY DEF SomeKernelNext
  <1>2. /\ thread[k] \in {"started", "running", "finished"} /\ pc' \in {pc, "terminated"}
        /\ UNCHANGED <<prog, stmt, step, ret, graph, fifos, deleted, dot, mem, walk, lock>>
    BY <1>1 DEF KernelNext, BeginRun, Stop, Block, EndRun, BuildUnchanged, mapVars, storage
  <1>3. pc = "join_sched" /\ mem.ready /\ k \in graph.keeper.all
    <2>1. ~Resting
      BY <1>2 DEF Resting
    <2>2. pc = "join_sched"
      BY <2>1 DEF SInv, GInv, IInv, Shape, ThreadsJoined, Executing, Alive, Over
    <2> QED
      BY <1>2, <2>2 DEF SInv, GInv, IInv, MemPlace, ThreadsJoined, Executing
  <1>4. \A x : FifosOf(x)' = FifosOf(x)
    BY <1>2 DEF FifosOf
  <1>5. CASE BeginRun(k) /\ NoFifo \notin FifosOf(k)
    <2>1. ASSUME NEW f \in FifosOf(k)
          PROVE  f # NoFifo /\ f \notin deleted
      <3>0. f # NoFifo
        BY <1>5
      <3>1. Sound(graph) /\ AllLead(graph) /\ Streams(graph, Len(fifos)) /\ k \in DOMAIN graph.kernels
        BY <1>3, ExeIs DEF InExe, SInv, Sound, Kept
      <3>2. ASSUME NEW x \in DOMAIN graph.kernels, NEW i \in DOMAIN graph.kernels[x].output,
                   graph.kernels[x].output[i].fifo = f
            PROVE  f \notin deleted
        <4>1. x \in FromSources
          BY <3>0, <3>1, <3>2 DEF Streams, Reached, FromSources
        <4>2. Live(x, i)
          BY <1>3, <3>2, <4>1 DEF SInv, Made, Executing
        <4> QED
          BY <3>2, <4>2 DEF Live
      <3>3. \/ \E i \in DOMAIN graph.kernels[k].output : graph.kernels[k].output[i].fifo = f
            \/ \E i \in DOMAIN graph.kernels[k].input : graph.kernels[k].input[i].fifo = f
        BY DEF FifosOf, Side
      <3>4. ASSUME NEW j \in DOMAIN graph.kernels[k].input, graph.kernels[k].input[j].fifo = f
            PROVE  f \notin deleted
        <4> DEFINE a == graph.kernels[k].input[j].other_kernel
        <4>1. a # NoKernel
          BY <1>3, <3>1, <3>4 DEF AllLead, AllConnected
        <4>2. PICK i \in DOMAIN graph.kernels[a].output : Stream(graph, a, i, k, j)
          BY <3>1, <3>4, <4>1 DEF Sound, Mutual
        <4>3. a \in DOMAIN graph.kernels
          BY <4>2 DEF Stream
        <4>4. graph.kernels[a].output[i].fifo = f
          BY <3>1, <3>4, <4>2, <4>3 DEF Streams, EndsAgree
        <4> QED
          BY <3>2, <4>3, <4>4
      <3> QED
        BY <3>0, <3>1, <3>2, <3>3, <3>4
    <2>2. thread' = [thread EXCEPT ![k] = "running"]
      BY <1>5 DEF BeginRun
    <2>3. UsersOk'
      BY <1>2, <1>4, <2>1, <2>2 DEF SInv, Made, StreamsOutliveTheirUsers, UsersOk, Using
    <2> QED
      BY <1>2, <1>3, <2>3, ElsewhereKeeps DEF WithThreads
  <1>6. CASE ~(BeginRun(k) /\ NoFifo \notin FifosOf(k))
    <2>1. \A x \in DOMAIN thread' : thread'[x] \in Using =>
            x \in DOMAIN thread /\ thread[x] \in Using
      BY <1>1, <1>6 DEF KernelNext, BeginRun, Stop, Block, EndRun, Using
    <2>2. UsersOk'
      BY <1>2, <1>4, <2>1 DEF SInv, Made, StreamsOutliveTheirUsers, UsersOk, Using
    <2> QED
      BY <1>2, <1>3, <2>2, ElsewhereKeeps DEF WithThreads
  <1> QED
    BY <1>5, <1>6

-----------------------------------------------------------------------------
(* The allocator's thread. *)

\* Where main() is while it runs.
LEMMA MemIs ==
    ASSUME SInv, Alive, MemNext
    PROVE  /\ pc \in WithThreads /\ Sound(graph) /\ AllLead(graph)
           /\ DOMAIN walk = {"main", "mem", "para"}
           /\ DOMAIN mem = {"pc", "ready", "size_map", "collide", "copy"}
           /\ lock = "mem" => Walking(walk.mem, graph.kernels, graph.keeper.source)
  <1>1. mem.pc \notin {"none", "ended"}
    BY DEF MemNext, MemGoesOn, MemAcquire, AllocVisit, AllocDone, MonitorCheck, MonitorVisit,
           MonitorDone, ResizeEnds, CopyFrom, SetBuffer
  <1>2. pc \in WithThreads /\ DOMAIN mem = {"pc", "ready", "size_map", "collide", "copy"}
    BY <1>1 DEF SInv, GInv, IInv, Shape, MemPlace, NoKernelsYet, Alive, Over, WithThreads
  <1> QED
    BY <1>2, ExeIs DEF SInv, Walks, WithThreads, InExe

\* What a traversal has visited can be reached, and has its streams once they are made.
LEMMA VisitedLive ==
    ASSUME NEW wk, Walking(wk, graph.kernels, graph.keeper.source),
           \A k \in FromSources : \A i \in DOMAIN graph.kernels[k].output : Live(k, i)
    PROVE  \A k \in wk.visited : \A i \in DOMAIN Outputs(k) : Outputs(k)[i].fifo \notin {NoFifo} \cup deleted
  BY DEF Walking, FromSources, Live, Outputs

\* Steps of its thread that leave the graph and the streams as they are.
LEMMA MemKeeps ==
    ASSUME SInv, IInv', pc \in WithThreads, pc' = pc,
           UNCHANGED <<prog, stmt, step, ret, graph, fifos, deleted, dot, thread>>, Walks',
           mem'.pc \in {"check", "want"} \cup Monitoring => mem'.ready, Growing',
           mem'.pc = "allocating" => \A s \in Passed(walk'.mem, graph.kernels) : Live(s[1], s[2]),
           mem'.ready => mem.ready \/ \A k \in FromSources : \A i \in DOMAIN graph.kernels[k].output : Live(k, i),
           \A f \in DOMAIN mem'.size_map : mem'.size_map[f] \in 0 .. 3
    PROVE  SInv' /\ Stays(graph, graph')
  <1>1. FromSources' = FromSources /\ \A k, i : Live(k, i)' = Live(k, i)
    BY DEF FromSources, Live
  <1>2. mem'.ready => \A k \in FromSources : \A i \in DOMAIN graph.kernels[k].output : Live(k, i)
    BY DEF SInv, Made, WithThreads, Executing
  <1>3. StreamsOutliveTheirUsers'
    <2>1. ASSUME mem'.pc \in Monitoring
          PROVE  \A k \in walk'.mem.visited : \A i \in DOMAIN Outputs(k) :
                   Outputs(k)[i].fifo \notin {NoFifo} \cup deleted
      <3>1. lock' = "mem"
        BY <2>1 DEF IInv, LockHeld
      <3>2. Walking(walk'.mem, graph.kernels, graph.keeper.source)
        BY <3>1 DEF Walks
      <3> QED
        BY <1>2, <2>1, <3>2, VisitedLive
    <2>2. \A k : FifosOf(k)' = FifosOf(k) /\ Outputs(k)' = Outputs(k)
      BY DEF FifosOf, Outputs
    <2> QED
      BY <2>1, <2>2 DEF SInv, Made, StreamsOutliveTheirUsers, Monitoring
  <1>4. Made'
    BY <1>1, <1>2, <1>3 DEF Made
  <1> QED
    BY <1>4, InsideKeeps DEF InExe, WithThreads

\* It begins a traversal.
LEMMA MemAcquireKeeps ==
    ASSUME SInv, IInv', Alive, MemAcquire
    PROVE  SInv' /\ Stays(graph, graph')
  <1>0. /\ pc \in WithThreads /\ Sound(graph) /\ AllLead(graph) /\ DOMAIN walk = {"main", "mem", "para"}
        /\ DOMAIN mem = {"pc", "ready", "size_map", "collide", "copy"}
    BY MemIs DEF MemNext, MemGoesOn
  <1>1. /\ UNCHANGED <<prog, pc, stmt, step, ret, graph, fifos, deleted, dot, thread>>
        /\ walk' = [walk EXCEPT !.mem = BFS(graph.keeper.source)]
        /\ mem' = [mem EXCEPT !.pc = IF mem.pc = "want" THEN "monitoring" ELSE "allocating"]
    BY DEF MemAcquire, mapVars, storage
  <1>2. DOMAIN walk' = {"main", "mem", "para"} /\ walk'.mem = BFS(graph.keeper.source)
    BY <1>0, <1>1
  <1>3. /\ mem'.pc = IF mem.pc = "want" THEN "monitoring" ELSE "allocating"
        /\ mem'.ready = mem.ready /\ mem'.size_map = mem.size_map
    BY <1>0, <1>1
  <1>4. /\ Walking(walk'.mem, graph.kernels, graph.keeper.source)
        /\ Passed(walk'.mem, graph.kernels) = {}
    BY <1>0, <1>2, WalkBegins
  <1>5. Walks'
    BY <1>0, <1>1, <1>2, <1>4 DEF Walks, WithThreads
  <1>6. (mem'.pc \in {"check", "want"} \cup Monitoring => mem'.ready) /\ Growing'
    BY <1>3 DEF SInv, Made, Growing, Monitoring
  <1>7. \A f \in DOMAIN mem'.size_map : mem'.size_map[f] \in 0 .. 3
    BY <1>3 DEF SInv, Stored
  <1> QED
    BY <1>0, <1>1, <1>3, <1>4, <1>5, <1>6, <1>7, MemKeeps

\* All streams have been made.
LEMMA AllocDoneKeeps ==
    ASSUME SInv, IInv', Alive, AllocDone
    PROVE  SInv' /\ Stays(graph, graph')
  <1>0. /\ pc \in WithThreads /\ Sound(graph) /\ AllLead(graph) /\ DOMAIN walk = {"main", "mem", "para"}
        /\ DOMAIN mem = {"pc", "ready", "size_map", "collide", "copy"}
        /\ lock = "mem" => Walking(walk.mem, graph.kernels, graph.keeper.source)
    BY MemIs DEF MemNext, MemGoesOn
  <1>1. /\ UNCHANGED <<prog, pc, stmt, step, ret, graph, fifos, deleted, dot, thread>>
        /\ walk' = [walk EXCEPT !.mem = NoWalk] /\ lock = "mem" /\ lock' = "free"
        /\ mem.pc = "allocating" /\ Finished(walk.mem)
        /\ mem' = [mem EXCEPT !.ready = TRUE, !.size_map = [f \in DOMAIN fifos |-> 0],
                              !.pc = IF Arguments.allocator = "dynalloc" THEN "check" ELSE "ended"]
    BY DEF AllocDone, Release, mapVars, storage
  <1>2. mem'.ready /\ mem'.size_map = [f \in DOMAIN fifos |-> 0] /\ mem'.pc \in {"check", "ended"}
    BY <1>0, <1>1
  <1>3. /\ walk.mem.visited = FromSources
        /\ \A k, i : <<k, i>> \in Passed(walk.mem, graph.kernels) <=>
             k \in walk.mem.visited /\ i \in DOMAIN graph.kernels[k].output
    BY <1>0, <1>1, WalkEnds DEF FromSources
  <1>4. \A s \in Passed(walk.mem, graph.kernels) : Live(s[1], s[2])
    BY <1>1 DEF SInv, Made
  <1>5. ASSUME NEW k \in FromSources, NEW i \in DOMAIN graph.kernels[k].output
        PROVE  Live(k, i)
    <2>1. <<k, i>> \in Passed(walk.mem, graph.kernels)
      BY <1>3
    <2>2. <<k, i>>[1] = k /\ <<k, i>>[2] = i
      OBVIOUS
    <2> QED
      BY <1>4, <2>1, <2>2
  <1>6. Walks'
    <2>1. DOMAIN walk' = {"main", "mem", "para"}
      BY <1>0, <1>1
    <2> QED
      BY <1>0, <1>1, <2>1 DEF Walks, WithThreads
  <1>7. \A f \in DOMAIN mem'.size_map : mem'.size_map[f] \in 0 .. 3
    BY <1>2
  <1>8. Growing' /\ mem'.pc # "allocating"
    BY <1>2 DEF Growing
  <1> QED
    BY <1>0, <1>1, <1>2, <1>5, <1>6, <1>7, <1>8, MemKeeps

\* The monitor looks whether it is to end, and is through with a traversal.
LEMMA MonitorPausesKeep ==
    ASSUME SInv, IInv', Alive, MonitorCheck \/ MonitorDone
    PROVE  SInv' /\ Stays(graph, graph')
  <1>0. /\ pc \in WithThreads /\ Sound(graph) /\ AllLead(graph) /\ DOMAIN walk = {"main", "mem", "para"}
        /\ DOMAIN mem = {"pc", "ready", "size_map", "collide", "copy"}
        /\ lock = "mem" => Walking(walk.mem, graph.kernels, graph.keeper.source)
    BY MemIs DEF MemNext, MemGoesOn
  <1>1. /\ UNCHANGED <<prog, pc, stmt, step, ret, graph, fifos, deleted, dot, thread>>
        /\ mem.pc \in {"check", "monitoring"}
    BY DEF MonitorCheck, MonitorDone, mapVars, storage
  <1>2. mem'.ready = mem.ready /\ mem'.size_map = mem.size_map /\ mem'.pc \in {"check", "want", "ended"}
    BY <1>0 DEF MonitorCheck, MonitorDone
  <1>3. mem.ready
    BY <1>1 DEF SInv, Made, Monitoring
  <1>4. Walks'
    <2>1. CASE MonitorCheck
      <3>1. walk' = walk /\ lock' = lock
        BY <2>1 DEF MonitorCheck
      <3> QED
        BY <1>0, <1>1, <3>1 DEF Walks, WithThreads
    <2>2. CASE MonitorDone
      <3>1. DOMAIN walk' = {"main", "mem", "para"} /\ lock' = "free"
        BY <1>0, <2>2 DEF MonitorDone, Release
      <3> QED
        BY <1>0, <1>1, <3>1 DEF Walks, WithThreads
    <2> QED
      BY <2>1, <2>2
  <1>5. \A f \in DOMAIN mem'.size_map : mem'.size_map[f] \in 0 .. 3
    BY <1>2 DEF SInv, Stored
  <1>6. Growing' /\ mem'.pc # "allocating"
    BY <1>2 DEF Growing
  <1> QED
    BY <1>0, <1>1, <1>2, <1>3, <1>4, <1>5, <1>6, MemKeeps

\* A stream that is resized, and a count that is stored.
Doubled(fs, f) == [fs EXCEPT ![f].capacity = 2 * fs[f].capacity]
Counted(sm, h, c) == [sm EXCEPT ![h] = c]

\* A count that is stored changes nothing else.
LEMMA SetCountIs ==
    ASSUME DOMAIN mem = {"pc", "ready", "size_map", "collide", "copy"}, NEW f, NEW c
    PROVE  LET m == SetCount(f, c)
           IN /\ m.size_map = Counted(mem.size_map, hash(f), c)
              /\ m.pc = mem.pc /\ m.ready = mem.ready /\ DOMAIN m = DOMAIN mem
  BY DEF SetCount, Counted

\* A stream is doubled, the others stay.
LEMMA DoubledIs ==
    ASSUME NEW fs \in Seq(FifoType), NEW g \in DOMAIN fs
    PROVE  LET t == Doubled(fs, g)
           IN /\ t \in Seq(FifoType) /\ Len(t) = Len(fs) /\ DOMAIN t = DOMAIN fs
              /\ \A f \in DOMAIN fs : t[f].external = fs[f].external /\ (f # g => t[f] = fs[f])
  <1> DEFINE new == [fs[g] EXCEPT !.capacity = 2 * fs[g].capacity]
             t == [fs EXCEPT ![g] = new]
  <1>1. fs[g] \in FifoType
    OBVIOUS
  <1>2. new \in FifoType /\ new.external = fs[g].external
    BY <1>1 DEF FifoType
  <1> HIDE DEF new
  <1>3. /\ t \in Seq(FifoType) /\ Len(t) = Len(fs) /\ DOMAIN t = DOMAIN fs
        /\ \A f \in DOMAIN fs : t[f] = IF f = g THEN new ELSE fs[f]
    BY <1>2
  <1>4. Doubled(fs, g) = t
    BY DEF Doubled, new
  <1> HIDE DEF t
  <1> QED
    BY <1>2, <1>3, <1>4

\* A count stays a count, whether there is a stream of its key or not.
LEMMA CountedIs ==
    ASSUME NEW sm, \A f \in DOMAIN sm : sm[f] \in 0 .. 3, NEW h, NEW c, h \in DOMAIN sm => c \in 0 .. 3
    PROVE  \A f \in DOMAIN Counted(sm, h, c) : Counted(sm, h, c)[f] \in 0 .. 3
  BY DEF Counted

\* The monitor looks at a stream, and a resize begins, copies the buffer or is given up:
\* it begins only at a stream whose size was not given.
LEMMA MonitorVisitKeeps ==
    ASSUME SInv, IInv', Alive, MonitorVisit \/ ResizeEnds \/ CopyFrom
    PROVE  SInv' /\ Stays(graph, graph')
  <1>0. /\ pc \in WithThreads /\ Sound(graph) /\ AllLead(graph) /\ DOMAIN walk = {"main", "mem", "para"}
        /\ DOMAIN mem = {"pc", "ready", "size_map", "collide", "copy"}
        /\ lock = "mem" => Walking(walk.mem, graph.kernels, graph.keeper.source)
    BY MemIs DEF MemNext, MemGoesOn
  <1>1. /\ UNCHANGED <<prog, pc, stmt, step, ret, graph, fifos, deleted, dot, thread, lock>>
        /\ mem.pc \in {"monitoring", "resizing"}
    BY DEF MonitorVisit, ResizeEnds, CopyFrom, mapVars, storage
  <1> DEFINE sm == mem.size_map
             i == walk.mem.port
             out(k) == graph.kernels[k].output[i]
             Move(k) == walk' = [walk EXCEPT !.mem = BFS_edges(walk.mem, graph.kernels, k)]
             NewCount(k) == \/ mem'.size_map = Counted(sm, hash(out(k).fifo), 0)
                          \/ /\ ~(sm[hash(out(k).fifo)] > 2)
                             /\ mem'.size_map = Counted(sm, hash(out(k).fifo), sm[hash(out(k).fifo)] + 1)
  <1>2. PICK k \in AtFront(walk.mem) :
          /\ mem'.ready = mem.ready /\ mem'.pc \in Monitoring
          /\ mem'.size_map = sm \/ NewCount(k)
          /\ Move(k) \/ walk' = walk
          /\ mem'.pc \in {"resizing", "copied"} =>
               walk' = walk /\ (MayGrow(walk.mem, k) \/ mem.pc = "resizing")
    <2>1. CASE MonitorVisit
      <3>1. PICK k \in AtFront(walk.mem) :
              \/ Move(k) /\ UNCHANGED mem
              \/ /\ AtEdge(walk.mem, graph.kernels, k)
                 /\ \E blocked \in BOOLEAN :
                      \/ /\ mon_func(out(k), blocked) = "count" /\ Move(k)
                         /\ mem' = SetCount(out(k).fifo, sm[hash(out(k).fifo)] + 1)
                      \/ Move(k) /\ mem' = SetCount(out(k).fifo, 0)
                      \/ /\ mon_func(out(k), blocked) = "resize" /\ ~NoResize(out(k).fifo)
                         /\ mem' = [SetCount(out(k).fifo, 0) EXCEPT !.pc = "resizing"]
                         /\ UNCHANGED walk
        <4> HIDE DEF NewCount
        <4> QED
          BY <2>1 DEF MonitorVisit, GoesOn
      <3>2. mem.pc = "monitoring"
        BY <2>1 DEF MonitorVisit
      <3>3. CASE Move(k) /\ UNCHANGED mem
        BY <3>2, <3>3 DEF Monitoring
      <3>4. CASE /\ AtEdge(walk.mem, graph.kernels, k)
                 /\ \E blocked \in BOOLEAN :
                      /\ mon_func(out(k), blocked) = "count" /\ Move(k)
                      /\ mem' = SetCount(out(k).fifo, sm[hash(out(k).fifo)] + 1)
        <4>1. ~(sm[hash(out(k).fifo)] > 2)
          BY <3>4 DEF mon_func
        <4> DEFINE c == sm[hash(out(k).fifo)] + 1
                   m == SetCount(out(k).fifo, c)
        <4>2. mem' = m
          BY <3>4
        <4> HIDE DEF c
        <4>3. m.pc = mem.pc /\ m.ready = mem.ready /\ m.size_map = Counted(sm, hash(out(k).fifo), c)
          BY <1>0, SetCountIs
        <4> HIDE DEF m
        <4>4. /\ mem'.pc = mem.pc /\ mem'.ready = mem.ready
              /\ mem'.size_map = Counted(sm, hash(out(k).fifo), sm[hash(out(k).fifo)] + 1)
          BY <4>2, <4>3 DEF c
        <4> QED
          BY <3>2, <3>4, <4>1, <4>4 DEF Monitoring
      <3>5. CASE Move(k) /\ mem' = SetCount(out(k).fifo, 0)
        <4>1. /\ mem'.pc = mem.pc /\ mem'.ready = mem.ready
              /\ mem'.size_map = Counted(sm, hash(out(k).fifo), 0)
          BY <1>0, <3>5, SetCountIs
        <4> QED
          BY <3>2, <3>5, <4>1 DEF Monitoring
      <3>6. CASE /\ AtEdge(walk.mem, graph.kernels, k)
                 /\ \E blocked \in BOOLEAN :
                      /\ mon_func(out(k), blocked) = "resize" /\ ~NoResize(out(k).fifo)
                      /\ mem' = [SetCount(out(k).fifo, 0) EXCEPT !.pc = "resizing"]
                      /\ UNCHANGED walk
        <4>1. out(k).fixed_buffer_size = 0 /\ ~fifos[out(k).fifo].external
          BY <3>6 DEF mon_func, NoResize
        <4>2. MayGrow(walk.mem, k)
          BY <3>6, <4>1 DEF MayGrow
        <4> DEFINE m == SetCount(out(k).fifo, 0)
        <4>3. /\ m.ready = mem.ready /\ m.size_map = Counted(sm, hash(out(k).fifo), 0)
              /\ DOMAIN m = DOMAIN mem
          BY <1>0, SetCountIs
        <4>4. mem' = [m EXCEPT !.pc = "resizing"] /\ walk' = walk
          BY <3>6
        <4> HIDE DEF m
        <4>5. mem'.pc = "resizing" /\ mem'.ready = mem.ready
              /\ mem'.size_map = Counted(sm, hash(out(k).fifo), 0)
          BY <1>0, <4>3, <4>4
        <4> QED
          BY <4>2, <4>4, <4>5 DEF Monitoring
      <3> QED
        BY <3>1, <3>3, <3>4, <3>5, <3>6
    <2>2. CASE ResizeEnds
      BY <1>0, <2>2 DEF ResizeEnds, GoesOn, Monitoring
    <2>3. CASE CopyFrom
      BY <1>0, <2>3 DEF CopyFrom, Monitoring
    <2> QED
      BY <2>1, <2>2, <2>3
  <1>3. lock = "mem" /\ mem.ready /\ Walking(walk.mem, graph.kernels, graph.keeper.source)
    BY <1>0, <1>1 DEF SInv, Made, GInv, IInv, LockHeld, Monitoring
  <1>4. Walking(BFS_edges(walk.mem, graph.kernels, k), graph.kernels, graph.keeper.source)
    BY <1>0, <1>3, WalkSteps
  <1>5. Walks'
    <2>1. CASE Move(k)
      <3>1. walk'.mem = BFS_edges(walk.mem, graph.kernels, k) /\ DOMAIN walk' = {"main", "mem", "para"}
        BY <1>0, <2>1
      <3> QED
        BY <1>0, <1>1, <1>4, <3>1 DEF Walks, WithThreads
    <2>2. CASE walk' = walk
      BY <1>0, <1>1, <1>3, <2>2 DEF Walks, WithThreads
    <2> QED
      BY <1>2, <2>1, <2>2
  <1>6. \A f \in DOMAIN mem'.size_map : mem'.size_map[f] \in 0 .. 3
    <2>1. \A f \in DOMAIN sm : sm[f] \in 0 .. 3
      BY DEF SInv, Stored
    <2> DEFINE h == hash(out(k).fifo)
    <2> HIDE DEF sm, h
    <2>2. CASE mem'.size_map = sm
      BY <2>1, <2>2
    <2>3. CASE mem'.size_map = Counted(sm, h, 0)
      <3>1. 0 \in 0 .. 3
        OBVIOUS
      <3> QED
        BY <2>1, <2>3, <3>1, CountedIs
    <2>4. CASE ~(sm[h] > 2) /\ mem'.size_map = Counted(sm, h, sm[h] + 1)
      <3>1. h \in DOMAIN sm => sm[h] + 1 \in 0 .. 3
        BY <2>1, <2>4
      <3> QED
        BY <2>1, <2>4, <3>1, CountedIs
    <2> QED
      BY <1>2, <2>2, <2>3, <2>4 DEF sm, h
  <1>7. Growing'
    <2>1. ASSUME mem'.pc \in {"resizing", "copied"}, NEW x \in AtFront(walk.mem)
          PROVE  MayGrow(walk.mem, x)
      <3>1. x = k
        BY <1>3, FrontIs DEF Walking
      <3> QED
        BY <1>2, <2>1, <3>1 DEF SInv, Made, Growing
    <2> QED
      BY <1>1, <1>2, <2>1 DEF Growing, MayGrow
  <1>8. mem'.pc # "allocating"
    BY <1>2 DEF Monitoring
  <1> QED
    BY <1>0, <1>1, <1>2, <1>3, <1>5, <1>6, <1>7, <1>8, MemKeeps

\* The copy takes the place of the buffer: the stream is one whose size was not given.
LEMMA SetBufferKeeps ==
    ASSUME SInv, IInv', Alive, SetBuffer
    PROVE  SInv' /\ Stays(graph, graph')
  <1>0. /\ pc \in WithThreads /\ Sound(graph) /\ AllLead(graph) /\ DOMAIN walk = {"main", "mem", "para"}
        /\ DOMAIN mem = {"pc", "ready", "size_map", "collide", "copy"}
        /\ lock = "mem" => Walking(walk.mem, graph.kernels, graph.keeper.source)
    BY MemIs DEF MemNext, MemGoesOn
  <1>1. /\ UNCHANGED <<prog, pc, stmt, step, ret, graph, deleted, dot, thread, lock>>
        /\ mem.pc = "copied" /\ mem'.pc = "monitoring" /\ mem'.ready = mem.ready
        /\ mem'.size_map = mem.size_map
    BY <1>0 DEF SetBuffer, mapVars
  <1> DEFINE i == walk.mem.port
  <1>2. PICK k \in AtFront(walk.mem) :
          /\ walk' = [walk EXCEPT !.mem = BFS_edges(walk.mem, graph.kernels, k)]
          /\ fifos' = Doubled(fifos, graph.kernels[k].output[i].fifo)
    BY DEF SetBuffer, GoesOn, StreamAt, Doubled
  <1> DEFINE out == graph.kernels[k].output[i]
  <1>3. lock = "mem" /\ mem.ready /\ Walking(walk.mem, graph.kernels, graph.keeper.source)
    BY <1>0, <1>1 DEF SInv, Made, GInv, IInv, LockHeld, Monitoring
  <1>4. /\ AtEdge(walk.mem, graph.kernels, k) /\ out.fixed_buffer_size = 0 /\ ~fifos[out.fifo].external
        /\ k \in FromSources /\ k \in DOMAIN graph.kernels /\ i \in DOMAIN graph.kernels[k].output
        /\ Walking(BFS_edges(walk.mem, graph.kernels, k), graph.kernels, graph.keeper.source)
    <2>1. MayGrow(walk.mem, k)
      BY <1>1 DEF SInv, Made, Growing
    <2> QED
      BY <1>0, <1>3, <2>1, WalkSteps DEF FromSources, MayGrow
  <1>5. walk'.mem = BFS_edges(walk.mem, graph.kernels, k) /\ DOMAIN walk' = {"main", "mem", "para"}
    BY <1>0, <1>2
  <1>6. Walks'
    BY <1>0, <1>1, <1>4, <1>5 DEF Walks, WithThreads
  <1>7. out.fifo \in DOMAIN fifos /\ out.fifo # NoFifo
    <2>1. fifos \in Seq(FifoType) /\ Within(graph, Len(fifos))
      BY DEF SInv, Stored, Streams
    <2>2. Live(k, i)
      BY <1>0, <1>3, <1>4 DEF SInv, Made, WithThreads, Executing
    <2> QED
      BY <1>4, <2>1, <2>2 DEF Live, Within, NoFifo
  <1>10. /\ fifos' \in Seq(FifoType) /\ Len(fifos') = Len(fifos) /\ DOMAIN fifos' = DOMAIN fifos
         /\ \A f \in DOMAIN fifos : fifos'[f].external = fifos[f].external
         /\ \A f \in DOMAIN fifos : f # out.fifo => fifos'[f] = fifos[f]
    <2>1. fifos \in Seq(FifoType)
      BY DEF SInv, Stored
    <2> HIDE DEF out
    <2> QED
      BY <1>2, <1>7, <2>1, DoubledIs DEF out
  <1>11. MInv' /\ Connected' /\ Placed(graph') /\ Stays(graph, graph')
    BY <1>0, <1>1, ExeLeaves DEF InExe, WithThreads
  <1>12. Dotted' /\ Stored'
    BY <1>0, <1>1, <1>10 DEF SInv, Dotted, Stored, WithThreads, Alone, Building0
  <1>13. Streams(graph, Len(fifos))'
    BY <1>1, <1>10 DEF SInv
  <1>14. Sized'
    <2>1. ASSUME NEW x \in DOMAIN graph.kernels, NEW m \in DOMAIN graph.kernels[x].output,
                 graph.kernels[x].output[m].fifo \notin {NoFifo} \cup deleted
          PROVE  Fits(graph.kernels[x].output[m], fifos')
      <3> DEFINE o == graph.kernels[x].output[m]
      <3>1. Fits(o, fifos)
        BY <2>1 DEF SInv, Sized
      <3>2. o.fifo \in DOMAIN fifos
        <4>1. fifos \in Seq(FifoType) /\ Within(graph, Len(fifos))
          BY DEF SInv, Stored, Streams
        <4> QED
          BY <2>1, <4>1 DEF Within, NoFifo
      <3>3. o.fifo = out.fifo => x = k /\ m = i
        BY <1>4, <1>7, <2>1 DEF SInv, Streams, Distinct
      <3>4. o.fifo = out.fifo => o = out
        BY <3>3
      <3> HIDE DEF o, out
      <3>5. Fits(o, fifos')
        <4>1. CASE o.fifo # out.fifo
          BY <1>10, <3>1, <3>2, <4>1 DEF Fits
        <4>2. CASE o.fifo = out.fifo
          BY <1>4, <1>10, <3>1, <3>2, <3>4, <4>2 DEF Fits
        <4> QED
          BY <4>1, <4>2
      <3> QED
        BY <3>5 DEF o
    <2> QED
      BY <1>1, <2>1 DEF Sized
  <1>15. Made'
    <2>1. FromSources' = FromSources /\ \A x, m : Live(x, m)' = Live(x, m)
      BY <1>1 DEF FromSources, Live
    <2>2. \A x : FifosOf(x)' = FifosOf(x) /\ Outputs(x)' = Outputs(x)
      BY <1>1 DEF FifosOf, Outputs
    <2>3. \A x \in FromSources : \A m \in DOMAIN graph.kernels[x].output : Live(x, m)
      BY <1>0, <1>3 DEF SInv, Made, WithThreads, Executing
    <2>4. \A x \in walk'.mem.visited : \A m \in DOMAIN Outputs(x) : Outputs(x)[m].fifo \notin {NoFifo} \cup deleted
      BY <1>4, <1>5, <2>3, VisitedLive
    <2>5. StreamsOutliveTheirUsers'
      BY <1>1, <2>2, <2>4 DEF SInv, Made, StreamsOutliveTheirUsers
    <2> QED
      BY <1>1, <1>3, <2>1, <2>3, <2>5 DEF Made, Growing
  <1>16. GInv'
    BY <1>11 DEF GInv
  <1> QED
    BY <1>6, <1>11, <1>12, <1>13, <1>14, <1>15, <1>16 DEF SInv

\* The size of a new stream is the one it was linked with.
LEMMA NewFifoIs ==
    ASSUME NEW port \in PortType
    PROVE  /\ NewFifo(port) \in FifoType
           /\ NewFifo(port).external = (port.nitems # 0)
           /\ port.nitems # 0 => NewFifo(port).capacity = port.nitems
           /\ port.nitems = 0 /\ port.fixed_buffer_size # 0 => NewFifo(port).capacity = port.fixed_buffer_size
  <1>1. port.nitems \in Nat /\ port.fixed_buffer_size \in Nat
    BY DEF PortType
  <1>2. InitialSize \in Nat \ {0}
    BY ExeAssumption
  <1>3. /\ alloc_size(port) \in Nat \ {0}
        /\ port.nitems # 0 => alloc_size(port) = port.nitems
        /\ port.nitems = 0 /\ port.fixed_buffer_size # 0 => alloc_size(port) = port.fixed_buffer_size
    BY <1>1, <1>2 DEF alloc_size
  <1> QED
    BY <1>3 DEF NewFifo, FifoType

\* A stream is made for an edge that has none.
LEMMA AllocateKeeps ==
    ASSUME SInv, IInv', pc = "wait", pc' = pc, lock = "mem", lock' = lock, mem.pc = "allocating", ~mem.ready,
           Sound(graph), AllLead(graph), DOMAIN walk = {"main", "mem", "para"},
           Walking(walk.mem, graph.kernels, graph.keeper.source),
           NEW k \in AtFront(walk.mem), AtEdge(walk.mem, graph.kernels, k),
           ~DoubleInit(graph.kernels, k, walk.mem.port),
           fifos' = Append(fifos, NewFifo(graph.kernels[k].output[walk.mem.port])),
           graph' = Allocated(graph, k, walk.mem.port, Len(fifos) + 1),
           walk' = [walk EXCEPT !.mem = BFS_edges(walk.mem, graph.kernels, k)],
           UNCHANGED <<prog, stmt, step, ret, deleted, mem, thread, dot>>
    PROVE  SInv' /\ Stays(graph, graph')
  <1> DEFINE i == walk.mem.port
             out == graph.kernels[k].output[i]
             b == out.other_kernel
             n == Len(fifos)
             wk == BFS_edges(walk.mem, graph.kernels, k)
             v == Allocated(graph, k, i, n + 1)
             P == Passed(walk.mem, graph.kernels)
  <1>1. /\ k \in FromSources /\ k \in DOMAIN graph.kernels /\ k \in walk.mem.visited
        /\ Walking(wk, graph.kernels, graph.keeper.source)
        /\ i \in DOMAIN graph.kernels[k].output /\ b # NoKernel
        /\ Passed(wk, graph.kernels) = P \cup {<<k, i>>}
    BY WalkSteps DEF FromSources
  <1>2. out.fifo = NoFifo
    BY DEF DoubleInit
  <1>3. PICK j \in DOMAIN graph.kernels[b].input : Stream(graph, k, i, b, j)
    BY <1>1 DEF Sound, Mutual
  <1>4. b \in DOMAIN graph.kernels /\ n \in Nat /\ fifos \in Seq(FifoType) /\ deleted \subseteq 1 .. n
    <2>1. fifos \in Seq(FifoType) /\ deleted \subseteq DOMAIN fifos
      BY DEF SInv, Stored
    <2>2. DOMAIN fifos = 1 .. Len(fifos) /\ Len(fifos) \in Nat
      BY <2>1
    <2> QED
      BY <1>3, <2>1, <2>2 DEF Stream
  <1>5. graph' = v /\ walk' = [walk EXCEPT !.mem = wk] /\ fifos' = Append(fifos, NewFifo(out))
    OBVIOUS
  <1> HIDE DEF i, n, b, wk, P
  <1>6. /\ Sound(v) /\ Retouched(graph, v)
        /\ \A x \in DOMAIN graph.kernels :
             /\ \A m \in DOMAIN graph.kernels[x].output :
                  /\ v.kernels[x].output[m].fixed_buffer_size = graph.kernels[x].output[m].fixed_buffer_size
                  /\ v.kernels[x].output[m].fifo =
                       IF x = k /\ m = i THEN n + 1 ELSE graph.kernels[x].output[m].fifo
             /\ \A m \in DOMAIN graph.kernels[x].input :
                  v.kernels[x].input[m].fifo =
                    IF x = b /\ m = j THEN n + 1 ELSE graph.kernels[x].input[m].fifo
    <2>1. n + 1 \in Nat
      BY <1>4
    <2> QED
      BY <1>1, <1>3, <1>4, <2>1, AllocatedIs
  <1> HIDE DEF v
  <1>7. /\ SameButPorts(graph, v)
        /\ \A x \in DOMAIN graph.kernels :
             /\ \A m \in DOMAIN graph.kernels[x].output : SameEnds(graph.kernels[x].output[m], v.kernels[x].output[m])
             /\ \A m \in DOMAIN graph.kernels[x].input : SameEnds(graph.kernels[x].input[m], v.kernels[x].input[m])
    BY <1>6 DEF Retouched
  <1>8. /\ DOMAIN v.kernels = DOMAIN graph.kernels /\ v.keeper = graph.keeper
        /\ \A x \in DOMAIN graph.kernels :
             /\ v.kernels[x].core_assign = graph.kernels[x].core_assign
             /\ DOMAIN v.kernels[x].output = DOMAIN graph.kernels[x].output
             /\ DOMAIN v.kernels[x].input = DOMAIN graph.kernels[x].input
    BY <1>7 DEF SameButPorts
  <1>9. MInv'
    <2>1. /\ DOMAIN v.kernels = DOMAIN graph.kernels /\ v.pairs = graph.pairs /\ v.thrown = graph.thrown
          /\ \A x \in DOMAIN graph.kernels : v.kernels[x].internal_alloc = graph.kernels[x].internal_alloc
      BY <1>7 DEF SameButPorts
    <2>2. pc \in InExe /\ MInv
      BY DEF InExe, SInv, GInv
    <2> QED
      BY <1>6, <1>5, <2>1, <2>2, ExeGraphKeeps
  <1>10. Connected'
    <2>1. \A x \in graph.keeper.all : AllConnected(graph.kernels[x]) /\ x \in DOMAIN graph.kernels
      BY DEF AllLead, Sound, Kept
    <2>2. ASSUME NEW x \in graph.keeper.all
          PROVE  AllConnected(v.kernels[x])
      BY <1>7, <1>8, <2>1 DEF AllConnected, SameEnds
    <2> QED
      BY <1>5, <1>8, <2>2 DEF Connected
  <1>11. Placed(graph')
    BY <1>5, <1>8 DEF SInv, GInv, Placed
  <1>12. Stays(graph, graph')
    BY <1>5, <1>7 DEF Stays, SameEnds
  <1>13. Len(fifos') = n + 1 /\ fifos' \in Seq(FifoType) /\ DOMAIN fifos' = 1 .. n + 1
         /\ fifos'[n + 1] = NewFifo(out) /\ \A f \in 1 .. n : fifos'[f] = fifos[f]
    <2>1. out \in PortType
      BY <1>1, PortTypes DEF Sound
    <2>2. NewFifo(out) \in FifoType
      BY <2>1, NewFifoIs
    <2> HIDE DEF out
    <2> QED
      BY <1>4, <1>5, <2>2 DEF n
  <1>14. Streams(graph, Len(fifos))'
    <2>1. Streams(graph, n) /\ k \in Reachable(graph.kernels, graph.keeper.source)
      BY <1>1 DEF SInv, FromSources, n
    <2>2. \A x \in DOMAIN graph.kernels :
            /\ \A m \in DOMAIN graph.kernels[x].output :
                 v.kernels[x].output[m].fifo = IF x = k /\ m = i THEN n + 1 ELSE graph.kernels[x].output[m].fifo
            /\ \A m \in DOMAIN graph.kernels[x].input :
                 v.kernels[x].input[m].fifo = IF x = b /\ m = j THEN n + 1 ELSE graph.kernels[x].input[m].fifo
      BY <1>6
    <2>3. Sound(v) /\ Retouched(graph, v)
      BY <1>6
    <2>4. n \in Nat /\ i \in DOMAIN graph.kernels[k].output /\ b \in DOMAIN graph.kernels
      BY <1>1, <1>4
    <2>5. Streams(v, n + 1)
      BY <1>3, <2>1, <2>2, <2>3, <2>4, StreamsAdd
    <2> QED
      BY <1>5, <1>13, <2>5 DEF n
  <1>15. /\ Walking(wk, v.kernels, v.keeper.source) /\ Passed(wk, v.kernels) = P \cup {<<k, i>>}
    <2>1. Extends(graph, v) /\ Extends(v, graph)
      BY <1>7, <1>8 DEF Extends, SameEnds
    <2>2. Sound(v) /\ Walking(wk, graph.kernels, graph.keeper.source)
      BY <1>1, <1>6
    <2>3. /\ Walking(wk, v.kernels, v.keeper.source) /\ Passed(wk, v.kernels) = Passed(wk, graph.kernels)
      BY <2>1, <2>2, WalkMoves
    <2> QED
      BY <1>1, <2>3
  <1>16. Walks' /\ walk'.mem = wk
    <2>1. DOMAIN walk' = {"main", "mem", "para"} /\ walk'.mem = wk
      BY <1>5
    <2> QED
      BY <1>5, <1>15, <2>1 DEF Walks
  <1>17. Dotted' /\ Stored'
    BY <1>4, <1>13 DEF SInv, Dotted, Stored, Alone, Building0
  <1>18. ASSUME NEW x \in DOMAIN graph.kernels, NEW m \in DOMAIN graph.kernels[x].output
         PROVE  /\ Live(x, m) => Live(x, m)'
                /\ x = k /\ m = i => Live(x, m)'
    <2>1. graph.kernels[x].output[m].fifo # NoFifo /\ x = k /\ m = i => FALSE
      BY <1>2
    <2>2. n + 1 # NoFifo /\ n + 1 \notin deleted
      BY <1>4 DEF NoFifo
    <2>3. v.kernels[x].output[m].fifo = IF x = k /\ m = i THEN n + 1 ELSE graph.kernels[x].output[m].fifo
      BY <1>6, <1>18
    <2> QED
      BY <1>5, <2>1, <2>2, <2>3 DEF Live
  <1>19. Sized'
    <2>1. ASSUME NEW x \in DOMAIN graph.kernels, NEW m \in DOMAIN graph.kernels[x].output,
                 v.kernels[x].output[m].fifo \notin {NoFifo} \cup deleted
          PROVE  Fits(v.kernels[x].output[m], fifos')
      <3> DEFINE o == graph.kernels[x].output[m]
                 o2 == v.kernels[x].output[m]
      <3>1. o2.nitems = o.nitems /\ o2.fixed_buffer_size = o.fixed_buffer_size
        BY <1>6, <1>7, <2>1 DEF SameEnds
      <3>2. o2.fifo = IF x = k /\ m = i THEN n + 1 ELSE o.fifo
        BY <1>6, <2>1
      <3>3. x = k /\ m = i => o = out /\ out \in PortType
        BY <1>1, PortTypes DEF Sound
      <3>4. o.fifo \in 0 .. n
        BY <2>1 DEF SInv, Streams, Within, n
      <3>5. ~(x = k /\ m = i) => Fits(o, fifos) /\ o.fifo \in 1 .. n
        <4>1. ~(x = k /\ m = i) => o.fifo \notin {NoFifo} \cup deleted
          BY <2>1, <3>2
        <4> QED
          BY <1>4, <2>1, <3>4, <4>1 DEF SInv, Sized, NoFifo
      <3> HIDE DEF o, o2, out
      <3>6. Fits(o2, fifos')
        <4>1. CASE x = k /\ m = i
          BY <1>13, <3>1, <3>2, <3>3, <4>1, NewFifoIs DEF Fits
        <4>2. CASE ~(x = k /\ m = i)
          BY <1>13, <3>1, <3>2, <3>5, <4>2 DEF Fits
        <4> QED
          BY <4>1, <4>2
      <3> QED
        BY <3>6 DEF o2
    <2> QED
      BY <1>5, <1>8, <2>1 DEF Sized
  <1>20. Made'
    <2>1. ASSUME NEW s \in P \cup {<<k, i>>}
          PROVE  Live(s[1], s[2])'
      <3>1. CASE s = <<k, i>>
        BY <1>1, <1>18, <3>1
      <3>2. CASE s \in P
        <4>1. Live(s[1], s[2])
          BY <3>2 DEF SInv, Made, P
        <4>2. s = <<s[1], s[2]>>
          BY <3>2, PassedIs DEF P
        <4>3. s[1] \in walk.mem.visited /\ s[2] \in DOMAIN graph.kernels[s[1]].output
          BY <3>2, <4>2, PassedIs DEF P
        <4>4. s[1] \in DOMAIN graph.kernels
          BY <4>3, ReachableOn DEF Walking
        <4> QED
          BY <1>18, <4>1, <4>3, <4>4
      <3> QED
        BY <3>1, <3>2
    <2>2. \A s \in Passed(walk.mem, graph.kernels)' : Live(s[1], s[2])'
      BY <1>5, <1>15, <1>16, <2>1
    <2>3. StreamsOutliveTheirUsers'
      <3>1. Resting
        BY DEF SInv, GInv, IInv, ThreadsJoined, NoKernelsYet
      <3> QED
        BY <3>1 DEF StreamsOutliveTheirUsers, Resting
    <2> QED
      BY <2>2, <2>3 DEF Made, Growing, Monitoring
  <1>21. GInv'
    BY <1>9, <1>10, <1>11 DEF GInv
  <1> QED
    BY <1>12, <1>14, <1>16, <1>17, <1>19, <1>20, <1>21 DEF SInv

\* The allocator's thread is at a port.
LEMMA AllocVisitKeeps ==
    ASSUME SInv, IInv', Alive, AllocVisit
    PROVE  SInv' /\ Stays(graph, graph')
  <1>0. /\ pc \in WithThreads /\ Sound(graph) /\ AllLead(graph) /\ DOMAIN walk = {"main", "mem", "para"}
        /\ lock = "mem" => Walking(walk.mem, graph.kernels, graph.keeper.source)
    BY MemIs DEF MemNext, MemGoesOn
  <1>1. /\ UNCHANGED <<prog, stmt, step, ret, deleted, dot, thread, lock, mem>>
        /\ mem.pc = "allocating"
    BY DEF AllocVisit, BuildUnchanged
  <1>2. /\ lock = "mem" /\ ~mem.ready /\ pc = "wait"
    BY <1>0, <1>1 DEF SInv, GInv, IInv, LockHeld, MemPlace, Executing, WithThreads, Monitoring
  <1>3. Walking(walk.mem, graph.kernels, graph.keeper.source)
    BY <1>0, <1>2
  <1> DEFINE i == walk.mem.port
             edge(k) == AtEdge(walk.mem, graph.kernels, k)
             go(k) == pc' = pc /\ walk' = [walk EXCEPT !.mem = BFS_edges(walk.mem, graph.kernels, k)]
  <1>4. PICK k \in AtFront(walk.mem) :
          \/ /\ edge(k) /\ DoubleInit(graph.kernels, k, i)
             /\ pc' = "terminated"
             /\ UNCHANGED <<graph, fifos, walk>>
          \/ /\ edge(k) /\ ~DoubleInit(graph.kernels, k, i)
             /\ fifos' = Append(fifos, NewFifo(graph.kernels[k].output[i]))
             /\ graph' = Allocated(graph, k, i, Len(fifos) + 1)
             /\ go(k)
          \/ ~edge(k) /\ go(k) /\ UNCHANGED <<graph, fifos>>
    BY DEF AllocVisit
  <1>5. CASE pc' = "terminated" /\ UNCHANGED <<graph, fifos, walk>>
    <2>1. \A x : FifosOf(x)' = FifosOf(x)
      BY <1>5 DEF FifosOf
    <2>2. UsersOk'
      BY <1>1, <2>1 DEF SInv, Made, StreamsOutliveTheirUsers, UsersOk, Using
    <2> QED
      BY <1>0, <1>1, <1>5, <2>2, ElsewhereKeeps
  <1>6. CASE /\ edge(k) /\ ~DoubleInit(graph.kernels, k, i)
             /\ fifos' = Append(fifos, NewFifo(graph.kernels[k].output[i]))
             /\ graph' = Allocated(graph, k, i, Len(fifos) + 1)
             /\ go(k)
    BY <1>0, <1>1, <1>2, <1>3, <1>6, AllocateKeeps
  <1>7. CASE ~edge(k) /\ go(k) /\ UNCHANGED <<graph, fifos>>
    <2> DEFINE wk == BFS_edges(walk.mem, graph.kernels, k)
    <2>1. /\ Walking(wk, graph.kernels, graph.keeper.source)
          /\ Passed(wk, graph.kernels) = Passed(walk.mem, graph.kernels)
      BY <1>0, <1>3, <1>7, WalkSteps
    <2>2. walk'.mem = wk /\ DOMAIN walk' = {"main", "mem", "para"} /\ pc' = pc
      BY <1>0, <1>7
    <2>3. Walks'
      BY <1>2, <1>7, <2>1, <2>2 DEF Walks
    <2>4. \A s \in Passed(walk'.mem, graph.kernels) : Live(s[1], s[2])
      BY <1>1, <2>1, <2>2 DEF SInv, Made
    <2>5. \A f \in DOMAIN mem'.size_map : mem'.size_map[f] \in 0 .. 3
      BY <1>1 DEF SInv, Stored
    <2>6. Growing' /\ mem'.pc \notin {"check", "want"} \cup Monitoring
      BY <1>1 DEF Growing, Monitoring
    <2> QED
      BY <1>0, <1>1, <1>2, <1>7, <2>2, <2>3, <2>4, <2>5, <2>6, MemKeeps
  <1> QED
    BY <1>4, <1>5, <1>6, <1>7

\* All steps of the allocator's thread.
LEMMA AllocatorKeepsStreams ==
    ASSUME SInv, IInv', Alive, MemNext
    PROVE  SInv' /\ Stays(graph, graph')
  BY MemAcquireKeeps, AllocVisitKeeps, AllocDoneKeeps, MonitorPausesKeep, MonitorVisitKeeps,
     SetBufferKeeps DEF MemNext, MemGoesOn

-----------------------------------------------------------------------------
(* All steps. *)

\* At the end of exe() the streams are deleted, and no one is left to use them.
LEMMA ReturnKeepsStreams ==
    ASSUME SInv, IInv', Return
    PROVE  SInv' /\ Stays(graph, graph')
  <1>0. /\ pc = "join_para" /\ pc' = "main" /\ deleted' = DOMAIN fifos
        /\ UNCHANGED <<graph, fifos, lock, walk, mem, thread, dot>>
    BY DEF Return, NextStatement
  <1>1. AtRest
    BY ReturnAtRest DEF SInv, GInv
  <1>2. MInv'
    BY ReturnKeepsGraph DEF SInv, GInv
  <1>3. Connected' /\ Placed(graph') /\ Stays(graph, graph')
    BY <1>0 DEF SInv, GInv, Connected, InExe, Stays
  <1>4. Walks' /\ Dotted' /\ Stored'
    BY <1>0, <1>1 DEF SInv, Walks, Dotted, Stored, AtRest
  <1>5. Streams(graph, Len(fifos))'
    BY <1>0 DEF SInv
  <1>6. Sized'
    <2>1. fifos \in Seq(FifoType) /\ Within(graph, Len(fifos))
      BY DEF SInv, Stored, Streams
    <2>2. \A k \in DOMAIN graph.kernels : \A i \in DOMAIN graph.kernels[k].output :
            graph.kernels[k].output[i].fifo \in {NoFifo} \cup DOMAIN fifos
      BY <2>1 DEF Within, NoFifo
    <2> QED
      BY <1>0, <2>2 DEF Sized
  <1>7. Made'
    BY <1>0, <1>1 DEF SInv, Made, StreamsOutliveTheirUsers, Growing, Monitoring, AtRest, Executing
  <1>8. GInv'
    BY <1>2, <1>3 DEF GInv
  <1> QED
    BY <1>3, <1>4, <1>5, <1>6, <1>7, <1>8 DEF SInv

\* Nothing happens.
LEMMA StutterKeepsStreams ==
    ASSUME SInv, IInv', UNCHANGED vars
    PROVE  SInv' /\ Stays(graph, graph')
  <1>0. /\ UNCHANGED <<prog, graph, pc, stmt, step, add, ret>>
        /\ UNCHANGED <<fifos, deleted, lock, walk, mem, thread, dot>>
    BY DEF vars, mapVars, exeVars, storage
  <1>1. MInv'
    BY <1>0 DEF SInv, GInv, MInv, GraphSound, KernelsMade, Declared, AtWork, AtStatement, Statement, Code
  <1>2. Connected' /\ Placed(graph)' /\ Stays(graph, graph') /\ Streams(graph, Len(fifos))'
    BY <1>0 DEF SInv, GInv, Connected, Stays
  <1>3. Walks' /\ Stored' /\ Sized'
    BY <1>0 DEF SInv, Walks, Stored, Sized
  <1>4. Dotted'
    <2>1. \A x, i : DotLine(x, i)' = DotLine(x, i)
      BY <1>0 DEF DotLine
    <2>2. Passed(walk.main, graph.kernels)' = Passed(walk.main, graph.kernels)
      BY <1>0
    <2>3. {DotLine(s[1], s[2])' : s \in Passed(walk.main, graph.kernels)}
            = {DotLine(s[1], s[2]) : s \in Passed(walk.main, graph.kernels)}
      BY <2>1
    <2> QED
      BY <1>0, <2>2, <2>3 DEF SInv, Dotted
  <1>5. Made'
    <2>1. FromSources' = FromSources /\ \A k, i : Live(k, i)' = Live(k, i)
      BY <1>0 DEF FromSources, Live
    <2>2. \A k : FifosOf(k)' = FifosOf(k) /\ Outputs(k)' = Outputs(k)
      BY <1>0 DEF FifosOf, Outputs
    <2>3. StreamsOutliveTheirUsers'
      BY <1>0, <2>2 DEF SInv, Made, StreamsOutliveTheirUsers
    <2>4. Executing' = Executing
      BY <1>0 DEF Executing
    <2>5. Growing'
      BY <1>0 DEF SInv, Made, Growing, MayGrow
    <2> QED
      BY <1>0, <2>1, <2>3, <2>4, <2>5 DEF SInv, Made
  <1>6. GInv'
    BY <1>1, <1>2 DEF GInv
  <1> QED
    BY <1>2, <1>3, <1>4, <1>5, <1>6 DEF SInv

\* The invariant is kept by every step, and so are the connections.
LEMMA EveryStepKeeps ==
    ASSUME SInv, [Next]_vars
    PROVE  SInv' /\ Stays(graph, graph')
  <1>1. IInv'
    BY StepKeeps DEF SInv, GInv
  <1>2. CASE UNCHANGED vars
    BY <1>1, <1>2, StutterKeepsStreams
  <1>3. CASE Next
    <2>1. CASE MainNext
      <3>1. CASE ExeNext
        BY <1>1, <3>1, JoinsKeepStreams, ReturnKeepsStreams DEF ExeNext
      <3> QED
        BY <1>1, <2>1, <3>1, BuildingKeepsStreams, DestroyKeepsStreams, CheckKeepsStreams,
           PartitionKeepsStreams, DotBeginKeeps, DotLineKeeps, DotEndKeeps, SpawnKeepsStreams DEF MainNext
    <2> QED
      BY <1>1, <1>3, <2>1, AllocatorKeepsStreams, SchedulerKeepsStreams, MonitorKeepsStreams,
         KernelsKeepStreams DEF Next
  <1> QED
    BY <1>2, <1>3

\* The invariant holds when main() starts: there are kernels, and nothing else.
LEMMA InitKeepsStreams == ASSUME Init PROVE SInv
  <1>0. /\ MapInit /\ fifos = <<>> /\ deleted = {} /\ lock = "free" /\ dot = <<>> /\ thread = <<>>
        /\ walk = [main |-> NoWalk, mem |-> NoWalk, para |-> NoWalk]
        /\ mem.pc = "none" /\ ~mem.ready /\ mem.size_map = <<>>
    BY DEF Init, NoThreads
  <1>1. IInv /\ MInv /\ pc = "main"
    BY <1>0, InitKeeps, MapInitKeeps DEF MapInit
  <1>2. /\ \A k \in DOMAIN graph.kernels :
             /\ graph.kernels[k].core_assign = NoCore
             /\ NoStreamAt(graph.kernels[k].input) /\ NoStreamAt(graph.kernels[k].output)
    BY <1>0, ConstructedIsSound DEF MapInit
  <1>3. Connected /\ Placed(graph)
    BY <1>1, <1>2 DEF Connected, InExe, Placed, CoreRange
  <1>4. Walks /\ Dotted
    <2>1. DOMAIN walk = {"main", "mem", "para"}
      BY <1>0
    <2> QED
      BY <1>0, <1>1, <2>1 DEF Walks, Dotted
  <1>5. Streams(graph, Len(fifos))
    <2>1. \A k \in DOMAIN graph.kernels :
            /\ \A i \in DOMAIN graph.kernels[k].output : graph.kernels[k].output[i].fifo = NoFifo
            /\ \A i \in DOMAIN graph.kernels[k].input : graph.kernels[k].input[i].fifo = NoFifo
      BY <1>2 DEF NoStreamAt
    <2>2. Len(fifos) = 0 /\ NoFifo \in 0 .. 0
      BY <1>0 DEF NoFifo
    <2>3. Within(graph, Len(fifos))
      BY <2>1, <2>2 DEF Within
    <2>4. EndsAgree(graph) /\ LooseEnds(graph) /\ Distinct(graph) /\ Reached(graph)
      BY <2>1 DEF EndsAgree, LooseEnds, Distinct, Reached
    <2> QED
      BY <2>3, <2>4 DEF Streams
  <1>6. Stored
    BY <1>0 DEF Stored
  <1>7. Sized
    BY <1>2 DEF Sized, NoStreamAt
  <1>8. Made
    BY <1>0 DEF Made, StreamsOutliveTheirUsers, Growing, Monitoring
  <1> QED
    BY <1>1, <1>3, <1>4, <1>5, <1>6, <1>7, <1>8 DEF SInv, GInv

\* So it holds always.
LEMMA StreamInvariance == Spec => []SInv
  <1>1. Init => SInv
    BY InitKeepsStreams
  <1>2. SInv /\ [Next]_vars => SInv'
    BY EveryStepKeeps
  <1> QED
    BY <1>1, <1>2, PTL DEF Spec

\* Only a stream that there is gets closed.
Closable == closed \subseteq DOMAIN fifos

\* Streams are only added, and only the end of a kernel closes one.
LEMMA ClosedKept ==
    ASSUME SInv, Closable, [Next]_vars
    PROVE  Closable'
  <1>0. fifos \in Seq(FifoType) /\ Within(graph, Len(fifos))
    BY DEF SInv, Stored, Streams
  <1>1. CASE AllocVisit
    <2>1. closed' = closed
      BY <1>1 DEF AllocVisit
    <2>2. fifos' = fifos \/ \E new : fifos' = Append(fifos, new)
      BY <1>1 DEF AllocVisit
    <2>3. DOMAIN fifos \subseteq DOMAIN fifos'
      BY <1>0, <2>2
    <2> QED
      BY <2>1, <2>3 DEF Closable
  <1>2. CASE SetBuffer
    <2>1. closed' \subseteq closed /\ \E f : fifos' = [fifos EXCEPT ![f].capacity = 2 * fifos[f].capacity]
      BY <1>2 DEF SetBuffer
    <2> QED
      BY <2>1 DEF Closable
  <1>3. ASSUME Alive, NEW k \in DOMAIN thread, Stop(k)
        PROVE  Closable'
    <2>1. /\ thread[k] = "running" /\ fifos' = fifos
          /\ closed' = closed \cup {graph.kernels[k].output[i].fifo : i \in DOMAIN graph.kernels[k].output}
      BY <1>3 DEF Stop, FifosAt, Outputs
    <2>2. ASSUME NEW i \in DOMAIN graph.kernels[k].output
          PROVE  graph.kernels[k].output[i].fifo \in DOMAIN fifos
      <3>1. graph.kernels[k].output[i].fifo \in FifosOf(k)
        BY DEF FifosOf, Side
      <3>2. graph.kernels[k].output[i].fifo # NoFifo
        BY <2>1, <3>1 DEF SInv, Made, StreamsOutliveTheirUsers
      <3>3. k \in DOMAIN graph.kernels
        <4>1. ~Resting
          BY <2>1 DEF Resting
        <4>2. pc = "join_sched"
          BY <4>1, <1>3 DEF SInv, GInv, IInv, Shape, ThreadsJoined, Executing, Alive, Over
        <4>3. k \in graph.keeper.all
          BY <2>1, <4>2 DEF SInv, GInv, IInv, ThreadsJoined, Executing
        <4>4. Sound(graph)
          BY <4>2, ExeIs DEF InExe
        <4> QED
          BY <4>3, <4>4 DEF Sound, Kept
      <3> QED
        BY <1>0, <3>2, <3>3 DEF Within, NoFifo
    <2> QED
      BY <2>1, <2>2 DEF Closable
  <1>4. CASE UNCHANGED <<fifos, closed>>
    BY <1>4 DEF Closable
  <1>5. CASE MainNext
    BY <1>4, <1>5 DEF MainNext, ExeNext, exeVars, storage, checkEdges, Partition, DotBegin,
       generate_edge_list, DotEnd, SpawnAllocator, waitTillReady, JoinScheduler, JoinAllocator, Return
  <1>6. CASE MemNext
    BY <1>1, <1>2, <1>4, <1>6 DEF MemNext, MemGoesOn, storage, MemAcquire, AllocDone, MonitorCheck,
       MonitorVisit, MonitorDone, ResizeEnds, CopyFrom
  <1>7. CASE SchedNext
    BY <1>4, <1>7 DEF SchedNext, storage, StartThread, StoreLoc, Scheduled, AllTerminated, JoinThread
  <1>8. CASE ParaNext
    BY <1>4, <1>8 DEF ParaNext, storage, ParaCheck, ParaAcquire, ParaVisit, ParaDone
  <1>9. CASE Alive /\ SomeKernelNext
    BY <1>3, <1>4, <1>9 DEF SomeKernelNext, KernelNext, storage, BeginRun, Block, EndRun
  <1>10. CASE UNCHANGED vars
    BY <1>4, <1>10 DEF vars, exeVars, storage
  <1> QED
    BY <1>5, <1>6, <1>7, <1>8, <1>9, <1>10 DEF Next

\* So that always holds, too.
LEMMA ClosedInvariance == Spec => []Closable
  <1>1. Init => Closable
    BY DEF Init, Closable
  <1>2. SInv /\ Closable /\ [Next]_vars => Closable'
    BY ClosedKept
  <1> QED
    BY <1>1, <1>2, StreamInvariance, PTL DEF Spec

-----------------------------------------------------------------------------
(* What the invariant says of exe(). *)

\* A port of a graph that exe() has checked leads to a kernel of the map.
LEMMA InvConnected == ASSUME SInv PROVE ExeStartsConnected
  <1>1. SUFFICES ASSUME pc \in InExe, NEW k \in graph.keeper.all, NEW side \in Side,
                        NEW i \in DOMAIN graph.kernels[k][side]
                 PROVE  graph.kernels[k][side][i].other_kernel \in graph.keeper.all
    BY DEF ExeStartsConnected, InExe, Executing
  <1>2. Sound(graph) /\ AllLead(graph)
    BY <1>1, ExeIs
  <1>3. k \in DOMAIN graph.kernels /\ AllConnected(graph.kernels[k])
    BY <1>2 DEF Sound, Kept, AllLead
  <1>4. CASE side = "output"
    BY <1>1, <1>2, <1>3, <1>4 DEF Sound, Mutual, Stream, AllConnected
  <1>5. CASE side = "input"
    BY <1>1, <1>2, <1>3, <1>5 DEF Sound, Mutual, Stream, AllConnected
  <1> QED
    BY <1>4, <1>5 DEF Side

\* The file of GEN_DOT is complete when the traversal is at its end.
LEMMA InvDotted == ASSUME SInv PROVE DotShowsTheGraph
  <1> DEFINE streams == UNION {{<<k, i>> : i \in Edges(graph.kernels, k)} : k \in FromSources}
             P == Passed(walk.main, graph.kernels)
  <1>1. SUFFICES ASSUME pc = "dotting", Finished(walk.main)
                 PROVE  /\ Len(dot) = Cardinality(streams)
                        /\ ToSet(dot) = {DotLine(s[1], s[2]) : s \in streams}
    BY DEF DotShowsTheGraph
  <1>2. /\ Sound(graph) /\ AllLead(graph) /\ Walking(walk.main, graph.kernels, graph.keeper.source)
    BY <1>1, ExeIs DEF InExe, SInv, Walks
  <1>3. /\ \A k, i : <<k, i>> \in P <=> k \in FromSources /\ i \in DOMAIN graph.kernels[k].output
    BY <1>1, <1>2, WalkEnds DEF FromSources
  <1>4. \A k \in FromSources : Edges(graph.kernels, k) = DOMAIN graph.kernels[k].output
    <2>1. FromSources \subseteq graph.keeper.all /\ FromSources \subseteq DOMAIN graph.kernels
      BY <1>2, ReachableOn DEF FromSources
    <2>2. NoKernel \notin DOMAIN graph.kernels
      BY <1>2 DEF Sound, WorldType, NoKernel
    <2> QED
      BY <1>2, <2>1, <2>2 DEF Edges, AllLead, AllConnected
  <1>5. P = streams
    <2>1. \A s \in streams : s = <<s[1], s[2]>>
      OBVIOUS
    <2>2. \A s \in P : s = <<s[1], s[2]>>
      BY PassedIs
    <2>3. \A k, i : <<k, i>> \in streams <=> k \in FromSources /\ i \in Edges(graph.kernels, k)
      OBVIOUS
    <2> HIDE DEF P, streams
    <2>4. \A k, i : <<k, i>> \in P <=> <<k, i>> \in streams
      BY <1>3, <1>4, <2>3
    <2> QED
      BY <2>1, <2>2, <2>4, SamePairs
  <1>6. /\ Len(dot) = Cardinality(P)
        /\ {dot[n] : n \in DOMAIN dot} = {DotLine(s[1], s[2]) : s \in P}
    BY <1>1 DEF SInv, Dotted
  <1> HIDE DEF P, streams
  <1> QED
    BY <1>5, <1>6 DEF ToSet

\* The ports that hold a stream.
LEMMA PortsWithIs ==
    ASSUME NEW f, Sound(graph)
    PROVE  \A s : s \in PortsWith(f) <=>
             \E k \in DOMAIN graph.kernels :
               \/ \E i \in DOMAIN graph.kernels[k].output :
                    s = <<k, "output", i>> /\ graph.kernels[k].output[i].fifo = f
               \/ \E i \in DOMAIN graph.kernels[k].input :
                    s = <<k, "input", i>> /\ graph.kernels[k].input[i].fifo = f
  <1>1. DOMAIN graph.kernels = 1 .. KernelCount
    BY DEF Sound, WorldType, KernelCount
  <1> DEFINE at(k, side) == {<<k, side, i>> : i \in {j \in DOMAIN graph.kernels[k][side] :
                                                    graph.kernels[k][side][j].fifo = f}}
  <1>2. \A s, k, side : s \in at(k, side) <=>
          \E i \in DOMAIN graph.kernels[k][side] :
            s = <<k, side, i>> /\ graph.kernels[k][side][i].fifo = f
    OBVIOUS
  <1>3. PortsWith(f) = UNION {at(k, "output") \cup at(k, "input") : k \in DOMAIN graph.kernels}
    BY <1>1 DEF PortsWith
  <1> HIDE DEF at
  <1>4. \A s : s \in PortsWith(f) <=>
          \E k \in DOMAIN graph.kernels : s \in at(k, "output") \/ s \in at(k, "input")
    BY <1>3
  <1> QED
    BY <1>2, <1>4

\* While kernels run, the streams that can be reached are there, each at its two ends.
LEMMA InvReady == ASSUME SInv PROVE StreamsReady
  <1>1. SUFFICES ASSUME Executing, NEW k \in graph.keeper.all, NEW i \in DOMAIN graph.kernels[k].output
                 PROVE  LET out == graph.kernels[k].output[i]
                        IN IF k \in FromSources
                           THEN /\ out.fifo \notin {NoFifo} \cup deleted
                                /\ PortsWith(out.fifo) =
                                     {<<k, "output", i>>,
                                      <<out.other_kernel, "input",
                                        Find(graph.kernels[out.other_kernel].input, out.other_name)>>}
                           ELSE out.fifo = NoFifo
    BY DEF StreamsReady, Outputs, Inputs
  <1> DEFINE out == graph.kernels[k].output[i]
             b == out.other_kernel
             f == out.fifo
  <1>2. Sound(graph) /\ AllLead(graph) /\ Streams(graph, Len(fifos)) /\ k \in DOMAIN graph.kernels
    BY <1>1, ExeIs DEF InExe, SInv, Executing, Sound, Kept
  <1>3. CASE k \notin FromSources
    BY <1>1, <1>2, <1>3 DEF Streams, Reached, FromSources
  <1>4. CASE k \in FromSources
    <2>1. f \notin {NoFifo} \cup deleted
      <3>1. mem.ready
        BY <1>1 DEF SInv, GInv, IInv, MemPlace
      <3> QED
        BY <1>1, <1>4, <3>1 DEF SInv, Made, Live
    <2>2. b # NoKernel
      BY <1>1, <1>2 DEF AllLead, AllConnected
    <2>3. PICK j \in DOMAIN graph.kernels[b].input : Stream(graph, k, i, b, j)
      BY <1>1, <1>2, <2>2 DEF Sound, Mutual
    <2>4. b \in DOMAIN graph.kernels /\ out.other_name = graph.kernels[b].input[j].my_name
      BY <2>3 DEF Stream
    <2>5. Find(graph.kernels[b].input, out.other_name) = j
      <3>1. graph.kernels[b].input \in Seq(PortType) /\ Names(graph.kernels[b].input)
        BY <1>2, <2>4, PortTypes DEF Sound, NamesApart
      <3> QED
        BY <2>3, <2>4, <3>1, FindIs
    <2>6. graph.kernels[b].input[j].fifo = f
      BY <1>1, <1>2, <2>3, <2>4 DEF Streams, EndsAgree
    <2>7. ASSUME NEW x \in DOMAIN graph.kernels, NEW m \in DOMAIN graph.kernels[x].output,
                 graph.kernels[x].output[m].fifo = f
          PROVE  x = k /\ m = i
      BY <1>1, <1>2, <2>1, <2>7 DEF Streams, Distinct
    <2>8. ASSUME NEW x \in DOMAIN graph.kernels, NEW m \in DOMAIN graph.kernels[x].input,
                 graph.kernels[x].input[m].fifo = f
          PROVE  x = b /\ m = j
      <3> DEFINE a == graph.kernels[x].input[m].other_kernel
      <3>1. a # NoKernel
        BY <1>2, <2>1, <2>8 DEF Streams, LooseEnds
      <3>2. PICK l \in DOMAIN graph.kernels[a].output : Stream(graph, a, l, x, m)
        BY <1>2, <2>8, <3>1 DEF Sound, Mutual
      <3>3. a \in DOMAIN graph.kernels
        BY <3>2 DEF Stream
      <3>4. graph.kernels[a].output[l].fifo = f
        BY <1>2, <2>8, <3>2, <3>3 DEF Streams, EndsAgree
      <3>5. a = k /\ l = i
        BY <2>7, <3>2, <3>3, <3>4
      <3>6. Stream(graph, k, i, x, m)
        BY <3>2, <3>5
      <3> HIDE DEF b
      <3> QED
        BY <1>1, <1>2, <2>3, <2>4, <3>6, StreamIs
    <2> HIDE DEF f, b
    <2>9. \A s : s \in PortsWith(f) <=> s \in {<<k, "output", i>>, <<b, "input", j>>}
      <3>1. ASSUME NEW s \in PortsWith(f)
            PROVE  s \in {<<k, "output", i>>, <<b, "input", j>>}
        BY <1>2, <2>7, <2>8, <3>1, PortsWithIs
      <3>2. graph.kernels[k].output[i].fifo = f
        BY DEF f
      <3>3. <<k, "output", i>> \in PortsWith(f) /\ <<b, "input", j>> \in PortsWith(f)
        BY <1>1, <1>2, <2>3, <2>4, <2>6, <3>2, PortsWithIs
      <3> QED
        BY <3>1, <3>3
    <2>10. PortsWith(f) = {<<k, "output", i>>, <<b, "input", j>>}
      BY <2>9
    <2> QED
      BY <1>4, <2>1, <2>5, <2>10 DEF f, b
  <1> QED
    BY <1>3, <1>4

\* The sizes, of the streams that have not been deleted.
LEMMA InvSizes == ASSUME SInv PROVE StreamSizes
  <1>1. DOMAIN graph.kernels = 1 .. KernelCount
    BY DEF SInv, GInv, MInv, GraphSound, WorldType, KernelCount
  <1> QED
    BY <1>1 DEF SInv, Sized, Fits, StreamSizes, Outputs

\* The types.
LEMMA InvTypes == ASSUME SInv, Closable PROVE TypeOK
  <1>1. graph \in WorldType /\ (pc \in {"main", "adding"} => ~Thrown(graph)) /\ Bracketed(graph)
    BY DEF SInv, GInv, MInv, GraphSound
  <1>2. DOMAIN graph.kernels = 1 .. KernelCount
    BY <1>1 DEF WorldType, KernelCount
  <1>3. pc \in PCs /\ lock \in {"free", "mem", "para"}
    BY DEF SInv, GInv, IInv, Shape, LockHeld, PCs, NoKernelsYet, Alone, Building0, Over
  <1>4. graph.thrown \in Exceptions
    BY <1>1 DEF WorldType
  <1>5. fifos \in Seq(FifoType) /\ Within(graph, Len(fifos)) /\ Placed(graph)
    BY DEF SInv, GInv, Stored, Streams
  <1>6. \A k \in 1 .. KernelCount : FifosOf(k) \subseteq {NoFifo} \cup DOMAIN fifos
    <2>1. {NoFifo} \cup DOMAIN fifos = 0 .. Len(fifos)
      BY <1>5 DEF NoFifo
    <2> QED
      BY <1>2, <1>5, <2>1 DEF FifosOf, Side, Within
  <1>7. \A k \in 1 .. KernelCount :
          /\ graph.kernels[k].core_assign \in {NoCore} \cup 0 .. Cores - 1
          /\ Len(graph.kernels[k].enabled_port) <= 2
    BY <1>1, <1>2, <1>5 DEF Placed, CoreRange, Bracketed, MaxEnabled
  <1>8. \A f \in DOMAIN fifos : fifos[f].capacity \in Nat \ {0}
    <2>1. \A f \in DOMAIN fifos : fifos[f] \in FifoType
      BY <1>5
    <2> QED
      BY <2>1 DEF FifoType
  <1>9. \A f \in DOMAIN mem.size_map : mem.size_map[f] \in 0 .. 3
    BY DEF SInv, Stored
  <1> QED
    BY <1>1, <1>3, <1>4, <1>6, <1>7, <1>8, <1>9 DEF TypeOK, Closable

-----------------------------------------------------------------------------
(* The theorems. *)

\* Every kernel, port, stream and count is in its range, exceptions included: no kernel is
\* bracketed with more than two ports, a port holds a stream there is, or none.
THEOREM Typing == Spec => []TypeOK
  <1>1. SInv /\ Closable => TypeOK
    BY InvTypes
  <1> QED
    BY <1>1, StreamInvariance, ClosedInvariance, PTL

\* The two ends of every stream name each other and have one type, whichever statement
\* is run, and wherever an exception cuts it short (map.cpp, join and the inline_*).
THEOREM StreamsHaveTwoEnds == Spec => []EdgesAreMutual
  <1>1. SInv => EdgesAreMutual
    BY InvMutual DEF SInv, GInv
  <1> QED
    BY <1>1, StreamInvariance, PTL

\* A port that is connected stays connected to the same port: later statements, copies of
\* kernels, exe() and the end of the map leave it alone.
THEOREM StreamsAreForGood == Spec => EdgesAreStable
  <1>1. SInv /\ [Next]_vars => Stays(graph, graph')
    BY EveryStepKeeps
  <1>2. Stays(graph, graph') =>
          [\A k \in DOMAIN graph.kernels : \A side \in {"input", "output"} :
             \A i \in DOMAIN graph.kernels[k][side] :
               LET before == graph.kernels[k][side][i]
                   after == graph'.kernels[k][side][i]
               IN before.other_kernel # NoKernel =>
                    /\ after.other_kernel = before.other_kernel
                    /\ after.other_name = before.other_name]_graph
    BY DEF Stays
  <1> QED
    BY <1>1, <1>2, StreamInvariance, PTL DEF Spec, EdgesAreStable

\* The map deletes the kernels of its graph that were made for it, and no kernel of main().
THEOREM OwnKernelsOnly == Spec => []MapOwnsItsKernels
  <1>1. SInv => MapOwnsItsKernels
    BY InvOwns DEF SInv, GInv
  <1> QED
    BY <1>1, StreamInvariance, PTL

\* exe() runs only graphs without loose ends: all that follows checkEdges() may go to the
\* other end of every port.
THEOREM NoLooseEnds == Spec => []ExeStartsConnected
  <1>1. SInv => ExeStartsConnected
    BY InvConnected
  <1> QED
    BY <1>1, StreamInvariance, PTL

\* A traversal calls its function once for each edge that can be reached, whatever the
\* graph: its cycles, its kernels with several inputs, its several sources (graphtools.cpp,
\* makedot.cpp).
THEOREM TraversalIsComplete == Spec => []DotShowsTheGraph
  <1>1. SInv => DotShowsTheGraph
    BY InvDotted
  <1> QED
    BY <1>1, StreamInvariance, PTL

\* When kernels run, each edge that can be reached has a stream of its own that has not
\* been deleted, and the ports at its two ends are the only ones that hold it
\* (allocate.cpp).
THEOREM StreamsAreReady == Spec => []StreamsReady
  <1>1. SInv => StreamsReady
    BY InvReady
  <1> QED
    BY <1>1, StreamInvariance, PTL

\* A stream whose size was given keeps that size, however often the monitor finds its
\* producer blocked and whatever the keys of its counters are (dynalloc.cpp).
THEOREM GivenSizesStay == Spec => []StreamSizes
  <1>1. SInv => StreamSizes
    BY InvSizes
  <1> QED
    BY <1>1, StreamInvariance, PTL

\* A stream is not freed before the last thread that may go to it has ended: every kernel,
\* whichever others have stopped, and the monitor in its traversal.
THEOREM StreamsOutlive == Spec => []StreamsOutliveTheirUsers
  <1>1. SInv => StreamsOutliveTheirUsers
    BY DEF SInv, Made
  <1> QED
    BY <1>1, StreamInvariance, PTL
=============================================================================
