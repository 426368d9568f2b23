----------------------------- MODULE GraphTools -----------------------------
(***************************************************************************)
(* The breadth first traversals of a stream graph (graphtools.cpp), one    *)
(* output port per step; the kernel it belongs to stays locked meanwhile.  *)
(*                                                                         *)
(* The sources are the first in the queue, in the order of their addresses *)
(* (a set is iterated so).  A walk keeps them as a set, apart from the     *)
(* kernels that are queued behind them, with the kernels seen and the port *)
(* that is next.                                                           *)
(***************************************************************************)
EXTENDS Port, FiniteSets

NoWalk == [sources |-> {}, queue |-> <<>>, visited |-> {}, port |-> 1]
BFS(sources) == [sources |-> sources, queue |-> <<>>, visited |-> sources, port |-> 1]

Finished(walk) == walk.sources = {} /\ walk.queue = <<>>

(* The kernel at the front of the queue. *)
AtFront(walk) ==
    CASE walk.sources # {} -> {k \in walk.sources : \A j \in walk.sources : k <= j}
      [] walk.sources = {} /\ walk.queue # <<>> -> {Head(walk.queue)}
      [] OTHER -> {}

(* The kernel behind a port joins the queue, unless it has been seen. *)
Follow(walk, child) ==
    [walk EXCEPT !.queue = IF child \in walk.visited THEN @ ELSE Append(@, child),
                 !.visited = @ \cup {child}, !.port = @ + 1]
Skip(walk) == [walk EXCEPT !.port = @ + 1]

(* No port is left: the kernel is through. *)
Leave(walk, k) ==
    [walk EXCEPT !.sources = @ \ {k}, !.port = 1,
                 !.queue = IF walk.sources = {} THEN Tail(@) ELSE @]

HasPort(walk, kernels, k) == walk.port \in DOMAIN kernels[k].output
Child(walk, kernels, k) == kernels[k].output[walk.port].other_kernel

(* Mutants: only the first port is followed, and: seen kernels are queued again. *)
BFS_edges_firstPort(walk, kernels, k) ==
    CASE HasPort(walk, kernels, k) /\ walk.port = 1 -> Follow(walk, Child(walk, kernels, k))
      [] OTHER -> Leave(walk, k)
BFS_edges_again(walk, kernels, k) ==
    IF HasPort(walk, kernels, k)
      THEN [walk EXCEPT !.queue = Append(@, Child(walk, kernels, k)), !.port = @ + 1]
      ELSE Leave(walk, k)

(* The traversal of edges follows a port that is not connected to nullptr, *)
(* which ends the traversal, whatever is queued behind it.                 *)
BFS_edges(walk, kernels, k) ==
    CASE k = NoKernel -> NoWalk
      [] k # NoKernel /\ HasPort(walk, kernels, k) -> Follow(walk, Child(walk, kernels, k))
      [] OTHER -> Leave(walk, k)

(* The traversal of vertices does not. *)
BFS_vertices(walk, kernels, k) ==
    CASE HasPort(walk, kernels, k) /\ Child(walk, kernels, k) # NoKernel ->
             Follow(walk, Child(walk, kernels, k))
      [] HasPort(walk, kernels, k) /\ Child(walk, kernels, k) = NoKernel -> Skip(walk)
      [] OTHER -> Leave(walk, k)

(* The output ports that the function of an edge is called with, the one   *)
(* that it is called with next, and the input port at the other end.       *)
Edges(kernels, k) ==
    IF k = NoKernel THEN {}
    ELSE {i \in DOMAIN kernels[k].output : kernels[k].output[i].other_kernel # NoKernel}
AtEdge(walk, kernels, k) == walk.port \in Edges(kernels, k)
OtherEnd(kernels, port) == Find(kernels[port.other_kernel].input, port.other_name)

(* What a traversal has to reach: the kernels that are in every set of     *)
(* kernels that holds the sources and, with a kernel, those behind it.     *)
Closed(kernels, K) ==
    \A k \in K : \A i \in Edges(kernels, k) : kernels[k].output[i].other_kernel \in K
Reachable(kernels, sources) ==
    LET closed == {K \in {R \cup sources : R \in SUBSET (DOMAIN kernels \ sources)} : Closed(kernels, K)}
    IN {k \in DOMAIN kernels : \A K \in closed : k \in K}
=============================================================================
