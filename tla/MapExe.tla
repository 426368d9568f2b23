------------------------------- MODULE MapExe -------------------------------
(***************************************************************************)
(* raft::map::exe(): the graph is checked, its kernels are given cores, a  *)
(* thread allocates the streams and watches them, a thread schedules the   *)
(* kernels, each on a thread of its own, a thread looks for kernels to     *)
(* duplicate, and at the end all of them are joined and the streams freed  *)
(* (map.hpp, allocate.cpp, dynalloc.cpp, stdalloc.cpp, simpleschedule.cpp, *)
(* basicparallel.cpp, makedot.cpp, partition_*.cpp).                       *)
(*                                                                         *)
(* What happens inside a stream, and inside a kernel's turn, are the       *)
(* modules RingBufferHeap, DataManager and Schedule.                       *)
(***************************************************************************)
EXTENDS Map, GraphTools

CONSTANTS
    Template,       \* the template arguments each application gives to exe()
    Cores,          \* hardware_concurrency()
    InitialSize,    \* INITIAL_ALLOC_SIZE
    MaxCapacity     \* bound: a stream of this capacity is not found blocked

ASSUME ExeAssumption ==
    /\ \A p \in Programs :
          /\ Template[p].partition \in {"dummy", "basic", "scotch"}
          /\ Template[p].allocator \in {"dynalloc", "stdalloc"}
          /\ Template[p].monitor \in {"basic", "none"}
    /\ Cores \in Nat \ {0}
    /\ InitialSize \in Nat \ {0} /\ MaxCapacity \in Nat

VARIABLES
    fifos,      \* the streams that were allocated: capacity, external
    closed,     \* those of them whose current buffer says that it is invalid
    deleted,    \* those of them that have been deleted
    lock,       \* who holds source_kernels: "free", "mem" or "para"
    walk,       \* the traversal each thread is at
    mem,        \* the allocator's thread: pc, ready, size_map, collide, copy
    exit,       \* exit_alloc and exit_para
    sched,      \* the scheduler's thread: pc, the kernels still to be started
    thread,     \* the thread of each kernel
    loc,        \* thread_data::loc of each kernel
    para,       \* the parallelism monitor's thread
    dot         \* the edges written to the file of GEN_DOT

storage == <<fifos, closed, deleted>>
exeVars == <<storage, lock, walk, mem, exit, sched, thread, loc, para, dot>>
vars == <<mapVars, exeVars>>

(* exe< partition, simple_schedule, allocator, parallelism_monitor >(): a  *)
(* statement of the application.                                           *)
Exe == [kind |-> "exe"]
Arguments == Template[prog]

NoThreads == [pc |-> "none", ready |-> FALSE, size_map |-> <<>>, collide |-> FALSE, copy |-> "open"]

Init ==
    /\ MapInit
    /\ fifos = <<>> /\ closed = {} /\ deleted = {}
    /\ lock = "free"
    /\ walk = [main |-> NoWalk, mem |-> NoWalk, para |-> NoWalk]
    /\ mem = NoThreads
    /\ exit = [alloc |-> FALSE, para |-> FALSE]
    /\ sched = [pc |-> "none", todo |-> {}]
    /\ thread = <<>> /\ loc = <<>>
    /\ para = "none"
    /\ dot = <<>>

KernelCount == Len(graph.kernels)
Side == {"input", "output"}

(* main() goes to its next step inside exe(). *)
Main(from, to) == pc = from /\ pc' = to
BuildUnchanged == UNCHANGED <<prog, stmt, step, add, ret>>

-----------------------------------------------------------------------------
(* checkEdges(); there are no sub_maps to flatten before. *)
checkEdges ==
    /\ AtStatement("exe")
    /\ LET connected == \A k \in graph.keeper.all : AllConnected(graph.kernels[k])
       IN /\ pc' = IF connected THEN "partition" ELSE "thrown"
          /\ graph' = IF connected THEN graph ELSE Throw(graph, "PortUnconnected")
    /\ BuildUnchanged
    /\ UNCHANGED exeVars

(* setCore() for each kernel of the set, the n-th is given cores[n]. *)
Assigned(cores) ==
    LET place(k) == Cardinality({j \in graph.keeper.all : j <= k})
    IN [graph EXCEPT !.kernels = [k \in DOMAIN @ |->
          IF k \in graph.keeper.all THEN [@[k] EXCEPT !.core_assign = cores[place(k)]] ELSE @[k]]]

partition_dummy ==
    /\ Arguments.partition = "dummy"
    /\ UNCHANGED graph
partition_basic ==
    /\ Arguments.partition = "basic"
    /\ graph' = Assigned([i \in 1 .. Cardinality(graph.keeper.all) |-> (i - 1) % Cores])
(* One kernel per core if there are enough, else what SCOTCH answers. *)
run_scotch ==
    \E part \in [graph.keeper.all -> 0 .. Cores - 1] :
        graph' = [graph EXCEPT !.kernels = [k \in DOMAIN @ |->
            IF k \in DOMAIN part THEN [@[k] EXCEPT !.core_assign = part[k]] ELSE @[k]]]
partition_scotch ==
    /\ Arguments.partition = "scotch"
    /\ IF Cardinality(graph.keeper.all) <= Cores
         THEN graph' = Assigned([i \in 1 .. Cores |-> i - 1])
         ELSE run_scotch

Partition ==
    /\ Main("partition", "dot")
    /\ partition_dummy \/ partition_basic \/ partition_scotch
    /\ BuildUnchanged
    /\ UNCHANGED exeVars

(* GEN_DOT: a line for each edge that the traversal from the sources meets. *)
DotBegin ==
    /\ Main("dot", "dotting")
    /\ walk' = [walk EXCEPT !.main = BFS(graph.keeper.source)]
    /\ BuildUnchanged
    /\ UNCHANGED <<graph, storage, lock, mem, exit, sched, thread, loc, para, dot>>

DotLine(k, i) ==
    LET port == graph.kernels[k].output[i]
    IN [src |-> graph.kernels[k].id, name |-> port.my_name,
        dst |-> graph.kernels[port.other_kernel].id, to |-> port.other_name]

generate_edge_list ==
    /\ pc = "dotting"
    /\ \E k \in AtFront(walk.main) :
          /\ dot' = IF AtEdge(walk.main, graph.kernels, k) THEN Append(dot, DotLine(k, walk.main.port)) ELSE dot
          /\ walk' = [walk EXCEPT !.main = BFS_edges(@, graph.kernels, k)]
    /\ UNCHANGED <<mapVars, storage, lock, mem, exit, sched, thread, loc, para>>

(* The file is closed, and GEN_DOT_EXIT may end the application there. *)
DotEnd ==
    /\ pc = "dotting" /\ Finished(walk.main)
    /\ pc' \in {"spawn", "exited"}
    /\ dot' = <<>>
    /\ walk' = [walk EXCEPT !.main = NoWalk]
    /\ BuildUnchanged
    /\ UNCHANGED <<graph, storage, lock, mem, exit, sched, thread, loc, para>>

(* The allocator and its thread.  Whether the keys of different streams    *)
(* coincide depends on where their ports lie in memory.                    *)
SpawnAllocator ==
    /\ pc \in {"dot", "spawn"} /\ pc' = "wait"
    /\ \E collide \in IF Arguments.allocator = "dynalloc" THEN BOOLEAN ELSE {FALSE} :
          mem' = [NoThreads EXCEPT !.pc = "want_alloc", !.collide = collide]
    /\ exit' = [alloc |-> FALSE, para |-> FALSE]
    /\ BuildUnchanged
    /\ UNCHANGED <<graph, storage, lock, walk, sched, thread, loc, para, dot>>

-----------------------------------------------------------------------------
(* The allocator's thread.  source_kernels.acquire() and release(). *)
Acquire(who) == lock = "free" /\ lock' = who
Release(who) == lock = who /\ lock' = "free"

MemAcquire ==
    /\ mem.pc \in {"want_alloc", "want"}
    /\ Acquire("mem")
    /\ walk' = [walk EXCEPT !.mem = BFS(graph.keeper.source)]
    /\ mem' = [mem EXCEPT !.pc = IF @ = "want" THEN "monitoring" ELSE "allocating"]
    /\ UNCHANGED <<mapVars, storage, exit, sched, thread, loc, para, dot>>

(* The size of a new stream: an existing buffer is used as it is. *)
alloc_size(port) ==
    CASE port.nitems # 0 -> port.nitems
      [] port.nitems = 0 /\ port.fixed_buffer_size # 0 -> port.fixed_buffer_size
      [] OTHER -> InitialSize

(* initialize(): neither end may have a stream, even one long freed. *)
DoubleInit(kernels, k, i) ==
    LET port == kernels[k].output[i]
    IN \/ port.fifo # NoFifo
       \/ kernels[port.other_kernel].input[OtherEnd(kernels, port)].fifo # NoFifo

(* allocate() for one edge: a stream that both of its ends hold. *)
NewFifo(port) == [capacity |-> alloc_size(port), external |-> port.nitems # 0]
Allocated(w, k, i, f) ==
    LET port == w.kernels[k].output[i]
        j == OtherEnd(w.kernels, port)
    IN SetInput(SetOutput(w, k, i, [port EXCEPT !.fifo = f]),
                port.other_kernel, j, [w.kernels[port.other_kernel].input[j] EXCEPT !.fifo = f])

(* One port of the traversal; no one catches what initialize() throws on   *)
(* this thread, so that it ends the process.                               *)
AllocVisit ==
    /\ mem.pc = "allocating"
    /\ \E k \in AtFront(walk.mem) :
          LET i == walk.mem.port
              edge == AtEdge(walk.mem, graph.kernels, k)
              go == pc' = pc /\ walk' = [walk EXCEPT !.mem = BFS_edges(@, graph.kernels, k)]
          IN \/ /\ edge /\ DoubleInit(graph.kernels, k, i)
                /\ pc' = "terminated"
                /\ UNCHANGED <<graph, fifos, walk>>
             \/ /\ edge /\ ~DoubleInit(graph.kernels, k, i)
                /\ fifos' = Append(fifos, NewFifo(graph.kernels[k].output[i]))
                /\ graph' = Allocated(graph, k, i, Len(fifos) + 1)
                /\ go
             \/ ~edge /\ go /\ UNCHANGED <<graph, fifos>>
    /\ BuildUnchanged
    /\ UNCHANGED <<closed, deleted, lock, mem, exit, sched, thread, loc, para, dot>>

(* setReady(); stdalloc ends there, dynalloc goes on to its loop. *)
AllocDone ==
    /\ mem.pc = "allocating"
    /\ Finished(walk.mem)
    /\ Release("mem")
    /\ walk' = [walk EXCEPT !.mem = NoWalk]
    /\ mem' = [mem EXCEPT !.ready = TRUE, !.size_map = [f \in DOMAIN fifos |-> 0],
                          !.pc = IF Arguments.allocator = "dynalloc" THEN "check" ELSE "ended"]
    /\ UNCHANGED <<mapVars, storage, exit, sched, thread, loc, para, dot>>

MonitorCheck ==
    /\ mem.pc = "check"
    /\ mem' = [mem EXCEPT !.pc = IF exit.alloc THEN "ended" ELSE "want"]
    /\ UNCHANGED <<mapVars, storage, lock, walk, exit, sched, thread, loc, para, dot>>

(* hash(): the low halves of two addresses. *)
hash(f) == IF mem.collide THEN 1 ELSE f

(* A mutant: a stream of a fixed size is not skipped. *)
mon_func_fixedToo(port, blocked) ==
    CASE ~blocked -> "skip"
      [] blocked /\ mem.size_map[hash(port.fifo)] > 2 -> "resize"
      [] OTHER -> "count"

(* mon_func for one edge: a stream of a fixed size is skipped, and so is   *)
(* one whose producer is not blocked; the fourth time it is found blocked  *)
(* the stream is to be doubled.                                            *)
mon_func(port, blocked) ==
    CASE port.fixed_buffer_size # 0 \/ ~blocked -> "skip"
      [] port.fixed_buffer_size = 0 /\ blocked /\ mem.size_map[hash(port.fifo)] > 2 -> "resize"
      [] OTHER -> "count"

(* resize() returns at once: the buffer is external, or it finds that the  *)
(* application is done or the stream closed.                               *)
GivesUp(f) == exit.alloc \/ f \in closed
NoResize(f) == fifos[f].external \/ GivesUp(f)

SetCount(f, c) == [mem EXCEPT !.size_map[hash(f)] = c]
StreamAt(k) == graph.kernels[k].output[walk.mem.port].fifo
GoesOn(k) == walk' = [walk EXCEPT !.mem = BFS_edges(@, graph.kernels, k)]

MonitorVisit ==
    /\ mem.pc = "monitoring"
    /\ \E k \in AtFront(walk.mem) :
          \/ ~AtEdge(walk.mem, graph.kernels, k) /\ GoesOn(k) /\ UNCHANGED mem
          \/ /\ AtEdge(walk.mem, graph.kernels, k)
             /\ LET port == graph.kernels[k].output[walk.mem.port]
                    f == port.fifo
                IN \E blocked \in IF fifos[f].capacity < MaxCapacity THEN BOOLEAN ELSE {FALSE} :
                     \/ mon_func(port, blocked) = "skip" /\ GoesOn(k) /\ UNCHANGED mem
                     \/ /\ mon_func(port, blocked) = "count"
                        /\ GoesOn(k)
                        /\ mem' = SetCount(f, mem.size_map[hash(f)] + 1)
                     \/ /\ mon_func(port, blocked) = "resize" /\ NoResize(f)
                        /\ GoesOn(k)
                        /\ mem' = SetCount(f, 0)
                     \/ /\ mon_func(port, blocked) = "resize" /\ ~NoResize(f)
                        /\ mem' = [SetCount(f, 0) EXCEPT !.pc = "resizing"]
                        /\ UNCHANGED walk
    /\ UNCHANGED <<mapVars, storage, lock, exit, sched, thread, loc, para, dot>>

(* resize() goes on until it finds a moment for the copy, or gives up ...  *)
ResizeEnds ==
    /\ mem.pc = "resizing"
    /\ \E k \in AtFront(walk.mem) : GivesUp(StreamAt(k)) /\ GoesOn(k)
    /\ mem' = [mem EXCEPT !.pc = "monitoring"]
    /\ UNCHANGED <<mapVars, storage, lock, exit, sched, thread, loc, para, dot>>
CopyFrom ==
    /\ mem.pc = "resizing"
    /\ \E k \in AtFront(walk.mem) :
          mem' = [mem EXCEPT !.pc = "copied", !.copy = IF StreamAt(k) \in closed THEN "closed" ELSE "open"]
    /\ UNCHANGED <<mapVars, storage, lock, walk, exit, sched, thread, loc, para, dot>>

(* ... and puts the copy in the place of the buffer: what has become of    *)
(* the buffer since then, a close, is lost.                                *)
SetBuffer ==
    /\ mem.pc = "copied"
    /\ \E k \in AtFront(walk.mem) :
          /\ fifos' = [fifos EXCEPT ![StreamAt(k)].capacity = 2 * @]
          /\ closed' = IF mem.copy = "closed" THEN closed ELSE closed \ {StreamAt(k)}
          /\ GoesOn(k)
    /\ mem' = [mem EXCEPT !.pc = "monitoring", !.copy = "open"]
    /\ UNCHANGED <<mapVars, deleted, lock, exit, sched, thread, loc, para, dot>>

MonitorDone ==
    /\ mem.pc = "monitoring"
    /\ Finished(walk.mem)
    /\ Release("mem")
    /\ walk' = [walk EXCEPT !.mem = NoWalk]
    /\ mem' = [mem EXCEPT !.pc = "check"]
    /\ UNCHANGED <<mapVars, storage, exit, sched, thread, loc, para, dot>>

MemGoesOn ==
    \/ MemAcquire \/ AllocVisit \/ AllocDone
    \/ MonitorCheck \/ MonitorVisit \/ MonitorDone
    \/ ResizeEnds \/ SetBuffer
MemNext == MemGoesOn \/ CopyFrom

-----------------------------------------------------------------------------
(* The scheduler's thread and the threads of the kernels. *)

(* waitTillReady(); then the scheduler and the parallelism monitor start. *)
waitTillReady ==
    /\ Main("wait", "join_sched")
    /\ mem.ready
    /\ sched' = [pc |-> "spawning", todo |-> graph.keeper.all]
    /\ thread' = [k \in 1 .. KernelCount |-> "none"]
    /\ loc' = [k \in 1 .. KernelCount |-> NoCore]
    /\ para' = IF Arguments.monitor = "basic" THEN "check" ELSE "ended"
    /\ BuildUnchanged
    /\ UNCHANGED <<graph, storage, lock, walk, mem, exit, dot>>

(* handleSchedule(): the kernels in the order of their addresses.  The     *)
(* constructor of thread_info_t starts the thread, the core that it is to  *)
(* run on is stored after that.                                            *)
IsNext(k) == \A j \in sched.todo : k <= j
StartThread ==
    /\ sched.pc = "spawning"
    /\ \E k \in sched.todo : IsNext(k) /\ thread' = [thread EXCEPT ![k] = "started"]
    /\ sched' = [sched EXCEPT !.pc = "placing"]
    /\ UNCHANGED <<mapVars, storage, lock, walk, mem, exit, loc, para, dot>>
StoreLoc ==
    /\ sched.pc = "placing"
    /\ \E k \in sched.todo :
          /\ IsNext(k)
          /\ loc' = [loc EXCEPT ![k] = graph.kernels[k].core_assign]
          /\ sched' = [pc |-> "spawning", todo |-> sched.todo \ {k}]
    /\ UNCHANGED <<mapVars, storage, lock, walk, mem, exit, thread, para, dot>>
Scheduled ==
    /\ sched.pc = "spawning" /\ sched.todo = {}
    /\ sched' = [sched EXCEPT !.pc = "polling"]
    /\ UNCHANGED <<mapVars, storage, lock, walk, mem, exit, thread, loc, para, dot>>

(* The scan of thread_map: a thread that has set finished is joined. *)
JoinThread(k) ==
    /\ sched.pc = "polling"
    /\ thread[k] = "ended"
    /\ thread' = [thread EXCEPT ![k] = "joined"]
    /\ UNCHANGED <<mapVars, storage, lock, walk, mem, exit, sched, loc, para, dot>>
AllTerminated_one ==        \* a mutant: the last thread looked at decides
    /\ sched.pc = "polling"
    /\ \E k \in graph.keeper.all : thread[k] = "joined"
    /\ sched' = [sched EXCEPT !.pc = "ended"]
    /\ UNCHANGED <<mapVars, storage, lock, walk, mem, exit, thread, loc, para, dot>>
AllTerminated ==
    /\ sched.pc = "polling"
    /\ \A k \in graph.keeper.all : thread[k] = "joined"
    /\ sched' = [sched EXCEPT !.pc = "ended"]
    /\ UNCHANGED <<mapVars, storage, lock, walk, mem, exit, thread, loc, para, dot>>

SchedNext ==
    \/ StartThread \/ StoreLoc \/ Scheduled \/ AllTerminated
    \/ \E k \in DOMAIN thread : JoinThread(k)

(* The streams at the ports of a kernel. *)
FifosOf(k) ==
    UNION {{graph.kernels[k][side][i].fifo : i \in DOMAIN graph.kernels[k][side]} : side \in Side}
FifosAt(ports) == {ports[i].fifo : i \in DOMAIN ports}

(* setPtrSets() goes to every stream of the kernel, and fails if there is  *)
(* none; then the thread moves to the core that loc holds, if it does yet. *)
BeginRun(k) ==
    /\ thread[k] = "started"
    /\ IF NoFifo \in FifosOf(k)
         THEN pc' = "terminated" /\ UNCHANGED thread
         ELSE pc' = pc /\ thread' = [thread EXCEPT ![k] = "running"]
    /\ BuildUnchanged
    /\ UNCHANGED <<graph, storage, lock, walk, mem, exit, sched, loc, para, dot>>

(* kernelRun() sets finished: run() returned raft::stop, or every stream   *)
(* the kernel reads says that it is closed.  It closes those it writes.    *)
Stop(k) ==
    /\ thread[k] = "running"
    /\ \/ graph.kernels[k].stops
       \/ Inputs(k) # <<>> /\ FifosAt(Inputs(k)) \subseteq closed
    /\ thread' = [thread EXCEPT ![k] = "finished"]
    /\ closed' = closed \cup FifosAt(Outputs(k))
    /\ UNCHANGED <<mapVars, fifos, deleted, lock, walk, mem, exit, sched, loc, para, dot>>

(* The kernel at the other end of a stream may leave it unread for good:   *)
(* its thread has set finished, waits for ever itself, or waits at another *)
(* stream, which is closed, for what does not come any more.               *)
ReadsNoMore(r) ==
    \/ thread[r] \in {"finished", "ended", "joined", "blocked"}
    \/ FifosAt(Inputs(r)) \cap closed # {}

(* Then the stream gets full, and run() does not return from writing to it. *)
Block(k) ==
    /\ thread[k] = "running"
    /\ \E i \in DOMAIN Outputs(k) : ReadsNoMore(Outputs(k)[i].other_kernel)
    /\ thread' = [thread EXCEPT ![k] = "blocked"]
    /\ UNCHANGED <<mapVars, storage, lock, walk, mem, exit, sched, loc, para, dot>>

(* fifo_gc() once more, and the thread returns. *)
EndRun(k) ==
    /\ thread[k] = "finished"
    /\ thread' = [thread EXCEPT ![k] = "ended"]
    /\ UNCHANGED <<mapVars, storage, lock, walk, mem, exit, sched, loc, para, dot>>

KernelNext(k) == BeginRun(k) \/ Stop(k) \/ Block(k) \/ EndRun(k)

-----------------------------------------------------------------------------
(* basic_parallel: no kernel has dup_enabled, so that dup_list stays empty. *)
ParaCheck ==
    /\ para = "check"
    /\ para' = IF exit.para THEN "ended" ELSE "want"
    /\ UNCHANGED <<mapVars, storage, lock, walk, mem, exit, sched, thread, loc, dot>>
ParaAcquire ==
    /\ para = "want"
    /\ Acquire("para")
    /\ walk' = [walk EXCEPT !.para = BFS(graph.keeper.source)]
    /\ para' = "walking"
    /\ UNCHANGED <<mapVars, storage, mem, exit, sched, thread, loc, dot>>
ParaVisit ==
    /\ para = "walking"
    /\ \E k \in AtFront(walk.para) : walk' = [walk EXCEPT !.para = BFS_vertices(@, graph.kernels, k)]
    /\ UNCHANGED <<mapVars, storage, lock, mem, exit, sched, thread, loc, para, dot>>
ParaDone ==
    /\ para = "walking"
    /\ Finished(walk.para)
    /\ Release("para")
    /\ walk' = [walk EXCEPT !.para = NoWalk]
    /\ para' = "check"
    /\ UNCHANGED <<mapVars, storage, mem, exit, sched, thread, loc, dot>>

ParaNext == ParaCheck \/ ParaAcquire \/ ParaVisit \/ ParaDone

-----------------------------------------------------------------------------
(* exe() joins its threads one after the other and tells the next to end. *)
JoinScheduler_silent ==     \* a mutant: the allocator is not told
    /\ Main("join_sched", "join_mem")
    /\ sched.pc = "ended"
    /\ BuildUnchanged
    /\ UNCHANGED <<graph, storage, lock, walk, mem, exit, sched, thread, loc, para, dot>>
JoinScheduler ==
    /\ Main("join_sched", "join_mem")
    /\ sched.pc = "ended"
    /\ exit' = [exit EXCEPT !.alloc = TRUE]
    /\ BuildUnchanged
    /\ UNCHANGED <<graph, storage, lock, walk, mem, sched, thread, loc, para, dot>>
JoinAllocator_early ==      \* a mutant: the allocator's thread is not joined
    /\ Main("join_mem", "join_para")
    /\ exit' = [exit EXCEPT !.para = TRUE]
    /\ BuildUnchanged
    /\ UNCHANGED <<graph, storage, lock, walk, mem, sched, thread, loc, para, dot>>
JoinAllocator ==
    /\ Main("join_mem", "join_para")
    /\ mem.pc = "ended"
    /\ exit' = [exit EXCEPT !.para = TRUE]
    /\ BuildUnchanged
    /\ UNCHANGED <<graph, storage, lock, walk, mem, sched, thread, loc, para, dot>>

(* The destructors at the end of exe(): ~Allocate() deletes the streams,   *)
(* the ports keep their pointers.                                          *)
Return ==
    /\ pc = "join_para"
    /\ para = "ended"
    /\ deleted' = DOMAIN fifos
    /\ NextStatement
    /\ UNCHANGED <<prog, graph, ret, fifos, closed, lock, walk, mem, exit, sched, thread, loc, para, dot>>

(* main() once the first thread of exe() runs, and all it does. *)
ExeNext == waitTillReady \/ JoinScheduler \/ JoinAllocator \/ Return
MainNext ==
    \/ Building /\ UNCHANGED exeVars
    \/ Destroy /\ UNCHANGED exeVars
    \/ checkEdges \/ Partition \/ DotBegin \/ generate_edge_list \/ DotEnd \/ SpawnAllocator
    \/ ExeNext

(* The end of the process ends every thread. *)
Alive == pc \notin {"terminated", "exited", "done"}
SomeKernelNext == \E k \in DOMAIN thread : KernelNext(k)

Next == Alive /\ (MainNext \/ MemNext \/ SchedNext \/ ParaNext \/ SomeKernelNext)

Spec == Init /\ [][Next]_vars

(* Every thread goes on; a kernel has only finitely many steps, so that    *)
(* fairness to all of them together is enough.  acquire() spins until it   *)
(* finds the lock free, and whoever holds it sleeps before it asks again,  *)
(* so that the spinning thread gets it at last.  A source stops some time. *)
(* resize() need never find a moment for its copy.                         *)
FairSpec ==
    /\ Spec
    /\ WF_vars(Alive /\ ExeNext) /\ WF_vars(Alive /\ MemGoesOn) /\ WF_vars(Alive /\ SchedNext)
    /\ WF_vars(Alive /\ ParaNext) /\ WF_vars(Alive /\ SomeKernelNext)
    /\ SF_vars(Alive /\ MemAcquire) /\ SF_vars(Alive /\ ParaAcquire)

-----------------------------------------------------------------------------
(* The state space, with the shape of the graph and its exceptions. *)
PCs == {"main", "adding", "thrown", "terminated", "done", "exited", "partition", "dot",
        "dotting", "spawn", "wait", "join_sched", "join_mem", "join_para"}
TypeOK ==
    /\ pc \in PCs
    /\ graph.thrown \in Exceptions /\ (pc \in {"main", "adding"} => ~Thrown(graph))
    /\ \A k \in 1 .. KernelCount :
          /\ graph.kernels[k].core_assign \in {NoCore} \cup 0 .. Cores - 1
          /\ Len(graph.kernels[k].enabled_port) <= 2
          /\ FifosOf(k) \subseteq {NoFifo} \cup DOMAIN fifos
    /\ \A f \in DOMAIN fifos : fifos[f].capacity \in Nat \ {0}
    /\ closed \subseteq DOMAIN fifos
    /\ lock \in {"free", "mem", "para"}
    /\ \A f \in DOMAIN mem.size_map : mem.size_map[f] \in 0 .. 3

Executing == pc \in {"join_sched", "join_mem", "join_para"}
FromSources == Reachable(graph.kernels, graph.keeper.source)

(* Past checkEdges() every port of every kernel that will be scheduled is  *)
(* connected, to a kernel that will be scheduled too.                      *)
ExeStartsConnected ==
    pc \in {"partition", "dot", "dotting", "spawn", "wait"} \/ Executing =>
        \A k \in graph.keeper.all : \A side \in Side : \A i \in DOMAIN graph.kernels[k][side] :
            graph.kernels[k][side][i].other_kernel \in graph.keeper.all

(* The function of a traversal is "called on each edge of the graph       *)
(* exactly once" (graphtools.hpp): the file of GEN_DOT shows the streams   *)
(* that can be reached from a source, each by one line.                    *)
DotShowsTheGraph ==
    LET streams == UNION {{<<k, i>> : i \in Edges(graph.kernels, k)} : k \in FromSources}
    IN pc = "dotting" /\ Finished(walk.main) =>
         /\ Len(dot) = Cardinality(streams)
         /\ ToSet(dot) = {DotLine(s[1], s[2]) : s \in streams}

(* When the kernels are scheduled, the streams that there are begin at the *)
(* kernels that can be reached from a source, at each of their ports; none *)
(* of them has been deleted, and just the two ports at its ends hold it.   *)
PortsWith(f) ==
    LET at(k, side) == {<<k, side, i>> : i \in {j \in DOMAIN graph.kernels[k][side] :
                                                  graph.kernels[k][side][j].fifo = f}}
    IN UNION {at(k, "output") \cup at(k, "input") : k \in 1 .. KernelCount}
StreamsReady ==
    Executing =>
        LET reached == FromSources
        IN \A k \in graph.keeper.all : \A i \in DOMAIN Outputs(k) :
              LET out == Outputs(k)[i]
              IN IF k \in reached
                 THEN /\ out.fifo \notin {NoFifo} \cup deleted
                      /\ PortsWith(out.fifo) =
                           {<<k, "output", i>>,
                            <<out.other_kernel, "input", Find(Inputs(out.other_kernel), out.other_name)>>}
                 ELSE out.fifo = NoFifo

(* A stream over an existing buffer, or one whose port has a buffer size   *)
(* when it is made, has that size and keeps it as long as it lives: the    *)
(* monitor never resizes it.  (Which size a port has is the matter of      *)
(* link(): one that fails leaves its own there.)                           *)
StreamSizes ==
    \A k \in 1 .. KernelCount : \A i \in DOMAIN Outputs(k) :
        LET out == Outputs(k)[i]
        IN out.fifo \notin {NoFifo} \cup deleted =>
             /\ out.nitems # 0 => fifos[out.fifo].capacity = out.nitems
             /\ out.nitems = 0 /\ out.fixed_buffer_size # 0 =>
                   fifos[out.fifo].capacity = out.fixed_buffer_size

(* No stream is freed while a thread may still go to it: a kernel between  *)
(* its first and its last turn, the monitor in a traversal.                *)
StreamsOutliveTheirUsers ==
    /\ \A k \in DOMAIN thread : thread[k] \in {"running", "blocked", "finished"} =>
          \A f \in FifosOf(k) : f # NoFifo /\ f \notin deleted
    /\ mem.pc \in {"monitoring", "resizing", "copied"} =>
          \A k \in walk.mem.visited : \A i \in DOMAIN Outputs(k) : Outputs(k)[i].fifo \notin {NoFifo} \cup deleted

(* Streams are deleted only when no thread is left that could be in one of *)
(* them: every kernel that was started has been joined, and the threads of *)
(* the allocator and of the parallelism monitor are over and have given    *)
(* back the lock, whatever the graph and the template arguments are.       *)
AtRest ==
    /\ \A k \in DOMAIN thread : thread[k] \in {"none", "joined"}
    /\ sched.pc = "ended" /\ mem.pc = "ended" /\ para = "ended"
    /\ lock = "free"
FreedAtRest == [][deleted' # deleted => AtRest]_vars

(* exe() of a graph that hangs together from its sources returns, unless   *)
(* a kernel waits for ever at a stream that is not read any more, or a     *)
(* resize has lost the close of a stream whose producer has finished.      *)
(* Short of that the allocator gets ready, the end travels from kernel to  *)
(* kernel, and the threads of the allocator, even one in a resize, and of  *)
(* the parallelism monitor notice that they are to end, although they      *)
(* compete for one lock.                                                   *)
WaitsForEver == \E k \in DOMAIN thread : thread[k] = "blocked"
LostClose ==
    \E k \in DOMAIN thread :
        thread[k] \in {"finished", "ended", "joined"} /\ ~(FifosAt(Outputs(k)) \subseteq closed)
ExeReturns ==
    (pc = "wait" /\ fifos = <<>> /\ graph.keeper.all \subseteq FromSources)
        ~> (pc = "main" \/ WaitsForEver \/ LostClose)
=============================================================================
