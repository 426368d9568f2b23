---------------------------- MODULE MapExe_proofs ----------------------------
(***************************************************************************)
(* Proofs about exe(), for every application, every graph that its         *)
(* statements leave behind and every choice of template arguments: its     *)
(* threads take turns at the graph, and all of them are over when the      *)
(* streams are deleted.                                                    *)
(*                                                                         *)
(* Nothing is assumed of the graph.  What the proof rests on is that the   *)
(* graph does not change while kernels run, and the order of the joins.    *)
(***************************************************************************)
EXTENDS MapExe, Map_proofs

-----------------------------------------------------------------------------
(* The inductive invariant.                                                *)

\* main() builds a graph, or is in the part of exe() before its first thread.
Building0 == {"main", "adding", "thrown"}
Alone == Building0 \cup {"partition", "dot", "dotting", "spawn"}
NoKernelsYet == Alone \cup {"wait"}
Over == {"terminated", "exited", "done"}

Shape ==
    /\ DOMAIN mem = {"pc", "ready", "size_map", "collide", "copy"}
    /\ DOMAIN sched = {"pc", "todo"}
    /\ pc \in NoKernelsYet \cup Over \cup {"join_sched", "join_mem", "join_para"}

\* The monitor of dynalloc in a traversal, perhaps inside a resize.
Monitoring == {"monitoring", "resizing", "copied"}

\* Where the allocator's thread can be: it has made all streams before a kernel
\* is started, and it is over before the parallelism monitor is told to end.
MemPlace ==
    /\ mem.pc \in {"none", "want_alloc", "allocating", "check", "want", "ended"} \cup Monitoring
    /\ mem.ready => mem.pc \in {"check", "want", "ended"} \cup Monitoring
    /\ pc \in Alone => mem.pc \in {"none", "ended"}
    /\ Executing => mem.ready
    /\ pc = "join_para" => mem.pc = "ended"

\* The lock of source_kernels is held by the thread that traverses the graph, so
\* that there is never more than one.
LockHeld ==
    /\ lock \in {"free", "mem", "para"}
    /\ lock = "mem" <=> mem.pc \in {"allocating"} \cup Monitoring
    /\ lock = "para" <=> para = "walking"
    /\ pc \in NoKernelsYet => para \in {"none", "ended"}

\* Only kernels of the map are started, and once the scheduler's thread is over
\* no thread of a kernel is left.
Resting == \A k \in DOMAIN thread : thread[k] \in {"none", "joined"}
ThreadsJoined ==
    /\ pc \in NoKernelsYet => sched.pc \in {"none", "ended"} /\ Resting
    /\ pc \in {"join_mem", "join_para"} => sched.pc = "ended"
    /\ Executing => /\ sched.todo \subseteq graph.keeper.all
                    /\ \A k \in DOMAIN thread : thread[k] # "none" => k \in graph.keeper.all
                    /\ sched.pc = "ended" => Resting

IInv == Shape /\ MemPlace /\ LockHeld /\ ThreadsJoined

-----------------------------------------------------------------------------
(* main() while it builds the graph.                                       *)

\* A statement that builds the graph stays among the labels of building, or an
\* exception ends the process.
LEMMA BuildingStays ==
    ASSUME Building
    PROVE  pc \in Building0 /\ pc' \in Building0 \cup {"terminated"}
  <1>1. CASE EvalOperator
    BY <1>1 DEF EvalOperator, AtStatement, Building0
  <1>2. CASE AddBegin
    BY <1>2 DEF AddBegin, AtStatement, Building0
  <1>3. CASE Inline
    <2>1. pc = "adding"
      BY <1>3 DEF Inline, AtPair, ContGroup, ContKernel, ContGroupDone, AddCont, SplitKernel,
                  SplitPort, SplitKernelDone, SplitGroupDone, AddSplit, JoinGroup, JoinPort,
                  JoinGroupDone, AddJoin, DupJoinBegin, DupJoinPort, DupJoinOver, AddDupJoin
    <2>2. \E w, a : Works(w, a)
      BY <1>3 DEF Inline, Turn, ContGroup, ContKernel, ContGroupDone, AddCont, SplitKernel,
                  SplitPort, SplitKernelDone, SplitGroupDone, AddSplit, JoinGroup, JoinPort,
                  JoinGroupDone, AddJoin, DupJoinBegin, DupJoinPort, AddDupJoin
    <2> QED
      BY <2>1, <2>2 DEF Works, Building0
  <1>4. CASE AddDst
    BY <1>4 DEF AddDst, Works, Building0
  <1>5. CASE AddEnd
    BY <1>5 DEF AddEnd, Added, NextStatement, Building0
  <1>6. CASE LinkDirectly
    BY <1>6 DEF LinkDirectly, AtStatement, EndsAs, NextStatement, Building0
  <1>7. CASE Catch
    BY <1>7 DEF Catch, NextStatement, Building0
  <1>8. CASE Terminate
    BY <1>8 DEF Terminate, Building0
  <1> QED
    BY <1>1, <1>2, <1>3, <1>4, <1>5, <1>6, <1>7, <1>8 DEF Building

\* As long as main() stays before its first thread, or ends, and the threads of
\* an earlier exe() are left as they are, the invariant holds.
LEMMA AloneKeeps ==
    ASSUME IInv, pc \in Alone, pc' \in Alone \cup Over,
           UNCHANGED <<deleted, lock, mem, sched, thread, para>>
    PROVE  IInv'
  <1>1. Shape'
    BY DEF IInv, Shape, NoKernelsYet
  <1>2. MemPlace'
    BY DEF IInv, MemPlace, Executing, Alone, Over, Building0
  <1>3. LockHeld'
    BY DEF IInv, LockHeld, NoKernelsYet, Alone, Over, Building0
  <1>4. ThreadsJoined'
    BY DEF IInv, ThreadsJoined, Resting, Executing, NoKernelsYet, Alone, Over, Building0
  <1> QED
    BY <1>1, <1>2, <1>3, <1>4 DEF IInv

\* Building the graph, checking it, giving cores to the kernels and writing the
\* graph to a file.
LEMMA MainAlone ==
    ASSUME IInv,
           \/ (Building \/ Destroy) /\ UNCHANGED exeVars
           \/ checkEdges \/ Partition \/ DotBegin \/ generate_edge_list \/ DotEnd
    PROVE  IInv' /\ UNCHANGED deleted
  <1>1. CASE Building /\ UNCHANGED exeVars
    BY <1>1, BuildingStays, AloneKeeps DEF exeVars, storage, Alone, Over
  <1>2. CASE Destroy /\ UNCHANGED exeVars
    BY <1>2, AloneKeeps DEF Destroy, exeVars, storage, Alone, Over, Building0
  <1>3. CASE checkEdges
    BY <1>3, AloneKeeps DEF checkEdges, AtStatement, exeVars, storage, Alone, Over, Building0
  <1>4. CASE Partition
    BY <1>4, AloneKeeps DEF Partition, Main, exeVars, storage, Alone, Over, Building0
  <1>5. CASE DotBegin
    BY <1>5, AloneKeeps DEF DotBegin, Main, storage, Alone, Over, Building0
  <1>6. CASE generate_edge_list
    BY <1>6, AloneKeeps DEF generate_edge_list, mapVars, storage, Alone, Over, Building0
  <1>7. CASE DotEnd
    BY <1>7, AloneKeeps DEF DotEnd, storage, Alone, Over, Building0
  <1> QED
    BY <1>1, <1>2, <1>3, <1>4, <1>5, <1>6, <1>7

-----------------------------------------------------------------------------
(* main() while exe() has threads.                                         *)

\* exe() starts the allocator's thread.
LEMMA SpawnKeeps ==
    ASSUME IInv, SpawnAllocator
    PROVE  IInv' /\ UNCHANGED deleted
  <1>1. /\ pc \in Alone /\ pc' = "wait"
        /\ UNCHANGED <<deleted, lock, sched, thread, para>>
    BY DEF SpawnAllocator, storage, Alone
  <1>2. /\ DOMAIN mem' = {"pc", "ready", "size_map", "collide", "copy"}
        /\ mem'.pc = "want_alloc" /\ ~mem'.ready
    BY DEF SpawnAllocator, NoThreads
  <1>3. Shape'
    BY <1>1, <1>2 DEF IInv, Shape, NoKernelsYet
  <1>4. MemPlace'
    BY <1>1, <1>2 DEF MemPlace, Executing, Alone, Building0
  <1>5. LockHeld'
    BY <1>1, <1>2 DEF IInv, MemPlace, LockHeld, NoKernelsYet, Monitoring
  <1>6. ThreadsJoined'
    BY <1>1 DEF IInv, ThreadsJoined, Resting, Executing, NoKernelsYet
  <1> QED
    BY <1>1, <1>3, <1>4, <1>5, <1>6 DEF IInv

\* The streams are ready, and the scheduler and the parallelism monitor start.
LEMMA ReadyKeeps ==
    ASSUME IInv, waitTillReady
    PROVE  IInv' /\ UNCHANGED deleted
  <1>1. /\ pc = "wait" /\ pc' = "join_sched" /\ mem.ready
        /\ UNCHANGED <<graph, deleted, lock, mem>>
        /\ para' \in {"check", "ended"}
    BY DEF waitTillReady, Main, storage
  <1>2. DOMAIN sched' = {"pc", "todo"} /\ sched'.pc = "spawning" /\ sched'.todo = graph.keeper.all
    BY DEF waitTillReady
  <1>3. \A k \in DOMAIN thread' : thread'[k] = "none"
    BY DEF waitTillReady
  <1>4. Shape'
    BY <1>1, <1>2 DEF IInv, Shape
  <1>5. MemPlace'
    BY <1>1 DEF IInv, MemPlace, Executing, Alone, Building0
  <1>6. LockHeld'
    BY <1>1 DEF IInv, LockHeld, NoKernelsYet, Alone, Building0
  <1>7. ThreadsJoined'
    BY <1>1, <1>2, <1>3 DEF ThreadsJoined, Resting, Executing, NoKernelsYet, Alone, Building0
  <1> QED
    BY <1>1, <1>4, <1>5, <1>6, <1>7 DEF IInv

\* exe() joins the scheduler's thread, and then the allocator's.
LEMMA JoinKeeps ==
    ASSUME IInv, JoinScheduler \/ JoinAllocator
    PROVE  IInv' /\ UNCHANGED deleted
  <1>1. /\ \/ pc = "join_sched" /\ pc' = "join_mem" /\ sched.pc = "ended"
           \/ pc = "join_mem" /\ pc' = "join_para" /\ mem.pc = "ended"
        /\ UNCHANGED <<graph, deleted, lock, mem, sched, thread, para>>
    BY DEF JoinScheduler, JoinAllocator, Main, storage
  <1>2. Shape'
    BY <1>1 DEF IInv, Shape
  <1>3. MemPlace'
    BY <1>1 DEF IInv, MemPlace, Executing, Alone, Building0
  <1>4. LockHeld'
    BY <1>1 DEF IInv, LockHeld, NoKernelsYet, Alone, Building0
  <1>5. ThreadsJoined'
    BY <1>1 DEF IInv, ThreadsJoined, Resting, Executing, NoKernelsYet, Alone, Building0
  <1> QED
    BY <1>1, <1>2, <1>3, <1>4, <1>5 DEF IInv

\* The streams are deleted when all threads are over, and main() goes on alone.
LEMMA ReturnAtRest ==
    ASSUME IInv, Return
    PROVE  AtRest
  <1>1. pc = "join_para" /\ para = "ended"
    BY DEF Return
  <1>2. mem.pc = "ended" /\ sched.pc = "ended" /\ Resting
    BY <1>1 DEF IInv, MemPlace, ThreadsJoined, Executing
  <1>3. lock = "free"
    BY <1>1, <1>2 DEF IInv, LockHeld, Monitoring
  <1> QED
    BY <1>1, <1>2, <1>3 DEF AtRest, Resting

\* main() goes on alone after exe(), perhaps to the next one.
LEMMA ReturnKeeps ==
    ASSUME IInv, Return
    PROVE  IInv'
  <1>1. /\ pc' = "main"
        /\ UNCHANGED <<lock, mem, sched, thread, para>>
    BY DEF Return, NextStatement
  <1>2. AtRest
    BY ReturnAtRest
  <1>3. Shape'
    BY <1>1 DEF IInv, Shape, NoKernelsYet, Alone, Building0
  <1>4. MemPlace'
    BY <1>1, <1>2 DEF IInv, AtRest, MemPlace, Executing
  <1>5. LockHeld'
    BY <1>1, <1>2 DEF IInv, AtRest, LockHeld
  <1>6. ThreadsJoined'
    BY <1>1, <1>2 DEF AtRest, ThreadsJoined, Resting, Executing
  <1> QED
    BY <1>3, <1>4, <1>5, <1>6 DEF IInv

-----------------------------------------------------------------------------
(* The threads of exe().                                                   *)

\* The allocator's thread while it makes the streams: main() waits for it, since
\* kernels are started only when it is ready.
LEMMA AllocatorKeeps ==
    ASSUME IInv, Alive, MemNext
    PROVE  IInv' /\ UNCHANGED deleted
  <1>0. /\ DOMAIN mem = {"pc", "ready", "size_map", "collide", "copy"}
        /\ pc \notin Alone /\ pc \in {"wait", "join_sched", "join_mem", "join_para"}
        /\ mem.pc # "ended" /\ pc # "join_para"
    <2>1. mem.pc \notin {"none", "ended"}
      BY DEF MemNext, MemGoesOn, MemAcquire, AllocVisit, AllocDone, MonitorCheck, MonitorVisit,
             MonitorDone, ResizeEnds, CopyFrom, SetBuffer
    <2> QED
      BY <2>1 DEF IInv, Shape, MemPlace, NoKernelsYet, Alive, Over
  <1> DEFINE Elsewhere == UNCHANGED <<deleted, sched, thread, para>> /\ DOMAIN mem' = DOMAIN mem
             Inside == UNCHANGED <<graph, pc>>
  <1>1. ASSUME Elsewhere, pc' = pc, MemPlace', LockHeld', graph' = graph \/ pc = "wait"
        PROVE  IInv' /\ UNCHANGED deleted
    <2>1. Shape'
      BY <1>1 DEF IInv, Shape
    <2>2. ThreadsJoined'
      BY <1>1 DEF IInv, ThreadsJoined, Resting, Executing
    <2> QED
      BY <1>1, <2>1, <2>2 DEF IInv
  <1>2. CASE MemAcquire
    <2>1. Elsewhere /\ Inside /\ lock = "free" /\ lock' = "mem" /\ mem'.ready = mem.ready
      BY <1>0, <1>2 DEF MemAcquire, Acquire, mapVars, storage
    <2>2. \/ mem.pc = "want_alloc" /\ mem'.pc = "allocating"
          \/ mem.pc = "want" /\ mem'.pc = "monitoring"
      BY <1>0, <1>2 DEF MemAcquire
    <2>3. MemPlace'
      BY <1>0, <2>1, <2>2 DEF IInv, MemPlace, Executing, Monitoring
    <2>4. LockHeld'
      BY <1>0, <2>1, <2>2 DEF IInv, LockHeld, Monitoring
    <2> QED
      BY <1>1, <2>1, <2>3, <2>4
  <1>3. CASE AllocVisit
    <2>1. Elsewhere /\ UNCHANGED <<mem, lock>> /\ pc' \in {pc, "terminated"} /\ mem.pc = "allocating"
      BY <1>3 DEF AllocVisit
    <2>2. ~mem.ready /\ pc = "wait"
      BY <1>0, <2>1 DEF IInv, MemPlace, Executing, Monitoring
    <2>3. MemPlace' /\ LockHeld'
      BY <2>1, <2>2 DEF IInv, MemPlace, LockHeld, Executing, Alone, Building0, NoKernelsYet
    <2>4. CASE pc' = "terminated"
      <3>1. Shape'
        BY <2>1, <2>4 DEF IInv, Shape, Over
      <3>2. ThreadsJoined'
        BY <2>4 DEF ThreadsJoined, Executing, NoKernelsYet, Alone, Building0
      <3> QED
        BY <2>1, <2>3, <3>1, <3>2 DEF IInv
    <2> QED
      BY <1>1, <2>1, <2>2, <2>3, <2>4
  <1>4. CASE AllocDone
    <2>1. Elsewhere /\ Inside /\ lock' = "free" /\ mem.pc = "allocating"
      BY <1>0, <1>4 DEF AllocDone, Release, mapVars, storage
    <2>2. mem'.pc \in {"check", "ended"} /\ mem'.ready
      BY <1>0, <1>4 DEF AllocDone
    <2>3. pc = "wait"
      BY <1>0, <2>1 DEF IInv, MemPlace, Executing, Monitoring
    <2>4. MemPlace' /\ LockHeld'
      BY <2>1, <2>2, <2>3 DEF IInv, MemPlace, LockHeld, Executing, Alone, Building0, Monitoring
    <2> QED
      BY <1>1, <2>1, <2>4
  <1>5. CASE MonitorCheck
    <2>1. Elsewhere /\ Inside /\ UNCHANGED lock /\ mem.pc = "check" /\ mem'.ready = mem.ready
      BY <1>0, <1>5 DEF MonitorCheck, mapVars, storage
    <2>2. mem'.pc \in {"want", "ended"}
      BY <1>0, <1>5 DEF MonitorCheck
    <2>3. MemPlace' /\ LockHeld'
      BY <1>0, <2>1, <2>2 DEF IInv, MemPlace, LockHeld, Executing, Monitoring
    <2> QED
      BY <1>1, <2>1, <2>3
  <1>6. CASE MonitorVisit \/ ResizeEnds \/ CopyFrom \/ SetBuffer
    <2>1. Elsewhere /\ Inside /\ UNCHANGED lock /\ mem'.ready = mem.ready
      BY <1>0, <1>6 DEF MonitorVisit, SetCount, ResizeEnds, CopyFrom, SetBuffer, mapVars, storage
    <2>2. mem.pc \in Monitoring /\ mem'.pc \in Monitoring
      BY <1>0, <1>6 DEF MonitorVisit, SetCount, ResizeEnds, CopyFrom, SetBuffer, Monitoring
    <2>3. MemPlace' /\ LockHeld'
      BY <1>0, <2>1, <2>2 DEF IInv, MemPlace, LockHeld, Executing, Monitoring
    <2> QED
      BY <1>1, <2>1, <2>3
  <1>7. CASE MonitorDone
    <2>1. Elsewhere /\ Inside /\ lock' = "free" /\ mem.pc = "monitoring"
          /\ mem'.pc = "check" /\ mem'.ready = mem.ready
      BY <1>0, <1>7 DEF MonitorDone, Release, mapVars, storage
    <2>2. MemPlace' /\ LockHeld'
      BY <1>0, <2>1 DEF IInv, MemPlace, LockHeld, Executing, Monitoring
    <2> QED
      BY <1>1, <2>1, <2>2
  <1> QED
    BY <1>2, <1>3, <1>4, <1>5, <1>6, <1>7 DEF MemNext, MemGoesOn

\* What a step of the scheduler or of a kernel leaves alone.
Apart == UNCHANGED <<deleted, lock, mem, para, graph>>

\* The scheduler's thread: it starts kernels of the map only, and is over when all
\* kernels of the map have been joined.
LEMMA SchedulerKeeps ==
    ASSUME IInv, Alive, SchedNext
    PROVE  IInv' /\ UNCHANGED deleted
  <1>0. /\ DOMAIN sched = {"pc", "todo"}
        /\ pc = "join_sched" /\ sched.pc # "ended"
    <2>1. sched.pc \notin {"none", "ended"}
      BY DEF SchedNext, StartThread, StoreLoc, Scheduled, AllTerminated, JoinThread
    <2> QED
      BY <2>1 DEF IInv, Shape, ThreadsJoined, NoKernelsYet, Alive, Over
  <1>1. Apart /\ pc' = pc
    BY DEF SchedNext, StartThread, StoreLoc, Scheduled, AllTerminated, JoinThread, Apart,
           mapVars, storage
  <1>2. /\ sched.todo \subseteq graph.keeper.all
        /\ \A k \in DOMAIN thread : thread[k] # "none" => k \in graph.keeper.all
    BY <1>0 DEF IInv, ThreadsJoined, Executing
  <1>3. /\ DOMAIN sched' = DOMAIN sched
        /\ sched'.todo \subseteq graph.keeper.all
        /\ \A k \in DOMAIN thread' : thread'[k] # "none" => k \in graph.keeper.all
        /\ sched'.pc = "ended" => Resting'
    <2>1. CASE StartThread
      <3>1. PICK k \in sched.todo : thread' = [thread EXCEPT ![k] = "started"]
        BY <2>1 DEF StartThread
      <3>2. sched' = [sched EXCEPT !.pc = "placing"]
        BY <2>1 DEF StartThread
      <3> QED
        BY <1>0, <1>2, <3>1, <3>2
    <2>2. CASE StoreLoc
      <3>1. PICK k \in sched.todo : sched' = [pc |-> "spawning", todo |-> sched.todo \ {k}]
        BY <2>2 DEF StoreLoc
      <3>2. thread' = thread
        BY <2>2 DEF StoreLoc
      <3> QED
        BY <1>0, <1>2, <3>1, <3>2
    <2>3. CASE Scheduled
      BY <1>0, <1>2, <2>3 DEF Scheduled
    <2>4. CASE AllTerminated
      <3>1. /\ \A k \in graph.keeper.all : thread[k] = "joined"
            /\ sched' = [sched EXCEPT !.pc = "ended"] /\ thread' = thread
        BY <2>4 DEF AllTerminated
      <3> QED
        BY <1>0, <1>2, <3>1 DEF Resting
    <2>5. CASE \E k \in DOMAIN thread : JoinThread(k)
      <3>1. PICK k \in DOMAIN thread : JoinThread(k)
        BY <2>5
      <3>2. /\ thread[k] = "ended" /\ thread' = [thread EXCEPT ![k] = "joined"]
            /\ sched' = sched
        BY <3>1 DEF JoinThread
      <3> QED
        BY <1>0, <1>2, <3>2
    <2> QED
      BY <2>1, <2>2, <2>3, <2>4, <2>5 DEF SchedNext
  <1>4. Shape' /\ MemPlace' /\ LockHeld'
    BY <1>1, <1>3 DEF IInv, Apart, Shape, MemPlace, LockHeld, Executing
  <1>5. ThreadsJoined'
    BY <1>0, <1>1, <1>3 DEF Apart, ThreadsJoined, Executing, NoKernelsYet, Alone, Building0
  <1> QED
    BY <1>1, <1>4, <1>5 DEF IInv, Apart

\* The thread of a kernel that has been started, which is only while exe() waits for
\* the scheduler.
LEMMA KernelsKeep ==
    ASSUME IInv, Alive, SomeKernelNext
    PROVE  IInv' /\ UNCHANGED deleted
  <1>1. PICK k \in DOMAIN thread : KernelNext(k)
    BY DEF SomeKernelNext
  <1>2. /\ thread[k] \in {"started", "running", "finished"}
        /\ thread' \in {thread, [thread EXCEPT ![k] = "running"], [thread EXCEPT ![k] = "blocked"],
                       [thread EXCEPT ![k] = "finished"], [thread EXCEPT ![k] = "ended"]}
        /\ Apart /\ sched' = sched /\ pc' \in {pc, "terminated"}
    BY <1>1 DEF KernelNext, BeginRun, Stop, Block, EndRun, Apart, mapVars, storage
  <1>3. pc = "join_sched" /\ sched.pc # "ended"
    <2>1. ~Resting
      BY <1>2 DEF Resting
    <2> QED
      BY <2>1 DEF IInv, Shape, ThreadsJoined, Executing, Alive, Over
  <1>4. \A j \in DOMAIN thread' : thread'[j] # "none" => j \in graph.keeper.all
    BY <1>2, <1>3 DEF IInv, ThreadsJoined, Executing
  <1>5. Shape' /\ MemPlace' /\ LockHeld'
    BY <1>2, <1>3 DEF IInv, Apart, Shape, MemPlace, LockHeld, Executing, Over,
                      NoKernelsYet, Alone, Building0
  <1>6. ThreadsJoined'
    BY <1>2, <1>3, <1>4 DEF IInv, Apart, ThreadsJoined, Executing, NoKernelsYet, Alone, Building0
  <1> QED
    BY <1>2, <1>5, <1>6 DEF IInv, Apart

\* The parallelism monitor's thread traverses the graph only with the lock.
LEMMA MonitorKeeps ==
    ASSUME IInv, Alive, ParaNext
    PROVE  IInv' /\ UNCHANGED deleted
  <1>1. /\ UNCHANGED <<deleted, mem, sched, thread, graph, pc>>
        /\ para \in {"check", "want", "walking"}
        /\ \/ para = "check" /\ para' \in {"want", "ended"} /\ lock' = lock
           \/ para = "want" /\ para' = "walking" /\ lock = "free" /\ lock' = "para"
           \/ para = "walking" /\ para' = "walking" /\ lock' = lock
           \/ para = "walking" /\ para' = "check" /\ lock = "para" /\ lock' = "free"
    BY DEF ParaNext, ParaCheck, ParaAcquire, ParaVisit, ParaDone, Acquire, Release, mapVars, storage
  <1>2. pc \notin NoKernelsYet
    BY <1>1 DEF IInv, LockHeld
  <1>3. Shape' /\ MemPlace' /\ ThreadsJoined'
    BY <1>1 DEF IInv, Shape, MemPlace, ThreadsJoined, Resting, Executing
  <1>4. LockHeld'
    BY <1>1, <1>2 DEF IInv, LockHeld
  <1> QED
    BY <1>1, <1>3, <1>4 DEF IInv

-----------------------------------------------------------------------------
(* The theorems.                                                           *)

\* The invariant holds when main() starts ...
LEMMA InitKeeps == Init => IInv
  BY DEF Init, MapInit, NoThreads, IInv, Shape, MemPlace, LockHeld, ThreadsJoined, Resting,
         Executing, NoKernelsYet, Alone, Building0, Monitoring

\* ... and after every step of every thread, of which only the end of exe() deletes
\* streams.
LEMMA StepKeeps ==
    ASSUME IInv, [Next]_vars
    PROVE  IInv' /\ (deleted' # deleted => AtRest)
  <1>1. CASE UNCHANGED vars
    BY <1>1 DEF vars, mapVars, exeVars, storage, IInv, Shape, MemPlace, LockHeld, ThreadsJoined,
                Resting, Executing
  <1>2. CASE Next
    <2>1. CASE MainNext
      <3>1. CASE ExeNext
        BY <3>1, ReadyKeeps, JoinKeeps, ReturnKeeps, ReturnAtRest DEF ExeNext
      <3> QED
        BY <2>1, <3>1, MainAlone, SpawnKeeps DEF MainNext
    <2> QED
      BY <1>2, <2>1, AllocatorKeeps, SchedulerKeeps, MonitorKeeps, KernelsKeep DEF Next
  <1> QED
    BY <1>1, <1>2

\* So it holds always.
LEMMA Invariance == Spec => []IInv
  <1>1. IInv /\ [Next]_vars => IInv'
    BY StepKeeps
  <1> QED
    BY <1>1, InitKeeps, PTL DEF Spec

\* The streams are deleted, at the end of exe(), only when the threads of the kernels,
\* of the scheduler, of the allocator and of the monitor are over (map.hpp, the joins
\* and the destructors at the end of exe()).
THEOREM StreamsFreedAtRest == Spec => FreedAtRest
  <1>1. IInv /\ [Next]_vars => [deleted' # deleted => AtRest]_vars
    BY StepKeeps
  <1> QED
    BY <1>1, Invariance, PTL DEF Spec, FreedAtRest

\* Who may be in a traversal, and when.
TraversalsExclude ==
    /\ ~(mem.pc \in {"allocating"} \cup Monitoring /\ para = "walking")
    /\ mem.pc = "allocating" => Resting \/ ~Alive

\* The allocator's monitor and the parallelism monitor never traverse the graph at
\* the same time, and no kernel runs while the streams are being made.
THEOREM OneTraversal == Spec => []TraversalsExclude
  <1>1. IInv => TraversalsExclude
    BY DEF IInv, Shape, MemPlace, LockHeld, ThreadsJoined, TraversalsExclude, Alive, Executing,
           NoKernelsYet, Over, Monitoring
  <1> QED
    BY <1>1, Invariance, PTL
=============================================================================
