------------------------------ MODULE Schedule ------------------------------
(***************************************************************************)
(* Running a graph of kernels to its end (src/schedule.cpp, with           *)
(* src/simpleschedule.cpp or src/poolschedule.cpp).                        *)
(*                                                                         *)
(* Every kernel has a thread that calls kernelRun again and again: look    *)
(* for input data, call run() if there is any, then look whether all input *)
(* streams are closed and drained and, if so, close the output streams and *)
(* finish.  The scheduler's own thread starts the kernels and waits for    *)
(* them.  The look at a port is a step of its own, for the kernels on the  *)
(* other side of the ports go on meanwhile.                                *)
(*                                                                         *)
(* A stream is the number of items in it and whether it is still valid;    *)
(* what the calls on one stream do is the subject of RingBufferHeap.  What *)
(* a kernel's run() does is up to the user: here it takes one item from    *)
(* each of its inputs (all_port) or from one that has some (any_port),     *)
(* sends one to each of its outputs, and returns raft::stop after a given  *)
(* number of calls, or never.                                              *)
(***************************************************************************)
EXTENDS Naturals, Sequences

CONSTANTS
    NumKernels,     \* kernels are numbered in the order of kernel_set
    Stream,
    In, Out,        \* the ports of each kernel, in the order of iteration
    Cap,            \* capacity of every stream
    StopAfter,      \* the call of run() that returns raft::stop; 0: none
    Schedulers      \* which of "simple" and "pool" the application is built with

Kernel == 1 .. NumKernels
InStreams(k) == {In[k][i] : i \in DOMAIN In[k]}
OutStreams(k) == {Out[k][i] : i \in DOMAIN Out[k]}

ASSUME GraphAssumption ==
    /\ NumKernels \in Nat
    /\ In \in [Kernel -> Seq(Stream)]
    /\ Out \in [Kernel -> Seq(Stream)]
    /\ \A k, l \in Kernel : k # l => /\ InStreams(k) \cap InStreams(l) = {}
                                     /\ OutStreams(k) \cap OutStreams(l) = {}
ASSUME CapAssumption == Cap \in Nat \ {0}
ASSUME StopAssumption == StopAfter \in [Kernel -> Nat]
ASSUME SchedulersAssumption == Schedulers \subseteq {"simple", "pool"}

VARIABLES
    size, is_valid,     \* of each stream
    sched_behav,        \* of each kernel, "any_port" or "all_port"; never changes
    pc,                 \* what the kernel's thread does next
    port,               \* the port that a loop over ports has come to
    again,              \* kernelHasInputData is called for the second time
    fired,              \* how often run() was called
    finished,           \* of each kernel
    class,                          \* which scheduler it is; never changes
    spc, next, keep_going, term     \* the scheduler's thread, in start()

streams == <<size, is_valid>>
kernels == <<pc, port, again, fired, finished>>
scheduler == <<spc, next, keep_going, term>>
fixed == <<sched_behav, class>>
vars == <<streams, fixed, kernels, scheduler>>

Init ==
    /\ size = [s \in Stream |-> 0]
    /\ is_valid = [s \in Stream |-> TRUE]
    /\ sched_behav \in [Kernel -> {"any_port", "all_port"}]
    /\ pc = [k \in Kernel |-> "none"]
    /\ port = [k \in Kernel |-> 1]
    /\ again = [k \in Kernel |-> FALSE]
    /\ fired = [k \in Kernel |-> 0]
    /\ finished = [k \in Kernel |-> FALSE]
    /\ class \in Schedulers
    /\ spc = "spawn"
    /\ next = 1
    /\ keep_going = FALSE
    /\ term = {}

\* Kernel k goes on at label, with the first port of any loop there.
Goto(k, label) ==
    /\ pc' = [pc EXCEPT ![k] = label]
    /\ port' = [port EXCEPT ![k] = 1]

\* Kernel k goes on with the next port of its loop.
NextPort(k) ==
    /\ port' = [port EXCEPT ![k] = @ + 1]
    /\ UNCHANGED pc

\* What size() may return to the reader of s: while the writer is between the
\* two stores of Pointer::inc a full queue may look empty.
Publishing(s) == \E k \in Kernel : pc[k] = "publish" /\ Out[k][port[k]] = s
Sizes(s) == {size[s]} \cup (IF size[s] = Cap /\ Publishing(s) THEN {0} ELSE {})

-----------------------------------------------------------------------------
(* kernelRun.                                                              *)

\* kernelHasInputData has found its answer; which call of it was this?
Decide(k, has_data) ==
    Goto(k, IF again[k] THEN IF has_data THEN "gc" ELSE "invalidate"
                        ELSE IF has_data THEN "run" ELSE "valid")

\* A kernel without inputs is always run.
NoInputs(k) ==
    /\ pc[k] = "data"
    /\ In[k] = <<>>
    /\ Decide(k, TRUE)
    /\ UNCHANGED <<streams, fixed, again, fired, finished, scheduler>>

\* Mutant: a kernel that needs all ports is run if the first has data.
KernelHasInputData_firstPort(k) ==
    /\ pc[k] = "data"
    /\ In[k] # <<>>
    /\ \E found \in Sizes(In[k][port[k]]) :
          IF found > 0 \/ port[k] = Len(In[k]) THEN Decide(k, found > 0) ELSE NextPort(k)
    /\ UNCHANGED <<streams, fixed, again, fired, finished, scheduler>>

\* One port of kernelHasInputData: the first port with data decides for any_port,
\* the first without for all_port, else the last one.
KernelHasInputData(k) ==
    /\ pc[k] = "data"
    /\ In[k] # <<>>
    /\ \E found \in Sizes(In[k][port[k]]) :
          IF found > 0 <=> sched_behav[k] = "any_port"
          THEN Decide(k, found > 0)
          ELSE IF port[k] = Len(In[k]) THEN Decide(k, found > 0) ELSE NextPort(k)
    /\ UNCHANGED <<streams, fixed, again, fired, finished, scheduler>>

\* The c-th call of k's run() returns raft::stop.
Stops(k, c) == StopAfter[k] # 0 /\ c = StopAfter[k]

\* run() returns raft::stop or raft::proceed.
RunReturns(k) == Goto(k, IF Stops(k, fired'[k]) THEN "invalidate" ELSE "valid")

\* run() takes its input.  (A kernel that never stops need not be counted.)
Run(k) ==
    /\ pc[k] = "run"
    /\ \/ /\ sched_behav[k] = "all_port" \/ In[k] = <<>>
          /\ \A s \in InStreams(k) : size[s] > 0
          /\ size' = [s \in Stream |-> IF s \in InStreams(k) THEN size[s] - 1 ELSE size[s]]
       \/ /\ sched_behav[k] = "any_port"
          /\ \E s \in InStreams(k) : size[s] > 0 /\ size' = [size EXCEPT ![s] = @ - 1]
    /\ fired' = IF StopAfter[k] = 0 THEN fired ELSE [fired EXCEPT ![k] = @ + 1]
    /\ IF Out[k] = <<>> THEN RunReturns(k) ELSE Goto(k, "push")
    /\ UNCHANGED <<is_valid, fixed, again, finished, scheduler>>

\* Mutant: the producer does not wait for space.
Push_unguarded(k) ==
    /\ pc[k] = "push"
    /\ size' = [size EXCEPT ![Out[k][port[k]]] = @ + 1]
    /\ pc' = [pc EXCEPT ![k] = "publish"]
    /\ UNCHANGED <<is_valid, fixed, port, again, fired, finished, scheduler>>

\* run() sends its output to one port after the other, waiting for space.
Push(k) ==
    /\ pc[k] = "push"
    /\ size[Out[k][port[k]]] < Cap
    /\ size' = [size EXCEPT ![Out[k][port[k]]] = @ + 1]
    /\ pc' = [pc EXCEPT ![k] = "publish"]
    /\ UNCHANGED <<is_valid, fixed, port, again, fired, finished, scheduler>>

Publish(k) ==
    /\ pc[k] = "publish"
    /\ UNCHANGED fired
    /\ \/ /\ port[k] < Len(Out[k])
          /\ pc' = [pc EXCEPT ![k] = "push"]
          /\ port' = [port EXCEPT ![k] = @ + 1]
       \/ /\ port[k] = Len(Out[k])
          /\ RunReturns(k)
    /\ UNCHANGED <<streams, fixed, again, finished, scheduler>>

\* Mutant: the data are not looked for again once all ports are found closed.
KernelHasNoInputPorts_noRecheck(k) ==
    /\ pc[k] = "valid"
    /\ \/ /\ In[k] # <<>> /\ is_valid[In[k][port[k]]]
          /\ Goto(k, "gc")
          /\ UNCHANGED again
       \/ /\ In[k] # <<>> /\ ~is_valid[In[k][port[k]]] /\ port[k] < Len(In[k])
          /\ NextPort(k)
          /\ UNCHANGED again
       \/ /\ In[k] # <<>> /\ ~is_valid[In[k][port[k]]] /\ port[k] = Len(In[k])
          /\ again' = [again EXCEPT ![k] = TRUE]
          /\ Goto(k, "invalidate")
       \/ /\ In[k] = <<>>
          /\ again' = [again EXCEPT ![k] = TRUE]
          /\ Goto(k, "data")
    /\ UNCHANGED <<streams, fixed, fired, finished, scheduler>>

\* One port of kernelHasNoInputPorts.  A port that is valid ends it; after the
\* last one (there may be none) the data are looked for again.
KernelHasNoInputPorts(k) ==
    /\ pc[k] = "valid"
    /\ \/ /\ In[k] # <<>> /\ is_valid[In[k][port[k]]]
          /\ Goto(k, "gc")
          /\ UNCHANGED again
       \/ /\ In[k] # <<>> /\ ~is_valid[In[k][port[k]]] /\ port[k] < Len(In[k])
          /\ NextPort(k)
          /\ UNCHANGED again
       \/ /\ In[k] # <<>> => ~is_valid[In[k][port[k]]] /\ port[k] = Len(In[k])
          /\ again' = [again EXCEPT ![k] = TRUE]
          /\ Goto(k, "data")
    /\ UNCHANGED <<streams, fixed, fired, finished, scheduler>>

\* Mutant: only the first output port is closed.
InvalidateOutputPorts_firstPort(k) ==
    /\ pc[k] = "invalidate"
    /\ is_valid' = IF Out[k] = <<>> THEN is_valid ELSE [is_valid EXCEPT ![Out[k][1]] = FALSE]
    /\ finished' = [finished EXCEPT ![k] = TRUE]
    /\ Goto(k, IF again[k] THEN "gc" ELSE "valid")
    /\ UNCHANGED <<size, fixed, again, fired, scheduler>>

\* Mutant: the kernel is not marked as finished when run() returns raft::stop.
InvalidateOutputPorts_goesOn(k) ==
    /\ pc[k] = "invalidate"
    /\ is_valid' = IF Out[k] = <<>> THEN is_valid
                   ELSE [is_valid EXCEPT ![Out[k][port[k]]] = FALSE]
    /\ IF port[k] < Len(Out[k])
       THEN NextPort(k) /\ UNCHANGED finished
       ELSE /\ finished' = [finished EXCEPT ![k] = again[k]]
            /\ Goto(k, IF again[k] THEN "gc" ELSE "valid")
    /\ UNCHANGED <<size, fixed, again, fired, scheduler>>

\* One port of invalidateOutputPorts; after the last one the kernel is finished.
\* If that was because run() said so, kernelRun still goes on to look at the ports.
InvalidateOutputPorts(k) ==
    /\ pc[k] = "invalidate"
    /\ is_valid' = IF Out[k] = <<>> THEN is_valid
                   ELSE [is_valid EXCEPT ![Out[k][port[k]]] = FALSE]
    /\ IF port[k] < Len(Out[k])
       THEN NextPort(k) /\ UNCHANGED finished
       ELSE /\ finished' = [finished EXCEPT ![k] = TRUE]
            /\ Goto(k, IF again[k] THEN "gc" ELSE "valid")
    /\ UNCHANGED <<size, fixed, again, fired, scheduler>>

\* The thread's loop: fifo_gc, then kernelRun again unless the kernel has finished.
EndLoop(k) ==
    /\ pc[k] = "gc"
    /\ Goto(k, IF finished[k] THEN "ended" ELSE "data")
    /\ again' = [again EXCEPT ![k] = FALSE]
    /\ UNCHANGED <<streams, fixed, fired, finished, scheduler>>

-----------------------------------------------------------------------------
(* start().                                                                *)

\* handleSchedule for one kernel after the other: its thread begins at once.
Spawn ==
    /\ spc = "spawn"
    /\ \/ /\ next <= NumKernels
          /\ pc' = [pc EXCEPT ![next] = "data"]
          /\ next' = next + 1
          /\ UNCHANGED spc
       \/ /\ next > NumKernels
          /\ spc' = "scan"
          /\ next' = 1
          /\ UNCHANGED pc
    /\ UNCHANGED <<streams, fixed, port, again, fired, finished, keep_going, term>>

\* Mutant: a kernel that is still running does not keep the loop going.
ScanSimple_gives_up ==
    /\ spc = "scan" /\ class = "simple"
    /\ next <= NumKernels
    /\ \/ /\ next \notin term /\ finished[next]
          /\ spc' = "join"
          /\ UNCHANGED <<next, keep_going>>
       \/ /\ next \in term \/ ~finished[next]
          /\ next' = next + 1
          /\ keep_going' = FALSE
          /\ UNCHANGED spc
    /\ UNCHANGED <<streams, fixed, kernels, term>>

\* simple_schedule looks at each thread that it has not joined yet.
ScanSimple ==
    /\ spc = "scan" /\ class = "simple"
    /\ next <= NumKernels
    /\ \/ /\ next \notin term /\ finished[next]
          /\ spc' = "join"
          /\ UNCHANGED <<next, keep_going>>
       \/ /\ next \in term \/ ~finished[next]
          /\ next' = next + 1
          /\ keep_going' = (keep_going \/ next \notin term)
          /\ UNCHANGED spc
    /\ UNCHANGED <<streams, fixed, kernels, term>>

\* join() returns when the thread has ended.
Join ==
    /\ spc = "join"
    /\ pc[next] = "ended"
    /\ term' = term \cup {next}
    /\ next' = next + 1
    /\ spc' = "scan"
    /\ UNCHANGED <<streams, fixed, kernels, keep_going>>

\* pool_schedule looks at the kernels without outputs, and begins again at the
\* first that is not finished.  Its threads set their flag as they end.
ScanPool ==
    /\ spc = "scan" /\ class = "pool"
    /\ next <= NumKernels
    /\ next' = IF Out[next] = <<>> /\ pc[next] # "ended" THEN 1 ELSE next + 1
    /\ UNCHANGED <<streams, fixed, kernels, spc, keep_going, term>>

\* The end of a scan: once more, or start() returns.
EndScan ==
    /\ spc = "scan"
    /\ next > NumKernels
    /\ next' = 1
    /\ keep_going' = FALSE
    /\ spc' = IF keep_going THEN "scan" ELSE "returned"
    /\ UNCHANGED <<streams, fixed, kernels, term>>

-----------------------------------------------------------------------------
KernelNext(k) ==
    \/ NoInputs(k) \/ KernelHasInputData(k) \/ Run(k) \/ Push(k) \/ Publish(k)
    \/ KernelHasNoInputPorts(k) \/ InvalidateOutputPorts(k) \/ EndLoop(k)

SchedulerNext == Spawn \/ ScanSimple \/ Join \/ ScanPool \/ EndScan

Next == SchedulerNext \/ \E k \in Kernel : KernelNext(k)

Spec == Init /\ [][Next]_vars

\* Every kernel's thread and the scheduler's keep running; all waits are loops.
FairSpec == Spec /\ WF_vars(SchedulerNext) /\ \A k \in Kernel : WF_vars(KernelNext(k))

-----------------------------------------------------------------------------
(* Properties.                                                             *)

Label == {"none", "data", "run", "push", "publish", "valid", "invalidate", "gc", "ended"}

\* The type of every variable.
Types ==
    /\ size \in [Stream -> 0 .. Cap]
    /\ is_valid \in [Stream -> BOOLEAN]
    /\ sched_behav \in [Kernel -> {"any_port", "all_port"}]
    /\ pc \in [Kernel -> Label]
    /\ port \in [Kernel -> Nat \ {0}]
    /\ again \in [Kernel -> BOOLEAN]
    /\ fired \in [Kernel -> Nat]
    /\ finished \in [Kernel -> BOOLEAN]
    /\ class \in {"simple", "pool"}
    /\ spc \in {"spawn", "scan", "join", "returned"}
    /\ next \in 1 .. NumKernels + 1
    /\ keep_going \in BOOLEAN
    /\ term \subseteq Kernel

\* A loop over ports is at a port that exists.
PortExists(k) ==
    /\ pc[k] = "none" => port[k] = 1
    /\ pc[k] \in {"push", "publish"} => port[k] \in 1 .. Len(Out[k])
    /\ pc[k] \in {"data", "valid"} /\ In[k] # <<>> => port[k] \in 1 .. Len(In[k])
    /\ pc[k] = "invalidate" /\ Out[k] # <<>> => port[k] \in 1 .. Len(Out[k])

\* Every variable has its type; no stream holds more than its capacity; and
\* every loop over ports is at one of the ports of its kernel.
TypeOK == Types /\ \A k \in Kernel : PortExists(k)

\* run() is called only when there is what its kernel waits for: some data on
\* every input, or (any_port) on one of them.  The ports are looked at one after
\* the other, long before run() takes from them (schedule.cpp, kernelHasInputData).
PromisedDataIsThere ==
    \A k \in Kernel : pc[k] = "run" /\ In[k] # <<>> =>
        IF sched_behav[k] = "all_port" THEN \A s \in InStreams(k) : size[s] > 0
                                       ELSE \E s \in InStreams(k) : size[s] > 0

\* A kernel that finishes because its inputs have ended misses nothing: all its
\* inputs are closed and, for good, at least one (any_port: every one) is empty.
\* "must recheck data items again after port valid check, there could have been
\* a push between these two conditional statements" (schedule.cpp:231).
NothingMissed ==
    \A k \in Kernel : finished[k] /\ ~Stops(k, fired[k]) =>
        /\ \A s \in InStreams(k) : ~is_valid[s]
        /\ IF sched_behav[k] = "all_port" THEN \E s \in InStreams(k) : size[s] = 0
                                          ELSE \A s \in InStreams(k) : size[s] = 0

\* A stream that has been closed only drains: no kernel sends after it has
\* closed its outputs, although its thread goes on for a while.
ClosedStreamsDrain == [][\A s \in Stream : ~is_valid[s] => size'[s] <= size[s] /\ ~is_valid'[s]]_vars

\* When start() has returned no kernel touches a stream any more: the kernels are
\* run "until execution is complete" (poolschedule.hpp:6), and map::exe takes the
\* return for "scheduler done, cleanup alloc" (map.hpp:167).
UsesStream(k) ==
    \/ pc[k] \in {"data", "valid"} /\ In[k] # <<>>
    \/ pc[k] \in {"run", "push", "publish"}
    \/ pc[k] = "invalidate" /\ Out[k] # <<>>
StreamsOutliveKernels == spc = "returned" => \A k \in Kernel : ~UsesStream(k)

\* simple_schedule returns only when every kernel's thread has ended, although it
\* looks at them one after the other while they go on.
SimpleJoinsAll == class = "simple" /\ spc = "returned" => \A k \in Kernel : pc[k] = "ended"

\* The application ends: the end of the sources travels through the graph, every
\* kernel finishes, and start() returns.
ApplicationEnds == <>(spc = "returned")
=============================================================================
