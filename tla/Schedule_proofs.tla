--------------------------- MODULE Schedule_proofs ---------------------------
(***************************************************************************)
(* Proofs about Schedule, for every graph in which a stream has at most    *)
(* one reader and one writer, every capacity and either scheduler.         *)
(*                                                                         *)
(* What a kernel found out about its ports, one at a time, has to hold     *)
(* still when it acts on it: data do not go away since only the kernel     *)
(* itself takes them, and a stream that is closed gets no more since its   *)
(* writer has closed it.  So the invariant is a conjunction of what each   *)
(* kernel knows, and the proof has two halves: a step of a kernel keeps    *)
(* what the others know (Frame), and each action leaves its own kernel     *)
(* with what it claims to know.                                            *)
(***************************************************************************)
EXTENDS Schedule, TLAPS

\* All inputs of k are closed; they are drained, as far as k cares.
Closed(k) == \A s \in InStreams(k) : ~is_valid[s]
Drained(k) ==
    IF sched_behav[k] = "all_port" THEN \E s \in InStreams(k) : size[s] = 0
                                   ELSE \A s \in InStreams(k) : size[s] = 0

\* What a look for data has found: at all ports so far (all_port), in the end.
DataFound(k) ==
    /\ pc[k] = "data" /\ In[k] # <<>> /\ sched_behav[k] = "all_port" =>
          \A i \in 1 .. port[k] - 1 : size[In[k][i]] > 0
    /\ pc[k] = "run" /\ In[k] # <<>> =>
          IF sched_behav[k] = "all_port" THEN \A s \in InStreams(k) : size[s] > 0
                                         ELSE \E s \in InStreams(k) : size[s] > 0

\* What the look for closed ports and the second look for data have found, and
\* why the outputs are being closed.
EndFound(k) ==
    /\ again[k] => pc[k] \in {"data", "invalidate", "gc"}
    /\ pc[k] = "valid" /\ In[k] # <<>> =>
          \A i \in 1 .. port[k] - 1 : ~is_valid[In[k][i]]
    /\ pc[k] = "data" /\ again[k] => Closed(k)
    /\ pc[k] = "data" /\ again[k] /\ In[k] # <<>> /\ sched_behav[k] = "any_port" =>
          \A i \in 1 .. port[k] - 1 : size[In[k][i]] = 0
    /\ pc[k] = "invalidate" /\ again[k] => Closed(k) /\ Drained(k)
    /\ pc[k] = "invalidate" /\ ~again[k] => Stops(k, fired[k])
    /\ finished[k] /\ ~Stops(k, fired[k]) => Closed(k) /\ Drained(k)

\* A kernel that has closed an output is on its way out, and so is one that has
\* finished: it does not come to run() again.
Leaving(k) ==
    \/ pc[k] = "invalidate"
    \/ pc[k] = "data" /\ again[k] /\ finished[k]
    \/ pc[k] \in {"valid", "gc", "ended"} /\ finished[k]
WriterLeaves(k) ==
    /\ finished[k] => Leaving(k)
    /\ \A s \in OutStreams(k) : ~is_valid[s] => Leaving(k)

KernelInv(k) == PortExists(k) /\ DataFound(k) /\ EndFound(k) /\ WriterLeaves(k)

\* What the scheduler's thread knows about the others.
ThreadsJoined ==
    /\ \A k \in term : pc[k] = "ended"
    /\ spc = "spawn" => \A k \in Kernel : k >= next => pc[k] = "none"
    /\ spc = "join" => next \in Kernel
    /\ class = "simple" /\ spc \in {"scan", "join"} /\ ~keep_going =>
          \A k \in Kernel : k < next => k \in term
    /\ class = "simple" /\ spc = "returned" => Kernel \subseteq term

IInv ==
    /\ Types
    /\ \A k \in Kernel : KernelInv(k)
    /\ ThreadsJoined

-----------------------------------------------------------------------------
(* The graph.                                                              *)

\* The ports of a kernel are streams, and a loop over the ports is a loop over
\* the kernel's streams.
LEMMA Ports ==
    ASSUME NEW k \in Kernel
    PROVE  /\ In[k] \in Seq(Stream) /\ Out[k] \in Seq(Stream)
           /\ Len(In[k]) \in Nat /\ Len(Out[k]) \in Nat
           /\ In[k] # <<>> => Len(In[k]) >= 1
           /\ Out[k] # <<>> => Len(Out[k]) >= 1
           /\ In[k] = <<>> => InStreams(k) = {}
           /\ Out[k] = <<>> => Len(Out[k]) = 0
           /\ InStreams(k) \subseteq Stream /\ OutStreams(k) \subseteq Stream
           /\ \A i \in 1 .. Len(In[k]) : In[k][i] \in InStreams(k)
           /\ \A i \in 1 .. Len(Out[k]) : Out[k][i] \in OutStreams(k)
           /\ \A s \in InStreams(k) : \E i \in 1 .. Len(In[k]) : s = In[k][i]
<1>1. In[k] \in Seq(Stream) /\ Out[k] \in Seq(Stream)
  BY GraphAssumption
<1>2. /\ Len(In[k]) \in Nat /\ Len(Out[k]) \in Nat
      /\ DOMAIN In[k] = 1 .. Len(In[k]) /\ DOMAIN Out[k] = 1 .. Len(Out[k])
      /\ \A i \in 1 .. Len(In[k]) : In[k][i] \in Stream
      /\ \A i \in 1 .. Len(Out[k]) : Out[k][i] \in Stream
  BY <1>1
<1>3. /\ In[k] # <<>> => Len(In[k]) >= 1
      /\ Out[k] # <<>> => Len(Out[k]) >= 1
      /\ In[k] = <<>> => Len(In[k]) = 0
      /\ Out[k] = <<>> => Len(Out[k]) = 0
  BY <1>1, <1>2
<1>4. QED
  BY <1>1, <1>2, <1>3 DEF InStreams, OutStreams

\* A stream has one reader and one writer.
LEMMA OneReaderOneWriter ==
    ASSUME NEW k \in Kernel, NEW l \in Kernel, k # l
    PROVE  \A s : /\ ~(s \in InStreams(k) /\ s \in InStreams(l))
                  /\ ~(s \in OutStreams(k) /\ s \in OutStreams(l))
  BY GraphAssumption

-----------------------------------------------------------------------------
(* A step of one kernel, as the others see it.                             *)

Others(k) ==
    \A l \in Kernel : l # k =>
        /\ pc'[l] = pc[l] /\ port'[l] = port[l] /\ again'[l] = again[l]
        /\ fired'[l] = fired[l] /\ finished'[l] = finished[l]

\* Only data that are there are taken, only by a stream's reader, and none are
\* sent by a writer that is on its way out.
SizeMoves(k, s) ==
    \/ size'[s] = size[s]
    \/ s \in InStreams(k) /\ size[s] > 0 /\ size'[s] < size[s]
    \/ s \in OutStreams(k) /\ ~Leaving(k) /\ size'[s] > size[s]

\* Streams are closed by their writer and stay closed.
ValidMoves(k, s) ==
    \/ is_valid'[s] = is_valid[s]
    \/ s \in OutStreams(k) /\ ~is_valid'[s]

Frame(k) ==
    /\ sched_behav' = sched_behav
    /\ Others(k)
    /\ \A s \in Stream : SizeMoves(k, s) /\ ValidMoves(k, s)

\* A step of kernel k within its frame keeps what every other kernel believes.
LEMMA FrameKeepsOthers ==
    ASSUME NEW k \in Kernel, NEW l \in Kernel, k # l,
           Types, Types', KernelInv(k), KernelInv(l), Frame(k)
    PROVE  KernelInv(l)'
<1> DEFINE S == InStreams(l)
<1>0. /\ S \subseteq Stream /\ OutStreams(l) \subseteq Stream
      /\ \A i \in 1 .. Len(In[l]) : In[l][i] \in S
      /\ Len(In[l]) \in Nat
  BY Ports
<1>02. ASSUME pc[l] \in {"data", "valid"}, In[l] # <<>>
       PROVE  \A i \in 1 .. port[l] - 1 : In[l][i] \in S
  <2>1. port[l] \in 1 .. Len(In[l])
    BY <1>02 DEF KernelInv, PortExists
  <2>2. QED
    BY <1>0, <2>1
<1>1. /\ pc'[l] = pc[l] /\ port'[l] = port[l] /\ again'[l] = again[l]
      /\ fired'[l] = fired[l] /\ finished'[l] = finished[l]
      /\ sched_behav'[l] = sched_behav[l]
  BY DEF Frame, Others
<1>2. \A s \in S : size[s] > 0 => size'[s] > 0
  <2> SUFFICES ASSUME NEW s \in S, size[s] > 0 PROVE size'[s] > 0
    OBVIOUS
  <2>1. s \notin InStreams(k)
    BY OneReaderOneWriter
  <2>2. size[s] \in Nat /\ size'[s] \in Nat
    BY <1>0 DEF Types
  <2>3. QED
    BY <1>0, <2>1, <2>2 DEF Frame, SizeMoves
<1>3. \A s \in S : ~is_valid[s] => ~is_valid'[s]
  BY <1>0 DEF Frame, ValidMoves
<1>4. \A s \in S : ~is_valid[s] /\ size[s] = 0 => size'[s] = 0
  BY <1>0 DEF Frame, SizeMoves, KernelInv, WriterLeaves
<1>5. PortExists(l)'
  BY <1>1 DEF KernelInv, PortExists
<1>6. DataFound(l)'
  BY <1>1, <1>2, <1>02 DEF KernelInv, DataFound
<1>7. Closed(l) => Closed(l)'
  BY <1>3 DEF Closed
<1>8. Closed(l) /\ Drained(l) => Drained(l)'
  BY <1>1, <1>4 DEF Closed, Drained
<1>9. EndFound(l)'
  <2>2. Stops(l, fired'[l]) <=> Stops(l, fired[l])
    BY <1>1
  <2>3. ASSUME pc[l] = "data", again[l], In[l] # <<>>, sched_behav[l] = "any_port"
        PROVE  \A i \in 1 .. port[l] - 1 : size'[In[l][i]] = 0
    BY <1>4, <1>02, <2>3 DEF KernelInv, EndFound, Closed
  <2>4. ASSUME pc[l] = "valid", In[l] # <<>>
        PROVE  \A i \in 1 .. port[l] - 1 : ~is_valid'[In[l][i]]
    BY <1>3, <1>02, <2>4 DEF KernelInv, EndFound
  <2>5. QED
    BY <1>1, <1>7, <1>8, <2>2, <2>3, <2>4 DEF KernelInv, EndFound
<1>10. WriterLeaves(l)'
  <2>1. \A s \in OutStreams(l) : is_valid'[s] = is_valid[s]
    BY <1>0, OneReaderOneWriter DEF Frame, ValidMoves
  <2>2. Leaving(l)' <=> Leaving(l)
    BY <1>1 DEF Leaving
  <2>3. QED
    BY <1>1, <2>1, <2>2 DEF KernelInv, WriterLeaves
<1>11. QED
  BY <1>5, <1>6, <1>9, <1>10 DEF KernelInv

-----------------------------------------------------------------------------
(* The actions of a kernel: each keeps the types and the frame, and leaves *)
(* its own kernel with its part of the invariant.                          *)

Good(k) == Types' /\ Frame(k) /\ KernelInv(k)'

\* A step of kernel k that changes neither size nor is_valid.
LEMMA LocalStep ==
    ASSUME IInv, NEW k \in Kernel,
           pc' \in [Kernel -> Label], port' \in [Kernel -> Nat \ {0}],
           again' \in [Kernel -> BOOLEAN], Others(k),
           UNCHANGED <<streams, fixed, fired, finished, scheduler>>
    PROVE  Types' /\ Frame(k)
<1>1. Types'
  BY DEF IInv, Types, streams, fixed, scheduler
<1>2. Frame(k)
  BY DEF Frame, SizeMoves, ValidMoves, streams, fixed
<1>3. QED
  BY <1>1, <1>2

\* A kernel without inputs goes on at once: to run(), or to the end of the turn.
LEMMA NoInputsStep ==
    ASSUME IInv, NEW k \in Kernel, NoInputs(k)
    PROVE  Good(k)
<1> DEFINE label == IF again[k] THEN "gc" ELSE "run"
<1>1. Types /\ KernelInv(k)
  BY DEF IInv
<1>2. /\ pc[k] = "data" /\ In[k] = <<>>
      /\ pc' = [pc EXCEPT ![k] = label] /\ port' = [port EXCEPT ![k] = 1]
      /\ UNCHANGED <<streams, fixed, again, fired, finished, scheduler>>
  BY DEF NoInputs, Decide, Goto
<1>3. /\ pc' \in [Kernel -> Label] /\ port' \in [Kernel -> Nat \ {0}]
      /\ again' \in [Kernel -> BOOLEAN]
      /\ pc'[k] = label /\ port'[k] = 1 /\ again'[k] = again[k]
      /\ Others(k)
  BY <1>1, <1>2 DEF Types, Label, Others
<1>4. Types' /\ Frame(k)
  BY <1>2, <1>3, LocalStep
<1>5. size' = size /\ is_valid' = is_valid /\ fired' = fired /\ finished' = finished
  BY <1>2 DEF streams
<1>6. PortExists(k)' /\ DataFound(k)'
  BY <1>2, <1>3 DEF PortExists, DataFound
<1>7. EndFound(k)'
  BY <1>1, <1>2, <1>3, <1>4, <1>5 DEF EndFound, KernelInv, Closed, Drained, Stops, Frame
<1>8. WriterLeaves(k)'
  BY <1>1, <1>2, <1>3, <1>5 DEF WriterLeaves, KernelInv, Leaving
<1>9. QED
  BY <1>4, <1>6, <1>7, <1>8 DEF Good, KernelInv

\* The size of a stream that is closed, and a size that is not zero, are exact.
LEMMA SizesExact ==
    ASSUME IInv, NEW s \in Stream, NEW found \in Sizes(s)
    PROVE  /\ found \in Nat
           /\ found > 0 => size[s] = found
           /\ ~is_valid[s] => size[s] = found
<1>1. size[s] \in Nat
  BY CapAssumption DEF IInv, Types
<1>2. found = size[s] \/ (found = 0 /\ Publishing(s))
  BY DEF Sizes
<1>3. ASSUME Publishing(s), ~is_valid[s] PROVE FALSE
  <2>1. PICK l \in Kernel : pc[l] = "publish" /\ Out[l][port[l]] = s
    BY <1>3 DEF Publishing
  <2>2. KernelInv(l)
    BY DEF IInv
  <2>3. s \in OutStreams(l)
    BY <2>1, <2>2, Ports DEF KernelInv, PortExists
  <2>4. QED
    BY <1>3, <2>1, <2>2, <2>3 DEF KernelInv, WriterLeaves, Leaving
<1>4. QED
  BY <1>1, <1>2, <1>3

\* kernelHasInputData looks at one more port.
LEMMA KernelHasInputDataStep ==
    ASSUME IInv, NEW k \in Kernel, KernelHasInputData(k)
    PROVE  Good(k)
<1> DEFINE p == port[k]
           s == In[k][p]
           answer(b) == IF again[k] THEN IF b THEN "gc" ELSE "invalidate"
                                    ELSE IF b THEN "run" ELSE "valid"
<1>1. Types /\ KernelInv(k)
  BY DEF IInv
<1>2. /\ pc[k] = "data" /\ In[k] # <<>>
      /\ UNCHANGED <<streams, fixed, again, fired, finished, scheduler>>
  BY DEF KernelHasInputData
<1>3. PICK found \in Sizes(s) :
         IF found > 0 <=> sched_behav[k] = "any_port"
         THEN Decide(k, found > 0)
         ELSE IF p = Len(In[k]) THEN Decide(k, found > 0) ELSE NextPort(k)
  BY DEF KernelHasInputData
<1>4. /\ p \in 1 .. Len(In[k]) /\ Len(In[k]) \in Nat
      /\ s \in InStreams(k) /\ s \in Stream
      /\ \A t \in InStreams(k) : \E i \in 1 .. Len(In[k]) : t = In[k][i]
      /\ Out[k] # <<>> => Len(Out[k]) >= 1
      /\ Len(Out[k]) \in Nat
  BY <1>1, <1>2, Ports DEF KernelInv, PortExists
<1>5. /\ found \in Nat
      /\ found > 0 => size[s] = found
      /\ again[k] => size[s] = found
  BY <1>1, <1>2, <1>4, SizesExact DEF KernelInv, EndFound, Closed
<1>6. /\ size' = size /\ is_valid' = is_valid /\ fired' = fired /\ finished' = finished
      /\ again' = again /\ sched_behav' = sched_behav
  BY <1>2 DEF streams, fixed
<1>7. sched_behav[k] \in {"any_port", "all_port"} /\ again[k] \in BOOLEAN
  BY <1>1 DEF Types
<1>8. CASE /\ p < Len(In[k])
           /\ NextPort(k)
           /\ sched_behav[k] = "any_port" => found = 0
           /\ sched_behav[k] = "all_port" => found > 0
  <2>1. /\ pc' \in [Kernel -> Label] /\ port' \in [Kernel -> Nat \ {0}]
        /\ again' \in [Kernel -> BOOLEAN]
        /\ pc'[k] = "data" /\ port'[k] = p + 1
        /\ Others(k)
    BY <1>1, <1>2, <1>6, <1>8 DEF NextPort, Types, Others
  <2>2. Types' /\ Frame(k)
    BY <1>2, <2>1, LocalStep
  <2>3. \A i \in 1 .. port'[k] - 1 : i \in 1 .. p - 1 \/ i = p
    BY <1>4, <2>1
  <2>4. PortExists(k)'
    BY <1>4, <1>8, <2>1 DEF PortExists
  <2>5. DataFound(k)'
    BY <1>1, <1>2, <1>5, <1>6, <1>8, <2>1, <2>3 DEF DataFound, KernelInv
  <2>6. EndFound(k)'
    <3>1. again[k] /\ sched_behav[k] = "any_port" => \A i \in 1 .. port'[k] - 1 : size[In[k][i]] = 0
      BY <1>1, <1>2, <1>5, <1>8, <2>3 DEF EndFound, KernelInv
    <3>2. QED
      BY <1>1, <1>2, <1>6, <2>1, <3>1 DEF EndFound, KernelInv, Closed, Drained, Stops
  <2>7. WriterLeaves(k)'
    BY <1>1, <1>2, <1>6, <2>1 DEF WriterLeaves, KernelInv, Leaving
  <2>8. QED
    BY <2>2, <2>4, <2>5, <2>6, <2>7 DEF Good, KernelInv
<1>9. CASE /\ Decide(k, found > 0)
           /\ found > 0 => sched_behav[k] = "any_port" \/ p = Len(In[k])
           /\ found = 0 => sched_behav[k] = "all_port" \/ p = Len(In[k])
  <2>1. /\ pc' \in [Kernel -> Label] /\ port' \in [Kernel -> Nat \ {0}]
        /\ again' \in [Kernel -> BOOLEAN]
        /\ pc'[k] = answer(found > 0) /\ port'[k] = 1
        /\ Others(k)
    BY <1>1, <1>6, <1>9 DEF Decide, Goto, Types, Others, Label
  <2>2. Types' /\ Frame(k)
    BY <1>2, <2>1, LocalStep
  <2>3. \A i \in 1 .. port'[k] - 1 : FALSE
    BY <2>1
  <2>4. PortExists(k)'
    BY <1>4, <2>1 DEF PortExists
  <2>5. ASSUME found > 0
        PROVE  IF sched_behav[k] = "all_port" THEN \A t \in InStreams(k) : size[t] > 0
                                              ELSE \E t \in InStreams(k) : size[t] > 0
    <3>1. CASE sched_behav[k] = "any_port"
      BY <1>4, <1>5, <2>5, <3>1
    <3>2. CASE sched_behav[k] = "all_port"
      <4>1. p = Len(In[k])
        BY <1>9, <2>5, <3>2
      <4>2. \A i \in 1 .. Len(In[k]) : i \in 1 .. p - 1 \/ i = p
        BY <1>4, <4>1
      <4>3. \A i \in 1 .. Len(In[k]) : size[In[k][i]] > 0
        BY <1>1, <1>2, <1>5, <2>5, <3>2, <4>2 DEF KernelInv, DataFound
      <4>4. QED
        BY <1>4, <3>2, <4>3
    <3>3. QED
      BY <1>7, <3>1, <3>2
  <2>6. DataFound(k)'
    BY <1>5, <1>6, <2>1, <2>3, <2>5 DEF DataFound
  <2>7. ASSUME again[k], found = 0
        PROVE  Closed(k) /\ Drained(k)
    <3>1. Closed(k)
      BY <1>1, <1>2, <2>7 DEF KernelInv, EndFound
    <3>2. CASE sched_behav[k] = "all_port"
      BY <1>4, <1>5, <2>7, <3>1, <3>2 DEF Drained
    <3>3. CASE sched_behav[k] = "any_port"
      <4>1. p = Len(In[k])
        BY <1>9, <2>7, <3>3
      <4>2. \A i \in 1 .. Len(In[k]) : i \in 1 .. p - 1 \/ i = p
        BY <1>4, <4>1
      <4>3. \A i \in 1 .. Len(In[k]) : size[In[k][i]] = 0
        BY <1>1, <1>2, <1>5, <2>7, <3>3, <4>2 DEF KernelInv, EndFound
      <4>4. QED
        BY <1>4, <3>1, <3>3, <4>3 DEF Drained
    <3>4. QED
      BY <1>7, <3>2, <3>3
  <2>8. (Closed(k) => Closed(k)') /\ (Drained(k) => Drained(k)')
    BY <1>6 DEF Closed, Drained
  <2>9. EndFound(k)'
    BY <1>1, <1>2, <1>5, <1>6, <2>1, <2>3, <2>7, <2>8 DEF EndFound, KernelInv, Stops
  <2>10. WriterLeaves(k)'
    BY <1>1, <1>2, <1>6, <2>1 DEF WriterLeaves, KernelInv, Leaving
  <2>11. QED
    BY <2>2, <2>4, <2>6, <2>9, <2>10 DEF Good, KernelInv
<1>10. QED
  BY <1>3, <1>4, <1>5, <1>7, <1>8, <1>9

\* A kernel that is in run(), or in a first look, has not finished, and its
\* outputs are open.
LEMMA StillOpen ==
    ASSUME IInv, NEW k \in Kernel,
           \/ pc[k] \in {"none", "run", "push", "publish"}
           \/ pc[k] = "data" /\ ~again[k]
           \/ pc[k] \in {"valid", "gc"} /\ ~finished[k]
    PROVE  /\ ~finished[k] /\ ~Leaving(k)
           /\ \A s \in OutStreams(k) : is_valid[s]
           /\ pc[k] \notin {"data", "gc"} => ~again[k]
<1>1. KernelInv(k) /\ Types
  BY DEF IInv
<1>2. again[k] \in BOOLEAN /\ finished[k] \in BOOLEAN
  BY <1>1 DEF Types
<1>3. ~Leaving(k)
  BY <1>1, <1>2 DEF Leaving, KernelInv, EndFound
<1>4. pc[k] \notin {"data", "gc"} => ~again[k]
  BY <1>1 DEF KernelInv, EndFound
<1>5. QED
  BY <1>1, <1>2, <1>3, <1>4 DEF KernelInv, WriterLeaves

\* run() takes its items, or returns raft::stop.
LEMMA RunStep ==
    ASSUME IInv, NEW k \in Kernel, Run(k)
    PROVE  Good(k)
<1> DEFINE label == IF Out[k] # <<>> THEN "push"
                    ELSE IF Stops(k, fired'[k]) THEN "invalidate" ELSE "valid"
<1>1. Types /\ KernelInv(k) /\ pc[k] = "run"
  BY DEF IInv, Run
<1>2. /\ ~finished[k] /\ ~again[k]
      /\ \A s \in OutStreams(k) : is_valid[s]
  BY <1>1, StillOpen
<1>3. /\ pc' = [pc EXCEPT ![k] = label] /\ port' = [port EXCEPT ![k] = 1]
      /\ is_valid' = is_valid /\ again' = again /\ finished' = finished
      /\ UNCHANGED <<fixed, scheduler>>
  BY DEF Run, RunReturns, Goto
<1>4. fired' \in [Kernel -> Nat] /\ \A l \in Kernel : l # k => fired'[l] = fired[l]
  BY <1>1 DEF Run, Types
<1>5. InStreams(k) \subseteq Stream
  BY Ports
<1>6. /\ size' \in [Stream -> 0 .. Cap]
      /\ \A s \in Stream : size'[s] = size[s] \/ (s \in InStreams(k) /\ size[s] > 0 /\ size'[s] < size[s])
  <2>0. size \in [Stream -> 0 .. Cap]
    BY <1>1 DEF Types
  <2>1. CASE /\ \A s \in InStreams(k) : size[s] > 0
             /\ size' = [s \in Stream |-> IF s \in InStreams(k) THEN size[s] - 1 ELSE size[s]]
    BY <2>0, <2>1, CapAssumption
  <2>2. CASE \E s \in InStreams(k) : size[s] > 0 /\ size' = [size EXCEPT ![s] = @ - 1]
    BY <1>5, <2>0, <2>2, CapAssumption
  <2>3. QED
    BY <2>1, <2>2 DEF Run
<1>7. /\ pc' \in [Kernel -> Label] /\ port' \in [Kernel -> Nat \ {0}]
      /\ pc'[k] = label /\ port'[k] = 1 /\ Others(k)
  BY <1>1, <1>3, <1>4 DEF Types, Label, Others
<1>8. Types'
  BY <1>1, <1>3, <1>4, <1>6, <1>7 DEF Types, fixed, scheduler
<1>9. Frame(k)
  BY <1>3, <1>6, <1>7 DEF Frame, SizeMoves, ValidMoves, fixed
<1>10. PortExists(k)' /\ DataFound(k)'
  <2>1. Len(Out[k]) \in Nat /\ (Out[k] # <<>> => Len(Out[k]) >= 1)
        /\ Len(In[k]) \in Nat /\ (In[k] # <<>> => Len(In[k]) >= 1)
    BY Ports
  <2>2. QED
    BY <1>7, <2>1 DEF PortExists, DataFound
<1>11. EndFound(k)'
  <2>1. \A i \in 1 .. port'[k] - 1 : FALSE
    BY <1>7
  <2>2. QED
    BY <1>2, <1>3, <1>7, <2>1 DEF EndFound
<1>12. WriterLeaves(k)'
  BY <1>2, <1>3 DEF WriterLeaves
<1>13. QED
  BY <1>8, <1>9, <1>10, <1>11, <1>12 DEF Good, KernelInv

\* run() sends an item to one more output.
LEMMA PushStep ==
    ASSUME IInv, NEW k \in Kernel, Push(k)
    PROVE  Good(k)
<1> DEFINE s == Out[k][port[k]]
<1>1. Types /\ KernelInv(k) /\ pc[k] = "push"
  BY DEF IInv, Push
<1>2. /\ ~finished[k] /\ ~again[k] /\ ~Leaving(k)
      /\ \A t \in OutStreams(k) : is_valid[t]
  BY <1>1, StillOpen
<1>3. port[k] \in 1 .. Len(Out[k]) /\ s \in OutStreams(k) /\ s \in Stream
  BY <1>1, Ports DEF KernelInv, PortExists
<1>4. /\ size[s] < Cap /\ size' = [size EXCEPT ![s] = @ + 1]
      /\ pc' = [pc EXCEPT ![k] = "publish"]
      /\ is_valid' = is_valid /\ again' = again /\ finished' = finished
      /\ fired' = fired /\ port' = port
      /\ UNCHANGED <<fixed, scheduler>>
  BY DEF Push
<1>5. /\ size' \in [Stream -> 0 .. Cap]
      /\ \A t \in Stream : size'[t] = size[t] \/ (t \in OutStreams(k) /\ size'[t] > size[t])
  <2>1. size \in [Stream -> 0 .. Cap]
    BY <1>1 DEF Types
  <2>2. QED
    BY <1>3, <1>4, <2>1, CapAssumption
<1>6. pc' \in [Kernel -> Label] /\ pc'[k] = "publish" /\ Others(k)
  BY <1>1, <1>4 DEF Types, Label, Others
<1>7. Types'
  BY <1>1, <1>4, <1>5, <1>6 DEF Types, fixed, scheduler
<1>8. Frame(k)
  BY <1>2, <1>4, <1>5, <1>6 DEF Frame, SizeMoves, ValidMoves, fixed
<1>9. PortExists(k)' /\ DataFound(k)'
  BY <1>3, <1>4, <1>6 DEF PortExists, DataFound
<1>10. EndFound(k)' /\ WriterLeaves(k)'
  BY <1>2, <1>4, <1>6 DEF EndFound, WriterLeaves
<1>11. QED
  BY <1>7, <1>8, <1>9, <1>10 DEF Good, KernelInv

\* The second store of the increment.
LEMMA PublishStep ==
    ASSUME IInv, NEW k \in Kernel, Publish(k)
    PROVE  Good(k)
<1>1. Types /\ KernelInv(k) /\ pc[k] = "publish"
  BY DEF IInv, Publish
<1>2. /\ ~finished[k] /\ ~again[k] /\ ~Leaving(k)
      /\ \A t \in OutStreams(k) : is_valid[t]
  BY <1>1, StillOpen
<1>3. port[k] \in 1 .. Len(Out[k]) /\ Len(Out[k]) \in Nat
      /\ Len(In[k]) \in Nat /\ (In[k] # <<>> => Len(In[k]) >= 1)
  BY <1>1, Ports DEF KernelInv, PortExists
<1>4. /\ size' = size /\ is_valid' = is_valid /\ again' = again /\ finished' = finished
      /\ fired' = fired /\ sched_behav' = sched_behav
      /\ UNCHANGED <<streams, fixed, fired, finished, scheduler>>
  BY DEF Publish, streams, fixed
<1>5. CASE /\ port[k] < Len(Out[k])
           /\ pc' = [pc EXCEPT ![k] = "push"] /\ port' = [port EXCEPT ![k] = @ + 1]
  <2>1. /\ pc' \in [Kernel -> Label] /\ port' \in [Kernel -> Nat \ {0}]
        /\ again' \in [Kernel -> BOOLEAN]
        /\ pc'[k] = "push" /\ port'[k] = port[k] + 1 /\ Others(k)
    BY <1>1, <1>4, <1>5 DEF Types, Label, Others
  <2>2. Types' /\ Frame(k)
    BY <1>4, <2>1, LocalStep
  <2>3. PortExists(k)' /\ DataFound(k)'
    BY <1>3, <1>5, <2>1 DEF PortExists, DataFound
  <2>4. EndFound(k)' /\ WriterLeaves(k)'
    BY <1>2, <1>4, <2>1 DEF EndFound, WriterLeaves
  <2>5. QED
    BY <2>2, <2>3, <2>4 DEF Good, KernelInv
<1>6. CASE RunReturns(k)
  <2>1. /\ pc' \in [Kernel -> Label] /\ port' \in [Kernel -> Nat \ {0}]
        /\ again' \in [Kernel -> BOOLEAN]
        /\ pc'[k] = (IF Stops(k, fired'[k]) THEN "invalidate" ELSE "valid")
        /\ port'[k] = 1 /\ Others(k)
    BY <1>1, <1>4, <1>6 DEF Types, Label, Others, RunReturns, Goto
  <2>2. Types' /\ Frame(k)
    BY <1>4, <2>1, LocalStep
  <2>3. PortExists(k)' /\ DataFound(k)'
    BY <1>3, <2>1 DEF PortExists, DataFound
  <2>4. \A i \in 1 .. port'[k] - 1 : FALSE
    BY <2>1
  <2>5. EndFound(k)' /\ WriterLeaves(k)'
    BY <1>2, <1>4, <2>1, <2>4 DEF EndFound, WriterLeaves
  <2>6. QED
    BY <2>2, <2>3, <2>5 DEF Good, KernelInv
<1>7. QED
  BY <1>5, <1>6 DEF Publish

\* The look for closed inputs, at one more port.
LEMMA KernelHasNoInputPortsStep ==
    ASSUME IInv, NEW k \in Kernel, KernelHasNoInputPorts(k)
    PROVE  Good(k)
<1> DEFINE p == port[k]
<1>1. Types /\ KernelInv(k) /\ pc[k] = "valid"
  BY DEF IInv, KernelHasNoInputPorts
<1>2. again[k] \in BOOLEAN /\ finished[k] \in BOOLEAN /\ ~again[k]
  BY <1>1 DEF Types, KernelInv, EndFound
<1>3. /\ In[k] # <<>> => p \in 1 .. Len(In[k])
      /\ Len(In[k]) \in Nat /\ (In[k] # <<>> => Len(In[k]) >= 1)
      /\ In[k] = <<>> => InStreams(k) = {}
      /\ \A t \in InStreams(k) : \E i \in 1 .. Len(In[k]) : t = In[k][i]
  BY <1>1, Ports DEF KernelInv, PortExists
<1>4. /\ size' = size /\ is_valid' = is_valid /\ finished' = finished
      /\ fired' = fired /\ sched_behav' = sched_behav
      /\ UNCHANGED <<streams, fixed, fired, finished, scheduler>>
  BY DEF KernelHasNoInputPorts, streams, fixed
<1>5. (Closed(k) => Closed(k)') /\ (Drained(k) => Drained(k)')
  BY <1>4 DEF Closed, Drained
<1>6. CASE Goto(k, "gc") /\ UNCHANGED again
  <2>1. /\ pc' \in [Kernel -> Label] /\ port' \in [Kernel -> Nat \ {0}]
        /\ again' \in [Kernel -> BOOLEAN]
        /\ pc'[k] = "gc" /\ again'[k] = again[k] /\ Others(k)
    BY <1>1, <1>4, <1>6 DEF Types, Label, Others, Goto
  <2>2. Types' /\ Frame(k)
    BY <1>4, <2>1, LocalStep
  <2>3. PortExists(k)' /\ DataFound(k)'
    BY <2>1 DEF PortExists, DataFound
  <2>4. EndFound(k)' /\ WriterLeaves(k)'
    BY <1>1, <1>2, <1>4, <1>5, <2>1 DEF EndFound, WriterLeaves, Leaving, KernelInv
  <2>5. QED
    BY <2>2, <2>3, <2>4 DEF Good, KernelInv
<1>7. CASE /\ In[k] # <<>> /\ ~is_valid[In[k][p]] /\ p < Len(In[k])
           /\ NextPort(k) /\ UNCHANGED again
  <2>1. /\ pc' \in [Kernel -> Label] /\ port' \in [Kernel -> Nat \ {0}]
        /\ again' \in [Kernel -> BOOLEAN]
        /\ pc'[k] = "valid" /\ port'[k] = p + 1 /\ again'[k] = again[k] /\ Others(k)
    BY <1>1, <1>4, <1>7 DEF Types, Label, Others, NextPort
  <2>2. Types' /\ Frame(k)
    BY <1>4, <2>1, LocalStep
  <2>3. PortExists(k)' /\ DataFound(k)'
    BY <1>3, <1>7, <2>1 DEF PortExists, DataFound
  <2>4. \A i \in 1 .. port'[k] - 1 : i \in 1 .. p - 1 \/ i = p
    BY <1>3, <1>7, <2>1
  <2>5. \A i \in 1 .. port'[k] - 1 : ~is_valid[In[k][i]]
    BY <1>1, <1>7, <2>4 DEF KernelInv, EndFound
  <2>6. EndFound(k)' /\ WriterLeaves(k)'
    BY <1>1, <1>2, <1>4, <1>5, <2>1, <2>5 DEF EndFound, WriterLeaves, Leaving, KernelInv
  <2>7. QED
    BY <2>2, <2>3, <2>6 DEF Good, KernelInv
<1>8. CASE /\ In[k] # <<>> => ~is_valid[In[k][p]] /\ p = Len(In[k])
           /\ again' = [again EXCEPT ![k] = TRUE]
           /\ Goto(k, "data")
  <2>1. /\ pc' \in [Kernel -> Label] /\ port' \in [Kernel -> Nat \ {0}]
        /\ again' \in [Kernel -> BOOLEAN]
        /\ pc'[k] = "data" /\ port'[k] = 1 /\ again'[k] = TRUE /\ Others(k)
    BY <1>1, <1>4, <1>8 DEF Types, Label, Others, Goto
  <2>2. Types' /\ Frame(k)
    BY <1>4, <2>1, LocalStep
  <2>3. \A i \in 1 .. port'[k] - 1 : FALSE
    BY <2>1
  <2>4. PortExists(k)' /\ DataFound(k)'
    BY <1>3, <2>1, <2>3 DEF PortExists, DataFound
  <2>5. Closed(k)
    <3>1. CASE In[k] = <<>>
      BY <1>3, <3>1 DEF Closed
    <3>2. CASE In[k] # <<>>
      <4>1. \A i \in 1 .. Len(In[k]) : i \in 1 .. p - 1 \/ i = p
        BY <1>3, <1>8, <3>2
      <4>2. \A i \in 1 .. Len(In[k]) : ~is_valid[In[k][i]]
        BY <1>1, <1>8, <3>2, <4>1 DEF KernelInv, EndFound
      <4>3. QED
        BY <1>3, <4>2 DEF Closed
    <3>3. QED
      BY <3>1, <3>2
  <2>6. EndFound(k)'
    BY <1>1, <1>4, <1>5, <2>1, <2>3, <2>5 DEF EndFound, KernelInv
  <2>7. WriterLeaves(k)'
    BY <1>1, <1>2, <1>4, <2>1 DEF WriterLeaves, Leaving, KernelInv
  <2>8. QED
    BY <2>2, <2>4, <2>6, <2>7 DEF Good, KernelInv
<1>9. QED
  BY <1>6, <1>7, <1>8 DEF KernelHasNoInputPorts

\* One more output is closed.
LEMMA InvalidateOutputPortsStep ==
    ASSUME IInv, NEW k \in Kernel, InvalidateOutputPorts(k)
    PROVE  Good(k)
<1> DEFINE p == port[k]
<1>1. Types /\ KernelInv(k) /\ pc[k] = "invalidate"
  BY DEF IInv, InvalidateOutputPorts
<1>2. /\ Out[k] # <<>> => p \in 1 .. Len(Out[k]) /\ Out[k][p] \in OutStreams(k)
      /\ Out[k] = <<>> => Len(Out[k]) = 0
      /\ Len(Out[k]) \in Nat /\ OutStreams(k) \subseteq Stream /\ InStreams(k) \subseteq Stream
      /\ Len(In[k]) \in Nat /\ (In[k] # <<>> => Len(In[k]) >= 1)
  BY <1>1, Ports DEF KernelInv, PortExists
<1>3. /\ size' = size /\ fired' = fired /\ again' = again /\ sched_behav' = sched_behav
      /\ UNCHANGED <<fixed, scheduler>>
  BY DEF InvalidateOutputPorts, fixed
<1>4. /\ is_valid' \in [Stream -> BOOLEAN]
      /\ \A s \in Stream : is_valid'[s] = is_valid[s] \/ (s \in OutStreams(k) /\ ~is_valid'[s])
  BY <1>1, <1>2 DEF InvalidateOutputPorts, Types
<1>5. (Closed(k) => Closed(k)') /\ (Drained(k) => Drained(k)')
  <2>1. Closed(k) => Closed(k)'
    BY <1>2, <1>4 DEF Closed
  <2>2. Drained(k) => Drained(k)'
    BY <1>3 DEF Drained
  <2>3. QED
    BY <2>1, <2>2
<1>6. again[k] \in BOOLEAN /\ finished[k] \in BOOLEAN
  BY <1>1 DEF Types
<1>7. CASE p < Len(Out[k]) /\ NextPort(k) /\ finished' = finished
  <2>1. /\ pc' \in [Kernel -> Label] /\ port' \in [Kernel -> Nat \ {0}]
        /\ pc'[k] = "invalidate" /\ port'[k] = p + 1 /\ Others(k)
    BY <1>1, <1>3, <1>7 DEF Types, Others, NextPort
  <2>2. Types'
    BY <1>1, <1>3, <1>4, <1>7, <2>1 DEF Types, fixed, scheduler
  <2>3. Frame(k)
    BY <1>3, <1>4, <2>1 DEF Frame, SizeMoves, ValidMoves
  <2>4. PortExists(k)' /\ DataFound(k)'
    BY <1>2, <1>7, <2>1 DEF PortExists, DataFound
  <2>5. EndFound(k)' /\ WriterLeaves(k)'
    BY <1>1, <1>3, <1>5, <1>7, <2>1 DEF EndFound, WriterLeaves, Leaving, KernelInv
  <2>6. QED
    BY <2>2, <2>3, <2>4, <2>5 DEF Good, KernelInv
<1>8. CASE /\ finished' = [finished EXCEPT ![k] = TRUE]
           /\ Goto(k, IF again[k] THEN "gc" ELSE "valid")
  <2>1. /\ pc' \in [Kernel -> Label] /\ port' \in [Kernel -> Nat \ {0}]
        /\ finished' \in [Kernel -> BOOLEAN] /\ finished'[k] = TRUE
        /\ pc'[k] = (IF again[k] THEN "gc" ELSE "valid") /\ port'[k] = 1 /\ Others(k)
    BY <1>1, <1>3, <1>8 DEF Types, Others, Goto, Label
  <2>2. Types'
    BY <1>1, <1>3, <1>4, <2>1 DEF Types, fixed, scheduler
  <2>3. Frame(k)
    BY <1>3, <1>4, <2>1 DEF Frame, SizeMoves, ValidMoves
  <2>4. PortExists(k)' /\ DataFound(k)'
    BY <1>2, <2>1 DEF PortExists, DataFound
  <2>5. \A i \in 1 .. port'[k] - 1 : FALSE
    BY <2>1
  <2>6. EndFound(k)' /\ WriterLeaves(k)'
    BY <1>1, <1>3, <1>5, <1>6, <2>1, <2>5 DEF EndFound, WriterLeaves, Leaving, KernelInv
  <2>7. QED
    BY <2>2, <2>3, <2>4, <2>6 DEF Good, KernelInv
<1>9. QED
  BY <1>7, <1>8 DEF InvalidateOutputPorts

\* The end of a turn of kernelRun.
LEMMA EndLoopStep ==
    ASSUME IInv, NEW k \in Kernel, EndLoop(k)
    PROVE  Good(k)
<1>1. Types /\ KernelInv(k) /\ pc[k] = "gc"
  BY DEF IInv, EndLoop
<1>2. /\ size' = size /\ is_valid' = is_valid /\ finished' = finished
      /\ fired' = fired /\ sched_behav' = sched_behav
      /\ UNCHANGED <<streams, fixed, fired, finished, scheduler>>
  BY DEF EndLoop, streams, fixed
<1>3. finished[k] \in BOOLEAN
  BY <1>1 DEF Types
<1>4. /\ pc' \in [Kernel -> Label] /\ port' \in [Kernel -> Nat \ {0}]
      /\ again' \in [Kernel -> BOOLEAN]
      /\ pc'[k] = (IF finished[k] THEN "ended" ELSE "data")
      /\ port'[k] = 1 /\ again'[k] = FALSE /\ Others(k)
  BY <1>1, <1>2 DEF Types, Label, Others, Goto, EndLoop
<1>5. Types' /\ Frame(k)
  BY <1>2, <1>4, LocalStep
<1>6. \A i \in 1 .. port'[k] - 1 : FALSE
  BY <1>4
<1>7. PortExists(k)' /\ DataFound(k)'
  BY <1>4, <1>6, Ports DEF PortExists, DataFound
<1>8. (Closed(k) => Closed(k)') /\ (Drained(k) => Drained(k)')
  BY <1>2 DEF Closed, Drained
<1>9. EndFound(k)'
  BY <1>1, <1>2, <1>4, <1>6, <1>8 DEF EndFound, KernelInv
<1>10. WriterLeaves(k)'
  <2>1. ~finished[k] => \A s \in OutStreams(k) : is_valid[s]
    BY <1>1, <1>3, StillOpen
  <2>2. QED
    BY <1>1, <1>2, <1>3, <1>4, <2>1 DEF WriterLeaves, Leaving, KernelInv
<1>11. QED
  BY <1>5, <1>7, <1>9, <1>10 DEF Good, KernelInv

-----------------------------------------------------------------------------
(* The whole system.                                                       *)

\* The invariant holds when the application starts.
LEMMA InitInvariant == ASSUME Init PROVE IInv
<1>1. Types
  <2>1. size \in [Stream -> 0 .. Cap] /\ next \in 1 .. NumKernels + 1
    BY CapAssumption, GraphAssumption DEF Init
  <2>2. port \in [Kernel -> Nat \ {0}] /\ fired \in [Kernel -> Nat]
    BY DEF Init
  <2>3. /\ is_valid \in [Stream -> BOOLEAN] /\ pc \in [Kernel -> Label]
        /\ sched_behav \in [Kernel -> {"any_port", "all_port"}]
        /\ again \in [Kernel -> BOOLEAN] /\ finished \in [Kernel -> BOOLEAN]
        /\ keep_going \in BOOLEAN
    BY DEF Init, Label
  <2>4. /\ class \in {"simple", "pool"} /\ term \subseteq Kernel
        /\ spc \in {"spawn", "scan", "join", "returned"}
    BY SchedulersAssumption DEF Init
  <2>5. QED
    BY <2>1, <2>2, <2>3, <2>4 DEF Types
<1>2. \A k \in Kernel : KernelInv(k)
  BY Ports DEF Init, KernelInv, PortExists, DataFound, EndFound, WriterLeaves
<1>3. ThreadsJoined
  BY DEF Init, ThreadsJoined
<1>4. QED
  BY <1>1, <1>2, <1>3 DEF IInv

\* The threads that the scheduler has joined take no step, nor do those that it
\* has not started yet.
LEMMA KernelStepJoined ==
    ASSUME IInv, NEW k \in Kernel, KernelNext(k), Others(k)
    PROVE  ThreadsJoined'
<1>1. pc[k] \notin {"none", "ended"}
  BY DEF KernelNext, NoInputs, KernelHasInputData, Run, Push, Publish,
         KernelHasNoInputPorts, InvalidateOutputPorts, EndLoop
<1>2. UNCHANGED <<class, spc, next, keep_going, term>>
  BY DEF KernelNext, NoInputs, KernelHasInputData, Run, Push, Publish,
         KernelHasNoInputPorts, InvalidateOutputPorts, EndLoop, fixed, scheduler
<1>3. term \subseteq Kernel
  BY DEF IInv, Types
<1>4. QED
  BY <1>1, <1>2, <1>3 DEF IInv, ThreadsJoined, Others

\* Every step of a kernel preserves it.
LEMMA KernelPreserves ==
    ASSUME IInv, NEW k \in Kernel, KernelNext(k)
    PROVE  IInv' /\ Frame(k)
<1>1. Good(k)
  BY NoInputsStep, KernelHasInputDataStep, RunStep, PushStep, PublishStep,
     KernelHasNoInputPortsStep, InvalidateOutputPortsStep, EndLoopStep DEF KernelNext
<1>2. Types /\ \A l \in Kernel : KernelInv(l)
  BY DEF IInv
<1>3. ASSUME NEW l \in Kernel PROVE KernelInv(l)'
  <2>1. CASE l = k
    BY <1>1, <2>1 DEF Good
  <2>2. CASE l # k
    BY <1>1, <1>2, <2>2, FrameKeepsOthers DEF Good
  <2>3. QED
    BY <2>1, <2>2
<1>4. ThreadsJoined'
  BY <1>1, KernelStepJoined DEF Good, Frame
<1>5. QED
  BY <1>1, <1>3, <1>4 DEF Good, IInv

\* Starting the threads preserves it.
LEMMA SpawnPreserves ==
    ASSUME IInv, Spawn
    PROVE  IInv' /\ streams' = streams
<1>0. Types /\ (\A l \in Kernel : KernelInv(l)) /\ ThreadsJoined /\ spc = "spawn"
  BY DEF IInv, Spawn
<1>1. /\ size' = size /\ is_valid' = is_valid /\ sched_behav' = sched_behav /\ class' = class
      /\ port' = port /\ again' = again /\ fired' = fired /\ finished' = finished
      /\ keep_going' = keep_going /\ term' = term /\ streams' = streams
  BY DEF Spawn, streams, fixed
<1>2. CASE /\ next <= NumKernels
           /\ pc' = [pc EXCEPT ![next] = "data"] /\ next' = next + 1 /\ spc' = spc
  <2>0. next \in Kernel
    BY <1>0, <1>2, GraphAssumption DEF Types, Kernel
  <2>01. PICK k \in Kernel : k = next
    BY <2>0
  <2>1. k \in Kernel /\ pc[k] = "none"
    BY <1>0, <2>0, <2>01, GraphAssumption DEF Types, Kernel, ThreadsJoined
  <2>2. /\ pc' \in [Kernel -> Label] /\ pc'[k] = "data"
        /\ \A l \in Kernel : l # k => pc'[l] = pc[l]
    BY <1>0, <1>2, <2>01 DEF Types, Label
  <2>3. Types'
    BY <1>0, <1>1, <1>2, <2>0, <2>2, GraphAssumption DEF Types, Kernel
  <2>4. Frame(k)
    BY <1>1, <2>2 DEF Frame, Others, SizeMoves, ValidMoves
  <2>5. KernelInv(k)'
    <3>1. KernelInv(k)
      BY <1>0, <2>1
    <3>2. /\ ~finished[k] /\ ~again[k]
          /\ \A s \in OutStreams(k) : is_valid[s]
      BY <2>1, StillOpen
    <3>3. port[k] = 1
      BY <2>1, <3>1 DEF KernelInv, PortExists
    <3>4. \A i \in 1 .. port[k] - 1 : FALSE
      BY <3>3
    <3>5. Len(In[k]) \in Nat /\ (In[k] # <<>> => Len(In[k]) >= 1)
      BY <2>1, Ports
    <3>6. QED
      BY <1>1, <2>2, <3>2, <3>3, <3>4, <3>5 DEF KernelInv, PortExists, DataFound, EndFound, WriterLeaves
  <2>6. ASSUME NEW l \in Kernel PROVE KernelInv(l)'
    <3>1. CASE l = k
      BY <2>5, <3>1
    <3>2. CASE l # k
      BY <1>0, <2>1, <2>3, <2>4, <3>2, FrameKeepsOthers
    <3>3. QED
      BY <3>1, <3>2
  <2>7. ThreadsJoined'
    <3>1. term \subseteq Kernel /\ \A l \in Kernel : l >= next + 1 => l >= next /\ l # k
      BY <1>0, <2>01, GraphAssumption DEF Types, Kernel
    <3>2. /\ \A l \in term : pc'[l] = "ended"
          /\ \A l \in Kernel : l >= next' => pc'[l] = "none"
      BY <1>0, <1>2, <2>1, <2>2, <3>1 DEF ThreadsJoined
    <3>3. QED
      BY <1>0, <1>1, <1>2, <3>2 DEF ThreadsJoined
  <2>8. QED
    BY <1>1, <2>3, <2>6, <2>7 DEF IInv
<1>3. CASE next > NumKernels /\ spc' = "scan" /\ next' = 1 /\ pc' = pc
  <2>1. Types'
    BY <1>0, <1>1, <1>3, GraphAssumption DEF Types
  <2>2. ASSUME NEW l \in Kernel PROVE KernelInv(l)'
    BY <1>0, <1>1, <1>3 DEF KernelInv, PortExists, DataFound, EndFound, WriterLeaves,
                            Leaving, Closed, Drained
  <2>3. ThreadsJoined'
    BY <1>0, <1>1, <1>3, GraphAssumption DEF ThreadsJoined, Kernel
  <2>4. QED
    BY <1>1, <2>1, <2>2, <2>3 DEF IInv
<1>4. QED
  BY <1>2, <1>3 DEF Spawn

\* So do the scans and joins of start().
LEMMA WaitPreserves ==
    ASSUME IInv, ScanSimple \/ Join \/ ScanPool \/ EndScan
    PROVE  IInv' /\ streams' = streams
<1>0. Types /\ (\A l \in Kernel : KernelInv(l)) /\ ThreadsJoined
  BY DEF IInv
<1>1. /\ size' = size /\ is_valid' = is_valid /\ sched_behav' = sched_behav /\ class' = class
      /\ pc' = pc /\ port' = port /\ again' = again /\ fired' = fired /\ finished' = finished
      /\ streams' = streams
  BY DEF ScanSimple, Join, ScanPool, EndScan, streams, fixed, kernels
<1>2. \A l \in Kernel : KernelInv(l)'
  BY <1>0, <1>1 DEF KernelInv, PortExists, DataFound, EndFound, WriterLeaves,
                    Leaving, Closed, Drained
<1>3. /\ next \in 1 .. NumKernels + 1 /\ NumKernels \in Nat /\ term \subseteq Kernel
      /\ keep_going \in BOOLEAN /\ class \in {"simple", "pool"}
  BY <1>0, GraphAssumption DEF Types
<1>4. /\ next' \in 1 .. NumKernels + 1 /\ term' \subseteq Kernel /\ keep_going' \in BOOLEAN
      /\ spc' \in {"spawn", "scan", "join", "returned"}
  <2>1. CASE ScanSimple
    <3>1. next' \in 1 .. NumKernels + 1
      BY <1>3, <2>1 DEF ScanSimple
    <3>2. keep_going' \in BOOLEAN
      BY <1>3, <2>1, Zenon DEF ScanSimple
    <3>3. term' \subseteq Kernel /\ spc' \in {"spawn", "scan", "join", "returned"}
      BY <1>3, <2>1 DEF ScanSimple
    <3>4. QED
      BY <3>1, <3>2, <3>3
  <2>2. CASE Join
    BY <1>0, <1>3, <2>2 DEF Join, Kernel, Types, ThreadsJoined
  <2>3. CASE ScanPool
    BY <1>0, <1>3, <2>3 DEF ScanPool, Kernel, Types
  <2>4. CASE EndScan
    <3>1. next' \in 1 .. NumKernels + 1
      BY <1>3, <2>4 DEF EndScan
    <3>2. keep_going' \in BOOLEAN
      BY <1>3, <2>4, Zenon DEF EndScan
    <3>3. term' \subseteq Kernel /\ spc' \in {"spawn", "scan", "join", "returned"}
      BY <1>3, <2>4 DEF EndScan
    <3>4. QED
      BY <3>1, <3>2, <3>3
  <2>5. QED
    BY <2>1, <2>2, <2>3, <2>4
<1>5. Types'
  BY <1>0, <1>1, <1>4 DEF Types
<1>6. ThreadsJoined'
  <2>0. /\ \A l \in Kernel : l < next + 1 => l < next \/ l = next
        /\ \A l \in Kernel : ~(l < 1)
        /\ next > NumKernels => \A l \in Kernel : l < next
        /\ next <= NumKernels => next \in Kernel
    BY <1>3 DEF Kernel
  <2>1. CASE ScanSimple
    <3>1. CASE next \notin term /\ spc' = "join" /\ UNCHANGED <<next, keep_going>>
      BY <1>0, <1>1, <2>0, <2>1, <3>1 DEF ScanSimple, ThreadsJoined, kernels
    <3>2. CASE next' = next + 1 /\ keep_going' = (keep_going \/ next \notin term) /\ UNCHANGED spc
      <4>1. ~keep_going' => \A l \in Kernel : l < next' => l \in term
        BY <1>0, <2>0, <2>1, <3>2 DEF ScanSimple, ThreadsJoined
      <4>2. QED
        BY <1>0, <1>1, <2>1, <3>2, <4>1 DEF ScanSimple, ThreadsJoined
    <3>3. QED
      BY <2>1, <3>1, <3>2 DEF ScanSimple
  <2>2. CASE Join
    <3>1. spc = "join" /\ pc[next] = "ended" /\ term' = term \cup {next} /\ next' = next + 1
          /\ spc' = "scan" /\ keep_going' = keep_going
      BY <2>2 DEF Join
    <3>2. \A l \in term' : pc'[l] = "ended"
      BY <1>0, <1>1, <3>1 DEF ThreadsJoined
    <3>3. class = "simple" /\ ~keep_going' => \A l \in Kernel : l < next' => l \in term'
      BY <1>0, <2>0, <3>1 DEF ThreadsJoined
    <3>4. QED
      BY <1>1, <3>1, <3>2, <3>3 DEF ThreadsJoined
  <2>3. CASE ScanPool
    BY <1>0, <1>1, <1>3, <2>3 DEF ScanPool, ThreadsJoined
  <2>4. CASE EndScan
    <3>1. spc = "scan" /\ next > NumKernels /\ next' = 1 /\ term' = term
          /\ spc' = (IF keep_going THEN "scan" ELSE "returned")
      BY <2>4 DEF EndScan
    <3>2. class = "simple" /\ ~keep_going => Kernel \subseteq term
      BY <1>0, <2>0, <3>1 DEF ThreadsJoined
    <3>3. \A l \in Kernel : ~(l < next')
      BY <2>0, <3>1
    <3>4. QED
      BY <1>0, <1>1, <1>3, <3>1, <3>2, <3>3 DEF ThreadsJoined
  <2>5. QED
    BY <2>1, <2>2, <2>3, <2>4
<1>7. QED
  BY <1>1, <1>2, <1>5, <1>6 DEF IInv

\* Every step keeps the invariant.
LEMMA NextPreserves == ASSUME IInv, [Next]_vars PROVE IInv'
<1>1. CASE SchedulerNext
  BY <1>1, SpawnPreserves, WaitPreserves DEF SchedulerNext
<1>2. CASE \E k \in Kernel : KernelNext(k)
  BY <1>2, KernelPreserves
<1>3. CASE UNCHANGED vars
  BY <1>3 DEF IInv, Types, KernelInv, PortExists, DataFound, EndFound, WriterLeaves, Leaving,
              Closed, Drained, ThreadsJoined, vars, streams, fixed, kernels, scheduler
<1>4. QED
  BY <1>1, <1>2, <1>3 DEF Next

\* The inductive invariant holds in every reachable state.
THEOREM Invariance == Spec => []IInv
  BY InitInvariant, NextPreserves, PTL DEF Spec

\* Every variable keeps its type, no stream ever holds more than its capacity, and
\* every loop over the ports of a kernel is at a port that the kernel has.
THEOREM TypeCorrect == Spec => []TypeOK
<1>1. IInv => TypeOK
  BY DEF IInv, KernelInv, TypeOK
<1>2. QED
  BY <1>1, Invariance, PTL

\* Whatever kernelHasInputData found, one port at a time, is still there when
\* run() is called.
THEOREM DataIsThere == Spec => []PromisedDataIsThere
<1>1. IInv => PromisedDataIsThere
  BY DEF IInv, KernelInv, DataFound, PromisedDataIsThere
<1>2. QED
  BY <1>1, Invariance, PTL

\* A kernel that kernelRun finishes because its inputs have ended misses nothing.
THEOREM NoDataMissed == Spec => []NothingMissed
<1>1. IInv => NothingMissed
  BY DEF IInv, KernelInv, EndFound, Closed, Drained, NothingMissed
<1>2. QED
  BY <1>1, Invariance, PTL

\* simple_schedule::start() returns only when all threads have ended.
THEOREM AllJoined == Spec => []SimpleJoinsAll
<1>1. IInv => SimpleJoinsAll
  BY DEF IInv, ThreadsJoined, SimpleJoinsAll
<1>2. QED
  BY <1>1, Invariance, PTL

\* The size of a stream is a number.
LEMMA SizesAreNatural == ASSUME IInv PROVE \A s \in Stream : size[s] \in Nat
  BY CapAssumption DEF IInv, Types

\* No kernel sends to a stream that it has closed, and none is opened again.
THEOREM ClosedDrains == Spec => ClosedStreamsDrain
<1> DEFINE Step == \A s \in Stream : ~is_valid[s] => size'[s] <= size[s] /\ ~is_valid'[s]
<1>1. ASSUME IInv, [Next]_vars PROVE Step
  <2>1. CASE SchedulerNext
    <3>1. size' = size /\ is_valid' = is_valid
      BY <1>1, <2>1, SpawnPreserves, WaitPreserves DEF SchedulerNext, streams
    <3>2. QED
      BY <1>1, <3>1, SizesAreNatural
  <2>2. CASE \E k \in Kernel : KernelNext(k)
    <3>1. PICK k \in Kernel : KernelNext(k)
      BY <2>2
    <3>2. Frame(k) /\ IInv'
      BY <1>1, <3>1, KernelPreserves
    <3>3. SUFFICES ASSUME NEW s \in Stream, ~is_valid[s]
                   PROVE  size'[s] <= size[s] /\ ~is_valid'[s]
      OBVIOUS
    <3>4. ~is_valid'[s]
      BY <3>2, <3>3 DEF Frame, ValidMoves
    <3>5. ~(s \in OutStreams(k) /\ ~Leaving(k))
      BY <1>1, <3>3 DEF IInv, KernelInv, WriterLeaves
    <3>6. size'[s] = size[s] \/ size'[s] < size[s]
      BY <3>2, <3>5 DEF Frame, SizeMoves
    <3>7. size[s] \in Nat /\ size'[s] \in Nat
      BY <1>1, <3>2, CapAssumption DEF IInv, Types
    <3>8. QED
      BY <3>4, <3>6, <3>7
  <2>3. CASE UNCHANGED vars
    <3>1. size' = size /\ is_valid' = is_valid
      BY <2>3 DEF vars, streams
    <3>2. QED
      BY <1>1, <3>1, SizesAreNatural
  <2>4. QED
    BY <1>1, <2>1, <2>2, <2>3 DEF Next
<1>2. QED
  BY <1>1, Invariance, PTL DEF Spec, ClosedStreamsDrain
=============================================================================
