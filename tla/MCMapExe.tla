------------------------------ MODULE MCMapExe ------------------------------
(***************************************************************************)
(* The applications that are built and run, and the template arguments     *)
(* they give to exe().  To those of the test suite come some that no test  *)
(* has, for the corners of graph construction.                             *)
(***************************************************************************)
EXTENDS Applications

(* Two producers for one input port. *)
TwoIntoOne == Application(<<generate, generate, print(1)>>,
    << One(K(1), ">>", K(3)), One(K(2), ">>", K(3)), Exe >>)

(* A split to a kernel that cannot be copied. *)
SplitNotCloned == Application(<<random_variate(2), lambdak(1, 0)>>,
    << One(K(1), "<=", K(2)), Exe >>)

(* A join with more input ports than the split has kernels, and with fewer. *)
Joined(n) == Application(<<random_variate(2), sub, joiner(n), print(1)>>,
    << Add(<<Op(K(1), "<=", K(2)), Op(Pair(1), ">=", K(3))>>), One(K(3), ">>", K(4)), Exe >>)

(* A split of a split; no overload lets a join follow it. *)
Nested == Application(
    <<random_variate(2), Class(Numbered(1, "T"), Numbered(2, "T")), print(1)>>,
    << Add(<<Op(K(2), "<=", K(3)), Op(K(1), "<=", Pair(1))>>), Exe >>)

(* Four brackets after one kernel. *)
FourBrackets == Application(<<random_variate(1), lambdak(2, 1), print(1)>>,
    << One(K(1), ">>", At(2, <<"0", "0", "1", "1">>)), One(K(1), ">>", K(2)), Exe >>)

(* A kernel that reads what it has written, until it stops by itself. *)
Feedback == Application(
    <<generate, [lambdak(2, 1) EXCEPT !.stops = TRUE], lambdak(1, 2), print(1)>>,
    << One(K(1), ">>", At(2, <<"0">>)), One(K(2), ">>", K(3)),
       One(At(3, <<"0">>), ">>", At(2, <<"1">>)), One(At(3, <<"1">>), ">>", K(4)), Exe >>)

(* Two kernels that only read each other. *)
NoSource == Application(<<lambdak(1, 1), lambdak(1, 1)>>,
    << One(K(1), ">>", K(2)), One(K(2), ">>", K(1)), Exe >>)

(* Two kernels that read each other beside a source, into one consumer. *)
CycleBeside == Application(<<generate, lambdak(1, 1), lambdak(1, 2), lambdak(2, 0)>>,
    << One(K(1), ">>", At(4, <<"0">>)), One(K(2), ">>", K(3)),
       One(At(3, <<"0">>), ">>", K(2)), One(At(3, <<"1">>), ">>", At(4, <<"1">>)), Exe >>)

(* A stream that is linked again, with a buffer size, after it was run. *)
LinkAgain == Application(<<generate, print(1)>>,
    << One(K(1), ">>", K(2)), Exe, Link(1, NoName, 2, NoName, 10), Exe >>)

(* A map that is run twice. *)
ExeTwice == Application(<<generate, print(1)>>, << One(K(1), ">>", K(2)), Exe, Exe >>)

(* A stream of a fixed size beside one that may grow. *)
FixedChain == Application(<<generate, sub, print(1)>>,
    << Link(1, NoName, 2, NoName, 10), One(K(2), ">>", K(3)), Exe >>)

MCProgram ==
    [Chain |-> Chain, ParallelChain |-> ParallelChain, Dynallocate |-> Dynallocate,
     ChainMultiplePorts |-> ChainMultiplePorts, Sums |-> Sums, SelectIn |-> SelectIn,
     SplitChain |-> SplitChain, StaticLongSplitChain |-> StaticLongSplitChain,
     StaticSplitJoin |-> StaticSplitJoin, StaticSplitChainJoin |-> StaticSplitChainJoin,
     StaticJoin |-> StaticJoin, StaticContJoin |-> StaticContJoin, MultiPrint |-> MultiPrint,
     RBzip2 |-> RBzip2, PartitionTest |-> PartitionTest, ForEach |-> ForEach,
     PortTypeException |-> PortTypeException, NoPortException |-> NoPortException,
     DisconnectedGraph |-> DisconnectedGraph, TwiceAdd |-> TwiceAdd,
     FixedAllocate |-> FixedAllocate,
     TwoIntoOne |-> TwoIntoOne, SplitNotCloned |-> SplitNotCloned,
     WideJoin |-> Joined(3), NarrowJoin |-> Joined(1), Nested |-> Nested,
     FourBrackets |-> FourBrackets, Feedback |-> Feedback, NoSource |-> NoSource,
     CycleBeside |-> CycleBeside, LinkAgain |-> LinkAgain,
     ExeTwice |-> ExeTwice, FixedChain |-> FixedChain]

AllPrograms == DOMAIN MCProgram

(* The programs of the test suite that build their graph without an error. *)
Passing ==
    {"Chain", "ParallelChain", "Dynallocate", "ChainMultiplePorts", "Sums", "SelectIn",
     "SplitChain", "StaticLongSplitChain", "StaticSplitJoin", "StaticSplitChainJoin",
     "StaticJoin", "StaticContJoin", "MultiPrint", "PartitionTest", "ForEach", "FixedAllocate"}

(* The defaults of exe(), where the graph is small; the other applications *)
(* run without a monitor, so that only the kernels interleave.             *)
Plain == [partition |-> "dummy", allocator |-> "stdalloc", monitor |-> "none"]
Default == [partition |-> "dummy", allocator |-> "dynalloc", monitor |-> "basic"]
MCTemplate ==
    [p \in AllPrograms |->
       CASE p \in {"Dynallocate", "ForEach", "FixedChain"} -> Default
         [] p \in {"Chain", "ExeTwice"} -> [Plain EXCEPT !.monitor = "basic"]
         [] p = "RBzip2" -> [Plain EXCEPT !.partition = "basic"]
         [] p \in {"ParallelChain", "MultiPrint"} -> [Plain EXCEPT !.partition = "scotch"]
         [] OTHER -> Plain]
=============================================================================
