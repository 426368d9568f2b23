---------------------------- MODULE Applications ----------------------------
(***************************************************************************)
(* The applications of the test suite and of the examples, as Map reads    *)
(* them: the kernels main() declares, with the ports their constructors    *)
(* add, and the statements it runs, the operators of an addition in the    *)
(* order of their evaluation (>> binds tighter than <= and >=, which group *)
(* from the left).  Applications of one shape are given once.              *)
(***************************************************************************)
EXTENDS MapExe

(* STATICPORT of the tests, fewer ports than the 3 or 4 they ask for. *)
StaticPort == 2

(* Ports of one type, by their names. *)
Ports(names, type) == [i \in DOMAIN names |-> [name |-> names[i], type |-> type]]
Numbered(n, type) == Ports([i \in 1 .. n |-> ToString(i - 1)], type)
Application(kernels, main) == [kernels |-> kernels, main |-> main]

NotCloned(class) == [class EXCEPT !.clones = FALSE]

(* The kernels the applications declare. *)
random_variate(n) == Class(<<>>, Numbered(n, "T"))
generate == NotCloned(Class(<<>>, Ports(<<"number_stream">>, "T")))
sub == Class(Numbered(1, "T"), Numbered(1, "T"))
print(n) == Class(Numbered(n, "T"), <<>>)
joiner(n) == NotCloned(Class(Numbered(n, "T"), Numbered(1, "T")))
sum(a, b) ==
    NotCloned(Class(Ports(<<"input_a">>, a) \o Ports(<<"input_b">>, b), Ports(<<"sum">>, "T")))
lambdak(in, out) == NotCloned(Class(Numbered(in, "T"), Numbered(out, "T")))
filereader(n) == NotCloned(Class(<<>>, Numbered(n, "chunk")))
compress == Class(Ports(<<"in">>, "chunk"), Ports(<<"out">>, "chunk"))
filewrite(n) == NotCloned(Class(Numbered(n, "chunk"), <<>>))
for_each(length) == [NotCloned(Class(<<>>, Numbered(1, "T"))) EXCEPT !.length = length]

(* Shorthands: the k-th kernel, with the ports in its brackets. *)
K(k) == Kernel(k, <<>>)
At(k, ports) == Kernel(k, ports)
One(l, op, r) == Add(<<Op(l, op, r)>>)

-----------------------------------------------------------------------------
(* m += g >> s >> print *)
Chain == Application(<<random_variate(1), lambdak(1, 1), print(1)>>,
    << Add(<<Op(K(1), ">>", K(2)), Op(Pair(1), ">>", K(3))>>), Exe >>)

(* m += g >> order::out >> s >> order::out >> print *)
ParallelChain == Application(<<random_variate(1), lambdak(1, 1), print(1)>>,
    << Add(<<Op(K(1), ">>out", K(2)), Op(Pair(1), ">>out", K(3))>>), Exe >>)

(* m += a >> print *)
Dynallocate == Application(<<generate, print(1)>>, << One(K(1), ">>", K(2)), Exe >>)

(* m += g0 >> add[ "0" ][ "0" ] >> print; m += g1 >> add[ "1" ] *)
ChainMultiplePorts == Application(<<random_variate(1), random_variate(1), lambdak(2, 1), print(1)>>,
    << Add(<<Op(K(1), ">>", At(3, <<"0", "0">>)), Op(Pair(1), ">>", K(4))>>),
       One(K(2), ">>", At(3, <<"1">>)), Exe >>)

(* m += a >> s[ "input_a" ]; m += b >> s[ "input_b" ]; m += s >> print *)
Sums == Application(<<generate, generate, sum("T", "T"), print(1)>>,
    << One(K(1), ">>", At(3, <<"input_a">>)), One(K(2), ">>", At(3, <<"input_b">>)),
       One(K(3), ">>", K(4)), Exe >>)

(* Three sources, one of which is always ready. *)
SelectIn == Application(
    <<generate, generate, generate,
      NotCloned(Class(Ports(<<"x_1", "x_2", "x_3">>, "T"), Ports(<<"y_1">>, "T"))), print(1)>>,
    << One(K(1), ">>", At(4, <<"x_1">>)), One(K(2), ">>", At(4, <<"x_2">>)),
       One(K(3), ">>", At(4, <<"x_3">>)), One(K(4), ">>", K(5)), Exe >>)

(* m += g <= s >> print: s and print for each port of g. *)
SplitChain == Application(<<random_variate(StaticPort), sub, print(1)>>,
    << Add(<<Op(K(2), ">>", K(3)), Op(K(1), "<=", Pair(1))>>), Exe >>)

(* m += g <= s >> s2 >> print *)
StaticLongSplitChain == Application(<<random_variate(StaticPort), sub, sub, print(1)>>,
    << Add(<<Op(K(2), ">>", K(3)), Op(Pair(1), ">>", K(4)), Op(K(1), "<=", Pair(2))>>), Exe >>)

(* m += g <= s >= jo >> print *)
StaticSplitJoin == Application(<<random_variate(StaticPort), sub, joiner(StaticPort), print(1)>>,
    << Add(<<Op(K(1), "<=", K(2)), Op(K(3), ">>", K(4)), Op(Pair(1), ">=", Pair(2))>>), Exe >>)

(* m += g <= s >> s2 >= jo >> print *)
StaticSplitChainJoin == Application(
    <<random_variate(StaticPort), sub, sub, joiner(StaticPort), print(1)>>,
    << Add(<<Op(K(2), ">>", K(3)), Op(K(1), "<=", Pair(1)), Op(K(4), ">>", K(5)),
             Op(Pair(2), ">=", Pair(3))>>), Exe >>)

(* m += g >= jo >> print: a copy of g for each port of jo. *)
StaticJoin == Application(<<random_variate(1), joiner(StaticPort), print(1)>>,
    << Add(<<Op(K(2), ">>", K(3)), Op(K(1), ">=", Pair(1))>>), Exe >>)

(* m += ( g >> s >> s2 ) >= jo >> print *)
StaticContJoin == Application(<<random_variate(1), sub, sub, joiner(StaticPort), print(1)>>,
    << Add(<<Op(K(1), ">>", K(2)), Op(Pair(1), ">>", K(3)), Op(K(4), ">>", K(5)),
             Op(Pair(2), ">=", Pair(3))>>), Exe >>)

(* m += g >= print *)
MultiPrint == Application(<<random_variate(1), print(StaticPort)>>,
    << One(K(1), ">=", K(2)), Exe >>)

(* m += reader <= c >= writer *)
RBzip2 == Application(<<filereader(StaticPort), compress, filewrite(StaticPort)>>,
    << Add(<<Op(K(1), "<=", K(2)), Op(Pair(1), ">=", K(3))>>), Exe >>)

(* The kernels in the middle, two of the five, are made while the graph is *)
(* built, and the last kernel of an addition is the first of the next.     *)
PartitionTest == Application(
    <<generate, lambdak(1, 1), make(lambdak(1, 1)), make(lambdak(1, 1)), print(1)>>,
    << One(K(1), ">>", K(2)), One(Result(<<>>), ">>", K(3)), One(Result(<<>>), ">>", K(4)),
       One(Result(<<>>), ">>", K(5)), Exe >>)

(* The array lies in the stream from the start. *)
ForEach == Application(<<print(1), for_each(100)>>, << One(K(2), ">>", K(1)), Exe >>)

(* The second addition throws PortTypeMismatchException. *)
PortTypeException == Application(<<generate, generate, sum("T", "float"), print(1)>>,
    << One(K(1), ">>", At(3, <<"input_a">>)), One(K(2), ">>", Result(<<"input_b">>)),
       One(K(3), ">>", K(4)), Exe >>)

(* The consumer has no port: PortNotFoundException. *)
NoPortException == Application(
    <<NotCloned(Class(<<>>, Ports(<<"out">>, "T"))), NotCloned(Class(<<>>, <<>>))>>,
    << One(K(1), ">>", K(2)), Exe >>)

(* One input of sum stays unconnected: exe() throws. *)
DisconnectedGraph == Application(
    <<generate, generate,
      NotCloned(Class(Ports(<<"fail", "input_a", "input_b">>, "T"), Ports(<<"sum">>, "T"))), print(1)>>,
    << One(K(1), ">>", At(3, <<"input_a">>)), One(K(2), ">>", At(3, <<"input_b">>)),
       One(K(3), ">>", K(4)), Exe >>)

(* a is linked a second time: PortDoubleInitializeException. *)
TwiceAdd == Application(<<generate, generate, sum("T", "T"), print(1)>>,
    << One(K(1), ">>", At(3, <<"input_a">>)), One(K(1), ">>", At(3, <<"input_b">>)),
       One(K(2), ">>", At(3, <<"input_b">>)), One(K(3), ">>", K(4)), Exe >>)

(* link() with a buffer of ten items for one of the streams. *)
FixedAllocate == Application(<<generate, generate, sum("T", "T"), print(1)>>,
    << Link(1, NoName, 3, "input_a", 10), One(K(2), ">>", At(3, <<"input_b">>)),
       One(K(3), ">>", K(4)), Exe >>)

-----------------------------------------------------------------------------
(* Six tests build the graphs above once more, and look at how many        *)
(* sources and destinations the kernel_pair_t of their addition has.       *)
Sizes(src, dst) == [src |-> src, dst |-> dst]
RetStruct(application, sizes) == [application |-> application, sizes |-> sizes]
splitchainRetStruct == RetStruct(SplitChain, Sizes(1, StaticPort))
staticLongSplitChainRetStruct == RetStruct(StaticLongSplitChain, Sizes(1, StaticPort))
staticSplitJoinRetStruct == RetStruct(StaticSplitJoin, Sizes(1, 1))
staticSplitChainJoinRetStruct == RetStruct(StaticSplitChainJoin, Sizes(1, 1))
staticJoinRetStruct == RetStruct(StaticJoin, Sizes(StaticPort, 1))
staticContJoinRetStruct == RetStruct(StaticContJoin, Sizes(StaticPort, 1))

RetStructTests ==
    {splitchainRetStruct, staticLongSplitChainRetStruct, staticSplitJoinRetStruct,
     staticSplitChainJoinRetStruct, staticJoinRetStruct, staticContJoinRetStruct}

(* The kernel_pair_t of += has the sizes that these tests demand of it     *)
(* ("Return kernel_pair_t source should be of size 1 for this test"), the  *)
(* copies that a split or a join makes counted in.                         *)
ReturnedSizes ==
    \A t \in RetStructTests :
        Program[prog] = t.application /\ ret # NoResult =>
            Sizes(Len(ret.src), Len(ret.dst)) = t.sizes
=============================================================================
