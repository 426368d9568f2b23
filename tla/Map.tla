-------------------------------- MODULE Map ---------------------------------
(***************************************************************************)
(* raft::map while an application builds its stream graph (map.hpp,        *)
(* map.cpp).  An application is a sequence of statements: additions        *)
(*                                                                         *)
(*      m += g <= s >> print;                                              *)
(*                                                                         *)
(* whose operators have been put in the order C++ evaluates them, direct   *)
(* calls of link(), and calls of exe(), which MapExe models.  An addition  *)
(* first builds its pairs, then operator += walks along them and links     *)
(* kernels, copying a kernel where a split or a join needs more of it.     *)
(***************************************************************************)
EXTENDS MapBase, FiniteSetsExt

CONSTANTS
    Program,        \* the applications, by name
    Programs        \* the names of those to be looked at

(* What C++ lets an application be: the ports of a kernel have different   *)
(* names, an operand is a kernel of main(), the result of an addition or a *)
(* pair that an operator of the same expression has built before, and no   *)
(* operator is called without an overload.                                 *)
PortSpecs == Seq([name : STRING, type : STRING])
NamesDiffer(specs) == \A i, j \in DOMAIN specs : specs[i].name = specs[j].name => i = j
Classes ==
    [input : PortSpecs, output : PortSpecs, clones : BOOLEAN, length : Nat,
     made : BOOLEAN, stops : BOOLEAN]
Latest == -1                \* the kernel of an operand: see Result
Operands == [pair : Nat, kernel : Int, ports : Seq(STRING)]
Operators == [op : {">>", ">>out", "<=", ">="}, l : Operands, r : Operands]
IsOperand(x, kernels, before) ==
    /\ x \in Operands
    /\ IF IsPair(x) THEN x.pair \in 1 .. before /\ x.ports = <<>>
       ELSE x.kernel \in DOMAIN kernels \cup {Latest}
IsStatement(s, kernels) ==
    \/ /\ s.kind = "add"
       /\ s.ops \in Seq(Operators) /\ s.ops # <<>>
       /\ \A j \in DOMAIN s.ops :
            /\ IsOperand(s.ops[j].l, kernels, j - 1) /\ IsOperand(s.ops[j].r, kernels, j - 1)
            /\ Overloads(s.ops[j].op, s.ops[j].l, s.ops[j].r)
    \/ /\ s.kind = "link"
       /\ s.a \in DOMAIN kernels /\ s.b \in DOMAIN kernels
       /\ s.a_port \in STRING /\ s.b_port \in STRING /\ s.buffer \in Nat
    \/ s.kind = "exe"

ASSUME ProgramsAssumption ==
    /\ Programs \subseteq DOMAIN Program
    /\ \A p \in Programs :
          /\ Program[p].kernels \in Seq(Classes)
          /\ \A k \in DOMAIN Program[p].kernels :
                /\ NamesDiffer(Program[p].kernels[k].input)
                /\ NamesDiffer(Program[p].kernels[k].output)
          /\ Program[p].main \in Seq(ToSet(Program[p].main))
          /\ \A i \in DOMAIN Program[p].main : IsStatement(Program[p].main[i], Program[p].kernels)

VARIABLES
    prog,       \* the application
    graph,      \* the world: kernels, pairs, keeper, kernel_count, thrown
    pc,         \* where the application's main() is
    stmt,       \* the statement it is at
    step,       \* the operator of the statement to be evaluated next
    add,        \* the local variables of operator +=
    ret         \* the kernel_pair_t of the last +=

mapVars == <<prog, graph, pc, stmt, step, add, ret>>

Code == Program[prog].main
Statement == Code[stmt]

(* The parts of a statement. *)
Add(ops) == [kind |-> "add", ops |-> ops]
Op(l, op, r) == [op |-> op, l |-> l, r |-> r]
Link(a, a_port, b, b_port, buffer) ==
    [kind |-> "link", a |-> a, a_port |-> a_port, b |-> b, b_port |-> b_port, buffer |-> buffer]

(* The first kernel of getDst() of the last kernel_pair_t, an operand too; *)
(* a statement that goes on from an addition is not run when that threw.   *)
Result(ports) == [pair |-> NoPair, kernel |-> Latest, ports |-> ports]
Operand(x) == IF x.kernel = Latest THEN [x EXCEPT !.kernel = Head(ret.dst)] ELSE x
HasValue(x) == x.kernel = Latest => ret.dst # <<>>

(* The local variables of operator +=.  Its loops over groups, over the    *)
(* kernels of a group and over the ports of a kernel take a turn per step; *)
(* group, kernel and port say which is next, port 0 what precedes them.    *)
NotAdding == [next |-> NoPair, groups |-> <<>>, temp_groups |-> <<>>, split_out_edges |-> <<>>,
              initialized |-> FALSE, src |-> <<>>, dst |-> <<>>,
              group |-> 1, kernel |-> 1, port |-> 0]
NoResult == [src |-> <<>>, dst |-> <<>>]

(* The kernels of main(), built one after the other. *)
Constructed(p) ==
    LET classes == Program[p].kernels
        counted(k) == Cardinality({j \in 1 .. k - 1 : Counts(classes[j]) = 1})
    IN [kernels |-> [k \in DOMAIN classes |-> NewKernel(classes[k], k, counted(k))],
        kernel_count |-> counted(Len(classes) + 1), pairs |-> <<>>,
        keeper |-> NoKernels, thrown |-> NoException]

MapInit ==
    /\ prog \in Programs
    /\ graph = Constructed(prog)
    /\ pc = "main"
    /\ stmt = 1 /\ step = 1
    /\ add = NotAdding /\ ret = NoResult

(* The end of a statement, and what an exception does in its place. *)
NextStatement ==
    /\ pc' = "main" /\ stmt' = stmt + 1 /\ step' = 1 /\ add' = NotAdding
EndsAs(w) ==
    /\ graph' = w
    /\ IF Thrown(w) THEN pc' = "thrown" /\ UNCHANGED <<stmt, step, add>> ELSE NextStatement

-----------------------------------------------------------------------------
(* The operators of the statement. *)
AtStatement(kind) == pc = "main" /\ stmt <= Len(Code) /\ Statement.kind = kind

EvalOperator ==
    /\ AtStatement("add")
    /\ step <= Len(Statement.ops)
    /\ HasValue(Statement.ops[step].l) /\ HasValue(Statement.ops[step].r)
    /\ LET e == Statement.ops[step]
           l == Operand(e.l)
           r == Operand(e.r)
           w == Apply(graph, e.op, l, r)
       IN /\ graph' = w
          /\ IF Thrown(w) THEN pc' = "thrown" /\ UNCHANGED step
             ELSE pc' = pc /\ step' = step + 1
    /\ UNCHANGED <<prog, stmt, add, ret>>

(* Up to the loop of operator +=: start at the head, with its source. *)
AddBegin ==
    /\ AtStatement("add")
    /\ step > Len(Statement.ops)
    /\ LET first == graph.pairs[Len(graph.pairs)].head
       IN add' = [NotAdding EXCEPT !.next = first, !.groups = << <<graph.pairs[first].src>> >>]
    /\ pc' = "adding"
    /\ UNCHANGED <<prog, graph, stmt, step, ret>>

(* joink(): link what the pair says at this moment. *)
joink(w, p) ==
    IF Thrown(w) THEN w
    ELSE link(w, w.pairs[p].src, w.pairs[p].src_name, w.pairs[p].dst, w.pairs[p].dst_name,
              w.pairs[p].buffer_size, w.pairs[p].out_of_order)

(* next->dst = next->dst->clone(), and likewise for the source. *)
CloneDst(w, p) ==
    LET v == clone(w, w.pairs[p].dst)
    IN IF Thrown(v) THEN v ELSE SetPair(v, p, [v.pairs[p] EXCEPT !.dst = Newest(v)])
CloneSrc(w, p) ==
    LET v == clone(w, w.pairs[p].src)
    IN IF Thrown(v) THEN v ELSE SetPair(v, p, [v.pairs[p] EXCEPT !.src = Newest(v)])

-----------------------------------------------------------------------------
(* The loop of operator += along the pairs.  The stack of link types holds *)
(* the splits that no join has closed, as many as split_out_edges has.     *)
AtPair(splits, joins) ==
    /\ pc = "adding"
    /\ add.next # NoPair
    /\ graph.pairs[add.next].split_to = splits
    /\ graph.pairs[add.next].join_from = joins
Next0 == graph.pairs[add.next]

(* A step leaves the world w and the local variables a, or an exception.   *)
Works(w, a) ==
    /\ graph' = w
    /\ IF Thrown(w) THEN pc' = "thrown" /\ UNCHANGED add ELSE pc' = pc /\ add' = a
    /\ UNCHANGED <<prog, stmt, step, ret>>

(* The end of a turn: sources are the kernels that the first pair of the   *)
(* addition, or the last join of copied chains, starts at.                 *)
Turn(sources, edges) ==
    Works(graph, [NotAdding EXCEPT !.next = Next0.next, !.groups = add.temp_groups,
                                   !.split_out_edges = edges, !.initialized = TRUE, !.src = sources])
Sources == IF add.initialized THEN add.src ELSE FlattenSeq(add.groups)

(* temp_groups, the destinations so far. *)
NewGroup(groups) == Append(groups, <<>>)
Put_once(groups, k) ==      \* a mutant: the copies of a group are forgotten
    IF groups[Len(groups)] = <<>> THEN [groups EXCEPT ![Len(groups)] = <<k>>] ELSE groups
Put(groups, k) == [groups EXCEPT ![Len(groups)] = Append(@, k)]
PutFirst(groups, k) == [groups EXCEPT ![1] = Append(@, k)]
NoneYet == add.temp_groups[1] = <<>>

InGroups == add.group <= Len(add.groups)
Group == add.groups[add.group]
InGroup == InGroups /\ add.kernel <= Len(Group)
NextGroup == [add EXCEPT !.group = @ + 1, !.kernel = 1, !.port = 0]

(* inline_cont, >>: one destination for each kernel, the first not a copy. *)
ContGroup ==
    /\ AtPair(FALSE, FALSE) /\ InGroups
    /\ Len(add.temp_groups) < add.group
    /\ Works(graph, [add EXCEPT !.temp_groups = NewGroup(@)])
ContKernel ==
    /\ AtPair(FALSE, FALSE) /\ InGroup
    /\ add.group <= Len(add.temp_groups)
    /\ LET copied == CloneDst(SetPair(graph, add.next, [Next0 EXCEPT !.src = Group[add.kernel]]), add.next)
       IN IF NoneYet
          THEN Works(joink(graph, add.next),
                     [add EXCEPT !.temp_groups = PutFirst(@, Next0.dst), !.kernel = @ + 1])
          ELSE Works(joink(copied, add.next),
                     [add EXCEPT !.temp_groups = Put(@, copied.pairs[add.next].dst), !.kernel = @ + 1])
ContGroupDone ==
    /\ AtPair(FALSE, FALSE) /\ InGroups /\ ~InGroup
    /\ add.group <= Len(add.temp_groups)
    /\ Works(graph, NextGroup)
AddCont ==
    /\ AtPair(FALSE, FALSE) /\ ~InGroups
    /\ Turn(Sources, add.split_out_edges)

(* inline_split, <=: one destination for each output port of each kernel. *)
SplitKernel ==
    /\ AtPair(TRUE, FALSE) /\ InGroup
    /\ add.port = 0
    /\ Works(graph, [add EXCEPT !.temp_groups = NewGroup(@), !.port = 1])
SplitPort ==
    /\ AtPair(TRUE, FALSE) /\ InGroup
    /\ add.port \in DOMAIN graph.kernels[Group[add.kernel]].output
    /\ LET k == Group[add.kernel]
           v == SetPair(graph, add.next,
                        [Next0 EXCEPT !.src = k, !.src_name = graph.kernels[k].output[add.port].my_name])
           d == IF NoneYet /\ add.port = 1 THEN v ELSE CloneDst(v, add.next)
       IN Works(joink(d, add.next),
                [add EXCEPT !.temp_groups = Put(@, d.pairs[add.next].dst), !.port = @ + 1])
SplitKernelDone ==
    /\ AtPair(TRUE, FALSE) /\ InGroup
    /\ add.port > Len(graph.kernels[Group[add.kernel]].output)
    /\ Works(graph, [add EXCEPT !.kernel = @ + 1, !.port = 0])
SplitGroupDone ==
    /\ AtPair(TRUE, FALSE) /\ InGroups /\ ~InGroup
    /\ Works(graph, NextGroup)
AddSplit ==
    /\ AtPair(TRUE, FALSE) /\ ~InGroups
    /\ Turn(Sources, <<Next0.src_out_count>> \o add.split_out_edges)

(* inline_join, >= after a <=: one destination for each group, as many of  *)
(* them together as the split had edges.  joinfunc links the kernels of    *)
(* the group to the input ports of the destination, in order; its loop is  *)
(* over the ports, so that a group with fewer kernels is overrun.          *)
JoinGroup ==
    /\ AtPair(FALSE, TRUE) /\ add.split_out_edges # <<>> /\ InGroups
    /\ add.port = 0
    /\ LET edges == Head(add.split_out_edges)
           temp == IF add.group = 1 \/ (edges # 0 /\ (add.group - 1) % edges = 0)
                   THEN NewGroup(add.temp_groups) ELSE add.temp_groups
           d == IF temp[1] = <<>> THEN graph ELSE CloneDst(graph, add.next)
       IN Works(d, [add EXCEPT !.temp_groups = Put(temp, d.pairs[add.next].dst), !.port = 1])
JoinPort ==
    /\ AtPair(FALSE, TRUE) /\ add.split_out_edges # <<>> /\ InGroups
    /\ add.port \in DOMAIN graph.kernels[Next0.dst].input
    /\ IF add.port > Len(Group) THEN Works(Throw(graph, "OutOfBounds"), add)
       ELSE Works(joink(SetPair(graph, add.next,
                          [Next0 EXCEPT !.src = Group[add.port],
                                        !.dst_name = graph.kernels[Next0.dst].input[add.port].my_name]),
                        add.next),
                  [add EXCEPT !.port = @ + 1])
JoinGroupDone ==
    /\ AtPair(FALSE, TRUE) /\ add.split_out_edges # <<>> /\ InGroups
    /\ add.port > Len(graph.kernels[Next0.dst].input)
    /\ Works(graph, NextGroup)
AddJoin ==
    /\ AtPair(FALSE, TRUE) /\ add.split_out_edges # <<>> /\ ~InGroups
    /\ Turn(Sources, Tail(add.split_out_edges))

(* inline_dup_join, >= without a <=: one source for each input port of the *)
(* destination.  A further port is given a copy of the source, or of the   *)
(* two kernels of the pair at the head; the copied source joins the group. *)
CopyChain(w, h, p) ==
    LET v == joink(CloneDst(CloneSrc(w, h), h), h)
    IN IF Thrown(v) THEN v ELSE SetPair(v, p, [v.pairs[p] EXCEPT !.src = v.pairs[h].dst])

DupJoinBegin ==
    /\ AtPair(FALSE, TRUE) /\ add.split_out_edges = <<>>
    /\ add.port = 0
    /\ Works(graph, [add EXCEPT !.temp_groups = NewGroup(@), !.port = 1])
DupJoinPort ==
    /\ AtPair(FALSE, TRUE) /\ add.split_out_edges = <<>>
    /\ add.port \in DOMAIN graph.kernels[Next0.dst].input
    /\ LET p == add.next
           first == add.port = 1
           v == CASE first -> graph
                  [] ~first /\ Next0.head # p -> CopyChain(graph, Next0.head, p)
                  [] ~first /\ Next0.head = p -> CloneSrc(graph, p)
           name == graph.kernels[Next0.dst].input[add.port].my_name
           a == [add EXCEPT !.port = @ + 1]
       IN Works(IF Thrown(v) THEN v
                ELSE joink(SetPair(v, p, [v.pairs[p] EXCEPT !.dst_name = name]), p),
                IF first THEN [a EXCEPT !.temp_groups = Put(@, Next0.dst)]
                ELSE [a EXCEPT !.groups[1] = Append(@, v.pairs[Next0.head].src)])
DupJoinOver ==
    /\ AtPair(FALSE, TRUE) /\ add.split_out_edges = <<>>
    /\ add.port > Len(graph.kernels[Next0.dst].input)
AddDupJoin_keepsSources ==     \* a mutant: the copies of the source are forgotten
    DupJoinOver /\ Turn(Sources, <<>>)
AddDupJoin == DupJoinOver /\ Turn(FlattenSeq(add.groups), <<>>)

Inline ==
    \/ ContGroup \/ ContKernel \/ ContGroupDone \/ AddCont
    \/ SplitKernel \/ SplitPort \/ SplitKernelDone \/ SplitGroupDone \/ AddSplit
    \/ JoinGroup \/ JoinPort \/ JoinGroupDone \/ AddJoin
    \/ DupJoinBegin \/ DupJoinPort \/ AddDupJoin

(* After the loop: the last kernels, group after group, are what +=        *)
(* returns, and the pairs go.                                              *)
AddDst ==
    /\ pc = "adding" /\ add.next = NoPair
    /\ add.groups # <<>>
    /\ Works(graph, [add EXCEPT !.dst = @ \o Head(add.groups), !.groups = Tail(@)])
Added == pc = "adding" /\ add.next = NoPair /\ add.groups = <<>>
AddEnd ==
    /\ Added
    /\ ret' = [src |-> add.src, dst |-> add.dst]
    /\ graph' = [graph EXCEPT !.pairs = <<>>]
    /\ NextStatement
    /\ UNCHANGED prog

(* link( &a, port, &b, port, buffer ), called by the application itself. *)
LinkDirectly ==
    /\ AtStatement("link")
    /\ EndsAs(link(graph, Statement.a, Statement.a_port, Statement.b, Statement.b_port,
                   Statement.buffer, FALSE))
    /\ ret' = IF Thrown(graph') THEN ret ELSE [src |-> <<Statement.a>>, dst |-> <<Statement.b>>]
    /\ UNCHANGED prog

(* The application catches an exception, and goes on with what follows the *)
(* statement, or it ends; the pairs of the statement are lost.             *)
Catch ==
    /\ pc = "thrown"
    /\ graph.thrown # "OutOfBounds"
    /\ graph' = [graph EXCEPT !.thrown = NoException, !.pairs = <<>>]
    /\ NextStatement
    /\ UNCHANGED <<prog, ret>>

(* An exception nobody catches, or a read beyond the end of a group. *)
Terminate ==
    /\ pc = "thrown"
    /\ pc' = "terminated"
    /\ UNCHANGED <<prog, graph, stmt, step, add, ret>>

(* ~MapBase(): the kernels the map has made are deleted. *)
Destroy ==
    /\ pc = "main" /\ stmt > Len(Code)
    /\ pc' = "done"
    /\ graph' = [graph EXCEPT !.keeper.internal = {}]
    /\ UNCHANGED <<prog, stmt, step, add, ret>>

Building ==
    \/ EvalOperator \/ AddBegin \/ Inline \/ AddDst \/ AddEnd
    \/ LinkDirectly \/ Catch \/ Terminate

-----------------------------------------------------------------------------
(* The properties of graph construction. *)
Outputs(k) == graph.kernels[k].output
Inputs(k) == graph.kernels[k].input

(* The two ends of a stream name each other and carry the same type, after *)
(* every addition and after every exception that cut one short: join()     *)
(* sets both ends or neither, and no input is given to two outputs.        *)
EdgesAreMutual ==
    \A k \in DOMAIN graph.kernels :
      /\ \A i \in DOMAIN Outputs(k) :
            LET out == Outputs(k)[i]
                j == Find(Inputs(out.other_kernel), out.other_name)
            IN out.other_kernel # NoKernel =>
                 /\ j # 0
                 /\ Inputs(out.other_kernel)[j].other_kernel = k
                 /\ Inputs(out.other_kernel)[j].other_name = out.my_name
                 /\ Inputs(out.other_kernel)[j].type = out.type
      /\ \A j \in DOMAIN Inputs(k) :
            LET in == Inputs(k)[j]
            IN in.other_kernel # NoKernel =>
                 LET i == Find(Outputs(in.other_kernel), in.other_name)
                 IN i # 0 /\ Outputs(in.other_kernel)[i].other_kernel = k

(* A port that has been connected is never connected elsewhere, however    *)
(* the statement ends that tries (PortDoubleInitializeException).          *)
EdgesAreStable ==
    [][\A k \in DOMAIN graph.kernels : \A side \in {"input", "output"} :
         \A i \in DOMAIN graph.kernels[k][side] :
           LET before == graph.kernels[k][side][i]
               after == graph'.kernels[k][side][i]
           IN before.other_kernel # NoKernel =>
                /\ after.other_kernel = before.other_kernel
                /\ after.other_name = before.other_name]_graph

(* The kernels the map is to delete are just those in the graph that were  *)
(* made for it, by clone() or make(): a copy in the graph is not lost when *)
(* the addition throws, and no kernel of main() is deleted (issue 77 of    *)
(* mapbase.hpp).                                                           *)
Declared == Len(Program[prog].kernels)
MapOwnsItsKernels ==
    pc # "done" =>
        graph.keeper.internal =
            {k \in graph.keeper.all : k > Declared \/ Program[prog].kernels[k].made}

(* What a statement writes: the kernels each operator's operands begin and *)
(* end with, and a stream from the end of the left one to the beginning of *)
(* the right one.                                                          *)
Written ==
    FoldLeft(LAMBDA acc, e :
        LET l == Operand(e.l)
            r == Operand(e.r)
            end(x, which) == IF IsPair(x) THEN acc.ends[x.pair][which] ELSE x.kernel
        IN [ends |-> Append(acc.ends, [first |-> end(l, "first"), last |-> end(r, "last")]),
            streams |-> acc.streams \cup {<<end(l, "last"), end(r, "first")>>}],
        [ends |-> <<>>, streams |-> {}], Statement.ops)
Copies(k) == {c \in graph.keeper.all : graph.kernels[c].class = graph.kernels[k].class}

(* What += returns as destinations is every kernel the addition ends at,   *)
(* the one written there and each of its copies, once, and it returns as   *)
(* many sources as there are copies of the kernel the addition starts at:  *)
(* on the way the groups of copies are split, joined and regrouped.        *)
AddReturnsTheEnds ==
    Added =>
        LET written == Written.ends[Len(Statement.ops)]
        IN /\ ToSet(add.dst) = Copies(written.last) /\ Len(add.dst) = Cardinality(ToSet(add.dst))
           /\ Len(add.src) = Cardinality(Copies(written.first))

(* inline_cont "takes care of >> syntax, even multiple ones" (map.hpp): if *)
(* a statement writes a stream from a to b then a is in the graph, and so  *)
(* is a stream from each copy of a to b or a copy of it.                   *)
StreamsAreAsWritten ==
    Added =>
        \A s \in Written.streams :
            /\ Copies(s[1]) # {}
            /\ \A c \in Copies(s[1]) : \E i \in DOMAIN Outputs(c) :
                  Outputs(c)[i].other_kernel \in Copies(s[2])
=============================================================================
