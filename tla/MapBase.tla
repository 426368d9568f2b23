------------------------------ MODULE MapBase -------------------------------
(***************************************************************************)
(* What every map of kernels can do (mapbase.hpp, mapbase.cpp): link a     *)
(* port of one kernel to a port of another, and remember the kernels.  The *)
(* world of KPair has, besides, keeper: the sets of the source, the        *)
(* destination and all kernels, and of the kernels the map has to delete.  *)
(***************************************************************************)
EXTENDS KPair

NoKernels == [source |-> {}, dst |-> {}, all |-> {}, internal |-> {}]

(* A mutant: the destination is not kept for deletion. *)
updateKernels_sourceOnly(w, a, b) ==
    LET only(k, condition) == IF condition THEN {k} ELSE {}
    IN [w EXCEPT !.keeper =
          [source |-> @.source \cup only(a, ~hasPorts(w.kernels[a].input)),
           dst |-> @.dst \cup only(b, ~hasPorts(w.kernels[b].output)),
           all |-> @.all \cup {a, b},
           internal |-> @.internal \cup only(a, w.kernels[a].internal_alloc)]]

(* Done before the ports are looked at, and so even if link() throws. *)
updateKernels(w, a, b) ==
    LET only(k, condition) == IF condition THEN {k} ELSE {}
        made(k) == only(k, w.kernels[k].internal_alloc)
    IN [w EXCEPT !.keeper =
          [source |-> @.source \cup only(a, ~hasPorts(w.kernels[a].input)),
           dst |-> @.dst \cup only(b, ~hasPorts(w.kernels[b].output)),
           all |-> @.all \cup {a, b},
           internal |-> @.internal \cup made(a) \cup made(b)]]

(* A port by its name, or the only one. *)
Discover(ports, name) ==
    IF name = NoName THEN getPortInfo(ports) ELSE getPortInfoFor(ports, name)

(* A port of a kernel that is written to. *)
SetOutput(w, k, i, port) == [w EXCEPT !.kernels[k].output[i] = port]
SetInput(w, k, i, port) == [w EXCEPT !.kernels[k].input[i] = port]

(* Each end names the other. *)
Connect(w, a, i, b, j) ==
    LET out == w.kernels[a].output[i]
        in  == w.kernels[b].input[j]
    IN SetInput(SetOutput(w, a, i, [out EXCEPT !.other_kernel = b, !.other_name = in.my_name]),
                b, j, [in EXCEPT !.other_kernel = a, !.other_name = out.my_name])

(* Mutants: one of the two ports may have been connected before. *)
join_ignoresInput(w, a, i, b, j) ==
    IF \/ w.kernels[a].output[i].type # w.kernels[b].input[j].type
       \/ w.kernels[a].output[i].other_kernel # NoKernel
    THEN Throw(w, "PortDoubleInitialize") ELSE Connect(w, a, i, b, j)
join_ignoresOutput(w, a, i, b, j) ==
    IF \/ w.kernels[a].output[i].type # w.kernels[b].input[j].type
       \/ w.kernels[b].input[j].other_kernel # NoKernel
    THEN Throw(w, "PortDoubleInitialize") ELSE Connect(w, a, i, b, j)

(* join(): of one type, and neither connected before. *)
join(w, a, i, b, j) ==
    LET out == w.kernels[a].output[i]
        in  == w.kernels[b].input[j]
    IN CASE out.type # in.type -> Throw(w, "PortTypeMismatch")
         [] out.type = in.type /\ out.other_kernel # NoKernel -> Throw(w, "PortDoubleInitialize")
         [] out.type = in.type /\ out.other_kernel = NoKernel /\ in.other_kernel # NoKernel ->
               Throw(w, "PortDoubleInitialize")
         [] OTHER -> Connect(w, a, i, b, j)

set_order(w, a, i, b, j, out_of_order) ==
    LET out == w.kernels[a].output[i]
        in  == w.kernels[b].input[j]
    IN IF Thrown(w) THEN w
       ELSE SetInput(SetOutput(w, a, i, [out EXCEPT !.out_of_order = out_of_order]),
                     b, j, [in EXCEPT !.out_of_order = out_of_order])

(* The port at one end of a link is looked up and given the buffer size.   *)
FixOutput(w, k, i, buffer) ==
    SetOutput(w, k, i, [w.kernels[k].output[i] EXCEPT !.fixed_buffer_size = buffer])
FixInput(w, k, i, buffer) ==
    SetInput(w, k, i, [w.kernels[k].input[i] EXCEPT !.fixed_buffer_size = buffer])

(* link< order >( a, a_port, b, b_port, buffer ) *)
link(w, a, a_port, b, b_port, buffer, out_of_order) ==
    LET u == updateKernels(w, a, b)
        i == Discover(u.kernels[a].output, a_port)
        v == FixOutput(u, a, i.at, buffer)
        j == Discover(v.kernels[b].input, b_port)
        z == FixInput(v, b, j.at, buffer)
    IN CASE i.thrown # NoException -> Throw(u, i.thrown)
         [] i.thrown = NoException /\ j.thrown # NoException -> Throw(v, j.thrown)
         [] OTHER -> set_order(join(z, a, i.at, b, j.at), a, i.at, b, j.at, out_of_order)

(* clone() of a kernel: the copy is the last kernel of the world. *)
clone(w, k) ==
    CASE Thrown(w) -> w
      [] ~Thrown(w) /\ ~w.kernels[k].clones -> Throw(w, "CloneNotImplemented")
      [] OTHER -> [w EXCEPT !.kernels = Append(@, CopyOf(@[k], w.kernel_count)),
                          !.kernel_count = @ + 1]
Newest(w) == Len(w.kernels)
=============================================================================
