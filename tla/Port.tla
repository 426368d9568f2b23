-------------------------------- MODULE Port --------------------------------
(***************************************************************************)
(* Ports and kernels, the values a stream graph is made of (port.hpp,      *)
(* port_info.hpp, kernel.hpp).                                             *)
(*                                                                         *)
(* A kernel is known by its place in the sequence of all kernels, its      *)
(* address.  The ports of one side of a kernel are a sequence of PortInfo  *)
(* records in the order of their names, the order in which the std::map of *)
(* a portmap_t is iterated.  An operation of the code that throws returns  *)
(* the name of the exception.                                              *)
(***************************************************************************)
EXTENDS Integers, Sequences, SequencesExt

NoKernel == 0            \* nullptr
NoName == ""             \* raft::null_port_value
NoFifo == 0
NoCore == -1

(* The exceptions of ports, of clone(), and none. *)
NoException == "none"
PortExceptions ==
    {"PortNotFound", "PortDoubleInitialize", "PortTypeMismatch",
     "AmbiguousPortAssignment", "PortAlreadyExists", "PortUnconnected"}
Exceptions == PortExceptions \cup {"CloneNotImplemented", "OutOfBounds", NoException}

(* A port as PortInfo describes it.  nitems is not 0 where the port lies   *)
(* in a buffer that existed before (existing_buffer).                      *)
PortInfo(name, type, nitems, start) ==
    [my_name |-> name, type |-> type,
     other_kernel |-> NoKernel, other_name |-> NoName,
     out_of_order |-> FALSE, fixed_buffer_size |-> 0,
     nitems |-> nitems, start_index |-> start, fifo |-> NoFifo]

(* std::map::find: the place of a port among its siblings, 0 if missing. *)
Find(ports, name) == SelectInSeq(ports, LAMBDA p : p.my_name = name)

(* add_port() throws PortAlreadyExists at the second port of a name, in    *)
(* the constructor of the kernel: a kernel there is has ports of different *)
(* names.                                                                  *)
add_port(spec) == PortInfo(spec.name, spec.type, 0, 0)

(* addPort< T >( names... ): one add_port after the other. *)
addPort(specs) == [i \in DOMAIN specs |-> add_port(specs[i])]

(* The slices of an existing buffer of length items: equal shares, what is *)
(* left over goes to the last port.                                        *)
addInPlacePorts(specs, length) ==
    LET n == Len(specs)
        share(i) == length \div n + IF i = n THEN length % n ELSE 0
    IN [i \in 1..n |-> PortInfo(specs[i].name, specs[i].type,
                                share(i), (i - 1) * (length \div n))]

hasPorts(ports) == ports # <<>>

count(ports) == Len(ports)

(* A port that is looked up: its place, or the exception thrown. *)
Found(i) == [at |-> i, thrown |-> NoException]
Missing(exception) == [at |-> 0, thrown |-> exception]

getPortInfoFor(ports, name) ==
    IF Find(ports, name) = 0 THEN Missing("PortNotFound") ELSE Found(Find(ports, name))

(* The only port: more than one is ambiguous, none is not found. *)
getPortInfo(ports) ==
    CASE count(ports) > 1 -> Missing("AmbiguousPortAssignment")
      [] count(ports) = 0 -> Missing("PortNotFound")
      [] count(ports) = 1 -> Found(1)

-----------------------------------------------------------------------------
(* A class of kernels: its ports, whether it has a clone(), the length of  *)
(* the array an in-place kernel works on (0 for the others), whether       *)
(* raft::kernel::make built it, and whether its run() returns raft::stop   *)
(* before the streams it reads have ended.                                 *)
Class(ins, outs) ==
    [input |-> ins, output |-> outs, clones |-> TRUE, length |-> 0, made |-> FALSE,
     stops |-> ins = <<>>]

(* The constructors of raft::kernel; id is the kernel count of the moment. *)
NewKernel(class, what, id) ==
    [class |-> what, id |-> id, clones |-> class.clones, stops |-> class.stops,
     input |-> addPort(class.input),
     output |-> IF class.length = 0 THEN addPort(class.output)
                ELSE addInPlacePorts(class.output, class.length),
     internal_alloc |-> class.made, enabled_port |-> <<>>, core_assign |-> NoCore]

(* make< T >() and clone() leave the kernel to the map to delete. *)
make(class) == [class EXCEPT !.made = TRUE]

(* Only the constructor without a buffer counts the kernel. *)
Counts(class) == IF class.length = 0 THEN 1 ELSE 0

(* CLONE(): the copy constructor adds the ports again, unconnected. *)
CopyOf(kernel, id) ==
    LET fresh(ports) == [i \in DOMAIN ports |-> PortInfo(ports[i].my_name, ports[i].type, 0, 0)]
    IN [kernel EXCEPT !.id = id, !.internal_alloc = TRUE, !.enabled_port = <<>>,
                      !.input = fresh(@), !.output = fresh(@), !.core_assign = NoCore]

(* A mutant: a third port is let in. *)
MaxEnabled_three == 3

(* kernel[ "name" ]: the ports a kernel is to be linked by next, two at most. *)
MaxEnabled == 2

(* getEnabledPort(): the port named first, or none. *)
EnabledPort(kernel) ==
    IF kernel.enabled_port = <<>> THEN NoName ELSE Head(kernel.enabled_port)
Disable(kernel) ==
    IF kernel.enabled_port = <<>> THEN kernel
    ELSE [kernel EXCEPT !.enabled_port = Tail(@)]

(* A mutant: only the inputs are looked at. *)
AllConnected_inputs(kernel) ==
    \A i \in DOMAIN kernel.input : kernel.input[i].other_kernel # NoKernel

(* allConnected() does not throw. *)
AllConnected(kernel) ==
    \A side \in {"input", "output"} : \A i \in DOMAIN kernel[side] :
        kernel[side][i].other_kernel # NoKernel
=============================================================================
