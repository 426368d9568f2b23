----------------------------- MODULE MCSchedule -----------------------------
(***************************************************************************)
(* A graph for Schedule: kernel 1 is the source of two streams, kernel 2   *)
(* passes one of them on, kernel 3 takes what both send it.                *)
(*                                                                         *)
(*      1 --- "a" ---> 2 --- "c" ---> 3                                    *)
(*      1 ------------ "b" ---------> 3                                    *)
(***************************************************************************)
EXTENDS Schedule

MCStream == {"a", "b", "c"}
MCIn == << <<>>, <<"a">>, <<"b", "c">> >>
MCOut == << <<"a", "b">>, <<"c">>, <<>> >>

\* Only the source stops by itself.
SourceStops == <<3, 0, 0>>

\* The kernel in the middle stops by itself too.
TwoStop == <<2, 2, 0>>
=============================================================================
