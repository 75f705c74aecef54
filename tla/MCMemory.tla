------------------------------ MODULE MCMemory ------------------------------
(***************************************************************************)
(* Constants of module Memory that a configuration cannot write: two       *)
(* executables, of one segment and of two, and the arguments of sbrk.      *)
(***************************************************************************)
EXTENDS Memory

MCDeltas == {-2, -1, 3}
MCPrograms == {<<2>>, <<1, 3>>}
=============================================================================
