------------------------------ MODULE MCFiles ------------------------------
(***************************************************************************)
(* Constants of module Files that a configuration cannot write: one file   *)
(* that mkfs copies into the image, the data written; and the symmetry of  *)
(* the processes.                                                          *)
(***************************************************************************)
EXTENDS Files, TLC

MCHostFiles == <<<<5, 6, 5>>>>
MCBuffers == {<<7>>, <<8, 9, 7>>}
Sym == Permutations(Proc)
=============================================================================
