----------------------------- MODULE MCConsole -----------------------------
(***************************************************************************)
(* Symmetry of module Console's processes.                                 *)
(***************************************************************************)
EXTENDS Console, TLC

Sym == Permutations(Proc)
=============================================================================
