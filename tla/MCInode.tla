------------------------------ MODULE MCInode ------------------------------
(***************************************************************************)
(* Constants of module Inode that a configuration cannot write: a name in  *)
(* the current directory, an absolute path and the parent as paths, an     *)
(* existing name and a name in a subdirectory as the new name of link; and *)
(* the symmetry of the processes.                                          *)
(***************************************************************************)
EXTENDS Inode

MCPaths == {<<"a">>, <<"/", "d">>, <<"..">>}
MCTargets == {<<"d">>, <<"d", "a">>}
Sym == Permutations(Proc)
=============================================================================
