------------------------------- MODULE MCPipe -------------------------------
(***************************************************************************)
(* Instance of Pipe: a write that does not fit into the pipe, one that     *)
(* does, and bytes that tell where they come from.                         *)
(***************************************************************************)
EXTENDS Pipe

MCBuffers == {<<0, 1, 2>>, <<3>>}
=============================================================================
