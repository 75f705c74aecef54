----------------------------- MODULE BlockStore -----------------------------
(***************************************************************************)
(* What the buffer cache promises to the code above it: blocks with one    *)
(* holder at a time.  The contents of a block change only by a write of    *)
(* its holder, and what is on disk changes only to the present contents of *)
(* a block that is held.                                                   *)
(***************************************************************************)
CONSTANTS Proc, Block, Value, NoProc

VARIABLES
  contents,  \* by block: what the next holder will see
  stored,    \* by block: what is on disk
  holder     \* by block

vars == <<contents, stored, holder>>

Init ==
  /\ contents \in [Block -> Value]
  /\ stored = contents
  /\ holder = [k \in Block |-> NoProc]

Take(p, k) ==
  /\ holder[k] = NoProc
  /\ holder' = [holder EXCEPT ![k] = p]
  /\ UNCHANGED <<contents, stored>>

Write(p, k) ==
  /\ holder[k] = p
  /\ \E v \in Value : contents' = [contents EXCEPT ![k] = v]
  /\ UNCHANGED <<stored, holder>>

Store(p, k) ==
  /\ holder[k] = p
  /\ stored' = [stored EXCEPT ![k] = contents[k]]
  /\ UNCHANGED <<contents, holder>>

Drop(p, k) ==
  /\ holder[k] = p
  /\ holder' = [holder EXCEPT ![k] = NoProc]
  /\ UNCHANGED <<contents, stored>>

Next ==
  \E p \in Proc, k \in Block : Take(p, k) \/ Write(p, k) \/ Store(p, k) \/ Drop(p, k)

Spec == Init /\ [][Next]_vars
=============================================================================
