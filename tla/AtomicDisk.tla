----------------------------- MODULE AtomicDisk -----------------------------
(***************************************************************************)
(* What the log promises the file system: the updates of an operation      *)
(* between begin_op and end_op reach the disk together or not at all, and  *)
(* a crash loses operations only as a whole.                               *)
(***************************************************************************)
CONSTANTS Block, Value, Proc

VARIABLES
  store,   \* what a crash would leave
  view,    \* what the running system reads
  active   \* processes inside an operation

Init ==
  /\ store \in [Block -> Value]
  /\ view = store
  /\ active = {}

Begin(p) ==
  /\ p \notin active
  /\ active' = active \cup {p}
  /\ UNCHANGED <<store, view>>

Write(p, b) ==
  /\ p \in active
  /\ \E v \in Value : view' = [view EXCEPT ![b] = v]
  /\ UNCHANGED <<store, active>>

Finish(p) ==
  /\ p \in active
  /\ active' = active \ {p}
  /\ UNCHANGED <<store, view>>

\* Everything finished becomes durable at once, while no operation is active.
Commit ==
  /\ active = {}
  /\ store' = view
  /\ UNCHANGED <<view, active>>

Crash ==
  /\ view' = store
  /\ active' = {}
  /\ UNCHANGED store

Next ==
  \/ \E p \in Proc : Begin(p) \/ Finish(p) \/ \E b \in Block : Write(p, b)
  \/ Commit
  \/ Crash

Spec == Init /\ [][Next]_<<store, view, active>>
=============================================================================
