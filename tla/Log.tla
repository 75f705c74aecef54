--------------------------------- MODULE Log ---------------------------------
(***************************************************************************)
(* The redo log of log.c: begin_op, end_op, log_write, commit and          *)
(* recovery, with a crash possible between any two steps.  A write of one  *)
(* block is atomic.  log_write tests the limits of the log before it takes *)
(* log.lock, so the test and the append are two steps.                     *)
(*                                                                         *)
(* The buffer cache appears as cache, the contents that bread returns: a   *)
(* block that log_write has marked B_DIRTY is not evicted before bwrite,   *)
(* and any other cached block equals the one on disk.                      *)
(***************************************************************************)
EXTENDS Integers, Sequences, FiniteSets, Functions

CONSTANTS
  Proc,         \* processes that make file system calls
  Block,        \* home blocks
  Behind,       \* the home block right behind the log (block inodestart)
  MAXOPBLOCKS,  \* blocks that begin_op reserves for an operation
  OpBlocks,     \* blocks that an operation of fs.c really logs, at most
  LOGSIZE,      \* entries of struct logheader
  LogBlocks,    \* log.size: blocks of the on-disk log, header included
  MaxOps        \* bound: operations begun

ASSUME LogAssumption ==
  /\ MAXOPBLOCKS \in Nat \ {0} /\ OpBlocks \in 1..MAXOPBLOCKS
  /\ LOGSIZE \in Nat /\ LOGSIZE >= MAXOPBLOCKS /\ LogBlocks \in Nat /\ MaxOps \in Nat
  /\ IsFiniteSet(Proc) /\ IsFiniteSet(Block) /\ Behind \in Block

\* The log holds what the reservations let in.  mkfs makes LogBlocks = LOGSIZE,
\* header included, one block short for operations that log MAXOPBLOCKS blocks;
\* those of fs.c log fewer (a chunk of filewrite, the largest, logs at most 7 of 10).
ASSUME RoomAssumption == LOGSIZE - (MAXOPBLOCKS - OpBlocks) <= LogBlocks - 1

Value == 0..MaxOps   \* a block's contents: the operation that wrote it last

VARIABLES
  \* on disk
  home,         \* the blocks themselves
  logd,         \* data blocks of the log
  hdr,          \* header block: the block numbers, as a sequence of length n
  \* in memory
  cache,
  lh,           \* log.lh
  outstanding, committing,
  pc,           \* by process: "user", "begin", "asleep", "op", "commit"
  op,           \* by process: its operation, the blocks it has logged, and the
                \* one for which log_write has tested the limits and not yet more
  step,         \* position of commit() or of recovery
  tail,         \* its loop variable
  ops           \* history: operations begun

disk == <<home, logd, hdr>>
mem == <<cache, lh, outstanding, committing, pc, op>>
vars == <<disk, mem, step, tail, ops>>

NoOp == [id |-> 0, wrote |-> {}, logging |-> {}]

\* The machine is up, with an empty log.
Init ==
  /\ home = [b \in Block |-> 0]
  /\ logd = [i \in 1..(LogBlocks - 1) |-> 0]
  /\ hdr = <<>>
  /\ cache = home
  /\ lh = <<>>
  /\ outstanding = 0 /\ committing = FALSE
  /\ pc = [p \in Proc |-> "user"]
  /\ op = [p \in Proc |-> NoOp]
  /\ step = "none" /\ tail = 1
  /\ ops = 0

Up == step \notin {"read_head", "redo"}

-----------------------------------------------------------------------------
(***************************************************************************)
(* begin_op, log_write and the first half of end_op                        *)
(***************************************************************************)
Call(p) ==
  /\ Up
  /\ pc[p] = "user"
  /\ ops < MaxOps
  /\ ops' = ops + 1
  /\ op' = [op EXCEPT ![p].id = ops + 1]
  /\ pc' = [pc EXCEPT ![p] = "begin"]
  /\ UNCHANGED <<disk, cache, lh, outstanding, committing, step, tail>>

MustWait == \/ committing
            \/ Len(lh) + (outstanding + 1) * MAXOPBLOCKS > LOGSIZE

\* log.lock is held from the test to the sleep or to the increment.
BeginOp(p) ==
  /\ pc[p] = "begin"
  /\ IF MustWait
       THEN /\ pc' = [pc EXCEPT ![p] = "asleep"]
            /\ UNCHANGED outstanding
       ELSE /\ pc' = [pc EXCEPT ![p] = "op"]
            /\ outstanding' = outstanding + 1
  /\ UNCHANGED <<disk, cache, lh, committing, op, step, tail, ops>>

\* Absorption: a block already in the transaction takes no second entry.
Absorb(b) == IF b \in Range(lh) THEN lh ELSE Append(lh, b)

TooBig == Len(lh) >= LOGSIZE \/ Len(lh) >= LogBlocks - 1

\* p can call log_write for b: it holds the lock of that buffer.
MayLog(p, b) ==
  /\ pc[p] = "op" /\ op[p].logging = {}
  /\ \A q \in Proc : b \notin op[q].logging
  /\ Cardinality(op[p].wrote \cup {b}) <= OpBlocks

\* The operation changes b in its buffer; log_write tests the limits without lock.
LogTest(p, b) ==
  /\ MayLog(p, b)
  /\ ~TooBig
  /\ cache' = [cache EXCEPT ![b] = op[p].id]
  /\ op' = [op EXCEPT ![p].logging = {b}]
  /\ UNCHANGED <<disk, lh, outstanding, committing, pc, step, tail, ops>>

\* log_write records the block under log.lock.
LogAppend(p) ==
  /\ pc[p] = "op"
  /\ \E b \in op[p].logging :
       /\ lh' = Absorb(b)
       /\ op' = [op EXCEPT ![p].wrote = @ \cup {b}, ![p].logging = {}]
  /\ UNCHANGED <<disk, cache, outstanding, committing, pc, step, tail, ops>>

\* wakeup(&log)
Wakeup == [p \in Proc |-> IF pc[p] = "asleep" THEN "begin" ELSE pc[p]]

LastOut == outstanding = 1

EndOp(p) ==
  /\ pc[p] = "op" /\ op[p].logging = {}
  /\ outstanding' = outstanding - 1
  /\ op' = [op EXCEPT ![p] = NoOp]
  /\ IF LastOut
       THEN /\ committing' = TRUE
            /\ pc' = [pc EXCEPT ![p] = "commit"]
            /\ step' = IF lh = <<>> THEN "done" ELSE "write_log"
            /\ tail' = 1
       ELSE /\ pc' = [Wakeup EXCEPT ![p] = "user"]
            /\ UNCHANGED <<committing, step, tail>>
  /\ UNCHANGED <<disk, cache, lh, ops>>

-----------------------------------------------------------------------------
(***************************************************************************)
(* commit(), one disk write per step, and the second half of end_op.       *)
(* Block i of the log is disk block log.start + i; for i = log.size that   *)
(* is the home block behind the log.                                       *)
(***************************************************************************)
InLog(i) == i < LogBlocks

WriteLog ==
  /\ step = "write_log" /\ tail <= Len(lh)
  /\ LET v == cache[lh[tail]]
     IN  IF InLog(tail)
           THEN logd' = [logd EXCEPT ![tail] = v] /\ UNCHANGED <<home, cache>>
           ELSE /\ home' = [home EXCEPT ![Behind] = v]
                /\ cache' = [cache EXCEPT ![Behind] = v]
                /\ UNCHANGED logd
  /\ tail' = tail + 1
  /\ UNCHANGED <<hdr, lh, outstanding, committing, pc, op, step, ops>>

\* Block i of the log as bread returns it.
LogData(i) == IF InLog(i) THEN logd[i] ELSE cache[Behind]

\* Mutant: the header written before the last block of the log.
HeadEarly == step = "write_log" /\ tail >= Len(lh)
HeadReady == step = "write_log" /\ tail > Len(lh)

\* The commit point.
WriteHead ==
  /\ HeadReady
  /\ hdr' = lh
  /\ step' = "install" /\ tail' = 1
  /\ UNCHANGED <<home, logd, mem, ops>>

InstallTrans ==
  /\ step = "install" /\ tail <= Len(lh)
  /\ home' = [home EXCEPT ![lh[tail]] = LogData(tail)]
  /\ cache' = [cache EXCEPT ![lh[tail]] = LogData(tail)]
  /\ tail' = tail + 1
  /\ UNCHANGED <<logd, hdr, lh, outstanding, committing, pc, op, step, ops>>

\* Mutant: the header cleared before the last block is installed.
ClearEarly == tail >= Len(lh)
Installed == tail > Len(lh)

\* log.lh.n = 0; write_head()
ClearHead ==
  /\ step = "install" /\ Installed
  /\ lh' = <<>> /\ hdr' = <<>>
  /\ step' = "done" /\ tail' = 1
  /\ UNCHANGED <<home, logd, cache, outstanding, committing, pc, op, ops>>

\* Mutant: nobody woken after the commit.
NoWakeup(p) == [pc EXCEPT ![p] = "user"]
CommitWakes(p) == [Wakeup EXCEPT ![p] = "user"]

CommitDone(p) ==
  /\ pc[p] = "commit" /\ step = "done"
  /\ committing' = FALSE
  /\ pc' = CommitWakes(p)
  /\ step' = "none"
  /\ UNCHANGED <<disk, cache, lh, outstanding, op, tail, ops>>

-----------------------------------------------------------------------------
(***************************************************************************)
(* A crash loses memory; initlog() recovers before any operation starts.   *)
(***************************************************************************)
Restart ==
  /\ cache' = home
  /\ lh' = <<>> /\ outstanding' = 0 /\ committing' = FALSE
  /\ pc' = [p \in Proc |-> "user"]
  /\ op' = [p \in Proc |-> NoOp]
  /\ step' = "read_head" /\ tail' = 1

Crash ==
  /\ Restart
  /\ UNCHANGED <<disk, ops>>

\* log_write's panic stops the machine: it is restarted like after a crash.
Panic(p, b) ==
  /\ MayLog(p, b)
  /\ TooBig
  /\ Restart
  /\ UNCHANGED <<disk, ops>>

ReadHead ==
  /\ step = "read_head"
  /\ lh' = hdr
  /\ step' = "redo" /\ tail' = 1
  /\ UNCHANGED <<disk, cache, outstanding, committing, pc, op, ops>>

RedoTrans ==
  /\ step = "redo" /\ tail <= Len(lh)
  /\ home' = [home EXCEPT ![lh[tail]] = LogData(tail)]
  /\ cache' = [cache EXCEPT ![lh[tail]] = LogData(tail)]
  /\ tail' = tail + 1
  /\ UNCHANGED <<logd, hdr, lh, outstanding, committing, pc, op, step, ops>>

RecoverDone ==
  /\ step = "redo" /\ Installed
  /\ lh' = <<>> /\ hdr' = <<>>
  /\ step' = "none" /\ tail' = 1
  /\ UNCHANGED <<home, logd, cache, outstanding, committing, pc, op, ops>>

CommitStep == WriteLog \/ WriteHead \/ InstallTrans \/ ClearHead
Recovery == ReadHead \/ RedoTrans \/ RecoverDone

Next ==
  \/ \E p \in Proc : \/ Call(p) \/ BeginOp(p) \/ EndOp(p) \/ CommitDone(p)
                     \/ LogAppend(p) \/ \E b \in Block : LogTest(p, b) \/ Panic(p, b)
  \/ CommitStep
  \/ Crash
  \/ Recovery

Spec == Init /\ [][Next]_vars

-----------------------------------------------------------------------------
(***************************************************************************)
(* Properties.                                                             *)
(***************************************************************************)

\* Home blocks h overlaid by the data d of the blocks that header n names.
Overlay(h, d, n) ==
  [b \in Block |->
     LET at == {i \in DOMAIN n : n[i] = b}
     IN  IF at = {} THEN h[b] ELSE d[CHOOSE i \in at : \A j \in at : j <= i]]

\* The contents recovery would produce.
OnDisk == [i \in 1..LOGSIZE |-> IF InLog(i) THEN logd[i] ELSE home[Behind]]
Logical == Overlay(home, OnDisk, hdr)

\* Operations are atomic and durable across crashes, including crashes during
\* commit and during recovery, as often as they happen, and although log_write
\* tests the limits of the log before it takes log.lock, so that two operations
\* can pass at the last entry: the log implements AtomicDisk, and never writes
\* over the block behind it.
Atomic == INSTANCE AtomicDisk
            WITH store <- Logical,
                 view <- IF Up THEN cache ELSE Logical,
                 active <- {p \in Proc : pc[p] = "op"}
ImplementsAtomicDisk == Atomic!Spec

\* end_op "commits if this was the last outstanding operation": when no file
\* system call is in progress, what the system reads is what a crash would leave.
QuietMeansDurable ==
  Up /\ outstanding = 0 /\ ~committing => cache = Logical /\ lh = <<>>

\* Fairness: operations end (strong, because an operation may log a block again
\* and again, but not for ever), the committing process and recovery make progress,
\* and a woken process gets log.lock again.
Fairness ==
  /\ \A p \in Proc : /\ WF_vars(BeginOp(p)) /\ WF_vars(CommitDone(p))
                     /\ WF_vars(LogAppend(p)) /\ SF_vars(EndOp(p))
  /\ WF_vars(CommitStep) /\ WF_vars(Recovery)

FairSpec == Spec /\ Fairness

\* An operation that has to wait for log space or for a commit is admitted.
OpAdmitted ==
  \A p \in Proc : pc[p] \in {"begin", "asleep"} ~> pc[p] \in {"op", "user"}
=============================================================================
