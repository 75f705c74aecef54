------------------------------- MODULE Bcache -------------------------------
(***************************************************************************)
(* The buffer cache (bio.c), the sleep locks of its buffers (sleeplock.c)  *)
(* and the disk driver below it (ide.c), used by kernel threads that read, *)
(* change and write blocks the way fs.c and log.c do.                      *)
(*                                                                         *)
(* bcache.lock, idelock and the spinlock inside a sleep lock are each held *)
(* within one function, so each critical section is one step.  What a      *)
(* thread does to a buffer it has locked is part of the step before.       *)
(***************************************************************************)
EXTENDS Integers, Sequences, FiniteSets, FiniteSetsExt, Functions

CONSTANTS
  Proc,       \* kernel threads
  NoProc,     \* an unlocked sleep lock
  NBLOCK,     \* blocks
  LogBlock,   \* those of the log, the others being home blocks
  Indirect,   \* home blocks that are indirect blocks of a file
  NBUF,
  Faults,     \* whether a command of the disk may fail: {FALSE} or BOOLEAN
  MaxWrites   \* bound: changes of a block's contents

ASSUME BcacheAssumption ==
  /\ NBLOCK \in Nat \ {0} /\ NBUF \in Nat \ {0} /\ MaxWrites \in Nat
  /\ FALSE \in Faults /\ Faults \subseteq BOOLEAN
  /\ NoProc \notin Proc /\ IsFiniteSet(Proc)
  /\ LogBlock \subseteq 1..NBLOCK /\ Indirect \subseteq (1..NBLOCK) \ LogBlock

Block == 1..NBLOCK
Buf == 1..NBUF
NoBlock == 0
NoBuf == 0
Value == 0..MaxWrites   \* contents of a block: the number of the write

VARIABLES
  blockno, valid, dirty, refcnt, data,  \* struct buf: valid and dirty are its flags
  locked,     \* by buffer: the holder of its sleep lock
  list,       \* bcache.head: the buffers from most to least recently used
  idequeue,
  ctl,        \* the disk controller and the command it was given
  disk,       \* by block
  pc,         \* by thread: what it does next
  cur,        \* by thread: the buffer of the call in progress
  writes,     \* changes made
  panicked    \* bget found no buffer

bufvars == <<blockno, valid, dirty, data>>
idevars == <<idequeue, ctl, disk>>
vars == <<bufvars, refcnt, locked, list, idevars, pc, cur, writes, panicked>>

\* Values of pc: "run", between calls; "lock" and "locksleep", in acquiresleep
\* before the test of the lock and asleep; "iderw", "idesleep" and "idewake", in
\* iderw before it has idelock, asleep and woken up; "brelse", the sleep lock
\* released and bcache.lock not yet acquired.

Idle == [st |-> "idle", write |-> FALSE, block |-> NoBlock, data |-> 0, err |-> FALSE]

\* binit
Init ==
  /\ blockno = [b \in Buf |-> NoBlock]
  /\ valid = [b \in Buf |-> FALSE] /\ dirty = [b \in Buf |-> FALSE]
  /\ refcnt = [b \in Buf |-> 0] /\ data = [b \in Buf |-> 0]
  /\ locked = [b \in Buf |-> NoProc]
  /\ list = [i \in Buf |-> NBUF + 1 - i]
  /\ idequeue = <<>> /\ ctl = Idle
  /\ disk = [k \in Block |-> 0]
  /\ pc = [p \in Proc |-> "run"] /\ cur = [p \in Proc |-> NoBuf]
  /\ writes = 0 /\ panicked = FALSE

-----------------------------------------------------------------------------
\* bget

\* The places in the list of the buffers that hold block k.
Cached(k) == {i \in Buf : blockno[list[i]] = k}

\* The places of the buffers that may be used for another block.
UnusedDirtyToo == {i \in Buf : refcnt[list[i]] = 0}
Unused == {i \in Buf : refcnt[list[i]] = 0 /\ ~dirty[list[i]]}

Held(p) == {b \in Buf : locked[b] = p}

\* The callers that read block k while they hold block j: write_log and
\* install_trans, a home block while they hold the block of the log; bmap, through
\* balloc, the bitmap and then the new block while it holds the indirect block;
\* itrunc, through bfree, the bitmap.  All others hold one buffer at a time.
CopiesHome(j, k) == j \in LogBlock /\ k \notin LogBlock
Allocates(j, k) == j \in Indirect /\ k \notin LogBlock \cup Indirect
\* Mutant: install_trans reads the home block first.
SecondEitherWay(j, k) == CopiesHome(j, k) \/ Allocates(j, k) \/ CopiesHome(k, j)
Second(j, k) == CopiesHome(j, k) \/ Allocates(j, k)

MayRequest(p, k) ==
  /\ pc[p] = "run"
  /\ Cardinality(Held(p)) < 2
  /\ \A b \in Held(p) : Second(blockno[b], k)

BgetCached(p, k) ==
  /\ MayRequest(p, k) /\ Cached(k) # {}
  /\ LET b == list[Min(Cached(k))]
     IN  /\ refcnt' = [refcnt EXCEPT ![b] = @ + 1]
         /\ cur' = [cur EXCEPT ![p] = b]
  /\ pc' = [pc EXCEPT ![p] = "lock"]
  /\ UNCHANGED <<bufvars, locked, list, idevars, writes, panicked>>

BgetRecycle(p, k) ==
  /\ MayRequest(p, k) /\ Cached(k) = {} /\ Unused # {}
  /\ LET b == list[Max(Unused)]
     IN  /\ blockno' = [blockno EXCEPT ![b] = k]
         /\ valid' = [valid EXCEPT ![b] = FALSE]
         /\ dirty' = [dirty EXCEPT ![b] = FALSE]
         /\ refcnt' = [refcnt EXCEPT ![b] = 1]
         /\ cur' = [cur EXCEPT ![p] = b]
  /\ pc' = [pc EXCEPT ![p] = "lock"]
  /\ UNCHANGED <<data, locked, list, idevars, writes, panicked>>

\* panic("bget: no buffers")
BgetPanic(p, k) ==
  /\ MayRequest(p, k) /\ Cached(k) = {} /\ Unused = {}
  /\ panicked' = TRUE
  /\ UNCHANGED <<bufvars, refcnt, locked, list, idevars, pc, cur, writes>>

-----------------------------------------------------------------------------
\* acquiresleep, and bread's test whether the block has to be read
Acquiresleep(p) ==
  LET b == cur[p]
  IN  /\ pc[p] = "lock"
      /\ \/ /\ locked[b] # NoProc
            /\ pc' = [pc EXCEPT ![p] = "locksleep"]
            /\ UNCHANGED <<locked, cur>>
         \/ /\ locked[b] = NoProc
            /\ locked' = [locked EXCEPT ![b] = p]
            /\ pc' = [pc EXCEPT ![p] = IF valid[b] THEN "run" ELSE "iderw"]
            /\ cur' = [cur EXCEPT ![p] = IF valid[b] THEN NoBuf ELSE b]
      /\ UNCHANGED <<bufvars, refcnt, list, idevars, writes, panicked>>

\* wakeup(&b->lock): the threads asleep in acquiresleep test the lock again.
Wakes(b) == [p \in Proc |-> IF pc[p] = "locksleep" /\ cur[p] = b THEN "lock" ELSE pc[p]]

\* brelse: releasesleep, and then the count
Releasesleep(p, b) ==
  /\ pc[p] = "run" /\ locked[b] = p
  /\ locked' = [locked EXCEPT ![b] = NoProc]
  /\ pc' = [Wakes(b) EXCEPT ![p] = "brelse"]
  /\ cur' = [cur EXCEPT ![p] = b]
  /\ UNCHANGED <<bufvars, refcnt, list, idevars, writes, panicked>>

DropsAll(b) == 0
Drops(b) == refcnt[b] - 1

Place(b) == CHOOSE i \in Buf : list[i] = b

\* The list with b moved to its front.
Fronted(b) ==
  [i \in Buf |-> IF i = 1 THEN b ELSE IF i <= Place(b) THEN list[i - 1] ELSE list[i]]

Brelse(p) ==
  LET b == cur[p]
  IN  /\ pc[p] = "brelse"
      /\ refcnt' = [refcnt EXCEPT ![b] = Drops(b)]
      /\ list' = IF refcnt'[b] = 0 THEN Fronted(b) ELSE list
      /\ pc' = [pc EXCEPT ![p] = "run"]
      /\ cur' = [cur EXCEPT ![p] = NoBuf]
      /\ UNCHANGED <<bufvars, locked, idevars, writes, panicked>>

-----------------------------------------------------------------------------
\* The holder of a buffer changes its contents and leaves it to the log.
LogWrite(p, b) ==
  /\ pc[p] = "run" /\ locked[b] = p
  /\ writes < MaxWrites
  /\ writes' = writes + 1
  /\ data' = [data EXCEPT ![b] = writes']
  /\ dirty' = [dirty EXCEPT ![b] = TRUE]
  /\ UNCHANGED <<blockno, valid, refcnt, locked, list, idevars, pc, cur, panicked>>

\* bwrite, of contents just changed (write_log, write_head) or as they are
\* (install_trans)
Bwrite(p, b) ==
  /\ pc[p] = "run" /\ locked[b] = p
  /\ \/ UNCHANGED <<data, writes>>
     \/ /\ writes < MaxWrites
        /\ writes' = writes + 1
        /\ data' = [data EXCEPT ![b] = writes']
  /\ dirty' = [dirty EXCEPT ![b] = TRUE]
  /\ pc' = [pc EXCEPT ![p] = "iderw"]
  /\ cur' = [cur EXCEPT ![p] = b]
  /\ UNCHANGED <<blockno, valid, refcnt, locked, list, idevars, panicked>>

-----------------------------------------------------------------------------
\* idestart: the command for buffer b, with the data when it is a write
IdestartReads(b) == [st |-> "busy", write |-> FALSE, block |-> blockno[b], data |-> 0,
                     err |-> FALSE]
Idestart(b) ==
  [st |-> "busy", write |-> dirty[b], block |-> blockno[b],
   data |-> IF dirty[b] THEN data[b] ELSE 0, err |-> FALSE]

\* iderw starts the disk if the request is the first in the queue.
AlwaysStarts(q) == TRUE
Starts(q) == Len(q) = 1

Iderw(p) ==
  /\ pc[p] = "iderw"
  /\ idequeue' = Append(idequeue, cur[p])
  /\ ctl' = IF Starts(idequeue') THEN Idestart(cur[p]) ELSE ctl
  /\ pc' = [pc EXCEPT ![p] = "idesleep"]
  /\ UNCHANGED <<bufvars, refcnt, locked, list, disk, cur, writes, panicked>>

\* The loop of iderw after wakeup: the caller of bread or bwrite goes on.
IderwReturn(p) ==
  /\ pc[p] = "idewake"
  /\ LET done == valid[cur[p]] /\ ~dirty[cur[p]]
     IN  /\ pc' = [pc EXCEPT ![p] = IF done THEN "run" ELSE "idesleep"]
         /\ cur' = [cur EXCEPT ![p] = IF done THEN NoBuf ELSE @]
  /\ UNCHANGED <<bufvars, refcnt, locked, list, idevars, writes, panicked>>

\* The controller carries out its command, or fails, and raises the interrupt.
Complete ==
  /\ ctl.st = "busy"
  /\ \E e \in Faults :
       /\ disk' = IF ctl.write /\ ~e THEN [disk EXCEPT ![ctl.block] = ctl.data] ELSE disk
       /\ ctl' = [ctl EXCEPT !.st = "done", !.err = e]
  /\ UNCHANGED <<bufvars, refcnt, locked, list, idequeue, pc, cur, writes, panicked>>

\* ideintr starts the next request of the queue.
\* Mutant: it does not.
NextForgotten(q) == Idle
NextRequest(q) == IF q = <<>> THEN Idle ELSE Idestart(Head(q))

\* The handler, which marks the buffer valid even when idewait reports an error.
\* An interrupt with an empty queue changes nothing.
Ideintr ==
  LET b == Head(idequeue)
  IN  /\ ctl.st = "done" /\ idequeue # <<>>
      /\ idequeue' = Tail(idequeue)
      /\ data' = IF dirty[b] \/ ctl.err THEN data ELSE [data EXCEPT ![b] = disk[ctl.block]]
      /\ valid' = [valid EXCEPT ![b] = TRUE]
      /\ dirty' = [dirty EXCEPT ![b] = FALSE]
      /\ pc' = [p \in Proc |-> IF pc[p] = "idesleep" /\ cur[p] = b THEN "idewake" ELSE pc[p]]
      /\ ctl' = NextRequest(Tail(idequeue))
      /\ UNCHANGED <<blockno, refcnt, locked, list, disk, cur, writes, panicked>>

-----------------------------------------------------------------------------
Bget(p) == \E k \in Block : BgetCached(p, k) \/ BgetRecycle(p, k) \/ BgetPanic(p, k)
Release(p) == \E b \in Buf : Releasesleep(p, b)
KernelStep(p) == Iderw(p) \/ IderwReturn(p) \/ Brelse(p)

Next ==
  /\ ~panicked
  /\ \/ \E p \in Proc : \/ Bget(p) \/ Acquiresleep(p) \/ Release(p) \/ KernelStep(p)
                        \/ \E b \in Buf : LogWrite(p, b) \/ Bwrite(p, b)
     \/ Complete
     \/ Ideintr

Spec == Init /\ [][Next]_vars

(***************************************************************************)
(* Fairness: threads run, the disk answers and interrupts, and a caller    *)
(* that holds a buffer goes on to another call or to brelse.  All of it is *)
(* weak: nothing is assumed about who wins the race for a sleep lock.      *)
(***************************************************************************)
Live(A) == ~panicked /\ A
Fairness ==
  /\ \A p \in Proc : WF_vars(Live(KernelStep(p) \/ Acquiresleep(p) \/ Release(p)))
  /\ WF_vars(Live(Complete)) /\ WF_vars(Live(Ideintr))
FairSpec == Spec /\ Fairness

-----------------------------------------------------------------------------
\* refcnt counts the threads that hold a buffer or are in a call about it: no
\* buffer is given another block under a thread's hands, and none is lost.
RefcntExact ==
  \A b \in Buf : refcnt[b] = Cardinality({p \in Proc : locked[b] = p \/ cur[p] = b})

\* A valid buffer that is not dirty agrees with the disk, so that bget may throw
\* it away (log.c relies on it for the blocks it has installed).
CleanIsStored ==
  \A b \in Buf : valid[b] /\ ~dirty[b] => data[b] = disk[blockno[b]]

\* The driver's queue: the controller works on the first request (ide.c says
\* "First queued buffer is the active request"), a buffer is queued at most once,
\* and exactly while its holder sleeps in iderw.
QueueActive ==
  /\ idequeue = <<>> <=> ctl.st = "idle"
  /\ idequeue # <<>> => /\ ctl.block = blockno[Head(idequeue)]
                        /\ ctl.write = dirty[Head(idequeue)]
  /\ IsInjective(idequeue)
  /\ \A b \in Buf : b \in Range(idequeue) <=>
                      \E p \in Proc : pc[p] = "idesleep" /\ cur[p] = b /\ locked[b] = p

\* The cache implements blocks with one holder at a time (module BlockStore).
BufferOf(k) == {b \in Buf : blockno[b] = k /\ valid[b]}
Contents == [k \in Block |-> IF BufferOf(k) = {} THEN disk[k]
                             ELSE data[CHOOSE b \in BufferOf(k) : TRUE]]
Holder == [k \in Block |-> IF BufferOf(k) = {} THEN NoProc
                           ELSE locked[CHOOSE b \in BufferOf(k) : TRUE]]
Store == INSTANCE BlockStore WITH contents <- Contents, stored <- disk, holder <- Holder

\* A holder sees the last write of the block, whichever buffers it went through
\* since, and only the holder's own contents reach the disk.
ImplementsStore == Store!Spec

\* iderw returns to every caller: the queue is served in order, each request is
\* started once and its caller is woken up, however many others arrive.
IderwReturns ==
  \A p \in Proc : pc[p] \in {"iderw", "idesleep", "idewake"} ~> pc[p] = "run" \/ panicked

\* The callers never wait for each other in a circle, and no wakeup of a sleep lock
\* is lost: while calls are in progress, calls return.  Which of the threads that
\* want a buffer gets it is not said, acquiresleep has no queue.
Returns == \E p \in Proc : pc[p] # "run" /\ pc'[p] = "run"
NoStandstill ==
  []<>(panicked \/ \A p \in Proc : pc[p] = "run") \/ []<><<Returns>>_vars
=============================================================================
