# A TLA+ development for the xv6 kernel

This directory models the kernel under `src/xv6` (xv6 for x86 with the extra
schedulers PBS, FCFS and MLFQ and the system calls `waitx`, `chprty`, `cps` and
`getpinfo`).  TLC checks the models on small instances; TLAPS proves theorems
about them for every value of their constants.

## The system's parts

The kernel is a set of tables, each with a spinlock, used by the kernel threads
of processes on several CPUs and by interrupt handlers:

* the process table with fork, exit, wait, sleep, wakeup, kill and the context
  switch (`proc.c`, `trap.c`);
* the schedulers (`proc.c`), of which the build selects one;
* spinlocks and sleeping locks (`spinlock.c`, `sleeplock.c`);
* pipes and the file table (`pipe.c`, `file.c`);
* the disk driver, the buffer cache and the log (`ide.c`, `bio.c`, `log.c`);
* inodes, directories, path names and the file system calls (`fs.c`,
  `sysfile.c`);
* physical pages, page tables and exec (`kalloc.c`, `vm.c`, `exec.c`);
* the console (`console.c`), user-level programs and the boot code.

## Modules and the code they model

| Module | Code | State | Actions |
|---|---|---|---|
| `Proc` | `proc.c`, `trap.c`, `sysproc.c` | `ptable` (state, pid, parent, chan, killed), `ptable.lock`, `tickslock`, `ticks`, each CPU's `proc` and scheduler loop, each kernel thread's position | allocproc, fork, exit, wait, sleep, wakeup, kill, yield, sched, the round-robin scheduler, timer interrupt, system call entry and return |
| `ProcTypes`, `ProcCore`, `ProcCalls`, `ProcFamily` | – | – | theorems about `Proc` |
| `Pipe` | `pipe.c`, `file.c` | ring buffer, counters that wrap, open flags, references of the two files | pipewrite, piperead and sleep in a step of its own, pipeclose, filedup and fileclose as far as pipes use them, kill |
| `ByteQueue` | – | the abstract FIFO of bytes that `Pipe` implements | |
| `PipeProofs` | – | – | theorems about `Pipe` |
| `Log` | `log.c` | disk blocks, on-disk log and header, in-memory header, outstanding, committing | begin_op, the two halves of log_write, end_op, each disk write of commit and recovery, crash |
| `AtomicDisk` | – | the abstract disk on which whole groups of operations take effect at once, that `Log` implements | |
| `LogProofs` | – | – | theorems about `Log` |
| `Bcache` | `bio.c`, `sleeplock.c`, `ide.c` | buffers with flags, reference count and sleep lock, the LRU list, the driver's queue, the controller's command, the disk | bget (hit, recycle, panic), acquiresleep, releasesleep, brelse, log_write, bwrite, iderw, ideintr, completion by the controller |
| `BlockStore` | – | the abstract store that `Bcache` implements: blocks with one holder at a time | |
| `BcacheProofs`, `BcacheStore` | – | – | theorems about `Bcache` |
| `Inode` | `fs.c`, `sysfile.c`, `file.c` | inode cache (ref, valid, lock, copy), disk inodes, directories, descriptors, current directories, the rest of each process's call | every path call, step by step: namex, iget, ilock, the four parts of iput, link, unlink, create, open, mkdir, mknod, chdir, close, and the panics |
| `Files` | `fs.c`, `file.c`, `sysfile.c`, `mkfs.c` | bitmap, blocks, addresses and sizes of inodes, the file table, descriptors | open, dup, fork, close, unlink, create, read, write and each chunk of it (balloc, bmap, readi, writei, itrunc), the step that advances `f->off`; mkfs is the initial state |
| `FileStore` | – | what `Files` implements: files as sequences of bytes, open files with one offset each, descriptors | |
| `Memory` | `kalloc.c`, `vm.c`, `exec.c`, `proc.c` | free list, address spaces with their page tables, kernel stacks, sizes | sbrk, fork, exec, exit and wait, one step for each page |
| `Console` | `console.c`, `spinlock.c`, `trap.c`, `proc.c` | the ring of typed characters, spin locks, each CPU's interrupt flag, ncli and intena, what each CPU has still to execute | acquire, spinning, release, sched and the scheduler (with what `fcfs_scheduler` prints), timer and keyboard interrupts, consoleintr, consoleread, kill, return from traps |
| `MCPipe`, `MCInode`, `MCFiles`, `MCMemory`, `MCConsole` | – | – | constants and symmetries for TLC |
| `Sched` | `priority_scheduler`, `fcfs_scheduler`, `chprty` | states, ctime, priority, each CPU's loop variable, `running_p` | choose and switch, skip, end of scan, yield, block, wake, chprty |
| `Mlfq` | `MLFQ_scheduler`, `allocproc` | queues, `pstat_var`, pids, ticks | enter, age, switch, demote or rotate, allocate, reap, wake up |

A step is the code between two points where another CPU can interfere. Where a
lock is taken and released inside one function the critical section is one step.
`ptable.lock` is held across `swtch`, so sections that enter the scheduler are
several steps and the model has a variable for its holder. `Proc` is the ground
the others stand on: `Pipe` and `Log` use sleep and wakeup with the meaning
established there, `Sched` and `Mlfq` replace the scheduler loop. `Inode` and `Files`
split the file system between them: names, references and locks in the one,
blocks, offsets and contents in the other; both run inside the transactions of
`Log`, on the blocks of `Bcache`. `Console` is the one module that goes below the
spinlocks: it executes each acquire and release, so that it can show what the
others take for granted, that interrupts are off while a lock is held.

In `Inode` and `Console` an actor's program is a list of operations, `todo`: a call
puts its steps in front of the list. This is the kernel stack, and it shows what
a process holds while it waits.

Abstractions: `Proc` knows memory only as the failure of an allocation, which
`Memory` takes apart; `Memory` knows exit and wait only by the pages they keep and
free, and lets any process reap any zombie; pages have no contents; user
programs are any sequence of the system calls in `UserCalls`, except that the first process forks and waits for ever, like
`init.c`; file contents are the number of the operation that wrote them; the disk of
`Bcache` reports no errors in the run (`Faults = {FALSE}`), because `ideintr` marks
a buffer valid even when `idewait` reports one and nothing above can tell.
`Log` takes from `Bcache` that a clean cached block equals the one on disk
(`CleanIsStored`) and that a dirty one is not recycled.
`Inode` has one device, and a directory is a function from names to inode numbers;
`Files` makes one step of what a process does between locking an inode and
unlocking it, except that a read or a chunk of a write is two, the transfer and the
update of `f->off`, with `ip->lock` held between them; a file is opened by its
number there. `Console` leaves out the lock of the console's inode, which
`consoleread` and `consolewrite` give up while they work.

## Runs

Runs that pass:

* `proc_safety` – two CPUs, three slots: the context switch protocol, live
  parents, no lost wakeup in `wait` and `sys_sleep`, ownership of EMBRYO slots,
  zombies freed only off CPU.
* `proc_liveness` – one CPU, processes that fork, wait, sleep and kill: no RUNNABLE
  process starves; a process killed in user space, in `wait` or in `sys_sleep`
  exits; orphans are reaped.
* `pipe` – two readers, two writers, one of each of whom may be killed, also between
  the test of `killed` and the sleep: the pipe implements a FIFO queue; nobody
  sleeps although the pipe is ready for them; the page is freed once, after its
  last use; calls return.
* `log` – two processes, crashes at any point, also during recovery, as often as they
  like: the log implements a disk on which groups of operations take effect at
  once, and is not written past its end although `log_write` tests the limits
  before it takes `log.lock`; a quiet log has everything on disk; every operation
  is admitted.
* `bcache` – two threads, three blocks in two buffers: the cache implements
  blocks with one holder at a time, whose contents only the holder changes;
  reference counts are exact; clean buffers agree with the disk; the controller
  works on the head of the driver's queue; every `iderw` returns; callers that hold
  one buffer and want a second never wait in a circle, as long as they take pairs
  in the orders of `fs.c` and `log.c` (`Second`).
* `inode` – two processes, three path calls of any kind: `ip->ref` counts exactly
  the pointers to an inode, on every error path; no reachable name leads to a
  free inode and no inode has more names than links; iput frees nothing that is
  open, current or locked; a valid cache entry agrees with the disk.
* `files` – two processes, five calls, on an image that mkfs laid out: reads, writes
  and their offsets are those of `FileStore`, whatever descriptors share an open
  file, blocks are reused and indirect blocks needed; the bitmap is exact; `f->ref`
  counts descriptors.
* `memory` – three processes, four calls, memory that runs out: each page is in
  one place; a process has the pages its size says; a failed call changes nothing,
  with the one exception of `sbrk` to size 0 (below).
* `console` – two CPUs, two processes: no input is lost or reordered, no reader
  sleeps beside a line, interrupt flags match locks, and CPUs can only wait for
  each other for ever if one of them prints with `ptable.lock` held, in `cps` or in
  `fcfs_scheduler`.
* `sched` – PBS and FCFS on two CPUs: the best process gets a CPU, equals share;
  a scan ends, unless it is one of the FCFS scans that `Spins` describes, and
  those never do.
* `mlfq` – MLFQ on one CPU until a process is first moved up for its age or a queue
  overruns: RUNNABLE processes run.

The run that fails, a disagreement between the code and its own tests and
comments (`findings` in `PROJECT.json` quotes them):

* `inode_deadlock` – `iput` waits for the lock of the inode it puts. `create` and
  `sys_unlink` put the parent directory while they hold the child, and other
  calls hold the parent while they wait for the child: two processes wait for
  each other for ever.

### What the models contain and no property claims

These are steps of the models in which the code does not do what one would
expect; the properties above are stated so that they are true beside them.

* A failed `fork` leaves its pid in the freed slot; `kill` of that pid marks the
  free slot and the next process born there is killed (`Proc`).
* `kill` can mark a process between its test of `killed` in `pipewrite` or `piperead` and
  its sleep; it then sleeps on until the pipe changes (`Pipe`).
* `begin_op` reserves out of LOGSIZE blocks and `log_write` panics at
  `log.size - 1`, one less with the image mkfs makes. The test is made without
  `log.lock`, so operations that log all `MAXOPBLOCKS` blocks could pass it together
  and write the block behind the log; with `LogBlocks = LOGSIZE` and `OpBlocks =
  MAXOPBLOCKS` `Log` does. The operations of `fs.c` log at most 7 blocks of 10
  (`OpBlocks`), which leaves the room that `RoomAssumption` asks for.
* `fcfs_scheduler` changes its own loop variable; on two CPUs a scan can go round
  for ever with `ptable.lock` held: the process started last is RUNNING elsewhere and
  not younger than the oldest RUNNABLE one, and another is RUNNABLE in a later slot.
* MLFQ deletes queue entries by index. Moving an old process up takes its pid for the
  index, and on two CPUs the index kept across `swtch` may be stale: either way
  another process may lose its only entry. `Mlfq` contains the first and ends with
  it (variable `aged`); its run has one CPU. Entries of dead processes are never
  removed and a queue has 64 (`QSIZE`); the model ends when one overruns. The 64
  entries of `pstat_var` are indexed by pid, which grows without limit.
* `cps` prints with `ptable.lock` held (`fcfs_scheduler` too), while `consoleintr` and
  `consoleread` take `ptable.lock` with `cons.lock` held: two CPUs can deadlock
  (`DeadlockOnlyPrinting` shows that nothing else can do that).
* `releasesleep` wakes everyone and `acquiresleep` has no queue: a thread may lose the
  race for a buffer again and again (`Bcache`; `NoStandstill` says that somebody wins).
* Two iputs of an inode without links that both see two references leave it
  allocated (`Inode`). A removed directory keeps its ".."; a process that goes
  there meets the panic of `ilock` once the parent is free.
* `link(x, ".")` puts the directory it has locked and waits for itself; the paths of
  the runs leave it out.
* `sbrk` down to size 0 frees everything and reports an error, `sz` unchanged: the
  process `Memory` calls "doomed", and the exception in `FailureUndone`.
* A long `write` that fails in a later chunk returns -1 with the earlier ones
  written (`Files`). mkfs rounds the size of the root up to a block it has not
  allocated when the directory fills its blocks exactly; the run has the other
  case, as the Makefile does.

### Bounds

Three slots are init, a parent and its child, or two children of one parent;
with `MaxPid = 3` or 4 slots are reused. Two CPUs give every race on
`ptable.lock`. `TickMod` and `CounterMod` make the uint counters wrap within a
run (the code's widths are 2^32; the proofs hold for any). `PIPESIZE = 2` with
writes of one and of three bytes makes the writer sleep in mid-call. The log holds two
operations of two blocks; four home blocks let them fill it or overlap in one, and
make `log_write` panic at the last entry; an operation begun while the other commits,
or with the log half full, has to wait. Three blocks in two buffers make the cache
recycle, and run out when both are pinned or held; one block stands for the log and
one for an indirect block, so that both pairs of `Second` occur; callers hold at most
two, as in `fs.c` and `log.c`.
`Mlfq` has two queues, the least with a demotion and a round-robin queue, of three
entries each, so that they overrun.
In `proc_liveness` the clock has one value: a sleep ends only by `kill`.
`Inode` has a root, a file and a directory, one free inode, a cache of three
entries and a file table of one, so that each of them runs out; two processes
with three calls are enough for a name to go, its inode to be freed and its
number to be used again by another call while the first still holds its entry.
In `Files` a block holds two units and an inode one direct block, so that three
units need the indirect block; nine blocks fill up. In `Memory` a page table maps
two pages of three page tables, sixteen pages are fewer than three processes can
ask for, and sizes are odd as well as even. The ring of `Console` holds two
characters and its indices wrap at four, starting at three, so that three keys
fill it and wrap it; reads ask for two characters, so that a newline or an end of
file can cut them short and leave the rest to the next reader. `MaxCalls`, `MaxKeys`, `MaxOps`, `MaxPid`, `MaxWrites`,
`MaxChanges` and `MaxTicks` bound counters that grow without limit. Runs with
such a bound, or whose processes may all close or sleep, do not check deadlock;
the two passing runs of `Proc` do.

### Fairness

Timer interrupts keep coming and their handler ends: weak fairness of `Timer`
and the interrupt steps. A CPU that wants `ptable.lock` spins and gets it between
two uses by others; x86 `xchg` gives no queue, but the hold times are short and
the model assumes a spinning CPU is not unlucky for ever: strong fairness of
scheduler and kernel steps. User code owes nothing, except that `init.c` calls
`wait` again and again, and that the processes at a pipe keep at it: readers read
again (weak fairness of `ReadCall`; without it a writer may wait for ever for a
reader that never reads), writers write until they close, the killed exit. In `Log`
an operation ends (strong fairness of `EndOp`: it may log blocks again and again, but
not for ever), and the rest is weak because in the instance there are no more
processes than the log has reservations; with more, `begin_op`'s retry has no order
among its waiters and may starve one. In `Bcache` everything is weak: the disk answers
and interrupts, threads run, and a holder goes on to another call or to `brelse`.

## Proofs

TLAPS checks the theorems below for every value of the constants that the
`ASSUME`s of the component modules allow. Each rests on an inductive invariant; TLC
checked every one of these invariants on the instances of the runs (with failing
commands for the disk) before it was proved.

| Theorem | Module | Property of a run |
|---|---|---|
| `TypeCorrect` | `ProcTypes` | types of `Proc` |
| `SwitchCorrect` | `ProcCalls` | `SwitchProtocol` |
| `EmbryoCorrect` | `ProcCalls` | `EmbryoOwned` |
| `TickCorrect` | `ProcCalls` | `NoLostTick` |
| `ParentCorrect` | `ProcFamily` | `ParentAlive` |
| `WaitCorrect` | `ProcFamily` | `NoLostWait` |
| `ReapCorrect` | `ProcFamily` | `ReapedOffCPU` (an action property) |
| `WakeupCorrect` | `PipeProofs` | `NoLostWakeup` |
| `CloseCorrect` | `PipeProofs` | `ClosedUnused` |
| `QueueCorrect` | `PipeProofs` | `ImplementsQueue` (a refinement) |
| `QuietCorrect` | `LogProofs` | `QuietMeansDurable` |
| `AtomicCorrect` | `LogProofs` | `ImplementsAtomicDisk` (a refinement) |
| `RefcntCorrect` | `BcacheProofs` | `RefcntExact` |
| `DiskQueueCorrect` | `BcacheProofs` | `QueueActive` |
| `CleanCorrect` | `BcacheStore` | `CleanIsStored`, if `Faults = {FALSE}` |
| `StoreCorrect` | `BcacheStore` | `ImplementsStore` (a refinement), if `Faults = {FALSE}` |

### The process table

The modules extend each other in the order `ProcTypes` (types), `ProcCore` (the
invariant of the context switch; scheduler, interrupts, user steps), `ProcCalls`
(the system calls; the clock) and `ProcFamily` (the process tree and wait). The
assumptions are those at the head of `Proc`: positive `NPROC`, `NCPU` and `TickMod`,
and that nobody kills pid 1 (which would make `exit` panic).

`CoreInv` is inductive by itself: the switch protocol, what the position of a
kernel thread says about the state of its process (`PcInv`: for instance only a
process whose thread is in `fork` owns a slot), and the ownership of EMBRYO slots.
It is needed because an action's guard speaks of the thread on a CPU and the
properties of the process table. Two invariants are inductive relative to it.
`ClockInv`: only CPU 0 keeps the clock, and holds `tickslock` from the tick to its
wakeup; a process between the test of `sys_sleep` and `sched` holds `tickslock` with
interrupts off, so its test still holds; sleepers are on the clock's channel.
`FamilyInv`: the first process never leaves (`InitInv`), parent pointers lead from
used slots to live processes (`TreeInv`), a sleeper in `wait` sleeps on its own slot,
with a child and no zombie (`WaitInv`). Most actions leave the family, or the
clock, alone; `QuietKeeps` and `ClockQuietKeeps` prove once what they have in common.
`ReapedOffCPU` follows step by step: a zombie's CPU stays in the scheduler loop,
under `ptable.lock`, until it is off the zombie's stack, and `wait` scans under that
lock.

### Pipes

Assumed: the size of the ring divides the range of the counters and is smaller
than it (512 and 2^32 in the code), and readers and writers are finite in number.
`PipeInv` adds to the two properties that the bytes in transit fit the ring, what the
arguments of a call are at each point of it, and that `ref` counts the holders of
each end, so that one process is between `fileclose` and `pipeclose`. For the
refinement, the abstract queue is the ring read from `nread`; lemmas on `%` show that
indices survive the wrap of the counters and that bytes in transit have different
slots.

### The log

Assumed: a header of at least `MAXOPBLOCKS` entries, finitely many processes and
blocks, and `RoomAssumption`: the log has room for what the reservations let in.
`LogInv` says what the memory copies, the log blocks, the header and the home blocks
hold at each position of commit and of recovery (`Contents`), who may be there
(`Roles`), and that the entries of `lh`, with what the operations under way may still
add, stay within the log. The last is what the test of `log_write`, made without
`log.lock`, cannot ensure by itself: two operations may pass it at the last entry. The
reservations of `begin_op` do, by counting. `Logical`, the disk that a crash
now would leave behind after recovery, is the abstract disk of the refinement:
only the write of the header, and of a cleared header nothing, changes it, and the
steps of recovery, repeated as often as crashes repeat them, leave it alone.

### The buffer cache

`BcacheInv` holds whatever the disk does: a block has one buffer, the list has every
buffer, what a thread may rely on at each point of `bread`, `bwrite` and `brelse`
(`Calls`), exact reference counts, and a driver queue that matches the sleeping
threads and the controller's command. `Stored` holds over a disk that carries out its
commands: clean buffers agree with the disk, and a finished write is on it. With
both, every step maps to a step of `BlockStore`, in which a block has one holder
and only the holder changes its contents. `Faults = {FALSE}` is an assumption of the
last two theorems for the reason given above: with failing commands the
properties are false of the code.

### Model-checked only

* The liveness properties: temporal reasoning with fairness is beyond the prover.
* Everything about `Inode`, `Files`, `Memory`, `Console`, `Sched` and `Mlfq`. Their
  invariants speak of reachability, of counts over lists of pending operations or
  of recursive functions over such lists, which need induction over data.

## Not modelled

`PROJECT.json` lists every part with a reason. Boot code and device registers
run outside any interleaving the models could add to; the assembly of `swtch`
and trap entry is register saving; user programs, the shell and the user-level
allocator are sequential clients of the calls modelled; formatting, screen
output and key maps carry no state that another part reads; the argument checks
of system calls compare addresses with `sz`, which `SizeMapped` shows to be what is
mapped. Accounting (`ctime`, `rtime`, `etime`, `waitx`, `getpinfo`) is assignments inside steps
that `Proc` models. Permissions and contents of pages, and the segments and page
table registers a switch loads, are left out of `Memory`.
