-------------------------------- MODULE Proc --------------------------------
(***************************************************************************)
(* The process table of proc.c: allocation, fork, exit, wait, sleep,       *)
(* wakeup, kill, the context switch protocol around ptable.lock, the       *)
(* round-robin scheduler and the part of trap.c that drives them (system   *)
(* call entry and return, the timer interrupt, the forced yield).          *)
(*                                                                         *)
(* A step is the code between two points at which another CPU can          *)
(* interfere.  A critical section that begins and ends in one function is  *)
(* one step; ptable.lock stays held across swtch(), so a section that      *)
(* enters the scheduler is several steps, with lock naming its holder.     *)
(***************************************************************************)
EXTENDS Integers

CONSTANTS
  NPROC,      \* size of ptable.proc
  NCPU,       \* number of processors
  MaxPid,     \* bound: no fork starts once nextpid has passed it
  TickMod,    \* the tick counter is a uint of this many values
  UserCalls,  \* the system calls that programs other than init.c make
  SleepArgs,  \* arguments of the sleep system call
  KillPids    \* arguments of the kill system call

ASSUME NPROCAssumption == NPROC \in Nat \ {0}
ASSUME NCPUAssumption == NCPU \in Nat \ {0}
ASSUME BoundAssumption == /\ MaxPid \in Nat
                          /\ TickMod \in Nat \ {0}
                          /\ UserCalls \subseteq {"fork", "wait", "exit", "kill", "sleep"}
                          /\ SleepArgs \subseteq Nat
                          /\ KillPids \subseteq Nat
ASSUME InitNotKilled == 1 \notin KillPids  \* or exit panics with "init exiting"

Slot == 1..NPROC          \* ptable.proc[0] .. ptable.proc[NPROC-1]
CPU == 0..(NCPU - 1)
NoProc == 0               \* the null struct proc pointer
NoCPU == -1               \* a free spinlock
InitProc == 1             \* initproc: userinit's allocproc takes the first slot
TicksChan == NPROC + 1    \* &ticks; a wait channel that is a process is its slot
Chan == 0..(NPROC + 1)

States == {"UNUSED", "EMBRYO", "SLEEPING", "RUNNABLE", "RUNNING", "ZOMBIE"}

\* Where the kernel thread of a process is.
PCs == {"none",       \* never ran
        "forkret",    \* a new context, about to return to user space
        "user",       \* user mode
        "fork",       \* allocproc: about to acquire ptable.lock
        "copy",       \* allocproc's kalloc, then fork's copy of the parent
        "run",        \* fork: about to make the child RUNNABLE
        "exit",       \* exit: closing files
        "exitlk",     \* exit: about to acquire ptable.lock
        "zombie",     \* exit: in sched, never to return
        "wait",       \* wait: about to acquire ptable.lock
        "waiting",    \* wait: in sleep on itself
        "kill",       \* kill: about to acquire ptable.lock
        "sleep",      \* sys_sleep: about to acquire tickslock
        "tosleep",    \* sleep(&ticks): tickslock held, about to acquire ptable.lock
        "sleeping",   \* sleep(&ticks): in sched
        "slept",      \* sleep(&ticks): about to reacquire tickslock
        "ret"}        \* back in trap after the system call

VARIABLES
  state, pid, parent, chan, killed,   \* fields of struct proc, by slot
  nextpid,
  lock,       \* holder of ptable.lock
  tlock,      \* holder of tickslock
  ticks,
  pc,         \* kernel thread of each process
  yielded,    \* the process is inside yield(), called from a timer interrupt
  np,         \* local of fork: the child being made
  args,       \* locals of sys_sleep: n and ticks0
  cproc,      \* cpu->proc
  spc,        \* the scheduler thread of each CPU: "idle", "scan" or "swtch"
  next,       \* the scheduler's loop variable
  irq         \* timer interrupt handler of each CPU

NoArgs == [n |-> 0, ticks0 |-> 0]  \* locals that are not in use

procvars == <<state, pid, parent, chan, killed>>
cpuvars == <<cproc, spc, next>>
clockvars == <<tlock, ticks, args>>
vars == <<procvars, nextpid, lock, clockvars, pc, yielded, np, cpuvars, irq>>

-----------------------------------------------------------------------------
(***************************************************************************)
(* main() has run userinit(): the first slot holds the first process,      *)
(* RUNNABLE, and every CPU is about to enter scheduler().                  *)
(***************************************************************************)
Init ==
  /\ state = [s \in Slot |-> IF s = InitProc THEN "RUNNABLE" ELSE "UNUSED"]
  /\ pid = [s \in Slot |-> IF s = InitProc THEN 1 ELSE 0]
  /\ parent = [s \in Slot |-> NoProc]
  /\ chan = [s \in Slot |-> 0]
  /\ killed = [s \in Slot |-> FALSE]
  /\ nextpid = 2
  /\ lock = NoCPU
  /\ tlock = NoCPU
  /\ ticks = 0
  /\ pc = [s \in Slot |-> IF s = InitProc THEN "forkret" ELSE "none"]
  /\ yielded = [s \in Slot |-> FALSE]
  /\ np = [s \in Slot |-> NoProc]
  /\ args = [s \in Slot |-> NoArgs]
  /\ cproc = [c \in CPU |-> NoProc]
  /\ spc = [c \in CPU |-> "idle"]
  /\ next = [c \in CPU |-> 1]
  /\ irq = [c \in CPU |-> "none"]

-----------------------------------------------------------------------------
(***************************************************************************)
(* The scheduler thread (default_scheduler).                               *)
(***************************************************************************)

\* Mutants: the state test dropped; the scan restarting at the first slot.
RunnableOrRunning(from) ==
  {s \in Slot : s >= from /\ state[s] \in {"RUNNABLE", "RUNNING"}}
RunnableAnywhere(from) == {s \in Slot : state[s] = "RUNNABLE" /\ from \in Nat}

Runnable(from) == {s \in Slot : s >= from /\ state[s] = "RUNNABLE"}

\* One round of scheduler(): acquire ptable.lock, start at the first slot.
SchedEnter(c) ==
  /\ spc[c] = "idle"
  /\ irq[c] = "none"
  /\ lock = NoCPU
  /\ lock' = c
  /\ spc' = [spc EXCEPT ![c] = "scan"]
  /\ UNCHANGED <<procvars, nextpid, clockvars, pc, yielded, np, cproc, next, irq>>

\* The loop reaches a RUNNABLE process and switches to it, ptable.lock held.
SchedRun(c) ==
  /\ spc[c] = "scan"
  /\ \E s \in Runnable(next[c]) :
       /\ \A r \in Runnable(next[c]) : s <= r
       /\ cproc' = [cproc EXCEPT ![c] = s]
       /\ state' = [state EXCEPT ![s] = "RUNNING"]
       /\ next' = [next EXCEPT ![c] = s + 1]
  /\ spc' = [spc EXCEPT ![c] = "swtch"]
  /\ UNCHANGED <<pid, parent, chan, killed, nextpid, lock, clockvars, pc,
                 yielded, np, irq>>

\* The loop reaches the end of the table: release ptable.lock.
SchedLeave(c) ==
  /\ spc[c] = "scan"
  /\ Runnable(next[c]) = {}
  /\ cproc' = [cproc EXCEPT ![c] = NoProc]
  /\ spc' = [spc EXCEPT ![c] = "idle"]
  /\ next' = [next EXCEPT ![c] = 1]
  /\ lock' = NoCPU
  /\ UNCHANGED <<procvars, nextpid, clockvars, pc, yielded, np, irq>>

\* sched(): the calling process has set its state and leaves the CPU.
Sched(c) == spc' = [spc EXCEPT ![c] = "scan"]

\* Process s is executing on CPU c outside any interrupt handler ...
Executing(c, s) == cproc[c] = s /\ spc[c] = "swtch" /\ irq[c] = "none"
\* ... and not in the step that follows swtch(), which holds ptable.lock.
AtPC(c, s, p) == Executing(c, s) /\ lock # c /\ pc[s] = p

Goto(s, p) == pc' = [pc EXCEPT ![s] = p]

Unsleep(st) == IF st = "SLEEPING" THEN "RUNNABLE" ELSE st

\* wakeup1(ch) applied to the states st.
Wakeup1(st, ch) == [s \in Slot |-> IF chan[s] = ch THEN Unsleep(st[s]) ELSE st[s]]

\* trap() exits a killed process on an interrupt from user space.
\* Mutant: the check left to system calls alone.
NeverDying(s) == FALSE

Dying(s) == killed[s] /\ pc[s] = "user"

-----------------------------------------------------------------------------
(***************************************************************************)
(* The first step of a process after swtch(), still holding ptable.lock.   *)
(***************************************************************************)

Resumed(c, s) == Executing(c, s) /\ lock = c

\* The tail of yield() and of the trap() that called it.
YieldReturn(c, s) ==
  /\ Resumed(c, s)
  /\ yielded[s]
  /\ yielded' = [yielded EXCEPT ![s] = FALSE]
  /\ lock' = NoCPU
  /\ Goto(s, IF Dying(s) THEN "exit" ELSE pc[s])
  /\ UNCHANGED <<procvars, nextpid, clockvars, np, cpuvars, irq>>

Forkret(c, s) ==
  /\ Resumed(c, s)
  /\ ~yielded[s]
  /\ pc[s] = "forkret"
  /\ lock' = NoCPU
  /\ Goto(s, "user")
  /\ UNCHANGED <<procvars, nextpid, clockvars, yielded, np, cpuvars, irq>>

\* sleep(&ticks, &tickslock) after sched(): tidy up, release ptable.lock.
SleepReturn(c, s) ==
  /\ Resumed(c, s)
  /\ ~yielded[s]
  /\ pc[s] = "sleeping"
  /\ chan' = [chan EXCEPT ![s] = 0]
  /\ lock' = NoCPU
  /\ Goto(s, "slept")
  /\ UNCHANGED <<state, pid, parent, killed, nextpid, clockvars, yielded, np,
                 cpuvars, irq>>

-----------------------------------------------------------------------------
(***************************************************************************)
(* trap() for system calls.  The first process runs init.c, which only     *)
(* forks and waits; every other process makes any of UserCalls.            *)
(***************************************************************************)

Calls(s) == IF s = InitProc THEN {"fork", "wait"}
            ELSE UserCalls

Syscall(c, s) ==
  /\ AtPC(c, s, "user")
  /\ \E call \in Calls(s) :
       /\ call = "fork" => nextpid <= MaxPid
       /\ Goto(s, IF killed[s] THEN "exit" ELSE call)
  /\ UNCHANGED <<procvars, nextpid, lock, clockvars, yielded, np, cpuvars, irq>>

SyscallReturn(c, s) ==
  /\ AtPC(c, s, "ret")
  /\ Goto(s, IF killed[s] THEN "exit" ELSE "user")
  /\ UNCHANGED <<procvars, nextpid, lock, clockvars, yielded, np, cpuvars, irq>>

\* An unexpected trap from user space marks the process killed and exits.
Fault(c, s) ==
  /\ AtPC(c, s, "user")
  /\ s # InitProc
  /\ killed' = [killed EXCEPT ![s] = TRUE]
  /\ Goto(s, "exit")
  /\ UNCHANGED <<state, pid, parent, chan, nextpid, lock, clockvars, yielded,
                 np, cpuvars, irq>>

-----------------------------------------------------------------------------
(***************************************************************************)
(* fork() and allocproc().                                                 *)
(***************************************************************************)

\* Mutant: a slot that is being set up taken for a free one.
UnusedOrEmbryo == {s \in Slot : state[s] \in {"UNUSED", "EMBRYO"}}

Unused == {s \in Slot : state[s] = "UNUSED"}

\* allocproc up to its release: take the first UNUSED slot.  Fields other
\* than state and pid keep what the slot's previous user left in them.
AllocProc(c, s) ==
  /\ AtPC(c, s, "fork")
  /\ lock = NoCPU
  /\ \E n \in Unused :
       /\ \A m \in Unused : n <= m
       /\ state' = [state EXCEPT ![n] = "EMBRYO"]
       /\ pid' = [pid EXCEPT ![n] = nextpid]
       /\ np' = [np EXCEPT ![s] = n]
  /\ nextpid' = nextpid + 1
  /\ Goto(s, "copy")
  /\ UNCHANGED <<parent, chan, killed, lock, clockvars, yielded, cpuvars, irq>>

\* allocproc with a full table: fork returns -1.
AllocFull(c, s) ==
  /\ AtPC(c, s, "fork")
  /\ lock = NoCPU
  /\ Unused = {}
  /\ Goto(s, "ret")
  /\ UNCHANGED <<procvars, nextpid, lock, clockvars, yielded, np, cpuvars, irq>>

\* kalloc of the kernel stack (in allocproc) or copyuvm (in fork) fails: the
\* slot is given back without ptable.lock, its pid left in place.
ForkFail(c, s) ==
  /\ AtPC(c, s, "copy")
  /\ state' = [state EXCEPT ![np[s]] = "UNUSED"]
  /\ np' = [np EXCEPT ![s] = NoProc]
  /\ Goto(s, "ret")
  /\ UNCHANGED <<pid, parent, chan, killed, nextpid, lock, clockvars, yielded,
                 cpuvars, irq>>

\* Both succeed (no lock held): the child gets a kernel stack whose context
\* returns to forkret, and inherits from its parent.
ForkCopy(c, s) ==
  /\ AtPC(c, s, "copy")
  /\ parent' = [parent EXCEPT ![np[s]] = s]
  /\ pc' = [pc EXCEPT ![s] = "run", ![np[s]] = "forkret"]
  /\ UNCHANGED <<state, pid, chan, killed, nextpid, lock, clockvars, yielded,
                 np, cpuvars, irq>>

\* The last critical section of fork.
ForkRun(c, s) ==
  /\ AtPC(c, s, "run")
  /\ lock = NoCPU
  /\ state' = [state EXCEPT ![np[s]] = "RUNNABLE"]
  /\ np' = [np EXCEPT ![s] = NoProc]
  /\ Goto(s, "ret")
  /\ UNCHANGED <<pid, parent, chan, killed, nextpid, lock, clockvars, yielded,
                 cpuvars, irq>>

-----------------------------------------------------------------------------
(***************************************************************************)
(* exit().                                                                 *)
(***************************************************************************)

\* Everything before ptable.lock is acquired: files and cwd are closed.
ExitClose(c, s) ==
  /\ AtPC(c, s, "exit")
  /\ Goto(s, "exitlk")
  /\ UNCHANGED <<procvars, nextpid, lock, clockvars, yielded, np, cpuvars, irq>>

\* Mutant: the parent not woken.
ExitWakesInitOnly(s) ==
  IF \E k \in Slot : parent[k] = s /\ state[k] = "ZOMBIE"
    THEN Wakeup1(state, InitProc) ELSE state

\* The states after exit's wakeups of its parent and, for an inherited zombie,
\* of initproc.
ExitWakeups(s) ==
  LET woken == Wakeup1(state, parent[s])
  IN  IF \E k \in Slot : parent[k] = s /\ woken[k] = "ZOMBIE"
        THEN Wakeup1(woken, InitProc) ELSE woken

\* Mutant: the children keep their dead parent.
ChildrenKept(s) == IF s \in Slot THEN parent ELSE <<>>

\* exit passes abandoned children to init.
Reparented(s) == [k \in Slot |-> IF parent[k] = s THEN InitProc ELSE parent[k]]

ExitSched(c, s) ==
  /\ AtPC(c, s, "exitlk")
  /\ lock = NoCPU
  /\ lock' = c
  /\ state' = [ExitWakeups(s) EXCEPT ![s] = "ZOMBIE"]
  /\ parent' = Reparented(s)
  /\ Goto(s, "zombie")
  /\ Sched(c)
  /\ UNCHANGED <<pid, chan, killed, nextpid, clockvars, yielded, np, cproc, next,
                 irq>>

-----------------------------------------------------------------------------
(***************************************************************************)
(* wait() and waitx(), which share their control: one pass over the table  *)
(* on entry and one after each wakeup.                                     *)
(***************************************************************************)

Kids(s) == {k \in Slot : parent[k] = s}
Zombies(s) == {k \in Kids(s) : state[k] = "ZOMBIE"}

\* Mutant: the table scanned without ptable.lock.
WaitLoopUnlocked(c, s) ==
  \/ AtPC(c, s, "wait")
  \/ Resumed(c, s) /\ ~yielded[s] /\ pc[s] = "waiting"

WaitLoop(c, s) ==
  \/ AtPC(c, s, "wait") /\ lock = NoCPU
  \/ Resumed(c, s) /\ ~yielded[s] /\ pc[s] = "waiting"

\* Reap the first zombie child: its slot becomes free.
WaitReap(c, s) ==
  /\ WaitLoop(c, s)
  /\ \E k \in Zombies(s) :
       /\ \A j \in Zombies(s) : k <= j
       /\ state' = [state EXCEPT ![k] = "UNUSED"]
       /\ pid' = [pid EXCEPT ![k] = 0]
       /\ parent' = [parent EXCEPT ![k] = NoProc]
       /\ killed' = [killed EXCEPT ![k] = FALSE]
       /\ pc' = [pc EXCEPT ![s] = "ret", ![k] = "none"]
  /\ chan' = [chan EXCEPT ![s] = 0]
  /\ lock' = NoCPU
  /\ UNCHANGED <<nextpid, clockvars, yielded, np, cpuvars, irq>>

\* No children, or killed: return -1.
WaitFail(c, s) ==
  /\ WaitLoop(c, s)
  /\ Zombies(s) = {}
  /\ Kids(s) = {} \/ killed[s]
  /\ chan' = [chan EXCEPT ![s] = 0]
  /\ lock' = NoCPU
  /\ Goto(s, "ret")
  /\ UNCHANGED <<state, pid, parent, killed, nextpid, clockvars, yielded, np,
                 cpuvars, irq>>

\* sleep(curproc, &ptable.lock).
WaitSleep(c, s) ==
  /\ WaitLoop(c, s)
  /\ Zombies(s) = {}
  /\ Kids(s) # {} /\ ~killed[s]
  /\ chan' = [chan EXCEPT ![s] = s]
  /\ state' = [state EXCEPT ![s] = "SLEEPING"]
  /\ lock' = c
  /\ Goto(s, "waiting")
  /\ Sched(c)
  /\ UNCHANGED <<pid, parent, killed, nextpid, clockvars, yielded, np, cproc,
                 next, irq>>

-----------------------------------------------------------------------------
(***************************************************************************)
(* kill(): the first slot whose pid field matches, whatever its state.     *)
(***************************************************************************)

WithPid(p) == {s \in Slot : pid[s] = p}

Kill(c, s) ==
  /\ AtPC(c, s, "kill")
  /\ lock = NoCPU
  /\ \E p \in KillPids :
       LET hit == {k \in WithPid(p) : \A j \in WithPid(p) : k <= j}
       IN  /\ killed' = [k \in Slot |-> killed[k] \/ k \in hit]
           /\ state' = [k \in Slot |-> IF k \in hit THEN Unsleep(state[k]) ELSE state[k]]
  /\ Goto(s, "ret")
  /\ UNCHANGED <<pid, parent, chan, nextpid, lock, clockvars, yielded, np, cpuvars,
                 irq>>

-----------------------------------------------------------------------------
(***************************************************************************)
(* sys_sleep(): the loop on ticks under tickslock, and sleep() with a lock *)
(* other than ptable.lock.                                                 *)
(***************************************************************************)

\* Mutant: tickslock released before ptable.lock is acquired.
SleepTestReleasing(c, s, a) ==
  LET stop == ~ ((ticks - a.ticks0) % TickMod < a.n) \/ killed[s]
  IN  /\ Goto(s, IF stop THEN "ret" ELSE "tosleep")
      /\ args' = [args EXCEPT ![s] = IF stop THEN NoArgs ELSE a]
      /\ UNCHANGED tlock

\* The test of the while loop and of killed, with tickslock just acquired.
SleepTest(c, s, a) ==
  LET stop == ~ ((ticks - a.ticks0) % TickMod < a.n) \/ killed[s]
  IN  /\ Goto(s, IF stop THEN "ret" ELSE "tosleep")
      /\ args' = [args EXCEPT ![s] = IF stop THEN NoArgs ELSE a]
      /\ tlock' = IF stop THEN NoCPU ELSE c

SysSleep(c, s) ==
  /\ AtPC(c, s, "sleep")
  /\ tlock = NoCPU
  /\ \E n \in SleepArgs : SleepTest(c, s, [n |-> n, ticks0 |-> ticks])
  /\ UNCHANGED <<procvars, nextpid, lock, ticks, yielded, np, cpuvars, irq>>

SleepAgain(c, s) ==
  /\ AtPC(c, s, "slept")
  /\ tlock = NoCPU
  /\ SleepTest(c, s, args[s])
  /\ UNCHANGED <<procvars, nextpid, lock, ticks, yielded, np, cpuvars, irq>>

\* sleep(): ptable.lock is acquired before tickslock is released.
SleepSched(c, s) ==
  /\ AtPC(c, s, "tosleep")
  /\ lock = NoCPU
  /\ lock' = c
  /\ tlock' = NoCPU
  /\ chan' = [chan EXCEPT ![s] = TicksChan]
  /\ state' = [state EXCEPT ![s] = "SLEEPING"]
  /\ Goto(s, "sleeping")
  /\ Sched(c)
  /\ UNCHANGED <<pid, parent, killed, nextpid, ticks, args, yielded, np, cproc,
                 next, irq>>

-----------------------------------------------------------------------------
(***************************************************************************)
(* trap() for the timer interrupt.  It is taken where interrupts are on:   *)
(* with no spinlock held, in a process or in the idle scheduler.  Only     *)
(* CPU 0 keeps the clock.                                                  *)
(***************************************************************************)

\* The tail of trap(): exit a killed process that was in user space, else
\* yield() if a process was running.
TrapEnd(c) ==
  LET s == cproc[c]
      dying == s # NoProc /\ Dying(s)
  IN  /\ irq' = [irq EXCEPT ![c] = IF s = NoProc \/ dying THEN "none" ELSE "yield"]
      /\ pc' = [k \in Slot |-> IF k = s /\ dying THEN "exit" ELSE pc[k]]

\* The interrupt arrives; on a CPU other than 0 there is only the tail to do.
Timer(c) ==
  /\ irq[c] = "none"
  /\ lock # c /\ tlock # c
  /\ IF c = 0 THEN irq' = [irq EXCEPT ![c] = "tick"] /\ UNCHANGED pc
              ELSE cproc[c] # NoProc /\ TrapEnd(c)
  /\ UNCHANGED <<procvars, nextpid, lock, clockvars, yielded, np, cpuvars>>

NextTick == (ticks + 1) % TickMod

Tick(c) ==
  /\ irq[c] = "tick"
  /\ tlock = NoCPU
  /\ tlock' = c
  /\ ticks' = NextTick
  /\ irq' = [irq EXCEPT ![c] = "wake"]
  /\ UNCHANGED <<procvars, nextpid, lock, args, pc, yielded, np, cpuvars>>

\* wakeup(&ticks), release(&tickslock).  updatestatistics(), which comes just
\* before under the same locks, changes only rtime, which no step here reads.
TickWakeup(c) ==
  /\ irq[c] = "wake"
  /\ lock = NoCPU
  /\ state' = Wakeup1(state, TicksChan)
  /\ tlock' = NoCPU
  /\ TrapEnd(c)
  /\ UNCHANGED <<pid, parent, chan, killed, nextpid, lock, ticks, args, yielded,
                 np, cpuvars>>

Yield(c, s) ==
  /\ irq[c] = "yield"
  /\ cproc[c] = s
  /\ lock = NoCPU
  /\ lock' = c
  /\ state' = [state EXCEPT ![s] = "RUNNABLE"]
  /\ yielded' = [yielded EXCEPT ![s] = TRUE]
  /\ irq' = [irq EXCEPT ![c] = "none"]
  /\ Sched(c)
  /\ UNCHANGED <<pid, parent, chan, killed, nextpid, clockvars, pc, np, cproc, next>>

-----------------------------------------------------------------------------
ForkStep(c, s) ==
  \/ AllocProc(c, s) \/ AllocFull(c, s) \/ ForkFail(c, s)
  \/ ForkCopy(c, s) \/ ForkRun(c, s)

WaitStep(c, s) == WaitReap(c, s) \/ WaitFail(c, s) \/ WaitSleep(c, s)

SleepStep(c, s) ==
  SysSleep(c, s) \/ SleepSched(c, s) \/ SleepReturn(c, s) \/ SleepAgain(c, s)

\* A step of the kernel on behalf of process s: no choice of the program's.
KernelStep(c, s) ==
  \/ Forkret(c, s) \/ SyscallReturn(c, s) \/ ForkStep(c, s)
  \/ ExitClose(c, s) \/ ExitSched(c, s) \/ WaitStep(c, s)
  \/ Kill(c, s) \/ SleepStep(c, s)

\* A forced yield, from the timer interrupt to the return to the process.
YieldStep(c, s) == Yield(c, s) \/ YieldReturn(c, s)

UserStep(c, s) == Syscall(c, s) \/ Fault(c, s)

SchedStep(c) == SchedEnter(c) \/ SchedRun(c) \/ SchedLeave(c)

IrqStep(c) == Tick(c) \/ TickWakeup(c)

Next ==
  \E c \in CPU :
    \/ SchedStep(c)
    \/ Timer(c)
    \/ IrqStep(c)
    \/ \E s \in Slot : KernelStep(c, s) \/ YieldStep(c, s) \/ UserStep(c, s)

Spec == Init /\ [][Next]_vars

-----------------------------------------------------------------------------
(***************************************************************************)
(* Properties.                                                             *)
(***************************************************************************)

\* Every variable has its type.
TypeOK ==
  /\ state \in [Slot -> States]
  /\ pid \in [Slot -> Nat]
  /\ parent \in [Slot -> Slot \cup {NoProc}]
  /\ chan \in [Slot -> Chan]
  /\ killed \in [Slot -> BOOLEAN]
  /\ nextpid \in Nat
  /\ lock \in CPU \cup {NoCPU}
  /\ tlock \in CPU \cup {NoCPU}
  /\ ticks \in 0..(TickMod - 1)
  /\ pc \in [Slot -> PCs]
  /\ yielded \in [Slot -> BOOLEAN]
  /\ np \in [Slot -> Slot \cup {NoProc}]
  /\ args \in [Slot -> [n : Nat, ticks0 : Nat]]
  /\ cproc \in [CPU -> Slot \cup {NoProc}]
  /\ spc \in [CPU -> {"idle", "scan", "swtch"}]
  /\ next \in [CPU -> 1..(NPROC + 1)]
  /\ irq \in [CPU -> {"none", "tick", "wake", "yield"}]

\* The context switch protocol: a process is on at most one CPU; it is RUNNING
\* exactly while a CPU has switched to it; the scheduler loop (and with it the
\* gap between a process giving up its CPU and its stack being left) runs only
\* under ptable.lock.
SwitchProtocol ==
  /\ \A c, d \in CPU : cproc[c] = cproc[d] /\ cproc[c] # NoProc => c = d
  /\ \A c \in CPU : spc[c] = "swtch" <=> /\ cproc[c] # NoProc
                                         /\ state[cproc[c]] = "RUNNING"
  /\ \A s \in Slot : state[s] = "RUNNING" => \E c \in CPU : cproc[c] = s
  /\ \A c \in CPU : spc[c] = "scan" => lock = c

\* Every process but the first has a parent that is alive, so that somebody
\* can reap it: exit hands its children to initproc before it becomes a zombie.
ParentAlive ==
  \A s \in Slot \ {InitProc} :
    state[s] \in {"SLEEPING", "RUNNABLE", "RUNNING", "ZOMBIE"} =>
      /\ parent[s] # NoProc
      /\ state[parent[s]] \in {"SLEEPING", "RUNNABLE", "RUNNING"}

\* A process asleep in wait() has a child, none of its children is a zombie, and
\* it has not been killed: neither exit's wakeup nor kill's can be missed, and
\* the wakeup it waits for can still come.
NoLostWait ==
  \A s \in Slot :
    state[s] = "SLEEPING" /\ pc[s] = "waiting" =>
      Kids(s) # {} /\ Zombies(s) = {} /\ ~killed[s]

\* A process asleep in sys_sleep() has not slept long enough, unless the clock
\* interrupt that will wake it is under way: releasing tickslock only after
\* ptable.lock is held closes the window between test and sleep.
NoLostTick ==
  \A s \in Slot :
    state[s] = "SLEEPING" /\ pc[s] = "sleeping" =>
      \/ (ticks - args[s].ticks0) % TickMod < args[s].n
      \/ irq[0] = "wake"

\* fork() writes its child's fields without ptable.lock; that is safe because an
\* EMBRYO slot belongs to exactly one process in the middle of fork.
EmbryoOwned ==
  /\ \A s \in Slot : pc[s] \in {"copy", "run"} => state[np[s]] = "EMBRYO"
  /\ \A s, t \in Slot : np[s] = np[t] /\ np[s] # NoProc => s = t
  /\ \A n \in Slot : state[n] = "EMBRYO" => \E s \in Slot : np[s] = n

\* A slot stops being a zombie only by being freed, by its parent, when no CPU
\* is on its kernel stack any more (wait frees the stack and the page table).
ReapedOffCPU ==
  [][\A k \in Slot : state[k] = "ZOMBIE" /\ state'[k] # "ZOMBIE" =>
       /\ state'[k] = "UNUSED"
       /\ state[parent[k]] = "RUNNING"
       /\ \A c \in CPU : cproc[c] # k]_vars

-----------------------------------------------------------------------------
(***************************************************************************)
(* Fairness: timer interrupts keep coming and their handler completes;     *)
(* between two interrupts the scheduler and the interrupted process get    *)
(* some work done, spinning CPUs eventually winning the lock (hence strong *)
(* fairness); init.c always waits again.  A CPU never has a step of its    *)
(* scheduler and one of a forced yield to do at the same time.             *)
(***************************************************************************)
Fairness ==
  /\ \A c \in CPU : /\ SF_vars(SchedStep(c) \/ \E s \in Slot : YieldStep(c, s))
                    /\ WF_vars(Timer(c) \/ IrqStep(c))
  /\ \A s \in Slot : SF_vars(\E c \in CPU : KernelStep(c, s))
  /\ SF_vars(\E c \in CPU : Syscall(c, InitProc) /\ pc'[InitProc] = "wait")

FairSpec == Spec /\ Fairness

\* The round-robin scheduler starves no RUNNABLE process.
RunnableRuns == \A s \in Slot : state[s] = "RUNNABLE" ~> state[s] # "RUNNABLE"

\* A killed process ends, wherever it was: trap() checks on the way to user space
\* and the sleeps of wait and sys_sleep are left.
KilledExits ==
  \A s \in Slot \ {InitProc} :
    killed[s] /\ state[s] # "UNUSED" ~> state[s] \in {"ZOMBIE", "UNUSED"}

\* A process whose parent has exited is reaped by initproc once it is a zombie.
OrphansReaped ==
  \A s \in Slot \ {InitProc} :
    state[s] = "ZOMBIE" /\ parent[s] = InitProc ~> state[s] = "UNUSED"
=============================================================================
