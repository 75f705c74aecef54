-------------------------------- MODULE Sched --------------------------------
(***************************************************************************)
(* priority_scheduler (PBS) and fcfs_scheduler (FCFS) of proc.c, which the *)
(* build can select instead of the round-robin scheduler of module Proc.   *)
(* Both walk the process table like it does but, at a RUNNABLE process,    *)
(* move the loop variable itself to the best RUNNABLE process.             *)
(*                                                                         *)
(* The processes are seen from the scheduler: what matters of them is      *)
(* their state and that, once running, they come back through sched() with *)
(* ptable.lock held, by yielding, sleeping or exiting.                     *)
(***************************************************************************)
EXTENDS Integers

CONSTANTS
  NPROC, NCPU,
  Policies,     \* of "PBS" and "FCFS": schedulers the kernel may be built with
  Ctimes,       \* creation times the processes may have
  Priorities,   \* priorities set by chprty
  MaxChanges    \* bound: calls of chprty

ASSUME SchedAssumption ==
  /\ NPROC \in Nat \ {0} /\ NCPU \in Nat \ {0}
  /\ Policies \subseteq {"PBS", "FCFS"}
  /\ Ctimes \subseteq Nat /\ Priorities \subseteq Int
  /\ MaxChanges \in Nat

Slot == 1..NPROC
CPU == 0..(NCPU - 1)
NoProc == 0
NoCPU == -1
DefaultPriority == 60

VARIABLES
  policy,     \* the scheduler this kernel was built with
  state,      \* "SLEEPING", "RUNNABLE", "RUNNING" or "ZOMBIE", by slot
  ctime,      \* by slot
  priority,   \* by slot
  lock,       \* holder of ptable.lock
  cproc,      \* cpu->proc
  spc,        \* scheduler of each CPU: "idle", "scan" or "swtch"
  p,          \* its loop variable
  running_p,  \* global of fcfs_scheduler
  changes     \* history counter

vars == <<policy, state, ctime, priority, lock, cproc, spc, p, running_p, changes>>

\* PBS does not look at ctime, FCFS does not look at priority: neither varies
\* where it plays no part.
Init ==
  /\ policy \in Policies
  /\ state \in [Slot -> {"SLEEPING", "RUNNABLE"}]
  /\ ctime \in [Slot -> IF policy = "FCFS" THEN Ctimes ELSE {0}]
  /\ priority = [s \in Slot |-> DefaultPriority]
  /\ lock = NoCPU
  /\ cproc = [c \in CPU |-> NoProc]
  /\ spc = [c \in CPU |-> "idle"]
  /\ p = [c \in CPU |-> 1]
  /\ running_p = NoProc
  /\ changes = 0

Runnable == {s \in Slot : state[s] = "RUNNABLE"}

-----------------------------------------------------------------------------
(***************************************************************************)
(* The choice of highP at a RUNNABLE slot.                                 *)
(***************************************************************************)
Key(s) == IF policy = "PBS" THEN priority[s] ELSE ctime[s]

\* The inner loop starts from slot s and takes strictly better slots only, in
\* table order: s itself if nothing beats it, else the first of the best.
\* Mutants: the comparison inverted; ties going to the first slot of the table.
Worst(s) == CHOOSE h \in Runnable : \A r \in Runnable : Key(h) >= Key(r)
FirstBest(s) ==
  CHOOSE h \in Runnable : \A r \in Runnable : Key(h) < Key(r) \/ (Key(h) = Key(r) /\ h <= r)
HighP(s) ==
  IF \A r \in Runnable : Key(s) <= Key(r) THEN s ELSE FirstBest(s)

\* The condition under which the scheduler switches to h: FCFS does not while
\* running_p is RUNNING (on another CPU), unless h is older.
\* Mutant: the same for any policy and any running process.
TakesIfBetter(h) == \A s \in Slot : state[s] = "RUNNING" => Key(h) < Key(s)
Takes(h) ==
  policy = "FCFS" /\ running_p # NoProc /\ state[running_p] = "RUNNING" =>
    ctime[h] < ctime[running_p]

-----------------------------------------------------------------------------
Enter(c) ==
  /\ spc[c] = "idle"
  /\ lock = NoCPU
  /\ lock' = c
  /\ spc' = [spc EXCEPT ![c] = "scan"]
  /\ p' = [p EXCEPT ![c] = 1]
  /\ UNCHANGED <<policy, state, ctime, priority, cproc, running_p, changes>>

Skip(c) ==
  /\ spc[c] = "scan" /\ p[c] \in Slot
  /\ state[p[c]] # "RUNNABLE"
  /\ p' = [p EXCEPT ![c] = @ + 1]
  /\ UNCHANGED <<policy, state, ctime, priority, lock, cproc, spc, running_p, changes>>

\* The loop variable moves to highP.  Switch to it, the process releasing
\* ptable.lock as its first step; or, in FCFS, pass it by and go on after it.
Choose(c) ==
  LET h == HighP(p[c])
  IN  /\ spc[c] = "scan" /\ p[c] \in Slot
      /\ state[p[c]] = "RUNNABLE"
      /\ IF Takes(h)
           THEN /\ p' = [p EXCEPT ![c] = h]
                /\ cproc' = [cproc EXCEPT ![c] = h]
                /\ state' = [state EXCEPT ![h] = "RUNNING"]
                /\ running_p' = IF policy = "FCFS" THEN h ELSE running_p
                /\ spc' = [spc EXCEPT ![c] = "swtch"]
                /\ lock' = NoCPU
           ELSE /\ p' = [p EXCEPT ![c] = h + 1]
                /\ UNCHANGED <<state, lock, cproc, spc, running_p>>
      /\ UNCHANGED <<policy, ctime, priority, changes>>

Leave(c) ==
  /\ spc[c] = "scan" /\ p[c] \notin Slot
  /\ lock' = NoCPU
  /\ spc' = [spc EXCEPT ![c] = "idle"]
  /\ UNCHANGED <<policy, state, ctime, priority, cproc, p, running_p, changes>>

\* The running process acquires ptable.lock, changes its state and calls sched;
\* the scheduler goes on with the next slot.
Return(c, st) ==
  /\ spc[c] = "swtch"
  /\ lock = NoCPU
  /\ lock' = c
  /\ state' = [state EXCEPT ![cproc[c]] = st]
  /\ cproc' = [cproc EXCEPT ![c] = NoProc]
  /\ spc' = [spc EXCEPT ![c] = "scan"]
  /\ p' = [p EXCEPT ![c] = @ + 1]
  /\ UNCHANGED <<policy, ctime, priority, running_p, changes>>

\* wakeup() by an interrupt handler or by a process on another CPU.
Wakeup(s) ==
  /\ lock = NoCPU
  /\ state[s] = "SLEEPING"
  /\ state' = [state EXCEPT ![s] = "RUNNABLE"]
  /\ UNCHANGED <<policy, ctime, priority, lock, cproc, spc, p, running_p, changes>>

\* chprty() by a running process.
Chprty(s) ==
  /\ lock = NoCPU
  /\ \E c \in CPU : spc[c] = "swtch"
  /\ policy = "PBS" /\ changes < MaxChanges
  /\ \E v \in Priorities : priority' = [priority EXCEPT ![s] = v]
  /\ changes' = changes + 1
  /\ UNCHANGED <<policy, state, ctime, lock, cproc, spc, p, running_p>>

SchedStep(c) == Enter(c) \/ Skip(c) \/ Choose(c) \/ Leave(c)
Yield(c) == Return(c, "RUNNABLE")
Block(c) == Return(c, "SLEEPING") \/ Return(c, "ZOMBIE")

Next ==
  \/ \E c \in CPU : SchedStep(c) \/ Yield(c) \/ Block(c)
  \/ \E s \in Slot : Wakeup(s) \/ Chprty(s)

Spec == Init /\ [][Next]_vars

\* Fairness: timer interrupts make a running process yield again and again,
\* and a CPU spinning for ptable.lock gets it eventually.
Fairness ==
  \A c \in CPU : SF_vars(SchedStep(c)) /\ SF_vars(Yield(c) \/ Block(c))

FairSpec == Spec /\ Fairness

-----------------------------------------------------------------------------
(***************************************************************************)
(* Properties.                                                             *)
(***************************************************************************)

\* A process with a strictly better priority than every other one in the table
\* that could run does get a CPU: its value is honoured although chprty changes
\* it while the schedulers are scanning.  In FCFS, the oldest one does.
BestRuns ==
  \A s \in Slot :
    (/\ state[s] = "RUNNABLE"
     /\ [](\A t \in Slot \ {s} : state[t] \in {"RUNNABLE", "RUNNING"} => Key(s) < Key(t)))
      ~> state[s] # "RUNNABLE"

\* Processes of equal priority, or in FCFS of equal age, share the CPUs in turn:
\* none starves as long as all those that can run are equal.
EqualShare ==
  \A s \in Slot :
    (/\ state[s] = "RUNNABLE"
     /\ [](\A t \in Slot : state[t] \in {"RUNNABLE", "RUNNING"} => Key(s) = Key(t)))
      ~> state[s] # "RUNNABLE"

\* The scan of c is to reach a RUNNABLE slot from which FCFS moves the loop
\* variable back, to a process it then passes by because the one it started last
\* is RUNNING on another CPU and not younger.
Spins(c) ==
  /\ policy = "FCFS" /\ spc[c] = "scan"
  /\ \E s \in Runnable : s >= p[c] /\ HighP(s) < s /\ ~Takes(HighP(s))

\* "Scheduler never returns.  It loops, doing: choose a process to run, swtch to
\* start running that process": a scan, which holds ptable.lock, comes to an end
\* unless it spins; and a scan that spins does so for ever, since the process
\* it waits for needs ptable.lock to give up its CPU.
ScanEnds ==
  \A c \in CPU : /\ spc[c] = "scan" ~> spc[c] # "scan" \/ Spins(c)
                 /\ [](Spins(c) => []Spins(c))
=============================================================================
