------------------------------ MODULE ProcCore ------------------------------
(***************************************************************************)
(* The inductive invariant of module Proc, what the wakeups in it change, and*)
(* the steps of the scheduler, of interrupts and of user programs.         *)
(***************************************************************************)
EXTENDS ProcTypes

InKernelSleep == {"waiting", "sleeping"}

\* The context switch protocol with what makes it inductive: who may hold
\* ptable.lock, and in which state a CPU leaves a process behind.
SwitchInv ==
  /\ \A c \in CPU : spc[c] = "scan" => lock = c
  /\ \A c \in CPU : lock = c => spc[c] # "idle" /\ irq[c] = "none"
  /\ \A c \in CPU : spc[c] = "idle" => cproc[c] = NoProc /\ irq[c] # "yield"
  /\ \A c \in CPU : spc[c] = "swtch" => cproc[c] # NoProc /\ state[cproc[c]] = "RUNNING"
  /\ \A c \in CPU : spc[c] = "scan" /\ cproc[c] # NoProc =>
                      state[cproc[c]] \in {"RUNNABLE", "SLEEPING", "ZOMBIE"}
  /\ \A c, d \in CPU : cproc[c] = cproc[d] /\ cproc[c] # NoProc => c = d
  /\ \A s \in Slot : state[s] = "RUNNING" => \E c \in CPU : cproc[c] = s /\ spc[c] = "swtch"
  /\ \A c \in CPU : spc[c] = "swtch" /\ lock # c => ~yielded[cproc[c]]

\* How the state of a slot and the position of its kernel thread agree.
PcInv ==
  \A s \in Slot :
    /\ state[s] = "UNUSED" => pc[s] = "none"
    /\ state[s] = "EMBRYO" => pc[s] \in {"none", "forkret"}
    /\ pc[s] = "none" => state[s] \in {"UNUSED", "EMBRYO"}
    /\ state[s] = "SLEEPING" => pc[s] \in InKernelSleep /\ ~yielded[s]
    /\ pc[s] = "zombie" <=> state[s] = "ZOMBIE"
    /\ yielded[s] => state[s] \in {"RUNNABLE", "RUNNING"}

\* A slot that is EMBRYO belongs to the one process that is forking it.
EmbryoInv ==
  /\ \A s \in Slot : pc[s] \in {"copy", "run"} <=> np[s] # NoProc
  /\ \A s \in Slot : np[s] # NoProc => state[np[s]] = "EMBRYO"
  /\ \A s \in Slot : pc[s] = "copy" => pc[np[s]] = "none"
  /\ \A s \in Slot : pc[s] = "run" => pc[np[s]] = "forkret"
  /\ \A s, t \in Slot : np[s] = np[t] /\ np[s] # NoProc => s = t
  /\ \A n \in Slot : state[n] = "EMBRYO" => \E s \in Slot : np[s] = n

CoreInv == SwitchInv /\ PcInv /\ EmbryoInv

\* A wakeup makes SLEEPING processes RUNNABLE and touches no other.
LEMMA UnsleepState ==
  ASSUME NEW st \in States
  PROVE  Unsleep(st) = st \/ (st = "SLEEPING" /\ Unsleep(st) = "RUNNABLE")
  BY Zenon DEF Unsleep

LEMMA Wakeup1State ==
  ASSUME NEW st \in [Slot -> States], NEW ch
  PROVE  \A s \in Slot : \/ Wakeup1(st, ch)[s] = st[s]
                         \/ st[s] = "SLEEPING" /\ Wakeup1(st, ch)[s] = "RUNNABLE"
<1> TAKE s \in Slot
<1>1. Wakeup1(st, ch)[s] = IF chan[s] = ch THEN Unsleep(st[s]) ELSE st[s]
  BY DEF Wakeup1
<1>2. st[s] \in States
  OBVIOUS
<1>3. Unsleep(st[s]) = st[s] \/ (st[s] = "SLEEPING" /\ Unsleep(st[s]) = "RUNNABLE")
  BY <1>2, UnsleepState
<1>4. CASE chan[s] = ch
  BY <1>1, <1>3, <1>4
<1>5. CASE chan[s] # ch
  BY <1>1, <1>5
<1> QED  BY <1>4, <1>5

LEMMA ExitState ==
  ASSUME TypeOK, NEW s \in Slot
  PROVE  \A t \in Slot : \/ ExitWakeups(s)[t] = state[t]
                         \/ state[t] = "SLEEPING" /\ ExitWakeups(s)[t] = "RUNNABLE"
<1> TAKE t \in Slot
<1>1. Wakeup1(state, parent[s]) \in [Slot -> States]
  BY Wakeup1Type DEF TypeOK
<1>2. \/ Wakeup1(state, parent[s])[t] = state[t]
      \/ state[t] = "SLEEPING" /\ Wakeup1(state, parent[s])[t] = "RUNNABLE"
  BY Wakeup1State DEF TypeOK
<1> DEFINE w == Wakeup1(state, parent[s])
<1>3. \/ Wakeup1(w, InitProc)[t] = w[t]
      \/ w[t] = "SLEEPING" /\ Wakeup1(w, InitProc)[t] = "RUNNABLE"
  BY <1>1, Wakeup1State
<1>4. ExitWakeups(s) = w \/ ExitWakeups(s) = Wakeup1(w, InitProc)
  BY Zenon DEF ExitWakeups
<1> HIDE DEF w
<1>5. \/ w[t] = state[t]
      \/ state[t] = "SLEEPING" /\ w[t] = "RUNNABLE"
  BY <1>2 DEF w
<1>6. CASE ExitWakeups(s) = w
  BY <1>5, <1>6
<1>7. CASE ExitWakeups(s) = Wakeup1(w, InitProc)
  BY <1>3, <1>5, <1>7
<1> QED  BY <1>4, <1>6, <1>7

\* What the clock's wakeup changes: sleepers of &ticks become RUNNABLE, and a
\* killed process interrupted in user space goes to exit.
LEMMA TickEffect ==
  ASSUME TypeOK, NEW c \in CPU, TickWakeup(c)
  PROVE  /\ state' \in [Slot -> States]
         /\ \A t \in Slot : \/ state'[t] = state[t]
                            \/ state[t] = "SLEEPING" /\ state'[t] = "RUNNABLE"
         /\ \A t \in Slot : chan[t] = TicksChan => state'[t] # "SLEEPING"
         /\ \A t \in Slot : pc'[t] = pc[t] \/ (pc[t] = "user" /\ killed[t] /\ pc'[t] = "exit")
         /\ \A d \in CPU : irq'[d] = irq[d] \/ d = c
         /\ cproc[c] = NoProc => irq'[c] # "yield"
         /\ irq'[c] \in {"none", "yield"}
<1>1. state' = Wakeup1(state, TicksChan)
  BY DEF TickWakeup
<1>2. state \in [Slot -> States]
  BY DEF TypeOK
<1>3. ASSUME NEW t \in Slot
      PROVE  pc'[t] = pc[t] \/ (pc[t] = "user" /\ killed[t] /\ pc'[t] = "exit")
  <2>1. pc'[t] = IF t = cproc[c] /\ cproc[c] # NoProc /\ Dying(cproc[c])
                   THEN "exit" ELSE pc[t]
    BY DEF TickWakeup, TrapEnd
  <2>2. CASE t = cproc[c] /\ cproc[c] # NoProc /\ Dying(cproc[c])
    BY <2>1, <2>2 DEF Dying
  <2>3. CASE ~(t = cproc[c] /\ cproc[c] # NoProc /\ Dying(cproc[c]))
    BY <2>1, <2>3
  <2> QED  BY <2>2, <2>3
<1>4. \A t \in Slot : chan[t] = TicksChan => state'[t] # "SLEEPING"
  BY <1>1, <1>2 DEF Wakeup1, Unsleep
<1>5. /\ \A d \in CPU : irq'[d] = irq[d] \/ d = c
      /\ cproc[c] = NoProc => irq'[c] # "yield"
      /\ irq'[c] \in {"none", "yield"}
  BY DEF TickWakeup, TrapEnd, TypeOK
<1> QED  BY <1>1, <1>2, <1>3, <1>4, <1>5, Wakeup1State, Wakeup1Type

\* What exit's critical section changes.
LEMMA ExitEffect ==
  ASSUME TypeOK, NEW c \in CPU, NEW s \in Slot, ExitSched(c, s)
  PROVE  /\ state' \in [Slot -> States] /\ state'[s] = "ZOMBIE"
         /\ \A t \in Slot \ {s} : \/ state'[t] = state[t]
                                  \/ state[t] = "SLEEPING" /\ state'[t] = "RUNNABLE"
         /\ parent' = [k \in Slot |-> IF parent[k] = s THEN InitProc ELSE parent[k]]
<1>1. state' = [ExitWakeups(s) EXCEPT ![s] = "ZOMBIE"]
  BY DEF ExitSched
<1>2. ExitWakeups(s) \in [Slot -> States]
  BY ExitTypes
<1>3. \A t \in Slot : \/ ExitWakeups(s)[t] = state[t]
                      \/ state[t] = "SLEEPING" /\ ExitWakeups(s)[t] = "RUNNABLE"
  BY ExitState
<1>4. parent' = [k \in Slot |-> IF parent[k] = s THEN InitProc ELSE parent[k]]
  BY DEF ExitSched, Reparented
<1> QED  BY <1>1, <1>2, <1>3, <1>4, Names

\* exit wakes its parent, and initproc when it inherits a zombie.
LEMMA ExitWakes ==
  ASSUME TypeOK, NEW c \in CPU, NEW s \in Slot, ExitSched(c, s)
  PROVE  /\ \A t \in Slot \ {s} : chan[t] = parent[s] => state'[t] # "SLEEPING"
         /\ \A t, k \in Slot \ {s} :
              chan[t] = InitProc /\ parent[k] = s /\ state[k] = "ZOMBIE"
                => state'[t] # "SLEEPING"
<1> DEFINE w == Wakeup1(state, parent[s])
<1>1. state' = [ExitWakeups(s) EXCEPT ![s] = "ZOMBIE"] /\ ExitWakeups(s) \in [Slot -> States]
  BY ExitTypes DEF ExitSched
<1>2. w \in [Slot -> States] /\ Wakeup1(w, InitProc) \in [Slot -> States]
  BY Wakeup1Type, Zenon DEF TypeOK
<1>3. \A t \in Slot : chan[t] = parent[s] => w[t] # "SLEEPING"
  BY DEF Wakeup1, Unsleep, TypeOK
<1>4. \A t \in Slot : Wakeup1(w, InitProc)[t] = w[t]
                      \/ (w[t] = "SLEEPING" /\ Wakeup1(w, InitProc)[t] = "RUNNABLE")
  BY <1>2, Wakeup1State
<1>5. \A t \in Slot : chan[t] = InitProc => Wakeup1(w, InitProc)[t] # "SLEEPING"
  BY <1>2 DEF Wakeup1, Unsleep
<1>6. \A k \in Slot : state[k] = "ZOMBIE" => w[k] = "ZOMBIE"
  BY Wakeup1State, Zenon DEF TypeOK
<1>7. /\ ExitWakeups(s) = w \/ ExitWakeups(s) = Wakeup1(w, InitProc)
      /\ (\E k \in Slot : parent[k] = s /\ w[k] = "ZOMBIE")
            => ExitWakeups(s) = Wakeup1(w, InitProc)
  BY Zenon DEF ExitWakeups
<1> HIDE DEF w
<1> QED  BY <1>1, <1>2, <1>3, <1>4, <1>5, <1>6, <1>7, Zenon

\* A system call does not start in the middle of fork or of a sleep.
LEMMA CallsNames ==
  ASSUME NEW s \in Slot
  PROVE  Calls(s) \cap {"none", "copy", "run", "zombie", "waiting", "tosleep", "sleeping",
                       "forkret"} = {}
  BY BoundAssumption DEF Calls

\* CoreInv holds initially.
LEMMA CoreInit == Init => CoreInv
  BY Basics DEF Init, CoreInv, SwitchInv, PcInv, EmbryoInv

\* The scheduler loop and the timer interrupt keep CoreInv.
LEMMA CoreSched ==
  ASSUME TypeOK, CoreInv, NEW c \in CPU,
         SchedStep(c) \/ Timer(c) \/ IrqStep(c)
  PROVE  CoreInv'
<1> USE Basics
    DEF TypeOK, CoreInv, procvars, clockvars, cpuvars, Goto, AtPC, Executing,
        Resumed, InKernelSleep
<1>1. CASE SchedEnter(c)
  <2>1. SwitchInv'
    BY <1>1 DEF SchedEnter, SwitchInv, PcInv, EmbryoInv
  <2>2. PcInv'
    BY <1>1 DEF SchedEnter, SwitchInv, PcInv, EmbryoInv
  <2>3. EmbryoInv'
    BY <1>1 DEF SchedEnter, SwitchInv, PcInv, EmbryoInv
  <2> QED  BY <2>1, <2>2, <2>3
<1>2. CASE SchedRun(c)
  <2>1. SwitchInv'
    BY <1>2 DEF SchedRun, Runnable, SwitchInv, PcInv, EmbryoInv
  <2>2. PcInv'
    BY <1>2 DEF SchedRun, Runnable, SwitchInv, PcInv, EmbryoInv
  <2>3. EmbryoInv'
    BY <1>2 DEF SchedRun, Runnable, SwitchInv, PcInv, EmbryoInv
  <2> QED  BY <2>1, <2>2, <2>3
<1>3. CASE SchedLeave(c)
  <2>1. SwitchInv'
    BY <1>3 DEF SchedLeave, SwitchInv, PcInv, EmbryoInv
  <2>2. PcInv'
    BY <1>3 DEF SchedLeave, SwitchInv, PcInv, EmbryoInv
  <2>3. EmbryoInv'
    BY <1>3 DEF SchedLeave, SwitchInv, PcInv, EmbryoInv
  <2> QED  BY <2>1, <2>2, <2>3
<1>4. CASE Timer(c)
  <2>1. SwitchInv'
    BY <1>4 DEF Timer, TrapEnd, Dying, SwitchInv, PcInv, EmbryoInv
  <2>2. PcInv'
    BY <1>4 DEF Timer, TrapEnd, Dying, SwitchInv, PcInv, EmbryoInv
  <2>a. \A t \in Slot : pc'[t] = pc[t] \/ (pc[t] = "user" /\ pc'[t] = "exit")
    BY <1>4 DEF Timer, TrapEnd, Dying
  <2>b. \A t \in Slot : \A p \in {"copy", "run", "none", "forkret"} : pc'[t] = p <=> pc[t] = p
    BY <2>a
  <2>c. UNCHANGED <<state, np>>
    BY <1>4 DEF Timer
  <2>3. EmbryoInv'
    BY <2>b, <2>c DEF EmbryoInv
  <2> QED  BY <2>1, <2>2, <2>3
<1>5. CASE Tick(c)
  <2>1. SwitchInv'
    BY <1>5 DEF Tick, SwitchInv, PcInv, EmbryoInv
  <2>2. PcInv'
    BY <1>5 DEF Tick, SwitchInv, PcInv, EmbryoInv
  <2>3. EmbryoInv'
    BY <1>5 DEF Tick, SwitchInv, PcInv, EmbryoInv
  <2> QED  BY <2>1, <2>2, <2>3
<1>6. CASE TickWakeup(c)
  <2>a. irq[c] = "wake" /\ lock = NoCPU /\ UNCHANGED <<cproc, spc, lock, yielded, np>>
    BY <1>6 DEF TickWakeup
  <2>d. /\ \A t \in Slot : state'[t] = "RUNNING" <=> state[t] = "RUNNING"
        /\ \A d \in CPU : spc[d] # "scan" /\ lock # d
        /\ \A d \in CPU : irq'[d] = "yield" => irq[d] = "yield" \/ cproc[d] # NoProc
    BY <1>6, <2>a, TickEffect DEF SwitchInv
  <2>1. SwitchInv'
    BY <2>a, <2>d DEF SwitchInv
  <2>2. PcInv'
    <3> SUFFICES ASSUME NEW t \in Slot
                 PROVE  PcInv!(t)'
      BY DEF PcInv
    <3> QED  BY <1>6, <2>a, TickEffect DEF SwitchInv, PcInv
  <2>b. \A t \in Slot : state'[t] = "EMBRYO" <=> state[t] = "EMBRYO"
    BY <1>6, TickEffect
  <2>c. \A t \in Slot : \A p \in {"copy", "run", "none", "forkret"} : pc'[t] = p <=> pc[t] = p
    BY <1>6, TickEffect
  <2>3. EmbryoInv'
    BY <2>a, <2>b, <2>c DEF EmbryoInv
  <2> QED  BY <2>1, <2>2, <2>3
<1> HIDE DEF TypeOK, CoreInv
<1> QED  BY <1>1, <1>2, <1>3, <1>4, <1>5, <1>6 DEF SchedStep, IrqStep

\* A forced yield and the traps from user space keep CoreInv.
LEMMA CoreUser ==
  ASSUME TypeOK, CoreInv, NEW c \in CPU, NEW s \in Slot,
         YieldStep(c, s) \/ UserStep(c, s)
  PROVE  CoreInv'
<1> USE Basics
    DEF TypeOK, CoreInv, procvars, clockvars, cpuvars, Goto, AtPC, Executing,
        Resumed, InKernelSleep
<1>1. CASE Yield(c, s)
  <2>1. SwitchInv'
    BY <1>1 DEF Yield, Sched, SwitchInv, PcInv, EmbryoInv
  <2>2. PcInv'
    BY <1>1 DEF Yield, Sched, SwitchInv, PcInv, EmbryoInv
  <2>3. EmbryoInv'
    BY <1>1 DEF Yield, Sched, SwitchInv, PcInv, EmbryoInv
  <2> QED  BY <2>1, <2>2, <2>3
<1>2. CASE YieldReturn(c, s)
  <2>1. SwitchInv'
    BY <1>2 DEF YieldReturn, Dying, SwitchInv, PcInv, EmbryoInv
  <2>2. PcInv'
    BY <1>2 DEF YieldReturn, Dying, SwitchInv, PcInv, EmbryoInv
  <2>3. EmbryoInv'
    BY <1>2 DEF YieldReturn, Dying, SwitchInv, PcInv, EmbryoInv
  <2> QED  BY <2>1, <2>2, <2>3
<1>3. CASE Syscall(c, s)
  <2>1. SwitchInv'
    BY <1>3, CallsNames DEF Syscall, SwitchInv, PcInv, EmbryoInv
  <2>2. PcInv'
    BY <1>3, CallsNames DEF Syscall, SwitchInv, PcInv, EmbryoInv
  <2>3. EmbryoInv'
    BY <1>3, CallsNames DEF Syscall, SwitchInv, PcInv, EmbryoInv
  <2> QED  BY <2>1, <2>2, <2>3
<1>4. CASE Fault(c, s)
  <2>1. SwitchInv'
    BY <1>4 DEF Fault, SwitchInv, PcInv, EmbryoInv
  <2>2. PcInv'
    BY <1>4 DEF Fault, SwitchInv, PcInv, EmbryoInv
  <2>3. EmbryoInv'
    BY <1>4 DEF Fault, SwitchInv, PcInv, EmbryoInv
  <2> QED  BY <2>1, <2>2, <2>3
<1> HIDE DEF TypeOK, CoreInv
<1> QED  BY <1>1, <1>2, <1>3, <1>4 DEF YieldStep, UserStep
=============================================================================
