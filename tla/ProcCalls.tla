------------------------------ MODULE ProcCalls -----------------------------
(***************************************************************************)
(* The system calls of module Proc keep its inductive invariant; what      *)
(* follows for the context switch and the slots; and that sys_sleep misses *)
(* no tick.  For every number of slots and of CPUs and every clock.        *)
(***************************************************************************)
EXTENDS ProcCore

\* The steps of fork keep CoreInv.
LEMMA CoreFork ==
  ASSUME TypeOK, CoreInv, NEW c \in CPU, NEW s \in Slot,
         ForkStep(c, s)
  PROVE  CoreInv'
<1> USE Basics
    DEF TypeOK, CoreInv, procvars, clockvars, cpuvars, Goto, AtPC, Executing,
        Resumed, InKernelSleep
<1>1. CASE AllocProc(c, s)
  <2>1. SwitchInv'
    BY <1>1 DEF AllocProc, Unused, SwitchInv, PcInv, EmbryoInv
  <2>2. PcInv'
    BY <1>1 DEF AllocProc, Unused, SwitchInv, PcInv, EmbryoInv
  <2>3. EmbryoInv'
    BY <1>1 DEF AllocProc, Unused, SwitchInv, PcInv, EmbryoInv
  <2> QED  BY <2>1, <2>2, <2>3
<1>2. CASE AllocFull(c, s)
  <2>1. SwitchInv'
    BY <1>2 DEF AllocFull, SwitchInv, PcInv, EmbryoInv
  <2>2. PcInv'
    BY <1>2 DEF AllocFull, SwitchInv, PcInv, EmbryoInv
  <2>3. EmbryoInv'
    BY <1>2 DEF AllocFull, SwitchInv, PcInv, EmbryoInv
  <2> QED  BY <2>1, <2>2, <2>3
<1>3. CASE ForkFail(c, s)
  <2>1. SwitchInv'
    BY <1>3 DEF ForkFail, SwitchInv, PcInv, EmbryoInv
  <2>2. PcInv'
    BY <1>3 DEF ForkFail, SwitchInv, PcInv, EmbryoInv
  <2>3. EmbryoInv'
    BY <1>3 DEF ForkFail, SwitchInv, PcInv, EmbryoInv
  <2> QED  BY <2>1, <2>2, <2>3
<1>4. CASE ForkCopy(c, s)
  <2>1. SwitchInv'
    BY <1>4 DEF ForkCopy, SwitchInv, PcInv, EmbryoInv
  <2>2. PcInv'
    BY <1>4 DEF ForkCopy, SwitchInv, PcInv, EmbryoInv
  <2>a. /\ pc[s] = "copy" /\ np[s] \in Slot /\ np[s] # s /\ pc[np[s]] = "none"
        /\ pc' = [pc EXCEPT ![s] = "run", ![np[s]] = "forkret"]
        /\ UNCHANGED <<state, np>>
    BY <1>4 DEF ForkCopy, EmbryoInv
  <2>b. \A t \in Slot \ {s} : np[t] # NoProc => np[t] # np[s] /\ t # np[s] /\ np[t] # s
    <3>1. state[s] = "RUNNING"
      BY <1>4 DEF ForkCopy, SwitchInv
    <3> SUFFICES ASSUME NEW t \in Slot, t # s, np[t] # NoProc
                 PROVE  np[t] # np[s] /\ t # np[s] /\ np[t] # s
      OBVIOUS
    <3>2. np[t] # np[s]
      BY <2>a DEF EmbryoInv
    <3>3. state[np[t]] = "EMBRYO" /\ pc[t] # "none"
      BY DEF EmbryoInv
    <3> QED  BY <2>a, <3>1, <3>2, <3>3
  <2>c. np[np[s]] = NoProc
    BY <2>a DEF EmbryoInv
  <2>d. /\ pc'[s] = "run" /\ pc'[np[s]] = "forkret"
        /\ \A t \in Slot \ {s, np[s]} : pc'[t] = pc[t]
    BY <2>a
  <2>e. \A t \in Slot : pc'[t] \in {"copy", "run"} <=> np[t] # NoProc
    BY <2>a, <2>c, <2>d DEF EmbryoInv
  <2>f. \A t \in Slot : /\ pc'[t] = "copy" => pc'[np[t]] = "none"
                        /\ pc'[t] = "run" => pc'[np[t]] = "forkret"
    <3> SUFFICES ASSUME NEW t \in Slot, t # s, np[t] # NoProc
                 PROVE  /\ pc'[t] = "copy" => pc'[np[t]] = "none"
                        /\ pc'[t] = "run" => pc'[np[t]] = "forkret"
      BY <2>d, <2>e
    <3>1. np[t] \in Slot \ {s, np[s]} /\ t # np[s]
      BY <2>b
    <3> QED  BY <2>d, <3>1 DEF EmbryoInv
  <2>3. EmbryoInv'
    BY <2>a, <2>e, <2>f DEF EmbryoInv
  <2> QED  BY <2>1, <2>2, <2>3
<1>5. CASE ForkRun(c, s)
  <2>1. SwitchInv'
    BY <1>5 DEF ForkRun, SwitchInv, PcInv, EmbryoInv
  <2>2. PcInv'
    BY <1>5 DEF ForkRun, SwitchInv, PcInv, EmbryoInv
  <2>3. EmbryoInv'
    BY <1>5 DEF ForkRun, SwitchInv, PcInv, EmbryoInv
  <2> QED  BY <2>1, <2>2, <2>3
<1> HIDE DEF TypeOK, CoreInv
<1> QED  BY <1>1, <1>2, <1>3, <1>4, <1>5 DEF ForkStep

\* The steps of wait keep CoreInv.
LEMMA CoreWait ==
  ASSUME TypeOK, CoreInv, NEW c \in CPU, NEW s \in Slot,
         WaitStep(c, s)
  PROVE  CoreInv'
<1> USE Basics
    DEF TypeOK, CoreInv, procvars, clockvars, cpuvars, Goto, AtPC, Executing,
        Resumed, InKernelSleep
<1>1. CASE WaitReap(c, s)
  <2>0. PICK k \in Slot : /\ state[k] = "ZOMBIE"
                          /\ state' = [state EXCEPT ![k] = "UNUSED"]
                          /\ pc' = [pc EXCEPT ![s] = "ret", ![k] = "none"]
    BY <1>1 DEF WaitReap, Zombies, Kids
  <2>a. /\ cproc[c] = s /\ spc[c] = "swtch" /\ pc[s] \in {"wait", "waiting"}
        /\ lock \in {c, NoCPU} /\ lock' = NoCPU /\ ~yielded[s]
        /\ UNCHANGED <<cproc, spc, irq, yielded, np>>
    BY <1>1 DEF WaitReap, WaitLoop, SwitchInv
  <2>b. state[s] = "RUNNING" /\ k # s
    BY <2>0, <2>a DEF SwitchInv
  <2>1. SwitchInv'
    BY <2>0, <2>a, <2>b DEF SwitchInv
  <2>2. PcInv'
    BY <2>0, <2>a, <2>b DEF PcInv
  <2>c. \A t \in Slot : np[t] # NoProc => np[t] \in Slot \ {s, k}
    BY <2>0, <2>b DEF EmbryoInv
  <2>3. EmbryoInv'
    BY <2>0, <2>a, <2>b, <2>c DEF PcInv, EmbryoInv
  <2> QED  BY <2>1, <2>2, <2>3
<1>2. CASE WaitFail(c, s)
  <2>1. SwitchInv'
    BY <1>2 DEF WaitFail, WaitLoop, SwitchInv, PcInv, EmbryoInv
  <2>2. PcInv'
    BY <1>2 DEF WaitFail, WaitLoop, SwitchInv, PcInv, EmbryoInv
  <2>3. EmbryoInv'
    BY <1>2 DEF WaitFail, WaitLoop, SwitchInv, PcInv, EmbryoInv
  <2> QED  BY <2>1, <2>2, <2>3
<1>3. CASE WaitSleep(c, s)
  <2>1. SwitchInv'
    BY <1>3 DEF WaitSleep, Sched, WaitLoop, SwitchInv, PcInv, EmbryoInv
  <2>2. PcInv'
    BY <1>3 DEF WaitSleep, Sched, WaitLoop, SwitchInv, PcInv, EmbryoInv
  <2>3. EmbryoInv'
    BY <1>3 DEF WaitSleep, Sched, WaitLoop, SwitchInv, PcInv, EmbryoInv
  <2> QED  BY <2>1, <2>2, <2>3
<1> HIDE DEF TypeOK, CoreInv
<1> QED  BY <1>1, <1>2, <1>3 DEF WaitStep

\* The steps of sys_sleep keep CoreInv.
LEMMA CoreSleep ==
  ASSUME TypeOK, CoreInv, NEW c \in CPU, NEW s \in Slot,
         SleepStep(c, s)
  PROVE  CoreInv'
<1> USE Basics
    DEF TypeOK, CoreInv, procvars, clockvars, cpuvars, Goto, AtPC, Executing,
        Resumed, InKernelSleep
<1>1. CASE SysSleep(c, s)
  <2>1. SwitchInv'
    BY <1>1 DEF SysSleep, SleepTest, SwitchInv, PcInv, EmbryoInv
  <2>2. PcInv'
    BY <1>1 DEF SysSleep, SleepTest, SwitchInv, PcInv, EmbryoInv
  <2>3. EmbryoInv'
    BY <1>1 DEF SysSleep, SleepTest, SwitchInv, PcInv, EmbryoInv
  <2> QED  BY <2>1, <2>2, <2>3
<1>2. CASE SleepSched(c, s)
  <2>1. SwitchInv'
    BY <1>2 DEF SleepSched, Sched, SwitchInv, PcInv, EmbryoInv
  <2>2. PcInv'
    BY <1>2 DEF SleepSched, Sched, SwitchInv, PcInv, EmbryoInv
  <2>3. EmbryoInv'
    BY <1>2 DEF SleepSched, Sched, SwitchInv, PcInv, EmbryoInv
  <2> QED  BY <2>1, <2>2, <2>3
<1>3. CASE SleepReturn(c, s)
  <2>1. SwitchInv'
    BY <1>3 DEF SleepReturn, SwitchInv, PcInv, EmbryoInv
  <2>2. PcInv'
    BY <1>3 DEF SleepReturn, SwitchInv, PcInv, EmbryoInv
  <2>3. EmbryoInv'
    BY <1>3 DEF SleepReturn, SwitchInv, PcInv, EmbryoInv
  <2> QED  BY <2>1, <2>2, <2>3
<1>4. CASE SleepAgain(c, s)
  <2>1. SwitchInv'
    BY <1>4 DEF SleepAgain, SleepTest, SwitchInv, PcInv, EmbryoInv
  <2>2. PcInv'
    BY <1>4 DEF SleepAgain, SleepTest, SwitchInv, PcInv, EmbryoInv
  <2>3. EmbryoInv'
    BY <1>4 DEF SleepAgain, SleepTest, SwitchInv, PcInv, EmbryoInv
  <2> QED  BY <2>1, <2>2, <2>3
<1> HIDE DEF TypeOK, CoreInv
<1> QED  BY <1>1, <1>2, <1>3, <1>4 DEF SleepStep

\* The other steps of the kernel, those of fork, wait and sys_sleep
\* included, keep CoreInv.
LEMMA CoreKernel ==
  ASSUME TypeOK, CoreInv, NEW c \in CPU, NEW s \in Slot,
         KernelStep(c, s)
  PROVE  CoreInv'
<1> USE Basics
    DEF TypeOK, CoreInv, procvars, clockvars, cpuvars, Goto, AtPC, Executing,
        Resumed, InKernelSleep
<1>1. CASE Forkret(c, s)
  <2>1. SwitchInv'
    BY <1>1 DEF Forkret, SwitchInv, PcInv, EmbryoInv
  <2>2. PcInv'
    BY <1>1 DEF Forkret, SwitchInv, PcInv, EmbryoInv
  <2>3. EmbryoInv'
    BY <1>1 DEF Forkret, SwitchInv, PcInv, EmbryoInv
  <2> QED  BY <2>1, <2>2, <2>3
<1>2. CASE SyscallReturn(c, s)
  <2>1. SwitchInv'
    BY <1>2 DEF SyscallReturn, SwitchInv, PcInv, EmbryoInv
  <2>2. PcInv'
    BY <1>2 DEF SyscallReturn, SwitchInv, PcInv, EmbryoInv
  <2>3. EmbryoInv'
    BY <1>2 DEF SyscallReturn, SwitchInv, PcInv, EmbryoInv
  <2> QED  BY <2>1, <2>2, <2>3
<1>3. CASE ExitClose(c, s)
  <2>1. SwitchInv'
    BY <1>3 DEF ExitClose, SwitchInv, PcInv, EmbryoInv
  <2>2. PcInv'
    BY <1>3 DEF ExitClose, SwitchInv, PcInv, EmbryoInv
  <2>3. EmbryoInv'
    BY <1>3 DEF ExitClose, SwitchInv, PcInv, EmbryoInv
  <2> QED  BY <2>1, <2>2, <2>3
<1>4. CASE ExitSched(c, s)
  <2>0. /\ state' \in [Slot -> States] /\ state'[s] = "ZOMBIE"
        /\ \A t \in Slot \ {s} : \/ state'[t] = state[t]
                                 \/ state[t] = "SLEEPING" /\ state'[t] = "RUNNABLE"
    BY <1>4, ExitEffect
  <2>a. /\ cproc[c] = s /\ spc[c] = "swtch" /\ irq[c] = "none" /\ pc[s] = "exitlk"
        /\ lock = NoCPU /\ lock' = c
        /\ pc' = [pc EXCEPT ![s] = "zombie"] /\ spc' = [spc EXCEPT ![c] = "scan"]
        /\ UNCHANGED <<cproc, irq, yielded, np>>
    BY <1>4 DEF ExitSched, Sched
  <2>c. \A t \in Slot : np[t] # NoProc => np[t] \in Slot \ {s}
    BY <2>a DEF SwitchInv, EmbryoInv
  <2>d. /\ \A t \in Slot : state'[t] = "RUNNING" => state[t] = "RUNNING" /\ t # s
        /\ \A t \in Slot : state[t] = "RUNNING" => state'[t] = "RUNNING" \/ t = s
        /\ \A t \in Slot : state'[t] = "EMBRYO" <=> state[t] = "EMBRYO"
    BY <2>0, <2>a DEF SwitchInv
  <2>e. \A d \in CPU \ {c} : spc'[d] = spc[d] /\ spc[d] # "scan" /\ cproc[d] # s
    BY <2>a DEF SwitchInv
  <2>1. SwitchInv'
    <3> SUFFICES ASSUME NEW d \in CPU
                 PROVE /\ spc'[d] = "swtch" => cproc[d] # NoProc /\ state'[cproc[d]] = "RUNNING"
                       /\ spc'[d] = "scan" => d = c
                       /\ spc'[d] = "swtch" => ~yielded[cproc[d]]
      BY <2>0, <2>a, <2>d, <2>e DEF SwitchInv
    <3> QED  BY <2>a, <2>d, <2>e DEF SwitchInv
  <2>2. PcInv'
    BY <2>0, <2>a DEF SwitchInv, PcInv
  <2>3. EmbryoInv'
    BY <2>a, <2>c, <2>d DEF EmbryoInv
  <2> QED  BY <2>1, <2>2, <2>3
<1>5. CASE Kill(c, s)
  <2>1. SwitchInv'
    BY <1>5, UnsleepState DEF Kill, SwitchInv, PcInv, EmbryoInv
  <2>2. PcInv'
    BY <1>5, UnsleepState DEF Kill, SwitchInv, PcInv, EmbryoInv
  <2>3. EmbryoInv'
    <3>1. np' = np /\ pc' = [pc EXCEPT ![s] = "ret"] /\ pc[s] = "kill"
      BY <1>5 DEF Kill
    <3>2. \A t \in Slot : state'[t] = "EMBRYO" <=> state[t] = "EMBRYO"
      BY <1>5, UnsleepState DEF Kill
    <3>3. \A t \in Slot : \A p \in {"copy", "run", "none", "forkret"} : pc'[t] = p <=> pc[t] = p
      BY <3>1
    <3> QED  BY <3>1, <3>2, <3>3 DEF EmbryoInv
  <2> QED  BY <2>1, <2>2, <2>3
<1> HIDE DEF TypeOK, CoreInv
<1> QED  BY <1>1, <1>2, <1>3, <1>4, <1>5, CoreFork, CoreWait, CoreSleep DEF KernelStep

-----------------------------------------------------------------------------
\* Every action keeps CoreInv.
LEMMA CoreStep == TypeOK /\ CoreInv /\ [Next]_vars => CoreInv'
<1> SUFFICES ASSUME TypeOK, CoreInv, [Next]_vars PROVE CoreInv'
  OBVIOUS
<1>1. CASE Next
  BY <1>1, CoreSched, CoreKernel, CoreUser DEF Next
<1>2. CASE UNCHANGED vars
  BY <1>2 DEF vars, procvars, clockvars, cpuvars, CoreInv, SwitchInv, PcInv, EmbryoInv
<1> QED  BY <1>1, <1>2

\* CoreInv in every reachable state.
THEOREM CoreCorrect == Spec => []CoreInv
<1> QED  BY TypeCorrect, CoreInit, CoreStep, PTL DEF Spec

\* A process runs on at most one CPU, RUNNING means switched to, and the
\* scheduler loop holds ptable.lock.
THEOREM SwitchCorrect == Spec => []SwitchProtocol
<1>1. TypeOK /\ CoreInv => SwitchProtocol
  BY Basics DEF TypeOK, CoreInv, SwitchInv, SwitchProtocol
<1> QED  BY <1>1, TypeCorrect, CoreCorrect, PTL

\* fork's unlocked writes go to a slot that no other process is forking.
THEOREM EmbryoCorrect == Spec => []EmbryoOwned
<1>1. TypeOK /\ CoreInv => EmbryoOwned
  BY Basics DEF TypeOK, CoreInv, EmbryoInv, EmbryoOwned
<1> QED  BY <1>1, TypeCorrect, CoreCorrect, PTL

-----------------------------------------------------------------------------
\* The kernel thread that is executing belongs to a RUNNING process.
LEMMA ExecutingState ==
  ASSUME TypeOK, CoreInv, NEW c \in CPU, NEW s \in Slot, Executing(c, s)
  PROVE  state[s] = "RUNNING"
  BY DEF CoreInv, SwitchInv, Executing

-----------------------------------------------------------------------------
(***************************************************************************)
(* The clock and sys_sleep.                                                *)
(***************************************************************************)

\* The while test of sys_sleep: process s has not slept long enough.
Early(s) == (ticks - args[s].ticks0) % TickMod < args[s].n

\* NoLostTick with what makes it inductive: only CPU 0 handles the clock, and
\* holds tickslock from the tick to its wakeup; a process between the test and
\* sched holds tickslock, runs with interrupts off and has not slept enough; a
\* process asleep in sys_sleep is on the channel that the clock wakes.
ClockInv ==
  /\ \A c \in CPU : irq[c] \in {"tick", "wake"} => c = 0
  /\ \A c \in CPU : irq[c] = "wake" => tlock = c
  /\ \A s \in Slot : pc[s] = "tosleep" =>
       /\ Early(s)
       /\ \E c \in CPU : cproc[c] = s /\ spc[c] = "swtch" /\ tlock = c /\ irq[c] = "none"
  /\ \A s \in Slot : state[s] = "SLEEPING" /\ pc[s] = "sleeping" =>
       chan[s] = TicksChan /\ (Early(s) \/ irq[0] = "wake")

\* ClockInv holds initially.
LEMMA ClockInit == Init => ClockInv
  BY Basics DEF Init, ClockInv

\* Steps that leave the clock alone: nobody comes to sleep in sys_sleep, and a
\* process about to do so keeps its CPU and its interrupts off.
ClockQuiet ==
  /\ UNCHANGED clockvars
  /\ \A t \in Slot : pc'[t] = "tosleep" => pc[t] = "tosleep"
  /\ \A t \in Slot : state'[t] = "SLEEPING" /\ pc'[t] = "sleeping" =>
       state[t] = "SLEEPING" /\ pc[t] = "sleeping" /\ chan'[t] = chan[t]
  /\ \A d \in CPU : irq'[d] = "tick" => irq[d] = "tick" \/ d = 0
  /\ \A d \in CPU : irq'[d] = "wake" <=> irq[d] = "wake"
  /\ \A t \in Slot, d \in CPU :
       pc[t] = "tosleep" /\ cproc[d] = t /\ spc[d] = "swtch" /\ tlock = d /\ irq[d] = "none"
         => cproc'[d] = t /\ spc'[d] = "swtch" /\ irq'[d] = "none"

\* Such a step keeps ClockInv.
LEMMA ClockQuietKeeps ==
  ASSUME TypeOK, ClockInv, ClockQuiet
  PROVE  ClockInv'
<1>1. \A t \in Slot : Early(t)' <=> Early(t)
  BY DEF ClockQuiet, Early, clockvars
<1>2. tlock' = tlock
  BY DEF ClockQuiet, clockvars
<1>3. \A t \in Slot : pc'[t] = "tosleep" =>
        \E d \in CPU : cproc'[d] = t /\ spc'[d] = "swtch" /\ tlock' = d /\ irq'[d] = "none"
  BY <1>2 DEF ClockQuiet, ClockInv
<1> QED  BY <1>1, <1>2, <1>3, Basics DEF ClockQuiet, ClockInv

\* The clock's tick, and its wakeup of everybody on &ticks, keep ClockInv.
LEMMA ClockIrq ==
  ASSUME TypeOK, CoreInv, ClockInv, NEW c \in CPU, IrqStep(c)
  PROVE  ClockInv'
<1>1. c = 0
  BY DEF IrqStep, Tick, TickWakeup, ClockInv
<1>2. \A s \in Slot : pc[s] # "tosleep"
  BY Basics DEF IrqStep, Tick, TickWakeup, ClockInv
<1>3. CASE Tick(c)
  <2>1. /\ irq' = [irq EXCEPT ![c] = "wake"] /\ tlock' = c /\ tlock = NoCPU
        /\ UNCHANGED <<state, chan, pc>>
    BY <1>3 DEF Tick, procvars
  <2>2. irq'[0] = "wake" /\ \A d \in CPU : d # c => irq'[d] = irq[d]
    BY <1>1, <2>1, Basics DEF TypeOK
  <2>3. \A d \in CPU : d # c => irq[d] \notin {"tick", "wake"}
    BY <1>1, Zenon DEF ClockInv
  <2> QED  BY <1>1, <1>2, <2>1, <2>2, <2>3 DEF ClockInv
<1>4. CASE TickWakeup(c)
  <2>1. /\ \A d \in CPU : irq'[d] \notin {"tick", "wake"}
        /\ \A s \in Slot : pc'[s] # "tosleep"
    BY <1>1, <1>2, <1>4, TickEffect DEF ClockInv
  <2>2. \A s \in Slot : ~(state'[s] = "SLEEPING" /\ pc'[s] = "sleeping")
    BY <1>4, TickEffect DEF ClockInv
  <2> QED  BY <2>1, <2>2 DEF ClockInv
<1> QED  BY <1>3, <1>4 DEF IrqStep

\* The test of sys_sleep, with tickslock taken.
LEMMA ClockTest ==
  ASSUME TypeOK, CoreInv, ClockInv, NEW c \in CPU, NEW s \in Slot,
         SysSleep(c, s) \/ SleepAgain(c, s)
  PROVE  ClockInv'
<1>1. /\ Executing(c, s) /\ tlock = NoCPU
      /\ UNCHANGED <<ticks, state, chan, cproc, spc, irq>>
  BY DEF SysSleep, SleepAgain, AtPC, procvars, cpuvars
<1>2. state[s] = "RUNNING"
  BY <1>1, ExecutingState
<1>3. \A t \in Slot : pc[t] # "tosleep"
  BY <1>1, Basics DEF ClockInv
<1>4. \A d \in CPU : irq[d] # "wake"
  BY <1>1, Basics DEF ClockInv
<1>5. PICK a \in [n : Nat, ticks0 : Nat] : SleepTest(c, s, a)
  BY SleepTestType, Zenon DEF SysSleep, SleepAgain, TypeOK
<1>6. \A t \in Slot : t # s => pc'[t] = pc[t] /\ args'[t] = args[t]
  BY <1>5 DEF SleepTest, Goto, TypeOK
<1>7. pc'[s] # "sleeping"
  BY <1>5 DEF SleepTest, Goto, TypeOK
<1>8. pc'[s] = "tosleep" => /\ (ticks - a.ticks0) % TickMod < a.n
                            /\ args'[s] = a /\ tlock' = c
  <2>1. CASE ~ ((ticks - a.ticks0) % TickMod < a.n) \/ killed[s]
    BY <1>5, <2>1 DEF SleepTest, Goto, TypeOK
  <2>2. CASE ~(~ ((ticks - a.ticks0) % TickMod < a.n) \/ killed[s])
    BY <1>5, <2>2 DEF SleepTest, Goto, TypeOK
  <2> QED  BY <2>1, <2>2
<1>9. \A t \in Slot : pc'[t] = "tosleep" =>
        /\ Early(t)'
        /\ \E d \in CPU : cproc'[d] = t /\ spc'[d] = "swtch" /\ tlock' = d /\ irq'[d] = "none"
  BY <1>1, <1>3, <1>6, <1>8 DEF Early, Executing
<1>10. \A t \in Slot : state'[t] = "SLEEPING" /\ pc'[t] = "sleeping" =>
         chan'[t] = TicksChan /\ Early(t)'
  <2>1. SUFFICES ASSUME NEW t \in Slot, state'[t] = "SLEEPING", pc'[t] = "sleeping"
                 PROVE  chan'[t] = TicksChan /\ Early(t)'
    OBVIOUS
  <2>2. t # s /\ chan[t] = TicksChan /\ Early(t)
    BY <1>1, <1>4, <1>6, <1>7, <2>1, Basics DEF ClockInv
  <2> QED  BY <1>1, <1>6, <2>2 DEF Early
<1> QED  BY <1>1, <1>4, <1>9, <1>10 DEF ClockInv

\* sleep() trades tickslock for ptable.lock and leaves the CPU.
LEMMA ClockSleep ==
  ASSUME TypeOK, CoreInv, ClockInv, NEW c \in CPU, NEW s \in Slot, SleepSched(c, s)
  PROVE  ClockInv'
<1>1. /\ pc[s] = "tosleep" /\ cproc[c] = s /\ spc[c] = "swtch"
      /\ chan' = [chan EXCEPT ![s] = TicksChan] /\ state' = [state EXCEPT ![s] = "SLEEPING"]
      /\ pc' = [pc EXCEPT ![s] = "sleeping"] /\ tlock' = NoCPU
      /\ UNCHANGED <<ticks, args, irq>>
  BY DEF SleepSched, AtPC, Executing, Goto
<1>2. Early(s) /\ tlock = c /\ irq[c] = "none"
  BY <1>1, Basics DEF ClockInv, CoreInv, SwitchInv
<1>3. \A t \in Slot : pc[t] = "tosleep" => t = s
  <2>1. \A t \in Slot : pc[t] = "tosleep" => \E d \in CPU : cproc[d] = t /\ tlock = d
    BY DEF ClockInv
  <2> QED  BY <1>1, <1>2, <2>1
<1>4. \A d \in CPU : irq[d] # "wake"
  BY <1>2 DEF ClockInv
<1>5. \A t \in Slot : Early(t)' <=> Early(t)
  BY <1>1 DEF Early
<1>6. \A t \in Slot : pc'[t] # "tosleep"
  BY <1>1, <1>3 DEF TypeOK
<1>7. \A t \in Slot : state'[t] = "SLEEPING" /\ pc'[t] = "sleeping" =>
        chan'[t] = TicksChan /\ Early(t)
  BY <1>1, <1>2, <1>4, Basics DEF TypeOK, ClockInv
<1> QED  BY <1>1, <1>4, <1>5, <1>6, <1>7 DEF ClockInv

\* Every other step leaves the clock alone.
LEMMA ClockRest ==
  ASSUME TypeOK, CoreInv, NEW c \in CPU,
         \/ SchedStep(c) \/ Timer(c)
         \/ \E s \in Slot : \/ KernelStep(c, s) /\ ~SysSleep(c, s) /\ ~SleepAgain(c, s)
                                                /\ ~SleepSched(c, s)
                            \/ YieldStep(c, s) \/ UserStep(c, s)
  PROVE  ClockQuiet
<1> USE Basics DEF ClockQuiet
<1>a. /\ state \in [Slot -> States] /\ pc \in [Slot -> PCs] /\ chan \in [Slot -> Chan]
      /\ spc \in [CPU -> {"idle", "scan", "swtch"}] /\ cproc \in [CPU -> Slot \cup {NoProc}]
      /\ irq \in [CPU -> {"none", "tick", "wake", "yield"}]
  BY Zenon DEF TypeOK
<1>1. CASE SchedEnter(c)
  BY <1>a, <1>1 DEF SchedEnter, procvars
<1>2. CASE SchedRun(c)
  BY <1>a, <1>2 DEF SchedRun, Runnable
<1>3. CASE SchedLeave(c)
  BY <1>a, <1>3 DEF SchedLeave, procvars
<1>4. CASE Timer(c)
  <2>1. tlock # c /\ irq[c] = "none" /\ UNCHANGED <<clockvars, state, chan, cproc, spc>>
    BY <1>4 DEF Timer, procvars, cpuvars
  <2>2. \A t \in Slot : pc'[t] = pc[t] \/ pc'[t] = "exit"
    BY <1>a, <1>4, ZenonT(30) DEF Timer, TrapEnd
  <2>3. /\ \A d \in CPU : d # c => irq'[d] = irq[d]
        /\ irq'[c] # "wake" /\ (irq'[c] = "tick" => c = 0)
    BY <1>a, <1>4, Zenon DEF Timer, TrapEnd
  <2> QED  BY <2>1, <2>2, <2>3
<1>5. ASSUME NEW s \in Slot, Forkret(c, s) PROVE ClockQuiet
  BY <1>a, <1>5 DEF Forkret, Goto, Resumed, procvars, cpuvars
<1>6. ASSUME NEW s \in Slot, SyscallReturn(c, s) PROVE ClockQuiet
  BY <1>a, <1>6 DEF SyscallReturn, Goto, AtPC, procvars, cpuvars
<1>7. ASSUME NEW s \in Slot, AllocProc(c, s) PROVE ClockQuiet
  BY <1>a, <1>7 DEF AllocProc, Goto, AtPC, Unused, cpuvars
<1>8. ASSUME NEW s \in Slot, AllocFull(c, s) PROVE ClockQuiet
  BY <1>a, <1>8 DEF AllocFull, Goto, AtPC, procvars, cpuvars
<1>9. ASSUME NEW s \in Slot, ForkFail(c, s) PROVE ClockQuiet
  BY <1>a, <1>9 DEF ForkFail, Goto, AtPC, cpuvars
<1>10. ASSUME NEW s \in Slot, ForkCopy(c, s) PROVE ClockQuiet
  BY <1>a, <1>10 DEF ForkCopy, Goto, AtPC, cpuvars
<1>11. ASSUME NEW s \in Slot, ForkRun(c, s) PROVE ClockQuiet
  BY <1>a, <1>11 DEF ForkRun, Goto, AtPC, cpuvars
<1>12. ASSUME NEW s \in Slot, ExitClose(c, s) PROVE ClockQuiet
  BY <1>a, <1>12 DEF ExitClose, Goto, AtPC, procvars, cpuvars
<1>13. ASSUME NEW s \in Slot, ExitSched(c, s) PROVE ClockQuiet
  <2>1. /\ pc[s] = "exitlk" /\ cproc[c] = s /\ pc' = [pc EXCEPT ![s] = "zombie"]
        /\ spc' = [spc EXCEPT ![c] = "scan"] /\ UNCHANGED <<clockvars, chan, cproc, irq>>
    BY <1>13 DEF ExitSched, AtPC, Executing, Goto, Sched
  <2>2. \A t \in Slot : state'[t] = "SLEEPING" => state[t] = "SLEEPING"
    BY <1>13, ExitEffect
  <2> QED  BY <1>a, <2>1, <2>2
<1>14. ASSUME NEW s \in Slot, WaitReap(c, s) PROVE ClockQuiet
  BY <1>a, <1>14 DEF WaitReap, Goto, cpuvars
<1>15. ASSUME NEW s \in Slot, WaitFail(c, s) PROVE ClockQuiet
  BY <1>a, <1>15 DEF WaitFail, Goto, cpuvars
<1>16. ASSUME NEW s \in Slot, WaitSleep(c, s) PROVE ClockQuiet
  <2>1. /\ pc[s] \in {"wait", "waiting"} /\ cproc[c] = s /\ pc' = [pc EXCEPT ![s] = "waiting"]
        /\ spc' = [spc EXCEPT ![c] = "scan"] /\ state' = [state EXCEPT ![s] = "SLEEPING"]
        /\ chan' = [chan EXCEPT ![s] = s] /\ UNCHANGED <<clockvars, cproc, irq>>
    BY <1>16 DEF WaitSleep, WaitLoop, AtPC, Resumed, Executing, Goto, Sched
  <2> QED  BY <1>a, <2>1
<1>17. ASSUME NEW s \in Slot, Kill(c, s) PROVE ClockQuiet
  <2>1. pc' = [pc EXCEPT ![s] = "ret"] /\ UNCHANGED <<clockvars, chan, cproc, spc, irq>>
    BY <1>17 DEF Kill, Goto, cpuvars
  <2>2. \A t \in Slot : state'[t] = "SLEEPING" => state[t] = "SLEEPING"
    BY <1>a, <1>17, UnsleepState DEF Kill
  <2> QED  BY <1>a, <2>1, <2>2
<1>18. ASSUME NEW s \in Slot, SleepReturn(c, s) PROVE ClockQuiet
  BY <1>a, <1>18 DEF SleepReturn, Goto, Resumed, cpuvars
<1>19. ASSUME NEW s \in Slot, YieldReturn(c, s) PROVE ClockQuiet
  BY <1>a, <1>19 DEF YieldReturn, Goto, Dying, procvars, cpuvars
<1>20. ASSUME NEW s \in Slot, Yield(c, s) PROVE ClockQuiet
  BY <1>a, <1>20 DEF Yield, Goto, Sched
<1>21. ASSUME NEW s \in Slot, Syscall(c, s) PROVE ClockQuiet
  BY <1>a, <1>21, CallsNames DEF Syscall, Goto, procvars, cpuvars
<1>22. ASSUME NEW s \in Slot, Fault(c, s) PROVE ClockQuiet
  BY <1>a, <1>22 DEF Fault, Goto, cpuvars
<1> QED
  BY <1>1, <1>2, <1>3, <1>4, <1>5, <1>6, <1>7, <1>8, <1>9, <1>10, <1>11, Zenon,
     <1>12, <1>13, <1>14, <1>15, <1>16, <1>17, <1>18, <1>19, <1>20, <1>21, <1>22, Zenon
  DEF SchedStep, KernelStep, YieldStep, UserStep, ForkStep, WaitStep, SleepStep

\* Every action keeps ClockInv.
LEMMA ClockStep == TypeOK /\ CoreInv /\ ClockInv /\ [Next]_vars => ClockInv'
<1> SUFFICES ASSUME TypeOK, CoreInv, ClockInv, [Next]_vars PROVE ClockInv'
  OBVIOUS
<1>1. CASE Next
  BY <1>1, ClockRest, ClockQuietKeeps, ClockIrq, ClockTest, ClockSleep, Zenon DEF Next
<1>2. CASE UNCHANGED vars
  BY <1>2, ClockQuietKeeps, Zenon DEF vars, procvars, cpuvars, ClockQuiet
<1> QED  BY <1>1, <1>2

\* No process sleeps in sys_sleep() past the tick it asked for, once the clock
\* interrupt that brings the tick is over.
THEOREM TickCorrect == Spec => []NoLostTick
<1>1. ClockInv => NoLostTick
  BY DEF ClockInv, NoLostTick, Early
<1> QED  BY <1>1, TypeCorrect, CoreCorrect, ClockInit, ClockStep, PTL DEF Spec
=============================================================================
