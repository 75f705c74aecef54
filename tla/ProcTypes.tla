------------------------------ MODULE ProcTypes -----------------------------
(***************************************************************************)
(* Type correctness of module Proc, for every number of slots and of CPUs. *)
(***************************************************************************)
EXTENDS Proc, TLAPS

\* The program counters and states that the actions assign.
LEMMA Names ==
  /\ {"forkret", "user", "fork", "copy", "run", "exit", "exitlk", "zombie", "wait",
      "waiting", "kill", "sleep", "tosleep", "sleeping", "slept", "ret", "none"} = PCs
  /\ {"UNUSED", "EMBRYO", "SLEEPING", "RUNNABLE", "RUNNING", "ZOMBIE"} = States
  BY DEF PCs, States

\* The first slot exists; null pointers and free locks are no slot and no CPU.
LEMMA Basics ==
  /\ InitProc \in Slot
  /\ NoProc \notin Slot
  /\ NoCPU \notin CPU
  /\ 0 \in CPU
  /\ 0 \in Chan /\ TicksChan \in Chan /\ Slot \subseteq Chan
  /\ 1 \in 1..(NPROC + 1) /\ \A s \in Slot : s + 1 \in 1..(NPROC + 1)
  BY NPROCAssumption, NCPUAssumption
  DEF Slot, CPU, NoProc, NoCPU, InitProc, Chan, TicksChan

\* What a program may call is a place its kernel thread can be at.
LEMMA CallsType == ASSUME NEW s \in Slot PROVE Calls(s) \subseteq PCs
  BY BoundAssumption DEF Calls, PCs

\* Unsleep changes only SLEEPING, to RUNNABLE.
LEMMA UnsleepType == ASSUME NEW st \in States PROVE Unsleep(st) \in States
  BY Names DEF Unsleep

LEMMA Wakeup1Type ==
  ASSUME NEW st \in [Slot -> States], NEW ch
  PROVE  Wakeup1(st, ch) \in [Slot -> States]
  BY UnsleepType DEF Wakeup1

\* exit's wakeups and its handing over of children keep the types.
LEMMA ExitTypes ==
  ASSUME TypeOK, NEW s \in Slot
  PROVE  /\ ExitWakeups(s) \in [Slot -> States]
         /\ Reparented(s) \in [Slot -> Slot \cup {NoProc}]
<1>1. Wakeup1(state, parent[s]) \in [Slot -> States]
  BY Wakeup1Type DEF TypeOK
<1>2. Wakeup1(Wakeup1(state, parent[s]), InitProc) \in [Slot -> States]
  BY <1>1, Wakeup1Type
<1> QED  BY <1>1, <1>2, Basics DEF ExitWakeups, Reparented, TypeOK

\* The test of sys_sleep's loop keeps the types.
LEMMA SleepTestType ==
  ASSUME TypeOK, NEW c \in CPU, NEW s \in Slot
  PROVE  /\ \A n \in SleepArgs : [n |-> n, ticks0 |-> ticks] \in [n : Nat, ticks0 : Nat]
         /\ \A a \in [n : Nat, ticks0 : Nat] : SleepTest(c, s, a) =>
              /\ pc' \in [Slot -> PCs]
              /\ args' \in [Slot -> [n : Nat, ticks0 : Nat]]
              /\ tlock' \in CPU \cup {NoCPU}
<1>1. ticks \in Nat
  BY BoundAssumption DEF TypeOK
<1>2. \A n \in SleepArgs : [n |-> n, ticks0 |-> ticks] \in [n : Nat, ticks0 : Nat]
  BY <1>1, BoundAssumption
<1>3. ASSUME NEW a \in [n : Nat, ticks0 : Nat], SleepTest(c, s, a)
      PROVE  /\ pc' \in [Slot -> PCs]
             /\ args' \in [Slot -> [n : Nat, ticks0 : Nat]]
             /\ tlock' \in CPU \cup {NoCPU}
  <2>1. NoArgs \in [n : Nat, ticks0 : Nat]
    BY DEF NoArgs
  <2>2. PICK b \in [n : Nat, ticks0 : Nat] : args' = [args EXCEPT ![s] = b]
    BY <1>3, <2>1, Zenon DEF SleepTest
  <2>3. PICK p \in PCs : pc' = [pc EXCEPT ![s] = p]
    BY <1>3, Names, Zenon DEF SleepTest, Goto
  <2>4. tlock' \in CPU \cup {NoCPU}
    BY <1>3, Zenon DEF SleepTest
  <2> QED  BY <2>2, <2>3, <2>4 DEF TypeOK
<1> QED  BY <1>2, <1>3

\* TypeOK holds initially.
LEMMA TypeInit == Init => TypeOK
  BY NPROCAssumption, NCPUAssumption, BoundAssumption
  DEF Init, TypeOK, NoArgs, Slot, CPU, NoProc, NoCPU, InitProc, Chan, States, PCs

\* Every action of the scheduler, of a process and of the clock keeps the types.
LEMMA TypeStep == TypeOK /\ [Next]_vars => TypeOK'
<1> SUFFICES ASSUME TypeOK, [Next]_vars PROVE TypeOK'
  OBVIOUS
<1> USE NPROCAssumption, BoundAssumption, Names, Basics
    DEF TypeOK, procvars, clockvars, cpuvars, Goto
<1>1. ASSUME NEW c \in CPU, SchedEnter(c) PROVE TypeOK'
  BY <1>1 DEF SchedEnter
<1>2. ASSUME NEW c \in CPU, SchedRun(c) PROVE TypeOK'
  BY <1>2 DEF SchedRun, Runnable
<1>3. ASSUME NEW c \in CPU, SchedLeave(c) PROVE TypeOK'
  BY <1>3 DEF SchedLeave
<1>4. ASSUME NEW c \in CPU, Timer(c) PROVE TypeOK'
  BY <1>4 DEF Timer, TrapEnd
<1>5. ASSUME NEW c \in CPU, Tick(c) PROVE TypeOK'
  BY <1>5 DEF Tick, NextTick
<1>6. ASSUME NEW c \in CPU, TickWakeup(c) PROVE TypeOK'
  BY <1>6, Wakeup1Type DEF TickWakeup, TrapEnd
<1>7. ASSUME NEW c \in CPU, NEW s \in Slot, Forkret(c, s) PROVE TypeOK'
  BY <1>7 DEF Forkret
<1>8. ASSUME NEW c \in CPU, NEW s \in Slot, SyscallReturn(c, s) PROVE TypeOK'
  BY <1>8 DEF SyscallReturn
<1>9. ASSUME NEW c \in CPU, NEW s \in Slot, AllocProc(c, s) PROVE TypeOK'
  BY <1>9 DEF AllocProc, Unused
<1>10. ASSUME NEW c \in CPU, NEW s \in Slot, AllocFull(c, s) PROVE TypeOK'
  BY <1>10 DEF AllocFull
<1>11. ASSUME NEW c \in CPU, NEW s \in Slot, ForkFail(c, s) PROVE TypeOK'
  BY <1>11, Zenon DEF ForkFail
<1>12. ASSUME NEW c \in CPU, NEW s \in Slot, ForkCopy(c, s) PROVE TypeOK'
  BY <1>12, Zenon DEF ForkCopy
<1>13. ASSUME NEW c \in CPU, NEW s \in Slot, ForkRun(c, s) PROVE TypeOK'
  BY <1>13, Zenon DEF ForkRun
<1>14. ASSUME NEW c \in CPU, NEW s \in Slot, ExitClose(c, s) PROVE TypeOK'
  BY <1>14 DEF ExitClose
<1>15. ASSUME NEW c \in CPU, NEW s \in Slot, ExitSched(c, s) PROVE TypeOK'
  BY <1>15, ExitTypes DEF ExitSched, Sched
<1>16. ASSUME NEW c \in CPU, NEW s \in Slot, WaitReap(c, s) PROVE TypeOK'
  <2> PICK k \in Slot : /\ state' = [state EXCEPT ![k] = "UNUSED"]
                        /\ pid' = [pid EXCEPT ![k] = 0]
                        /\ parent' = [parent EXCEPT ![k] = NoProc]
                        /\ killed' = [killed EXCEPT ![k] = FALSE]
                        /\ pc' = [pc EXCEPT ![s] = "ret", ![k] = "none"]
    BY <1>16 DEF WaitReap, Zombies, Kids
  <2> QED  BY <1>16, Zenon DEF WaitReap
<1>17. ASSUME NEW c \in CPU, NEW s \in Slot, WaitFail(c, s) PROVE TypeOK'
  BY <1>17 DEF WaitFail
<1>18. ASSUME NEW c \in CPU, NEW s \in Slot, WaitSleep(c, s) PROVE TypeOK'
  BY <1>18 DEF WaitSleep, Sched
<1>19. ASSUME NEW c \in CPU, NEW s \in Slot, Kill(c, s) PROVE TypeOK'
  BY <1>19, UnsleepType DEF Kill
<1>20. ASSUME NEW c \in CPU, NEW s \in Slot, SysSleep(c, s) PROVE TypeOK'
  BY <1>20, SleepTestType, Zenon DEF SysSleep
<1>21. ASSUME NEW c \in CPU, NEW s \in Slot, SleepSched(c, s) PROVE TypeOK'
  BY <1>21 DEF SleepSched, Sched
<1>22. ASSUME NEW c \in CPU, NEW s \in Slot, SleepReturn(c, s) PROVE TypeOK'
  BY <1>22 DEF SleepReturn
<1>23. ASSUME NEW c \in CPU, NEW s \in Slot, SleepAgain(c, s) PROVE TypeOK'
  BY <1>23, SleepTestType DEF SleepAgain
<1>24. ASSUME NEW c \in CPU, NEW s \in Slot, Yield(c, s) PROVE TypeOK'
  BY <1>24 DEF Yield, Sched
<1>25. ASSUME NEW c \in CPU, NEW s \in Slot, YieldReturn(c, s) PROVE TypeOK'
  BY <1>25 DEF YieldReturn
<1>26. ASSUME NEW c \in CPU, NEW s \in Slot, Syscall(c, s) PROVE TypeOK'
  BY <1>26, CallsType DEF Syscall
<1>27. ASSUME NEW c \in CPU, NEW s \in Slot, Fault(c, s) PROVE TypeOK'
  BY <1>27 DEF Fault
<1>28. CASE UNCHANGED vars
  BY <1>28 DEF vars
<1> QED
  BY <1>1, <1>2, <1>3, <1>4, <1>5, <1>6, <1>7, <1>8, <1>9, <1>10, <1>11, <1>12, <1>13, <1>14, <1>15, <1>16, <1>17, <1>18, <1>19, <1>20, <1>21, <1>22, <1>23, <1>24, <1>25, <1>26, <1>27, <1>28, Zenon
  DEF Next, SchedStep, IrqStep, KernelStep, YieldStep, UserStep, ForkStep, WaitStep, SleepStep

\* Type correctness of the process table, the locks and the CPUs.
THEOREM TypeCorrect == Spec => []TypeOK
<1> QED  BY TypeInit, TypeStep, PTL DEF Spec
=============================================================================
