----------------------------- MODULE ProcFamily -----------------------------
(***************************************************************************)
(* Proofs about the process tree of module Proc and about wait(): every    *)
(* process has a live parent, and wait() sleeps only for a live child.     *)
(***************************************************************************)
EXTENDS ProcCalls

Alive == {"SLEEPING", "RUNNABLE", "RUNNING"}

\* The first process never ends: its pid is 1, which kill is never given.
InitInv ==
  /\ pid[InitProc] = 1 /\ parent[InitProc] = NoProc /\ ~killed[InitProc]
  /\ state[InitProc] \in Alive
  /\ pc[InitProc] \notin {"exit", "exitlk", "zombie"}

\* Parent pointers lead from slots in use to live processes; the pointer of an
\* EMBRYO is set between fork's copy and its last critical section.
TreeInv ==
  /\ \A s \in Slot : parent[s] # NoProc => state[s] # "UNUSED" /\ state[parent[s]] \in Alive
  /\ \A s \in Slot : parent[s] # s
  /\ \A s \in Slot \ {InitProc} :
       state[s] \in Alive \cup {"ZOMBIE"} => parent[s] # NoProc
  /\ \A s \in Slot : pc[s] = "copy" => parent[np[s]] = NoProc
  /\ \A s \in Slot : pc[s] = "run" => parent[np[s]] = s

\* A process asleep in wait sleeps on its own slot, for a child that is alive.
WaitInv ==
  \A s \in Slot : state[s] = "SLEEPING" /\ pc[s] = "waiting" =>
    /\ chan[s] = s /\ ~killed[s]
    /\ \E k \in Slot : parent[k] = s
    /\ \A k \in Slot : parent[k] = s => state[k] # "ZOMBIE"

FamilyInv == InitInv /\ TreeInv /\ WaitInv

\* init.c neither exits nor sleeps.
LEMMA CallsInit == Calls(InitProc) = {"fork", "wait"}
  BY DEF Calls

\* FamilyInv holds initially.
LEMMA FamilyInit == Init => FamilyInv
  BY Basics DEF Init, FamilyInv, InitInv, TreeInv, WaitInv, Alive

\* Most steps leave the family alone: no slot changes between in use, ZOMBIE
\* and free, no fork moves on, the first process does not turn to exit, and
\* nobody falls asleep in wait.
FamilyQuiet ==
  /\ UNCHANGED <<parent, np>>
  /\ pid'[InitProc] = pid[InitProc] /\ (killed'[InitProc] => killed[InitProc])
  /\ \A t \in Slot : state'[t] = state[t] \/ (state[t] \in Alive /\ state'[t] \in Alive)
  /\ \A t \in Slot : pc'[t] \in {"copy", "run"} => pc'[t] = pc[t]
  /\ pc'[InitProc] \notin {"exit", "exitlk", "zombie"}
  /\ \A t \in Slot : state'[t] = "SLEEPING" /\ pc'[t] = "waiting" =>
       /\ state[t] = "SLEEPING" /\ pc[t] = "waiting"
       /\ chan'[t] = chan[t] /\ (killed'[t] => killed[t])

\* Such a step keeps FamilyInv.
LEMMA QuietKeeps ==
  ASSUME TypeOK, CoreInv, FamilyInv, FamilyQuiet
  PROVE  FamilyInv'
<1>1. \A t \in Slot : /\ state'[t] \in Alive <=> state[t] \in Alive
                      /\ state'[t] = "ZOMBIE" <=> state[t] = "ZOMBIE"
                      /\ state'[t] = "UNUSED" <=> state[t] = "UNUSED"
  BY DEF FamilyQuiet, Alive
<1>2. InitInv'
  BY <1>1, Basics DEF FamilyQuiet, FamilyInv, InitInv
<1>3. TreeInv'
  <2>1. parent' = parent /\ parent \in [Slot -> Slot \cup {NoProc}] /\ np' = np
    BY DEF FamilyQuiet, TypeOK
  <2>2. \A s \in Slot : parent[s] # NoProc => state'[s] # "UNUSED" /\ state'[parent[s]] \in Alive
    BY <1>1, <2>1 DEF FamilyInv, TreeInv
  <2>3. \A s \in Slot \ {InitProc} : state'[s] \in Alive \cup {"ZOMBIE"} => parent[s] # NoProc
    BY <1>1 DEF FamilyInv, TreeInv
  <2>4. \A s \in Slot : /\ pc'[s] = "copy" => parent[np[s]] = NoProc
                        /\ pc'[s] = "run" => parent[np[s]] = s
    BY DEF FamilyQuiet, FamilyInv, TreeInv
  <2> QED  BY <2>1, <2>2, <2>3, <2>4 DEF FamilyInv, TreeInv
<1>4. WaitInv'
  <2>1. parent' = parent
    BY DEF FamilyQuiet
  <2> SUFFICES ASSUME NEW s \in Slot, state'[s] = "SLEEPING" /\ pc'[s] = "waiting"
               PROVE  /\ chan'[s] = s /\ ~killed'[s]
                      /\ \E k \in Slot : parent[k] = s
                      /\ \A k \in Slot : parent[k] = s => state'[k] # "ZOMBIE"
    BY <2>1 DEF WaitInv
  <2> QED  BY <1>1 DEF FamilyQuiet, FamilyInv, WaitInv
<1> QED  BY <1>2, <1>3, <1>4 DEF FamilyInv

\* The steps of fork that change a slot keep FamilyInv.
LEMMA FamilyFork ==
  ASSUME TypeOK, CoreInv, FamilyInv, NEW c \in CPU, NEW s \in Slot,
         AllocProc(c, s) \/ ForkFail(c, s) \/ ForkCopy(c, s) \/ ForkRun(c, s)
  PROVE  FamilyInv'
<1> USE Basics
<1>1. CASE AllocProc(c, s)
  <2>0. PICK n \in Slot : /\ state[n] = "UNUSED" /\ state' = [state EXCEPT ![n] = "EMBRYO"]
                          /\ pid' = [pid EXCEPT ![n] = nextpid]
                          /\ np' = [np EXCEPT ![s] = n]
    BY <1>1, Zenon DEF AllocProc, Unused
  <2>a. /\ pc' = [pc EXCEPT ![s] = "copy"] /\ UNCHANGED <<parent, chan, killed>>
    BY <1>1 DEF AllocProc, Goto
  <2>b. n # InitProc /\ parent[n] = NoProc
    BY <2>0 DEF FamilyInv, InitInv, TreeInv, Alive
  <2>c. state[s] = "RUNNING"
    BY <1>1, ExecutingState DEF AllocProc, AtPC
  <2>1. InitInv'
    BY <2>0, <2>a, <2>b DEF FamilyInv, InitInv, TypeOK, Alive
  <2>2. TreeInv'
    BY <2>0, <2>a, <2>b, <2>c DEF FamilyInv, TreeInv, TypeOK, Alive
  <2>3. WaitInv'
    BY <2>0, <2>a, <2>c DEF FamilyInv, WaitInv, TypeOK
  <2> QED  BY <2>1, <2>2, <2>3 DEF FamilyInv
<1>2. CASE ForkFail(c, s)
  <2> DEFINE n == np[s]
  <2>0. /\ state' = [state EXCEPT ![n] = "UNUSED"] /\ np' = [np EXCEPT ![s] = NoProc]
        /\ pc' = [pc EXCEPT ![s] = "ret"] /\ pc[s] = "copy"
        /\ UNCHANGED <<pid, parent, chan, killed>>
    BY <1>2 DEF ForkFail, AtPC, Goto
  <2>a. n \in Slot /\ state[n] = "EMBRYO" /\ parent[n] = NoProc
    BY <2>0 DEF CoreInv, EmbryoInv, FamilyInv, TreeInv, TypeOK
  <2>b. n # InitProc /\ \A k \in Slot : parent[k] # n
    BY <2>a DEF FamilyInv, InitInv, TreeInv, Alive
  <2> HIDE DEF n
  <2>1. InitInv'
    BY <2>0, <2>b DEF FamilyInv, InitInv, TypeOK, Alive
  <2>2. TreeInv'
    BY <2>0, <2>a, <2>b DEF FamilyInv, TreeInv, TypeOK, Alive
  <2>3. WaitInv'
    BY <2>0, <2>a DEF FamilyInv, WaitInv, TypeOK
  <2> QED  BY <2>1, <2>2, <2>3 DEF FamilyInv
<1>3. CASE ForkCopy(c, s)
  <2> DEFINE n == np[s]
  <2>0. /\ parent' = [parent EXCEPT ![n] = s] /\ pc[s] = "copy"
        /\ pc' = [pc EXCEPT ![s] = "run", ![n] = "forkret"]
        /\ UNCHANGED <<state, pid, chan, killed, np>>
    BY <1>3 DEF ForkCopy, AtPC
  <2>a. n \in Slot /\ state[n] = "EMBRYO" /\ parent[n] = NoProc
    BY <2>0 DEF CoreInv, EmbryoInv, FamilyInv, TreeInv, TypeOK
  <2>b. state[s] = "RUNNING"
    BY <1>3, ExecutingState DEF ForkCopy, AtPC
  <2>c. n # InitProc /\ n # s
    BY <2>a, <2>b DEF FamilyInv, InitInv, Alive
  <2>d. \A t \in Slot : np[t] # NoProc /\ t # s => np[t] \in Slot \ {n}
    BY <2>a DEF CoreInv, EmbryoInv, TypeOK
  <2>e. \A t \in Slot : pc[t] \in {"copy", "run"} => np[t] # NoProc
    BY DEF CoreInv, EmbryoInv
  <2>1. InitInv'
    BY <2>0, <2>c DEF FamilyInv, InitInv, TypeOK, Alive
  <2>2. TreeInv'
    <3>1. \A k \in Slot : pc'[k] = "copy" => parent'[np'[k]] = NoProc
      BY <2>0, <2>a, <2>c, <2>d, <2>e DEF FamilyInv, TreeInv, TypeOK
    <3>2. \A k \in Slot : pc'[k] = "run" => parent'[np'[k]] = k
      BY <2>0, <2>a, <2>c, <2>d, <2>e DEF FamilyInv, TreeInv, TypeOK
    <3> QED  BY <2>0, <2>a, <2>b, <2>c, <3>1, <3>2 DEF FamilyInv, TreeInv, TypeOK, Alive
  <2>3. WaitInv'
    BY <2>0, <2>a, <2>b, <2>c DEF FamilyInv, WaitInv, TypeOK
  <2> QED  BY <2>1, <2>2, <2>3 DEF FamilyInv
<1>4. CASE ForkRun(c, s)
  <2> DEFINE n == np[s]
  <2>0. /\ state' = [state EXCEPT ![n] = "RUNNABLE"] /\ np' = [np EXCEPT ![s] = NoProc]
        /\ pc' = [pc EXCEPT ![s] = "ret"] /\ pc[s] = "run"
        /\ UNCHANGED <<pid, parent, chan, killed>>
    BY <1>4 DEF ForkRun, AtPC, Goto
  <2>a. n \in Slot /\ state[n] = "EMBRYO" /\ parent[n] = s
    BY <2>0 DEF CoreInv, EmbryoInv, FamilyInv, TreeInv, TypeOK
  <2> HIDE DEF n
  <2>1. InitInv'
    BY <2>0, <2>a DEF FamilyInv, InitInv, TypeOK, Alive
  <2>2. TreeInv'
    BY <2>0, <2>a DEF FamilyInv, TreeInv, TypeOK, Alive
  <2>3. WaitInv'
    BY <2>0, <2>a DEF FamilyInv, WaitInv, TypeOK
  <2> QED  BY <2>1, <2>2, <2>3 DEF FamilyInv
<1> QED  BY <1>1, <1>2, <1>3, <1>4

\* exit's critical section, which gives the children to init and wakes the
\* parent, keeps FamilyInv.
LEMMA FamilyExit ==
  ASSUME TypeOK, CoreInv, FamilyInv, NEW c \in CPU, NEW s \in Slot,
         ExitSched(c, s)
  PROVE  FamilyInv'
<1> USE Basics
<1>1. CASE ExitSched(c, s)
  <2> USE DEF FamilyInv, CoreInv, TypeOK, Alive
  <2>a. /\ cproc[c] = s /\ spc[c] = "swtch" /\ pc[s] = "exitlk"
        /\ pc' = [pc EXCEPT ![s] = "zombie"]
        /\ UNCHANGED <<pid, chan, killed, np>>
    BY <1>1 DEF ExitSched, AtPC, Executing, Goto
  <2>b. s # InitProc /\ state[s] = "RUNNING"
    BY <2>a, ExecutingState, <1>1 DEF InitInv, ExitSched, AtPC
  <2>c. /\ state'[s] = "ZOMBIE"
        /\ \A t \in Slot \ {s} : \/ state'[t] = state[t]
                                 \/ state[t] = "SLEEPING" /\ state'[t] = "RUNNABLE"
        /\ \A k \in Slot : parent'[k] = IF parent[k] = s THEN InitProc ELSE parent[k]
    BY <1>1, ExitEffect
  <2>d. \A t \in Slot : np[t] # NoProc => np[t] \in Slot \ {s}
    BY <2>b DEF EmbryoInv
  <2>1. InitInv'
    BY <2>a, <2>b, <2>c DEF InitInv
  <2>2. TreeInv'
    <3>1. /\ \A k \in Slot : state'[k] \in Alive <=> k # s /\ state[k] \in Alive
          /\ \A k \in Slot : state'[k] = "UNUSED" <=> state[k] = "UNUSED"
          /\ \A k \in Slot : state[k] = "ZOMBIE" => state'[k] = "ZOMBIE"
          /\ \A k \in Slot : state'[k] = "ZOMBIE" => k = s \/ state[k] = "ZOMBIE"
      BY <2>b, <2>c, Zenon DEF Alive
    <3>2. \A k \in Slot : parent'[k] # NoProc =>
            state'[k] # "UNUSED" /\ state'[parent'[k]] \in Alive
      BY <2>b, <2>c, <3>1, Names DEF TreeInv, InitInv
    <3>3. \A k \in Slot : parent'[k] # k
      BY <2>b, <2>c DEF TreeInv, InitInv
    <3>4. \A k \in Slot \ {InitProc} :
            state'[k] \in Alive \cup {"ZOMBIE"} => parent'[k] # NoProc
      BY <2>b, <2>c, <3>1, Names DEF TreeInv, Alive
    <3>5. \A k \in Slot : pc'[k] = "copy" => parent'[np'[k]] = NoProc
      BY <2>a, <2>c, <2>d DEF TreeInv, EmbryoInv
    <3>6. \A k \in Slot : pc'[k] = "run" => parent'[np'[k]] = k
      BY <2>a, <2>c, <2>d DEF TreeInv, EmbryoInv
    <3> QED  BY <3>2, <3>3, <3>4, <3>5, <3>6 DEF TreeInv
  <2>3. WaitInv'
    <3> SUFFICES ASSUME NEW t \in Slot, state'[t] = "SLEEPING", pc'[t] = "waiting"
                 PROVE  /\ chan'[t] = t /\ ~killed'[t]
                        /\ \E k \in Slot : parent'[k] = t
                        /\ \A k \in Slot : parent'[k] = t => state'[k] # "ZOMBIE"
      BY DEF WaitInv
    <3>1. t # s /\ state[t] = "SLEEPING" /\ pc[t] = "waiting"
      BY <2>a, <2>c
    <3>2. /\ chan[t] = t /\ ~killed[t]
          /\ \E k \in Slot : parent[k] = t
          /\ \A k \in Slot : parent[k] = t => state[k] # "ZOMBIE"
      BY <3>1 DEF WaitInv
    <3>3. parent[s] # t /\ (t = InitProc => \A k \in Slot \ {s} : parent[k] = s => state[k] # "ZOMBIE")
      BY <1>1, <3>1, <3>2, ExitWakes
    <3>4. parent[s] # s
      BY DEF TreeInv
    <3>5. \A k \in Slot : parent'[k] = t => state'[k] # "ZOMBIE"
      BY <2>b, <2>c, <3>1, <3>2, <3>3, <3>4
    <3> QED  BY <2>a, <2>c, <3>1, <3>2, <3>5
  <2> QED  BY <2>1, <2>2, <2>3
<1> QED  BY <1>1

\* Reaping a child and falling asleep in wait keep FamilyInv.
LEMMA FamilyWait ==
  ASSUME TypeOK, CoreInv, FamilyInv, NEW c \in CPU, NEW s \in Slot,
         WaitReap(c, s) \/ WaitSleep(c, s)
  PROVE  FamilyInv'
<1> USE Basics
<1>1. CASE WaitReap(c, s)
  <2>0. PICK k \in Slot : /\ parent[k] = s /\ state[k] = "ZOMBIE"
                          /\ state' = [state EXCEPT ![k] = "UNUSED"]
                          /\ pid' = [pid EXCEPT ![k] = 0]
                          /\ parent' = [parent EXCEPT ![k] = NoProc]
                          /\ killed' = [killed EXCEPT ![k] = FALSE]
                          /\ pc' = [pc EXCEPT ![s] = "ret", ![k] = "none"]
    BY <1>1, Zenon DEF WaitReap, Zombies, Kids
  <2>a. chan' = [chan EXCEPT ![s] = 0] /\ UNCHANGED np
    BY <1>1 DEF WaitReap
  <2>b. state[s] = "RUNNING"
    BY <1>1, ExecutingState DEF WaitReap, WaitLoop, AtPC, Resumed
  <2>c. k # InitProc /\ k # s /\ \A t \in Slot : parent[t] # k
    BY <2>0, <2>b DEF FamilyInv, InitInv, TreeInv, Alive
  <2>d. \A t \in Slot : pc[t] \in {"copy", "run"} => np[t] \in Slot \ {k}
    BY <2>0 DEF CoreInv, EmbryoInv, TypeOK
  <2>1. InitInv'
    BY <2>0, <2>a, <2>b, <2>c DEF FamilyInv, InitInv, TypeOK, Alive
  <2>2. TreeInv'
    BY <2>0, <2>a, <2>b, <2>c, <2>d DEF FamilyInv, TreeInv, TypeOK, Alive
  <2>3. WaitInv'
    <3> SUFFICES ASSUME NEW t \in Slot, state'[t] = "SLEEPING" /\ pc'[t] = "waiting"
                 PROVE  /\ chan'[t] = t /\ ~killed'[t]
                        /\ \E j \in Slot : parent'[j] = t
                        /\ \A j \in Slot : parent'[j] = t => state'[j] # "ZOMBIE"
      BY DEF WaitInv
    <3>1. t # s /\ t # k /\ state[t] = "SLEEPING" /\ pc[t] = "waiting"
      BY <2>0, <2>b, <2>c DEF TypeOK
    <3> QED  BY <2>0, <2>a, <2>c, <3>1 DEF FamilyInv, WaitInv, TypeOK
  <2> QED  BY <2>1, <2>2, <2>3 DEF FamilyInv
<1>2. CASE WaitSleep(c, s)
  <2>0. /\ state' = [state EXCEPT ![s] = "SLEEPING"] /\ chan' = [chan EXCEPT ![s] = s]
        /\ pc' = [pc EXCEPT ![s] = "waiting"] /\ UNCHANGED <<pid, parent, killed, np>>
    BY <1>2 DEF WaitSleep, Goto
  <2>a. /\ ~killed[s] /\ \E k \in Slot : parent[k] = s
        /\ \A k \in Slot : parent[k] = s => state[k] # "ZOMBIE"
    BY <1>2 DEF WaitSleep, Kids, Zombies
  <2>b. state[s] = "RUNNING"
    BY <1>2, ExecutingState DEF WaitSleep, WaitLoop, AtPC, Resumed
  <2>1. InitInv'
    BY <2>0, <2>b DEF FamilyInv, InitInv, TypeOK, Alive
  <2>2. TreeInv'
    BY <2>0, <2>b DEF FamilyInv, TreeInv, TypeOK, Alive
  <2>3. WaitInv'
    BY <2>0, <2>a, <2>b DEF FamilyInv, WaitInv, TypeOK
  <2> QED  BY <2>1, <2>2, <2>3 DEF FamilyInv
<1> QED  BY <1>1, <1>2

\* The steps that do change the family.
FamilyMove(c, s) ==
  \/ AllocProc(c, s) \/ ForkFail(c, s) \/ ForkCopy(c, s) \/ ForkRun(c, s)
  \/ ExitSched(c, s) \/ WaitReap(c, s) \/ WaitSleep(c, s)

\* There are no others: every other step is quiet.
LEMMA QuietOrMove ==
  ASSUME TypeOK, CoreInv, FamilyInv, [Next]_vars
  PROVE  FamilyQuiet \/ \E c \in CPU, s \in Slot : FamilyMove(c, s)
<1> USE Basics
<1>a. state \in [Slot -> States] /\ pc \in [Slot -> PCs] /\ killed \in [Slot -> BOOLEAN]
  BY DEF TypeOK
<1>b. ~killed[InitProc] /\ pc[InitProc] \notin {"exit", "exitlk", "zombie"}
  BY DEF FamilyInv, InitInv
<1>1. ASSUME NEW c \in CPU, SchedEnter(c) PROVE FamilyQuiet
  BY <1>a, <1>b, <1>1 DEF SchedEnter, procvars, FamilyQuiet
<1>2. ASSUME NEW c \in CPU, SchedRun(c) PROVE FamilyQuiet
  BY <1>a, <1>b, <1>2 DEF SchedRun, Runnable, Alive, FamilyQuiet
<1>3. ASSUME NEW c \in CPU, SchedLeave(c) PROVE FamilyQuiet
  BY <1>a, <1>b, <1>3 DEF SchedLeave, procvars, FamilyQuiet
<1>4. ASSUME NEW c \in CPU, Timer(c) PROVE FamilyQuiet
  BY <1>a, <1>b, <1>4 DEF Timer, TrapEnd, Dying, procvars, FamilyQuiet
<1>5. ASSUME NEW c \in CPU, Tick(c) PROVE FamilyQuiet
  BY <1>a, <1>b, <1>5 DEF Tick, procvars, FamilyQuiet
<1>6. ASSUME NEW c \in CPU, TickWakeup(c) PROVE FamilyQuiet
  <2>1. UNCHANGED <<pid, parent, chan, killed, np>>
    BY <1>6 DEF TickWakeup
  <2> QED  BY <1>b, <1>6, <2>1, TickEffect DEF FamilyQuiet, Alive
<1>7. ASSUME NEW c \in CPU, NEW s \in Slot, Forkret(c, s) PROVE FamilyQuiet
  BY <1>a, <1>b, <1>7 DEF Forkret, Goto, procvars, FamilyQuiet
<1>8. ASSUME NEW c \in CPU, NEW s \in Slot, SyscallReturn(c, s) PROVE FamilyQuiet
  BY <1>a, <1>b, <1>8 DEF SyscallReturn, Goto, procvars, FamilyQuiet
<1>9. ASSUME NEW c \in CPU, NEW s \in Slot, AllocFull(c, s) PROVE FamilyQuiet
  BY <1>a, <1>b, <1>9 DEF AllocFull, Goto, procvars, FamilyQuiet
<1>10. ASSUME NEW c \in CPU, NEW s \in Slot, ExitClose(c, s) PROVE FamilyQuiet
  BY <1>a, <1>b, <1>10 DEF ExitClose, AtPC, Goto, procvars, FamilyQuiet
<1>11. ASSUME NEW c \in CPU, NEW s \in Slot, WaitFail(c, s) PROVE FamilyQuiet
  <2>r. state[s] = "RUNNING"
    BY <1>11, ExecutingState DEF WaitFail, WaitLoop, AtPC, Resumed
  <2> QED  BY <1>a, <1>b, <1>11, <2>r DEF WaitFail, Goto, FamilyQuiet
<1>12. ASSUME NEW c \in CPU, NEW s \in Slot, Kill(c, s) PROVE FamilyQuiet
  <2>0. PICK p \in KillPids :
          LET hit == {k \in WithPid(p) : \A j \in WithPid(p) : k <= j}
          IN  /\ killed' = [k \in Slot |-> killed[k] \/ k \in hit]
              /\ state' = [k \in Slot |-> IF k \in hit THEN Unsleep(state[k]) ELSE state[k]]
    BY <1>12 DEF Kill
  <2>a. pc' = [pc EXCEPT ![s] = "ret"] /\ UNCHANGED <<pid, parent, chan, np>>
    BY <1>12 DEF Kill, Goto
  <2>b. ~killed'[InitProc]
    BY <1>a, <1>b, <2>0, InitNotKilled DEF WithPid, FamilyInv, InitInv
  <2>c. ASSUME NEW t \in Slot
        PROVE  /\ state'[t] = state[t] \/ (state[t] = "SLEEPING" /\ state'[t] = "RUNNABLE")
               /\ state'[t] = "SLEEPING" => (killed'[t] => killed[t])
    <3>1. Unsleep(state[t]) = state[t] \/ (state[t] = "SLEEPING" /\ Unsleep(state[t]) = "RUNNABLE")
      BY <1>a, UnsleepState
    <3>2. Unsleep(state[t]) # "SLEEPING"
      BY Zenon DEF Unsleep
    <3> QED  BY <1>a, <2>0, <3>1, <3>2
  <2>d. \A t \in Slot : pc'[t] = pc[t] \/ pc'[t] = "ret"
    BY <1>a, <2>a
  <2> QED  BY <1>b, <2>a, <2>b, <2>c, <2>d DEF FamilyQuiet, Alive
<1>13. ASSUME NEW c \in CPU, NEW s \in Slot, SysSleep(c, s) PROVE FamilyQuiet
  BY <1>a, <1>b, <1>13 DEF SysSleep, SleepTest, Goto, procvars, FamilyQuiet
<1>14. ASSUME NEW c \in CPU, NEW s \in Slot, SleepSched(c, s) PROVE FamilyQuiet
  <2>r. state[s] = "RUNNING"
    BY <1>14, ExecutingState DEF SleepSched, AtPC
  <2> QED  BY <1>a, <1>b, <1>14, <2>r DEF SleepSched, Goto, Alive, FamilyQuiet
<1>15. ASSUME NEW c \in CPU, NEW s \in Slot, SleepReturn(c, s) PROVE FamilyQuiet
  <2>r. state[s] = "RUNNING"
    BY <1>15, ExecutingState DEF SleepReturn, Resumed
  <2> QED  BY <1>a, <1>b, <1>15, <2>r DEF SleepReturn, Goto, FamilyQuiet
<1>16. ASSUME NEW c \in CPU, NEW s \in Slot, SleepAgain(c, s) PROVE FamilyQuiet
  BY <1>a, <1>b, <1>16, Zenon DEF SleepAgain, SleepTest, Goto, procvars, FamilyQuiet
<1>17. ASSUME NEW c \in CPU, NEW s \in Slot, Yield(c, s) PROVE FamilyQuiet
  <2>r. state[s] = "RUNNING"
    BY <1>17 DEF Yield, CoreInv, SwitchInv, TypeOK
  <2> QED  BY <1>a, <1>b, <1>17, <2>r DEF Yield, Alive, FamilyQuiet
<1>18. ASSUME NEW c \in CPU, NEW s \in Slot, YieldReturn(c, s) PROVE FamilyQuiet
  BY <1>a, <1>b, <1>18 DEF YieldReturn, Dying, Goto, procvars, FamilyQuiet
<1>19. ASSUME NEW c \in CPU, NEW s \in Slot, Syscall(c, s) PROVE FamilyQuiet
  BY <1>a, <1>b, <1>19, CallsNames, CallsInit DEF Syscall, Goto, procvars, FamilyQuiet
<1>20. ASSUME NEW c \in CPU, NEW s \in Slot, Fault(c, s) PROVE FamilyQuiet
  <2>r. state[s] = "RUNNING"
    BY <1>20, ExecutingState DEF Fault, AtPC
  <2> QED  BY <1>a, <1>b, <1>20, <2>r DEF Fault, Goto, FamilyQuiet
<1>21. ASSUME UNCHANGED vars PROVE FamilyQuiet
  BY <1>a, <1>b, <1>21 DEF vars, procvars, FamilyQuiet
<1> QED
  BY <1>1, <1>2, <1>3, <1>4, <1>5, <1>6, <1>7, <1>8, <1>9, <1>10, <1>11, Zenon,
     <1>12, <1>13, <1>14, <1>15, <1>16, <1>17, <1>18, <1>19, <1>20, <1>21, Zenon
  DEF Next, SchedStep, IrqStep, KernelStep, YieldStep, UserStep, ForkStep, WaitStep, SleepStep,
      FamilyMove

\* Every action keeps FamilyInv.
LEMMA FamilyStep == TypeOK /\ CoreInv /\ FamilyInv /\ [Next]_vars => FamilyInv'
<1> SUFFICES ASSUME TypeOK, CoreInv, FamilyInv, [Next]_vars PROVE FamilyInv'
  OBVIOUS
<1> QED
  BY QuietOrMove, QuietKeeps, FamilyFork, FamilyExit, FamilyWait, Zenon DEF FamilyMove

\* FamilyInv in every reachable state.
THEOREM FamilyCorrect == Spec => []FamilyInv
<1> QED  BY TypeCorrect, CoreCorrect, FamilyInit, FamilyStep, PTL DEF Spec

\* Every process but the first always has a live parent to reap it, although
\* parents exit at any moment.
THEOREM ParentCorrect == Spec => []ParentAlive
<1>1. TypeOK /\ FamilyInv => ParentAlive
  BY Basics DEF TypeOK, FamilyInv, TreeInv, ParentAlive, Alive
<1> QED  BY <1>1, TypeCorrect, FamilyCorrect, PTL

\* No process sleeps in wait() past the death of a child or its own kill.
THEOREM WaitCorrect == Spec => []NoLostWait
<1>1. TypeOK /\ FamilyInv => NoLostWait
  BY DEF TypeOK, FamilyInv, WaitInv, NoLostWait, Kids, Zombies
<1> QED  BY <1>1, TypeCorrect, FamilyCorrect, PTL

\* What ReapedOffCPU says of one step.
Reaped ==
  \A k \in Slot : state[k] = "ZOMBIE" /\ state'[k] # "ZOMBIE" =>
    /\ state'[k] = "UNUSED"
    /\ state[parent[k]] = "RUNNING"
    /\ \A c \in CPU : cproc[c] # k

\* The scan of wait() that frees a slot runs when no CPU is in the scheduler loop,
\* which is where a zombie's CPU stays until it has left the zombie's stack.
LEMMA ReapStep ==
  ASSUME TypeOK, CoreInv, FamilyInv, [Next]_vars
  PROVE  Reaped
<1>1. CASE FamilyQuiet
  BY <1>1 DEF FamilyQuiet, Alive, Reaped
<1>2. ASSUME NEW c \in CPU, NEW s \in Slot, AllocProc(c, s) PROVE Reaped
  BY <1>2 DEF AllocProc, Unused, TypeOK, Reaped
<1>3. ASSUME NEW c \in CPU, NEW s \in Slot,
             ForkFail(c, s) \/ ForkCopy(c, s) \/ ForkRun(c, s)
      PROVE  Reaped
  <2>1. np[s] \in Slot /\ state[np[s]] = "EMBRYO"
    BY <1>3 DEF ForkFail, ForkCopy, ForkRun, AtPC, CoreInv, EmbryoInv, TypeOK
  <2>2. \A k \in Slot : k # np[s] => state'[k] = state[k]
    BY <1>3 DEF ForkFail, ForkCopy, ForkRun, TypeOK
  <2> QED  BY <2>1, <2>2 DEF Reaped
<1>4. ASSUME NEW c \in CPU, NEW s \in Slot, ExitSched(c, s) PROVE Reaped
  BY <1>4, ExitEffect DEF Reaped
<1>5. ASSUME NEW c \in CPU, NEW s \in Slot, WaitReap(c, s) PROVE Reaped
  <2>1. PICK k \in Slot : /\ parent[k] = s /\ state[k] = "ZOMBIE"
                          /\ state' = [state EXCEPT ![k] = "UNUSED"]
    BY <1>5, Zenon DEF WaitReap, Zombies, Kids
  <2>2. cproc[c] = s /\ spc[c] = "swtch" /\ lock \in {c, NoCPU}
    BY <1>5 DEF WaitReap, WaitLoop, AtPC, Resumed, Executing
  <2>3. state[s] = "RUNNING"
    BY <1>5, ExecutingState DEF WaitReap, WaitLoop, AtPC, Resumed
  <2>4. ASSUME NEW d \in CPU PROVE cproc[d] # k
    <3>1. spc[d] # "scan"
      BY <2>2, Basics DEF CoreInv, SwitchInv
    <3> QED  BY <2>1, <3>1, Basics DEF CoreInv, SwitchInv, TypeOK
  <2> QED  BY <2>1, <2>3, <2>4 DEF TypeOK, Reaped
<1>6. ASSUME NEW c \in CPU, NEW s \in Slot, WaitSleep(c, s) PROVE Reaped
  <2>1. state[s] = "RUNNING"
    BY <1>6, ExecutingState, Zenon DEF WaitSleep, WaitLoop, AtPC, Resumed
  <2> QED  BY <1>6, <2>1 DEF WaitSleep, TypeOK, Reaped
<1> QED  BY <1>1, <1>2, <1>3, <1>4, <1>5, <1>6, QuietOrMove DEF FamilyMove

\* A zombie's slot, and with it its kernel stack and page table, is freed only by
\* its running parent and only when no CPU is on that stack.
THEOREM ReapCorrect == Spec => ReapedOffCPU
<1>1. TypeOK /\ CoreInv /\ FamilyInv /\ [Next]_vars => [Reaped]_vars
  BY ReapStep
<1> QED  BY <1>1, TypeCorrect, CoreCorrect, FamilyCorrect, PTL DEF Spec, ReapedOffCPU, Reaped
=============================================================================
