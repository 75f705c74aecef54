-------------------------------- MODULE Mlfq --------------------------------
(***************************************************************************)
(* MLFQ_scheduler of proc.c with the queues qxj/cxj and the statistics     *)
(* pstat_var, which allocproc also writes.  A queue holds pointers to      *)
(* process slots; nothing takes a pointer out when the process exits, so a *)
(* slot that is used again is queued again and a queue may outgrow its     *)
(* array.                                                                  *)
(*                                                                         *)
(* Queues are numbered from 0 as in the code; the last one is served round *)
(* robin.  cxj[t] + 1 is the length of queue t.                            *)
(***************************************************************************)
EXTENDS Integers, Sequences, FiniteSetsExt, Functions

CONSTANTS
  NPROC, NCPU,
  NQUEUE,     \* number of queues (5)
  QSIZE,      \* entries of a queue (64)
  TicksToDur, \* ticksTodur (30)
  AgeLimit,   \* exceededTimedur (750): ticks before a process is moved up
  MaxPid,     \* bound: processes created
  MaxTicks    \* bound: clock ticks

ASSUME MlfqAssumption ==
  /\ NPROC \in Nat \ {0} /\ NCPU \in Nat \ {0} /\ NQUEUE \in Nat \ {0, 1}
  /\ QSIZE \in Nat \ {0} /\ TicksToDur \in Nat \ {0}
  /\ AgeLimit \in Nat /\ MaxPid \in Nat /\ MaxTicks \in Nat

Slot == 1..NPROC
Pid == 1..MaxPid
CPU == 0..(NCPU - 1)
Queue == 0..(NQUEUE - 1)
Last == NQUEUE - 1
TimeDur == [t \in Queue |-> TicksToDur * 2^t]  \* timedur: switches before a process moves down
Null == 0            \* the null pointer, as a process and as a queue entry
Beyond == NPROC + 1  \* &ptable.proc[NPROC]
NoCPU == -1

VARIABLES
  state, pid,          \* of struct proc, by slot
  nextpid, ticks,
  q,                   \* qxj and cxj: by queue, the entries up to cxj
  current_queue, runtime, num_run,  \* pstat_var, by pid
  lock,                \* holder of ptable.lock
  cproc,               \* cpu->proc
  spc,                 \* scheduler of each CPU: "idle", "scan" or "swtch"
  at,                  \* its loop variables: queue t and index i (from 1)
  aged                 \* history: "Removing Starvation" has moved a process

stats == <<current_queue, runtime, num_run>>
vars == <<state, pid, nextpid, ticks, q, stats, lock, cproc, spc, at, aged>>

\* userinit has called allocproc for the first process.
Init ==
  /\ state = [s \in Slot |-> IF s = 1 THEN "RUNNABLE" ELSE "UNUSED"]
  /\ pid = [s \in Slot |-> IF s = 1 THEN 1 ELSE 0]
  /\ nextpid = 2 /\ ticks = 0
  /\ q = [t \in Queue |-> IF t = 0 THEN <<1>> ELSE <<>>]
  /\ current_queue = [n \in Pid |-> 0]
  /\ runtime = [n \in Pid |-> 0]
  /\ num_run = [n \in Pid |-> 0]
  /\ lock = NoCPU
  /\ cproc = [c \in CPU |-> Null]
  /\ spc = [c \in CPU |-> "idle"]
  /\ at = [c \in CPU |-> [t |-> 0, i |-> 1]]
  /\ aged = FALSE

-----------------------------------------------------------------------------
(***************************************************************************)
(* Queues as the code handles them: remove entry i by shifting the later   *)
(* ones down, whatever it is; an index past the end removes the last.      *)
(***************************************************************************)
Delete(s, i) ==
  [j \in 1..(Len(s) - 1) |-> IF j < i THEN s[j] ELSE s[j + 1]]

MoveDown(qs, t, i, s) == [qs EXCEPT ![t] = Delete(@, i), ![t + 1] = Append(@, s)]

Rotate(s, i, p) == Append(Delete(s, i), p)

-----------------------------------------------------------------------------
(***************************************************************************)
(* "Removing Starvation": a process that has waited AgeLimit ticks in queue *)
(* t is entered in queue t - 1.  The entry deleted from queue t is not its *)
(* own but the one whose index is its pid.                                 *)
(***************************************************************************)
Stats == [q |-> q, cur |-> current_queue, run |-> runtime, num |-> num_run]

AgeOne(a, t, s) ==
  LET n == pid[s]
  IN  IF state[s] = "RUNNABLE" /\ a.cur[n] = t /\ ticks - a.run[n] >= AgeLimit
        THEN [q |-> [a.q EXCEPT ![t - 1] = Append(@, s), ![t] = Delete(@, n + 1)],
              cur |-> [a.cur EXCEPT ![n] = t - 1],
              run |-> [a.run EXCEPT ![n] = ticks],
              num |-> [a.num EXCEPT ![n] = 0]]
        ELSE a

\* The two nested loops, queue by queue and slot by slot.
Aged ==
  LET pass[k \in 0..(Last * NPROC)] ==
        IF k = 0 THEN Stats
        ELSE AgeOne(pass[k - 1], 1 + ((k - 1) \div NPROC), 1 + ((k - 1) % NPROC))
  IN  pass[Last * NPROC]

Enter(c) ==
  /\ spc[c] = "idle"
  /\ lock = NoCPU
  /\ lock' = c
  /\ q' = Aged.q /\ aged' = (Aged.q # q)
  /\ current_queue' = Aged.cur /\ runtime' = Aged.run /\ num_run' = Aged.num
  /\ spc' = [spc EXCEPT ![c] = "scan"]
  /\ at' = [at EXCEPT ![c] = [t |-> 0, i |-> 1]]
  /\ UNCHANGED <<state, pid, nextpid, ticks, cproc>>

-----------------------------------------------------------------------------
(***************************************************************************)
(* One pass: every RUNNABLE entry of every queue is run once, highest      *)
(* queue first.                                                            *)
(***************************************************************************)
\* num_run is only compared with timedur, in every queue but the last: it
\* saturates above those values.
RunCap == TimeDur[Last - 1] + 1

\* The positions the loops have still to visit: queue t, index i.
Ahead(c) == 
  UNION {{[t |-> t, i |-> i] : i \in (IF t = at[c].t THEN at[c].i ELSE 1)..Len(q[t])} :
           t \in at[c].t..Last}
Entry(x) == q[x.t][x.i]

\* The word read as the state of the slot past the table is ticks in the
\* kernel as linked (kernel.sym), and that is not RUNNABLE after the third tick.
RunnableAt(x) == Entry(x) \in Slot /\ state[Entry(x)] = "RUNNABLE"

\* Mutant: the scan stops at the first queue.
SeesFirst(c) == {x \in Ahead(c) : RunnableAt(x) /\ x.t = 0}
Found(c) == {x \in Ahead(c) : RunnableAt(x)}

\* With ptable.lock held from one switch to the next, the entries in between
\* are passed over in one step.
Switch(c) ==
  LET x == CHOOSE y \in Found(c) : \A z \in Found(c) :
             y.t < z.t \/ (y.t = z.t /\ y.i <= z.i)
      s == Entry(x)
  IN  /\ spc[c] = "scan" /\ Found(c) # {}
      /\ at' = [at EXCEPT ![c] = x]
      /\ cproc' = [cproc EXCEPT ![c] = s]
      /\ state' = [state EXCEPT ![s] = "RUNNING"]
      /\ num_run' = [num_run EXCEPT ![pid[s]] = Min({@ + 1, RunCap})]
      /\ spc' = [spc EXCEPT ![c] = "swtch"]
      /\ lock' = NoCPU
      /\ UNCHANGED <<pid, nextpid, ticks, q, current_queue, runtime>>

Leave(c) ==
  /\ spc[c] = "scan" /\ Found(c) = {}
  /\ lock' = NoCPU
  /\ spc' = [spc EXCEPT ![c] = "idle"]
  /\ UNCHANGED <<state, pid, nextpid, ticks, q, stats, cproc, at>>

Demotes(t, n) == t # Last /\ num_run[n] = TimeDur[t]

\* The process comes back in state st, ptable.lock held; the scheduler moves it
\* down after its time in this queue, or to the end of the last queue.  Either
\* way it uses the index it had before the switch.
Return(c, st) ==
  LET s == cproc[c]
      n == pid[s]
      t == at[c].t
      i == at[c].i
      down == Demotes(t, n)
  IN  /\ spc[c] = "swtch"
      /\ lock = NoCPU
      /\ lock' = c
      /\ state' = [state EXCEPT ![s] = st]
      /\ q' = IF t = Last THEN [q EXCEPT ![t] = Rotate(@, i, s)]
              ELSE IF down THEN MoveDown(q, t, i, s) ELSE q
      /\ current_queue' = IF down THEN [current_queue EXCEPT ![n] = t + 1] ELSE current_queue
      /\ runtime' = IF down THEN [runtime EXCEPT ![n] = ticks] ELSE runtime
      /\ num_run' = IF down THEN [num_run EXCEPT ![n] = 0] ELSE num_run
      /\ cproc' = [cproc EXCEPT ![c] = Null]
      /\ spc' = [spc EXCEPT ![c] = "scan"]
      /\ at' = [at EXCEPT ![c].i = i + 1]
      /\ UNCHANGED <<pid, nextpid, ticks>>

-----------------------------------------------------------------------------
(***************************************************************************)
(* What running processes and interrupts do to the table and the queues.   *)
(* Which process is whose parent is modelled in Proc.                      *)
(***************************************************************************)
Running(c) == spc[c] = "swtch" /\ lock = NoCPU

EnterFirst(qs, p) == [qs EXCEPT ![0] = Append(@, p)]

\* allocproc takes the first UNUSED slot.  Past MaxPid nothing is created.
Alloc(c) ==
  LET free == {s \in Slot : state[s] = "UNUSED"}
      s == Min(free)
  IN  /\ Running(c) /\ free # {} /\ nextpid \in Pid
      /\ state' = [state EXCEPT ![s] = "EMBRYO"]
      /\ pid' = [pid EXCEPT ![s] = nextpid]
      /\ nextpid' = nextpid + 1
      /\ q' = EnterFirst(q, s)
      /\ current_queue' = [current_queue EXCEPT ![nextpid] = 0]
      /\ runtime' = [runtime EXCEPT ![nextpid] = ticks]
      /\ UNCHANGED <<ticks, num_run, lock, cproc, spc, at>>

\* With no UNUSED slot allocproc enters the pointer its loop ended with, and
\* fails.  Bound: one such entry at a time.
AllocFull(c) ==
  /\ Running(c) /\ \A s \in Slot : state[s] # "UNUSED"
  /\ \A t \in Queue : Beyond \notin Range(q[t])
  /\ q' = EnterFirst(q, Beyond)
  /\ UNCHANGED <<state, pid, nextpid, ticks, stats, lock, cproc, spc, at>>

\* fork makes the new process RUNNABLE, or gives the slot up when there is no
\* memory for its stack or its copy of the address space.
Forked(c, s, st) ==
  /\ Running(c) /\ state[s] = "EMBRYO"
  /\ state' = [state EXCEPT ![s] = st]
  /\ UNCHANGED <<pid, nextpid, ticks, q, stats, lock, cproc, spc, at>>

\* wait and waitx free the slot of a ZOMBIE; its queue entries stay.
Reap(c, s) ==
  /\ Running(c) /\ state[s] = "ZOMBIE"
  /\ state' = [state EXCEPT ![s] = "UNUSED"]
  /\ pid' = [pid EXCEPT ![s] = 0]
  /\ UNCHANGED <<nextpid, ticks, q, stats, lock, cproc, spc, at>>

Wakeup(s) ==
  /\ lock = NoCPU /\ state[s] = "SLEEPING"
  /\ state' = [state EXCEPT ![s] = "RUNNABLE"]
  /\ UNCHANGED <<pid, nextpid, ticks, q, stats, lock, cproc, spc, at>>

Tick ==
  /\ ticks < MaxTicks
  /\ ticks' = ticks + 1
  /\ UNCHANGED <<state, pid, nextpid, q, stats, lock, cproc, spc, at>>

\* yield, sleep and exit.  The first process, init, never exits.
GiveUp(c) == \E st \in {"RUNNABLE", "SLEEPING", "ZOMBIE"} :
  (cproc[c] = 1 => st # "ZOMBIE") /\ Return(c, st)

\* An entry has been written past the end of its row of qxj.
Overrun == \E t \in Queue : Len(q[t]) > QSIZE

\* The model ends when a process has been aged, since the entry deleted for it
\* may be another one's and a process without an entry is never run again, and
\* when a queue has overrun.
Ended == aged \/ Overrun
Going == ~Ended /\ UNCHANGED aged
Pass(c) == (~Ended /\ Enter(c)) \/ (Going /\ Switch(c)) \/ (Going /\ Leave(c))

Next ==
  \/ \E c \in CPU : Pass(c)
  \/ \E c \in CPU : Going /\ GiveUp(c)
  \/ \E c \in CPU : Going /\ Alloc(c)
  \/ \E c \in CPU : Going /\ AllocFull(c)
  \/ \E c \in CPU, s \in Slot, st \in {"RUNNABLE", "UNUSED"} : Going /\ Forked(c, s, st)
  \/ \E c \in CPU, s \in Slot : Going /\ Reap(c, s)
  \/ \E s \in Slot : Going /\ Wakeup(s)
  \/ Going /\ Tick

Spec == Init /\ [][Next]_vars

\* The scheduler loop never stops, and the timer makes every running process
\* give up its CPU.  Nothing makes a process fork, exit or be woken up.
FairSpec == Spec /\ \A c \in CPU : WF_vars(Pass(c)) /\ WF_vars(Going /\ GiveUp(c))

-----------------------------------------------------------------------------
\* A process that is RUNNABLE is run, or stops being RUNNABLE: the scan does not
\* miss it for ever although entries are deleted by index (proc.c:609-615,
\* 644-647) while the loop index advances, those of earlier users of a slot are
\* never removed and a full table leaves further ones.  It holds on one CPU, until
\* "Removing Starvation" moves a process for the first time or a queue overruns.
RunnableRuns == \A s \in Slot : state[s] = "RUNNABLE" ~> (state[s] # "RUNNABLE" \/ Ended)
=============================================================================
