------------------------------ MODULE Console ------------------------------
(***************************************************************************)
(* The console (console.c) on the spin locks of spinlock.c, with the       *)
(* interrupts of trap.c: the ring of typed characters, its readers, and    *)
(* the code that takes cons.lock, ptable.lock and tickslock in interrupt   *)
(* handlers, in system calls and in the scheduler, on several CPUs.        *)
(*                                                                         *)
(* A CPU executes a list of operations, todo[c]; calling a function puts   *)
(* its operations in front of the list, and so does an interrupt, which    *)
(* the CPU takes between any two operations while its interrupt flag is    *)
(* on.  A process that gives up the CPU in sched takes its list along.     *)
(* The inode that consoleread and consolewrite unlock and lock again       *)
(* around their work is left out: cons.lock is not held then.              *)
(***************************************************************************)
EXTENDS Naturals, Sequences, FiniteSets, SequencesExt

CONSTANTS
  NCPU,          \* CPUs; the keyboard and the serial port interrupt CPU 0
  Proc,          \* processes
  Nobody,        \* no process, no CPU
  INPUT_BUF,     \* size of the ring
  WORD,          \* the indices are unsigned integers modulo WORD
  Start,         \* how many characters were typed and read before
  FCFS,          \* whether the kernel is built with fcfs_scheduler
  Calls,         \* the system calls made: "read", "write", "kill", "cps"
  Counts,        \* numbers of bytes read() asks for
  Keys,          \* what is typed
  MaxKeys, MaxCalls, MaxTicks   \* bounds

CPU == 0..(NCPU - 1)
Lock == {"cons", "ptable", "ticks"}

ASSUME ConsoleAssumption ==
  /\ NCPU \in Nat \ {0} /\ INPUT_BUF \in Nat \ {0} /\ Counts \subseteq Nat
  /\ WORD \in Nat /\ WORD > INPUT_BUF /\ WORD % INPUT_BUF = 0 /\ Start \in 0..(WORD - 1)
  /\ FCFS \in BOOLEAN
  /\ Keys \subseteq {"x", "newline", "eof", "kill", "backspace", "dump", "nul"}

VARIABLES
  lk,        \* by lock: the CPU that holds it
  cpu,       \* by CPU: interrupt flag, ncli, intena
  todo,      \* by CPU: the operations to execute
  cur,       \* by CPU: c->proc
  proc,      \* by process: state, killed, call, bytes left to read, target
  saved,     \* by process off the CPU: its operations and sched's intena
  input,     \* buf, r, w, e
  text,      \* history: what was typed and found room, as edited
  ready,     \* history: how much of text has been handed to readers
  taken,     \* history: how much of text readers have consumed
  keys, calls, ticks,
  panicked

vars == <<lk, cpu, todo, cur, proc, saved, input, text, ready, taken, keys, calls, ticks, panicked>>
history == <<text, ready, taken>>
counts == <<keys, calls, ticks>>

Op(f, x) == <<<<f, x>>>>
Locked(l, body) == Op("acquire", l) \o body \o Op("release", l)
\* cprintf, with cons.locking set: the characters go out under cons.lock.
Cprintf == Locked("cons", <<>>)
Consolewrite == Locked("cons", <<>>)
\* procdump prints without ptable.lock; cps prints with it.
Procdump == Cprintf
Cps == Op("sti", "") \o Locked("ptable", Cprintf \o Cprintf)
Updatestatistics == Locked("ptable", <<>>)
\* Mutant: a message is printed with ptable.lock held.
YieldPrints == Op("acquire", "ptable") \o Cprintf \o Op("sched", "RUNNABLE") \o Op("release", "ptable")
Yield == Op("acquire", "ptable") \o Op("sched", "RUNNABLE") \o Op("release", "ptable")
\* One round of scheduler, after sti.
Scheduler == Op("acquire", "ptable") \o Op("pick", "")

\* The processes run in user mode or were preempted there by the timer.
Init ==
  /\ lk = [l \in Lock |-> Nobody]
  /\ cpu = [c \in CPU |-> [int |-> TRUE, ncli |-> 0, intena |-> TRUE]]
  /\ cur = [c \in CPU |-> Nobody]
  /\ todo = [c \in CPU |-> Scheduler]
  /\ proc = [p \in Proc |-> [state |-> "RUNNABLE", killed |-> FALSE, call |-> "none", n |-> 0, target |-> 0]]
  /\ saved = [p \in Proc |-> [todo |-> Op("release", "ptable") \o Op("iret", TRUE), intena |-> FALSE]]
  /\ input = [buf |-> [i \in 0..(INPUT_BUF - 1) |-> "nul"], r |-> Start, w |-> Start, e |-> Start]
  /\ text = <<>> /\ ready = 0 /\ taken = <<>>
  /\ keys = 0 /\ calls = 0 /\ ticks = 0
  /\ panicked = FALSE

\* CPU c executes operation f and goes on with next and the rest.
At(c, f) == ~panicked /\ todo[c] # <<>> /\ Head(todo[c])[1] = f
Arg(c) == Head(todo[c])[2]
Then(c, next) == todo' = [todo EXCEPT ![c] = next \o Tail(@)]

-----------------------------------------------------------------------------
(* spinlock.c                                                              *)
Pushcli(s) == [int |-> FALSE, ncli |-> s.ncli + 1,
               intena |-> IF s.ncli = 0 THEN s.int ELSE s.intena]
\* Mutant: interrupts are turned on when the first of two locks is released.
PopcliEager(s) == [s EXCEPT !.ncli = @ - 1, !.int = s.intena]
Popcli(s) == [s EXCEPT !.ncli = @ - 1, !.int = s.ncli = 1 /\ s.intena]

\* pushcli and the first xchg; if it fails the CPU spins with more of them.
Acquire(c) ==
  /\ At(c, "acquire")
  /\ cpu' = [cpu EXCEPT ![c] = Pushcli(@)]
  /\ panicked' = (lk[Arg(c)] = c)
  /\ IF lk[Arg(c)] = Nobody THEN lk' = [lk EXCEPT ![Arg(c)] = c] /\ Then(c, <<>>)
     ELSE Then(c, Op("xchg", Arg(c))) /\ UNCHANGED lk
  /\ UNCHANGED <<cur, proc, saved, input, history, counts>>

Xchg(c) ==
  /\ At(c, "xchg")
  /\ lk[Arg(c)] = Nobody
  /\ lk' = [lk EXCEPT ![Arg(c)] = c]
  /\ Then(c, <<>>)
  /\ UNCHANGED <<cpu, cur, proc, saved, input, history, counts, panicked>>

Release(c) ==
  /\ At(c, "release")
  /\ panicked' = (lk[Arg(c)] # c \/ cpu[c].int \/ cpu[c].ncli = 0)
  /\ lk' = [lk EXCEPT ![Arg(c)] = Nobody]
  /\ cpu' = [cpu EXCEPT ![c] = Popcli(@)]
  /\ Then(c, <<>>)
  /\ UNCHANGED <<cur, proc, saved, input, history, counts>>

\* sti in cps.
Sti(c) ==
  /\ At(c, "sti")
  /\ cpu' = [cpu EXCEPT ![c].int = TRUE]
  /\ Then(c, <<>>)
  /\ UNCHANGED <<lk, cur, proc, saved, input, history, counts, panicked>>

-----------------------------------------------------------------------------
(* sched, and the scheduler on the other side of swtch                     *)
Sched(c) ==
  /\ At(c, "sched")
  /\ LET p == cur[c] IN
     /\ panicked' = (lk["ptable"] # c \/ cpu[c].ncli # 1 \/ cpu[c].int)
     /\ proc' = [proc EXCEPT ![p].state = Arg(c)]
     /\ saved' = [saved EXCEPT ![p] = [todo |-> Tail(todo[c]), intena |-> cpu[c].intena]]
     /\ cur' = [cur EXCEPT ![c] = Nobody]
     /\ todo' = [todo EXCEPT ![c] = Op("pick", "")]
  /\ UNCHANGED <<lk, cpu, input, history, counts>>

\* mycpu()->intena = intena, after swtch in sched.
Resumed(s, p) == [s EXCEPT !.intena = saved[p].intena]

Switch(c, p) ==
  /\ proc' = [proc EXCEPT ![p].state = "RUNNING"]
  /\ cur' = [cur EXCEPT ![c] = p]
  /\ cpu' = [cpu EXCEPT ![c] = Resumed(@, p)]
  /\ todo' = [todo EXCEPT ![c] = saved[p].todo]
  /\ saved' = [saved EXCEPT ![p] = [todo |-> <<>>, intena |-> FALSE]]
  /\ UNCHANGED lk

\* A RUNNABLE process of the scan, or its end: release, and sti.  fcfs_scheduler
\* prints, for some pairs of processes, before it switches.
Pick(c) ==
  /\ At(c, "pick")
  /\ \/ \E p \in Proc :
          /\ proc[p].state = "RUNNABLE"
          /\ \/ Switch(c, p)
             \/ FCFS /\ Then(c, Cprintf \o Op("swtch", p)) /\ UNCHANGED <<lk, cpu, cur, proc, saved>>
     \/ /\ lk' = [lk EXCEPT !["ptable"] = Nobody]
        /\ cpu' = [cpu EXCEPT ![c] = [Popcli(@) EXCEPT !.int = TRUE]]
        /\ Then(c, Scheduler)
        /\ UNCHANGED <<cur, proc, saved>>
  /\ UNCHANGED <<input, history, counts, panicked>>

Swtch(c) ==
  /\ At(c, "swtch")
  /\ Switch(c, Arg(c))
  /\ UNCHANGED <<input, history, counts, panicked>>

-----------------------------------------------------------------------------
(* trap.c                                                                  *)
InUser(c) == cur[c] # Nobody /\ todo[c] = <<>>
Interrupt(c, handler) ==
  /\ ~panicked /\ cpu[c].int
  /\ cpu' = [cpu EXCEPT ![c].int = FALSE]
  /\ todo' = [todo EXCEPT ![c] = handler \o Op("iret", InUser(c)) \o @]
  /\ UNCHANGED <<lk, cur, proc, saved, input, history, calls, panicked>>

\* A killed process exits on its way back to user mode: before it yields,
\* and at the end of the trap.
Exit == Op("acquire", "ptable") \o Op("sched", "ZOMBIE")
Check(c) ==
  /\ At(c, "check")
  /\ Then(c, IF proc[cur[c]].killed THEN Exit ELSE <<>>)
  /\ UNCHANGED <<lk, cpu, cur, proc, saved, input, history, counts, panicked>>
Iret(c) ==
  /\ At(c, "iret")
  /\ IF Arg(c) /\ proc[cur[c]].killed THEN Then(c, Exit) /\ UNCHANGED cpu
     ELSE Then(c, <<>>) /\ cpu' = [cpu EXCEPT ![c].int = TRUE]
  /\ UNCHANGED <<lk, cur, proc, saved, input, history, counts, panicked>>

\* IRQ_TIMER: on CPU 0 the clock, updatestatistics and wakeup(&ticks); on
\* every CPU yield if a process is running.
Timer(c) ==
  /\ ticks < MaxTicks /\ ticks' = ticks + 1 /\ UNCHANGED keys
  /\ Interrupt(c, (IF c = 0 THEN Locked("ticks", Updatestatistics \o Locked("ptable", <<>>))
                   ELSE <<>>)
                  \o (IF InUser(c) THEN Op("check", "") ELSE <<>>)
                  \o (IF cur[c] # Nobody THEN Yield ELSE <<>>))

\* IRQ_KBD and IRQ_COM1 call kbdintr and uartintr, and these consoleintr.
Kbdintr == Op("acquire", "cons") \o Op("getc", FALSE)
Uartintr == Kbdintr
Keyboard ==
  /\ keys < MaxKeys /\ UNCHANGED <<keys, ticks>>
  /\ \E handler \in {Kbdintr, Uartintr} : Interrupt(0, handler)

-----------------------------------------------------------------------------
(* The ring.  Indices run modulo WORD; history records the same input as a *)
(* sequence.                                                               *)
Slot(i) == i % INPUT_BUF
Plus(i, n) == (i + n) % WORD
Minus(i, n) == (i + WORD - n) % WORD
Diff(i, j) == (i + WORD - j) % WORD

\* How far ^U erases: to the last newline, or to w.
Killed(s) == CHOOSE n \in 0..Diff(s.e, s.w) :
  /\ \A k \in 1..n : s.buf[Slot(Minus(s.e, k))] # "newline"
  /\ n < Diff(s.e, s.w) => s.buf[Slot(Minus(s.e, n + 1))] = "newline"
Erased(s, k) == IF k = "kill" THEN Killed(s) ELSE IF s.e # s.w THEN 1 ELSE 0

\* Mutant: the ring is taken to be full only when it has overflowed.
RoomOffByOne(s) == Diff(s.e, s.r) <= INPUT_BUF
Room(s) == Diff(s.e, s.r) < INPUT_BUF
Typed(s, k) == [s EXCEPT !.buf[Slot(s.e)] = k, !.e = Plus(@, 1)]
Complete(s, k) == k \in {"newline", "eof"} \/ s.e = Plus(s.r, INPUT_BUF)

\* One round of consoleintr's loop for key k; with no more keys it ends.
Wakeup == Locked("ptable", Op("wakeup", ""))
Getc(c) ==
  /\ At(c, "getc")
  /\ \/ /\ Then(c, Op("release", "cons") \o (IF Arg(c) THEN Procdump ELSE <<>>))
        /\ UNCHANGED <<input, history, keys>>
     \/ \E k \in Keys :
          /\ keys < MaxKeys /\ keys' = keys + 1
          /\ IF k \in {"kill", "backspace"}
             THEN /\ input' = [input EXCEPT !.e = Minus(@, Erased(input, k))]
                  /\ text' = IF k = "kill" \/ Len(text) = ready THEN SubSeq(text, 1, ready) ELSE Front(text)
                  /\ Then(c, Op("getc", Arg(c)))
                  /\ UNCHANGED <<ready, taken>>
             ELSE IF k \in {"dump", "nul"} \/ ~Room(input)
             THEN /\ Then(c, Op("getc", k = "dump" \/ Arg(c)))
                  /\ UNCHANGED <<input, history>>
             ELSE LET s == Typed(input, k) IN
                  /\ text' = Append(text, k)
                  /\ UNCHANGED taken
                  /\ IF Complete(s, k)
                     THEN /\ input' = [s EXCEPT !.w = s.e]
                          /\ ready' = Len(text')
                          /\ Then(c, Wakeup \o Op("getc", Arg(c)))
                     ELSE input' = s /\ Then(c, Op("getc", Arg(c))) /\ UNCHANGED ready
  /\ UNCHANGED <<lk, cpu, cur, proc, saved, calls, ticks, panicked>>

\* wakeup1(&input.r)
Wake(c) ==
  /\ At(c, "wakeup")
  /\ proc' = [p \in Proc |-> IF proc[p].state = "SLEEPING" THEN [proc[p] EXCEPT !.state = "RUNNABLE"]
                             ELSE proc[p]]
  /\ Then(c, <<>>)
  /\ UNCHANGED <<lk, cpu, cur, saved, input, history, counts, panicked>>

-----------------------------------------------------------------------------
(* System calls                                                            *)
Script(call, q) ==
  CASE call = "read"  -> Op("acquire", "cons") \o Op("read", "")
    [] call = "write" -> Consolewrite
    [] call = "kill"  -> Locked("ptable", Op("kill", q))
    [] call = "cps"   -> Cps
Syscall(c) ==
  /\ ~panicked /\ InUser(c) /\ calls < MaxCalls
  /\ calls' = calls + 1
  /\ \E call \in Calls : \E n \in (IF call = "read" THEN Counts ELSE {0}),
                            q \in (IF call = "kill" THEN Proc ELSE {cur[c]}) :
       /\ proc' = [proc EXCEPT ![cur[c]] = [@ EXCEPT !.call = call, !.n = n, !.target = n]]
       /\ todo' = [todo EXCEPT ![c] = (IF proc[cur[c]].killed THEN Exit ELSE Script(call, q)) \o Op("ret", "")]
  /\ UNCHANGED <<lk, cpu, cur, saved, input, history, keys, ticks, panicked>>

\* The return from a system call: a killed process exits.
Ret(c) ==
  /\ At(c, "ret")
  /\ proc' = [proc EXCEPT ![cur[c]] = [@ EXCEPT !.call = "none", !.n = 0, !.target = 0]]
  /\ Then(c, IF proc[cur[c]].killed THEN Exit ELSE <<>>)
  /\ UNCHANGED <<lk, cpu, cur, saved, input, history, counts, panicked>>

\* sleep(&input.r, &cons.lock)
\* Mutant: cons.lock is released before ptable.lock is taken.
SleepUnlocked == Op("release", "cons") \o Op("acquire", "ptable") \o Op("sched", "SLEEPING")
                 \o Op("release", "ptable") \o Op("acquire", "cons")
Sleep == Op("acquire", "ptable") \o Op("release", "cons") \o Op("sched", "SLEEPING")
         \o Op("release", "ptable") \o Op("acquire", "cons")

\* One round of consoleread's loop.
Read(c) ==
  /\ At(c, "read")
  /\ LET p == cur[c]
         k == input.buf[Slot(input.r)]
         done == Op("release", "cons")
         advance == /\ input' = [input EXCEPT !.r = Plus(@, 1)]
                    /\ taken' = Append(taken, k)
     IN
     IF proc[p].n = 0 THEN Then(c, done) /\ UNCHANGED <<proc, input, taken>>
     ELSE IF input.r = input.w
     THEN /\ Then(c, IF proc[p].killed THEN done ELSE Sleep \o Op("read", ""))
          /\ UNCHANGED <<proc, input, taken>>
     ELSE IF k = "eof"
     THEN /\ Then(c, done)
          /\ IF proc[p].n < proc[p].target THEN UNCHANGED <<input, taken>> ELSE advance
          /\ UNCHANGED proc
     ELSE /\ advance
          /\ proc' = [proc EXCEPT ![p].n = @ - 1]
          /\ Then(c, IF k = "newline" THEN done ELSE Op("read", ""))
  /\ UNCHANGED <<lk, cpu, cur, saved, text, ready, counts, panicked>>

\* kill
Kill(c) ==
  /\ At(c, "kill")
  /\ proc' = [proc EXCEPT ![Arg(c)] =
       [@ EXCEPT !.killed = TRUE, !.state = IF @ = "SLEEPING" THEN "RUNNABLE" ELSE @]]
  /\ Then(c, <<>>)
  /\ UNCHANGED <<lk, cpu, cur, saved, input, history, counts, panicked>>

Next ==
  \/ Keyboard
  \/ \E c \in CPU :
       \/ Acquire(c) \/ Xchg(c) \/ Release(c) \/ Sti(c) \/ Check(c) \/ Iret(c) \/ Sched(c) \/ Pick(c)
       \/ Swtch(c) \/ Timer(c) \/ Getc(c) \/ Wake(c) \/ Syscall(c) \/ Ret(c) \/ Read(c) \/ Kill(c)

Spec == Init /\ [][Next]_vars

-----------------------------------------------------------------------------
(* Properties                                                              *)

\* Nothing that consoleintr accepted is lost, repeated or out of order on its
\* way to the readers (a key typed while the ring is full is discarded and does
\* not count): what they consumed, followed by what is in the ring, is the text
\* accepted as edited by ^U and backspace, and w divides what was handed over
\* from what can still be edited, whatever reads overlap, whenever the ring
\* fills up and when the indices wrap (consoleintr, consoleread).
InputKept ==
  LET n == Diff(input.e, input.r) IN
  /\ n <= INPUT_BUF
  /\ text = taken \o [k \in 1..n |-> input.buf[Slot(Plus(input.r, k - 1))]]
  /\ ready = Len(taken) + Diff(input.w, input.r)

\* No reader sleeps beside input it could take: if a process sleeps in
\* consoleread, no line is ready or the interrupt handler that made it ready
\* has still to wake the readers up.
NoReaderForgotten ==
  (\E p \in Proc : proc[p].state = "SLEEPING") =>
    \/ input.r = input.w
    \/ \E c \in CPU : \E k \in DOMAIN todo[c] : todo[c][k][1] = "wakeup"

\* Interrupts and locks match, across nesting, interrupts and switches: no
\* CPU has interrupts on while it holds or waits for a lock, ncli counts its
\* locks, user code runs with interrupts on and no lock, and none of the
\* panics of acquire, release, popcli and sched happens.
InterruptsMatch ==
  /\ ~panicked
  /\ \A c \in CPU :
       LET waits == todo[c] # <<>> /\ Head(todo[c])[1] = "xchg"
           held == {l \in Lock : lk[l] = c} IN
       /\ cpu[c].ncli = Cardinality(held) + (IF waits THEN 1 ELSE 0)
       /\ cpu[c].ncli > 0 => ~cpu[c].int
       /\ todo[c] = <<>> => cpu[c].int /\ held = {}

\* CPUs that wait for each other's locks.
Stuck(S) == S # {} /\ \A c \in S : At(c, "xchg") /\ lk[Arg(c)] \in S
\* c prints with ptable.lock held, in cps or in fcfs_scheduler.
PrintsLocked(c) ==
  /\ lk["ptable"] = c /\ Arg(c) = "cons"
  /\ (FCFS /\ cur[c] = Nobody) \/ (cur[c] # Nobody /\ proc[cur[c]].call = "cps")

\* CPUs wait for each other's locks for ever only if one of them prints with
\* ptable.lock held, as cps and fcfs_scheduler do; elsewhere tickslock comes
\* before cons.lock, and both before ptable.lock.
DeadlockOnlyPrinting ==
  \A S \in SUBSET CPU : Stuck(S) => \E c \in S : PrintsLocked(c)
=============================================================================
