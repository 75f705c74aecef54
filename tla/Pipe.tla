-------------------------------- MODULE Pipe --------------------------------
(***************************************************************************)
(* One pipe (pipe.c) and the two struct file that refer to it (file.c),    *)
(* used by several processes that inherited its ends through fork.         *)
(*                                                                         *)
(* p->lock is held from the entry of pipewrite, piperead and pipeclose to  *)
(* their sleep or return.  Nobody else reaches the pipe meanwhile, but     *)
(* kill() takes only ptable.lock: it can fall between the test of killed   *)
(* and the moment when sleep() has ptable.lock, so these are two steps,    *)
(* with p->lock held between them.  sleep() gives p->lock up without       *)
(* missing a wakeup (module Proc); a thread woken up has to get the lock   *)
(* again.                                                                  *)
(***************************************************************************)
EXTENDS Integers, Sequences, FiniteSets

CONSTANTS
  Reader, Writer,  \* processes holding the read end, the write end
  Byte,
  PIPESIZE,
  CounterMod,      \* nread and nwrite are uints of this many values
  Buffers,         \* what is passed to write
  ReadSizes,       \* sizes passed to read
  MaxWrites,       \* bound: writes a process makes before it closes
  Killable         \* processes that may be killed

ASSUME PipeAssumption ==
  /\ PIPESIZE \in Nat \ {0} /\ CounterMod \in Nat
  /\ CounterMod > PIPESIZE /\ CounterMod % PIPESIZE = 0   \* 2^32 and 512
  /\ Buffers \subseteq Seq(Byte) \ {<<>>} /\ ReadSizes \subseteq Nat \ {0}
  /\ Reader \cap Writer = {}
  /\ IsFiniteSet(Reader) /\ IsFiniteSet(Writer)

Thread == Reader \cup Writer

VARIABLES
  data, nread, nwrite, readopen, writeopen,   \* struct pipe
  freed,     \* the page of struct pipe has been given to kfree
  ref,       \* by end: ref of its struct file
  pc,        \* "user", "call", "sleep" (about to, with p->lock), "asleep",
             \* "pipeclose" or "closed"
  addr,      \* by writer: what is left of its buffer; by reader: the size asked
  got,       \* by reader: the bytes its last read returned
  writes,    \* by writer: writes made
  killed

pipevars == <<data, nread, nwrite, readopen, writeopen, freed>>
vars == <<pipevars, ref, pc, addr, got, writes, killed>>

End(t) == IF t \in Writer THEN "w" ELSE "r"

\* After pipealloc and the forks that share its descriptors.
Init ==
  /\ data \in [0..(PIPESIZE - 1) -> Byte]
  /\ nread = 0 /\ nwrite = 0
  /\ readopen = TRUE /\ writeopen = TRUE /\ freed = FALSE
  /\ ref = [r |-> Cardinality(Reader), w |-> Cardinality(Writer)]
  /\ pc = [t \in Thread |-> "user"]
  /\ addr = [t \in Thread |-> IF t \in Writer THEN <<>> ELSE 0]
  /\ got = [r \in Reader |-> <<>>]
  /\ writes = [w \in Writer |-> 0]
  /\ killed = [t \in Thread |-> FALSE]

-----------------------------------------------------------------------------
Used == (nwrite - nread) % CounterMod

\* Mutant: the test for a full pipe off by one.
RoomAndOne == PIPESIZE + 1 - Used
Room == PIPESIZE - Used

\* wakeup(&p->nread) wakes the readers, wakeup(&p->nwrite) the writers.
Wakeup(who) == [t \in Thread |-> IF t \in who /\ pc[t] = "asleep" THEN "call" ELSE pc[t]]

Advance(n, k) == (n + k) % CounterMod

\* Slot of the k-th byte (from 1) after counter n.
Index(n, k) == Advance(n, k - 1) % PIPESIZE

Least(a, b) == IF a < b THEN a ELSE b

\* p->lock is free: it is held between two steps only on the way into sleep().
Unlocked == \A t \in Thread : pc[t] # "sleep"

\* sleep(chan, &p->lock): with ptable.lock held, SLEEPING and p->lock released.
Sleep(t) ==
  /\ pc[t] = "sleep"
  /\ pc' = [pc EXCEPT ![t] = "asleep"]
  /\ UNCHANGED <<pipevars, ref, addr, got, writes, killed>>

-----------------------------------------------------------------------------
(***************************************************************************)
(* pipewrite                                                               *)
(***************************************************************************)
WriteCall(w) ==
  /\ pc[w] = "user" /\ ~killed[w]
  /\ writes[w] < MaxWrites
  /\ \E s \in Buffers : addr' = [addr EXCEPT ![w] = s]
  /\ writes' = [writes EXCEPT ![w] = @ + 1]
  /\ pc' = [pc EXCEPT ![w] = "call"]
  /\ UNCHANGED <<pipevars, ref, got, killed>>

\* Copy k bytes into the buffer.
Fill(w, k) ==
  /\ data' = [j \in DOMAIN data |->
                IF \E m \in 1..k : Index(nwrite, m) = j
                  THEN addr[w][CHOOSE m \in 1..k : Index(nwrite, m) = j] ELSE data[j]]
  /\ nwrite' = Advance(nwrite, k)

\* Mutant: a writer that finds the pipe full sleeps without waking readers.
FullSleeps(w) == [pc EXCEPT ![w] = "sleep"]
FullWakes(w) == [Wakeup(Reader) EXCEPT ![w] = "sleep"]

\* The loop until the write is complete, fails, or has to sleep.
PipeWrite(w) ==
  /\ pc[w] = "call" /\ Unlocked
  /\ LET k == Least(Len(addr[w]), Room)
         rest == SubSeq(addr[w], k + 1, Len(addr[w]))
     IN  /\ Fill(w, k)
         /\ \/ /\ rest = <<>>
               /\ addr' = [addr EXCEPT ![w] = <<>>]
               /\ pc' = [Wakeup(Reader) EXCEPT ![w] = "user"]
            \/ /\ rest # <<>>
               /\ ~readopen \/ killed[w]
               /\ addr' = [addr EXCEPT ![w] = <<>>]
               /\ pc' = [pc EXCEPT ![w] = "user"]
            \/ /\ rest # <<>>
               /\ readopen /\ ~killed[w]
               /\ addr' = [addr EXCEPT ![w] = rest]
               /\ pc' = FullWakes(w)
  /\ UNCHANGED <<nread, readopen, writeopen, freed, ref, got, writes, killed>>

-----------------------------------------------------------------------------
(***************************************************************************)
(* piperead                                                                *)
(***************************************************************************)
ReadCall(r) ==
  /\ pc[r] = "user" /\ ~killed[r]
  /\ \E n \in ReadSizes : addr' = [addr EXCEPT ![r] = n]
  /\ pc' = [pc EXCEPT ![r] = "call"]
  /\ UNCHANGED <<pipevars, ref, got, writes, killed>>

ReadWakes(r, k) == [Wakeup(Writer) EXCEPT ![r] = "user"]

\* Bytes, or end of file: copy what there is, up to the size asked.
PipeRead(r) ==
  /\ pc[r] = "call" /\ Unlocked
  /\ Used # 0 \/ ~writeopen
  /\ LET k == Least(addr[r], Used)
     IN  /\ got' = [got EXCEPT ![r] = [m \in 1..k |-> data[Index(nread, m)]]]
         /\ nread' = Advance(nread, k)
         /\ pc' = ReadWakes(r, k)
  /\ addr' = [addr EXCEPT ![r] = 0]
  /\ UNCHANGED <<data, nwrite, readopen, writeopen, freed, ref, writes, killed>>

\* An empty pipe with writers: return -1 if killed, else go to sleep.
PipeReadEmpty(r) ==
  /\ pc[r] = "call" /\ Unlocked
  /\ Used = 0 /\ writeopen
  /\ pc' = [pc EXCEPT ![r] = IF killed[r] THEN "user" ELSE "sleep"]
  /\ addr' = [addr EXCEPT ![r] = IF killed[r] THEN 0 ELSE @]
  /\ UNCHANGED <<pipevars, ref, got, writes, killed>>

-----------------------------------------------------------------------------
(***************************************************************************)
(* fileclose and pipeclose.  The last close of an end calls pipeclose      *)
(* after it has released ftable.lock.                                      *)
(***************************************************************************)

\* Mutant: every close of a descriptor closes the pipe's end.
AnyClose(t) == t \in Thread
LastClose(t) == ref[End(t)] = 1

FileClose(t) ==
  /\ pc[t] = "user"
  /\ ref' = [ref EXCEPT ![End(t)] = @ - 1]
  /\ pc' = [pc EXCEPT ![t] = IF LastClose(t) THEN "pipeclose" ELSE "closed"]
  /\ UNCHANGED <<pipevars, addr, got, writes, killed>>

\* Mutant: pipeclose wakes nobody.
CloseWakesNone(t) == [pc EXCEPT ![t] = "closed"]
CloseWakes(t) == [Wakeup(IF t \in Writer THEN Reader ELSE Writer) EXCEPT ![t] = "closed"]

PipeClose(t) ==
  /\ pc[t] = "pipeclose" /\ Unlocked
  /\ writeopen' = (writeopen /\ t \notin Writer)
  /\ readopen' = (readopen /\ t \notin Reader)
  /\ freed' = (~readopen' /\ ~writeopen')
  /\ pc' = CloseWakes(t)
  /\ UNCHANGED <<data, nread, nwrite, ref, addr, got, writes, killed>>

\* kill(): mark the process and wake it if it is SLEEPING.
Kill(t) ==
  /\ t \in Killable /\ ~killed[t] /\ pc[t] # "closed"
  /\ killed' = [killed EXCEPT ![t] = TRUE]
  /\ pc' = [pc EXCEPT ![t] = IF @ = "asleep" THEN "call" ELSE @]
  /\ UNCHANGED <<pipevars, ref, addr, got, writes>>

-----------------------------------------------------------------------------
ReadStep(r) == PipeRead(r) \/ PipeReadEmpty(r)
CloseStep(t) == FileClose(t) \/ PipeClose(t)

Next ==
  \/ \E w \in Writer : WriteCall(w) \/ PipeWrite(w)
  \/ \E r \in Reader : ReadCall(r) \/ ReadStep(r)
  \/ \E t \in Thread : Sleep(t) \/ CloseStep(t) \/ Kill(t)

Spec == Init /\ [][Next]_vars

-----------------------------------------------------------------------------
(***************************************************************************)
(* Properties.                                                             *)
(***************************************************************************)

\* Nobody goes to sleep, or sleeps on, through what the pipe has for it.  A writer
\* sleeps only on a full pipe that somebody can read.  A reader sleeps only on an
\* empty pipe that somebody can write, unless a writer has been killed: pipewrite
\* returns -1 to a killed writer without waking the readers of the bytes it has
\* already put in.  Nothing is said of killed here: a kill between the test and
\* the sleep finds nobody to wake, and the process sleeps until the pipe changes.
NoLostWakeup ==
  /\ \A w \in Writer : pc[w] \in {"sleep", "asleep"} => Room = 0 /\ readopen
  /\ \A r \in Reader : pc[r] \in {"sleep", "asleep"} =>
       (Used = 0 /\ writeopen) \/ \E w \in Writer : killed[w]

\* An end is closed, and the page freed, only when no process can reach it any
\* more through a descriptor or a call in progress.
ClosedUnused ==
  /\ ~writeopen => \A w \in Writer : pc[w] = "closed"
  /\ ~readopen => \A r \in Reader : pc[r] = "closed"
  /\ freed <=> ~writeopen /\ ~readopen

\* The circular buffer and its wrapping counters implement a bounded queue:
\* no byte is lost, duplicated or reordered, and end of file is reported only
\* after the last byte.
Queue == INSTANCE ByteQueue
           WITH queue <- [k \in 1..Used |-> data[Index(nread, k)]],
                unsent <- [w \in Writer |-> addr[w]],
                eof <- ~writeopen, Capacity <- PIPESIZE
ImplementsQueue == Queue!Spec

\* Fairness: a process in a call that can go on does; readers read again and
\* again unless they close (what the user code owes, a write would wait for ever
\* for a reader that never reads); writers write until they close; the killed exit.
Fairness ==
  /\ \A w \in Writer : WF_vars(PipeWrite(w)) /\ WF_vars(WriteCall(w) \/ FileClose(w))
  /\ \A r \in Reader : WF_vars(ReadStep(r)) /\ WF_vars(ReadCall(r))
  /\ \A t \in Thread : WF_vars(Sleep(t)) /\ WF_vars(PipeClose(t))
                       /\ WF_vars(killed[t] /\ FileClose(t))

FairSpec == Spec /\ Fairness

\* Every call returns: the readers make room for a write, or close and the
\* writer is told; a read gets bytes, or end of file once all writers closed.
CallsReturn == \A t \in Thread : pc[t] \in {"call", "sleep", "asleep"} ~> pc[t] = "user"
=============================================================================
