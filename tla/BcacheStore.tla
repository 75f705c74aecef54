---------------------------- MODULE BcacheStore -----------------------------
(***************************************************************************)
(* Over a disk that carries out its commands, the buffer cache gives every *)
(* holder of a block the last write of it: module Bcache implements module *)
(* BlockStore.                                                             *)
(***************************************************************************)
EXTENDS BcacheProofs

\* What holds of a disk that carries out its commands.
Stored ==
  /\ CleanIsStored
  /\ ~ctl.err
  /\ ctl.st = "done" /\ ctl.write => disk[ctl.block] = ctl.data

-----------------------------------------------------------------------------
(***************************************************************************)
(* A disk that carries out its commands: clean buffers agree with it       *)
(***************************************************************************)

\* Steps that give the controller nothing to do, or a new command.
LEMMA QuietStored ==
  ASSUME BcacheInv, Stored, disk' = disk,
         \/ ctl' = ctl
         \/ ctl'.st # "done" /\ ~ctl'.err,
         \A c \in Buf : valid'[c] /\ ~dirty'[c] =>
           \/ /\ valid[c] /\ ~dirty[c]
              /\ data'[c] = data[c] /\ blockno'[c] = blockno[c]
           \/ data'[c] = disk[blockno'[c]]
  PROVE  Stored'
  BY DEF Stored, CleanIsStored

\* The controller's write changes no block that a clean buffer has.
LEMMA CompleteStored ==
  ASSUME Faults = {FALSE}, BcacheInv, Stored, Complete
  PROVE  Stored'
<1>1. /\ ctl.st = "busy" /\ UNCHANGED <<blockno, valid, dirty, data>>
      /\ disk' = IF ctl.write THEN [disk EXCEPT ![ctl.block] = ctl.data] ELSE disk
      /\ ctl' = [ctl EXCEPT !.st = "done", !.err = FALSE]
  BY DEF Complete, bufvars
<1>3. PICK b \in Buf, p \in Proc : /\ ctl.block = blockno[b] /\ blockno[b] \in Block
                                    /\ ctl.write = dirty[b]
  BY <1>1, ActiveRequest DEF BcacheInv, QueueActive
<1>4. disk \in [Block -> Value]
  BY DEF BcacheInv, BcacheTypes, Driver
<1>7. ASSUME NEW c \in Buf, valid[c], ~dirty[c] PROVE data[c] = disk'[blockno[c]]
    BY <1>7, <1>3, <1>1, <1>4
    DEF Stored, CleanIsStored, BcacheInv, FlagsSound, OneBuffer
<1> QED
  BY <1>7, <1>3, <1>4, <1>1 DEF Stored, BcacheInv, BcacheTypes, Driver, CleanIsStored

\* What ideintr leaves in the buffer of the request is what is on disk.
LEMMA IdeintrStored ==
  ASSUME BcacheInv, Stored, Ideintr
  PROVE  /\ Stored'
         /\ \A b \in Buf : b = Head(idequeue) => data'[b] = disk[blockno[b]]
<1>1. idequeue # <<>> /\ ctl.st = "done" /\ disk' = disk /\ ~ctl.err
  BY DEF Ideintr, Stored
<1>2. PICK b \in Buf, p \in Proc :
        /\ b = Head(idequeue) /\ blockno[b] \in Block
        /\ ctl.block = blockno[b] /\ ctl.write = dirty[b]
        /\ ctl.data = IF dirty[b] THEN data[b] ELSE 0
  BY <1>1, ActiveRequest
<1> QED
  BY <1>1, QuietStored, <1>2, Zenon
    DEF BcacheInv, BcacheTypes, Flags, NextRequest, Idle, Idestart, Stored, Ideintr

\* The steps of a thread.
LEMMA ThreadStored ==
  ASSUME BcacheInv, Stored, NEW p \in Proc,
         \/ Bget(p) \/ Acquiresleep(p) \/ Release(p) \/ KernelStep(p)
         \/ \E b \in Buf : LogWrite(p, b) \/ Bwrite(p, b)
  PROVE  Stored'
<1>1. CASE \/ Acquiresleep(p) \/ Release(p) \/ Brelse(p) \/ IderwReturn(p)
           \/ \E k \in Block : BgetCached(p, k) \/ BgetPanic(p, k)
    BY <1>1, QuietStored, Zenon
    DEF Acquiresleep, Release, Releasesleep, Brelse, IderwReturn, BgetCached, BgetPanic,
       bufvars, idevars
<1>2. ASSUME NEW k \in Block, BgetRecycle(p, k) PROVE Stored'
    BY <1>2, UnusedFound, QuietStored, Zenon
    DEF BgetRecycle, BcacheInv, BcacheTypes, idevars, Flags
<1>3. CASE Iderw(p)
    BY <1>3, QuietStored DEF Iderw, Idestart, bufvars
<1>4. ASSUME NEW b \in Buf, LogWrite(p, b) \/ Bwrite(p, b) PROVE Stored'
  <2>1. /\ dirty' = [dirty EXCEPT ![b] = TRUE]
        /\ data' = data \/ data' = [data EXCEPT ![b] = writes']
        /\ UNCHANGED <<blockno, valid, ctl, disk>>
    BY <1>4 DEF LogWrite, Bwrite, idevars
  <2> QED
    BY <2>1, QuietStored DEF BcacheInv, BcacheTypes, Flags
<1> QED
  BY <1>1, <1>2, <1>3, <1>4 DEF Bget, KernelStep

\* What the driver's commands leave on disk, when the disk carries them out.
THEOREM StoredCorrect ==
  ASSUME Faults = {FALSE}
  PROVE  Spec => []Stored
<1>1. Init => Stored
  BY DEF Init, Stored, CleanIsStored, Idle
<1>2. BcacheInv /\ Stored /\ [Next]_vars => Stored'
    BY QuietStored, ThreadStored, CompleteStored, IdeintrStored
    DEF vars, bufvars, idevars, Next
<1> QED
  BY <1>1, <1>2, BcacheCorrect, PTL DEF Spec

\* A clean buffer agrees with the disk in every reachable state, when the disk
\* carries out its commands: bget loses nothing when it recycles one.
THEOREM CleanCorrect ==
  ASSUME Faults = {FALSE}
  PROVE  Spec => []CleanIsStored
<1>1. Stored => CleanIsStored
  BY DEF Stored
<1> QED
  BY <1>1, StoredCorrect, PTL

-----------------------------------------------------------------------------
(***************************************************************************)
(* The cache implements BlockStore                                         *)
(***************************************************************************)

\* What a block's holder and next reader see, by its one valid buffer.
SeenInBuffer ==
  /\ \A b \in Buf : valid[b] => /\ blockno[b] \in Block
                                /\ Contents[blockno[b]] = data[b]
                                /\ Holder[blockno[b]] = locked[b]
  /\ \A k \in Block : (\A b \in Buf : ~(valid[b] /\ blockno[b] = k)) =>
       Contents[k] = disk[k] /\ Holder[k] = NoProc

\* The abstract state is the cache's: a block has one buffer, so the choice in the
\* refinement mapping is none.
LEMMA Seen == BcacheInv => SeenInBuffer
  BY Bounds
  DEF BcacheInv, BcacheTypes, FlagsSound, BufferOf, OneBuffer, Contents, Holder,
     SeenInBuffer

\* A step that leaves a block's valid buffer alone, or its lack of one, cannot be
\* seen at that block.
LEMMA Elsewhere ==
  ASSUME NEW j \in Block, disk'[j] = disk[j],
         \A c \in Buf : (valid'[c] /\ blockno'[c] = j) <=> (valid[c] /\ blockno[c] = j),
         \A c \in Buf : valid[c] /\ blockno[c] = j => /\ data'[c] = data[c]
                                                      /\ locked'[c] = locked[c]
  PROVE  Contents'[j] = Contents[j] /\ Holder'[j] = Holder[j]
<1>1. BufferOf(j)' = BufferOf(j)
  BY DEF BufferOf
<1>2. CASE BufferOf(j) = {}
  BY <1>1, <1>2 DEF Contents, Holder
<1>3. CASE BufferOf(j) # {}
  <2>1. PICK b \in Buf : b = (CHOOSE c \in BufferOf(j) : TRUE) /\ b \in BufferOf(j)
    BY <1>3 DEF BufferOf
  <2>4. Contents'[j] = data'[b] /\ Holder'[j] = locked'[b]
    BY <1>1, <1>3, <2>1 DEF Contents, Holder
  <2> QED
    BY <1>3, <2>1, <2>4 DEF BufferOf, Contents, Holder
<1> QED
  BY <1>2, <1>3

\* The abstract state is a function of the block.
LEMMA SeenType ==
  /\ Contents = [k \in Block |-> Contents[k]] /\ Holder = [k \in Block |-> Holder[k]]
  /\ Contents' = [k \in Block |-> Contents'[k]] /\ Holder' = [k \in Block |-> Holder'[k]]
<1>1. Contents = [k \in Block |-> Contents[k]]
  BY DEF Contents
<1>2. Holder = [k \in Block |-> Holder[k]]
  BY DEF Holder
<1>3. (Contents = [k \in Block |-> Contents[k]])'
  BY <1>1, PTL
<1>4. (Holder = [k \in Block |-> Holder[k]])'
  BY <1>2, PTL
<1> QED
  BY <1>1, <1>2, <1>3, <1>4

\* Steps that no block shows.
LEMMA Unseen ==
  ASSUME \A k \in Block : Contents'[k] = Contents[k] /\ Holder'[k] = Holder[k]
  PROVE  Contents' = Contents /\ Holder' = Holder
  BY SeenType

\* The steps of bget, brelse's count, the queueing and the return of iderw, and
\* the wait for a lock are stutters.
LEMMA BookkeepingRefines ==
  ASSUME BcacheInv, UNCHANGED <<bufvars, locked, disk>>
  PROVE  UNCHANGED <<Contents, disk, Holder>>
  BY Elsewhere, Unseen DEF bufvars

\* Recycling a buffer cannot be seen: it was clean and nobody held it, and the
\* block it gets had no buffer.
LEMMA RecycleRefines ==
  ASSUME BcacheInv, BcacheInv', Stored, NEW p \in Proc, NEW k \in Block, BgetRecycle(p, k)
  PROVE  UNCHANGED <<Contents, disk, Holder>>
<1>1. PICK b \in Buf : b = list[Max(Unused)] /\ refcnt[b] = 0 /\ ~dirty[b]
  BY UnusedFound DEF BgetRecycle, BcacheInv, BcacheTypes
<1>2. /\ blockno' = [blockno EXCEPT ![b] = k] /\ valid' = [valid EXCEPT ![b] = FALSE]
      /\ UNCHANGED <<data, locked, disk>>
  BY <1>1 DEF BgetRecycle, idevars
<1>3. ~valid'[b] /\ \A c \in Buf : c # b => blockno'[c] = blockno[c] /\ valid'[c] = valid[c]
  BY <1>2 DEF BcacheInv, BcacheTypes, Flags
<1>4. locked[b] = NoProc
    BY <1>1, UserFacts, Zenon DEF Users, BcacheInv, BcacheTypes
<1>5. ASSUME NEW j \in Block PROVE Contents'[j] = Contents[j] /\ Holder'[j] = Holder[j]
  <2>1. CASE valid[b] /\ blockno[b] = j
    <3>3. Contents'[j] = disk'[j] /\ Holder'[j] = NoProc
        BY <1>3, <2>1, Bounds DEF BufferOf, Contents, Holder, BcacheInv, OneBuffer
    <3> QED
      BY <1>1, <1>4, <2>1, Seen, <1>2, <3>3 DEF SeenInBuffer, Stored, CleanIsStored
  <2>2. CASE ~(valid[b] /\ blockno[b] = j)
      BY <1>3, <2>2, <1>2, Elsewhere
  <2> QED
    BY <2>1, <2>2
<1> QED
  BY <1>2, <1>5, Unseen

\* The same after a step.
LEMMA SeenPrimed == (BcacheInv => SeenInBuffer)'
  BY Seen, PTL

\* What is seen of a valid buffer after a step.
LEMMA SeenNext ==
  ASSUME BcacheInv', NEW b \in Buf, valid'[b]
  PROVE  Contents'[blockno'[b]] = data'[b] /\ Holder'[blockno'[b]] = locked'[b]
  BY SeenPrimed DEF SeenInBuffer

\* A lock of a valid buffer taken by acquiresleep is a Take.
LEMMA AcquireRefines ==
  ASSUME BcacheInv, BcacheInv', NEW p \in Proc, Acquiresleep(p)
  PROVE  [Store!Next]_<<Contents, disk, Holder>>
<1>1. pc[p] = "lock" /\ UNCHANGED <<bufvars, disk>>
  BY DEF Acquiresleep, idevars
<1>2. PICK b \in Buf : b = cur[p]
  BY <1>1, InCall
<1>3. CASE locked[b] # NoProc
    BY <1>2, <1>3, <1>1, BookkeepingRefines DEF Acquiresleep
<1>4. CASE locked[b] = NoProc
  <2>2. locked'[b] = p /\ \A c \in Buf : c # b => locked'[c] = locked[c]
    BY <1>2, <1>4 DEF BcacheInv, BcacheTypes, Acquiresleep
  <2>3. UNCHANGED <<blockno, valid, data, disk>>
    BY <1>1 DEF bufvars
  <2>4. CASE ~valid[b]
      BY <2>2, <2>3, <2>4, Elsewhere, Unseen
  <2>5. CASE valid[b]
      BY <1>4, <2>5, Seen, <2>2, <2>3, SeenNext, Elsewhere, SeenType
      DEF SeenInBuffer, Store!Take, Store!Next
  <2> QED
    BY <2>4, <2>5
<1> QED
  BY <1>3, <1>4

\* releasesleep is a Drop.
LEMMA ReleaseRefines ==
  ASSUME BcacheInv, BcacheInv', NEW p \in Proc, NEW b \in Buf, Releasesleep(p, b)
  PROVE  Store!Next
<1>1. /\ pc[p] = "run" /\ locked[b] = p /\ locked' = [locked EXCEPT ![b] = NoProc]
      /\ UNCHANGED <<blockno, valid, data, disk>>
  BY DEF Releasesleep, bufvars, idevars
<1>2. valid[b]
  BY <1>1, ChangeFrame
<1>3. locked'[b] = NoProc /\ \A c \in Buf : c # b => locked'[c] = locked[c]
  BY <1>1, Zenon DEF BcacheInv, BcacheTypes
<1>4. PICK k \in Block : /\ k = blockno[b]
                         /\ Contents[k] = data[b] /\ Holder[k] = p
  BY <1>1, <1>2, Seen DEF SeenInBuffer
<1>6. ASSUME NEW j \in Block, j # k
      PROVE  Contents'[j] = Contents[j] /\ Holder'[j] = Holder[j]
  BY <1>1, <1>3, <1>4, <1>6, Elsewhere, Zenon
<1> QED
  BY <1>2, <1>3, SeenNext, <1>6, SeenType, <1>1, <1>4 DEF Store!Next, Store!Drop

\* A holder's change is a Write.
LEMMA ChangeRefines ==
  ASSUME BcacheInv, BcacheInv', NEW p \in Proc, NEW b \in Buf,
         LogWrite(p, b) \/ Bwrite(p, b)
  PROVE  Store!Next
<1>1. /\ pc[p] = "run" /\ locked[b] = p /\ UNCHANGED <<blockno, valid, locked, disk>>
      /\ data' = data \/ data' = [data EXCEPT ![b] = writes']
  BY DEF LogWrite, Bwrite, idevars
<1>2. valid[b]
  BY <1>1, ChangeFrame, Zenon
<1>4. PICK k \in Block : /\ k = blockno[b]
                         /\ Contents[k] = data[b] /\ Holder[k] = p
  BY <1>1, <1>2, Seen DEF SeenInBuffer
<1>5. PICK v \in Value : v = data'[b]
  BY DEF BcacheInv, BcacheTypes
<1>7. ASSUME NEW j \in Block, j # k
      PROVE  Contents'[j] = Contents[j] /\ Holder'[j] = Holder[j]
  BY <1>1, <1>4, <1>7, Elsewhere, Zenon DEF BcacheInv, BcacheTypes
<1> QED
  BY <1>2, SeenNext, <1>7, SeenType, <1>1, <1>4, <1>5 DEF Store!Next, Store!Write

\* The end of a read by the controller is a stutter, that of a write a Store: what
\* reaches the disk is what the holder of the block has in its buffer.
LEMMA CompleteRefines ==
  ASSUME Faults = {FALSE}, BcacheInv, BcacheInv', Complete
  PROVE  [Store!Next]_<<Contents, disk, Holder>>
<1>1. /\ ctl.st = "busy" /\ UNCHANGED <<bufvars, locked>>
      /\ disk' = IF ctl.write THEN [disk EXCEPT ![ctl.block] = ctl.data] ELSE disk
  BY DEF Complete
<1>3. PICK b \in Buf, p \in Proc :
        /\ Waits(p, b) /\ ctl.block = blockno[b] /\ ctl.write = dirty[b]
        /\ ctl.data = IF dirty[b] THEN data[b] ELSE 0
        /\ valid[b] = dirty[b]
  BY <1>1, ActiveRequest DEF BcacheInv, QueueActive
<1>4. CASE ~dirty[b]
  BY <1>1, <1>3, <1>4, BookkeepingRefines
<1>5. CASE dirty[b]
  <2>1. PICK k \in Block : /\ k = blockno[b]
                           /\ Contents[k] = data[b] /\ Holder[k] = p
    <3>1. valid[b] /\ locked[b] = p
      BY <1>3, <1>5 DEF Waits
    <3> QED
      BY <3>1, Seen DEF SeenInBuffer
  <2>2. disk' = [disk EXCEPT ![k] = Contents[k]]
    BY <1>1, <1>3, <1>5, <2>1
  <2>3. UNCHANGED <<blockno, valid, data, locked>>
    BY <1>1 DEF bufvars
  <2>4. Contents'[k] = Contents[k] /\ Holder'[k] = Holder[k]
    BY <1>3, <1>5, <2>1, <2>3, SeenNext, Zenon DEF Waits
  <2>5. ASSUME NEW j \in Block, j # k
        PROVE  Contents'[j] = Contents[j] /\ Holder'[j] = Holder[j]
      BY <2>2, <2>5, <2>3, Elsewhere DEF BcacheInv, BcacheTypes, Driver
  <2> QED
    BY <2>4, <2>5, Unseen, <2>1, <2>2, Zenon DEF Store!Next, Store!Store
<1> QED
  BY <1>4, <1>5

\* The interrupt for a read makes the buffer valid in its holder's hands, a Take;
\* the one for a write is a stutter.
LEMMA IdeintrRefines ==
  ASSUME BcacheInv, BcacheInv', Stored, Ideintr
  PROVE  [Store!Next]_<<Contents, disk, Holder>>
<1>1. idequeue # <<>> /\ UNCHANGED <<blockno, locked, disk>> /\ ~ctl.err
  BY DEF Ideintr, Stored
<1>2. PICK b \in Buf, p \in Proc :
        /\ b = Head(idequeue) /\ Waits(p, b) /\ blockno[b] \in Block
        /\ valid[b] = dirty[b]
  BY <1>1, ActiveRequest
<1>4. /\ data' = data \/ (~dirty[b] /\ data' = [data EXCEPT ![b] = disk[ctl.block]])
      /\ dirty[b] => data' = data
      /\ valid' = [valid EXCEPT ![b] = TRUE]
  BY <1>1, <1>2, Zenon DEF Ideintr
<1>5. /\ valid'[b] /\ \A c \in Buf : c # b => valid'[c] = valid[c] /\ data'[c] = data[c]
  BY <1>4 DEF BcacheInv, BcacheTypes, Flags
<1>6. CASE dirty[b]
  <2>1. ASSUME NEW j \in Block PROVE Contents'[j] = Contents[j] /\ Holder'[j] = Holder[j]
    BY <1>1, <1>2, <1>4, <1>5, <1>6, Elsewhere, Zenon
  <2> QED
    BY <1>1, <2>1, Unseen
<1>7. CASE ~dirty[b]
  <2>1. PICK k \in Block : k = blockno[b]
    BY <1>2
  <2>2. Contents[k] = disk[k] /\ Holder[k] = NoProc
      BY <1>2, <1>7, <2>1, Bounds, Seen DEF BcacheInv, OneBuffer, SeenInBuffer
  <2>4. ASSUME NEW j \in Block, j # k
        PROVE  Contents'[j] = Contents[j] /\ Holder'[j] = Holder[j]
    BY <1>1, <1>5, <2>1, <2>4, Elsewhere
  <2> QED
    BY IdeintrStored, <1>2, <1>5, <2>1, SeenNext, <2>4, SeenType, <1>1, <2>2
      DEF Store!Next, Store!Take, Waits
<1> QED
  BY <1>6, <1>7

\* The buffer cache over a disk that carries out its commands implements
\* BlockStore: one holder at a time, who sees the last write of the block, and
\* only a holder's contents reach the disk.
THEOREM StoreCorrect ==
  ASSUME Faults = {FALSE}
  PROVE  Spec => ImplementsStore
<1>1. Init => Store!Init
    BY InitInv, Seen, SeenType
    DEF Init, BcacheInv, BcacheTypes, Driver, SeenInBuffer, Store!Init
<1>2. BcacheInv /\ BcacheInv' /\ Stored /\ [Next]_vars =>
        [Store!Next]_<<Contents, disk, Holder>>
    BY BookkeepingRefines, RecycleRefines, AcquireRefines, ReleaseRefines, ChangeRefines,
       CompleteRefines, IdeintrRefines, Zenon
    DEF BgetCached, BgetPanic, idevars, KernelStep, Iderw, IderwReturn, Brelse, vars,
       Next, Bget, Release
<1> QED
  BY <1>1, <1>2, BcacheCorrect, StoredCorrect, PTL
     DEF Spec, ImplementsStore, Store!Spec, Store!vars
=============================================================================
