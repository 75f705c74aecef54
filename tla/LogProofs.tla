----------------------------- MODULE LogProofs -----------------------------
(***************************************************************************)
(* The redo log is crash safe, for every number of processes and blocks,   *)
(* every size of the log and any number of crashes: proofs about module    *)
(* Log.                                                                    *)
(***************************************************************************)
EXTENDS Log, FiniteSetTheorems, SequenceTheorems, TLAPS

Operation == [id : Value, wrote : SUBSET Block, logging : SUBSET Block]

LogTypes ==
  /\ home \in [Block -> Value] /\ cache \in [Block -> Value]
  /\ logd \in [1..(LogBlocks - 1) -> Value]
  /\ hdr \in Seq(Block) /\ lh \in Seq(Block)
  /\ outstanding \in Nat /\ committing \in BOOLEAN
  /\ pc \in [Proc -> {"user", "begin", "asleep", "op", "commit"}]
  /\ op \in [Proc -> Operation]
  /\ step \in {"none", "write_log", "install", "done", "read_head", "redo"}
  /\ tail \in Nat \ {0}
  /\ ops \in Value

Active == {p \in Proc : pc[p] = "op"}

\* A block has one entry in a header: log absorption.
OneEntry(h) == \A i, j \in DOMAIN h : h[i] = h[j] => i = j

\* log.outstanding counts the operations; log.committing is one process's, and a
\* commit or a recovery runs while there is none.
Roles ==
  /\ outstanding = Cardinality(Active)
  /\ step # "none" => Active = {}
  /\ committing <=> step \in {"write_log", "install", "done"}
  /\ \A p \in Proc : pc[p] = "commit" => committing
  /\ \A p, q \in Proc : pc[p] = "commit" /\ pc[q] = "commit" => p = q
  /\ ~Up => \A p \in Proc : pc[p] = "user"

\* Entries of the log that operations have reserved in begin_op and not used.
Reserved == {x \in Active \X (1..MAXOPBLOCKS) : Cardinality(op[x[1]].wrote) < x[2]}

\* Entries that operations of OpBlocks blocks can fill at most.
Bound == LOGSIZE - (MAXOPBLOCKS - OpBlocks)

\* The reservations cover what is still to be logged, whatever the unlocked test of
\* log_write saw: an operation between the test and the append has its entry.
Capacity ==
  /\ Len(lh) + Cardinality(Reserved) <= LOGSIZE
  /\ Len(lh) <= Bound /\ Len(hdr) <= Bound

\* What an operation has logged, and what log_write is about to record for it.
Operations ==
  \A p \in Proc :
    /\ pc[p] # "op" => op[p].wrote = {} /\ op[p].logging = {}
    /\ op[p].wrote \subseteq Range(lh)
    /\ \A b \in op[p].logging :
         op[p].logging = {b} /\ Cardinality(op[p].wrote \cup {b}) <= OpBlocks

\* The blocks before tail are in the log, or are installed.
Logged == \A i \in 1..Len(lh) : i < tail => logd[i] = cache[lh[i]]
Copied == \A i \in 1..Len(lh) : i < tail => home[lh[i]] = logd[i]

\* A block that is neither in the transaction nor about to be is the same in memory
\* and on disk.
CleanOutside ==
  \A b \in Block : \/ b \in Range(lh) \/ \E p \in Proc : b \in op[p].logging
                   \/ cache[b] = home[b]

\* What memory, log and home blocks hold at each position of commit and recovery.
Contents ==
  /\ step \in {"none", "write_log"} => hdr = <<>> /\ CleanOutside
  /\ step = "none" /\ outstanding = 0 => lh = <<>>
  /\ step = "write_log" => Logged
  /\ step = "install" => /\ hdr = lh /\ CleanOutside /\ Copied
                         /\ \A i \in 1..Len(lh) : logd[i] = cache[lh[i]]
  /\ step = "done" => hdr = <<>> /\ lh = <<>> /\ cache = home
  /\ step = "read_head" => lh = <<>> /\ cache = home
  /\ step = "redo" => hdr = lh /\ cache = home /\ Copied

LogInv == /\ LogTypes /\ OneEntry(lh) /\ OneEntry(hdr)
          /\ Roles /\ Operations /\ Capacity /\ Contents

-----------------------------------------------------------------------------
(***************************************************************************)
(* Sequences of block numbers and what they overlay                        *)
(***************************************************************************)

\* The elements of a sequence, by position.
LEMMA SeqFacts ==
  ASSUME NEW n \in Seq(Block)
  PROVE  /\ Len(n) \in Nat /\ DOMAIN n = 1..Len(n)
         /\ \A i \in 1..Len(n) : n[i] \in Block /\ n[i] \in Range(n)
         /\ \A b \in Range(n) : \E i \in 1..Len(n) : n[i] = b
  BY DEF Range

\* The empty sequence has no element.
LEMMA EmptyFacts ==
  /\ <<>> \in Seq(Block) /\ Len(<<>>) = 0 /\ Range(<<>>) = {} /\ OneEntry(<<>>)
  BY DEF Range, OneEntry

\* Recovery, and a commit once its header is written, leave the contents f when
\* f has the logged data at the blocks of the header and is home elsewhere.
LEMMA OverlayIs ==
  ASSUME NEW h, NEW d, NEW n \in Seq(Block), OneEntry(n), NEW f,
         f = [b \in Block |-> f[b]],
         \A b \in Block : b \notin Range(n) => f[b] = h[b],
         \A i \in 1..Len(n) : f[n[i]] = d[i]
  PROVE  Overlay(h, d, n) = f
<1> SUFFICES ASSUME NEW b \in Block
             PROVE  Overlay(h, d, n)[b] = f[b]
  BY Zenon DEF Overlay
<1> DEFINE at == {i \in DOMAIN n : n[i] = b}
<1>1. Overlay(h, d, n)[b]
        = IF at = {} THEN h[b] ELSE d[CHOOSE i \in at : \A j \in at : j <= i]
  BY DEF Overlay
<1>2. CASE at = {}
  BY <1>1, <1>2, SeqFacts
<1>3. CASE at # {}
    BY <1>3, SeqFacts, <1>1 DEF OneEntry
<1> QED
  BY <1>2, <1>3

\* An empty header overlays nothing.
LEMMA OverlayEmpty ==
  ASSUME NEW h \in [Block -> Value], NEW d
  PROVE  Overlay(h, d, <<>>) = h
  BY DEF Overlay

\* The overlay in one place: the entry of the block, or its home.
LEMMA OverlayAt ==
  ASSUME NEW h, NEW d, NEW n \in Seq(Block), OneEntry(n)
  PROVE  /\ \A b \in Block : b \notin Range(n) => Overlay(h, d, n)[b] = h[b]
         /\ \A i \in 1..Len(n) : Overlay(h, d, n)[n[i]] = d[i]
<1> DEFINE f == [b \in Block |-> IF b \in Range(n)
                                   THEN d[CHOOSE i \in 1..Len(n) : n[i] = b]
                                   ELSE h[b]]
<1>1. \A i \in 1..Len(n) : f[n[i]] = d[i]
    BY SeqFacts, Zenon DEF OneEntry
<1>2. \A b \in Block : b \notin Range(n) => f[b] = h[b]
  OBVIOUS
<1>3. Overlay(h, d, n) = f
  <2> HIDE DEF f
  <2>1. f = [b \in Block |-> f[b]]
    BY DEF f
  <2> QED
    BY <1>1, <1>2, <2>1, OverlayIs
<1> QED
  BY <1>1, <1>2, <1>3

-----------------------------------------------------------------------------
(***************************************************************************)
(* Each action keeps the invariant                                         *)
(***************************************************************************)

\* The processes inside an operation are finitely many; a count of them is not 0
\* while there is one.
LEMMA ActiveFacts ==
  ASSUME LogInv
  PROVE  /\ IsFiniteSet(Active)
         /\ \A p \in Proc : pc[p] = "op" => outstanding > 0 /\ step = "none"
         /\ outstanding = 0 => Active = {}
<1>1. IsFiniteSet(Active)
  BY FS_Subset, LogAssumption DEF Active
<1>2. outstanding = 0 <=> Active = {}
  BY <1>1, FS_EmptySet DEF LogInv, Roles
<1>3. ASSUME NEW p \in Proc, pc[p] = "op"
      PROVE  outstanding > 0 /\ step = "none"
    BY <1>3, <1>2 DEF Active, LogInv, LogTypes, Roles
<1> QED
  BY <1>1, <1>2, <1>3

\* The bound fits the log on disk and the header.
LEMMA BoundFits ==
  /\ Bound \in Nat /\ Bound <= LogBlocks - 1 /\ Bound <= LOGSIZE
  /\ LOGSIZE \in Nat /\ MAXOPBLOCKS \in Nat /\ OpBlocks \in Nat
  /\ OpBlocks <= MAXOPBLOCKS /\ Bound = LOGSIZE - (MAXOPBLOCKS - OpBlocks)
  BY LogAssumption, RoomAssumption DEF Bound

\* Reservations are finitely many, MAXOPBLOCKS for each operation at most.
LEMMA ReservedFacts ==
  ASSUME IsFiniteSet(Active)
  PROVE  /\ IsFiniteSet(Reserved) /\ Cardinality(Reserved) \in Nat
         /\ Cardinality(Reserved) <= Cardinality(Active) * MAXOPBLOCKS
<1>1. IsFiniteSet(1..MAXOPBLOCKS) /\ Cardinality(1..MAXOPBLOCKS) = MAXOPBLOCKS
  BY BoundFits, LogAssumption, FS_Interval
<1>2. /\ IsFiniteSet(Active \X (1..MAXOPBLOCKS))
      /\ Cardinality(Active \X (1..MAXOPBLOCKS)) = Cardinality(Active) * MAXOPBLOCKS
  BY <1>1, FS_Product, Zenon
<1>3. Reserved \in SUBSET (Active \X (1..MAXOPBLOCKS))
  BY DEF Reserved
<1> QED
  BY <1>2, <1>3, FS_Subset, FS_CardinalityType

\* A step that takes no new reservation and appends nothing keeps the capacity.
LEMMA KeepCapacity ==
  ASSUME Capacity, IsFiniteSet(Active), Reserved' \subseteq Reserved,
         lh' = lh, hdr' = hdr, lh \in Seq(Block)
  PROVE  Capacity'
<1>1. IsFiniteSet(Reserved) /\ Cardinality(Reserved) \in Nat
  BY ReservedFacts
<1>2. Cardinality(Reserved') <= Cardinality(Reserved) /\ Cardinality(Reserved') \in Nat
  BY <1>1, FS_Subset, FS_CardinalityType
<1> QED
  BY <1>1, <1>2, BoundFits, SeqFacts DEF Capacity

\* Without an operation there is no reservation and nothing about to be logged.
LEMMA Idle ==
  ASSUME LogTypes, Operations, Active = {}
  PROVE  /\ \A p \in Proc : op[p].wrote = {} /\ op[p].logging = {}
         /\ Reserved = {} /\ Cardinality(Reserved) = 0
         /\ CleanOutside => \A b \in Block : b \notin Range(lh) => cache[b] = home[b]
<1>1. Reserved = {}
  BY DEF Reserved
<1>2. \A p \in Proc : op[p].wrote = {} /\ op[p].logging = {}
  BY DEF Active, Operations
<1> QED
  BY <1>1, <1>2, FS_EmptySet DEF CleanOutside

\* log_write's absorption leaves one entry per block, the new block's included.
LEMMA AbsorbFacts ==
  ASSUME NEW b \in Block, lh \in Seq(Block), OneEntry(lh)
  PROVE  /\ Absorb(b) \in Seq(Block) /\ OneEntry(Absorb(b))
         /\ b \in Range(Absorb(b)) /\ Range(lh) \subseteq Range(Absorb(b))
         /\ Len(Absorb(b)) = IF b \in Range(lh) THEN Len(lh) ELSE Len(lh) + 1
         /\ Range(Absorb(b)) = Range(lh) \cup {b}
<1>1. CASE b \in Range(lh)
  BY <1>1 DEF Absorb
<1>2. CASE b \notin Range(lh)
  <2> DEFINE m == Append(lh, b)
  <2>1. Absorb(b) = m
    BY <1>2 DEF Absorb
  <2>2. /\ m \in Seq(Block) /\ Len(m) = Len(lh) + 1
        /\ \A i \in 1..Len(lh) : m[i] = lh[i]
        /\ m[Len(lh) + 1] = b
    BY AppendProperties
  <2> HIDE DEF m
  <2>3. /\ DOMAIN m = 1..(Len(lh) + 1) /\ DOMAIN lh = 1..Len(lh)
        /\ Len(lh) \in Nat
        /\ \A i \in 1..Len(lh) : lh[i] \in Range(lh)
    BY <2>2, SeqFacts
  <2>4. OneEntry(m)
      BY <2>3, <2>2, <1>2 DEF OneEntry
  <2>5. b \in Range(m) /\ Range(lh) \subseteq Range(m)
    <3>1. b \in Range(m)
      BY <2>2, <2>3 DEF Range
    <3>2. ASSUME NEW c \in Range(lh) PROVE c \in Range(m)
        BY SeqFacts, <2>2, <2>3 DEF Range
    <3> QED
      BY <3>1, <3>2
  <2>6. Range(m) \subseteq Range(lh) \cup {b}
    BY <2>2, <2>3 DEF Range
  <2> QED
    BY <1>2, <2>1, <2>2, <2>3, <2>4, <2>5, <2>6
<1> QED
  BY <1>1, <1>2

\* A process enters begin_op.
LEMMA CallInv ==
  ASSUME LogInv, NEW p \in Proc, Call(p)
  PROVE  LogInv'
<1> USE DEF Call, disk
<1>1. LogTypes'
  <2>0. ops + 1 \in Value
    BY LogAssumption DEF LogInv, LogTypes, Value
  <2>1. op' \in [Proc -> Operation]
    BY <2>0, ZenonT(30) DEF LogInv, LogTypes, Operation
  <2> QED
    BY <2>0, <2>1, Zenon DEF LogInv, LogTypes
<1>2. Active' = Active
  BY DEF LogInv, LogTypes, Active
<1>3. Roles'
  BY <1>2 DEF LogInv, LogTypes, Roles, Up
<1>4. \A q \in Proc : op'[q].wrote = op[q].wrote /\ op'[q].logging = op[q].logging
  BY DEF LogInv, LogTypes, Operation
<1>5. Operations'
  BY <1>4, Zenon DEF LogInv, LogTypes, Operations
<1>6. Reserved' = Reserved
  BY <1>2, <1>4 DEF Reserved, Active
<1>7. Capacity'
  BY <1>6, ActiveFacts, KeepCapacity DEF LogInv, LogTypes
<1>8. CleanOutside => CleanOutside'
  BY <1>4 DEF CleanOutside
<1> QED
  BY <1>1, <1>3, <1>5, <1>7, <1>8 DEF LogInv, OneEntry, Contents, Logged, Copied

\* begin_op's loop: a process is admitted or sleeps.
LEMMA BeginOpInv ==
  ASSUME LogInv, NEW p \in Proc, BeginOp(p)
  PROVE  LogInv'
<1> USE DEF disk
<1>1. LogTypes'
  BY DEF BeginOp, LogInv, LogTypes
<1>2. OneEntry(lh)' /\ OneEntry(hdr)'
  BY DEF BeginOp, LogInv, OneEntry
<1>3. Up /\ step' = step /\ committing' = committing /\ pc[p] # "op" /\ pc[p] # "commit"
  BY DEF BeginOp, LogInv, Roles
<1>4. CASE MustWait
  <2>1. /\ pc' = [pc EXCEPT ![p] = "asleep"] /\ outstanding' = outstanding
    BY <1>4 DEF BeginOp
  <2>2. Active' = Active
    BY <1>3, <2>1 DEF LogInv, LogTypes, Active
  <2>3. Roles'
    BY <1>3, <2>1, <2>2 DEF LogInv, LogTypes, Roles, Up
  <2>4. Operations'
    BY <1>3, <2>1, Zenon DEF BeginOp, LogInv, LogTypes, Operations
  <2>5. Reserved' = Reserved
    BY <2>2 DEF BeginOp, Reserved
  <2>6. Capacity'
    BY <2>5, ActiveFacts, KeepCapacity DEF BeginOp, LogInv, LogTypes
  <2> QED
    BY <2>1, <1>1, <1>2, <2>3, <2>4, <2>6
      DEF LogInv, BeginOp, Contents, Logged, Copied, CleanOutside
<1>5. CASE ~MustWait
  <2>1. /\ pc' = [pc EXCEPT ![p] = "op"] /\ outstanding' = outstanding + 1
        /\ step = "none"
    BY <1>3, <1>5 DEF BeginOp, MustWait, LogInv, LogTypes, Roles, Up
  <2>2. Active' = Active \cup {p} /\ p \notin Active
    BY <1>3, <2>1 DEF LogInv, LogTypes, Active
  <2>3. outstanding' = Cardinality(Active')
    BY <2>1, <2>2, ActiveFacts, FS_AddElement DEF LogInv, Roles
  <2>4. Operations'
    BY <2>1, Zenon DEF BeginOp, LogInv, LogTypes, Operations
  <2>5. Capacity'
    <3>1. IsFiniteSet(Active')
      BY <2>2, ActiveFacts, FS_AddElement
    <3>2. IsFiniteSet(Active') =>
            Cardinality(Reserved') <= Cardinality(Active') * MAXOPBLOCKS
      <4>1. (IsFiniteSet(Active) =>
              Cardinality(Reserved) <= Cardinality(Active) * MAXOPBLOCKS)'
        BY ReservedFacts, PTL
      <4> QED
        BY <4>1
    <3>3. Cardinality(Reserved') \in Nat
      <4>1. (IsFiniteSet(Active) => Cardinality(Reserved) \in Nat)'
        BY ReservedFacts, PTL
      <4> QED
        BY <3>1, <4>1
    <3>4. Len(lh) + (outstanding + 1) * MAXOPBLOCKS <= LOGSIZE
      BY <1>5, BoundFits, SeqFacts DEF MustWait, LogInv, LogTypes
    <3>5. Cardinality(Active') * MAXOPBLOCKS = (outstanding + 1) * MAXOPBLOCKS
      BY <2>1, <2>3
    <3>6. (outstanding + 1) * MAXOPBLOCKS \in Nat /\ Len(lh) \in Nat
      BY BoundFits, SeqFacts DEF LogInv, LogTypes
    <3> HIDE DEF LogInv
    <3>7. Len(lh) + Cardinality(Reserved') <= LOGSIZE
      <4> DEFINE x == (outstanding + 1) * MAXOPBLOCKS
      <4>1. x \in Nat /\ Len(lh) + x <= LOGSIZE /\ Cardinality(Reserved') <= x
        BY <3>1, <3>2, <3>4, <3>5, <3>6
      <4> HIDE DEF x
      <4> QED
        BY <3>3, <3>6, <4>1, BoundFits
    <3> QED
      BY <3>7 DEF BeginOp, Capacity, LogInv
  <2> QED
    BY <1>3, <2>1, <2>3, <1>1, <1>2, <2>4, <2>5
      DEF LogInv, LogTypes, Roles, Up, BeginOp, Contents, Logged, Copied, CleanOutside
<1> QED
  BY <1>4, <1>5

\* log_write before it has the lock: the block may differ from the disk from now on.
LEMMA LogTestInv ==
  ASSUME LogInv, NEW p \in Proc, NEW b \in Block, LogTest(p, b)
  PROVE  LogInv'
<1> USE DEF disk, LogTest, MayLog
<1>1. step = "none" /\ outstanding > 0
  BY ActiveFacts
<1>2. /\ \A q \in Proc : op'[q].wrote = op[q].wrote
      /\ \A q \in Proc \ {p} : op'[q].logging = op[q].logging
      /\ op'[p].logging = {b}
  BY DEF LogInv, LogTypes, Operation
<1>3. LogTypes'
  <2>1. op' \in [Proc -> Operation]
    BY ZenonT(30) DEF LogInv, LogTypes, Operation
  <2>2. cache' \in [Block -> Value]
    BY DEF LogInv, LogTypes, Operation
  <2> QED
    BY <2>1, <2>2, Zenon DEF LogInv, LogTypes
<1>4. Operations'
  BY <1>2, Zenon DEF LogInv, Operations
<1>5. Active' = Active
  BY DEF Active
<1>6. Reserved' = Reserved
  BY <1>2, <1>5 DEF Reserved, Active
<1>7. Capacity'
  BY <1>6, ActiveFacts, KeepCapacity DEF LogInv, LogTypes
<1>8. CleanOutside'
  BY <1>1, <1>2 DEF LogInv, LogTypes, Contents, CleanOutside
<1>9. Contents'
  BY <1>1, <1>8 DEF LogInv, LogTypes, Contents
<1> QED
  BY <1>3, <1>4, <1>5, <1>7, <1>9 DEF LogInv, Roles, Up

\* log_write with the lock: the entry that the block takes was reserved.
LEMMA AppendCapacity ==
  ASSUME LogInv, NEW p \in Proc, NEW b \in op[p].logging, pc[p] = "op", b \in Block,
         lh' = Absorb(b), UNCHANGED <<hdr, pc>>,
         op' = [op EXCEPT ![p].wrote = @ \cup {b}, ![p].logging = {}]
  PROVE  Capacity'
<1> DEFINE c == Cardinality(op[p].wrote)
           n == Cardinality(op[p].wrote \cup {b})
<1>1. IsFiniteSet(Active) /\ Active' = Active /\ p \in Active
  BY ActiveFacts DEF Active
<1>2. IsFiniteSet(Reserved) /\ Cardinality(Reserved) \in Nat
  BY <1>1, ReservedFacts
<1>3. IsFiniteSet(op[p].wrote) /\ c \in Nat
  <2>1. op[p].wrote \in SUBSET Block
    BY DEF LogInv, LogTypes, Operation
  <2> QED
    BY <2>1, LogAssumption, FS_Subset, FS_CardinalityType
<1>4. /\ n \in Nat /\ n <= OpBlocks /\ n = IF b \in op[p].wrote THEN c ELSE c + 1
  <2>1. n <= OpBlocks
    BY Zenon DEF LogInv, Operations
  <2>2. n = IF b \in op[p].wrote THEN c ELSE c + 1
    BY <1>3, FS_AddElement, Zenon
  <2> QED
    BY <1>3, <2>1, <2>2
<1>5. /\ op'[p].wrote = op[p].wrote \cup {b}
      /\ \A q \in Proc \ {p} : op'[q].wrote = op[q].wrote
  BY DEF LogInv, LogTypes, Operation
<1>6. Reserved' = {x \in Reserved : x[1] = p => n < x[2]}
  <2>1. c <= n
    BY <1>3, <1>4
  <2>2. ASSUME NEW x \in Active \X (1..MAXOPBLOCKS)
        PROVE  /\ x[1] # p => Cardinality(op'[x[1]].wrote) = Cardinality(op[x[1]].wrote)
               /\ x[1] = p => /\ Cardinality(op'[x[1]].wrote) = n
                              /\ Cardinality(op[x[1]].wrote) = c
                              /\ n < x[2] => c < x[2]
    <3>1. x[1] \in Proc /\ x[2] \in Nat
      BY BoundFits DEF Active
    <3> HIDE DEF n, c
    <3>2. n < x[2] => c < x[2]
      BY <3>1, <1>3, <1>4, <2>1
    <3> QED
      BY <3>1, <3>2, <1>5, Zenon DEF n, c
  <2>3. Reserved' = {x \in Active \X (1..MAXOPBLOCKS) : Cardinality(op'[x[1]].wrote) < x[2]}
    BY <1>1 DEF Reserved
  <2> HIDE DEF n, c
  <2>4. ASSUME NEW x \in Active \X (1..MAXOPBLOCKS)
        PROVE  Cardinality(op'[x[1]].wrote) < x[2]
                 <=> Cardinality(op[x[1]].wrote) < x[2] /\ (x[1] = p => n < x[2])
    BY <2>2, Zenon
  <2>5. Reserved = {x \in Active \X (1..MAXOPBLOCKS) : Cardinality(op[x[1]].wrote) < x[2]}
    BY DEF Reserved
  <2> QED
    BY <2>3, <2>4, <2>5, Zenon
<1> HIDE DEF n, c
<1>7. Len(lh) \in Nat /\ Len(lh') = IF b \in Range(lh) THEN Len(lh) ELSE Len(lh) + 1
  BY AbsorbFacts, SeqFacts, Zenon DEF LogInv, LogTypes
<1>8. Cardinality(Reserved') \in Nat /\ Cardinality(Reserved') <= Cardinality(Reserved)
      /\ IsFiniteSet(Reserved')
  BY <1>2, <1>6, FS_Subset, FS_CardinalityType
<1>9. Len(lh') + Cardinality(Reserved') <= LOGSIZE
  <2>1. CASE b \in Range(lh)
    BY <1>2, <1>7, <1>8, <2>1, BoundFits DEF LogInv, Capacity
  <2>2. CASE b \notin Range(lh)
    <3>1. n = c + 1
      BY <1>4, <2>2 DEF LogInv, Operations
    <3>2. <<p, n>> \in Reserved
      BY <1>1, <1>3, <1>4, <3>1, BoundFits DEF Reserved, c
    <3>3. Reserved' \in SUBSET (Reserved \ {<<p, n>>})
      BY <1>4, <1>6
    <3>4. /\ IsFiniteSet(Reserved \ {<<p, n>>})
          /\ Cardinality(Reserved \ {<<p, n>>}) = Cardinality(Reserved) - 1
      BY <1>2, <3>2, FS_RemoveElement
    <3>5. Cardinality(Reserved') <= Cardinality(Reserved) - 1
      BY <3>3, <3>4, FS_Subset
    <3> QED
      BY <1>2, <1>7, <1>8, <2>2, <3>5, BoundFits DEF LogInv, Capacity
  <2> QED
    BY <2>1, <2>2
<1>10. Cardinality(Reserved') >= MAXOPBLOCKS - OpBlocks
  <2> DEFINE R == (OpBlocks + 1)..MAXOPBLOCKS
  <2>1. IsFiniteSet(R) /\ Cardinality(R) = MAXOPBLOCKS - OpBlocks
    <3>1. OpBlocks + 1 \in Int /\ MAXOPBLOCKS \in Int
      BY BoundFits
    <3>2. /\ IsFiniteSet(R)
          /\ Cardinality(R) = IF OpBlocks + 1 > MAXOPBLOCKS THEN 0
                                ELSE MAXOPBLOCKS - (OpBlocks + 1) + 1
      BY <3>1, FS_Interval
    <3> HIDE DEF R
    <3> QED
      BY <3>2, BoundFits
  <2>2. Cardinality({p} \X R) = MAXOPBLOCKS - OpBlocks
    <3> HIDE DEF R
    <3>1. Cardinality({p} \X R) = Cardinality({p}) * Cardinality(R)
      BY <2>1, FS_Product, FS_Singleton, Zenon
    <3>2. Cardinality({p}) = 1
      BY FS_Singleton, Zenon
    <3> QED
      BY <2>1, <3>1, <3>2, BoundFits
  <2>3. ({p} \X R) \in SUBSET Reserved'
    <3> SUFFICES ASSUME NEW i \in R PROVE <<p, i>> \in Reserved'
      OBVIOUS
    <3>1. i \in 1..MAXOPBLOCKS /\ n < i
      BY <1>4, BoundFits
    <3>2. c < i
      BY <1>3, <1>4, <3>1
    <3> QED
      BY <1>1, <1>6, <3>1, <3>2, Zenon DEF Reserved, c
  <2> HIDE DEF R
  <2> QED
    BY <1>8, <2>2, <2>3, FS_Subset
<1> QED
  BY <1>7, <1>8, <1>9, <1>10, BoundFits DEF LogInv, Capacity

\* log_write with the lock: the block joins the transaction.
LEMMA LogAppendInv ==
  ASSUME LogInv, NEW p \in Proc, LogAppend(p)
  PROVE  LogInv'
<1> USE DEF disk
<1>1. PICK b \in op[p].logging :
        lh' = Absorb(b) /\ op' = [op EXCEPT ![p].wrote = @ \cup {b}, ![p].logging = {}]
  BY Zenon DEF LogAppend
<1>2. /\ pc[p] = "op" /\ step = "none" /\ outstanding > 0 /\ b \in Block
      /\ UNCHANGED <<home, logd, hdr, cache, outstanding, committing, pc, step, tail, ops>>
  BY ActiveFacts DEF LogAppend, LogInv, LogTypes, Operation
<1>3. /\ lh' \in Seq(Block) /\ OneEntry(lh') /\ Range(lh') = Range(lh) \cup {b}
  BY <1>1, <1>2, AbsorbFacts DEF LogInv, LogTypes
<1>4. /\ op'[p].wrote = op[p].wrote \cup {b} /\ op'[p].logging = {}
      /\ op[p].logging = {b} /\ op' \in [Proc -> Operation]
      /\ \A q \in Proc \ {p} : op'[q] = op[q]
  BY <1>1, <1>2 DEF LogInv, LogTypes, Operation, Operations
<1>5. LogTypes'
  BY <1>2, <1>3, <1>4, Zenon DEF LogInv, LogTypes
<1>6. Operations'
  BY <1>2, <1>3, <1>4, ZenonT(30) DEF LogInv, Operations
<1>7. Capacity'
  BY <1>1, <1>2, AppendCapacity, Zenon
<1>8. CleanOutside'
  BY <1>2, <1>3, <1>4 DEF LogInv, Contents, CleanOutside
<1>9. Contents'
  BY <1>2, <1>8 DEF LogInv, LogTypes, Contents
<1> QED
  BY <1>2, <1>3, <1>5, <1>6, <1>7, <1>9 DEF LogInv, Roles, Up, Active

\* end_op: the last operation out starts the commit.
LEMMA EndOpInv ==
  ASSUME LogInv, NEW p \in Proc, EndOp(p)
  PROVE  LogInv'
<1> USE DEF disk
<1>1. step = "none" /\ outstanding > 0 /\ ~committing
  BY ActiveFacts DEF EndOp, LogInv, Roles
<1>2. op' \in [Proc -> Operation]
  BY LogAssumption DEF EndOp, NoOp, LogInv, LogTypes, Value, Operation
<1>3. LogTypes'
  <2>2. outstanding' \in Nat
    BY <1>1 DEF EndOp, LogInv, LogTypes
  <2>3. step' \in {"none", "write_log", "done"} /\ tail' \in Nat \ {0}
        /\ committing' \in BOOLEAN
    <3>1. CASE LastOut
      BY <3>1 DEF EndOp
    <3>2. CASE ~LastOut
      BY <1>1, <3>2 DEF EndOp, LogInv, LogTypes
    <3> QED
      BY <3>1, <3>2
  <2> QED
    BY <1>2, <2>2, <2>3, Zenon DEF EndOp, LogInv, LogTypes, Wakeup
<1>4. OneEntry(lh)' /\ OneEntry(hdr)'
  BY DEF EndOp, LogInv, OneEntry
<1>5. Active' = Active \ {p} /\ p \in Active
  BY Zenon DEF EndOp, LogInv, LogTypes, Wakeup, Active
<1>6. outstanding' = Cardinality(Active')
  BY <1>5, ActiveFacts, FS_RemoveElement, Zenon DEF EndOp, LogInv, Roles
<1>61. /\ \A q \in Proc \ {p} : op'[q] = op[q] /\ (pc'[q] = "op" <=> pc[q] = "op")
       /\ op'[p].wrote = {} /\ op'[p].logging = {} /\ op[p].logging = {}
  BY Zenon DEF EndOp, NoOp, LogInv, LogTypes, Wakeup
<1>62. Operations'
  BY <1>61, ZenonT(30) DEF EndOp, LogInv, Operations
<1>63. Reserved' \subseteq Reserved
  BY <1>5, <1>61 DEF Reserved, Active
<1>64. Capacity'
  BY <1>63, ActiveFacts, KeepCapacity DEF EndOp, LogInv, LogTypes
<1>65. CleanOutside'
  BY <1>1, <1>61 DEF EndOp, LogInv, Contents, CleanOutside
<1>7. CASE LastOut
  <2>1. /\ committing' = TRUE /\ pc' = [pc EXCEPT ![p] = "commit"]
        /\ step' = IF lh = <<>> THEN "done" ELSE "write_log"
        /\ tail' = 1 /\ outstanding' = 0
    BY <1>7 DEF EndOp, LastOut
  <2>2. Active' = {}
    BY <1>5, <1>6, <2>1, ActiveFacts, FS_RemoveElement, FS_EmptySet, ZenonT(30)
  <2>3. Roles'
    BY <1>1, <1>6, <2>1, <2>2 DEF LogInv, LogTypes, Roles, Up
  <2>4. hdr = <<>> /\ UNCHANGED <<home, hdr, logd, cache, lh>>
    BY <1>1 DEF EndOp, LogInv, Contents
  <2>5. CASE lh = <<>>
    <3>1. cache' = home'
      <4>1. \A q \in Proc : op'[q].logging = {}
        BY <1>62, <2>2 DEF Operations, Active
      <4> QED
        BY <1>65, <2>4, <2>5, <4>1, EmptyFacts DEF CleanOutside, LogInv, LogTypes
    <3> QED
      BY <2>4, <2>5, <1>3, <1>4, <2>1, <2>3, <1>62, <1>64, <3>1 DEF LogInv, Contents
  <2>6. CASE lh # <<>>
      BY <2>1, <2>4, <1>3, <1>4, <2>3, <2>6, <1>62, <1>64, <1>65 DEF Logged, LogInv, Contents
  <2> QED
    BY <2>5, <2>6
<1>8. CASE ~LastOut
  <2>1. /\ committing' = committing /\ step' = step /\ tail' = tail
        /\ pc' = [Wakeup EXCEPT ![p] = "user"] /\ outstanding' # 0
    BY <1>1, <1>8 DEF EndOp, LastOut, LogInv, LogTypes
  <2> QED
    BY <1>1, <1>6, <2>1, <1>3, <1>4, <1>62, <1>64, <1>65
      DEF LogInv, LogTypes, Roles, Up, Wakeup, EndOp, Contents
<1> QED
  BY <1>7, <1>8

\* The blocks of the transaction are inside the log, none is the block behind it.
LEMMA InsideLog ==
  ASSUME LogInv
  PROVE  /\ \A i \in 1..Len(lh) : InLog(i) /\ i \in 1..LOGSIZE /\ OnDisk[i] = logd[i]
         /\ \A i \in 1..Len(hdr) : InLog(i) /\ i \in 1..LOGSIZE /\ OnDisk[i] = logd[i]
         /\ tail <= Len(lh) => /\ tail \in 1..Len(lh) /\ tail \in 1..(LogBlocks - 1)
                              /\ InLog(tail) /\ LogData(tail) = logd[tail]
  BY BoundFits, SeqFacts, LogAssumption DEF LogInv, LogTypes, Capacity, InLog, LogData, OnDisk

\* A step of commit or recovery that keeps the headers keeps the reservations.
LEMMA KeepOperations ==
  ASSUME LogInv, UNCHANGED <<pc, op, lh, hdr>>
  PROVE  Operations' /\ Capacity' /\ Active' = Active
<1>1. Active' = Active
  BY DEF Active
<1>2. Reserved' = Reserved
  BY <1>1 DEF Reserved
<1>3. Capacity'
  BY <1>2 DEF Capacity, LogInv
<1> QED
  BY <1>1, <1>3 DEF LogInv, Operations

\* commit(): one more block of the transaction is in the log.
LEMMA WriteLogInv ==
  ASSUME LogInv, WriteLog
  PROVE  LogInv' /\ home' = home /\ cache' = cache
<1>1. /\ logd' = [logd EXCEPT ![tail] = cache[lh[tail]]] /\ UNCHANGED <<home, cache>>
      /\ tail \in 1..Len(lh) /\ tail \in 1..(LogBlocks - 1)
  BY InsideLog DEF WriteLog
<1>2. Operations' /\ Capacity' /\ Active' = Active
  BY KeepOperations DEF WriteLog
<1> QED
  BY <1>1, <1>2, SeqFacts, InsideLog
    DEF WriteLog, LogInv, LogTypes, Roles, Up, OneEntry, Contents, Logged, CleanOutside

\* commit(): the header makes the transaction durable.
LEMMA WriteHeadInv ==
  ASSUME LogInv, WriteHead
  PROVE  LogInv'
<1>1. Active' = Active /\ Operations' /\ Reserved' = Reserved
  BY DEF WriteHead, mem, LogInv, Active, Reserved, Operations
<1>2. Capacity'
  BY <1>1 DEF WriteHead, mem, LogInv, Capacity
<1> QED
  BY <1>1, <1>2, SeqFacts
  DEF WriteHead, HeadReady, mem, LogInv, LogTypes, Roles, Up, OneEntry, Contents,
     Copied, CleanOutside, Logged

\* What installing one block does to the home blocks: the ones before it keep
\* their data, because a block has one entry.
LEMMA CopyOne ==
  ASSUME LogInv, Copied, tail <= Len(lh),
         home' = [home EXCEPT ![lh[tail]] = LogData(tail)],
         cache' = [cache EXCEPT ![lh[tail]] = LogData(tail)],
         tail' = tail + 1, UNCHANGED <<lh, logd>>
  PROVE  /\ tail \in 1..Len(lh) /\ lh[tail] \in Block /\ lh[tail] \in Range(lh)
         /\ home' \in [Block -> Value] /\ cache' \in [Block -> Value]
         /\ tail' \in Nat \ {0} /\ Copied'
<1>1. /\ tail \in 1..Len(lh) /\ lh[tail] \in Block /\ lh[tail] \in Range(lh)
      /\ tail \in 1..(LogBlocks - 1) /\ Len(lh) \in Nat /\ LogData(tail) = logd[tail]
      /\ DOMAIN lh = 1..Len(lh) /\ \A i \in 1..Len(lh) : lh[i] \in Block
  BY SeqFacts, InsideLog DEF LogInv, LogTypes
<1>3. ASSUME NEW i \in 1..Len(lh), i < tail'
      PROVE  home'[lh[i]] = logd[i]
  <2>1. CASE i = tail
    BY <1>1, <2>1 DEF LogInv, LogTypes
  <2>2. CASE i < tail
      BY <1>1, <2>2, Zenon DEF LogInv, OneEntry, Copied, LogTypes
  <2> QED
    BY <1>1, <1>3, <2>1, <2>2
<1> QED
  BY <1>1, <1>3 DEF Copied, LogInv, LogTypes

\* install_trans() in a commit: the cached block already holds the logged data.
LEMMA InstallInv ==
  ASSUME LogInv, InstallTrans
  PROVE  LogInv' /\ cache' = cache
<1> USE DEF InstallTrans
<1>1. Copied /\ hdr = lh /\ CleanOutside /\ \A i \in 1..Len(lh) : logd[i] = cache[lh[i]]
  BY DEF LogInv, Contents
<1>2. /\ tail \in 1..Len(lh) /\ lh[tail] \in Block /\ lh[tail] \in Range(lh)
      /\ home' \in [Block -> Value] /\ cache' \in [Block -> Value]
      /\ tail' \in Nat \ {0} /\ Copied'
  BY <1>1, CopyOne
<1>3. cache' = cache
  BY <1>1, <1>2, InsideLog DEF LogInv, LogTypes
<1>4. Operations' /\ Capacity' /\ Active' = Active
  BY KeepOperations
<1>5. CleanOutside'
  BY <1>1, <1>2, <1>3 DEF LogInv, LogTypes, CleanOutside
<1> QED
  BY <1>1, <1>2, <1>3, <1>4, <1>5 DEF LogInv, LogTypes, Roles, Up, OneEntry, Contents

\* When every block is installed, memory and disk agree.
LEMMA AllInstalled ==
  ASSUME LogInv, Copied, Installed, CleanOutside, Active = {},
         \A i \in 1..Len(lh) : logd[i] = cache[lh[i]]
  PROVE  cache = home
<1> SUFFICES ASSUME NEW b \in Block
             PROVE  cache[b] = home[b]
  BY DEF LogInv, LogTypes
<1>1. CASE b \in Range(lh)
  <2>1. PICK i \in 1..Len(lh) : lh[i] = b
    BY <1>1, SeqFacts DEF LogInv, LogTypes
  <2> QED
    BY SeqFacts, <2>1 DEF Copied, Installed, LogInv, LogTypes
<1> QED
  BY <1>1, Idle DEF LogInv

\* The end of commit(): log.lh.n = 0 and the header is cleared.
LEMMA ClearHeadInv ==
  ASSUME LogInv, ClearHead
  PROVE  LogInv'
<1>1. Active = {} /\ Active' = Active /\ Reserved' = Reserved /\ cache = home
  BY AllInstalled DEF ClearHead, Contents, LogInv, Roles, Active, Reserved
<1>2. Capacity'
  BY <1>1, Idle, EmptyFacts, BoundFits DEF ClearHead, LogInv, Capacity
<1>3. Operations'
  BY <1>1, Idle, EmptyFacts DEF ClearHead, LogInv, Operations
<1> QED
  BY <1>1, <1>2, <1>3, EmptyFacts DEF ClearHead, Contents, LogInv, LogTypes, Roles, Up

\* The second half of end_op: the committing process wakes the waiting ones.
LEMMA CommitDoneInv ==
  ASSUME LogInv, NEW p \in Proc, CommitDone(p)
  PROVE  LogInv'
<1> USE DEF CommitDone, CommitWakes, disk
<1>1. \A q \in Proc : pc'[q] = "op" <=> pc[q] = "op"
  BY DEF LogInv, LogTypes, Wakeup
<1>2. Active' = Active
  BY <1>1 DEF Active
<1>3. Reserved' = Reserved
  BY <1>2 DEF Reserved
<1>4. OneEntry(lh)' /\ OneEntry(hdr)' /\ Contents'
  BY DEF LogInv, OneEntry, Contents, CleanOutside
<1>5. Capacity' /\ Operations'
  BY <1>1, <1>3, Zenon DEF LogInv, Capacity, Operations
<1> QED
  BY <1>2, <1>4, <1>5, Zenon DEF LogInv, LogTypes, Wakeup, Roles, Up

\* A crash or a panic leaves the disk as it is and memory empty.
LEMMA RestartInv ==
  ASSUME LogInv, Restart, UNCHANGED <<disk, ops>>
  PROVE  LogInv'
<1> USE DEF Restart, disk
<1>1. LogTypes'
  <2>1. op' \in [Proc -> Operation]
    BY LogAssumption DEF NoOp, Value, Operation
  <2>2. pc' \in [Proc -> {"user", "begin", "asleep", "op", "commit"}]
    OBVIOUS
  <2>3. lh' \in Seq(Block)
    BY EmptyFacts
  <2>4. /\ cache' = home /\ home' = home /\ logd' = logd /\ hdr' = hdr /\ ops' = ops
        /\ outstanding' = 0 /\ committing' \in BOOLEAN /\ step' = "read_head" /\ tail' = 1
    BY Zenon
  <2> HIDE DEF Restart
  <2> QED
    BY <2>1, <2>2, <2>3, <2>4 DEF LogInv, LogTypes
<1>2. Active' = {} /\ Reserved' = {}
  BY DEF Active, Reserved
<1>3. Roles'
  BY <1>2, FS_EmptySet, Zenon DEF Roles, Up
<1>4. Capacity'
  BY <1>2, FS_EmptySet, EmptyFacts, BoundFits DEF LogInv, Capacity
<1>5. Operations'
  BY DEF Operations, NoOp
<1> QED
  BY EmptyFacts, <1>1, <1>3, <1>4, <1>5 DEF LogInv, OneEntry, Contents

\* recover_from_log(): the header is read, each block installed, the header cleared.
LEMMA RecoveryInv ==
  ASSUME LogInv, Recovery
  PROVE  LogInv'
<1> USE DEF disk
<1>0. Active = {} /\ Active' = {} /\ Reserved = {} /\ Reserved' = {}
      /\ Cardinality({}) = 0 /\ UNCHANGED <<pc, op>>
      /\ \A p \in Proc : op[p].wrote = {} /\ op[p].logging = {}
  <2>1. Active = {} /\ UNCHANGED <<pc, op>>
    BY DEF Recovery, ReadHead, RedoTrans, RecoverDone, LogInv, Roles
  <2> QED
    BY <2>1, Idle, FS_EmptySet DEF LogInv, Active, Reserved
<1>1. CASE ReadHead
  <2>1. Capacity' /\ Operations'
    BY <1>0, <1>1, BoundFits, SeqFacts DEF ReadHead, LogInv, LogTypes, Capacity, Operations
  <2>2. LogTypes' /\ OneEntry(lh)' /\ OneEntry(hdr)'
    BY <1>1 DEF ReadHead, disk, LogInv, LogTypes, OneEntry
  <2>3. Roles'
    BY <1>0, <1>1 DEF ReadHead, LogInv, Roles, Up
  <2>4. Contents'
    BY <1>1 DEF ReadHead, disk, LogInv, LogTypes, Contents, Copied
  <2> QED
    BY <2>1, <2>2, <2>3, <2>4 DEF LogInv
<1>2. CASE RedoTrans
  <2>1. Copied /\ hdr = lh /\ cache = home
    BY <1>2 DEF RedoTrans, LogInv, Contents
  <2>2. /\ home' \in [Block -> Value] /\ cache' \in [Block -> Value]
        /\ tail' \in Nat \ {0} /\ Copied'
    BY <1>2, <2>1, CopyOne DEF RedoTrans
  <2>3. Capacity' /\ Operations'
    BY <1>2, KeepOperations DEF RedoTrans
  <2> QED
    BY <1>0, <2>1, <1>2, <2>2, <2>3, Zenon
      DEF LogInv, RedoTrans, LogTypes, Roles, Up, OneEntry, Contents
<1>3. CASE RecoverDone
  <2>1. Capacity' /\ Operations'
    BY <1>0, <1>3, EmptyFacts, BoundFits DEF RecoverDone, LogInv, Capacity, Operations
  <2>2. LogTypes' /\ OneEntry(lh)' /\ OneEntry(hdr)'
    BY <1>3, EmptyFacts DEF RecoverDone, LogInv, LogTypes, OneEntry
  <2>3. Roles'
    BY <1>0, <1>3, Zenon DEF RecoverDone, LogInv, Roles, Up
  <2>4. Contents'
    BY <1>3 DEF RecoverDone, LogInv, Contents, CleanOutside
  <2> QED
    BY <2>1, <2>2, <2>3, <2>4 DEF LogInv
<1> QED
  BY <1>1, <1>2, <1>3 DEF Recovery

\* The machine starts with an empty log.
LEMMA InitInv == Init => LogInv
<1> SUFFICES ASSUME Init PROVE LogInv
  OBVIOUS
<1> USE DEF Init
<1>1. LogTypes
  <2>1. op \in [Proc -> Operation] /\ 0 \in Value
    BY LogAssumption DEF NoOp, Value, Operation
  <2>2. pc \in [Proc -> {"user", "begin", "asleep", "op", "commit"}]
    OBVIOUS
  <2>3. lh \in Seq(Block) /\ hdr \in Seq(Block)
    BY EmptyFacts
  <2>4. /\ home \in [Block -> Value] /\ cache \in [Block -> Value]
        /\ logd \in [1..(LogBlocks - 1) -> Value]
    BY <2>1
  <2>5. /\ outstanding = 0 /\ committing \in BOOLEAN /\ step = "none" /\ tail = 1
        /\ ops = 0
    BY Zenon
  <2> HIDE DEF Init
  <2> QED
    BY <2>1, <2>2, <2>3, <2>4, <2>5 DEF LogTypes
<1>2. Active = {} /\ Reserved = {}
  BY DEF Active, Reserved
<1>3. Capacity
  BY <1>2, FS_EmptySet, EmptyFacts, BoundFits DEF Capacity
<1>4. Operations
  BY DEF Operations, NoOp
<1> QED
  BY <1>2, <1>3, <1>4, FS_EmptySet, EmptyFacts, <1>1, Zenon
    DEF LogInv, Contents, CleanOutside, Roles, Up

\* Every step of the log, crashes and recovery included, keeps the invariant.
LEMMA NextInv == LogInv /\ [Next]_vars => LogInv'
<1> SUFFICES ASSUME LogInv, [Next]_vars PROVE LogInv'
  OBVIOUS
<1>1. ASSUME NEW p \in Proc, Call(p) \/ BeginOp(p) \/ EndOp(p) \/ CommitDone(p)
      PROVE  LogInv'
  BY <1>1, CallInv, BeginOpInv, EndOpInv, CommitDoneInv
<1>2. ASSUME NEW p \in Proc, NEW b \in Block, Panic(p, b) PROVE LogInv'
  BY <1>2, RestartInv DEF Panic
<1>3. ASSUME NEW p \in Proc, LogAppend(p) \/ \E b \in Block : LogTest(p, b) PROVE LogInv'
  BY <1>3, LogTestInv, LogAppendInv
<1>4. CASE CommitStep
  BY <1>4, WriteLogInv, WriteHeadInv, InstallInv, ClearHeadInv DEF CommitStep
<1>5. CASE Crash
  BY <1>5, RestartInv DEF Crash
<1>6. CASE UNCHANGED vars
  <2>1. Capacity' /\ Operations' /\ Active' = Active
    BY <1>6, KeepOperations DEF vars, disk, mem
  <2> QED
    BY <1>6, <2>1 DEF vars, disk, mem, LogInv, LogTypes, OneEntry, Roles, Up,
                      Contents, Logged, Copied, CleanOutside
<1> QED
  BY <1>1, <1>2, <1>3, <1>4, <1>5, <1>6, RecoveryInv DEF Next

\* The invariant holds of every reachable state.
THEOREM LogCorrect == Spec => []LogInv
  BY InitInv, NextInv, PTL DEF Spec

-----------------------------------------------------------------------------
(***************************************************************************)
(* What the invariant gives the file system                                *)
(***************************************************************************)

\* end_op commits when the last operation ends: with no call in progress, what
\* bread returns is what a crash would leave.
THEOREM QuietCorrect == Spec => []QuietMeansDurable
<1>1. LogInv => QuietMeansDurable
  <2> SUFFICES ASSUME LogInv, Up, outstanding = 0, ~committing
               PROVE  cache = Logical /\ lh = <<>>
    BY DEF QuietMeansDurable
  <2>1. step = "none" /\ lh = <<>> /\ hdr = <<>> /\ CleanOutside /\ Active = {}
    BY ActiveFacts DEF LogInv, LogTypes, Roles, Up, Contents
  <2>2. cache = home
    BY <2>1, Idle, EmptyFacts DEF LogInv, LogTypes
  <2> QED
    BY <2>1, <2>2, OverlayEmpty DEF Logical, LogInv, LogTypes
<1> QED
  BY <1>1, LogCorrect, PTL

View == IF Up THEN cache ELSE Logical

\* Copying one logged block home changes nothing of what a crash would leave.
LEMMA CopyKeepsLogical ==
  ASSUME LogInv, hdr = lh, tail \in 1..Len(lh),
         home' = [home EXCEPT ![lh[tail]] = LogData(tail)],
         UNCHANGED <<logd, hdr>>
  PROVE  Logical' = Logical
<1>1. /\ \A i \in 1..Len(hdr) : OnDisk[i] = logd[i] /\ OnDisk'[i] = logd[i]
      /\ LogData(tail) = logd[tail]
  <2>1. OnDisk' = [i \in 1..LOGSIZE |-> IF InLog(i) THEN logd[i] ELSE home'[Behind]]
    BY DEF OnDisk, InLog
  <2> QED
    BY <2>1, InsideLog, SeqFacts DEF LogInv, LogTypes
<1>2. hdr \in Seq(Block) /\ OneEntry(hdr)
  BY DEF LogInv, LogTypes
<1>3. /\ \A b \in Block : b \notin Range(hdr) => Logical[b] = home[b]
      /\ \A i \in 1..Len(hdr) : Logical[hdr[i]] = logd[i]
  BY <1>1, <1>2, OverlayAt DEF Logical
<1>4. ASSUME NEW g
      PROVE  /\ \A b \in Block : b \notin Range(hdr) => Overlay(g, OnDisk', hdr)[b] = g[b]
             /\ \A i \in 1..Len(hdr) : Overlay(g, OnDisk', hdr)[hdr[i]] = logd[i]
  BY <1>1, <1>2, OverlayAt
<1>5. Logical' = Overlay(home', OnDisk', hdr)
  BY DEF Logical
<1>6. ASSUME NEW b \in Block PROVE Logical'[b] = Logical[b]
  <2>1. CASE b \in Range(hdr)
    <3>1. PICK i \in 1..Len(hdr) : hdr[i] = b
      BY <1>2, <2>1, SeqFacts
    <3> QED
      BY <1>3, <1>4, <1>5, <3>1
  <2>2. CASE b \notin Range(hdr)
    <3>1. Logical'[b] = home'[b]
      BY <1>4, <1>5, <2>2, Zenon
    <3> QED
      BY SeqFacts, <1>1, <1>3, <2>2, <3>1 DEF LogInv, LogTypes
  <2> QED
    BY <2>1, <2>2
<1> QED
  BY <1>6, ZenonT(30) DEF Logical, Overlay

\* A completed install has put every logged block in its place.
LEMMA InstalledLogical ==
  ASSUME LogInv, hdr = lh, Copied, Installed
  PROVE  Logical = home
<1>1. \A i \in 1..Len(hdr) : home[hdr[i]] = OnDisk[i]
  BY SeqFacts, InsideLog DEF Copied, Installed, LogInv, LogTypes
<1>2. hdr \in Seq(Block) /\ OneEntry(hdr) /\ home = [b \in Block |-> home[b]]
  BY DEF LogInv, LogTypes
<1> QED
  BY <1>1, <1>2, OverlayIs DEF Logical

\* Steps of begin_op, log_write and end_op: only these change the set of
\* operations, and only log_write changes what the system reads.
LEMMA OperationRefines ==
  ASSUME LogInv, NEW p \in Proc,
         \/ Call(p) \/ BeginOp(p) \/ EndOp(p) \/ CommitDone(p)
         \/ LogAppend(p) \/ \E b \in Block : LogTest(p, b)
  PROVE  [Atomic!Next]_<<Logical, View, Active>>
<1> USE DEF disk
<1>1. Logical' = Logical
  BY ZenonT(30) DEF Call, BeginOp, EndOp, CommitDone, LogTest, LogAppend, Logical, OnDisk
<1>2. CASE Call(p)
    BY <1>1, <1>2 DEF Call, LogInv, LogTypes, Active, View, Up
<1>3. CASE BeginOp(p)
    BY <1>1, <1>3
    DEF BeginOp, View, Up, Atomic!Begin, Active, Atomic!Next, LogInv, LogTypes
<1>4. CASE EndOp(p)
  <2>3. Atomic!Finish(p)
    BY <1>4, ActiveFacts, <1>1, Zenon
      DEF Atomic!Finish, View, Active, EndOp, Up, LogInv, LogTypes, Wakeup
  <2> QED
    BY <2>3 DEF Atomic!Next
<1>5. CASE CommitDone(p)
    BY <1>5, <1>1
    DEF CommitDone, Up, CommitWakes, Wakeup, LogInv, LogTypes, Active, View
<1>6. ASSUME NEW b \in Block, LogTest(p, b) PROVE Atomic!Next
  <2>1. Up /\ Up' /\ p \in Active /\ Active' = Active
    BY <1>6, ActiveFacts DEF LogTest, MayLog, LogInv, LogTypes, Roles, Active, Up
  <2>2. op[p].id \in Value /\ cache' = [cache EXCEPT ![b] = op[p].id]
    BY <1>6 DEF LogTest, LogInv, LogTypes, Operation
  <2> QED
    BY <1>1, <2>1, <2>2, Zenon DEF View, Active, Atomic!Write, Atomic!Next
<1>7. CASE LogAppend(p)
    BY <1>7, <1>1 DEF LogAppend, Active, View, Up
<1> QED
  BY <1>2, <1>3, <1>4, <1>5, <1>6, <1>7

\* Steps of commit(): writing the header makes every finished operation durable
\* at once, the steps before and after it change nothing that can be seen.
LEMMA CommitRefines ==
  ASSUME LogInv, CommitStep
  PROVE  [Atomic!Next]_<<Logical, View, Active>>
<1>1. Up /\ Up' /\ Active' = Active /\ Active = {}
  BY DEF CommitStep, WriteLog, WriteHead, HeadReady, InstallTrans, ClearHead, mem,
         LogInv, Roles, Active, Up
<1>2. CASE WriteLog
    BY <1>2, OverlayEmpty, <1>1, WriteLogInv
    DEF WriteLog, mem, LogInv, Contents, Logical, LogTypes, View
<1>3. CASE WriteHead
  <2>1. /\ hdr' = lh /\ home' = home /\ logd' = logd /\ cache' = cache
        /\ lh \in Seq(Block) /\ OneEntry(lh) /\ cache = [b \in Block |-> cache[b]]
    BY <1>3 DEF WriteHead, mem, LogInv, LogTypes
  <2>2. OnDisk' = OnDisk /\ \A i \in 1..Len(lh) : cache[lh[i]] = OnDisk[i]
    <3>1. OnDisk' = OnDisk
      BY <2>1 DEF OnDisk, InLog
    <3> QED
      BY <1>3, <3>1, SeqFacts, InsideLog DEF WriteHead, HeadReady, LogInv, LogTypes, Contents, Logged
  <2>3. \A b \in Block : b \notin Range(lh) => cache[b] = home[b]
    BY <1>1, <1>3, Idle, Zenon DEF WriteHead, HeadReady, LogInv, Contents, CleanOutside
  <2>4. Logical' = cache
    BY <2>1, <2>2, <2>3, OverlayIs DEF Logical
  <2> QED
    BY <1>3, <2>4, <1>1, <2>1 DEF Atomic!Next, Atomic!Commit, View, Active
<1>4. CASE InstallTrans
  <2>1. cache' = cache /\ hdr = lh /\ Copied
    BY <1>4, InstallInv DEF InstallTrans, LogInv, Contents
  <2>2. /\ home' = [home EXCEPT ![lh[tail]] = LogData(tail)] /\ UNCHANGED <<logd, hdr>>
        /\ tail \in Nat \ {0} /\ tail <= Len(lh) /\ Len(lh) \in Nat
    BY <1>4 DEF InstallTrans, LogInv, LogTypes
  <2>3. Logical' = Logical
    BY <2>1, <2>2, CopyKeepsLogical
  <2> QED
    BY <1>1, <2>1, <2>3 DEF View
<1>5. CASE ClearHead
    BY <1>5, InstalledLogical, OverlayEmpty, <1>1
    DEF ClearHead, LogInv, Contents, Logical, LogTypes, View
<1> QED
  BY <1>2, <1>3, <1>4, <1>5 DEF CommitStep

\* A crash at any point, and a panic, lose exactly what is not yet durable.
LEMMA RestartRefines ==
  ASSUME Restart, UNCHANGED disk
  PROVE  Atomic!Next
  BY Zenon DEF Restart, disk, Logical, OnDisk, Up, Active, Atomic!Crash, View, Atomic!Next

\* Recovery, repeated after any number of crashes, cannot be seen.
LEMMA RecoveryRefines ==
  ASSUME LogInv, Recovery
  PROVE  UNCHANGED <<Logical, View, Active>>
<1>1. Active' = Active
  BY DEF Recovery, ReadHead, RedoTrans, RecoverDone, Active
<1>2. CASE ReadHead
    BY <1>2, <1>1 DEF ReadHead, disk, Logical, OnDisk, Up, View
<1>3. CASE RedoTrans
    BY <1>3, SeqFacts, CopyKeepsLogical, <1>1
    DEF RedoTrans, LogInv, LogTypes, Contents, Up, View
<1>4. CASE RecoverDone
    BY <1>4, InstalledLogical, OverlayEmpty, <1>1
    DEF RecoverDone, LogInv, Contents, Logical, LogTypes, Up, View
<1> QED
  BY <1>2, <1>3, <1>4 DEF Recovery

\* The log makes operations atomic and durable across crashes at any point,
\* crashes of a recovery included: it implements AtomicDisk.
THEOREM AtomicCorrect == Spec => ImplementsAtomicDisk
<1>1. Init => Atomic!Init
    BY LogAssumption, OverlayEmpty DEF Init, Value, Up, Logical, Atomic!Init
<1>2. LogInv /\ [Next]_vars => [Atomic!Next]_<<Logical, View, Active>>
    BY OperationRefines, RestartRefines, CommitRefines, RecoveryRefines, Zenon
    DEF Panic, Crash, vars, disk, mem, Logical, OnDisk, View, Up, Active, Next
<1>3. QED
  BY <1>1, <1>2, LogCorrect, PTL DEF Spec, ImplementsAtomicDisk, Atomic!Spec, View, Active
=============================================================================
