---------------------------- MODULE BcacheProofs ----------------------------
(***************************************************************************)
(* The buffer cache keeps its counts and its disk queue exact, whether the *)
(* commands of the disk fail or not: proofs about module Bcache, for every *)
(* number of threads, blocks, buffers and writes.                          *)
(***************************************************************************)
EXTENDS Bcache, FiniteSetTheorems, SequenceTheorems, TLAPS

InDriver == {"iderw", "idesleep", "idewake"}
OutsideLock == {"lock", "locksleep", "brelse"}

Flags == valid \in [Buf -> BOOLEAN] /\ dirty \in [Buf -> BOOLEAN]
Threads ==
  /\ pc \in [Proc -> {"run"} \cup InDriver \cup OutsideLock]
  /\ cur \in [Proc -> 0..NBUF]
Driver ==
  /\ idequeue \in Seq(Buf)
  /\ ctl \in [st : {"idle", "busy", "done"}, write : BOOLEAN, block : 0..NBLOCK,
              data : Value, err : BOOLEAN]
  /\ disk \in [Block -> Value]
BcacheTypes ==
  /\ blockno \in [Buf -> 0..NBLOCK] /\ Flags
  /\ refcnt \in [Buf -> Nat] /\ data \in [Buf -> Value]
  /\ locked \in [Buf -> Proc \cup {NoProc}]
  /\ list \in [Buf -> Buf]
  /\ Driver /\ Threads
  /\ writes \in Value

\* Every buffer is in the list.
Listed == \A b \in Buf : \E i \in Buf : list[i] = b

\* A block has one buffer.
OneBuffer == \A b, c \in Buf : blockno[b] = blockno[c] /\ blockno[b] # NoBlock => b = c

\* What a thread may rely on at each point of a call, and for the buffers that
\* it holds and that are not in a call.
CallOf(p) ==
  /\ pc[p] = "run" <=> cur[p] = NoBuf
  /\ cur[p] # NoBuf => blockno[cur[p]] # NoBlock
  /\ pc[p] \in InDriver => locked[cur[p]] = p
  /\ pc[p] \in OutsideLock => locked[cur[p]] # p
  /\ pc[p] = "idewake" => valid[cur[p]] /\ ~dirty[cur[p]]
  /\ pc[p] \in {"iderw", "idesleep"} => (valid[cur[p]] => dirty[cur[p]])
  /\ \A b \in Buf : locked[b] = p /\ cur[p] # b => valid[b]
Calls == \A p \in Proc : CallOf(p)

\* The flags of a buffer: only what was read or written is valid, only what is
\* valid is changed.
FlagsSound == \A b \in Buf : (dirty[b] => valid[b]) /\ (valid[b] => blockno[b] # NoBlock)

\* A write carries the contents its buffer still has.
CommandData ==
  idequeue # <<>> => ctl.data = IF dirty[Head(idequeue)] THEN data[Head(idequeue)] ELSE 0

BcacheInv ==
  /\ BcacheTypes /\ Listed /\ OneBuffer /\ Calls /\ FlagsSound
  /\ RefcntExact /\ QueueActive /\ CommandData

\* The threads that refcnt counts, and a thread asleep until its request is done.
Users(b) == {p \in Proc : locked[b] = p \/ cur[p] = b}
Waits(p, b) == pc[p] = "idesleep" /\ cur[p] = b /\ locked[b] = p

-----------------------------------------------------------------------------
(***************************************************************************)
(* Places in the list, and the queue                                       *)
(***************************************************************************)

\* A set of numbers has a least one: a scan of bget stops at its first hit.
LEMMA LeastExists ==
  ASSUME NEW T, T \subseteq Nat, T # {}
  PROVE  \E x \in T : \A y \in T : x <= y
<1> DEFINE R == {ss \in Nat \X Nat : ss[1] < ss[2]}
<1>1. IsWellFoundedOn(R, Nat)
  BY NatLessThanWellFounded DEF OpToRel
<1>2. \A x, y \in Nat : x < y => <<x, y>> \in R
  OBVIOUS
<1> HIDE DEF R
<1>3. PICK x \in T : \A y \in T : ~(<<y, x>> \in R)
  BY <1>1, WFMin, Zenon
<1>4. ASSUME NEW y \in T PROVE x <= y
  <2>1. ~(y < x)
    BY <1>2, <1>3, Zenon
  <2> QED
    BY <2>1
<1> QED
  BY <1>4

\* The scan from the least recently used buffer ends at the greatest place.
LEMMA GreatestExists ==
  ASSUME NEW n \in Nat, NEW T, T \subseteq 0..n, T # {}
  PROVE  \E x \in T : \A y \in T : x >= y
<1> DEFINE U == {i \in 0..n : n - i \in T}
<1>1. U \subseteq Nat /\ U # {}
  <2>1. PICK x \in T : TRUE
    BY Zenon
  <2>3. n - x \in U
    BY <2>1
  <2>4. U \subseteq Nat
    OBVIOUS
  <2> HIDE DEF U
  <2> QED
    BY <2>3, <2>4
<1>2. PICK u \in U : \A v \in U : u <= v
  BY <1>1, LeastExists, Zenon
<1>3. ASSUME NEW y \in T PROVE n - u >= y
    BY <1>2
<1> QED
  BY <1>2, <1>3

\* bget's first loop ends at a buffer of the block.
LEMMA CachedFound ==
  ASSUME list \in [Buf -> Buf], NEW k, Cached(k) # {}
  PROVE  list[Min(Cached(k))] \in Buf /\ blockno[list[Min(Cached(k))]] = k
<1>1. Cached(k) \subseteq Nat
  BY DEF Cached, Buf
<1> QED
  BY <1>1, LeastExists, Zenon DEF Cached, Min

\* bget's second loop ends at a buffer that nobody uses and that is not dirty.
LEMMA UnusedFound ==
  ASSUME list \in [Buf -> Buf], Unused # {}
  PROVE  LET b == list[Max(Unused)] IN b \in Buf /\ refcnt[b] = 0 /\ ~dirty[b]
<1>1. Unused \subseteq 0..NBUF /\ NBUF \in Nat
  BY BcacheAssumption DEF Unused, Buf
<1> QED
  BY <1>1, GreatestExists, Zenon DEF Unused, Max

\* When the first loop finds nothing, no buffer has the block.
LEMMA NotCached ==
  ASSUME Listed, NEW k, Cached(k) = {}, NEW b \in Buf
  PROVE  blockno[b] # k
  BY DEF Listed, Cached

\* Moving a buffer to the front loses none.
LEMMA FrontedListed ==
  ASSUME list \in [Buf -> Buf], Listed, NEW b \in Buf
  PROVE  /\ Fronted(b) \in [Buf -> Buf]
         /\ \A c \in Buf : \E i \in Buf : Fronted(b)[i] = c
<1> DEFINE n == Place(b)
<1> HIDE DEF n
<1>2. n \in Buf /\ list[n] = b
  BY DEF n, Place, Listed
<1>3. Fronted(b) = [i \in Buf |-> IF i = 1 THEN b ELSE IF i <= n THEN list[i - 1] ELSE list[i]]
  BY DEF Fronted, n
<1>5. 1 \in Buf /\ Fronted(b)[1] = b
  BY <1>3, BcacheAssumption DEF Buf
<1>6. ASSUME NEW c \in Buf, c # b PROVE \E i \in Buf : Fronted(b)[i] = c
  <2>1. PICK j \in Buf : list[j] = c
    BY DEF Listed
  <2>3. CASE j < n
    <3>1. j + 1 \in Buf /\ j + 1 # 1 /\ j + 1 <= n /\ (j + 1) - 1 = j
      BY <1>2, <2>3, BcacheAssumption DEF Buf
    <3> QED
      BY <1>3, <2>1, <3>1
  <2>4. CASE n < j
      BY <1>2, <2>4, BcacheAssumption, <1>3, <2>1 DEF Buf
  <2> QED
    BY <1>6, <2>1, <1>2, <2>3, <2>4, BcacheAssumption DEF Buf
<1>7. Fronted(b) \in [Buf -> Buf]
  BY BcacheAssumption, <1>3 DEF Buf
<1> QED
  BY <1>5, <1>6, <1>7

\* What is queued, by place.
LEMMA QueueFacts ==
  ASSUME NEW q \in Seq(Buf)
  PROVE  /\ Len(q) \in Nat /\ DOMAIN q = 1..Len(q)
         /\ \A i \in 1..Len(q) : q[i] \in Buf /\ q[i] \in Range(q)
         /\ \A b \in Range(q) : \E i \in 1..Len(q) : q[i] = b
         /\ q # <<>> => Head(q) = q[1] /\ 1 \in 1..Len(q) /\ Head(q) \in Range(q)
  BY DEF Range

\* iderw's append.
LEMMA QueueAppend ==
  ASSUME NEW q \in Seq(Buf), NEW b \in Buf, b \notin Range(q), IsInjective(q)
  PROVE  /\ Append(q, b) \in Seq(Buf) /\ Append(q, b) # <<>>
         /\ IsInjective(Append(q, b))
         /\ \A c : c \in Range(Append(q, b)) <=> c \in Range(q) \/ c = b
         /\ q = <<>> => Head(Append(q, b)) = b /\ Len(Append(q, b)) = 1
         /\ q # <<>> => Head(Append(q, b)) = Head(q) /\ Len(Append(q, b)) # 1
<1> DEFINE r == Append(q, b)
<1>1. /\ r \in Seq(Buf) /\ r # <<>> /\ Len(r) = Len(q) + 1
      /\ \A i \in 1..Len(q) : r[i] = q[i]
      /\ r[Len(q) + 1] = b
  BY AppendProperties
<1> HIDE DEF r
<1>2. Len(q) \in Nat /\ DOMAIN q = 1..Len(q) /\ DOMAIN r = 1..(Len(q) + 1)
  BY <1>1, QueueFacts
<1>5. ASSUME NEW c PROVE c \in Range(r) <=> c \in Range(q) \/ c = b
  <2>1. ASSUME c \in Range(r) PROVE c \in Range(q) \/ c = b
    <3>1. PICK i \in 1..(Len(q) + 1) : r[i] = c
      BY <1>2, <2>1 DEF Range
    <3>2. i \in 1..Len(q) \/ i = Len(q) + 1
      BY <1>2
    <3> QED
      BY <1>1, <3>1, <3>2, QueueFacts
  <2>2. ASSUME c \in Range(q) PROVE c \in Range(r)
      BY <2>2, QueueFacts, <1>2, <1>1 DEF Range
  <2> QED
    BY <1>2, <1>1, <2>1, <2>2 DEF Range
<1>6. Head(r) = r[1]
  BY <1>1, QueueFacts
<1>7. ASSUME q = <<>> PROVE Head(r) = b /\ Len(r) = 1
  BY <1>1, <1>6, <1>7
<1>8. ASSUME q # <<>> PROVE Head(r) = Head(q) /\ Len(r) # 1
  BY <1>1, <1>6, <1>8, QueueFacts
<1> QED
  BY QueueFacts, <1>2, <1>1, <1>5, <1>7, <1>8 DEF r, IsInjective

\* ideintr takes the first request off the queue.
LEMMA QueueTail ==
  ASSUME NEW q \in Seq(Buf), q # <<>>, IsInjective(q)
  PROVE  /\ Tail(q) \in Seq(Buf) /\ IsInjective(Tail(q))
         /\ \A c : c \in Range(Tail(q)) <=> c \in Range(q) /\ c # Head(q)
<1> DEFINE t == Tail(q)
<1>1. /\ t \in Seq(Buf) /\ Len(t) = Len(q) - 1
      /\ \A i \in 1..Len(t) : t[i] = q[i + 1]
  BY HeadTailProperties
<1> HIDE DEF t
<1>2. /\ Len(q) \in Nat \ {0} /\ DOMAIN q = 1..Len(q) /\ DOMAIN t = 1..Len(t)
      /\ Head(q) = q[1] /\ 1 \in 1..Len(q)
  BY <1>1, QueueFacts
<1>3. \A i \in 1..Len(t) : i + 1 \in 1..Len(q) /\ i + 1 # 1
  BY <1>1, <1>2
<1>4. IsInjective(t)
  <2> SUFFICES ASSUME NEW i \in 1..Len(t), NEW j \in 1..Len(t), t[i] = t[j]
               PROVE  i = j
    BY <1>2 DEF IsInjective
  <2>1. q[i + 1] = q[j + 1]
    BY <1>1
  <2>2. i + 1 = j + 1
    BY <1>2, <1>3, <2>1 DEF IsInjective
  <2> QED
    BY <1>1, <1>2, <2>2
<1>5. ASSUME NEW c PROVE c \in Range(t) <=> c \in Range(q) /\ c # Head(q)
  <2>1. ASSUME c \in Range(t) PROVE c \in Range(q) /\ c # Head(q)
    <3>1. PICK i \in 1..Len(t) : t[i] = c
      BY <1>2, <2>1 DEF Range
    <3>2. q[i + 1] = c /\ i + 1 \in 1..Len(q) /\ i + 1 # 1
      BY <1>1, <1>3, <3>1
    <3> QED
      BY <1>2, <3>2 DEF Range, IsInjective
  <2>2. ASSUME c \in Range(q), c # Head(q) PROVE c \in Range(t)
    <3>1. PICK i \in 1..Len(q) : q[i] = c
      BY <2>2, QueueFacts
    <3>2. i - 1 \in 1..Len(t) /\ (i - 1) + 1 = i
      BY <1>1, <1>2, <2>2, <3>1
    <3> QED
      BY <1>1, <3>1, <1>2, <3>2, Zenon DEF Range
  <2> QED
    BY <2>1, <2>2
<1> QED
  BY <1>1, <1>4, <1>5 DEF t

-----------------------------------------------------------------------------
(***************************************************************************)
(* What a step leaves alone                                                *)
(***************************************************************************)

\* The bounds of buffers and blocks.
LEMMA Bounds ==
  /\ NBUF \in Nat /\ NBLOCK \in Nat /\ MaxWrites \in Nat
  /\ NoBuf \notin Buf /\ NoBlock \notin Block /\ 0 \in Value
  /\ \A b : b \in 0..NBUF <=> b \in Buf \/ b = NoBuf
  /\ \A k : k \in 0..NBLOCK <=> k \in Block \/ k = NoBlock
  /\ NoProc \notin Proc
  BY BcacheAssumption DEF Buf, Block, NoBuf, NoBlock, Value

\* A thread's call goes on when its own state and the buffers it uses stay as they
\* are; a wakeup may send it back to the test of a sleep lock.
LEMMA CallKept ==
  ASSUME BcacheInv, NEW q \in Proc,
         pc'[q] = pc[q] \/ (pc[q] = "locksleep" /\ pc'[q] = "lock"),
         cur'[q] = cur[q],
         \A c \in Buf : locked'[c] = q <=> locked[c] = q,
         \A c \in Buf : q \in Users(c) => /\ blockno'[c] = blockno[c]
                                          /\ valid'[c] = valid[c] /\ dirty'[c] = dirty[c]
  PROVE  CallOf(q)'
<1>1. CallOf(q)
  BY DEF BcacheInv, Calls
<1>3. \A c \in Buf : q \in Users(c) <=> locked[c] = q \/ cur[q] = c
  BY DEF Users
<1>4. CASE cur[q] = NoBuf
    BY <1>1, <1>4, <1>3 DEF CallOf, InDriver, OutsideLock
<1>5. CASE cur[q] \in Buf
    BY <1>3, <1>5, <1>1, Bounds DEF CallOf, InDriver, OutsideLock
<1> QED
  BY Bounds, <1>4, <1>5 DEF BcacheInv, BcacheTypes, Threads

\* The disk queue stays sound when nobody starts or stops waiting and the buffers
\* in it are left alone.
LEMMA QueueKept ==
  ASSUME BcacheInv, idequeue' = idequeue, ctl' = ctl,
         \A p \in Proc, b \in Buf : Waits(p, b)' <=> Waits(p, b),
         \A p \in Proc, b \in Buf : Waits(p, b) =>
           blockno'[b] = blockno[b] /\ dirty'[b] = dirty[b] /\ data'[b] = data[b]
  PROVE  QueueActive' /\ CommandData'
<1>3. idequeue # <<>> => Head(idequeue) \in Buf /\ Head(idequeue) \in Range(idequeue)
  BY QueueFacts DEF BcacheInv, BcacheTypes, Driver
<1> QED
  BY <1>3 DEF BcacheInv, CommandData, QueueActive, Waits

\* The counts stay exact when no buffer gets or loses a user.
LEMMA UsersKept ==
  ASSUME BcacheInv, refcnt' = refcnt, \A b \in Buf : Users(b)' = Users(b)
  PROVE  RefcntExact'
  BY DEF BcacheInv, RefcntExact, Users

\* A count is the number of a finite set of threads.
LEMMA UserFacts ==
  ASSUME BcacheInv, NEW b \in Buf
  PROVE  /\ refcnt[b] = Cardinality(Users(b)) /\ IsFiniteSet(Users(b))
         /\ Users(b) \subseteq Proc
         /\ refcnt[b] = 0 => Users(b) = {}
  BY FS_Subset, BcacheAssumption, FS_EmptySet, Zenon DEF BcacheInv, RefcntExact, Users

\* One user more, or one less.
LEMMA UsersChange ==
  ASSUME BcacheInv, NEW b \in Buf, NEW p \in Proc
  PROVE  /\ p \notin Users(b) => Cardinality(Users(b) \cup {p}) = refcnt[b] + 1
         /\ p \in Users(b) => Cardinality(Users(b) \ {p}) = refcnt[b] - 1 /\ refcnt[b] # 0
<1>1. refcnt[b] = Cardinality(Users(b)) /\ IsFiniteSet(Users(b))
  BY UserFacts
<1>3. p \in Users(b) => Cardinality(Users(b) \ {p}) = Cardinality(Users(b)) - 1
  BY <1>1, FS_RemoveElement, Zenon
<1>4. p \in Users(b) => refcnt[b] # 0
  BY UserFacts
<1> QED
  BY FS_AddElement, <1>1, <1>3, <1>4, Zenon

-----------------------------------------------------------------------------
(***************************************************************************)
(* The invariant: one lemma for each step                                  *)
(***************************************************************************)

\* The controller without a command.
LEMMA IdleType ==
  Idle \in [st : {"idle", "busy", "done"}, write : BOOLEAN, block : 0..NBLOCK,
            data : Value, err : BOOLEAN]
  BY Bounds DEF Idle, NoBlock

\* binit: the buffers are in the list, and no thread uses one.
LEMMA InitInv == Init => BcacheInv
<1> SUFFICES ASSUME Init PROVE BcacheInv
  OBVIOUS
<1>7. RefcntExact
    BY Bounds, FS_EmptySet, Zenon DEF Init, RefcntExact
<1> QED
  BY EmptySeq, Bounds, BcacheAssumption, <1>7
    DEF BcacheInv, Listed, Buf, Init, OneBuffer, FlagsSound, CommandData, BcacheTypes,
       Flags, Threads, NoBlock, NoBuf, Idle, Driver, Calls, CallOf, InDriver,
       OutsideLock, QueueActive, IsInjective, Range

\* bget finds the block: the buffer's count goes up before the lock is tried.
LEMMA BgetCachedInv ==
  ASSUME BcacheInv, NEW p \in Proc, NEW k \in Block, BgetCached(p, k)
  PROVE  BcacheInv'
<1>1. PICK b \in Buf : b = list[Min(Cached(k))] /\ blockno[b] = k
  BY CachedFound DEF BgetCached, BcacheInv, BcacheTypes
<1>2. /\ pc[p] = "run" /\ (\A c \in Buf : locked[c] = p => blockno[c] # k)
      /\ refcnt' = [refcnt EXCEPT ![b] = @ + 1]
      /\ cur' = [cur EXCEPT ![p] = b] /\ pc' = [pc EXCEPT ![p] = "lock"]
      /\ UNCHANGED <<bufvars, locked, list, idevars, writes, panicked>>
  BY <1>1 DEF BgetCached, MayRequest, Held, Second, CopiesHome, Allocates
<1>3. locked[b] # p /\ cur[p] = NoBuf
    BY <1>1, <1>2 DEF Block, BcacheInv, Calls, CallOf
<1>t. refcnt' \in [Buf -> Nat]
  BY <1>2 DEF BcacheInv, BcacheTypes
<1>7. Calls'
  <2>1. ASSUME NEW q \in Proc, q # p PROVE CallOf(q)'
      BY <1>2, <2>1, CallKept DEF BcacheInv, BcacheTypes, Threads, bufvars
  <2>2. CallOf(p)'
      BY <1>2, <1>3, Bounds, <1>1
      DEF BcacheInv, Calls, CallOf, bufvars, InDriver, OutsideLock, BcacheTypes, Threads
  <2> QED
    BY <2>1, <2>2 DEF Calls
<1>8. RefcntExact'
  <2>1. Users(b)' = Users(b) \cup {p} /\ p \notin Users(b)
    BY <1>1, <1>2, <1>3, Bounds DEF Users, BcacheInv, BcacheTypes, Threads
  <2>2. ASSUME NEW c \in Buf, c # b PROVE Users(c)' = Users(c)
    BY <1>1, <1>2, <1>3, <2>2, Bounds DEF Users, BcacheInv, BcacheTypes, Threads
  <2>3. refcnt'[b] = Cardinality(Users(b)')
    BY <1>1, <1>2, <2>1, UsersChange, Zenon DEF BcacheInv, BcacheTypes
  <2>4. ASSUME NEW c \in Buf, c # b PROVE refcnt'[c] = Cardinality(Users(c)')
    BY <1>2, <2>2, <2>4, UserFacts DEF BcacheInv, BcacheTypes
  <2> QED
    BY <2>3, <2>4 DEF RefcntExact, Users
<1>9. QueueActive' /\ CommandData'
    BY <1>2, QueueKept DEF Waits, BcacheInv, BcacheTypes, Threads, bufvars, idevars
<1> QED
  BY <1>1, Bounds, <1>t, <1>2, <1>7, <1>8, <1>9, Zenon
    DEF BcacheInv, Listed, OneBuffer, FlagsSound, bufvars, BcacheTypes, Threads, Flags,
       Driver, idevars, OutsideLock

\* bget gives an unused buffer another block: nobody uses it, and no other buffer
\* has the block.
LEMMA BgetRecycleInv ==
  ASSUME BcacheInv, NEW p \in Proc, NEW k \in Block, BgetRecycle(p, k)
  PROVE  BcacheInv'
<1>1. PICK b \in Buf : b = list[Max(Unused)] /\ refcnt[b] = 0 /\ ~dirty[b]
  BY UnusedFound DEF BgetRecycle, BcacheInv, BcacheTypes
<1>2. /\ pc[p] = "run"
      /\ blockno' = [blockno EXCEPT ![b] = k]
      /\ valid' = [valid EXCEPT ![b] = FALSE] /\ dirty' = [dirty EXCEPT ![b] = FALSE]
      /\ refcnt' = [refcnt EXCEPT ![b] = 1]
      /\ cur' = [cur EXCEPT ![p] = b] /\ pc' = [pc EXCEPT ![p] = "lock"]
      /\ UNCHANGED <<data, locked, list, idevars, writes, panicked>>
  BY <1>1 DEF BgetRecycle, MayRequest
<1>3. \A c \in Buf : blockno[c] # k
  BY NotCached DEF BgetRecycle, BcacheInv
<1>4. Users(b) = {} /\ (\A q \in Proc : locked[b] # q /\ cur[q] # b) /\ cur[p] = NoBuf
  <2>1. Users(b) = {}
    BY <1>1, UserFacts
  <2> QED
    BY <1>2, <2>1 DEF Users, BcacheInv, Calls, CallOf
<1>7. \A c \in Buf : c # b => /\ blockno'[c] = blockno[c] /\ valid'[c] = valid[c]
                              /\ dirty'[c] = dirty[c] /\ refcnt'[c] = refcnt[c]
  BY <1>2 DEF BcacheInv, BcacheTypes, Flags
<1>8. blockno'[b] = k /\ ~valid'[b] /\ ~dirty'[b] /\ refcnt'[b] = 1
  BY <1>1, <1>2 DEF BcacheInv, BcacheTypes, Flags
<1>9. Listed' /\ OneBuffer' /\ FlagsSound'
    BY <1>2, <1>3, <1>7, <1>8 DEF BcacheInv, Listed, OneBuffer, FlagsSound
<1>10. Calls'
  <2>1. ASSUME NEW q \in Proc, q # p PROVE CallOf(q)'
    <3>2. \A c \in Buf : q \in Users(c) => c # b
      BY <1>4
    <3> QED
      BY <2>1, <1>2, <1>7, <3>2, CallKept, Zenon DEF BcacheInv, BcacheTypes, Threads
  <2>2. CallOf(p)'
    <3>2. b # NoBuf /\ blockno'[b] # NoBlock
      BY <1>1, <1>8, Bounds
    <3> QED
      BY <1>7, Bounds, <1>2, <1>4, <3>2
        DEF CallOf, InDriver, OutsideLock, BcacheInv, BcacheTypes, Threads, Calls
  <2> QED
    BY <2>1, <2>2 DEF Calls
<1>11. RefcntExact'
  <2>1. Users(b)' = {p}
    BY <1>1, <1>2, <1>4, Bounds DEF Users, BcacheInv, BcacheTypes, Threads
  <2>2. ASSUME NEW c \in Buf, c # b PROVE Users(c)' = Users(c)
    BY <1>1, <1>2, <1>4, <2>2, Bounds DEF Users, BcacheInv, BcacheTypes, Threads
  <2>3. Cardinality({p}) = 1
    BY FS_Singleton
  <2>4. ASSUME NEW c \in Buf, c # b PROVE refcnt'[c] = Cardinality(Users(c)')
    BY <1>7, <2>2, <2>4, UserFacts
  <2> QED
    BY <1>8, <2>1, <2>3, <2>4 DEF RefcntExact, Users
<1>12. QueueActive' /\ CommandData'
  <2>1. ASSUME NEW q \in Proc, NEW c \in Buf PROVE Waits(q, c)' <=> Waits(q, c)
    BY <1>2 DEF Waits, BcacheInv, BcacheTypes, Threads
  <2>2. ASSUME NEW q \in Proc, NEW c \in Buf, Waits(q, c) PROVE c # b
    BY <1>4, <2>2 DEF Waits
  <2> QED
    BY <1>2, <1>7, <2>1, <2>2, QueueKept, Zenon DEF idevars
<1> QED
  BY <1>1, <1>2, Bounds, <1>9, <1>10, <1>11, <1>12, Zenon
    DEF BcacheInv, BcacheTypes, Threads, Flags, Driver, idevars, OutsideLock

\* A thread in a call has a buffer.
LEMMA InCall ==
  ASSUME BcacheInv, NEW p \in Proc, pc[p] # "run"
  PROVE  \E b \in Buf : b = cur[p] /\ p \in Users(b) /\ blockno[b] # NoBlock
  BY Bounds DEF BcacheInv, Calls, CallOf, BcacheTypes, Threads, Users

\* acquiresleep takes a free lock, or sleeps.
LEMMA AcquiresleepInv ==
  ASSUME BcacheInv, NEW p \in Proc, Acquiresleep(p)
  PROVE  BcacheInv'
<1>1. /\ pc[p] = "lock" /\ UNCHANGED <<bufvars, refcnt, list, idevars, writes, panicked>>
  BY DEF Acquiresleep
<1>2. PICK b \in Buf : b = cur[p] /\ p \in Users(b) /\ blockno[b] # NoBlock
  BY <1>1, InCall
<1>3. /\ locked[b] # p /\ b # NoBuf
      /\ \A c \in Buf : locked[c] = p /\ c # b => valid[c]
  BY <1>1, <1>2, Bounds DEF BcacheInv, Calls, CallOf, OutsideLock
<1>4. Listed' /\ OneBuffer' /\ FlagsSound'
  BY <1>1 DEF BcacheInv, Listed, OneBuffer, FlagsSound, bufvars
<1>5. CASE locked[b] # NoProc
  <2>1. pc' = [pc EXCEPT ![p] = "locksleep"] /\ UNCHANGED <<locked, cur>>
    BY <1>2, <1>5 DEF Acquiresleep
  <2>4. ASSUME NEW q \in Proc, q # p PROVE CallOf(q)'
      BY <2>1, <2>4, <1>1, CallKept DEF BcacheInv, BcacheTypes, Threads, bufvars
  <2>5. CallOf(p)'
      BY <1>2, <2>1, <1>1, <1>3
      DEF BcacheInv, BcacheTypes, Threads, CallOf, InDriver, OutsideLock, bufvars
  <2> QED
    BY QueueKept, UsersKept, <1>1, <2>1, <1>4, <2>4, <2>5, Zenon
      DEF BcacheInv, Calls, BcacheTypes, Threads, Flags, Driver, bufvars, idevars,
         OutsideLock, Users, Waits
<1>6. CASE locked[b] = NoProc
  <2> DEFINE at == IF valid[b] THEN "run" ELSE "iderw"
             on == IF valid[b] THEN NoBuf ELSE b
  <2>1. /\ locked' = [locked EXCEPT ![b] = p]
        /\ pc' = [pc EXCEPT ![p] = at] /\ cur' = [cur EXCEPT ![p] = on]
    BY <1>2, <1>6 DEF Acquiresleep
  <2>2. /\ valid[b] => at = "run" /\ on = NoBuf
        /\ ~valid[b] => at = "iderw" /\ on = b
    OBVIOUS
  <2> HIDE DEF at, on
  <2>6. /\ locked'[b] = p /\ \A c \in Buf : c # b => locked'[c] = locked[c]
        /\ pc'[p] = at /\ cur'[p] = on
        /\ \A q \in Proc : q # p => pc'[q] = pc[q] /\ cur'[q] = cur[q]
    BY <2>1 DEF BcacheInv, BcacheTypes, Threads
  <2>7. ASSUME NEW q \in Proc, q # p PROVE CallOf(q)'
      BY <1>6, <2>6, <2>7, Bounds, <1>1, CallKept DEF bufvars
  <2>8. CallOf(p)'
      BY <1>1, <1>3, <2>2, <2>6, <1>2 DEF bufvars, CallOf, InDriver, OutsideLock
  <2>9. RefcntExact'
      BY <1>2, <1>6, <2>2, <2>6, Bounds, <1>1, UsersKept DEF Users
  <2>10. QueueActive' /\ CommandData'
      BY <1>1, <1>6, <2>2, <2>6, Bounds, QueueKept DEF Waits, bufvars, idevars
  <2> QED
    BY <2>2, Bounds, <1>1, <2>1, <1>4, <2>7, <2>8, <2>9, <2>10, Zenon
      DEF BcacheInv, Calls, BcacheTypes, Flags, Driver, bufvars, idevars, Threads, InDriver
<1> QED
  BY <1>5, <1>6

\* releasesleep: the thread is still counted until brelse has bcache.lock.
LEMMA ReleasesleepInv ==
  ASSUME BcacheInv, NEW p \in Proc, NEW b \in Buf, Releasesleep(p, b)
  PROVE  BcacheInv'
<1>1. /\ pc[p] = "run" /\ locked[b] = p
      /\ locked' = [locked EXCEPT ![b] = NoProc]
      /\ pc' = [Wakes(b) EXCEPT ![p] = "brelse"] /\ cur' = [cur EXCEPT ![p] = b]
      /\ UNCHANGED <<bufvars, refcnt, list, idevars, writes, panicked>>
  BY DEF Releasesleep
<1>2. /\ cur[p] = NoBuf /\ valid[b] /\ blockno[b] # NoBlock /\ b # NoBuf
      /\ \A c \in Buf : locked[c] = p => valid[c]
  BY <1>1, Bounds DEF BcacheInv, Calls, CallOf, FlagsSound
<1>3. /\ pc'[p] = "brelse" /\ cur'[p] = b
      /\ locked'[b] = NoProc /\ \A c \in Buf : c # b => locked'[c] = locked[c]
      /\ \A q \in Proc : q # p => cur'[q] = cur[q]
  BY <1>1 DEF BcacheInv, BcacheTypes, Threads, Wakes
<1>4. \A q \in Proc : q # p => pc'[q] = pc[q] \/ (pc[q] = "locksleep" /\ pc'[q] = "lock")
  BY <1>1 DEF Wakes
<1>5. Threads'
    BY <1>3, <1>4, <1>1, Bounds DEF BcacheInv, BcacheTypes, Threads, OutsideLock, Wakes
<1>8. Calls'
  <2>1. ASSUME NEW q \in Proc, q # p PROVE CallOf(q)'
      BY <1>1, <1>3, <2>1, Bounds, <1>4, CallKept DEF bufvars
  <2>2. CallOf(p)'
      BY <1>1, <1>2, <1>3, Bounds DEF bufvars, CallOf, InDriver, OutsideLock
  <2> QED
    BY <2>1, <2>2 DEF Calls
<1>9. RefcntExact'
  <2>1. ASSUME NEW c \in Buf PROVE Users(c)' = Users(c)
    BY <1>1, <1>2, <1>3, Bounds DEF Users
  <2> QED
    BY <1>1, <2>1, UsersKept
<1>10. QueueActive' /\ CommandData'
  <2>1. ASSUME NEW q \in Proc, NEW c \in Buf PROVE Waits(q, c)' <=> Waits(q, c)
    BY <1>1, <1>3, <1>4, Bounds DEF Waits
  <2> QED
    BY <1>1, <2>1, QueueKept DEF bufvars, idevars
<1> QED
  BY <1>5, <1>1, <1>8, <1>9, <1>10, Zenon
    DEF BcacheInv, Listed, OneBuffer, FlagsSound, bufvars, BcacheTypes, Flags, Driver,
       idevars

\* brelse's count: the thread that counted itself stops, and the last one moves
\* the buffer to the front of the list.
LEMMA BrelseInv ==
  ASSUME BcacheInv, NEW p \in Proc, Brelse(p)
  PROVE  BcacheInv'
<1>1. pc[p] = "brelse"
  BY DEF Brelse
<1>2. PICK b \in Buf : b = cur[p] /\ p \in Users(b) /\ blockno[b] # NoBlock
  BY <1>1, InCall
<1>3. /\ refcnt' = [refcnt EXCEPT ![b] = refcnt[b] - 1]
      /\ list' = Fronted(b) \/ list' = list
      /\ pc' = [pc EXCEPT ![p] = "run"] /\ cur' = [cur EXCEPT ![p] = NoBuf]
      /\ UNCHANGED <<bufvars, locked, idevars, writes, panicked>>
  BY <1>2 DEF Brelse, Drops
<1>4. /\ locked[b] # p /\ b # NoBuf
      /\ \A c \in Buf : locked[c] = p => valid[c]
  BY <1>1, <1>2, Bounds DEF BcacheInv, Calls, CallOf, OutsideLock
<1>5. refcnt' \in [Buf -> Nat]
  <2>1. refcnt[b] \in Nat /\ refcnt[b] # 0
      BY <1>2, UsersChange, Zenon DEF BcacheInv, BcacheTypes
  <2> QED
    BY <1>3, <2>1 DEF BcacheInv, BcacheTypes
<1>6. list' \in [Buf -> Buf] /\ Listed'
  <2>1. list \in [Buf -> Buf] /\ Listed
    BY DEF BcacheInv, BcacheTypes
  <2>2. CASE list' = Fronted(b)
      BY <2>1, FrontedListed, <2>2, Zenon DEF Listed
  <2>3. CASE list' = list
    BY <2>1, <2>3 DEF Listed
  <2> QED
    BY <1>3, <2>2, <2>3
<1>10. /\ pc'[p] = "run" /\ cur'[p] = NoBuf
       /\ \A q \in Proc : q # p => pc'[q] = pc[q] /\ cur'[q] = cur[q]
  BY <1>3 DEF BcacheInv, BcacheTypes, Threads
<1>11. Calls'
    BY <1>3, <1>10, CallKept, <1>4 DEF bufvars, CallOf, InDriver, OutsideLock, Calls
<1>12. RefcntExact'
  <2>1. Users(b)' = Users(b) \ {p}
    BY <1>2, <1>3, <1>4, <1>10 DEF Users
  <2>2. ASSUME NEW c \in Buf, c # b PROVE Users(c)' = Users(c)
    BY <1>2, <1>3, <1>10, <2>2, Bounds DEF Users
  <2>3. refcnt'[b] = Cardinality(Users(b)')
    BY <1>2, <1>3, <2>1, UsersChange, Zenon DEF BcacheInv, BcacheTypes
  <2>4. ASSUME NEW c \in Buf, c # b PROVE refcnt'[c] = Cardinality(Users(c)')
    BY <1>3, <2>2, <2>4, UserFacts DEF BcacheInv, BcacheTypes
  <2> QED
    BY <2>3, <2>4 DEF RefcntExact, Users
<1>13. QueueActive' /\ CommandData'
    BY <1>1, <1>3, <1>10, QueueKept DEF Waits, bufvars, idevars
<1> QED
  BY Bounds, <1>5, <1>3, <1>6, <1>11, <1>12, <1>13, Zenon
    DEF BcacheInv, OneBuffer, FlagsSound, bufvars, BcacheTypes, Flags, Driver, idevars,
       Threads

\* A change of a buffer, by its holder and with its contents known.
LEMMA ChangeFrame ==
  ASSUME BcacheInv, NEW p \in Proc, NEW b \in Buf, pc[p] = "run", locked[b] = p
  PROVE  /\ cur[p] = NoBuf /\ valid[b] /\ blockno[b] # NoBlock /\ b # NoBuf
         /\ \A c \in Buf : locked[c] = p => valid[c]
         /\ \A q \in Proc, c \in Buf : Waits(q, c) => c # b
         /\ \A q \in Proc : q # p /\ q \in Users(b) => pc[q] \in OutsideLock
  BY Bounds DEF BcacheInv, Calls, CallOf, FlagsSound, Waits, Users, BcacheTypes, Threads

\* A thread that waits for a buffer's lock depends on none of its flags.
LEMMA WaiterKept ==
  ASSUME BcacheInv, NEW q \in Proc, pc'[q] = pc[q], cur'[q] = cur[q],
         UNCHANGED <<blockno, valid, locked>>,
         \A c \in Buf : q \in Users(c) => dirty'[c] = dirty[c] \/ pc[q] \in OutsideLock
  PROVE  CallOf(q)'
<1>1. CASE pc[q] \in OutsideLock
  BY <1>1 DEF BcacheInv, Calls, CallOf, InDriver, OutsideLock
<1>2. CASE pc[q] \notin OutsideLock
  BY <1>2, CallKept
<1> QED
  BY <1>1, <1>2

\* A holder changes a buffer and leaves it to the log.
LEMMA LogWriteInv ==
  ASSUME BcacheInv, NEW p \in Proc, NEW b \in Buf, LogWrite(p, b)
  PROVE  BcacheInv'
<1>1. /\ pc[p] = "run" /\ locked[b] = p /\ writes < MaxWrites /\ writes' = writes + 1
      /\ data' = [data EXCEPT ![b] = writes'] /\ dirty' = [dirty EXCEPT ![b] = TRUE]
      /\ UNCHANGED <<blockno, valid, refcnt, locked, list, idevars, pc, cur, panicked>>
  BY DEF LogWrite
<1>2. /\ cur[p] = NoBuf /\ valid[b] /\ blockno[b] # NoBlock
      /\ \A c \in Buf : locked[c] = p => valid[c]
      /\ \A q \in Proc, c \in Buf : Waits(q, c) => c # b
      /\ \A q \in Proc : q # p /\ q \in Users(b) => pc[q] \in OutsideLock
  BY <1>1, ChangeFrame
<1>3. writes' \in Value
    BY <1>1, BcacheAssumption DEF BcacheInv, BcacheTypes, Value
<1>4. BcacheTypes'
  BY <1>1, <1>3, Zenon DEF BcacheInv, BcacheTypes, Flags, Threads, Driver, idevars
<1>5. dirty'[b] /\ \A c \in Buf : c # b => dirty'[c] = dirty[c] /\ data'[c] = data[c]
  BY <1>1 DEF BcacheInv, BcacheTypes, Flags
<1>7. Calls'
  <2>1. ASSUME NEW q \in Proc, q # p PROVE CallOf(q)'
    BY <1>1, <1>2, <1>5, <2>1, WaiterKept, Zenon
  <2>2. CallOf(p)'
    BY <1>1, <1>2, Zenon DEF CallOf, InDriver, OutsideLock
  <2> QED
    BY <2>1, <2>2 DEF Calls
<1>9. QueueActive' /\ CommandData'
    BY <1>1, <1>2, <1>5, QueueKept, Zenon DEF Waits, idevars
<1> QED
  BY UsersKept, <1>1, <1>2, <1>5, <1>4, <1>7, <1>9, Zenon
    DEF BcacheInv, Listed, OneBuffer, FlagsSound, Users

\* bwrite: the holder enters iderw with a dirty buffer.
LEMMA BwriteInv ==
  ASSUME BcacheInv, NEW p \in Proc, NEW b \in Buf, Bwrite(p, b)
  PROVE  BcacheInv'
<1>1. /\ pc[p] = "run" /\ locked[b] = p /\ dirty' = [dirty EXCEPT ![b] = TRUE]
      /\ pc' = [pc EXCEPT ![p] = "iderw"] /\ cur' = [cur EXCEPT ![p] = b]
      /\ UNCHANGED <<blockno, valid, refcnt, locked, list, idevars, panicked>>
  BY DEF Bwrite
<1>2. /\ cur[p] = NoBuf /\ valid[b] /\ blockno[b] # NoBlock /\ b # NoBuf
      /\ \A c \in Buf : locked[c] = p => valid[c]
      /\ \A q \in Proc, c \in Buf : Waits(q, c) => c # b
      /\ \A q \in Proc : q # p /\ q \in Users(b) => pc[q] \in OutsideLock
  BY <1>1, ChangeFrame
<1>3. writes' \in Value /\ data' \in [Buf -> Value] /\ \A c \in Buf : c # b => data'[c] = data[c]
    BY BcacheAssumption DEF BcacheInv, BcacheTypes, Value, Bwrite
<1>5. BcacheTypes'
  BY Bounds, <1>1, <1>3, Zenon
    DEF BcacheInv, BcacheTypes, Flags, Driver, idevars, Threads, InDriver
<1>6. dirty'[b] /\ \A c \in Buf : c # b => dirty'[c] = dirty[c]
  BY <1>1 DEF BcacheInv, BcacheTypes, Flags
<1>8. /\ pc'[p] = "iderw" /\ cur'[p] = b
      /\ \A q \in Proc : q # p => pc'[q] = pc[q] /\ cur'[q] = cur[q]
  BY <1>1 DEF BcacheInv, BcacheTypes, Threads
<1>9. Calls'
  <2>1. ASSUME NEW q \in Proc, q # p PROVE CallOf(q)'
    BY <1>1, <1>2, <1>6, <1>8, <2>1, WaiterKept, Zenon
  <2>2. CallOf(p)'
    BY <1>1, <1>2, <1>6, <1>8, Zenon DEF CallOf, InDriver, OutsideLock
  <2> QED
    BY <2>1, <2>2 DEF Calls
<1>11. QueueActive' /\ CommandData'
  <2>1. ASSUME NEW q \in Proc, NEW c \in Buf PROVE Waits(q, c)' <=> Waits(q, c)
    BY <1>1, <1>8 DEF Waits
  <2> QED
    BY <1>1, <1>2, <1>3, <1>6, <2>1, QueueKept, Zenon DEF idevars
<1> QED
  BY <1>8, Bounds, UsersKept, <1>1, <1>2, <1>6, <1>5, <1>9, <1>11
    DEF BcacheInv, Listed, OneBuffer, FlagsSound, Users

\* The command idestart gives to the controller.
LEMMA IdestartFacts ==
  ASSUME BcacheInv, NEW b \in Buf
  PROVE  /\ Idestart(b) \in [st : {"idle", "busy", "done"}, write : BOOLEAN,
                             block : 0..NBLOCK, data : Value, err : BOOLEAN]
         /\ Idestart(b).st = "busy" /\ Idestart(b).block = blockno[b]
         /\ Idestart(b).write = dirty[b] /\ ~Idestart(b).err
         /\ Idestart(b).data = IF dirty[b] THEN data[b] ELSE 0
  BY Bounds DEF BcacheInv, BcacheTypes, Flags, Idestart

\* iderw queues a request, and starts the disk when it is the only one.
LEMMA IderwInv ==
  ASSUME BcacheInv, NEW p \in Proc, Iderw(p)
  PROVE  BcacheInv'
<1>1. pc[p] = "iderw"
  BY DEF Iderw
<1>2. PICK b \in Buf : b = cur[p] /\ p \in Users(b) /\ blockno[b] # NoBlock
  BY <1>1, InCall
<1>3. /\ idequeue' = Append(idequeue, b)
      /\ ctl' = IF Len(idequeue') = 1 THEN Idestart(b) ELSE ctl
      /\ pc' = [pc EXCEPT ![p] = "idesleep"]
      /\ UNCHANGED <<bufvars, refcnt, locked, list, disk, cur, writes, panicked>>
  BY <1>2 DEF Iderw, Starts
<1>4. /\ locked[b] = p /\ b # NoBuf /\ (valid[b] => dirty[b])
      /\ \A c \in Buf : locked[c] = p /\ c # b => valid[c]
  BY <1>1, <1>2, Bounds DEF BcacheInv, Calls, CallOf, InDriver
<1>5. \A c \in Buf : c \in Range(idequeue) <=> \E q \in Proc : Waits(q, c)
  BY DEF BcacheInv, QueueActive, Waits
<1>7. /\ idequeue \in Seq(Buf) /\ IsInjective(idequeue) /\ (idequeue = <<>> <=> ctl.st = "idle")
  BY DEF BcacheInv, BcacheTypes, Driver, QueueActive
<1>8. /\ idequeue' \in Seq(Buf) /\ idequeue' # <<>> /\ IsInjective(idequeue')
      /\ \A c : c \in Range(idequeue') <=> c \in Range(idequeue) \/ c = b
      /\ idequeue = <<>> => Head(idequeue') = b /\ ctl' = Idestart(b)
      /\ idequeue # <<>> => Head(idequeue') = Head(idequeue) /\ ctl' = ctl
  BY <1>1, <1>4, <1>5, <1>3, <1>7, QueueAppend DEF Waits
<1>11. BcacheTypes'
  BY <1>8, IdestartFacts, <1>3, Zenon
    DEF BcacheInv, BcacheTypes, Flags, bufvars, Threads, InDriver, Driver
<1>13. pc'[p] = "idesleep" /\ \A q \in Proc : q # p => pc'[q] = pc[q]
  BY <1>3 DEF BcacheInv, BcacheTypes, Threads
<1>14. Calls'
  <2>1. ASSUME NEW q \in Proc, q # p PROVE CallOf(q)'
    BY <1>3, <1>13, <2>1, CallKept DEF bufvars
  <2>2. CallOf(p)'
    BY <1>2, <1>3, <1>4, <1>13 DEF bufvars, CallOf, InDriver, OutsideLock
  <2> QED
    BY <2>1, <2>2 DEF Calls
<1>16. \A c \in Buf : c \in Range(idequeue') <=> \E q \in Proc : Waits(q, c)'
    BY <1>1, <1>2, <1>3, <1>13, <1>4, <1>5, <1>8 DEF Waits
<1>17. /\ ctl'.st # "idle" /\ ctl'.block = blockno'[Head(idequeue')]
       /\ ctl'.write = dirty'[Head(idequeue')]
       /\ ctl'.data = IF dirty'[Head(idequeue')] THEN data'[Head(idequeue')] ELSE 0
    BY <1>3, <1>8, IdestartFacts, <1>7 DEF bufvars, BcacheInv, QueueActive, CommandData
<1>18. QueueActive'
  BY <1>8, <1>16, <1>17 DEF QueueActive, Waits
<1>19. CommandData'
  BY <1>17 DEF CommandData
<1> QED
  BY UsersKept, <1>3, <1>11, <1>14, <1>18, <1>19
    DEF BcacheInv, Listed, OneBuffer, FlagsSound, bufvars, Users

\* The loop of iderw ends: the request it slept for is done.
LEMMA IderwReturnInv ==
  ASSUME BcacheInv, NEW p \in Proc, IderwReturn(p)
  PROVE  BcacheInv'
<1>1. pc[p] = "idewake" /\ UNCHANGED <<bufvars, refcnt, locked, list, idevars, writes, panicked>>
  BY DEF IderwReturn
<1>2. PICK b \in Buf : b = cur[p] /\ p \in Users(b) /\ blockno[b] # NoBlock
  BY <1>1, InCall
<1>3. /\ locked[b] = p /\ b # NoBuf /\ valid[b] /\ ~dirty[b]
      /\ \A c \in Buf : locked[c] = p /\ c # b => valid[c]
  BY <1>1, <1>2, Bounds DEF BcacheInv, Calls, CallOf, InDriver
<1>4. pc' = [pc EXCEPT ![p] = "run"] /\ cur' = [cur EXCEPT ![p] = NoBuf]
  BY <1>2, <1>3 DEF IderwReturn
<1>8. /\ pc'[p] = "run" /\ cur'[p] = NoBuf
      /\ \A q \in Proc : q # p => pc'[q] = pc[q] /\ cur'[q] = cur[q]
  BY <1>4 DEF BcacheInv, BcacheTypes, Threads
<1>9. Calls'
    BY <1>1, <1>8, CallKept, <1>3 DEF bufvars, Calls, CallOf, InDriver, OutsideLock
<1>10. RefcntExact'
  <2>1. ASSUME NEW c \in Buf PROVE Users(c)' = Users(c)
    BY <1>1, <1>2, <1>3, <1>8, Bounds DEF Users
  <2> QED
    BY <1>1, <2>1, UsersKept
<1>11. QueueActive' /\ CommandData'
    BY <1>1, <1>8, QueueKept DEF Waits, bufvars, idevars
<1> QED
  BY <1>4, Bounds, <1>1, <1>9, <1>10, <1>11, Zenon
    DEF BcacheInv, Listed, OneBuffer, FlagsSound, bufvars, BcacheTypes, Flags, Driver,
       idevars, Threads

\* The controller carries out or fails its command; the queue still says which.
LEMMA CompleteInv ==
  ASSUME BcacheInv, Complete
  PROVE  BcacheInv'
<1>1. PICK e \in Faults :
        /\ disk' = IF ctl.write /\ ~e THEN [disk EXCEPT ![ctl.block] = ctl.data] ELSE disk
        /\ ctl' = [ctl EXCEPT !.st = "done", !.err = e]
  BY Zenon DEF Complete
<1>2. ctl.st = "busy" /\ UNCHANGED <<bufvars, refcnt, locked, list, idequeue, pc, cur, writes>>
  BY DEF Complete
<1>4. /\ ctl' \in [st : {"idle", "busy", "done"}, write : BOOLEAN, block : 0..NBLOCK,
                   data : Value, err : BOOLEAN]
      /\ ctl'.st = "done" /\ ctl'.block = ctl.block /\ ctl'.write = ctl.write
      /\ ctl'.data = ctl.data
  BY BcacheAssumption, <1>1, Zenon DEF BcacheInv, BcacheTypes, Driver
<1>6. BcacheTypes'
  BY <1>1, <1>2, <1>4, Zenon
    DEF BcacheInv, BcacheTypes, Driver, Threads, Flags, bufvars
<1>10. QueueActive' /\ CommandData'
  BY <1>2, <1>4, Zenon DEF BcacheInv, QueueActive, CommandData, bufvars
<1> QED
  BY UsersKept, CallKept, <1>2, <1>6, <1>10
    DEF BcacheInv, Listed, OneBuffer, FlagsSound, bufvars, Calls, Users

\* The active request, its buffer and the thread that waits for it.
LEMMA ActiveRequest ==
  ASSUME BcacheInv, idequeue # <<>>
  PROVE  \E b \in Buf, p \in Proc :
           /\ b = Head(idequeue) /\ Waits(p, b) /\ blockno[b] \in Block
           /\ ctl.block = blockno[b] /\ ctl.write = dirty[b]
           /\ ctl.data = IF dirty[b] THEN data[b] ELSE 0
           /\ valid[b] = dirty[b]
<1>2. PICK b \in Buf : b = Head(idequeue) /\ b \in Range(idequeue)
  BY QueueFacts, Zenon DEF BcacheInv, BcacheTypes, Driver
<1>3. PICK p \in Proc : Waits(p, b)
  BY <1>2 DEF BcacheInv, QueueActive, Waits
<1>4. blockno[b] # NoBlock /\ (valid[b] => dirty[b])
  BY <1>3, Bounds DEF BcacheInv, Calls, CallOf, Waits
<1> QED
  BY Bounds, <1>2, <1>3, <1>4
    DEF BcacheInv, FlagsSound, BcacheTypes, Flags, QueueActive, CommandData

\* ideintr finishes the active request, wakes its thread and starts the next.
LEMMA IdeintrInv ==
  ASSUME BcacheInv, Ideintr
  PROVE  BcacheInv'
<1>1. idequeue # <<>> /\ ctl.st = "done"
  BY DEF Ideintr
<1>2. PICK b \in Buf, p \in Proc : b = Head(idequeue) /\ Waits(p, b) /\ blockno[b] \in Block
                                   /\ ctl.block = blockno[b]
  BY <1>1, ActiveRequest
<1>3. /\ idequeue' = Tail(idequeue)
      /\ data' = IF dirty[b] \/ ctl.err THEN data ELSE [data EXCEPT ![b] = disk[blockno[b]]]
      /\ valid' = [valid EXCEPT ![b] = TRUE] /\ dirty' = [dirty EXCEPT ![b] = FALSE]
      /\ pc' = [q \in Proc |-> IF pc[q] = "idesleep" /\ cur[q] = b THEN "idewake" ELSE pc[q]]
      /\ ctl' = NextRequest(Tail(idequeue))
      /\ UNCHANGED <<blockno, refcnt, locked, list, disk, cur, writes, panicked>>
  BY <1>2 DEF Ideintr
<1>4. /\ idequeue \in Seq(Buf) /\ IsInjective(idequeue)
      /\ \A c \in Buf : c \in Range(idequeue) <=> \E q \in Proc : Waits(q, c)
  BY DEF BcacheInv, BcacheTypes, Driver, QueueActive, Waits
<1>5. /\ idequeue' \in Seq(Buf) /\ IsInjective(idequeue')
      /\ \A c : c \in Range(idequeue') <=> c \in Range(idequeue) /\ c # b
  BY <1>1, <1>2, <1>3, <1>4, QueueTail
<1>6. \A c \in Buf : c # b => valid'[c] = valid[c] /\ dirty'[c] = dirty[c] /\ data'[c] = data[c]
  BY <1>3 DEF BcacheInv, BcacheTypes, Flags
<1>7. valid'[b] /\ ~dirty'[b]
  BY <1>3 DEF BcacheInv, BcacheTypes, Flags
<1>8. idequeue' # <<>> => Head(idequeue') \in Buf /\ Head(idequeue') # b
  BY <1>5, QueueFacts
<1>9. /\ idequeue' = <<>> => ctl' = Idle
      /\ idequeue' # <<>> => ctl' = Idestart(Head(idequeue'))
  BY <1>3 DEF NextRequest
<1>10. Driver'
    BY <1>9, IdleType, <1>8, IdestartFacts, <1>3, <1>5, Zenon
    DEF BcacheInv, BcacheTypes, Driver
<1>14. Listed' /\ OneBuffer' /\ FlagsSound'
  <2>2. FlagsSound'
    BY <1>2, <1>3, <1>6, <1>7, Bounds DEF BcacheInv, FlagsSound
  <2> QED
    BY <1>3, <2>2 DEF BcacheInv, Listed, OneBuffer
<1>15. ASSUME NEW q \in Proc, cur[q] = b, pc[q] \in InDriver PROVE q = p
  BY <1>2, <1>15 DEF BcacheInv, Calls, CallOf, Waits
<1>16. pc'[p] = "idewake" /\ cur'[p] = b /\ \A q \in Proc : q # p => pc'[q] = pc[q]
    BY <1>2, <1>3, <1>15 DEF Waits, InDriver
<1>17. Calls'
  <2>1. ASSUME NEW q \in Proc, q # p PROVE CallOf(q)'
    <3>2. CASE cur[q] = b
      <4>2. \A c \in Buf : locked[c] = q /\ cur[q] # c => valid'[c]
          BY <3>2, <1>6 DEF BcacheInv, Calls, CallOf
      <4> QED
        BY <3>2, Bounds, <1>15, <1>3, <1>16, <2>1, <4>2, Zenon
          DEF BcacheInv, Calls, CallOf, InDriver, OutsideLock, BcacheTypes, Threads
    <3>3. CASE cur[q] # b
      BY <1>2, <1>3, <1>6, <1>16, <2>1, <3>3, CallKept, Zenon DEF Users, Waits
    <3> QED
      BY <3>2, <3>3
  <2>2. CallOf(p)'
    <3>2. \A c \in Buf : locked'[c] = p /\ c # b => valid'[c]
      <4>1. cur[p] = b /\ \A c \in Buf : locked[c] = p /\ c # b => valid[c]
        BY <1>2 DEF Waits, BcacheInv, Calls, CallOf
      <4> QED
        BY <1>3, <1>6, <4>1
    <3> QED
      BY <1>2, <1>3, Bounds, <1>7, <1>16, <3>2, Zenon
        DEF CallOf, InDriver, OutsideLock, Waits
  <2> QED
    BY <2>1, <2>2 DEF Calls
<1>19. \A c \in Buf : c \in Range(idequeue') <=> \E q \in Proc : Waits(q, c)'
    BY <1>3, <1>4, <1>5 DEF Waits
<1>20. ASSUME idequeue' # <<>>
       PROVE  /\ ctl'.st # "idle" /\ ctl'.block = blockno'[Head(idequeue')]
              /\ ctl'.write = dirty'[Head(idequeue')]
              /\ ctl'.data = IF dirty'[Head(idequeue')] THEN data'[Head(idequeue')] ELSE 0
  <2>1. PICK c \in Buf : c = Head(idequeue') /\ c # b
    BY <1>8, <1>20
  <2>3. ctl'.st = "busy" /\ ctl'.block = blockno[c] /\ ctl'.write = dirty[c]
        /\ ctl'.data = IF dirty[c] THEN data[c] ELSE 0
    BY <1>9, <1>20, <2>1, IdestartFacts
  <2> QED
    BY <1>3, <1>6, <2>1, <2>3, Zenon
<1>21. QueueActive'
    BY <1>9, <1>5, <1>19, <1>20 DEF Idle, QueueActive, Waits
<1> QED
  BY <1>20, <1>2, <1>10, <1>3, UsersKept, <1>14, <1>17, <1>21, Zenon
    DEF BcacheInv, Users, BcacheTypes, Flags, Driver, Threads, InDriver, CommandData

\* bget panics: nothing else changes.
LEMMA StutterInv ==
  ASSUME BcacheInv, \/ UNCHANGED vars
                    \/ \E p \in Proc, k \in Block : BgetPanic(p, k)
  PROVE  BcacheInv'
<1>1. UNCHANGED <<bufvars, refcnt, locked, list, idevars, pc, cur, writes>>
  BY DEF vars, BgetPanic
<1> QED
  BY QueueKept, UsersKept, CallKept, <1>1, Zenon
    DEF BcacheInv, BcacheTypes, Flags, Threads, Driver, bufvars, idevars, Listed,
       OneBuffer, FlagsSound, Calls, Users, Waits

\* Every step keeps the invariant.
LEMMA NextInv == BcacheInv /\ [Next]_vars => BcacheInv'
  BY BgetCachedInv, BgetRecycleInv, StutterInv, IderwInv, IderwReturnInv, BrelseInv,
     ReleasesleepInv, AcquiresleepInv, LogWriteInv, BwriteInv, CompleteInv, IdeintrInv
  DEF Bget, KernelStep, Release, Next

\* The counts, the list, the flags, the calls and the disk queue of the buffer
\* cache are sound in every reachable state, whether commands of the disk fail or
\* not.
THEOREM BcacheCorrect == Spec => []BcacheInv
  BY InitInv, NextInv, PTL DEF Spec

\* b->refcnt is exact: bget gives no buffer another block while a thread uses it.
THEOREM RefcntCorrect == Spec => []RefcntExact
<1>1. BcacheInv => RefcntExact
  BY DEF BcacheInv
<1> QED
  BY <1>1, BcacheCorrect, PTL

\* The controller works on the first request of ide.c's queue, which holds each
\* buffer once and exactly while its holder sleeps.
THEOREM DiskQueueCorrect == Spec => []QueueActive
<1>1. BcacheInv => QueueActive
  BY DEF BcacheInv
<1> QED
  BY <1>1, BcacheCorrect, PTL
=============================================================================
