----------------------------- MODULE PipeProofs ----------------------------
(***************************************************************************)
(* Proofs about module Pipe, for every buffer size, counter width, number  *)
(* of readers and writers and size of a read or write.                     *)
(***************************************************************************)
EXTENDS Pipe, FiniteSetTheorems, SequenceTheorems, TLAPS

-----------------------------------------------------------------------------
(***************************************************************************)
(* Remainders                                                              *)
(***************************************************************************)

\* Quotient and remainder, as the processor computes them.
LEMMA ModDiv ==
  ASSUME NEW m \in Nat \ {0}, NEW x \in Int
  PROVE  /\ x = (m * (x \div m)) + (x % m)
         /\ x \div m \in Int /\ x % m \in 0..(m - 1)
  BY SMT

\* The remainder is the only one of its form.
LEMMA ModUnique ==
  ASSUME NEW m \in Nat \ {0}, NEW q \in Int, NEW s \in 0..(m - 1),
         NEW x \in Int, x = (m * q) + s
  PROVE  x % m = s
  BY SMT

\* Taking the remainder before an addition changes nothing.
LEMMA ModAdd ==
  ASSUME NEW m \in Nat \ {0}, NEW x \in Int, NEW y \in Int
  PROVE  ((x % m) + y) % m = (x + y) % m
<1> DEFINE q == x \div m
           z == (x % m) + y
           s == z % m
           p == z \div m
<1>1. x = (m * q) + (x % m) /\ q \in Int /\ x % m \in Int
  BY ModDiv
<1>2. z = (m * p) + s /\ z \in Int /\ p \in Int /\ s \in 0..(m - 1)
  <2>1. z \in Int
    BY <1>1
  <2> QED
    BY <2>1, ModDiv
<1>3. x + y = (m * q) + z
  BY <1>1
<1> HIDE DEF q, z, s, p
<1>4. x + y = (m * (q + p)) + s
  BY <1>1, <1>2, <1>3
<1>5. q + p \in Int /\ x + y \in Int
  BY <1>1, <1>2
<1>6. ASSUME NEW r \in Int, NEW v \in Int, v = (m * r) + s PROVE v % m = s
  BY <1>2, <1>6, ModUnique
<1> QED
  BY <1>4, <1>5, <1>6, Zenon DEF s, z

\* Numbers less than m apart have different remainders.
LEMMA ModApart ==
  ASSUME NEW m \in Nat \ {0}, NEW x \in Int, NEW y \in Int,
         x % m = y % m, y < x
  PROVE  x - y >= m
<1> DEFINE q == (x \div m) - (y \div m)
<1>1. q \in Int
  BY ModDiv
<1>2. x - y = m * q
  <2>1. x = (m * (x \div m)) + (x % m) /\ y = (m * (y \div m)) + (y % m)
    BY ModDiv
  <2>2. x \div m \in Int /\ y \div m \in Int /\ x % m \in Int
    BY ModDiv
  <2> QED
    BY <2>1, <2>2
<1> HIDE DEF q
<1>3. CASE q <= 0
  BY <1>1, <1>2, <1>3
<1>4. CASE q >= 1
  BY <1>1, <1>2, <1>4
<1> QED
  BY <1>1, <1>3, <1>4

\* A multiple of m may be taken away.
LEMMA ModShift ==
  ASSUME NEW m \in Nat \ {0}, NEW k \in Nat, k % m = 0, NEW x \in Int
  PROVE  (x - k) % m = x % m
<1> DEFINE q == (x \div m) - (k \div m)
           s == x % m
           z == x - k
<1>1. q \in Int /\ s \in 0..(m - 1) /\ z \in Int
  BY ModDiv
<1>2. z = (m * q) + s
    BY ModDiv
<1> HIDE DEF q, s, z
<1>3. z % m = s
  BY <1>1, <1>2, ModUnique
<1> QED
  BY <1>3 DEF s, z

-----------------------------------------------------------------------------
(***************************************************************************)
(* The counters and the slots of the circular buffer                       *)
(***************************************************************************)
Counter == 0..(CounterMod - 1)

\* The constants are those of a buffer: not empty, and its size divides the
\* number of values of a counter.
LEMMA Sizes ==
  /\ PIPESIZE \in Nat \ {0} /\ CounterMod \in Nat \ {0}
  /\ PIPESIZE < CounterMod /\ CounterMod % PIPESIZE = 0
  BY PipeAssumption

\* A counter stays in its width.
LEMMA AdvanceType ==
  ASSUME NEW n \in Int, NEW k \in Int
  PROVE  Advance(n, k) \in Counter
  BY Sizes, ModDiv DEF Advance, Counter

\* Advancing twice is advancing by the sum, also across the wrap.
LEMMA AdvanceAdd ==
  ASSUME NEW n \in Int, NEW j \in Int, NEW k \in Int
  PROVE  Advance(Advance(n, j), k) = Advance(n, j + k)
<1> DEFINE x == n + j
<1>1. x \in Int
  OBVIOUS
<1> HIDE DEF x
<1>2. ((x % CounterMod) + k) % CounterMod = (x + k) % CounterMod
  BY <1>1, Sizes, ModAdd, Zenon
<1> QED
  BY <1>2 DEF Advance, x

\* The difference of two counters is how far one is ahead of the other.
LEMMA DifferenceAdvances ==
  ASSUME NEW n \in Counter, NEW m \in Counter
  PROVE  /\ (m - n) % CounterMod \in Counter
         /\ Advance(n, (m - n) % CounterMod) = m
<1>1. m - n \in Int /\ n \in Int
  BY DEF Counter
<1>2. (m - n) % CounterMod \in Counter
  BY <1>1, Sizes, ModDiv DEF Counter
<1>3. CASE m >= n
    BY <1>3, Sizes, <1>2 DEF Counter, Advance
<1>4. CASE m < n
    BY <1>4, Sizes, <1>2 DEF Counter, Advance
<1> QED
  BY <1>1, <1>3, <1>4 DEF Counter

\* A counter u ahead of n differs from it by u.
LEMMA AdvanceDifference ==
  ASSUME NEW n \in Counter, NEW u \in Counter
  PROVE  (Advance(n, u) - n) % CounterMod = u
  BY Sizes DEF Advance, Counter

\* A slot is one of the buffer.
LEMMA IndexType ==
  ASSUME NEW n \in Int, NEW k \in Int
  PROVE  Index(n, k) \in 0..(PIPESIZE - 1)
<1>1. Advance(n, k - 1) \in Int
  BY AdvanceType, Sizes DEF Counter
<1> QED
  BY <1>1, Sizes, ModDiv DEF Index

\* The k-th slot after counter n, counted from j further on.
LEMMA IndexAdd ==
  ASSUME NEW n \in Int, NEW j \in Int, NEW k \in Int
  PROVE  Index(Advance(n, j), k) = Index(n, j + k)
  BY AdvanceAdd DEF Index

\* The slot in terms of the unwrapped count: 2^32 is a multiple of PIPESIZE.
LEMMA IndexUnwrapped ==
  ASSUME NEW n \in Counter, NEW k \in 1..PIPESIZE
  PROVE  Index(n, k) = (n + (k - 1)) % PIPESIZE
<1> DEFINE x == n + (k - 1)
<1>1. x \in Int /\ x >= 0 /\ x < 2 * CounterMod
  BY Sizes DEF Counter
<1>2. Index(n, k) = (x % CounterMod) % PIPESIZE
  BY DEF Index, Advance
<1> HIDE DEF x
<1>3. CASE x < CounterMod
    BY <1>1, <1>3, Sizes, <1>2 DEF x
<1>4. CASE x >= CounterMod
  <2>2. (x - CounterMod) % PIPESIZE = x % PIPESIZE
    BY <1>1, Sizes, ModShift, Zenon
  <2> QED
    BY <1>1, <1>4, Sizes, <1>2, <2>2 DEF x
<1> QED
  BY <1>1, <1>3, <1>4, Sizes

\* PIPESIZE consecutive bytes have different slots.
LEMMA IndexInjective ==
  ASSUME NEW n \in Counter, NEW j \in 1..PIPESIZE, NEW k \in 1..PIPESIZE,
         Index(n, j) = Index(n, k)
  PROVE  j = k
<1> DEFINE x == n + (j - 1)
           y == n + (k - 1)
<1>1. x \in Int /\ y \in Int /\ x - y = j - k /\ y - x = k - j
  BY Sizes DEF Counter
<1>2. x % PIPESIZE = y % PIPESIZE
  BY IndexUnwrapped
<1> HIDE DEF x, y
<1>3. y < x => x - y >= PIPESIZE
  BY <1>1, <1>2, Sizes, ModApart, Zenon
<1>4. x < y => y - x >= PIPESIZE
  BY <1>1, <1>2, Sizes, ModApart, Zenon
<1> QED
  BY <1>1, <1>3, <1>4, Sizes

-----------------------------------------------------------------------------
(***************************************************************************)
(* The inductive invariant                                                 *)
(***************************************************************************)
PipeTypes ==
  /\ nread \in Counter /\ nwrite \in Counter
  /\ data \in [0..(PIPESIZE - 1) -> Byte]
  /\ readopen \in BOOLEAN /\ writeopen \in BOOLEAN /\ freed \in BOOLEAN
  /\ ref \in [{"r", "w"} -> Nat]
  /\ pc \in [Thread -> {"user", "call", "sleep", "asleep", "pipeclose", "closed"}]
  /\ addr = [t \in Thread |-> addr[t]]
  /\ got \in [Reader -> Seq(Byte)]
  /\ killed \in [Thread -> BOOLEAN]

\* The bytes in transit fit the buffer.
Fits == Used <= PIPESIZE

\* A writer has bytes left, and a reader room asked for, just while in a call.
CallArgs ==
  /\ \A w \in Writer : /\ addr[w] \in Seq(Byte)
                       /\ pc[w] \in {"user", "pipeclose", "closed"} => addr[w] = <<>>
  /\ \A r \in Reader : /\ addr[r] \in Nat
                       /\ pc[r] \in {"call", "sleep", "asleep"} => addr[r] # 0

Holders(e) == {t \in Thread : End(t) = e /\ pc[t] \notin {"pipeclose", "closed"}}

\* ref counts the descriptors of an end; the process that closed the last one is
\* the only one between fileclose and pipeclose.
RefCounts ==
  /\ \A e \in {"r", "w"} : ref[e] = Cardinality(Holders(e))
  /\ \A t \in Thread : pc[t] = "pipeclose" => ref[End(t)] = 0
  /\ \A t, u \in Thread :
       pc[t] = "pipeclose" /\ pc[u] = "pipeclose" /\ End(t) = End(u) => t = u

PipeInv == PipeTypes /\ Fits /\ CallArgs /\ RefCounts /\ ClosedUnused /\ NoLostWakeup

\* A process holds one end.
LEMMA Ends ==
  /\ \A w \in Writer : w \in Thread /\ End(w) = "w" /\ w \notin Reader
  /\ \A r \in Reader : r \in Thread /\ End(r) = "r" /\ r \notin Writer
  /\ \A t \in Thread : t \in Writer \/ t \in Reader
  BY PipeAssumption DEF Thread, End

\* An end has finitely many holders.
LEMMA HoldersFinite == \A e : IsFiniteSet(Holders(e))
  BY PipeAssumption, FS_Union, FS_Subset, Zenon DEF Thread, Holders

\* The writers' counter is Used ahead of the readers'.
LEMMA UsedFacts ==
  ASSUME PipeTypes, Fits
  PROVE  /\ Used \in 0..PIPESIZE /\ Room \in 0..PIPESIZE /\ Room = PIPESIZE - Used
         /\ nwrite = Advance(nread, Used) /\ Used \in Counter
         /\ nread \in Int /\ nwrite \in Int
<1>1. nread \in Counter /\ nwrite \in Counter
  BY DEF PipeTypes
<1> QED
  BY DifferenceAdvances, <1>1, Sizes DEF Fits, Room, Counter, Used

\* Bytes put into the buffer: the unsigned difference grows by their number.
LEMMA UsedAfterWrite ==
  ASSUME PipeTypes, Fits, NEW k \in 0..Room,
         nwrite' = Advance(nwrite, k), nread' = nread
  PROVE  nwrite' \in Counter /\ Used' = Used + k /\ Room' = Room - k /\ Fits'
<1>1. /\ Used \in 0..PIPESIZE /\ Room = PIPESIZE - Used /\ nwrite = Advance(nread, Used)
      /\ nread \in Int /\ nwrite \in Int /\ k \in Int /\ nread \in Counter
  BY UsedFacts DEF PipeTypes
<1>3. nwrite' = Advance(nread, Used + k)
    BY <1>1, AdvanceAdd
<1>4. Used + k \in Counter /\ Used + k <= PIPESIZE
  BY <1>1, Sizes DEF Counter
<1> QED
  BY AdvanceDifference, <1>3, AdvanceType, <1>1, <1>4, Sizes DEF Fits, Room, Used

\* Bytes taken from the buffer: it shrinks by their number.
LEMMA UsedAfterRead ==
  ASSUME PipeTypes, Fits, NEW k \in 0..Used,
         nread' = Advance(nread, k), nwrite' = nwrite
  PROVE  nread' \in Counter /\ Used' = Used - k /\ Fits'
<1>1. /\ Used \in 0..PIPESIZE /\ nwrite = Advance(nread, Used)
      /\ nread \in Int /\ nwrite \in Int /\ k \in Int
  BY UsedFacts
<1>3. Advance(nread', Used - k) = nwrite
    BY <1>1, AdvanceAdd
<1>4. Used - k \in Counter /\ Used - k <= PIPESIZE
  BY <1>1, Sizes DEF Counter
<1> QED
  BY <1>1, AdvanceType, AdvanceDifference, <1>3, <1>4 DEF Fits, Used

\* A step that closes nothing keeps the reference counts exact.
LEMMA KeepRefs ==
  ASSUME RefCounts, ref' = ref,
         \A t \in Thread : /\ pc[t] = "pipeclose" <=> pc'[t] = "pipeclose"
                           /\ pc[t] = "closed" <=> pc'[t] = "closed"
  PROVE  RefCounts'
  BY DEF Holders, RefCounts

\* A step that closes nothing keeps the ends of the pipe in use.
LEMMA KeepClosed ==
  ASSUME ClosedUnused, UNCHANGED <<readopen, writeopen, freed>>,
         \A t \in Thread : pc[t] = "closed" => pc'[t] = "closed"
  PROVE  ClosedUnused'
  BY Ends DEF ClosedUnused

\* write() enters pipewrite with its buffer.
LEMMA WriteCallInv ==
  ASSUME PipeInv, NEW w \in Writer, WriteCall(w)
  PROVE  PipeInv'
<1> USE DEF pipevars
<1>2. PICK s \in Seq(Byte) : addr' = [addr EXCEPT ![w] = s]
  BY PipeAssumption, Zenon DEF WriteCall
<1> QED
  BY KeepClosed, KeepRefs, Ends, <1>2, Zenon
    DEF PipeInv, WriteCall, PipeTypes, Fits, Used, CallArgs, NoLostWakeup, Room

\* What a stretch of pipewrite sends and what is left.
Sent(w) == Least(Len(addr[w]), Room)
Rest(w) == SubSeq(addr[w], Sent(w) + 1, Len(addr[w]))

\* pipewrite's loop fills the room there is, or sends all: bytes are left only
\* when the pipe is full.
LEMMA WriteFacts ==
  ASSUME PipeInv, NEW w \in Writer, PipeWrite(w)
  PROVE  /\ Sent(w) \in 0..Room /\ Sent(w) \in 0..Len(addr[w]) /\ Len(addr[w]) \in Nat
         /\ Rest(w) \in Seq(Byte) /\ Len(Rest(w)) = Len(addr[w]) - Sent(w)
         /\ nwrite' \in Counter /\ Used' = Used + Sent(w) /\ Fits'
         /\ Rest(w) # <<>> => Room' = 0
<1>1. addr[w] \in Seq(Byte) /\ Len(addr[w]) \in Nat
  BY DEF PipeInv, CallArgs
<1>2. Room \in 0..PIPESIZE /\ Used \in Nat /\ PIPESIZE \in Nat
  BY UsedFacts, Sizes DEF PipeInv
<1>3. /\ Sent(w) \in 0..Room /\ Sent(w) \in 0..Len(addr[w])
      /\ Sent(w) = Room \/ Sent(w) = Len(addr[w])
  BY <1>1, <1>2 DEF Sent, Least
<1>4. Rest(w) \in Seq(Byte) /\ Len(Rest(w)) = Len(addr[w]) - Sent(w)
  <2>1. ASSUME NEW s \in Seq(Byte), NEW a \in 0..Len(s)
        PROVE  /\ SubSeq(s, a + 1, Len(s)) \in Seq(Byte)
               /\ Len(SubSeq(s, a + 1, Len(s))) = Len(s) - a
    BY <2>1, SubSeqProperties
  <2> QED
    BY <1>1, <1>3, <2>1 DEF Rest
<1>7. Rest(w) # <<>> => Sent(w) # Len(addr[w])
  BY <1>1, <1>3, <1>4
<1> QED
  BY UsedAfterWrite, <1>1, <1>2, <1>3, <1>4, <1>7 DEF PipeInv, PipeWrite, Fill, Sent

\* The three ways a stretch of pipewrite ends: done, given up, asleep.
LEMMA WriteEnds ==
  ASSUME NEW w \in Writer, PipeWrite(w)
  PROVE  \/ /\ Rest(w) = <<>> /\ addr' = [addr EXCEPT ![w] = <<>>]
            /\ pc' = [Wakeup(Reader) EXCEPT ![w] = "user"]
         \/ /\ ~readopen \/ killed[w]
            /\ Rest(w) # <<>> /\ addr' = [addr EXCEPT ![w] = <<>>]
            /\ pc' = [pc EXCEPT ![w] = "user"]
         \/ /\ readopen /\ ~killed[w]
            /\ Rest(w) # <<>> /\ addr' = [addr EXCEPT ![w] = Rest(w)]
            /\ pc' = [Wakeup(Reader) EXCEPT ![w] = "sleep"]
  BY DEF PipeWrite, FullWakes, Rest, Sent

\* The buffer holds bytes.
LEMMA FillType ==
  ASSUME PipeInv, NEW w \in Writer, PipeWrite(w)
  PROVE  data' \in [0..(PIPESIZE - 1) -> Byte]
<1> DEFINE k == Sent(w)
<1>1. addr[w] \in Seq(Byte) /\ k \in 0..Len(addr[w]) /\ Len(addr[w]) \in Nat
  BY WriteFacts DEF PipeInv, CallArgs
<1>2. data' = [j \in DOMAIN data |->
                IF \E m \in 1..k : Index(nwrite, m) = j
                  THEN addr[w][CHOOSE m \in 1..k : Index(nwrite, m) = j] ELSE data[j]]
  BY DEF PipeWrite, Fill, Sent
<1> HIDE DEF k
<1>3. ASSUME NEW j \in 0..(PIPESIZE - 1), \E m \in 1..k : Index(nwrite, m) = j
      PROVE  addr[w][CHOOSE m \in 1..k : Index(nwrite, m) = j] \in Byte
    BY <1>1, <1>3
<1> QED
  BY <1>2, <1>3, Zenon DEF PipeInv, PipeTypes

\* pipewrite, between getting p->lock and its sleep or return.
LEMMA PipeWriteInv ==
  ASSUME PipeInv, NEW w \in Writer, PipeWrite(w)
  PROVE  PipeInv'
<1>1. w \in Thread /\ w \notin Reader /\ pc[w] = "call"
  BY Ends DEF PipeWrite
<1>2. UNCHANGED <<nread, readopen, writeopen, freed, ref, got, killed>>
  BY DEF PipeWrite
<1>3. /\ \A t \in Thread \ {w} : pc'[t] # pc[t] =>
            pc[t] = "asleep" /\ pc'[t] = "call" /\ t \in Reader
      /\ pc'[w] \in {"user", "sleep"} /\ DOMAIN pc' = Thread
      /\ pc' = [t \in Thread |-> pc'[t]]
  BY <1>1, WriteEnds, Zenon DEF PipeInv, PipeTypes, Wakeup
<1>4. PipeTypes'
  <2>1. pc' \in [Thread -> {"user", "call", "sleep", "asleep", "pipeclose", "closed"}]
    BY <1>1, <1>3 DEF PipeInv, PipeTypes
  <2> QED
    BY <1>1, WriteEnds, <1>2, <2>1, FillType, WriteFacts, Zenon DEF PipeInv, PipeTypes
<1>6. CallArgs'
  <2>1. \A r \in Reader : addr'[r] = addr[r]
    BY <1>1, Ends, WriteEnds DEF PipeInv, PipeTypes
  <2>2. \A v \in Writer \ {w} : addr'[v] = addr[v]
    BY <1>1, Ends, WriteEnds DEF PipeInv, PipeTypes
  <2>4. addr'[w] \in Seq(Byte) /\ (pc'[w] \in {"user", "pipeclose", "closed"} => addr'[w] = <<>>)
    <3>1. Rest(w) \in Seq(Byte) /\ <<>> \in Seq(Byte)
      BY WriteFacts
    <3> QED
      BY <1>1, WriteEnds, <3>1, Zenon DEF PipeInv, PipeTypes, Wakeup
  <2> QED
    BY <1>1, <1>3, <2>1, <2>2, <2>4, Ends DEF PipeInv, CallArgs
<1>9. NoLostWakeup'
  <2>1. ASSUME NEW v \in Writer, pc'[v] \in {"sleep", "asleep"}
        PROVE  Room' = 0 /\ readopen'
    <3>1. CASE v = w
        BY <1>1, <2>1, <3>1, WriteEnds, <1>2, WriteFacts, Zenon
        DEF PipeInv, PipeTypes, Wakeup
    <3>2. CASE v # w
      <4>2. Room = 0 /\ readopen
        BY <1>3, <2>1, <3>2, Ends DEF PipeInv, NoLostWakeup
      <4> QED
        BY WriteFacts, UsedFacts, <1>2, <4>2 DEF Room, PipeInv
    <3> QED
      BY <3>1, <3>2
  <2>2. ASSUME NEW r \in Reader, pc'[r] \in {"sleep", "asleep"}
        PROVE  (Used' = 0 /\ writeopen') \/ \E v \in Writer : killed'[v]
    <3>1. r # w /\ r \in Thread /\ pc[r] = "asleep" /\ pc'[r] = "asleep"
      BY <1>1, <1>3, <2>2, Ends DEF PipeWrite, Unlocked
    <3>3. pc' = [pc EXCEPT ![w] = "user"]
      BY <1>1, <2>2, <3>1, WriteEnds, Zenon DEF PipeInv, PipeTypes, Wakeup
    <3> QED
      BY <1>1, <2>2, WriteEnds, <1>2, <3>1, Zenon
        DEF PipeInv, NoLostWakeup, PipeTypes, Wakeup, ClosedUnused
  <2> QED
    BY <2>1, <2>2 DEF NoLostWakeup
<1> QED
  BY KeepClosed, <1>1, <1>2, <1>3, KeepRefs, WriteFacts, <1>4, <1>6, <1>9 DEF PipeInv

\* read() enters piperead with its size.
LEMMA ReadCallInv ==
  ASSUME PipeInv, NEW r \in Reader, ReadCall(r)
  PROVE  PipeInv'
<1> USE DEF pipevars
<1>1. r \in Thread /\ r \notin Writer
  BY Ends
<1>2. PICK n \in Nat \ {0} : addr' = [addr EXCEPT ![r] = n]
  BY PipeAssumption, Zenon DEF ReadCall
<1>8. NoLostWakeup'
  BY <1>1, Ends DEF ReadCall, PipeInv, PipeTypes, NoLostWakeup, Room, Used
<1> QED
  BY KeepClosed, KeepRefs, Ends, <1>1, <1>2, <1>8, Zenon
    DEF PipeInv, ReadCall, PipeTypes, Fits, Used, CallArgs

\* What a read takes.
Taken(r) == Least(addr[r], Used)

\* piperead takes at most what there is, and nothing only at end of file.
LEMMA ReadFacts ==
  ASSUME PipeInv, NEW r \in Reader, PipeRead(r)
  PROVE  /\ Taken(r) \in 0..Used /\ Taken(r) \in 0..PIPESIZE
         /\ Taken(r) = 0 => Used = 0 /\ ~writeopen
         /\ nread' = Advance(nread, Taken(r)) /\ nwrite' = nwrite /\ nread' \in Counter
         /\ Used' = Used - Taken(r) /\ Fits'
<1>2. Used \in 0..PIPESIZE /\ PIPESIZE \in Nat
  BY UsedFacts, Sizes DEF PipeInv
<1> QED
  BY <1>2, UsedAfterRead DEF PipeInv, PipeRead, Taken, Least, CallArgs

\* A read that returns bytes, or end of file.
LEMMA PipeReadInv ==
  ASSUME PipeInv, NEW r \in Reader, PipeRead(r)
  PROVE  PipeInv'
<1>1. r \in Thread /\ r \notin Writer /\ pc[r] = "call"
  BY Ends DEF PipeRead
<1>2. UNCHANGED <<data, nwrite, readopen, writeopen, freed, ref, killed>>
  BY DEF PipeRead
<1>3. pc' = [Wakeup(Writer) EXCEPT ![r] = "user"] /\ addr' = [addr EXCEPT ![r] = 0]
  BY DEF PipeRead, ReadWakes
<1>4. /\ \A w \in Writer : pc'[w] = IF pc[w] = "asleep" THEN "call" ELSE pc[w]
      /\ \A s \in Reader \ {r} : pc'[s] = pc[s]
      /\ pc'[r] = "user"
      /\ pc' \in [Thread -> {"user", "call", "sleep", "asleep", "pipeclose", "closed"}]
  BY <1>1, <1>3, Ends DEF Wakeup, PipeInv, PipeTypes
<1>5. got' \in [Reader -> Seq(Byte)]
  <2>1. \A m \in 1..Taken(r) : data[Index(nread, m)] \in Byte
    <3>1. \A m \in 1..Taken(r) : Index(nread, m) \in 0..(PIPESIZE - 1)
      BY IndexType, UsedFacts, ReadFacts DEF PipeInv
    <3> QED
      BY <3>1 DEF PipeInv, PipeTypes
  <2> DEFINE s == [m \in 1..Taken(r) |-> data[Index(nread, m)]]
  <2>2. s \in Seq(Byte)
    BY <2>1, ReadFacts, Sizes
  <2>3. got' = [got EXCEPT ![r] = s]
    BY DEF PipeRead, Taken
  <2> HIDE DEF s
  <2> QED
    BY <2>2, <2>3 DEF PipeInv, PipeTypes
<1>8. RefCounts'
  BY <1>1, <1>2, <1>4, Ends, KeepRefs DEF PipeInv
<1>10. NoLostWakeup'
    BY <1>4, <1>2, Ends DEF PipeInv, NoLostWakeup, PipeRead, Unlocked
<1> QED
  BY KeepClosed, Ends, <1>1, <1>2, <1>3, <1>4, <1>5, <1>8, <1>10, ReadFacts, Zenon
    DEF PipeInv, PipeTypes, CallArgs

\* A read that finds the pipe empty.
LEMMA PipeReadEmptyInv ==
  ASSUME PipeInv, NEW r \in Reader, PipeReadEmpty(r)
  PROVE  PipeInv'
  BY Ends, KeepRefs, KeepClosed, Zenon
  DEF pipevars, PipeReadEmpty, PipeInv, PipeTypes, Fits, Used, CallArgs, NoLostWakeup, Room

\* sleep() releases p->lock.
LEMMA SleepInv ==
  ASSUME PipeInv, NEW t \in Thread, Sleep(t)
  PROVE  PipeInv'
  BY Ends, KeepRefs, KeepClosed, Zenon
  DEF pipevars, Sleep, PipeInv, PipeTypes, Fits, Used, CallArgs, NoLostWakeup, Room

\* kill() marks a process and wakes it.
LEMMA KillInv ==
  ASSUME PipeInv, NEW t \in Thread, Kill(t)
  PROVE  PipeInv'
  BY Ends, KeepRefs, KeepClosed, Zenon
  DEF pipevars, Kill, PipeInv, PipeTypes, Fits, Used, CallArgs, NoLostWakeup, Room

\* fileclose: one descriptor less.
LEMMA FileCloseInv ==
  ASSUME PipeInv, NEW t \in Thread, FileClose(t)
  PROVE  PipeInv'
<1> USE DEF pipevars
<1> DEFINE e == End(t)
<1>1. e \in {"r", "w"} /\ pc[t] = "user"
  BY DEF FileClose, End
<1>2. /\ \A u \in Thread \ {t} : pc'[u] = pc[u]
      /\ pc'[t] = IF LastClose(t) THEN "pipeclose" ELSE "closed"
      /\ \A f \in {"r", "w"} : ref'[f] = IF f = e THEN ref[f] - 1 ELSE ref[f]
  BY <1>1 DEF FileClose, PipeInv, PipeTypes
<1>3. t \in Holders(e) /\ ref[e] # 0
  <2>1. t \in Holders(e)
    BY <1>1 DEF Holders
  <2> QED
    BY <1>1, <2>1, HoldersFinite, FS_EmptySet DEF PipeInv, RefCounts
<1>4. Holders(e)' = Holders(e) \ {t}
  BY <1>2 DEF Holders
<1>5. \A f \in {"r", "w"} \ {e} : Holders(f)' = Holders(f)
  BY <1>2 DEF Holders
<1>9. pc'[t] = "pipeclose" => ref'[e] = 0
  BY <1>1, <1>2, <1>3 DEF LastClose, PipeInv, PipeTypes
<1>11. RefCounts'
    BY HoldersFinite, FS_RemoveElement, <1>1, <1>4, <1>5, <1>3, <1>2, <1>9
    DEF PipeInv, RefCounts, End
<1>14. CallArgs'
  BY <1>1, <1>2, Ends DEF FileClose, PipeInv, CallArgs
<1>16. NoLostWakeup'
  BY <1>1, <1>2, Ends DEF FileClose, PipeInv, NoLostWakeup, Room, Used
<1> QED
  BY <1>2, KeepClosed, <1>1, <1>3, <1>11, <1>14, <1>16
    DEF PipeInv, FileClose, PipeTypes, Fits, Used

\* pipeclose runs when the other holders of the end have closed it.
LEMMA OthersClosed ==
  ASSUME PipeInv, NEW t \in Thread, pc[t] = "pipeclose",
         NEW u \in Thread, End(u) = End(t), u # t
  PROVE  pc[u] = "closed"
  BY HoldersFinite, FS_EmptySet DEF End, PipeInv, RefCounts, Holders

\* pipeclose: the end is closed, the other end's sleepers are woken, and the
\* page is freed by the second of the two.
LEMMA PipeCloseInv ==
  ASSUME PipeInv, NEW t \in Thread, PipeClose(t)
  PROVE  PipeInv'
<1>1. /\ pc[t] = "pipeclose" /\ UNCHANGED <<data, nread, nwrite, ref, addr, got, killed>>
      /\ \A u \in Thread : pc[u] # "sleep"
  BY DEF PipeClose, Unlocked
<1>2. /\ \A u \in Thread \ {t} :
            pc'[u] = IF pc[u] = "asleep" /\ (t \in Writer <=> u \in Reader)
                       THEN "call" ELSE pc[u]
      /\ pc'[t] = "closed"
      /\ pc' \in [Thread -> {"user", "call", "sleep", "asleep", "pipeclose", "closed"}]
  BY Ends DEF PipeClose, CloseWakes, Wakeup, PipeInv, PipeTypes
<1>3. PipeTypes'
    BY <1>1, <1>2 DEF PipeClose, PipeInv, PipeTypes
<1>4. Fits'
  BY <1>1 DEF PipeInv, Fits, Used
<1>5. CallArgs'
    BY <1>1, <1>2, Ends DEF PipeInv, CallArgs
<1>6. RefCounts'
    BY <1>1, <1>2 DEF Holders, PipeInv, RefCounts
<1>7. \A u \in Thread : End(u) = End(t) => pc'[u] = "closed"
  BY <1>1, <1>2, OthersClosed
<1>8. \A u \in Thread : pc[u] = "closed" => pc'[u] = "closed"
  BY <1>2
<1>9. CASE t \in Writer
  <2> QED
    BY <1>1, <1>7, <1>2, <1>9, <1>8, Ends, <1>3, <1>4, <1>5, <1>6
      DEF PipeInv, ClosedUnused, PipeClose, PipeTypes, NoLostWakeup
<1>10. CASE t \in Reader
  <2>2. \A r \in Reader : pc'[r] = "closed"
    BY <1>7, <1>10, Ends
  <2> QED
    BY <1>1, <1>2, <1>10, <1>8, <2>2, Ends, <1>3, <1>4, <1>5, <1>6, Zenon
      DEF PipeInv, ClosedUnused, PipeClose, PipeTypes, NoLostWakeup
<1> QED
  BY <1>9, <1>10, Ends

\* The pipe that pipealloc makes, shared by fork.
LEMMA PipeInitInv == Init => PipeInv
<1> SUFFICES ASSUME Init PROVE PipeInv
  OBVIOUS
<1> USE DEF Init
<1>1. \A t \in Thread : pc[t] = "user"
  OBVIOUS
<1>4. /\ ref["r"] = Cardinality(Reader) /\ ref["w"] = Cardinality(Writer)
      /\ ref \in [{"r", "w"} -> Nat]
  BY PipeAssumption, FS_CardinalityType
<1>5. PipeTypes
  <2>1. got \in [Reader -> Seq(Byte)] /\ addr = [t \in Thread |-> addr[t]]
    OBVIOUS
  <2>2. 0 \in Counter
    BY Sizes DEF Counter
  <2> QED
    BY <1>4, <2>1, <2>2, Zenon DEF PipeTypes
<1>8. RefCounts
  BY Ends, <1>1, <1>4, Zenon DEF RefCounts, Holders
<1> QED
  BY Sizes, <1>1, Ends, <1>5, <1>8
    DEF PipeInv, CallArgs, Fits, Used, ClosedUnused, NoLostWakeup

\* Every step keeps the invariant.
LEMMA PipeNextInv == PipeInv /\ [Next]_vars => PipeInv'
<1> SUFFICES ASSUME PipeInv, [Next]_vars PROVE PipeInv'
  OBVIOUS
<1>1. ASSUME NEW w \in Writer, WriteCall(w) \/ PipeWrite(w) PROVE PipeInv'
  BY <1>1, WriteCallInv, PipeWriteInv
<1>2. ASSUME NEW r \in Reader, ReadCall(r) \/ ReadStep(r) PROVE PipeInv'
  BY <1>2, ReadCallInv, PipeReadInv, PipeReadEmptyInv DEF ReadStep
<1>3. ASSUME NEW t \in Thread, Sleep(t) \/ CloseStep(t) \/ Kill(t) PROVE PipeInv'
  BY <1>3, SleepInv, FileCloseInv, PipeCloseInv, KillInv DEF CloseStep
<1>4. CASE UNCHANGED vars
  <2> USE <1>4 DEF vars, pipevars, PipeInv
  <2>4. NoLostWakeup'
    BY DEF NoLostWakeup, Used, Room
  <2> QED
    BY <2>4, Zenon
      DEF PipeTypes, Fits, Used, CallArgs, RefCounts, Holders, ClosedUnused
<1> QED
  BY <1>1, <1>2, <1>3, <1>4 DEF Next

\* The invariant holds of every reachable state.
THEOREM PipeCorrect == Spec => []PipeInv
  BY PipeInitInv, PipeNextInv, PTL DEF Spec

\* Nobody sleeps on a pipe through what it waits for, with any number of readers
\* and writers: the wakeup calls of pipe.c are enough.
THEOREM WakeupCorrect == Spec => []NoLostWakeup
<1>1. PipeInv => NoLostWakeup
  BY DEF PipeInv
<1> QED
  BY <1>1, PipeCorrect, PTL

\* fileclose and pipeclose close an end, and free the page, after its last use.
THEOREM CloseCorrect == Spec => []ClosedUnused
<1>1. PipeInv => ClosedUnused
  BY DEF PipeInv
<1> QED
  BY <1>1, PipeCorrect, PTL

-----------------------------------------------------------------------------
(***************************************************************************)
(* The circular buffer implements the queue                                *)
(***************************************************************************)
Bytes == [k \in 1..Used |-> data[Index(nread, k)]]
Unsent == [w \in Writer |-> addr[w]]

\* The two parts of a sequence of bytes.
LEMMA Parts ==
  ASSUME NEW s \in Seq(Byte), NEW k \in 0..Len(s)
  PROVE  /\ SubSeq(s, 1, k) \in Seq(Byte) /\ Len(SubSeq(s, 1, k)) = k
         /\ \A i \in 1..k : SubSeq(s, 1, k)[i] = s[i]
         /\ SubSeq(s, k + 1, Len(s)) \in Seq(Byte)
         /\ Len(SubSeq(s, k + 1, Len(s))) = Len(s) - k
         /\ \A i \in 1..(Len(s) - k) : SubSeq(s, k + 1, Len(s))[i] = s[k + i]
  BY LenProperties, ElementOfSeq, SubSeqProperties

\* The bytes in transit are a sequence.
LEMMA BytesFacts ==
  ASSUME PipeInv
  PROVE  /\ Bytes \in Seq(Byte) /\ Len(Bytes) = Used
         /\ \A k \in 1..Used : Bytes[k] = data[Index(nread, k)]
<1>1. Used \in Nat /\ nread \in Int
  BY UsedFacts, Sizes DEF PipeInv
<1>2. \A k \in 1..Used : data[Index(nread, k)] \in Byte
    BY <1>1, IndexType DEF PipeInv, PipeTypes
<1> QED
  BY <1>1, <1>2 DEF Bytes

\* The slots pipewrite fills are free, and in the order of its buffer.
LEMMA FillSlots ==
  ASSUME PipeInv, NEW w \in Writer, PipeWrite(w)
  PROVE  /\ \A k \in 1..Used : data'[Index(nread, k)] = data[Index(nread, k)]
         /\ \A m \in 1..Sent(w) : data'[Index(nread, Used + m)] = addr[w][m]
<1> DEFINE s == Sent(w)
<1>1. /\ Used \in 0..PIPESIZE /\ s \in 0..(PIPESIZE - Used) /\ PIPESIZE \in Nat
      /\ nread \in Counter /\ nread \in Int /\ nwrite = Advance(nread, Used)
  BY UsedFacts, WriteFacts, Sizes, Zenon DEF PipeInv, PipeTypes
<1>2. data' = [j \in DOMAIN data |->
                IF \E m \in 1..s : Index(nwrite, m) = j
                  THEN addr[w][CHOOSE m \in 1..s : Index(nwrite, m) = j] ELSE data[j]]
  BY DEF PipeWrite, Fill, Sent
<1> HIDE DEF s
<1>3. \A m \in 1..s : Index(nwrite, m) = Index(nread, Used + m)
    BY <1>1, IndexAdd
<1>4. \A k \in 1..PIPESIZE : Index(nread, k) \in DOMAIN data
  BY <1>1, IndexType DEF PipeInv, PipeTypes
<1>5. \A j, k \in 1..PIPESIZE : Index(nread, j) = Index(nread, k) => j = k
  BY <1>1, IndexInjective
<1>6. ASSUME NEW k \in 1..Used
      PROVE  data'[Index(nread, k)] = data[Index(nread, k)]
    BY <1>1, <1>3, <1>5, <1>2, <1>4
<1>7. ASSUME NEW m \in 1..s
      PROVE  data'[Index(nread, Used + m)] = addr[w][m]
    BY <1>1, <1>3, <1>4, <1>5, <1>2
<1> QED
  BY <1>6, <1>7 DEF s

\* pipewrite appends what it sends, across the end of the buffer and the wrap of
\* the counters.
LEMMA WriteAppends ==
  ASSUME PipeInv, NEW w \in Writer, PipeWrite(w)
  PROVE  Bytes' = Bytes \o SubSeq(addr[w], 1, Sent(w))
<1> DEFINE s == Sent(w)
           t == SubSeq(addr[w], 1, s)
           c == Bytes \o t
<1>1. /\ addr[w] \in Seq(Byte) /\ s \in 0..Len(addr[w]) /\ s \in Nat /\ Used \in Nat
      /\ Used' = Used + s /\ nread' = nread
  <2>3. Used \in Nat
    BY UsedFacts, Sizes DEF PipeInv
  <2>4. nread' = nread
    BY DEF PipeWrite
  <2> QED
    BY WriteFacts, <2>3, <2>4 DEF PipeInv, CallArgs
<1>2. t \in Seq(Byte) /\ Len(t) = s /\ \A i \in 1..s : t[i] = addr[w][i]
  BY <1>1, Parts
<1>3. PipeInv' /\ Bytes \in Seq(Byte) /\ Len(Bytes) = Used
      /\ \A k \in 1..Used : Bytes[k] = data[Index(nread, k)]
  BY PipeWriteInv, BytesFacts
<1>4. /\ Bytes' \in Seq(Byte) /\ Len(Bytes') = Used + s
      /\ \A k \in 1..(Used + s) : Bytes'[k] = data'[Index(nread, k)]
  <2>1. (PipeInv => /\ Bytes \in Seq(Byte) /\ Len(Bytes) = Used
                    /\ \A k \in 1..Used : Bytes[k] = data[Index(nread, k)])'
    BY BytesFacts, PTL
  <2> QED
    BY <1>1, <1>3, <2>1
<1> HIDE DEF t, s
<1>5. /\ c \in Seq(Byte) /\ Len(c) = Used + s
      /\ \A i \in 1..(Used + s) : c[i] = IF i <= Used THEN Bytes[i] ELSE t[i - Used]
  BY <1>2, <1>3, ConcatProperties, ZenonT(30)
<1> HIDE DEF c
<1>6. ASSUME NEW i \in 1..(Used + s) PROVE Bytes'[i] = c[i]
  <2>1. CASE i <= Used
    <3>1. i \in 1..Used
      BY <1>1, <2>1
    <3> QED
      BY <1>4, FillSlots, <1>3, <1>5, <2>1, <3>1
  <2>2. CASE i > Used
    <3>1. PICK m \in 1..s : i = Used + m
      BY <1>1, <2>2
    <3>3. c[i] = t[m]
      BY <1>1, <1>5, <2>2, <3>1
    <3> QED
      BY <3>1, FillSlots, <1>2, <1>4, <3>3, Zenon DEF s
  <2> QED
    BY <1>1, <2>1, <2>2
<1> QED
  BY <1>4, <1>5, <1>6, SeqEqual, Zenon DEF c, t, s

\* piperead returns the oldest bytes and leaves the others.
LEMMA ReadTakes ==
  ASSUME PipeInv, NEW r \in Reader, PipeRead(r)
  PROVE  /\ got' = [got EXCEPT ![r] = SubSeq(Bytes, 1, Taken(r))]
         /\ Bytes' = SubSeq(Bytes, Taken(r) + 1, Len(Bytes))
<1> DEFINE k == Taken(r)
           s == SubSeq(Bytes, 1, k)
           t == SubSeq(Bytes, k + 1, Len(Bytes))
           g == [m \in 1..k |-> data[Index(nread, m)]]
<1>1. /\ k \in 0..Used /\ Used \in Nat /\ Used' = Used - k
      /\ nread' = Advance(nread, k) /\ nread \in Int /\ data' = data
  <2>3. data' = data
    BY DEF PipeRead
  <2> QED
    BY UsedFacts, Sizes, ReadFacts, <2>3 DEF PipeInv
<1>2. PipeInv' /\ Bytes \in Seq(Byte) /\ Len(Bytes) = Used
      /\ \A i \in 1..Used : Bytes[i] = data[Index(nread, i)]
  BY PipeReadInv, BytesFacts
<1>3. got' = [got EXCEPT ![r] = g]
  BY DEF PipeRead, Taken
<1> HIDE DEF k
<1>4. /\ s \in Seq(Byte) /\ Len(s) = k /\ \A i \in 1..k : s[i] = Bytes[i]
      /\ t \in Seq(Byte) /\ Len(t) = Used - k
      /\ \A i \in 1..(Used - k) : t[i] = Bytes[k + i]
  BY <1>1, <1>2, Parts
<1>6. g = s
    BY <1>2, ElementOfSeq, <1>1, <1>4, SeqEqual
<1> HIDE DEF s, t, g
<1>7. /\ Bytes' \in Seq(Byte) /\ Len(Bytes') = Used - k
      /\ \A i \in 1..(Used - k) : Bytes'[i] = data[Index(nread', i)]
  <2>1. (PipeInv => /\ Bytes \in Seq(Byte) /\ Len(Bytes) = Used
                    /\ \A i \in 1..Used : Bytes[i] = data[Index(nread, i)])'
    BY BytesFacts, PTL
  <2> QED
    BY <1>1, <1>2, <2>1
<1>8. ASSUME NEW i \in 1..(Used - k) PROVE Bytes'[i] = t[i]
  <2>1. k + i \in 1..Used /\ k \in Int /\ i \in Int
    BY <1>1
  <2>2. Index(nread', i) = Index(nread, k + i)
    BY <1>1, <2>1, IndexAdd
  <2> QED
    BY <1>2, <1>4, <1>7, <2>1, <2>2, ZenonT(30)
<1> QED
  BY <1>4, <1>7, <1>8, SeqEqual, <1>3, <1>6, Zenon DEF s, t, k

\* A stretch of pipewrite is a Put of what it sends, the end of a write that is
\* given up, or invisible when the pipe was full.
LEMMA WriteRefines ==
  ASSUME PipeInv, NEW w \in Writer, PipeWrite(w)
  PROVE  [Queue!Next]_<<Bytes, Unsent, got, ~writeopen>>
<1> DEFINE k == Sent(w)
<1>1. /\ k \in 0..Room /\ k \in 0..Len(addr[w]) /\ Len(addr[w]) \in Nat
      /\ addr[w] \in Seq(Byte) /\ Used \in 0..PIPESIZE /\ PIPESIZE \in Nat
      /\ Room = PIPESIZE - Used /\ Len(Bytes) = Used /\ Bytes \in Seq(Byte)
  BY WriteFacts, UsedFacts, BytesFacts, Sizes DEF PipeInv, CallArgs
<1>2. /\ got' = got /\ writeopen' = writeopen /\ writeopen /\ w \in Thread
      /\ Bytes' = Bytes \o SubSeq(addr[w], 1, k)
  BY WriteAppends, Ends, Zenon DEF PipeWrite, PipeInv, ClosedUnused
<1>3. \/ Unsent' = [Unsent EXCEPT ![w] = <<>>]
      \/ Unsent' = [Unsent EXCEPT ![w] = Rest(w)]
  BY <1>2, WriteEnds, Ends, Zenon DEF Unsent, PipeInv, PipeTypes
<1>4. Unsent[w] = addr[w] /\ Rest(w) = SubSeq(addr[w], k + 1, Len(addr[w]))
  BY DEF Unsent, Rest
<1> HIDE DEF k
<1>5. CASE k = 0
  <2>1. SubSeq(addr[w], 1, k) = <<>> /\ Rest(w) = addr[w]
      BY <1>1, <1>4, <1>5, Parts, SeqEqual, EmptySeq
  <2>2. Bytes' = Bytes
    BY <1>1, <1>2, <2>1, ConcatEmptySeq, Zenon
  <2>3. CASE Unsent' = [Unsent EXCEPT ![w] = Rest(w)]
      BY <1>4, <2>1, <2>3, <1>2, <2>2, Zenon DEF Unsent
  <2>4. CASE Unsent' = [Unsent EXCEPT ![w] = <<>>]
    <3>1. Unsent'[w] = <<>> /\ <<>> \in Seq(Byte)
      BY <2>4 DEF Unsent
    <3> QED
      BY <1>2, <2>2, <2>4, <3>1, Zenon DEF Queue!Next, Queue!Offer, Unsent, Bytes
  <2> QED
    BY <1>3, <2>3, <2>4
<1>6. CASE k # 0
  <2>1. k \in 1..Len(addr[w]) /\ Len(Bytes) + k <= PIPESIZE /\ k \in 1..PIPESIZE
    BY <1>1, <1>6
  <2>2. PICK n \in 1..PIPESIZE : n = k
    BY <2>1
  <2> QED
    BY <1>2, <1>3, <1>4, <2>1, <2>2, Zenon DEF Queue!Next, Queue!Put, Unsent, Bytes
<1> QED
  BY <1>5, <1>6

\* A read is a Get, or the end of file.
LEMMA ReadRefines ==
  ASSUME PipeInv, NEW r \in Reader, PipeRead(r)
  PROVE  [Queue!Next]_<<Bytes, Unsent, got, ~writeopen>>
<1> DEFINE k == Taken(r)
<1>1. /\ k \in 0..Used /\ k \in 0..PIPESIZE /\ (k = 0 => Used = 0 /\ ~writeopen)
      /\ Used \in 0..PIPESIZE /\ PIPESIZE \in Nat
  BY ReadFacts, UsedFacts, Sizes DEF PipeInv
<1>2. Bytes \in Seq(Byte) /\ Len(Bytes) = Used
  BY BytesFacts
<1>3. /\ got' = [got EXCEPT ![r] = SubSeq(Bytes, 1, k)]
      /\ Bytes' = SubSeq(Bytes, k + 1, Len(Bytes))
  BY ReadTakes
<1>4. writeopen' = writeopen /\ Unsent' = Unsent
  BY Ends DEF PipeRead, Unsent, PipeInv, PipeTypes
<1> HIDE DEF k
<1>5. CASE k = 0
  <2>1. Used = 0 /\ ~writeopen
    BY <1>1, <1>5
  <2>3. SubSeq(Bytes, 1, k) = <<>> /\ SubSeq(Bytes, k + 1, Len(Bytes)) = <<>>
    BY <1>2, <1>5, <2>1, SubSeqEmpty
  <2> QED
    BY <1>2, EmptySeq, <1>3, <1>4, <2>1, <2>3, Zenon
      DEF Queue!Next, Queue!GetNone, Unsent, Bytes
<1>6. CASE k # 0
  <2>1. k \in 1..Len(Bytes) /\ k \in 1..PIPESIZE
    BY <1>1, <1>2, <1>6
  <2>2. PICK n \in 1..PIPESIZE : n = k
    BY <2>1
  <2> QED
    BY <1>3, <1>4, <2>1, <2>2, Zenon DEF Queue!Next, Queue!Get, Unsent, Bytes
<1> QED
  BY <1>5, <1>6

\* The last close of the write end is the end of file; it finds every write over.
LEMMA CloseRefines ==
  ASSUME PipeInv, NEW t \in Thread, PipeClose(t)
  PROVE  [Queue!Next]_<<Bytes, Unsent, got, ~writeopen>>
<1>1. Bytes' = Bytes /\ Unsent' = Unsent /\ got' = got
  BY DEF PipeClose, Bytes, Used, Unsent
<1>2. CASE t \in Writer
  <2> QED
    BY Ends, OthersClosed, <1>2, <1>1, Zenon
      DEF Queue!Next, Queue!CloseWrite, Unsent, Bytes, PipeClose, PipeInv, CallArgs
<1>3. CASE t \notin Writer
    BY <1>3, <1>1 DEF PipeClose, PipeInv, PipeTypes
<1> QED
  BY <1>2, <1>3

\* The steps that move no byte: the entry of a write is an Offer, the others are
\* invisible.
LEMMA QuietRefines ==
  ASSUME PipeInv,
         \/ \E w \in Writer : WriteCall(w)
         \/ \E r \in Reader : ReadCall(r) \/ PipeReadEmpty(r)
         \/ \E t \in Thread : Sleep(t) \/ FileClose(t) \/ Kill(t)
         \/ UNCHANGED vars
  PROVE  [Queue!Next]_<<Bytes, Unsent, got, ~writeopen>>
<1> USE DEF pipevars
<1>1. Bytes' = Bytes /\ got' = got /\ writeopen' = writeopen
  BY DEF WriteCall, ReadCall, PipeReadEmpty, Sleep, FileClose, Kill, vars, Bytes, Used
<1>2. ASSUME NEW w \in Writer, WriteCall(w) PROVE Queue!Next
  <2>2. PICK s \in Buffers : addr' = [addr EXCEPT ![w] = s]
    BY <1>2, Zenon DEF WriteCall
  <2>3. s \in Seq(Byte)
    BY PipeAssumption
  <2>4. Unsent' = [Unsent EXCEPT ![w] = s] /\ Unsent'[w] = s /\ Unsent[w] = <<>>
    BY <1>2, <2>2, Ends, Zenon DEF Unsent, WriteCall, PipeInv, PipeTypes, CallArgs
  <2> QED
    BY <1>1, <2>3, <2>4, Zenon DEF Queue!Next, Queue!Offer, Unsent, Bytes
<1>3. ASSUME NEW r \in Reader, ReadCall(r) \/ PipeReadEmpty(r) PROVE Unsent' = Unsent
  BY <1>3, Ends DEF ReadCall, PipeReadEmpty, Unsent, PipeInv, PipeTypes
<1>4. CASE (\E t \in Thread : Sleep(t) \/ FileClose(t) \/ Kill(t)) \/ UNCHANGED vars
    BY <1>4, <1>1 DEF Sleep, FileClose, Kill, vars, Unsent
<1> QED
  BY <1>1, <1>2, <1>3, <1>4

\* A pipe is a bounded first-in first-out queue, whatever PIPESIZE and the width
\* of its wrapping counters: no byte is lost, duplicated or reordered, and end of
\* file comes after the last byte.
THEOREM QueueCorrect == Spec => ImplementsQueue
<1>1. Init => Queue!Init
    BY PipeInitInv, Sizes, BytesFacts, EmptySeq, Ends
    DEF Init, Used, Unsent, Queue!Init, Bytes
<1>2. PipeInv /\ [Next]_vars => [Queue!Next]_<<Bytes, Unsent, got, ~writeopen>>
  BY WriteRefines, ReadRefines, CloseRefines, QuietRefines DEF Next, ReadStep, CloseStep
<1> QED
  BY <1>1, <1>2, PipeCorrect, PTL DEF Spec, ImplementsQueue, Queue!Spec, Bytes, Unsent
=============================================================================
