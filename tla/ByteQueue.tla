------------------------------ MODULE ByteQueue ------------------------------
(***************************************************************************)
(* What a pipe promises its users: a bounded first-in first-out queue of   *)
(* bytes.  The bytes of one write keep their order but may be interleaved  *)
(* with those of another writer; a read returns the oldest bytes, and      *)
(* returns none only when the queue is empty and all writers are gone.     *)
(***************************************************************************)
EXTENDS Naturals, Sequences

CONSTANTS Byte, Reader, Writer, Capacity

VARIABLES
  queue,   \* the bytes in transit
  unsent,  \* by writer: the bytes of its current write not yet queued
  got,     \* by reader: the bytes its last read returned
  eof      \* all writers have closed

Init ==
  /\ queue = <<>>
  /\ unsent = [w \in Writer |-> <<>>]
  /\ got = [r \in Reader |-> <<>>]
  /\ eof = FALSE

\* A write begins, or one in progress is given up.
Offer(w) ==
  /\ unsent'[w] \in Seq(Byte)
  /\ unsent[w] = <<>> \/ unsent'[w] = <<>>
  /\ unsent' = [unsent EXCEPT ![w] = unsent'[w]]
  /\ UNCHANGED <<queue, got, eof>>

\* The first k bytes writer w has still to send enter the queue; with k less
\* than all of them the write may also be given up.
Put(w, k) ==
  /\ ~eof
  /\ k \in 1..Len(unsent[w])
  /\ Len(queue) + k <= Capacity
  /\ queue' = queue \o SubSeq(unsent[w], 1, k)
  /\ \/ unsent' = [unsent EXCEPT ![w] = SubSeq(@, k + 1, Len(@))]
     \/ unsent' = [unsent EXCEPT ![w] = <<>>]
  /\ UNCHANGED <<got, eof>>

\* A read takes the k oldest bytes.
Get(r, k) ==
  /\ k \in 1..Len(queue)
  /\ got' = [got EXCEPT ![r] = SubSeq(queue, 1, k)]
  /\ queue' = SubSeq(queue, k + 1, Len(queue))
  /\ UNCHANGED <<unsent, eof>>

\* End of file: a read of no bytes.
GetNone(r) ==
  /\ queue = <<>> /\ eof
  /\ got' = [got EXCEPT ![r] = <<>>]
  /\ UNCHANGED <<queue, unsent, eof>>

CloseWrite ==
  /\ \A w \in Writer : unsent[w] = <<>>
  /\ eof' = TRUE
  /\ UNCHANGED <<queue, unsent, got>>

Next ==
  \/ \E w \in Writer : Offer(w) \/ \E k \in 1..Capacity : Put(w, k)
  \/ \E r \in Reader : GetNone(r) \/ \E k \in 1..Capacity : Get(r, k)
  \/ CloseWrite

Spec == Init /\ [][Next]_<<queue, unsent, got, eof>>
=============================================================================
