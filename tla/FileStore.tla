----------------------------- MODULE FileStore -----------------------------
(***************************************************************************)
(* What the calls on open files promise.  A file is a sequence of bytes.   *)
(* Descriptors that dup and fork copy name one open file, with one offset: *)
(* a read or a part of a write happens at that offset and moves it over    *)
(* the bytes it transfers, in one step.  A file is emptied when it has     *)
(* neither a link nor an open file, and not before.                        *)
(***************************************************************************)
EXTENDS Naturals, Sequences

CONSTANTS
  File, Handle, Process, Fd,
  Contents, Links,   \* of the files in the beginning
  Writes,            \* the sequences of bytes that processes write
  MaxBytes           \* of the largest file

VARIABLES
  bytes,     \* by file: its content
  linked,    \* files with a link
  at,        \* by handle: the file, offset and modes of an open file
  desc,      \* by process and descriptor: a handle, 0 for none
  todo,      \* by process: what is left of its write
  got        \* by process: what its last read returned

vars == <<bytes, linked, at, desc, todo, got>>

Closed == [file |-> 0, off |-> 0, modes |-> {}]

Init ==
  /\ bytes = Contents /\ linked = Links
  /\ at = [h \in Handle |-> Closed]
  /\ desc = [p \in Process |-> [n \in Fd |-> 0]]
  /\ todo = [p \in Process |-> <<>>]
  /\ got = [p \in Process |-> <<>>]

Named(d) == {d[p][n] : <<p, n>> \in Process \X Fd} \ {0}
\* What is left of the files with links l and open files a.
Kept(l, a) ==
  [f \in File |-> IF f \in l \/ \E h \in Handle : a[h].file = f THEN bytes[f] ELSE <<>>]

Open(p, n, h, f, modes) ==
  /\ desc[p][n] = 0 /\ h \notin Named(desc) /\ f \in linked
  /\ desc' = [desc EXCEPT ![p][n] = h]
  /\ at' = [at EXCEPT ![h] = [file |-> f, off |-> 0, modes |-> modes]]
  /\ UNCHANGED <<bytes, linked, todo, got>>

Dup(p, m, n) ==
  /\ desc[p][m] # 0 /\ desc[p][n] = 0
  /\ desc' = [desc EXCEPT ![p][n] = desc[p][m]]
  /\ UNCHANGED <<bytes, linked, at, todo, got>>

Fork(p, q) ==
  /\ \A n \in Fd : desc[q][n] = 0
  /\ desc' = [desc EXCEPT ![q] = desc[p]]
  /\ UNCHANGED <<bytes, linked, at, todo, got>>

Close(p, n) ==
  /\ desc[p][n] # 0
  /\ desc' = [desc EXCEPT ![p][n] = 0]
  /\ at' = [h \in Handle |-> IF h \in Named(desc') THEN at[h] ELSE Closed]
  /\ bytes' = Kept(linked, at')
  /\ UNCHANGED <<linked, todo, got>>

Unlink(f) ==
  /\ f \in linked
  /\ linked' = linked \ {f}
  /\ bytes' = Kept(linked', at)
  /\ UNCHANGED <<at, desc, todo, got>>

Create(f) ==
  /\ f \notin linked /\ \A h \in Handle : at[h].file # f
  /\ linked' = linked \cup {f}
  /\ UNCHANGED <<bytes, at, desc, todo, got>>

Read(p, n, k) ==
  /\ desc[p][n] # 0
  /\ LET h == desc[p][n]
         s == bytes[at[h].file]
         off == at[h].off
         end == IF off + k > Len(s) THEN Len(s) ELSE off + k
     IN /\ "r" \in at[h].modes
        /\ got' = [got EXCEPT ![p] = SubSeq(s, off + 1, end)]
        /\ at' = [at EXCEPT ![h].off = end]
  /\ UNCHANGED <<bytes, linked, desc, todo>>

Write(p, n, data) ==
  /\ todo[p] = <<>> /\ desc[p][n] # 0 /\ "w" \in at[desc[p][n]].modes
  /\ todo' = [todo EXCEPT ![p] = <<[h |-> desc[p][n], data |-> data]>>]
  /\ UNCHANGED <<bytes, linked, at, desc, got>>

Stored(s, off, data) ==
  [i \in 1..(IF off + Len(data) > Len(s) THEN off + Len(data) ELSE Len(s)) |->
     IF i > off /\ i <= off + Len(data) THEN data[i - off] ELSE s[i]]

\* The next k bytes of a write.
WriteSome(p, k) ==
  /\ LET w == todo[p][1]
         off == at[w.h].off
     IN /\ k <= Len(w.data) /\ off + k <= MaxBytes
        /\ bytes' = [bytes EXCEPT ![at[w.h].file] = Stored(@, off, SubSeq(w.data, 1, k))]
        /\ at' = [at EXCEPT ![w.h].off = @ + k]
        /\ todo' = [todo EXCEPT ![p] =
                      IF k = Len(w.data) THEN <<>>
                      ELSE <<[w EXCEPT !.data = SubSeq(@, k + 1, Len(@))]>>]
  /\ UNCHANGED <<linked, desc, got>>

\* A write that would make its file too large gives up.
WriteFails(p) ==
  /\ at[todo[p][1].h].off + Len(todo[p][1].data) > MaxBytes
  /\ todo' = [todo EXCEPT ![p] = <<>>]
  /\ UNCHANGED <<bytes, linked, at, desc, got>>

Next ==
  \/ \E p \in Process, n \in Fd :
       \/ \E h \in Handle, f \in File, modes \in SUBSET {"r", "w"} : Open(p, n, h, f, modes)
       \/ \E m \in Fd : Dup(p, m, n)
       \/ Close(p, n)
       \/ \E k \in 0..MaxBytes : Read(p, n, k)
       \/ \E data \in Writes : Write(p, n, data)
  \/ \E p, q \in Process : Fork(p, q)
  \/ \E f \in File : Unlink(f) \/ Create(f)
  \/ \E p \in Process :
       todo[p] # <<>> /\ (WriteFails(p) \/ \E k \in 1..MaxBytes : WriteSome(p, k))

Spec == Init /\ [][Next]_vars
=============================================================================
