------------------------------- MODULE Files -------------------------------
(***************************************************************************)
(* Open files and their contents: the block allocator and the inode        *)
(* content layer of fs.c, the file table of file.c with read, write, dup,  *)
(* close and the descriptors fork shares, on the image mkfs.c writes.      *)
(*                                                                         *)
(* A read, and every chunk of a write, transfers its data at f->off and    *)
(* then moves f->off, with ip->lock held over the two steps; a long write  *)
(* gives the lock up between chunks.  Each chunk is a transaction of its   *)
(* own (module Log).  A unit of data is as large as a block number or a    *)
(* directory entry, so that BSIZE units make a block of data, of block     *)
(* numbers or of entries.                                                  *)
(***************************************************************************)
EXTENDS Integers, Sequences, FiniteSets

Sets == INSTANCE FiniteSetsExt

CONSTANTS
  Proc,
  NFILE, NOFILE,      \* struct file in the system, descriptors of a process
  BSIZE, NDIRECT,
  NMETA, FSSIZE,      \* blocks before the data blocks, blocks of the disk
  MAXOPBLOCKS,
  NINUM,              \* inodes of the disk
  HostFiles,          \* contents of the files mkfs copies, a sequence
  Buffers,            \* data passed to write
  Sizes,              \* sizes passed to read
  MaxCalls            \* bound: calls made

NINDIRECT == BSIZE
MAXFILE == NDIRECT + NINDIRECT
Inum == 1..NINUM     \* 1 is the root directory
Block == 0..(FSSIZE - 1)
Least(S) == CHOOSE x \in S : \A y \in S : x <= y
Min(a, b) == IF a < b THEN a ELSE b

ASSUME FilesAssumption ==
  /\ BSIZE \in Nat \ {0} /\ NDIRECT \in Nat \ {0} /\ NMETA \in Nat \ {0}
  /\ MAXOPBLOCKS >= 6 /\ NFILE \in Nat /\ NOFILE \in Nat /\ MaxCalls \in Nat

VARIABLES
  fs,       \* used: bitmap; blk: blocks; addrs, size, nlink: inodes
  ftable,   \* struct file
  ofile,    \* by process: its descriptors, 0 or a struct file
  job,      \* by process: its read or write, with the data left to write and the
            \* units transferred but not yet added to f->off
  got,      \* by process: what its last read returned
  calls,
  panicked

vars == <<fs, ftable, ofile, job, got, calls, panicked>>

-----------------------------------------------------------------------------
(* mkfs.c                                                                  *)
NoAddrs == [k \in 0..NDIRECT |-> 0]
Zeroes == [u \in 0..(BSIZE - 1) |-> 0]

\* The units of data that fall into block bn, over the old content of it.
Patched(old, bn, off, data) ==
  [u \in 0..(BSIZE - 1) |->
     LET k == bn * BSIZE + u - off + 1 IN IF k \in 1..Len(data) THEN data[k] ELSE old[u]]

\* iappend, one block: find or take the next free block, copy, move on.
MkBlock(img, i, bn, off, data) ==
  LET ind == img.addrs[i][NDIRECT]
      needInd == bn >= NDIRECT /\ ind = 0
      indAt == IF needInd THEN img.free ELSE ind
      free1 == IF needInd THEN img.free + 1 ELSE img.free
      old == IF bn < NDIRECT THEN img.addrs[i][bn] ELSE img.blk[indAt][bn - NDIRECT]
      x == IF old = 0 THEN free1 ELSE old
      a == IF bn < NDIRECT THEN [img.addrs EXCEPT ![i][bn] = x] ELSE [img.addrs EXCEPT ![i][NDIRECT] = indAt]
      b == IF bn < NDIRECT THEN img.blk ELSE [img.blk EXCEPT ![indAt][bn - NDIRECT] = x]
  IN [img EXCEPT !.free = IF old = 0 THEN free1 + 1 ELSE free1, !.addrs = a,
                 !.blk = [b EXCEPT ![x] = Patched(@, bn, off, data)]]

\* The blocks that n units at off touch.
Span(off, n) == IF n = 0 THEN 0 ELSE (off + n - 1) \div BSIZE - off \div BSIZE + 1

Iappend(img, i, data) ==
  LET off == img.size[i]
      A[k \in 0..Span(off, Len(data))] ==
        IF k = 0 THEN img ELSE MkBlock(A[k - 1], i, off \div BSIZE + k - 1, off, data)
  IN [A[Span(off, Len(data))] EXCEPT !.size[i] = off + Len(data)]

\* main: root with "." and "..", then every file with its entry.
Image ==
  LET blank == [free |-> NMETA, blk |-> [b \in Block |-> Zeroes],
                addrs |-> [i \in Inum |-> NoAddrs], size |-> [i \in Inum |-> 0]]
      M[k \in 0..Len(HostFiles)] ==
        IF k = 0 THEN Iappend(Iappend(blank, 1, <<1>>), 1, <<1>>)
        ELSE Iappend(Iappend(M[k - 1], 1, <<k + 1>>), k + 1, HostFiles[k])
  IN M[Len(HostFiles)]

\* The size of the root rounded up, the bitmap of the blocks handed out.
Init ==
  /\ LET img == Image IN
     fs = [used |-> 0..(img.free - 1), blk |-> img.blk, addrs |-> img.addrs,
           size |-> [img.size EXCEPT ![1] = (@ \div BSIZE + 1) * BSIZE],
           nlink |-> [i \in Inum |-> IF i <= 1 + Len(HostFiles) THEN 1 ELSE 0]]
  /\ ftable = [f \in 1..NFILE |-> [ref |-> 0, ip |-> 0, off |-> 0, readable |-> FALSE, writable |-> FALSE]]
  /\ ofile = [p \in Proc |-> [fd \in 1..NOFILE |-> 0]]
  /\ job = [p \in Proc |-> <<>>]
  /\ got = [p \in Proc |-> <<>>]
  /\ calls = 0
  /\ panicked = FALSE

-----------------------------------------------------------------------------
(* fs.c: balloc, bfree, bmap, itrunc, readi, writei                        *)
Unused(d) == Block \ d.used
Balloc(d) == [d EXCEPT !.used = @ \cup {Least(Unused(d))}, !.blk[Least(Unused(d))] = Zeroes]

\* bmap on block bn of inode i: the disk afterwards.
Bmap(d, i, bn) ==
  IF bn < NDIRECT
  THEN IF d.addrs[i][bn] # 0 THEN d
       ELSE [Balloc(d) EXCEPT !.addrs[i][bn] = Least(Unused(d))]
  ELSE LET d1 == IF d.addrs[i][NDIRECT] # 0 THEN d
                 ELSE [Balloc(d) EXCEPT !.addrs[i][NDIRECT] = Least(Unused(d))]
           ind == d1.addrs[i][NDIRECT]
       IN IF d1.blk[ind][bn - NDIRECT] # 0 THEN d1
          ELSE [Balloc(d1) EXCEPT !.blk[ind][bn - NDIRECT] = Least(Unused(d1))]

\* The address bmap returns, once it is there.
Addr(d, i, bn) ==
  IF bn < NDIRECT THEN d.addrs[i][bn]
  ELSE IF d.addrs[i][NDIRECT] = 0 THEN 0 ELSE d.blk[d.addrs[i][NDIRECT]][bn - NDIRECT]

\* Blocks bmap has to allocate for n units at off: balloc panics if it
\* finds none.
Missing(d, i, off, n) ==
  LET new == {bn \in (off \div BSIZE)..(off \div BSIZE + Span(off, n) - 1) : Addr(d, i, bn) = 0}
  IN Cardinality(new)
     + (IF d.addrs[i][NDIRECT] = 0 /\ \E bn \in new : bn >= NDIRECT THEN 1 ELSE 0)

NewSize(size, end) == IF end > size THEN end ELSE size

Writei(d, i, off, data) ==
  LET W[k \in 0..Span(off, Len(data))] ==
        IF k = 0 THEN d
        ELSE LET bn == off \div BSIZE + k - 1
                 m == Bmap(W[k - 1], i, bn)
             IN [m EXCEPT !.blk[Addr(m, i, bn)] = Patched(@, bn, off, data)]
  IN [W[Span(off, Len(data))] EXCEPT !.size[i] = NewSize(@, off + Len(data))]

Unit(d, i, k) == d.blk[Addr(d, i, k \div BSIZE)][k % BSIZE]
Readi(d, i, off, n) == [k \in 1..(Min(off + n, d.size[i]) - off) |-> Unit(d, i, off + k - 1)]

\* The blocks itrunc frees: direct ones, those of the indirect block, itself.
Freed(d, i) ==
  ({d.addrs[i][k] : k \in 0..NDIRECT}
   \cup IF d.addrs[i][NDIRECT] = 0 THEN {}
        ELSE {d.blk[d.addrs[i][NDIRECT]][k] : k \in 0..(NINDIRECT - 1)}) \ {0}
\* Mutant: the indirect block itself is not freed.
ItruncIndirectKept(d, i) ==
  [d EXCEPT !.used = @ \ (Freed(d, i) \ {d.addrs[i][NDIRECT]}), !.addrs[i] = NoAddrs, !.size[i] = 0]
Itrunc(d, i) ==
  [d EXCEPT !.used = @ \ Freed(d, i), !.addrs[i] = NoAddrs, !.size[i] = 0]

-----------------------------------------------------------------------------
(* file.c and the descriptor calls of sysfile.c                            *)
FreeFd(p) == {fd \in 1..NOFILE : ofile[p][fd] = 0}
FreeFile == {f \in 1..NFILE : ftable[f].ref = 0}
NoFile == [ref |-> 0, ip |-> 0, off |-> 0, readable |-> FALSE, writable |-> FALSE]
OpenOn(tab, i) == {f \in 1..NFILE : tab[f].ref > 0 /\ tab[f].ip = i}

\* p is between calls and may make another one.
Idle(p) == ~panicked /\ job[p] = <<>>
Called(p) == Idle(p) /\ calls < MaxCalls /\ calls' = calls + 1
Fds(p) == {fd \in 1..NOFILE : ofile[p][fd] # 0}

\* Nobody is between the ilock and the iunlock of a read or a chunk on inode i.
\* Mutant: the lock is not taken.
LockNotTaken(i) == TRUE
Unlocked(i) ==
  \A p \in Proc : job[p] # <<>> => ~(job[p][1].locked /\ ftable[job[p][1].f].ip = i)

\* The end of sys_open: filealloc, fdalloc, the fields of the file.
Open(p) ==
  /\ Called(p) /\ FreeFile # {} /\ FreeFd(p) # {}
  /\ \E i \in Inum, mode \in {"O_RDONLY", "O_WRONLY", "O_RDWR"} :
       /\ fs.nlink[i] > 0 /\ Unlocked(i)
       /\ i = 1 => mode = "O_RDONLY"
       /\ ftable' = [ftable EXCEPT ![Least(FreeFile)] =
                       [ref |-> 1, ip |-> i, off |-> 0,
                        readable |-> mode # "O_WRONLY", writable |-> mode # "O_RDONLY"]]
       /\ ofile' = [ofile EXCEPT ![p][Least(FreeFd(p))] = Least(FreeFile)]
  /\ UNCHANGED <<fs, job, got, panicked>>

\* sys_dup: fdalloc, filedup.
Dup(p) ==
  /\ Called(p) /\ FreeFd(p) # {}
  /\ \E fd \in Fds(p) :
       /\ ofile' = [ofile EXCEPT ![p][Least(FreeFd(p))] = ofile[p][fd]]
       /\ ftable' = [ftable EXCEPT ![ofile[p][fd]].ref = @ + 1]
  /\ UNCHANGED <<fs, job, got, panicked>>

\* fork: a new process q shares every file of p.
\* Mutant: a file with two descriptors is counted once.
SharesOnce(p, f) == IF \E fd \in 1..NOFILE : ofile[p][fd] = f THEN 1 ELSE 0
Shares(p, f) == Cardinality({fd \in 1..NOFILE : ofile[p][fd] = f})
Fork(p) ==
  /\ Called(p) /\ Fds(p) # {}
  /\ \E q \in Proc \ {p} :
       /\ Idle(q) /\ Fds(q) = {}
       /\ ofile' = [ofile EXCEPT ![q] = ofile[p]]
  /\ ftable' = [f \in 1..NFILE |-> [ftable[f] EXCEPT !.ref = @ + Shares(p, f)]]
  /\ UNCHANGED <<fs, job, got, panicked>>

\* iput of the last reference to an inode without links: itrunc and free.
Put(d, tab, i) ==
  IF d.nlink[i] = 0 /\ OpenOn(tab, i) = {} THEN Itrunc(d, i) ELSE d

\* sys_close and fileclose.
Close(p) ==
  /\ Idle(p)
  /\ \E fd \in Fds(p) :
       LET f == ofile[p][fd]
           tab == [ftable EXCEPT ![f] = IF @.ref > 1 THEN [@ EXCEPT !.ref = @ - 1] ELSE NoFile]
       IN /\ ftable' = tab
          /\ ofile' = [ofile EXCEPT ![p][fd] = 0]
          /\ fs' = Put(fs, tab, ftable[f].ip)
  /\ UNCHANGED <<job, got, calls, panicked>>

\* sys_unlink of the only name of a file, and ialloc of a free inode, as
\* far as the file is concerned: names and entries are module Inode's.
Unlink(p) ==
  /\ Called(p)
  /\ \E i \in Inum \ {1} :
       fs.nlink[i] = 1 /\ Unlocked(i) /\ fs' = Put([fs EXCEPT !.nlink[i] = 0], ftable, i)
  /\ UNCHANGED <<ftable, ofile, job, got, panicked>>

Create(p) ==
  /\ Called(p)
  /\ \E i \in Inum \ {1} :
       fs.nlink[i] = 0 /\ OpenOn(ftable, i) = {} /\ fs' = [fs EXCEPT !.nlink[i] = 1]
  /\ UNCHANGED <<ftable, ofile, job, got, panicked>>

\* sys_read and fileread: ilock, readi.
Read(p) ==
  /\ Called(p)
  /\ \E fd \in Fds(p), n \in Sizes :
       LET f == ofile[p][fd]
           r == Readi(fs, ftable[f].ip, ftable[f].off, n)
       IN /\ ftable[f].readable /\ Unlocked(ftable[f].ip)
          /\ got' = [got EXCEPT ![p] = r]
          /\ job' = [job EXCEPT ![p] =
                       <<[f |-> f, data |-> <<>>, r |-> Len(r), locked |-> TRUE]>>]
  /\ UNCHANGED <<fs, ftable, ofile, panicked>>

\* sys_write and filewrite up to the loop.
Write(p) ==
  /\ Called(p)
  /\ \E fd \in Fds(p), data \in Buffers :
       /\ ftable[ofile[p][fd]].writable
       /\ job' = [job EXCEPT ![p] =
                    <<[f |-> ofile[p][fd], data |-> data, r |-> 0, locked |-> FALSE]>>]
  /\ UNCHANGED <<fs, ftable, ofile, got, panicked>>

MaxChunk == ((MAXOPBLOCKS - 1 - 1 - 2) \div 2) * BSIZE

\* One round of the loop of filewrite: ilock, writei, which fails beyond the
\* largest file; balloc panics on a full disk.
WriteChunk(p) ==
  /\ ~panicked /\ job[p] # <<>> /\ ~job[p][1].locked
  /\ LET w == job[p][1]
         i == ftable[w.f].ip
         off == ftable[w.f].off
         n == Min(Len(w.data), MaxChunk)
     IN /\ Unlocked(i)
        /\ IF off > fs.size[i] \/ off + n > MAXFILE * BSIZE
           THEN job' = [job EXCEPT ![p] = <<>>] /\ UNCHANGED <<fs, panicked>>
           ELSE IF Missing(fs, i, off, n) > Cardinality(Unused(fs))
           THEN panicked' = TRUE /\ UNCHANGED <<fs, job>>
           ELSE /\ fs' = Writei(fs, i, off, SubSeq(w.data, 1, n))
                /\ job' = [job EXCEPT ![p] =
                             <<[w EXCEPT !.data = SubSeq(@, n + 1, Len(@)), !.r = n, !.locked = TRUE]>>]
                /\ UNCHANGED panicked
  /\ UNCHANGED <<ftable, ofile, got, calls>>

\* f->off += r, iunlock; a read and the last chunk of a write return.
Advance(p) ==
  /\ ~panicked /\ job[p] # <<>> /\ job[p][1].locked
  /\ LET j == job[p][1] IN
     /\ ftable' = [ftable EXCEPT ![j.f].off = @ + j.r]
     /\ job' = [job EXCEPT ![p] = IF j.data = <<>> THEN <<>>
                                  ELSE <<[j EXCEPT !.r = 0, !.locked = FALSE]>>]
  /\ UNCHANGED <<fs, ofile, got, calls, panicked>>

Next == \E p \in Proc : \/ Open(p) \/ Dup(p) \/ Fork(p) \/ Close(p) \/ Unlink(p)
                        \/ Create(p) \/ Read(p) \/ Write(p) \/ WriteChunk(p) \/ Advance(p)

Spec == Init /\ [][Next]_vars

-----------------------------------------------------------------------------
(* Properties                                                              *)
Blocks(i) == (fs.size[i] + BSIZE - 1) \div BSIZE
Owned(i) == Freed(fs, i)

\* The bitmap marks exactly the blocks before the data and those of the
\* inodes, no block belongs to two inodes or twice to one, and an inode has
\* exactly the blocks its size needs, so that readi never allocates.  It
\* relates balloc, bmap, writei and itrunc, and mkfs, which writes the first
\* bitmap.
BlocksExact ==
  /\ fs.used = 0..(NMETA - 1) \cup UNION {Owned(i) : i \in Inum}
  /\ \A i, j \in Inum : i # j => Owned(i) \cap Owned(j) = {}
  /\ \A i \in Inum :
       /\ Owned(i) \cap 0..(NMETA - 1) = {}
       /\ \A bn \in 0..(MAXFILE - 1) : Addr(fs, i, bn) # 0 <=> bn < Blocks(i)
       /\ Cardinality(Owned(i)) = Blocks(i) + (IF Blocks(i) > NDIRECT THEN 1 ELSE 0)

\* ref of every struct file is the number of descriptors that name it, over
\* dup, fork and close, and no offset is beyond the end of its file.
FileRefExact ==
  \A f \in 1..NFILE :
    /\ ftable[f].ref = Cardinality({<<p, fd>> \in Proc \X (1..NOFILE) : ofile[p][fd] = f})
    /\ ftable[f].ref > 0 => ftable[f].off <= fs.size[ftable[f].ip]

Bytes(i) == Readi(fs, i, 0, fs.size[i])
\* The offset that f has once the transfers under way have moved it.
Ahead(f) ==
  LET due == {p \in Proc : job[p] # <<>> /\ job[p][1].f = f}
  IN  ftable[f].off + Sets!MapThenSumSet(LAMBDA p : job[p][1].r, due)
Modes(f) == (IF ftable[f].readable THEN {"r"} ELSE {}) \cup (IF ftable[f].writable THEN {"w"} ELSE {})

Store == INSTANCE FileStore WITH
  File <- Inum, Handle <- 1..NFILE, Process <- Proc, Fd <- 1..NOFILE,
  Writes <- Buffers, MaxBytes <- MAXFILE * BSIZE,
  Contents <- [i \in Inum |->
                 IF i = 1 THEN [k \in 1..((2 + Len(HostFiles)) \div BSIZE + 1) * BSIZE |->
                                  IF k <= 2 THEN 1 ELSE IF k <= 2 + Len(HostFiles) THEN k - 1 ELSE 0]
                 ELSE IF i <= 1 + Len(HostFiles) THEN HostFiles[i - 1] ELSE <<>>],
  Links <- 1..(1 + Len(HostFiles)),
  bytes <- [i \in Inum |-> Bytes(i)],
  linked <- {i \in Inum : fs.nlink[i] > 0},
  at <- [f \in 1..NFILE |->
           IF ftable[f].ref = 0 THEN [file |-> 0, off |-> 0, modes |-> {}]
           ELSE [file |-> ftable[f].ip, off |-> Ahead(f), modes |-> Modes(f)]],
  desc <- ofile,
  todo <- [p \in Proc |-> IF job[p] = <<>> \/ job[p][1].data = <<>> THEN <<>>
                          ELSE <<[h |-> job[p][1].f, data |-> job[p][1].data]>>]

\* Open files behave as FileStore says: mkfs lays out what it was given; a read
\* and every chunk of a write happen at the one offset that descriptors share and
\* move it, although f->off is updated in a step after the transfer and processes
\* that share the file run in between; no byte lands anywhere else, blocks direct
\* and indirect included; a struct file lives as long as a descriptor and the
\* content of an unlinked file as long as a struct file; and freed blocks that
\* are used again show nothing of their old content.
ImplementsFiles == Store!Spec
=============================================================================
