------------------------------- MODULE Inode -------------------------------
(***************************************************************************)
(* Inodes, directories and the path-name system calls: the inode cache     *)
(* and the directory layer of fs.c, the file table of file.c and the       *)
(* calls of sysfile.c that change the tree.                                *)
(*                                                                         *)
(* A process holds the inodes it works on by reference (ip->ref) for the   *)
(* whole call and by sleep lock for short stretches.  What a process does  *)
(* between taking a lock and giving it up, or between two locks, is one    *)
(* step; waiting for a lock, and every place where the code holds one      *)
(* inode while it takes another, is a separate step.  todo[p] is the rest  *)
(* of the call: its head says what comes next, and every inode pointer     *)
(* the process has is in one of its entries.                               *)
(*                                                                         *)
(* The calls run inside transactions (module Log) and the cache entry of   *)
(* an inode is indexed by its number: iget is atomic under icache.lock.    *)
(***************************************************************************)
EXTENDS Integers, Sequences, FiniteSets, TLC

CONSTANTS
  Proc, NoProc,
  NINUM,          \* inodes on the disk, 1 is the root (ROOTINO)
  NINODE,         \* entries of the inode cache
  NFILE, NOFILE,  \* open files in the system, descriptors of a process
  Names,          \* names other than "." and ".."
  Paths,          \* paths used by the calls, sequences; "/" first if absolute
  Targets,        \* paths used as the second argument of link
  Calls,          \* system calls made
  MaxCalls        \* bound: path calls made

ROOTINO == 1
Inum == 1..NINUM
Entry == Names \cup {".", ".."}

ASSUME InodeAssumption ==
  /\ NINUM \in Nat /\ NINODE \in Nat /\ MaxCalls \in Nat
  /\ NFILE \in Nat /\ NOFILE \in Nat

VARIABLES
  dinode,    \* on disk: type and nlink of each inode
  dir,       \* on disk: the entries of each directory, 0 for none
  ref, valid, holder, mem,   \* cache entries: ip->ref, valid, lock, copy
  ofile,     \* by process and descriptor: the inode of the open file, or 0
  cwd,       \* by process: its current directory
  todo,      \* by process: what is left of its system call
  calls,     \* path calls made
  panicked   \* the kernel has panicked

icachevars == <<ref, valid, holder, mem>>
vars == <<dinode, dir, icachevars, ofile, cwd, todo, calls, panicked>>

Empty == [n \in Entry |-> 0]
Dots(i, d) == [Empty EXCEPT !["."] = i, ![".."] = d]
Din(type, nlink) == [type |-> type, nlink |-> nlink]

\* The tree as mkfs and two earlier calls leave it: a file "a" and a
\* directory "d" in the root.  init stays in the root for ever.
Init ==
  /\ dinode = [i \in Inum |-> CASE i = ROOTINO -> Din("dir", 2)
                                [] i = 2 -> Din("file", 1)
                                [] i = 3 -> Din("dir", 1)
                                [] OTHER -> Din("none", 0)]
  /\ dir = [i \in Inum |-> CASE i = ROOTINO -> [Dots(1, 1) EXCEPT !["a"] = 2, !["d"] = 3]
                             [] i = 3 -> Dots(3, 1)
                             [] OTHER -> Empty]
  /\ cwd \in [Proc -> {ROOTINO, 3}]
  /\ ref = [i \in Inum |-> Cardinality({p \in Proc : cwd[p] = i})
                             + (IF i = ROOTINO THEN 1 ELSE 0)]
  /\ valid = [i \in Inum |-> FALSE]
  /\ mem = [i \in Inum |-> Din("none", 0)]
  /\ holder = [i \in Inum |-> NoProc]
  /\ ofile = [p \in Proc |-> [fd \in 1..NOFILE |-> 0]]
  /\ todo = [p \in Proc |-> <<>>]
  /\ calls = 0
  /\ panicked = FALSE

-----------------------------------------------------------------------------
(* Entries of todo; ip and dp are pointers the process owns, 0 for none.   *)
Frame(op, ip, dp) == [op |-> op, ip |-> ip, dp |-> dp, nm |-> "", kind |-> "", path |-> <<>>]
Iput(i) == Frame("iput", i, 0)

Top(p) == Head(todo[p])
Rest(p) == Tail(todo[p])
Do(p, frames) == todo' = [todo EXCEPT ![p] = frames]

\* An inode as the one who locks it sees it: ilock reads the disk if !valid.
View(i) == IF valid[i] THEN mem[i] ELSE dinode[i]
Unlocked(i) == holder[i] = NoProc

\* The inode whose lock the next step of p takes, 0 if it takes none.
Wants(p) ==
  IF todo[p] = <<>> THEN 0
  ELSE CASE Top(p).op \in {"namei", "nameiparent"} -> Top(p).ip
         [] Top(p).op \in {"linkAdd", "unlink", "create"} -> Top(p).dp
         [] Top(p).op \in {"iput", "link", "linkUndo", "unlinkIp", "createHit",
                           "createNew", "open", "chdir"} -> Top(p).ip
         [] OTHER -> 0

\* The inode the next step of p looks up (dirlookup), 0 if there is none.
Found(p) ==
  CASE Top(p).op = "namei" \/ (Top(p).op = "nameiparent" /\ Len(Top(p).path) > 1) ->
         dir[Top(p).ip][Head(Top(p).path)]
    [] Top(p).op \in {"linkAdd", "create"} -> dir[Top(p).dp][Top(p).nm]
    [] Top(p).op = "unlink" -> IF Top(p).nm \in {".", ".."} THEN 0 ELSE dir[Top(p).dp][Top(p).nm]
    [] OTHER -> 0

FreeInum == {i \in Inum : dinode[i].type = "none"}
Lowest(S) == CHOOSE x \in S : \A y \in S : x <= y

NoEntry(i) == ref[i] = 0 /\ Cardinality({j \in Inum : ref[j] > 0}) >= NINODE

\* The next step of p is a panic of ilock, ialloc, iget or sys_unlink.
Panics(p) ==
  LET i == Wants(p) IN
  /\ i # 0 /\ Unlocked(i)
  /\ \/ Top(p).op # "iput" /\ View(i).type = "none"
     \/ Top(p).op = "unlinkIp" /\ View(i).nlink < 1
     \/ Top(p).op = "create" /\ Found(p) = 0 /\ (\A n \in FreeInum : n = Lowest(FreeInum) => NoEntry(n))
     \/ Found(p) # 0 /\ NoEntry(Found(p))

\* p goes on with op: a lock it needs is free and it does not panic.
At(p, op) ==
  /\ ~panicked
  /\ todo[p] # <<>> /\ Top(p).op = op
  /\ Wants(p) # 0 => Unlocked(Wants(p))
  /\ ~Panics(p)

Panic(p) == ~panicked /\ Panics(p) /\ panicked' = TRUE
            /\ UNCHANGED <<dinode, dir, icachevars, ofile, cwd, todo, calls>>

-----------------------------------------------------------------------------
(* Inode cache                                                             *)

\* ilock(i), then iget(n) unless n = 0: an entry with ref 0 is taken over
\* as not valid.
LockGet(i, n) ==
  /\ mem' = [mem EXCEPT ![i] = View(i)]
  /\ valid' = [j \in Inum |-> j = i \/ (valid[j] /\ ~(j = n /\ ref[n] = 0))]
  /\ ref' = [j \in Inum |-> ref[j] + (IF j = n THEN 1 ELSE 0)]

\* ilock of the inodes u is about, changes to them, iupdate.
Update(u) ==
  /\ mem' = u @@ mem
  /\ dinode' = u @@ dinode
  /\ valid' = [i \in DOMAIN u |-> TRUE] @@ valid

Relinked(i, n) == [View(i) EXCEPT !.nlink = n]

\* iput: whether to free is decided under the lock, from ref as it is then.
\* Mutant: the references of others are not looked at.
LastRefUnchecked(i) == valid[i] /\ mem[i].nlink = 0
LastRef(i) == valid[i] /\ mem[i].nlink = 0 /\ ref[i] = 1

IputCheck(p) ==
  /\ At(p, "iput")
  /\ LET i == Top(p).ip IN
     /\ holder' = IF LastRef(i) THEN [holder EXCEPT ![i] = p] ELSE holder
     /\ Do(p, <<Frame(IF LastRef(i) THEN "itrunc" ELSE "drop", i, 0)>> \o Rest(p))
  /\ UNCHANGED <<dinode, dir, ref, valid, mem, ofile, cwd, calls, panicked>>

IputFree(p) ==
  /\ At(p, "itrunc")
  /\ LET i == Top(p).ip IN
     /\ dir' = [dir EXCEPT ![i] = Empty]
     /\ mem' = [mem EXCEPT ![i].type = "none"]
     /\ dinode' = [dinode EXCEPT ![i] = mem'[i]]
     /\ Do(p, <<Frame("clear", i, 0)>> \o Rest(p))
  /\ UNCHANGED <<ref, valid, holder, ofile, cwd, calls, panicked>>

\* Mutant: the entry of a freed inode stays valid.
ClearedNot(i) == valid
Cleared(i) == [valid EXCEPT ![i] = FALSE]

IputClear(p) ==
  /\ At(p, "clear")
  /\ LET i == Top(p).ip IN
     /\ valid' = Cleared(i)
     /\ holder' = [holder EXCEPT ![i] = NoProc]
     /\ Do(p, <<Frame("drop", i, 0)>> \o Rest(p))
  /\ UNCHANGED <<dinode, dir, ref, mem, ofile, cwd, calls, panicked>>

IputDrop(p) ==
  /\ At(p, "drop")
  /\ ref' = [ref EXCEPT ![Top(p).ip] = @ - 1]
  /\ Do(p, Rest(p))
  /\ UNCHANGED <<dinode, dir, valid, holder, mem, ofile, cwd, calls, panicked>>

-----------------------------------------------------------------------------
(* namex: namei and nameiparent                                            *)

\* A path starts at the root or at the current directory.
Absolute(path) == path # <<>> /\ Head(path) = "/"
StartOf(p, path) == IF Absolute(path) THEN ROOTINO ELSE cwd[p]

\* The caller's frame with the result, or what is left when there is none.
Returned(frames, w) == [frames EXCEPT ![1].ip = w]
ReturnedParent(frames, w, nm) == [frames EXCEPT ![1].dp = w, ![1].nm = nm]
\* Mutant: link forgets the inode it holds when new has no parent.
FailedForgets(frames) == <<>>
Failed(frames) ==
  IF Head(frames).op = "linkAdd" THEN <<Frame("linkUndo", Head(frames).ip, 0)>> ELSE <<>>

\* The loop of namex at inode w: another round, or the end of the path.
Round(op, w, path, frames) ==
  IF path # <<>> THEN <<[Frame(op, w, 0) EXCEPT !.path = path]>> \o frames
  ELSE IF op = "namei" THEN Returned(frames, w)
  ELSE <<Iput(w)>> \o Failed(frames)
Walk(p, op, path, frames) ==
  Round(op, StartOf(p, path), IF Absolute(path) THEN Tail(path) ELSE path, frames)

NamexStep(p) ==
  \E op \in {"namei", "nameiparent"} :
    /\ At(p, op)
    /\ LET t == Top(p)
           isdir == View(t.ip).type = "dir"
           next == IF isdir THEN Found(p) ELSE 0
       IN /\ LockGet(t.ip, next)
          /\ Do(p, IF isdir /\ op = "nameiparent" /\ Len(t.path) = 1
                   THEN ReturnedParent(Rest(p), t.ip, Head(t.path))
                   ELSE <<Iput(t.ip)>> \o IF next = 0 THEN Failed(Rest(p))
                                          ELSE Round(op, next, Tail(t.path), Rest(p)))
    /\ UNCHANGED <<dinode, dir, holder, ofile, cwd, calls, panicked>>

-----------------------------------------------------------------------------
(* sys_link                                                                *)
\* Mutant: the link is not counted before the entry is written.
RaisedLate(i) == View(i)
Raised(i) == Relinked(i, View(i).nlink + 1)

LinkUp(p) ==
  /\ At(p, "link")
  /\ LET i == Top(p).ip  new == Top(p).path IN
     IF View(i).type = "dir"
     THEN LockGet(i, 0) /\ Do(p, <<Iput(i)>>) /\ UNCHANGED dinode
     ELSE /\ Update(i :> Raised(i))
          /\ ref' = [ref EXCEPT ![StartOf(p, new)] = @ + 1]
          /\ Do(p, Walk(p, "nameiparent", new, <<Frame("linkAdd", i, 0)>>))
  /\ UNCHANGED <<dir, holder, ofile, cwd, calls, panicked>>

\* dirlink; a name that exists is put while dp is locked.
LinkAdd(p) ==
  /\ At(p, "linkAdd")
  /\ LET t == Top(p) IN
     /\ LockGet(t.dp, Found(p))
     /\ IF Found(p) # 0
        THEN /\ holder' = [holder EXCEPT ![t.dp] = p]
             /\ Do(p, <<Iput(Found(p)), Frame("release", 0, t.dp), Frame("linkUndo", t.ip, 0)>>)
             /\ UNCHANGED dir
        ELSE /\ dir' = [dir EXCEPT ![t.dp][t.nm] = t.ip]
             /\ Do(p, <<Iput(t.dp), Iput(t.ip)>>)
             /\ UNCHANGED holder
  /\ UNCHANGED <<dinode, ofile, cwd, calls, panicked>>

LinkUndo(p) ==
  /\ At(p, "linkUndo")
  /\ LET i == Top(p).ip IN
     Update(i :> Relinked(i, View(i).nlink - 1)) /\ Do(p, <<Iput(i)>>)
  /\ UNCHANGED <<dir, ref, holder, ofile, cwd, calls, panicked>>

\* iunlockput(dp) at the end of an error path.
ReleaseDp(p) ==
  /\ At(p, "release")
  /\ holder' = [holder EXCEPT ![Top(p).dp] = NoProc]
  /\ Do(p, <<Iput(Top(p).dp)>> \o Rest(p))
  /\ UNCHANGED <<dinode, dir, ref, valid, mem, ofile, cwd, calls, panicked>>

-----------------------------------------------------------------------------
(* sys_unlink                                                              *)
UnlinkLookup(p) ==
  /\ At(p, "unlink")
  /\ LET t == Top(p) IN
     /\ LockGet(t.dp, Found(p))
     /\ IF Found(p) = 0
        THEN Do(p, <<Iput(t.dp)>>) /\ UNCHANGED holder
        ELSE /\ holder' = [holder EXCEPT ![t.dp] = p]
             /\ Do(p, <<[t EXCEPT !.op = "unlinkIp", !.ip = Found(p)]>>)
  /\ UNCHANGED <<dinode, dir, ofile, cwd, calls, panicked>>

Isdirempty(i) == \A n \in Names : dir[i][n] = 0

\* The entry goes, and the parent's link for ".."; ip stays locked.
UnlinkEntry(p) ==
  /\ At(p, "unlinkIp")
  /\ LET t == Top(p)  isdir == View(t.ip).type = "dir" IN
     IF isdir /\ ~Isdirempty(t.ip)
     THEN /\ LockGet(t.ip, 0)
          /\ Do(p, <<Iput(t.ip), Frame("release", 0, t.dp)>>)
          /\ UNCHANGED <<dinode, dir, holder>>
     ELSE /\ dir' = [dir EXCEPT ![t.dp][t.nm] = 0]
          /\ Update((t.ip :> View(t.ip)) @@
                    (t.dp :> Relinked(t.dp, View(t.dp).nlink - (IF isdir THEN 1 ELSE 0))))
          /\ holder' = [holder EXCEPT ![t.dp] = NoProc, ![t.ip] = p]
          /\ Do(p, <<Iput(t.dp), Frame("unlinked", t.ip, 0)>>)
          /\ UNCHANGED ref
  /\ UNCHANGED <<ofile, cwd, calls, panicked>>

UnlinkCount(p) ==
  /\ At(p, "unlinked")
  /\ LET i == Top(p).ip IN
     /\ Update(i :> Relinked(i, View(i).nlink - 1))
     /\ holder' = [holder EXCEPT ![i] = NoProc]
     /\ Do(p, <<Iput(i)>>)
  /\ UNCHANGED <<dir, ref, ofile, cwd, calls, panicked>>

-----------------------------------------------------------------------------
(* create, for open with O_CREATE, mkdir and mknod                         *)

\* An existing name is locked after dp is put; a new inode is allocated, on
\* disk and in the cache, while dp is locked.
CreateLookup(p) ==
  /\ At(p, "create")
  /\ LET t == Top(p)  new == Lowest(FreeInum) IN
     IF Found(p) # 0
     THEN /\ LockGet(t.dp, Found(p))
          /\ Do(p, <<Iput(t.dp), [t EXCEPT !.op = "createHit", !.ip = Found(p), !.dp = 0]>> \o Rest(p))
          /\ UNCHANGED <<dinode, holder>>
     ELSE /\ LockGet(t.dp, new)
          /\ dinode' = [dinode EXCEPT ![new] = Din(t.kind, 0)]
          /\ holder' = [holder EXCEPT ![t.dp] = p]
          /\ Do(p, <<[t EXCEPT !.op = "createNew", !.ip = new]>> \o Rest(p))
  /\ UNCHANGED <<dir, ofile, cwd, calls, panicked>>

CreateHit(p) ==
  /\ At(p, "createHit")
  /\ LET t == Top(p)  same == t.kind = "file" /\ View(t.ip).type = "file" IN
     /\ LockGet(t.ip, 0)
     /\ holder' = IF same THEN [holder EXCEPT ![t.ip] = p] ELSE holder
     /\ Do(p, IF same THEN Returned(Rest(p), t.ip) ELSE <<Iput(t.ip)>>)
  /\ UNCHANGED <<dinode, dir, ofile, cwd, calls, panicked>>

CreateNew(p) ==
  /\ At(p, "createNew")
  /\ LET t == Top(p)  isdir == t.kind = "dir" IN
     /\ Update((t.ip :> Relinked(t.ip, 1)) @@
               (t.dp :> Relinked(t.dp, View(t.dp).nlink + (IF isdir THEN 1 ELSE 0))))
     /\ dir' = [dir EXCEPT ![t.ip] = IF isdir THEN Dots(t.ip, t.dp) ELSE Empty,
                           ![t.dp][t.nm] = t.ip]
     /\ holder' = [holder EXCEPT ![t.dp] = NoProc, ![t.ip] = p]
     /\ Do(p, <<Iput(t.dp)>> \o Returned(Rest(p), t.ip))
  /\ UNCHANGED <<ref, ofile, cwd, calls, panicked>>

\* mkdir and mknod: iunlockput of what create returned.
Created(p) ==
  /\ At(p, "created")
  /\ holder' = [holder EXCEPT ![Top(p).ip] = NoProc]
  /\ Do(p, <<Iput(Top(p).ip)>>)
  /\ UNCHANGED <<dinode, dir, ref, valid, mem, ofile, cwd, calls, panicked>>

-----------------------------------------------------------------------------
(* sys_open, sys_close, sys_chdir                                          *)
OpenFiles == {<<p, fd>> \in Proc \X (1..NOFILE) : ofile[p][fd] # 0}
FreeFd(p) == {fd \in 1..NOFILE : ofile[p][fd] = 0}

\* filealloc and fdalloc; if either fails, ip is put.
InstallFile(p, i) ==
  IF Cardinality(OpenFiles) < NFILE /\ FreeFd(p) # {}
  THEN ofile' = [ofile EXCEPT ![p][Lowest(FreeFd(p))] = i] /\ Do(p, <<>>)
  ELSE Do(p, <<Iput(i)>>) /\ UNCHANGED ofile

OpenExisting(p) ==
  /\ At(p, "open")
  /\ LET t == Top(p) IN
     /\ LockGet(t.ip, 0)
     /\ IF View(t.ip).type = "dir" /\ t.kind # "rd"
        THEN Do(p, <<Iput(t.ip)>>) /\ UNCHANGED ofile
        ELSE InstallFile(p, t.ip)
  /\ UNCHANGED <<dinode, dir, holder, cwd, calls, panicked>>

OpenCreated(p) ==
  /\ At(p, "opened")
  /\ InstallFile(p, Top(p).ip)
  /\ holder' = [holder EXCEPT ![Top(p).ip] = NoProc]
  /\ UNCHANGED <<dinode, dir, ref, valid, mem, cwd, calls, panicked>>

ChdirCheck(p) ==
  /\ At(p, "chdir")
  /\ LET i == Top(p).ip IN
     /\ LockGet(i, 0)
     /\ Do(p, IF View(i).type = "dir" THEN <<Iput(cwd[p]), Frame("setcwd", i, 0)>>
              ELSE <<Iput(i)>>)
  /\ UNCHANGED <<dinode, dir, holder, ofile, cwd, calls, panicked>>

ChdirSet(p) ==
  /\ At(p, "setcwd")
  /\ cwd' = [cwd EXCEPT ![p] = Top(p).ip]
  /\ Do(p, <<>>)
  /\ UNCHANGED <<dinode, dir, icachevars, ofile, calls, panicked>>

\* sys_close of the last descriptor of a file (fileclose).
Close(p) ==
  /\ ~panicked /\ todo[p] = <<>>
  /\ \E fd \in 1..NOFILE :
       /\ ofile[p][fd] # 0
       /\ ofile' = [ofile EXCEPT ![p][fd] = 0]
       /\ Do(p, <<Iput(ofile[p][fd])>>)
  /\ UNCHANGED <<dinode, dir, icachevars, cwd, calls, panicked>>

-----------------------------------------------------------------------------
(* The path calls: what each does with the inode its path leads to         *)
Kind(op, k) == [Frame(op, 0, 0) EXCEPT !.kind = k]

Script(p, call, path, new) ==
  CASE call = "open" -> Walk(p, "namei", path, <<Kind("open", "rd")>>)
    [] call = "openw" -> Walk(p, "namei", path, <<Kind("open", "wr")>>)
    [] call = "openc" -> Walk(p, "nameiparent", path, <<Kind("create", "file"), Frame("opened", 0, 0)>>)
    [] call = "mkdir" -> Walk(p, "nameiparent", path, <<Kind("create", "dir"), Frame("created", 0, 0)>>)
    [] call = "mknod" -> Walk(p, "nameiparent", path, <<Kind("create", "dev"), Frame("created", 0, 0)>>)
    [] call = "link" -> Walk(p, "namei", path, <<[Frame("link", 0, 0) EXCEPT !.path = new]>>)
    [] call = "unlink" -> Walk(p, "nameiparent", path, <<Frame("unlink", 0, 0)>>)
    [] call = "chdir" -> Walk(p, "namei", path, <<Frame("chdir", 0, 0)>>)

Syscall(p) ==
  /\ ~panicked /\ todo[p] = <<>> /\ calls < MaxCalls
  /\ \E call \in Calls, path \in Paths, new \in Targets :
       /\ Do(p, Script(p, call, path, new))
       /\ ref' = [ref EXCEPT ![StartOf(p, path)] = @ + 1]
  /\ calls' = calls + 1
  /\ UNCHANGED <<dinode, dir, valid, holder, mem, ofile, cwd, panicked>>

Next ==
  \E p \in Proc :
    \/ Syscall(p) \/ Close(p) \/ Panic(p)
    \/ IputCheck(p) \/ IputFree(p) \/ IputClear(p) \/ IputDrop(p)
    \/ NamexStep(p)
    \/ LinkUp(p) \/ LinkAdd(p) \/ LinkUndo(p) \/ ReleaseDp(p)
    \/ UnlinkLookup(p) \/ UnlinkEntry(p) \/ UnlinkCount(p)
    \/ CreateLookup(p) \/ CreateHit(p) \/ CreateNew(p) \/ Created(p)
    \/ OpenExisting(p) \/ OpenCreated(p) \/ ChdirCheck(p) \/ ChdirSet(p)

Spec == Init /\ [][Next]_vars

-----------------------------------------------------------------------------
(* Properties                                                              *)
Held(p, i) == Cardinality({k \in DOMAIN todo[p] : todo[p][k].ip = i})
            + Cardinality({k \in DOMAIN todo[p] : todo[p][k].dp = i})
LeavesCwd(p) == \E k \in DOMAIN todo[p] : todo[p][k].op = "setcwd"
Open(i) == {<<p, fd>> \in OpenFiles : ofile[p][fd] = i}
Current(i) == {p \in Proc : cwd[p] = i /\ ~LeavesCwd(p)}
Working(i) == {<<p, k>> \in Proc \X (1..4) : k <= Held(p, i)}

\* ip->ref of every cached inode is the number of pointers to it: open
\* files, current directories (init's is the root) and the pointers of calls
\* in progress, on every error path of the calls ("ip->ref tracks the number
\* of in-memory pointers to the entry", fs.c).
RefExact ==
  \A i \in Inum :
    ref[i] = Cardinality(Open(i)) + Cardinality(Current(i)) + Cardinality(Working(i))
             + (IF i = ROOTINO THEN 1 ELSE 0)

Allocated(i) == dinode[i].type # "none"
NamesOf(i) == {<<d, n>> \in Inum \X Names : dir[d][n] = i}
Below(S) == S \cup {i \in Inum : \E d \in S, n \in Names : dir[d][n] = i}
Reachable ==
  LET R[k \in 0..NINUM] == IF k = 0 THEN {ROOTINO} ELSE Below(R[k - 1]) IN R[NINUM]

\* No entry of a directory reachable from the root, "." and ".." included,
\* leads to an inode that iput has freed, and no inode has more names than
\* its link count, at every point of link, unlink, create and mkdir running
\* at the same time.
NamesSound ==
  /\ \A d \in Reachable, n \in Entry : dir[d][n] # 0 => Allocated(dir[d][n])
  /\ \A i \in Inum : Allocated(i) => dinode[i].nlink >= Cardinality(NamesOf(i))

Freeing(i) == \E p \in Proc : todo[p] # <<>> /\ Top(p).op \in {"itrunc", "clear"} /\ Top(p).ip = i

\* iput never frees an inode that is open, a current directory or locked by
\* someone else, although it looks at ip->ref once and frees later.
InUseAllocated ==
  \A i \in Inum :
    (Open(i) # {} \/ Current(i) # {} \/ (holder[i] # NoProc /\ ~Freeing(i))) => Allocated(i)

\* A valid cache entry agrees with the disk inode, also when the inode was
\* freed and allocated again while an iput still held its entry.
CacheAgrees ==
  \A i \in Inum : ref[i] > 0 /\ valid[i] /\ ~Freeing(i) => mem[i] = dinode[i]

\* "another concurrent link/unlink/create test, to look for deadlocks"
\* (usertests.c): no two processes hold an inode each and wait for the
\* other's.  iput takes ip->lock while create and sys_unlink hold another
\* inode, against the order parent before child.
NoCircularWait ==
  \A p, q \in Proc :
    ~(/\ Wants(p) # 0 /\ holder[Wants(p)] = q
      /\ Wants(q) # 0 /\ holder[Wants(q)] = p)
=============================================================================
