------------------------------- MODULE Memory -------------------------------
(***************************************************************************)
(* Physical pages and user address spaces: the allocator of kalloc.c, the  *)
(* page tables of vm.c, and the calls that build, grow and free address    *)
(* spaces: sbrk (growproc), fork, exec, exit and wait.                     *)
(*                                                                         *)
(* kalloc and kfree are atomic under kmem.lock; between two of them other  *)
(* processes allocate and free, so a call that builds an address space     *)
(* takes one step per page it maps and may fail at every one of them (the  *)
(* page and the page table it may need are one step).  Which free page     *)
(* kalloc returns does not matter to any caller.                           *)
(***************************************************************************)
EXTENDS Integers, FiniteSets, FiniteSetsExt, Sequences

CONSTANTS
  NPROC,        \* process slots; 1 is the first process, which never exits
  NPAGE,        \* pages of physical memory
  PGSIZE,       \* bytes of a page
  NPTE, NPDE,   \* pages a page table maps, page tables of the user part
  Programs,     \* executables: sequences of the addresses segments end at
  Deltas,       \* arguments of sbrk
  MaxCalls      \* bound: calls made

Proc == 1..NPROC
Page == 1..NPAGE
VPage == 0..(NPTE * NPDE - 1)
KERNBASE == NPTE * NPDE * PGSIZE

ASSUME MemoryAssumption ==
  /\ NPROC \in Nat \ {0} /\ NPAGE \in Nat /\ PGSIZE \in Nat \ {0}
  /\ NPTE \in Nat \ {0} /\ NPDE \in Nat \ {0} /\ MaxCalls \in Nat
  /\ Deltas \subseteq Int

VARIABLES
  free,     \* by page: how often it is on kmem.freelist
  vm,       \* by process: its address space
  new,      \* by process: the address space fork or exec is building
  kstack,   \* by process: the page of its kernel stack, 0 for none
  sz,       \* by process
  pc,       \* by process: "unused", "user", a place in a call, "zombie"
  job,      \* by process: arguments and locals of its call
  ret,      \* by process: whether its last call failed
  before,   \* by process: sz and mappings when its call began
  calls,
  panicked

vars == <<free, vm, new, kstack, sz, pc, job, ret, before, calls, panicked>>

\* pgdir with its page, a page table for the kernel part, the page tables
\* of the user part and the pages they map.
None == [dir |-> 0, ktab |-> 0, ptab |-> [d \in 0..(NPDE - 1) |-> 0], map |-> [v \in VPage |-> 0]]
NoJob == [prog |-> <<>>, seg |-> 0, at |-> 0, size |-> 0, child |-> 0]

Roundup(n) == (n + PGSIZE - 1) \div PGSIZE     \* PGROUNDUP, in pages

-----------------------------------------------------------------------------
(* kalloc.c                                                                *)
OnList(f) == {pg \in Page : f[pg] > 0}
APage(f) == CHOOSE pg \in OnList(f) : TRUE
Kalloc(f) == [f EXCEPT ![APage(f)] = @ - 1]
Kfree(f, pg) == [f EXCEPT ![pg] = @ + 1]
\* kinit1 and kinit2: kfree of every page.
Kinit == [pg \in Page |-> 1]

\* The pages an address space consists of, and how often it holds each.
Holds(a, pg) ==
  (IF a.dir = pg THEN 1 ELSE 0) + (IF a.ktab = pg THEN 1 ELSE 0)
  + Cardinality({d \in DOMAIN a.ptab : a.ptab[d] = pg})
  + Cardinality({v \in VPage : a.map[v] = pg})

\* freevm and the deallocuvm in it: kfree of every page of a.
Freevm(f, a) == [pg \in Page |-> f[pg] + Holds(a, pg)]

-----------------------------------------------------------------------------
(* vm.c on one address space                                               *)
Pde(v) == v \div NPTE

\* Mutants: rounding down instead of up; the two sizes swapped.
CutDown(oldsz, newsz) == {v \in VPage : newsz <= v * PGSIZE + PGSIZE - 1 /\ v * PGSIZE < oldsz}
CutSwapped(oldsz, newsz) == {v \in VPage : Roundup(oldsz) <= v /\ v * PGSIZE < newsz}
\* deallocuvm: free what is mapped from newsz to oldsz.
Cut(oldsz, newsz) == {v \in VPage : Roundup(newsz) <= v /\ v * PGSIZE < oldsz}
Unmapped(a, V) == [a EXCEPT !.map = [v \in VPage |-> IF v \in V THEN 0 ELSE @[v]]]
Released(f, a, V) == [pg \in Page |-> f[pg] + Cardinality({v \in V : a.map[v] = pg})]

\* One round of allocuvm or copyuvm at page v: kalloc, and a second page in
\* mappages if the page table is missing.  When that one cannot be had the
\* first is given back.
Needs(a, v) == IF a.ptab[Pde(v)] = 0 THEN 2 ELSE 1
Enough(a, v) == Cardinality(OnList(free)) >= Needs(a, v)
MapPage(a, v) ==
  [a EXCEPT !.map[v] = APage(free),
            !.ptab[Pde(v)] = IF @ = 0 THEN APage(Kalloc(free)) ELSE @]
MapPageTakes(a, v) == IF Needs(a, v) = 2 THEN Kalloc(Kalloc(free)) ELSE Kalloc(free)
\* Mutant: the page that could not be mapped is lost.
GivesBackNothing(mem, f) == f
GivesBack(mem, f) == Kfree(f, mem)
AfterFailure == IF OnList(free) = {} THEN free ELSE GivesBack(APage(free), Kalloc(free))

-----------------------------------------------------------------------------
\* The first process as userinit leaves it.
Init ==
  LET first == [None EXCEPT !.dir = 2, !.ktab = 3, !.ptab[0] = 4, !.map[0] = 5] IN
  /\ free = [pg \in Page |-> Kinit[pg] - (IF pg <= 5 THEN 1 ELSE 0)]
  /\ vm = [p \in Proc |-> IF p = 1 THEN first ELSE None]
  /\ new = [p \in Proc |-> None]
  /\ kstack = [p \in Proc |-> IF p = 1 THEN 1 ELSE 0]
  /\ sz = [p \in Proc |-> IF p = 1 THEN PGSIZE ELSE 0]
  /\ pc = [p \in Proc |-> IF p = 1 THEN "user" ELSE "unused"]
  /\ job = [p \in Proc |-> NoJob]
  /\ ret = [p \in Proc |-> "ok"]
  /\ before = [p \in Proc |-> <<0, None.map>>]
  /\ calls = 0
  /\ panicked = FALSE

Called(p) ==
  /\ ~panicked /\ pc[p] = "user" /\ calls < MaxCalls
  /\ calls' = calls + 1
  /\ before' = [before EXCEPT ![p] = <<sz[p], vm[p].map>>]
At(p, place) == ~panicked /\ pc[p] = place /\ UNCHANGED <<before, calls>>

Return(p, r) == pc' = [pc EXCEPT ![p] = "user"] /\ ret' = [ret EXCEPT ![p] = r]
                /\ job' = [job EXCEPT ![p] = NoJob]
Goto(p, place, j) == pc' = [pc EXCEPT ![p] = place] /\ job' = [job EXCEPT ![p] = j]
                     /\ UNCHANGED ret

-----------------------------------------------------------------------------
(* sbrk: growproc                                                          *)
Grow(p) ==
  /\ Called(p)
  /\ \E n \in Deltas :
       /\ n > 0
       /\ IF sz[p] + n >= KERNBASE THEN Return(p, "fail")
          ELSE Goto(p, "grow", [NoJob EXCEPT !.at = Roundup(sz[p]), !.size = sz[p] + n])
  /\ UNCHANGED <<free, vm, new, kstack, sz, panicked>>

\* allocuvm for growproc: the next page, the end, or out of memory.
GrowPage(p) ==
  /\ At(p, "grow")
  /\ LET v == job[p].at  size == job[p].size IN
     IF v * PGSIZE >= size
     THEN Return(p, "ok") /\ sz' = [sz EXCEPT ![p] = size] /\ UNCHANGED <<free, vm, panicked>>
     ELSE IF ~Enough(vm[p], v)
     THEN /\ Return(p, "fail")
          /\ vm' = [vm EXCEPT ![p] = Unmapped(@, Cut(size, sz[p]))]
          /\ free' = Released(AfterFailure, vm[p], Cut(size, sz[p]))
          /\ UNCHANGED <<sz, panicked>>
     ELSE /\ vm' = [vm EXCEPT ![p] = MapPage(@, v)]
          /\ free' = MapPageTakes(vm[p], v)
          /\ panicked' = (vm[p].map[v] # 0)
          /\ Goto(p, "grow", [job[p] EXCEPT !.at = @ + 1])
          /\ UNCHANGED sz
  /\ UNCHANGED <<new, kstack>>

\* deallocuvm for growproc.  The size 0 it returns is taken for an error after
\* the pages are gone: sbrk fails, sz is kept, and the process faults when it
\* goes on.
Shrink(p) ==
  /\ Called(p)
  /\ \E n \in Deltas :
       /\ n < 0 /\ (p = 1 => sz[p] + n > 0)
       /\ IF sz[p] + n < 0 THEN Return(p, "ok") /\ UNCHANGED <<free, vm, sz>>
          ELSE /\ vm' = [vm EXCEPT ![p] = Unmapped(@, Cut(sz[p], sz[p] + n))]
               /\ free' = Released(free, vm[p], Cut(sz[p], sz[p] + n))
               /\ IF sz[p] + n = 0
                  THEN /\ pc' = [pc EXCEPT ![p] = "doomed"]
                       /\ ret' = [ret EXCEPT ![p] = "fail"]
                       /\ UNCHANGED <<job, sz>>
                  ELSE Return(p, "ok") /\ sz' = [sz EXCEPT ![p] = @ + n]
  /\ UNCHANGED <<new, kstack, panicked>>

-----------------------------------------------------------------------------
(* The failure of fork and exec: what was built is freed                   *)
Abort(p, f) ==
  LET q == job[p].child IN
  /\ free' = IF q = 0 THEN Freevm(f, new[p]) ELSE Kfree(Freevm(f, new[p]), kstack[q])
  /\ new' = [new EXCEPT ![p] = None]
  /\ kstack' = IF q = 0 THEN kstack ELSE [kstack EXCEPT ![q] = 0]
  /\ pc' = [x \in Proc |-> IF x = p THEN "user" ELSE IF x = q THEN "unused" ELSE pc[x]]
  /\ ret' = [ret EXCEPT ![p] = "fail"]
  /\ job' = [job EXCEPT ![p] = NoJob]
  /\ UNCHANGED <<vm, sz, panicked>>

\* setupkvm: the page directory, then the page table of the kernel part.
KvmDir(p) ==
  /\ At(p, "kvm")
  /\ IF OnList(free) = {} THEN Abort(p, free)
     ELSE /\ new' = [new EXCEPT ![p].dir = APage(free)]
          /\ free' = Kalloc(free)
          /\ Goto(p, "kmap", job[p])
          /\ UNCHANGED <<vm, kstack, sz, panicked>>
KvmMap(p) ==
  /\ At(p, "kmap")
  /\ IF OnList(free) = {} THEN Abort(p, free)
     ELSE /\ new' = [new EXCEPT ![p].ktab = APage(free)]
          /\ free' = Kalloc(free)
          /\ Goto(p, IF job[p].child # 0 THEN "copy" ELSE "load", job[p])
          /\ UNCHANGED <<vm, kstack, sz, panicked>>

-----------------------------------------------------------------------------
(* fork: allocproc and copyuvm                                             *)
Fork(p) ==
  /\ Called(p)
  /\ LET unused == {q \in Proc : pc[q] = "unused"} IN
     IF unused = {} \/ OnList(free) = {} THEN Return(p, "fail") /\ UNCHANGED <<free, kstack>>
     ELSE /\ kstack' = [kstack EXCEPT ![Min(unused)] = APage(free)]
          /\ free' = Kalloc(free)
          /\ pc' = [pc EXCEPT ![p] = "kvm", ![Min(unused)] = "embryo"]
          /\ job' = [job EXCEPT ![p] = [NoJob EXCEPT !.child = Min(unused)]]
          /\ UNCHANGED ret
  /\ UNCHANGED <<vm, new, sz, panicked>>

CopyPage(p) ==
  /\ At(p, "copy")
  /\ LET v == job[p].at  q == job[p].child IN
     IF v * PGSIZE >= sz[p]
     THEN /\ vm' = [vm EXCEPT ![q] = new[p]]
          /\ new' = [new EXCEPT ![p] = None]
          /\ sz' = [sz EXCEPT ![q] = sz[p]]
          /\ pc' = [pc EXCEPT ![p] = "user", ![q] = "user"]
          /\ ret' = [ret EXCEPT ![p] = "ok", ![q] = "ok"]
          /\ job' = [job EXCEPT ![p] = NoJob]
          /\ UNCHANGED <<free, kstack, panicked>>
     ELSE IF ~Enough(new[p], v) THEN Abort(p, AfterFailure)
     ELSE /\ new' = [new EXCEPT ![p] = MapPage(@, v)]
          /\ free' = MapPageTakes(new[p], v)
          /\ panicked' = (vm[p].map[v] = 0)
          /\ Goto(p, "copy", [job[p] EXCEPT !.at = @ + 1])
          /\ UNCHANGED <<vm, kstack, sz>>

-----------------------------------------------------------------------------
(* exec                                                                    *)
\* With bad arguments, without a file or an ELF header nothing is built.
ExecRefused(p) == Return(p, "fail")
Exec(p) ==
  /\ Called(p)
  /\ \/ ExecRefused(p)
     \/ \E prog \in Programs : Goto(p, "kvm", [NoJob EXCEPT !.prog = prog, !.seg = 1])
  /\ UNCHANGED <<free, vm, new, kstack, sz, panicked>>

\* allocuvm for exec: the next page below end.
ExecPage(p, end) ==
  LET v == job[p].at IN
  IF end >= KERNBASE \/ ~Enough(new[p], v) THEN Abort(p, AfterFailure)
  ELSE /\ new' = [new EXCEPT ![p] = MapPage(@, v)]
       /\ free' = MapPageTakes(new[p], v)
       /\ panicked' = (new[p].map[v] # 0)
       /\ Goto(p, pc[p], [job[p] EXCEPT !.at = @ + 1])
       /\ UNCHANGED <<vm, kstack, sz>>

\* loaduvm panics if a page table is missing.
Loaduvm(a, end) == \A v \in VPage : v * PGSIZE < end => a.ptab[Pde(v)] # 0

\* A segment: allocuvm, then loaduvm, which fails if the file is too short.
Load(p) ==
  /\ At(p, "load")
  /\ LET j == job[p]  end == j.prog[j.seg] IN
     IF j.at * PGSIZE < end THEN ExecPage(p, end)
     ELSE \E readable \in BOOLEAN :
            LET size == IF end > j.size THEN end ELSE j.size IN
            IF ~readable \/ size = 0 THEN Abort(p, free)
            ELSE /\ IF j.seg < Len(j.prog)
                    THEN Goto(p, "load", [j EXCEPT !.seg = @ + 1, !.size = size])
                    ELSE Goto(p, "stack", [j EXCEPT !.size = (Roundup(size) + 2) * PGSIZE])
                 /\ panicked' = ~Loaduvm(new[p], end)
                 /\ UNCHANGED <<free, vm, new, kstack, sz>>

\* The page below the stack (clearpteu), a page the user can write (uva2ka),
\* and copyout of the arguments from sp to the top of the stack.
Guard(size) == size \div PGSIZE - 2
Uva2ka(a, size, v) == a.map[v] # 0 /\ v # Guard(size)
Copyout(a, size, sp) == \A v \in (sp \div PGSIZE)..(size \div PGSIZE - 1) : Uva2ka(a, size, v)

\* The two pages of the stack, the arguments, the commitment.
Stack(p) ==
  /\ At(p, "stack")
  /\ IF job[p].at * PGSIZE < job[p].size THEN ExecPage(p, job[p].size)
     ELSE \E sp \in (Guard(job[p].size) * PGSIZE)..(job[p].size - 1) :
            IF ~Copyout(new[p], job[p].size, sp) THEN Abort(p, free)
            ELSE /\ vm' = [vm EXCEPT ![p] = new[p]]
                 /\ new' = [new EXCEPT ![p] = None]
                 /\ sz' = [sz EXCEPT ![p] = job[p].size]
                 /\ free' = Freevm(free, vm[p])
                 /\ Return(p, "ok")
                 /\ UNCHANGED <<kstack, panicked>>

-----------------------------------------------------------------------------
(* exit and wait                                                           *)
Exit(p) ==
  /\ ~panicked /\ p # 1 /\ pc[p] \in {"user", "doomed"}
  /\ pc' = [pc EXCEPT ![p] = "zombie"]
  /\ UNCHANGED <<free, vm, new, kstack, sz, job, ret, before, calls, panicked>>

Wait(p) ==
  /\ ~panicked /\ pc[p] = "user"
  /\ \E q \in Proc :
       /\ pc[q] = "zombie"
       /\ free' = Freevm(Kfree(free, kstack[q]), vm[q])
       /\ kstack' = [kstack EXCEPT ![q] = 0]
       /\ vm' = [vm EXCEPT ![q] = None]
       /\ pc' = [pc EXCEPT ![q] = "unused"]
  /\ UNCHANGED <<new, sz, job, ret, before, calls, panicked>>

Next ==
  \E p \in Proc :
    \/ Grow(p) \/ GrowPage(p) \/ Shrink(p)
    \/ KvmDir(p) \/ KvmMap(p) \/ Fork(p) \/ CopyPage(p)
    \/ Exec(p) \/ Load(p) \/ Stack(p) \/ Exit(p) \/ Wait(p)

Spec == Init /\ [][Next]_vars

-----------------------------------------------------------------------------
(* Properties                                                              *)

\* Every page is in exactly one place: once on the free list, or once in an
\* address space, one being built included, or a kernel stack.  Nothing is
\* lost, shared or freed twice, whichever kalloc of fork, exec or sbrk fails.
PagesExact ==
  \A pg \in Page :
    free[pg] + Cardinality({p \in Proc : kstack[p] = pg})
    + MapThenSumSet(LAMBDA p : Holds(vm[p], pg) + Holds(new[p], pg), Proc) = 1

\* Outside sbrk a process has exactly the pages its size says, each with its
\* page table: what copyuvm, loaduvm and the checks of system call arguments
\* against sz rely on.  No mapping is overwritten.
SizeMapped ==
  /\ ~panicked
  /\ \A p \in Proc :
       pc[p] \notin {"grow", "doomed", "zombie", "unused", "embryo"} =>
         \A v \in VPage : vm[p].map[v] # 0 <=> v < Roundup(sz[p])
  /\ \A p \in Proc, v \in VPage : vm[p].map[v] # 0 => vm[p].ptab[Pde(v)] # 0

\* A sbrk, fork or exec that fails leaves the size and the mappings of its
\* process as they were ("bad:" in exec, deallocuvm in allocuvm), with one
\* exception: the sbrk to size 0 that growproc reports as failed has freed every
\* page and kept the size.
FailureUndone ==
  \A p \in Proc :
    ret[p] = "fail" =>
      /\ pc[p] = "user" => before[p] = <<sz[p], vm[p].map>>
      /\ pc[p] = "doomed" => before[p][1] = sz[p] /\ vm[p].map = None.map
=============================================================================
