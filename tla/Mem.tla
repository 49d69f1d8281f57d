-------------------------------- MODULE Mem ---------------------------------
(***************************************************************************)
(* Physical memory and address spaces: kernel/kalloc.c, kernel/vm.c,       *)
(* kernel/exec.c, and the parts of kernel/proc.c and kernel/sysfile.c that *)
(* take and give back pages.                                               *)
(*                                                                         *)
(* A page table is its tree of page-table pages, dirs (the root is <<>>, a *)
(* path of indices leads to the others), and its leaves by virtual page    *)
(* number.  A routine of the code is an operator on a frame: the free      *)
(* pages and one page table under construction.  The system calls are the  *)
(* actions.  They share nothing but the free list, so that an interleaving *)
(* shows only in which kalloc() fails, and memory is small enough for each *)
(* of them to fail.  Pages are alike: kalloc() returns the least.          *)
(***************************************************************************)
EXTENDS Integers, Sequences, FiniteSets, TLC
LOCAL INSTANCE SequencesExt

CONSTANTS
  Slots, InitSlot,   \* struct proc entries; the one of the first process
  NPAGES,            \* pages that kinit() frees
  PGSIZE,            \* bytes in a page
  NPTE,              \* entries used of a page-table page
  USERSTACK,
  WORD,              \* sizeof(uint64)
  Programs,          \* sequences of segments [vaddr, memsz, w]
  MAXARG,            \* bound on arguments; each takes ARGLEN bytes
  ARGLEN,
  SbrkArgs,          \* arguments of sbrk()
  MaxPipes, MaxCalls \* bounds on the pipes, and on the calls that succeed

MAXVA == NPTE * NPTE * NPTE * PGSIZE
TRAMPOLINE == NPTE * NPTE * NPTE - 1       \* as page numbers
TRAPFRAME == TRAMPOLINE - 1

VARIABLES
  free,     \* kmem.freelist
  slot,     \* the processes: tf (0: unused), dirs, leaf, sz
  pipes,    \* pages of pipes
  oops,     \* a panic, or a page freed twice
  calls     \* how many calls have changed anything

memvars == <<free, slot, pipes, oops, calls>>

Empty == [x \in {} |-> 0]
Unused == [tf |-> 0, dirs |-> Empty, leaf |-> Empty, sz |-> 0]
Frame(f) == [free |-> f, dirs |-> Empty, leaf |-> Empty, sz |-> 0, ok |-> TRUE, got |-> 0, oops |-> FALSE]

-----------------------------------------------------------------------------
(* kalloc.c and vm.c.                                                      *)

UP(a) == (a + PGSIZE - 1) \div PGSIZE        \* PGROUNDUP(a) / PGSIZE
PX(level, v) == (v \div (NPTE ^ level)) % NPTE

kalloc(x) ==
  IF x.free = {} THEN [x EXCEPT !.ok = FALSE, !.got = 0]
  ELSE LET g == CHOOSE p \in x.free : \A q \in x.free : p <= q IN [x EXCEPT !.free = @ \ {g}, !.got = g]
kfree(x, p) == [x EXCEPT !.free = @ \union {p}, !.oops = @ \/ p \in x.free \/ p \notin 1..NPAGES]

entered(y, n) == IF y.ok THEN [y EXCEPT !.dirs = (n :> y.got) @@ @] ELSE y
walk_level(x, n) == IF ~x.ok \/ n \in DOMAIN x.dirs THEN x ELSE entered(kalloc(x), n)
walk(x, v) == walk_level(walk_level(x, <<PX(2, v)>>), <<PX(2, v), PX(1, v)>>)

PTE(pa, u, w) == [pa |-> pa, u |-> u, w |-> w]
installed(y, v, pte) == IF ~y.ok THEN y ELSE [y EXCEPT !.leaf = (v :> pte) @@ @, !.oops = @ \/ v \in DOMAIN y.leaf]
mappages(x, v, pte) == installed(walk(x, v), v, pte)

uvmunmap(x, v, n, do_free) ==
  LET S == v..v + n - 1
      pas == {x.leaf[a].pa : a \in S} IN
  IF ~(S \subseteq DOMAIN x.leaf) THEN [x EXCEPT !.oops = TRUE]
  ELSE [x EXCEPT !.leaf = [a \in DOMAIN @ \ S |-> x.leaf[a]],
                 !.free = IF do_free THEN @ \union pas ELSE @,
                 !.oops = @ \/ (do_free /\ (pas \cap x.free # {} \/ Cardinality(pas) # n))]

uvmcreate(x) == entered(kalloc(x), <<>>)

uvmdealloc(x, oldsz, newsz) ==
  IF newsz < oldsz /\ UP(newsz) < UP(oldsz) THEN uvmunmap(x, UP(newsz), UP(oldsz) - UP(newsz), TRUE) ELSE x

\* A loop of the code that allocates and maps one page per iteration: add
\* is the page's PTE, undo what the code does when kalloc() or mappages()
\* fails at page v; a page that could not be mapped has been freed.
Failed(y) == [y EXCEPT !.ok = FALSE]
Kept(m, page, v, undo(_, _)) == IF m.ok THEN m ELSE Failed(undo(kfree(m, page), v))
Added(z, v, add(_, _), undo(_, _)) ==
  IF z.ok THEN Kept(mappages(z, v, add(v, z.got)), z.got, v, undo) ELSE Failed(undo(z, v))
PageLoop(x, first, end, add(_, _), undo(_, _)) ==
  FoldLeft(LAMBDA y, v : IF y.ok THEN Added(kalloc(y), v, add, undo) ELSE y,
           x, [i \in 1..end - first |-> first + i - 1])

\* On failure the pages of this call go back.
resized(y, newsz) == [y EXCEPT !.sz = IF y.ok THEN newsz ELSE 0]
uvmalloc(x, oldsz, newsz, w) ==
  IF newsz < oldsz THEN [x EXCEPT !.sz = oldsz]
  ELSE resized(PageLoop(x, UP(oldsz), UP(newsz), LAMBDA v, p : PTE(p, TRUE, w),
                        LAMBDA y, v : uvmdealloc(y, v * PGSIZE, UP(oldsz) * PGSIZE)), newsz)

freewalk(x) ==
  [x EXCEPT !.free = @ \union {x.dirs[n] : n \in DOMAIN x.dirs}, !.dirs = Empty,
            !.oops = @ \/ x.leaf # Empty]
uvmfree(x, sz) == freewalk(IF sz > 0 THEN uvmunmap(x, 0, UP(sz), TRUE) ELSE x)

\* The pages of leaf, copied into x.
uvmcopy(x, leaf, sz) ==
  IF 0..UP(sz) - 1 \subseteq DOMAIN leaf
  THEN PageLoop(x, 0, UP(sz), LAMBDA v, p : [leaf[v] EXCEPT !.pa = p],
                LAMBDA y, v : uvmunmap(y, 0, v, TRUE))
  ELSE [x EXCEPT !.oops = TRUE]

uvmclear(x, v) == [x EXCEPT !.leaf[v].u = FALSE]

-----------------------------------------------------------------------------
(* copyout(), copyin() and copyinstr(): the physical byte that each byte of  *)
(* the copy comes from or goes to, as far as it gets.                        *)
Mapped_any(leaf, v, w) == v \in DOMAIN leaf /\ (w => leaf[v].w)
Mapped(leaf, v, w) == v \in DOMAIN leaf /\ leaf[v].u /\ (w => leaf[v].w)

RECURSIVE chunks(_, _, _, _)
chunks(leaf, va, len, w) ==
  LET va0 == va - (va % PGSIZE)
      n == IF PGSIZE - (va - va0) > len THEN len ELSE PGSIZE - (va - va0) IN
  IF len = 0 THEN [ret |-> 0, bytes |-> <<>>]
  ELSE IF va0 >= MAXVA \/ ~Mapped(leaf, va0 \div PGSIZE, w) THEN [ret |-> -1, bytes |-> <<>>]
  ELSE LET rest == chunks(leaf, va0 + PGSIZE, len - n, w) IN
       [rest EXCEPT !.bytes = [i \in 1..n |-> <<leaf[va0 \div PGSIZE].pa, va - va0 + i - 1>>] \o @]
copyout(leaf, va, len) == chunks(leaf, va, len, TRUE)
copyin(leaf, va, len) == chunks(leaf, va, len, FALSE)

\* copyinstr() of a string whose '\0' is at nul: 0 when found within max bytes.
RECURSIVE copyinstr(_, _, _, _)
copyinstr(leaf, va, max, nul) ==
  LET va0 == va - (va % PGSIZE)
      n == IF PGSIZE - (va - va0) > max THEN max ELSE PGSIZE - (va - va0) IN
  IF max = 0 \/ va0 >= MAXVA \/ ~Mapped(leaf, va0 \div PGSIZE, FALSE) THEN -1
  ELSE IF nul \in va..va + n - 1 THEN 0
  ELSE copyinstr(leaf, va0 + PGSIZE, max - n, nul)

-----------------------------------------------------------------------------
(* proc.c.                                                                 *)

with_trapframe(m) == IF m.ok THEN m ELSE uvmfree(uvmunmap(m, TRAMPOLINE, 1, FALSE), 0)
with_trampoline(z, tf) ==
  IF z.ok THEN with_trapframe(mappages(z, TRAPFRAME, PTE(tf, FALSE, TRUE))) ELSE uvmfree(z, 0)
with_root(y, tf) == IF y.ok THEN with_trampoline(mappages(y, TRAMPOLINE, PTE(0, FALSE, FALSE)), tf) ELSE y
proc_pagetable(x, tf) == with_root(uvmcreate(x), tf)

proc_freepagetable(x, sz) ==
  uvmfree(uvmunmap(uvmunmap(x, TRAMPOLINE, 1, FALSE), TRAPFRAME, 1, FALSE), sz)

\* allocproc()'s pages: got is the trapframe of the result if it is ok.
with_table(y, tf) == IF y.ok THEN [y EXCEPT !.got = tf] ELSE kfree(y, tf)
with_frame(x) == IF x.ok THEN with_table(proc_pagetable(x, x.got), x.got) ELSE x
allocproc(f) == with_frame(kalloc(Frame(f)))

\* freeproc(): the trapframe, then the page table.
freeproc(x, tf, sz) == proc_freepagetable(kfree(x, tf), sz)

Table(s) == [Frame(free) EXCEPT !.dirs = slot[s].dirs, !.leaf = slot[s].leaf]
Proc(x, tf, sz) == [tf |-> tf, dirs |-> x.dirs, leaf |-> x.leaf, sz |-> sz]

\* What a system call leaves behind: the free pages of x, and slot s = p.
Results(x, s, p) ==
  /\ free' = x.free /\ oops' = (oops \/ x.oops)
  /\ slot' = [slot EXCEPT ![s] = p]
  /\ calls < MaxCalls /\ calls' = IF p = slot[s] THEN calls ELSE calls + 1
  /\ UNCHANGED pipes

\* userinit(), with uvmfirst().
uvmfirst(y, tf) ==
  LET m == mappages(y, 0, PTE(y.got, TRUE, TRUE)) IN
  /\ slot = [s \in Slots |-> IF s = InitSlot THEN Proc(m, tf, PGSIZE) ELSE Unused]
  /\ free = m.free
userinit(x) == uvmfirst(kalloc(x), x.got)
MemInit ==
  /\ userinit(allocproc(1..NPAGES))
  /\ pipes = {} /\ oops = FALSE /\ calls = 0

forked(y, tf, s, t) ==
  IF y.ok THEN Results(y, t, Proc(y, tf, slot[s].sz)) ELSE Results(freeproc(y, tf, 0), t, Unused)
fork_in(x, s, t) ==
  IF x.ok THEN forked(uvmcopy(x, slot[s].leaf, slot[s].sz), x.got, s, t) ELSE Results(x, t, Unused)
fork(s, t) ==
  /\ slot[s].tf # 0 /\ slot[t].tf = 0
  /\ fork_in(allocproc(free), s, t)

\* exit(), and freeproc() by the parent's wait().
reap(s) ==
  /\ s # InitSlot /\ slot[s].tf # 0
  /\ Results(freeproc(Table(s), slot[s].tf, slot[s].sz), s, Unused)

\* sys_sbrk() and growproc(); below 0 the unsigned sum wraps to a size that
\* uvmdealloc() takes for growth.
grown(x, s) == Results(x, s, Proc(x, slot[s].tf, IF x.ok THEN x.sz ELSE slot[s].sz))
sbrk(s, n) ==
  LET sz == slot[s].sz IN
  /\ slot[s].tf # 0
  /\ grown(CASE n > 0 -> uvmalloc(Table(s), sz, sz + n, TRUE)
              [] n < 0 /\ sz + n >= 0 -> [uvmdealloc(Table(s), sz, sz + n) EXCEPT !.sz = sz + n]
              [] OTHER -> [Table(s) EXCEPT !.sz = sz], s)

-----------------------------------------------------------------------------
(* exec(): segments, a guard page and the stack, then the arguments.  The    *)
(* file may turn out bad before (check) or after (load) the memory of        *)
(* segment bad is there.                                                     *)
loadseg(z, seg, good) ==
  LET pages == seg.vaddr \div PGSIZE..UP(seg.vaddr + seg.memsz) - 1 IN
  [z EXCEPT !.ok = good, !.oops = @ \/ \E v \in pages : ~Mapped(z.leaf, v, FALSE)]
segment(z, sz, seg, good) == IF z.sz = 0 THEN [z EXCEPT !.ok = FALSE, !.sz = sz] ELSE loadseg(z, seg, good)
segments(x, prog, bad, check) ==
  FoldLeft(LAMBDA y, k : IF ~y.ok \/ (k = bad /\ check) THEN Failed(y)
                         ELSE segment(uvmalloc(y, y.sz, prog[k].vaddr + prog[k].memsz, prog[k].w), y.sz, prog[k], k # bad),
           [x EXCEPT !.sz = 0], [k \in 1..Len(prog) |-> k])

stacked(y, sz) == IF y.sz = 0 THEN [y EXCEPT !.ok = FALSE, !.sz = sz] ELSE uvmclear(y, UP(sz))
stack(x) == stacked(uvmalloc(x, UP(x.sz) * PGSIZE, (UP(x.sz) + USERSTACK + 1) * PGSIZE, TRUE), UP(x.sz) * PGSIZE)

\* The argument strings, then the array of their addresses.
pushed(x, sp, n) ==
  IF sp - n < x.sz - USERSTACK * PGSIZE \/ copyout(x.leaf, sp - n, n).ret < 0 THEN -1 ELSE sp - n
push(x, argc) ==
  LET sp == FoldLeft(LAMBDA at, i : IF at < 0 THEN at ELSE pushed(x, at, ARGLEN), x.sz, [i \in 1..argc |-> i])
  IN IF sp < 0 THEN FALSE ELSE pushed(x, sp, (argc + 1) * WORD) >= 0

\* The new image; or, after proc_freepagetable(), what is left of it.
finished_keeps(z, argc) ==
  IF z.ok /\ push(z, argc) THEN z ELSE Failed(proc_freepagetable(z, IF z.ok THEN z.sz - PGSIZE ELSE z.sz))
finished(z, argc) == IF z.ok /\ push(z, argc) THEN z ELSE Failed(proc_freepagetable(z, z.sz))
with_stack(y) == IF y.ok THEN stack(y) ELSE y
image(x, prog, argc, bad, check) ==
  IF x.ok THEN finished(with_stack(segments(x, prog, bad, check)), argc) ELSE x

\* sys_exec() takes a page per argument, and gives them back in any case.
replaced(y, x, argv, s) ==
  Results([y EXCEPT !.free = @ \union argv, !.oops = @ \/ x.oops], s, Proc(x, slot[s].tf, x.sz))
execed(x, argv, s) ==
  IF x.ok THEN replaced(proc_freepagetable([Table(s) EXCEPT !.free = x.free], slot[s].sz), x, argv, s)
  ELSE Results([x EXCEPT !.free = @ \union argv], s, slot[s])
exec(s, prog, argc, bad, check) ==
  LET argv == {p \in free : Cardinality({q \in free : q <= p}) <= argc} IN
  /\ slot[s].tf # 0 /\ Cardinality(free) >= argc
  /\ execed(image(proc_pagetable(Frame(free \ argv), slot[s].tf), prog, argc, bad, check), argv, s)

\* pipealloc() and the last pipeclose().
pipealloc ==
  LET x == kalloc(Frame(free)) IN
  /\ x.ok /\ Cardinality(pipes) < MaxPipes /\ free' = x.free /\ pipes' = pipes \union {x.got}
  /\ calls < MaxCalls /\ calls' = calls + 1
  /\ UNCHANGED <<slot, oops>>
pipeclose(p) ==
  LET x == kfree(Frame(free), p) IN
  /\ p \in pipes /\ pipes' = pipes \ {p}
  /\ free' = x.free /\ oops' = (oops \/ x.oops)
  /\ calls < MaxCalls /\ calls' = calls + 1
  /\ UNCHANGED slot

MemNext ==
  \/ \E s, t \in Slots : fork(s, t)
  \/ \E s \in Slots : reap(s)
  \/ \E s \in Slots, n \in SbrkArgs : sbrk(s, n)
  \/ \E s \in Slots, prog \in Programs, argc \in 0..MAXARG, bad \in 0..2, check \in BOOLEAN :
       exec(s, prog, argc, bad, check)
  \/ pipealloc
  \/ \E p \in pipes : pipeclose(p)

-----------------------------------------------------------------------------
(* What holds.                                                             *)

Leaves(s) == DOMAIN slot[s].leaf \ {TRAMPOLINE, TRAPFRAME}
Live == {s \in Slots : slot[s].tf # 0}
\* Every reference to a page, tagged by where it is held.
Uses ==
  {<<"free", InitSlot, <<>>, p>> : p \in free} \union {<<"pipe", InitSlot, <<>>, p>> : p \in pipes}
  \union UNION {{<<"tf", s, <<>>, slot[s].tf>>}
                 \union {<<"dir", s, n, slot[s].dirs[n]>> : n \in DOMAIN slot[s].dirs}
                 \union {<<"leaf", s, <<v>>, slot[s].leaf[v].pa>> : v \in Leaves(s)} : s \in Live}

(* After any history of system calls, whichever of their kalloc()s failed, *)
(* every page that kinit() freed is in exactly one place: the free list, a *)
(* pipe, a trapframe, a page table or the memory of one process.  None     *)
(* leaks, none is shared or freed twice, and no panic of vm.c (remap, not  *)
(* mapped, freewalk: leaf) is reached.  A process maps exactly the pages   *)
(* below its sz, with its trapframe and the trampoline.                    *)
PagesAccounted ==
  /\ ~oops
  /\ {u[4] : u \in Uses} = 1..NPAGES
  /\ Cardinality(Uses) = NPAGES
  /\ \A s \in Live :
       /\ Leaves(s) = 0..UP(slot[s].sz) - 1
       /\ {TRAMPOLINE, TRAPFRAME} \subseteq DOMAIN slot[s].leaf
       /\ slot[s].leaf[TRAPFRAME].pa = slot[s].tf
       /\ \A v \in DOMAIN slot[s].leaf : {<<>>, <<PX(2, v)>>, <<PX(2, v), PX(1, v)>>} \subseteq DOMAIN slot[s].dirs

(* copyout(), copyin() and copyinstr() work page by page, and yet treat    *)
(* every address alike: each byte is copied to the place its own address   *)
(* translates to, up to the first page that the process may not use, and   *)
(* the call succeeds exactly when there is no such page (copyinstr: no     *)
(* such page before the terminator, and the terminator within max bytes).  *)
CopyExact ==
  \A s \in Live : \A va \in 0..slot[s].sz + 1, len \in 0..PGSIZE + 2 :
    LET leaf == slot[s].leaf
        Good(a, w) == a < UP(slot[s].sz) * PGSIZE /\ leaf[a \div PGSIZE].u /\ (w => leaf[a \div PGSIZE].w)
        Reach(w) == {k \in 0..len : \A i \in 0..k - 1 : Good(va + i, w)}
        Right(c, w) ==
          /\ (c.ret = 0) = (len \in Reach(w))
          /\ Len(c.bytes) \in Reach(w)
          /\ c.ret = 0 => Len(c.bytes) = len
          /\ c.ret # 0 => Len(c.bytes) + 1 \notin Reach(w)
          /\ \A i \in 1..Len(c.bytes) :
               c.bytes[i] = <<leaf[(va + i - 1) \div PGSIZE].pa, (va + i - 1) % PGSIZE>> IN
    /\ Right(copyout(leaf, va, len), TRUE) /\ Right(copyin(leaf, va, len), FALSE)
    /\ \A k \in 0..len :
         (copyinstr(leaf, va, len, va + k) = 0) = (k < len /\ k + 1 \in Reach(FALSE))
=============================================================================
