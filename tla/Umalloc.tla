------------------------------ MODULE Umalloc -------------------------------
(***************************************************************************)
(* The allocator of the user library, user/umalloc.c: a circular list of   *)
(* free blocks in address order.  An address counts headers (units); the   *)
(* static header base lies below the heap, at 0.                           *)
(***************************************************************************)
EXTENDS Integers, FiniteSets

CONSTANTS
  NBYTES,      \* arguments of malloc()
  HEADER,      \* sizeof(Header)
  NALLOC,      \* units that morecore() asks sbrk() for, at least
  MaxUnits     \* bound on the break

Base == 0
NULL == -1

VARIABLES
  header,      \* ptr and size of the header at each unit
  freep,
  brk,         \* the first unit past the break
  mine,        \* units that sbrk() gave to malloc()
  held         \* blocks that malloc() returned, with their sizes

heapvars == <<header, freep, brk, mine, held>>

HeapInit ==
  /\ header = [u \in 0..MaxUnits |-> [ptr |-> NULL, size |-> 0]]
  /\ freep = NULL
  /\ brk = 1 /\ mine = {} /\ held = <<>>

Heap == [hd |-> header, freep |-> freep, got |-> NULL]

-----------------------------------------------------------------------------
\* The block after which free() inserts bp.
RECURSIVE before(_, _, _)
before(h, bp, p) ==
  LET q == h.hd[p].ptr IN
  IF (bp > p /\ bp < q) \/ (p >= q /\ (bp > p \/ bp < q)) THEN p ELSE before(h, bp, q)

\* Merge with the block above, then with the one below.
join_above(h, bp, q) ==
  IF bp + h.hd[bp].size = q
  THEN [h EXCEPT !.hd[bp] = [ptr |-> h.hd[q].ptr, size |-> @.size + h.hd[q].size]]
  ELSE [h EXCEPT !.hd[bp].ptr = q]
join_below_keeps(h, bp, p) ==
  IF p + h.hd[p].size = bp
  THEN [h EXCEPT !.hd[p] = [ptr |-> @.ptr, size |-> @.size + h.hd[bp].size]]
  ELSE [h EXCEPT !.hd[p].ptr = bp]
join_below(h, bp, p) ==
  IF p + h.hd[p].size = bp
  THEN [h EXCEPT !.hd[p] = [ptr |-> h.hd[bp].ptr, size |-> @.size + h.hd[bp].size]]
  ELSE [h EXCEPT !.hd[p].ptr = bp]
free_at(h, bp, p) == [join_below(join_above(h, bp, h.hd[p].ptr), bp, p) EXCEPT !.freep = p]
free_block(h, bp) == free_at(h, bp, before(h, bp, h.freep))

\* morecore(): a block of nu units at p, freed into the list.
morecore(h, p, nu) == free_block([h EXCEPT !.hd[p].size = nu], p)

taken(h, prevp, p, n) ==
  IF h.hd[p].size = n THEN [h EXCEPT !.hd[prevp].ptr = h.hd[p].ptr, !.freep = prevp, !.got = p]
  ELSE LET q == p + h.hd[p].size - n IN
       [h EXCEPT !.hd = [@ EXCEPT ![p].size = @ - n, ![q].size = n], !.freep = prevp, !.got = q]

\* malloc()'s search from p; got stays NULL when it comes round to freep.
RECURSIVE search(_, _, _, _)
search(h, prevp, p, n) ==
  IF h.hd[p].size >= n THEN taken(h, prevp, p, n)
  ELSE IF p = h.freep THEN h
  ELSE search(h, p, h.hd[p].ptr, n)
from_freep(h, n) == search(h, h.freep, h.hd[h.freep].ptr, n)
initialized(h) ==
  IF h.freep = NULL THEN [h EXCEPT !.hd[Base] = [ptr |-> Base, size |-> 0], !.freep = Base] ELSE h

nunits(nbytes) == ((nbytes + HEADER - 1) \div HEADER) + 1

-----------------------------------------------------------------------------
Put(h) == header' = h.hd /\ freep' = h.freep
Return(h, n) == Put(h) /\ held' = [b \in DOMAIN held \union {h.got} |-> IF b = h.got THEN n ELSE held[b]]

malloc_fits(h, n) == h.got # NULL /\ Return(h, n) /\ UNCHANGED <<brk, mine>>
\* No block fits: sbrk() may move the break, which the program itself may
\* have moved by gap units since, or fail.
malloc_grows(h, n, gap) ==
  LET nu == IF n < NALLOC THEN NALLOC ELSE n IN
  /\ h.got = NULL
  /\ brk + gap + nu <= MaxUnits + 1
  /\ brk' = brk + gap + nu
  /\ mine' = mine \union (brk + gap)..(brk + gap + nu - 1)
  /\ Return(from_freep(morecore(h, brk + gap, nu), n), n)
malloc_fails(h) == h.got = NULL /\ Put(h) /\ UNCHANGED <<brk, mine, held>>
malloc(nbytes) ==
  LET n == nunits(nbytes) IN
  \/ malloc_fits(from_freep(initialized(Heap), n), n)
  \/ \E gap \in {0, 1} : malloc_grows(from_freep(initialized(Heap), n), n, gap)
  \/ malloc_fails(from_freep(initialized(Heap), n))

free_(bp) ==
  /\ bp \in DOMAIN held
  /\ Put(free_block(Heap, bp))
  /\ held' = [b \in DOMAIN held \ {bp} |-> held[b]]
  /\ UNCHANGED <<brk, mine>>

HeapNext ==
  \/ \E nbytes \in NBYTES : malloc(nbytes)
  \/ \E bp \in DOMAIN held : free_(bp)

-----------------------------------------------------------------------------
RECURSIVE ListFrom(_, _)
ListFrom(p, seen) == IF p \in seen THEN seen ELSE ListFrom(header[p].ptr, seen \union {p})
FreeList == IF freep = NULL THEN {} ELSE ListFrom(freep, {}) \ {Base}
Units(b, n) == b..b + n - 1

(* After any history of malloc() and free(): the blocks handed out and the *)
(* blocks on the free list share no unit and together are all that sbrk()  *)
(* gave; the list is one cycle through base in address order; two free     *)
(* blocks that touch have been joined; a block handed out keeps its size.  *)
HeapExact ==
  LET Blocks == {<<b, held[b]>> : b \in DOMAIN held} \union {<<b, header[b].size>> : b \in FreeList} IN
  /\ UNION {Units(x[1], x[2]) : x \in Blocks} = mine
  /\ \A x, y \in Blocks : x # y => Units(x[1], x[2]) \cap Units(y[1], y[2]) = {}
  /\ \A b \in DOMAIN held : held[b] = header[b].size
  /\ freep # NULL =>
       \A p \in FreeList \union {Base} :
         LET above == {q \in FreeList : q > p} IN
         /\ header[p].ptr = IF above = {} THEN Base ELSE CHOOSE q \in above : \A r \in above : q <= r
         /\ p # Base => p + header[p].size \notin FreeList /\ header[p].size > 0
=============================================================================
