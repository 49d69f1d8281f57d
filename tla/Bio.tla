--------------------------------- MODULE Bio ---------------------------------
(***************************************************************************)
(* kernel/bio.c and kernel/sleeplock.c: the buffer cache, its LRU list and *)
(* the sleep-lock of each buffer.                                          *)
(*                                                                         *)
(* A critical section of bcache.lock or of a sleep-lock's spinlock is one  *)
(* action, and so is a completed virtio_disk_rw().  The clients are the    *)
(* file system and the log: between bread() and brelse() a process may     *)
(* change the data, write it, pin or unpin the buffer.  Their obligation   *)
(* is the log's: changed data is written or pinned before brelse(), and a  *)
(* buffer is written before it is unpinned.                                *)
(*                                                                         *)
(* A user is one use of a buffer, from bget() to the end of brelse().  A   *)
(* process that has two buffers at a time, in write_log(), install_trans(),*)
(* or in bmap() and itrunc() around balloc() and bfree(), is two users,    *)
(* whose steps come in any order here.                                     *)
(***************************************************************************)
EXTENDS Integers, FiniteSets

CONSTANTS
  Users,         \* up to two for each process
  Blocks, Values,
  NoBlock,       \* the block of a buffer never used (dev 0), or of no buffer
  NoProc,        \* the holder of a free sleep-lock
  NoValue,       \* memory as binit() finds it
  NBUF,          \* param.h
  MAXPIN         \* bound: buffers pinned at a time; the log pins a block once

ASSUME BioConstants ==
  /\ NBUF \in Nat /\ MAXPIN \in Nat
  /\ IsFiniteSet(Users)
  /\ NoBlock \notin Blocks /\ NoProc \notin Users /\ NoValue \notin Values

Bufs == 1..NBUF
NoBuf == 0

VARIABLES
  disk,
  blockno, valid, refcnt, data,   \* the fields of struct buf
  lru,           \* the list from bcache.head.next to bcache.head.prev
  locked,        \* locked[b]: the user whose process's pid is in b->lock, or NoProc
  pc,
  bp,            \* bp[p]: the buffer p works with
  pins           \* history: bpin() calls not yet undone, per buffer

vars == <<disk, blockno, valid, refcnt, data, lru, locked, pc, bp, pins>>

goto(p, a) == pc' = [pc EXCEPT ![p] = a]
Cached(k) == \E b \in Bufs : blockno[b] = k
\* bget() panics with bcache.lock held: from then on nobody gets that lock.
bcache_lock == \A p \in Users : pc[p] # "panic"

(* binit() puts each buffer at the front of the list in turn.               *)
Init ==
  /\ disk \in [Blocks -> Values]
  /\ blockno = [b \in Bufs |-> NoBlock]
  /\ valid = [b \in Bufs |-> FALSE]
  /\ refcnt = [b \in Bufs |-> 0]
  /\ data = [b \in Bufs |-> NoValue]
  /\ lru = [n \in Bufs |-> NBUF + 1 - n]
  /\ locked = [b \in Bufs |-> NoProc]
  /\ pc = [p \in Users |-> "out"]
  /\ bp = [p \in Users |-> NoBuf]
  /\ pins = [b \in Bufs |-> 0]

-----------------------------------------------------------------------------
\* Mutant of bget_cached: the reference is not counted.
bget_cached_uncounted(p, k) ==
  /\ pc[p] = "out" /\ bcache_lock
  /\ \E b \in Bufs : blockno[b] = k /\ bp' = [bp EXCEPT ![p] = b]
  /\ goto(p, "acquire")
  /\ UNCHANGED <<disk, blockno, valid, refcnt, data, lru, locked, pins>>

(* bget() under bcache.lock: the block is cached ...                        *)
bget_cached(p, k) ==
  /\ pc[p] = "out" /\ bcache_lock
  /\ \E b \in Bufs :
       /\ blockno[b] = k
       /\ refcnt' = [refcnt EXCEPT ![b] = @ + 1]
       /\ bp' = [bp EXCEPT ![p] = b]
  /\ goto(p, "acquire")
  /\ UNCHANGED <<disk, blockno, valid, data, lru, locked, pins>>

\* Position in the list of the least recently used buffer nobody references.
LastUnused ==
  LET unused == {n \in Bufs : refcnt[lru[n]] = 0}
  IN  CHOOSE n \in unused : \A m \in unused : m <= n

\* Mutant of bget_recycle: valid is not cleared.
bget_recycle_valid(p, k) ==
  /\ pc[p] = "out" /\ bcache_lock
  /\ ~Cached(k)
  /\ \E b \in Bufs : refcnt[b] = 0
  /\ LET b == lru[LastUnused] IN
     /\ blockno' = [blockno EXCEPT ![b] = k]
     /\ refcnt' = [refcnt EXCEPT ![b] = 1]
     /\ bp' = [bp EXCEPT ![p] = b]
  /\ goto(p, "acquire")
  /\ UNCHANGED <<disk, valid, data, lru, locked, pins>>

(* ... or the least recently used unreferenced buffer is recycled ...       *)
bget_recycle(p, k) ==
  /\ pc[p] = "out" /\ bcache_lock
  /\ ~Cached(k)
  /\ \E b \in Bufs : refcnt[b] = 0
  /\ LET b == lru[LastUnused] IN
     /\ blockno' = [blockno EXCEPT ![b] = k]
     /\ valid' = [valid EXCEPT ![b] = FALSE]
     /\ refcnt' = [refcnt EXCEPT ![b] = 1]
     /\ bp' = [bp EXCEPT ![p] = b]
  /\ goto(p, "acquire")
  /\ UNCHANGED <<disk, data, lru, locked, pins>>

(* ... or there is none, and panic() loops for ever.                        *)
bget_panic(p, k) ==
  /\ pc[p] = "out" /\ bcache_lock
  /\ ~Cached(k)
  /\ \A b \in Bufs : refcnt[b] # 0
  /\ goto(p, "panic")
  /\ UNCHANGED <<disk, blockno, valid, refcnt, data, lru, locked, bp, pins>>
panic(p) == pc[p] = "panic" /\ UNCHANGED vars

\* Mutant of acquiresleep: a woken process does not test lk->locked again.
acquiresleep_no_test(p) ==
  /\ pc[p] = "acquire"
  /\ locked' = [locked EXCEPT ![bp[p]] = p]
  /\ goto(p, IF valid[bp[p]] THEN "have" ELSE "read")
  /\ UNCHANGED <<disk, blockno, valid, refcnt, data, lru, bp, pins>>

(* acquiresleep(&b->lock)                                                   *)
acquiresleep(p) ==
  /\ pc[p] = "acquire"
  /\ locked[bp[p]] = NoProc
  /\ locked' = [locked EXCEPT ![bp[p]] = p]
  /\ goto(p, IF valid[bp[p]] THEN "have" ELSE "read")
  /\ UNCHANGED <<disk, blockno, valid, refcnt, data, lru, bp, pins>>

acquiresleep_sleep(p) ==
  /\ pc[p] = "acquire"
  /\ locked[bp[p]] # NoProc
  /\ goto(p, "asleep")
  /\ UNCHANGED <<disk, blockno, valid, refcnt, data, lru, locked, bp, pins>>

(* kill() makes a sleeper runnable; acquiresleep() tests lk->locked again.  *)
kill(p) ==
  /\ pc[p] = "asleep"
  /\ goto(p, "acquire")
  /\ UNCHANGED <<disk, blockno, valid, refcnt, data, lru, locked, bp, pins>>

(* bread(): the block is fetched when the buffer was not valid.             *)
bread_disk(p) ==
  LET b == bp[p] IN
  /\ pc[p] = "read"
  /\ data' = [data EXCEPT ![b] = disk[blockno[b]]]
  /\ valid' = [valid EXCEPT ![b] = TRUE]
  /\ goto(p, "have")
  /\ UNCHANGED <<disk, blockno, refcnt, lru, locked, bp, pins>>

-----------------------------------------------------------------------------
(* What a client does with a buffer it has.                                 *)
modify(p, v) ==
  /\ pc[p] = "have"
  /\ data' = [data EXCEPT ![bp[p]] = v]
  /\ UNCHANGED <<disk, blockno, valid, refcnt, lru, locked, pc, bp, pins>>

Clean(b) == data[b] = disk[blockno[b]]

\* bwrite()'s and brelse()'s panics.
holdingsleep(p) == locked[bp[p]] = p

bwrite(p) ==
  LET b == bp[p] IN
  /\ pc[p] = "have"
  /\ holdingsleep(p)
  /\ disk' = [disk EXCEPT ![blockno[b]] = data[b]]
  /\ UNCHANGED <<blockno, valid, refcnt, data, lru, locked, pc, bp, pins>>

bpin(p) ==
  LET b == bp[p] IN
  /\ pc[p] = "have" /\ bcache_lock
  /\ pins[b] = 0 /\ Cardinality({c \in Bufs : pins[c] > 0}) < MAXPIN
  /\ refcnt' = [refcnt EXCEPT ![b] = @ + 1]
  /\ pins' = [pins EXCEPT ![b] = @ + 1]
  /\ UNCHANGED <<disk, blockno, valid, data, lru, locked, pc, bp>>

\* Mutant of bunpin: the reference is kept.
bunpin_kept(p) ==
  LET b == bp[p] IN
  /\ pc[p] = "have" /\ bcache_lock
  /\ pins[b] > 0 /\ Clean(b)
  /\ pins' = [pins EXCEPT ![b] = @ - 1]
  /\ UNCHANGED <<disk, blockno, valid, refcnt, data, lru, locked, pc, bp>>

bunpin(p) ==
  LET b == bp[p] IN
  /\ pc[p] = "have" /\ bcache_lock
  /\ pins[b] > 0 /\ Clean(b)
  /\ refcnt' = [refcnt EXCEPT ![b] = @ - 1]
  /\ pins' = [pins EXCEPT ![b] = @ - 1]
  /\ UNCHANGED <<disk, blockno, valid, data, lru, locked, pc, bp>>

-----------------------------------------------------------------------------
(* brelse(): releasesleep() ...                                             *)
releasesleep(p) ==
  LET b == bp[p] IN
  /\ pc[p] = "have"
  /\ holdingsleep(p)
  /\ Clean(b) \/ pins[b] > 0
  /\ locked' = [locked EXCEPT ![b] = NoProc]
  /\ pc' = [q \in Users |->
              CASE q = p -> "brelse"
                [] pc[q] = "asleep" /\ bp[q] = b -> "acquire"
                [] OTHER -> pc[q]]
  /\ UNCHANGED <<disk, blockno, valid, refcnt, data, lru, bp, pins>>

\* Buffer b unlinked from the list and linked in again at its head.
MoveToFront(b) ==
  LET m == CHOOSE n \in Bufs : lru[n] = b
  IN  [n \in Bufs |-> IF n = 1 THEN b ELSE IF n <= m THEN lru[n - 1] ELSE lru[n]]

(* ... and, under bcache.lock, the reference; the last one out moves the    *)
(* buffer to the front of the list.                                         *)
brelse(p) ==
  LET b == bp[p] IN
  /\ pc[p] = "brelse" /\ bcache_lock
  /\ refcnt' = [refcnt EXCEPT ![b] = @ - 1]
  /\ lru' = IF refcnt[b] = 1 THEN MoveToFront(b) ELSE lru
  /\ bp' = [bp EXCEPT ![p] = NoBuf]
  /\ goto(p, "out")
  /\ UNCHANGED <<disk, blockno, valid, data, locked, pins>>

Next ==
  \E p \in Users :
    \/ \E k \in Blocks : bget_cached(p, k) \/ bget_recycle(p, k) \/ bget_panic(p, k)
    \/ acquiresleep(p) \/ acquiresleep_sleep(p) \/ kill(p) \/ bread_disk(p)
    \/ \E v \in Values : modify(p, v)
    \/ bwrite(p) \/ bpin(p) \/ bunpin(p)
    \/ releasesleep(p) \/ brelse(p) \/ panic(p)

Spec == Init /\ [][Next]_vars

-----------------------------------------------------------------------------
TypeOK ==
  /\ disk \in [Blocks -> Values]
  /\ blockno \in [Bufs -> Blocks \union {NoBlock}]
  /\ valid \in [Bufs -> BOOLEAN]
  /\ refcnt \in [Bufs -> Nat]
  /\ data \in [Bufs -> Values \union {NoValue}]
  /\ lru \in [Bufs -> Bufs] /\ {lru[n] : n \in Bufs} = Bufs
  /\ locked \in [Bufs -> Users \union {NoProc}]
  /\ pc \in [Users -> {"out", "acquire", "asleep", "read", "have", "brelse", "panic"}]
  /\ bp \in [Users -> Bufs \union {NoBuf}]
  /\ pins \in [Bufs -> Nat]

\* The content of block k: the valid buffer's, or else the disk's.
Content(k) ==
  IF \E b \in Bufs : blockno[b] = k /\ valid[b]
  THEN data[CHOOSE b \in Bufs : blockno[b] = k /\ valid[b]]
  ELSE disk[k]

\* bio.c:3-6, the cache "provides a synchronization point for disk blocks used
\* by multiple processes": bread() returns what the last holder left, across
\* recycling, pins and races of bget() with brelse(), to one process at a time.
Store == INSTANCE BlockStore WITH
  Procs <- Users,
  mem <- [k \in Blocks |-> Content(k)],
  holds <- [p \in Users |-> IF pc[p] = "have" THEN blockno[bp[p]] ELSE NoBlock],
  sees <- [p \in Users |-> IF pc[p] = "have" THEN data[bp[p]] ELSE NoValue]
CacheIsBlockStore == Store!Spec

\* bget(), brelse(), bpin() and bunpin(): refcnt counts exactly the users
\* between bget() and the end of brelse(), and the pins.  Too low a count
\* recycles a buffer in use, too high a one loses the buffer.  bget() looks a
\* block up and recycles in one critical section: no block is ever cached twice.
\* The list of buffers loses none of them.
RefcntExact ==
  /\ TypeOK
  /\ \A b \in Bufs : refcnt[b] = Cardinality({p \in Users : bp[p] = b}) + pins[b]
  /\ \A b, c \in Bufs : blockno[b] = blockno[c] /\ blockno[b] # NoBlock => b = c

\* bio.c:83, bget() panics only when the uses under way and the pins really take
\* all NBUF buffers: none is ever lost to a reference that nobody gives back.
\* (With NPROC = 64, LOGSIZE = 30 and NBUF = 30 of param.h they can.)  bio.c:100
\* and :107, whoever writes or releases a buffer holds its sleep-lock.
\* sleeplock.c:19-35, nobody sleeps on a sleep-lock that is free.
PanicsOnlyWhenFull ==
  \A p \in Users :
    /\ pc[p] = "panic" =>
         Cardinality({q \in Users : bp[q] # NoBuf}) + Cardinality({b \in Bufs : pins[b] > 0}) >= NBUF
    /\ pc[p] = "have" => holdingsleep(p)
    /\ pc[p] = "asleep" => locked[bp[p]] # NoProc
=============================================================================
