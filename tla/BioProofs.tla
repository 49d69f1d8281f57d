------------------------------ MODULE BioProofs ------------------------------
(***************************************************************************)
(* The buffer cache counts its references exactly, finds a buffer to       *)
(* recycle unless all are in use, and behaves as one current content per   *)
(* block with one holder at a time: for any number of buffers, users and   *)
(* blocks.                                                                 *)
(***************************************************************************)
EXTENDS Bio, TLAPS, FiniteSetTheorems, WellFoundedInduction

Busy == {p \in Users : bp[p] # NoBuf}
Holders(b) == {p \in Users : bp[p] = b}
Pinned == {b \in Bufs : pins[b] > 0}

\* refcnt counts the holders and the pins.
Counted == \A b \in Bufs : refcnt[b] = Cardinality(Holders(b)) + pins[b]
\* From a panic of bget() on no reference is dropped: nobody gets bcache.lock.
Full == \A p \in Users : pc[p] = "panic" => \A b \in Bufs : refcnt[b] # 0
\* No block is in two buffers.
CachedOnce == \A b, c \in Bufs : blockno[b] = blockno[c] /\ blockno[b] # NoBlock => b = c
\* A user works with a buffer from bget() to brelse(), on a block.
Working ==
  /\ \A p \in Users : pc[p] \in {"out", "panic"} <=> bp[p] = NoBuf
  /\ \A b \in Bufs : refcnt[b] > 0 \/ valid[b] => blockno[b] \in Blocks
\* A sleep-lock is held by the user between acquiresleep() and
\* releasesleep(), and slept on only when it is held.
Locking ==
  \A p \in Users :
    /\ pc[p] \in {"read", "have"} => locked[bp[p]] = p
    /\ pc[p] = "asleep" => locked[bp[p]] # NoProc
Held == \A b \in Bufs :
  locked[b] # NoProc => bp[locked[b]] = b /\ pc[locked[b]] \in {"read", "have"}
\* What valid says of the data; a valid buffer that is neither locked nor
\* pinned has what the disk has.
Data ==
  /\ \A b \in Bufs : valid[b] => data[b] \in Values
  /\ \A p \in Users : (pc[p] = "have" => valid[bp[p]]) /\ (pc[p] = "read" => ~valid[bp[p]])
  /\ \A b \in Bufs : valid[b] /\ pins[b] = 0 /\ locked[b] = NoProc => Clean(b)

BioInv == TypeOK /\ Counted /\ Full /\ CachedOnce /\ Working /\ Locking /\ Held /\ Data

-----------------------------------------------------------------------------
(* A non-empty set of list positions has a last one.                       *)
LEMMA LastPosition ==
  ASSUME NEW S \in SUBSET Bufs, S # {}
  PROVE \E n \in S : \A m \in S : m <= n
  <1> DEFINE R == OpToRel(<, Nat)
             T == {NBUF - n : n \in S}
  <1>0. NBUF \in Nat
    BY BioConstants
  <1>1. T \in SUBSET Nat /\ T # {}
    <2>1. \A n \in S : NBUF - n \in Nat
      BY <1>0 DEF Bufs
    <2>2. PICK n \in S : TRUE
      OBVIOUS
    <2>3. NBUF - n \in T
      OBVIOUS
    <2> QED BY <2>1, <2>3
  <1>2. IsWellFoundedOn(R, Nat)
    BY NatLessThanWellFounded, Zenon
  <1>3. \A x, y \in Nat : y < x => <<y, x>> \in R
    BY DEF OpToRel
  <1>4. PICK x \in T : \A y \in T : ~(<<y, x>> \in R)
    <2> HIDE DEF R, T
    <2> QED BY ZenonT(30), <1>1, <1>2, WFMin
  <1>5. \A y \in T : ~(y < x)
    <2> HIDE DEF R, T
    <2> QED BY ZenonT(30), <1>1, <1>3, <1>4
  <1>6. PICK n \in S : x = NBUF - n
    OBVIOUS
  <1>7. \A m \in S : m <= n
    BY <1>0, <1>5, <1>6 DEF Bufs
  <1> QED BY <1>7

(* The buffer that bget() recycles is one of the list, and unreferenced.   *)
LEMMA RecycledIsUnused ==
  ASSUME TypeOK, \E b \in Bufs : refcnt[b] = 0
  PROVE LastUnused \in Bufs /\ lru[LastUnused] \in Bufs /\ refcnt[lru[LastUnused]] = 0
  <1> DEFINE unused == {n \in Bufs : refcnt[lru[n]] = 0}
  <1>1. unused # {}
    <2>1. PICK b \in Bufs : refcnt[b] = 0
      OBVIOUS
    <2>2. PICK n \in Bufs : lru[n] = b
      BY DEF TypeOK
    <2> QED BY <2>1, <2>2
  <1>2. \E n \in unused : \A m \in unused : m <= n
    <2>1. unused \in SUBSET Bufs
      OBVIOUS
    <2> HIDE DEF unused
    <2> QED BY <1>1, <2>1, LastPosition
  <1>3. LastUnused \in unused
    <2>1. LastUnused = CHOOSE n \in unused : \A m \in unused : m <= n
      BY DEF LastUnused
    <2> HIDE DEF unused
    <2> QED BY <1>2, <2>1
  <1> QED BY <1>3 DEF TypeOK

(* brelse() moves a buffer to the head of the list and loses none.         *)
LEMMA MoveToFrontKeepsAll ==
  ASSUME TypeOK, NEW b \in Bufs
  PROVE MoveToFront(b) \in [Bufs -> Bufs] /\ {MoveToFront(b)[n] : n \in Bufs} = Bufs
  <1> DEFINE m == CHOOSE n \in Bufs : lru[n] = b
             f == [n \in Bufs |-> IF n = 1 THEN b ELSE IF n <= m THEN lru[n - 1] ELSE lru[n]]
  <1>0. NBUF \in Nat /\ lru \in [Bufs -> Bufs] /\ {lru[n] : n \in Bufs} = Bufs
    BY BioConstants DEF TypeOK
  <1>1. m \in Bufs /\ lru[m] = b
    <2>1. \E n \in Bufs : lru[n] = b
      BY <1>0
    <2> QED BY <2>1
  <1> HIDE DEF m
  <1>2. f \in [Bufs -> Bufs]
    <2>1. \A n \in Bufs : n # 1 => n - 1 \in Bufs
      BY <1>0 DEF Bufs
    <2> QED BY <1>0, <2>1
  <1>3. ASSUME NEW c \in Bufs PROVE \E n \in Bufs : f[n] = c
    <2>1. PICK n \in Bufs : lru[n] = c
      BY <1>0
    <2>2. CASE n = m
      <3>1. 1 \in Bufs /\ f[1] = b
        BY <1>0, <1>1 DEF Bufs
      <3> QED BY <1>1, <2>1, <2>2, <3>1
    <2>3. CASE n < m
      <3>1. PICK k \in Bufs : k # 1 /\ k <= m /\ k - 1 = n
        <4>1. n + 1 \in Bufs /\ n \in Int /\ m \in Int
          BY <1>0, <1>1, <2>3 DEF Bufs
        <4>2. n > 0
          BY <1>0 DEF Bufs
        <4> QED BY <2>3, <4>1, <4>2
      <3>2. f[k] = lru[n]
        BY <3>1
      <3> QED BY <2>1, <3>2
    <2>4. CASE n > m
      <3>1. n # 1 /\ ~(n <= m)
        BY <1>0, <1>1, <2>4 DEF Bufs
      <3>2. f[n] = lru[n]
        BY <3>1
      <3> QED BY <2>1, <3>2
    <2> QED BY <1>0, <1>1, <2>2, <2>3, <2>4 DEF Bufs
  <1>4. MoveToFront(b) = f
    BY DEF MoveToFront, m
  <1> HIDE DEF f
  <1>5. {f[n] : n \in Bufs} = Bufs
    BY <1>2, <1>3
  <1> QED BY <1>2, <1>4, <1>5

(* A process that enters bget() adds itself to the holders of a buffer ... *)
LEMMA HolderAdded ==
  ASSUME TypeOK, NEW p \in Users, NEW b \in Bufs, bp[p] = NoBuf, bp' = [bp EXCEPT ![p] = b], NEW c \in Bufs
  PROVE Cardinality(Holders(c)') = IF c = b THEN Cardinality(Holders(c)) + 1 ELSE Cardinality(Holders(c))
  <1>0. NoBuf \notin Bufs /\ bp \in [Users -> Bufs \union {NoBuf}]
    BY DEF TypeOK, Bufs, NoBuf
  <1>1. IsFiniteSet(Holders(c))
    BY BioConstants, FS_Subset DEF Holders
  <1>2. CASE c = b
    <2>1. Holders(c)' = Holders(c) \union {p} /\ p \notin Holders(c)
      BY <1>0, <1>2 DEF Holders
    <2> QED BY ZenonT(30), <1>1, <1>2, <2>1, FS_AddElement
  <1>3. CASE c # b
    <2>1. Holders(c)' = Holders(c)
      BY <1>0, <1>3 DEF Holders
    <2> QED BY <1>3, <2>1
  <1> QED BY <1>2, <1>3

(* ... and one that leaves brelse() removes itself.                        *)
LEMMA HolderRemoved ==
  ASSUME TypeOK, NEW p \in Users, NEW b \in Bufs, bp[p] = b, bp' = [bp EXCEPT ![p] = NoBuf], NEW c \in Bufs
  PROVE Cardinality(Holders(c)') = IF c = b THEN Cardinality(Holders(c)) - 1 ELSE Cardinality(Holders(c))
  <1>0. NoBuf \notin Bufs /\ bp \in [Users -> Bufs \union {NoBuf}]
    BY DEF TypeOK, Bufs, NoBuf
  <1>1. IsFiniteSet(Holders(c))
    BY BioConstants, FS_Subset DEF Holders
  <1>2. CASE c = b
    <2>1. Holders(c)' = Holders(c) \ {p} /\ p \in Holders(c)
      BY <1>0, <1>2 DEF Holders
    <2> QED BY ZenonT(30), <1>1, <1>2, <2>1, FS_RemoveElement
  <1>3. CASE c # b
    <2>1. Holders(c)' = Holders(c)
      BY <1>0, <1>3 DEF Holders
    <2> QED BY <1>3, <2>1
  <1> QED BY <1>2, <1>3

(* Whoever works with a buffer is counted in its refcnt.                   *)
LEMMA HolderCounts ==
  ASSUME TypeOK, Counted, NEW b \in Bufs
  PROVE /\ Cardinality(Holders(b)) \in Nat
        /\ refcnt[b] = 0 => pins[b] = 0 /\ \A p \in Users : bp[p] # b
        /\ \A p \in Users : bp[p] = b => Cardinality(Holders(b)) > 0 /\ refcnt[b] > 0
  <1>1. IsFiniteSet(Holders(b))
    BY BioConstants, FS_Subset DEF Holders
  <1>2. Cardinality(Holders(b)) \in Nat
    BY <1>1, FS_CardinalityType
  <1>3. pins[b] \in Nat /\ refcnt[b] = Cardinality(Holders(b)) + pins[b]
    BY DEF TypeOK, Counted
  <1>4. Cardinality(Holders(b)) = 0 => \A p \in Users : bp[p] # b
    <2>1. Cardinality(Holders(b)) = 0 => Holders(b) = {}
      BY <1>1, FS_EmptySet
    <2> QED BY <2>1 DEF Holders
  <1> QED BY <1>2, <1>3, <1>4

-----------------------------------------------------------------------------
(* binit() establishes the invariant.                                      *)
LEMMA BioInitially == Init => BioInv
  <1> SUFFICES ASSUME Init PROVE BioInv
    OBVIOUS
  <1>0. NBUF \in Nat
    BY BioConstants
  <1>1. TypeOK
    <2>1. lru \in [Bufs -> Bufs]
      BY <1>0 DEF Init, Bufs
    <2>2. ASSUME NEW b \in Bufs PROVE \E n \in Bufs : lru[n] = b
      <3>1. NBUF + 1 - b \in Bufs /\ NBUF + 1 - (NBUF + 1 - b) = b
        BY <1>0 DEF Bufs
      <3>2. lru[NBUF + 1 - b] = NBUF + 1 - (NBUF + 1 - b)
        BY <3>1 DEF Init
      <3> QED BY <3>1, <3>2
    <2>3. {lru[n] : n \in Bufs} = Bufs
      BY <2>1, <2>2
    <2> QED BY <2>1, <2>3 DEF Init, TypeOK
  <1>2. \A b \in Bufs : Holders(b) = {}
    BY DEF Init, Holders, Bufs, NoBuf
  <1>3. Counted
    BY SMTT(30), <1>2, FS_EmptySet, BioConstants DEF Init, Counted
  <1>4. Full /\ CachedOnce /\ Working /\ Locking /\ Held /\ Data
    BY DEF Init, Full, CachedOnce, Working, Locking, Held, Data
  <1> QED BY <1>1, <1>3, <1>4 DEF BioInv

(* A step that changes nothing but the lock table, the buffers' data or    *)
(* the disk leaves the counting alone.                                     *)
LEMMA CountingKept ==
  ASSUME BioInv, UNCHANGED <<refcnt, bp, pins, blockno>>
  PROVE Counted' /\ CachedOnce'
  BY DEF BioInv, Counted, CachedOnce, Holders

(* A step that is no panic, and changes refcnt only with bcache.lock held. *)
LEMMA FullKept ==
  ASSUME BioInv, refcnt' = refcnt \/ bcache_lock,
         \A q \in Users : pc'[q] = "panic" => pc[q] = "panic"
  PROVE Full'
  BY DEF BioInv, Full, bcache_lock

(* Who is between bget() and brelse() works with a buffer.                 *)
LEMMA BufferOf ==
  ASSUME BioInv, NEW p \in Users, pc[p] \notin {"out", "panic"}
  PROVE bp[p] \in Bufs /\ refcnt[bp[p]] > 0 /\ blockno[bp[p]] \in Blocks
  <1>1. bp[p] \in Bufs
    BY DEF BioInv, TypeOK, Working
  <1>2. refcnt[bp[p]] > 0
    BY <1>1, HolderCounts DEF BioInv
  <1> QED BY <1>1, <1>2 DEF BioInv, Working

(* bget() of a cached block.                                               *)
LEMMA BgetCached ==
  ASSUME BioInv, NEW p \in Users, NEW k \in Blocks, bget_cached(p, k)
  PROVE BioInv'
  <1>0. TypeOK /\ Counted /\ Full /\ CachedOnce /\ Working /\ Locking /\ Held /\ Data
    BY DEF BioInv
  <1>1. PICK b \in Bufs : blockno[b] = k /\ refcnt' = [refcnt EXCEPT ![b] = @ + 1] /\ bp' = [bp EXCEPT ![p] = b]
    BY ZenonT(30) DEF bget_cached
  <1>2. /\ pc[p] = "out" /\ pc' = [pc EXCEPT ![p] = "acquire"] /\ bp[p] = NoBuf
        /\ UNCHANGED <<disk, blockno, valid, data, lru, locked, pins>>
    BY <1>0 DEF bget_cached, goto, Working
  <1>3. TypeOK'
    BY <1>0, <1>1, <1>2 DEF TypeOK
  <1>4. Counted'
    <2> SUFFICES ASSUME NEW c \in Bufs PROVE refcnt'[c] = Cardinality(Holders(c)') + pins'[c]
      BY DEF Counted
    <2>1. Cardinality(Holders(c)') = IF c = b THEN Cardinality(Holders(c)) + 1 ELSE Cardinality(Holders(c))
      BY ZenonT(30), <1>0, <1>1, <1>2, HolderAdded
    <2>2. Cardinality(Holders(c)) \in Nat
      BY <1>0, HolderCounts
    <2> QED BY <1>0, <1>1, <1>2, <2>1, <2>2 DEF Counted, TypeOK
  <1>5. Full' /\ CachedOnce'
    <2>1. \A q \in Users : pc'[q] = "panic" => pc[q] = "panic"
      BY <1>0, <1>2 DEF TypeOK
    <2>2. Full'
      BY <2>1, FullKept DEF bget_cached
    <2> QED BY <1>0, <1>2, <2>2 DEF CachedOnce
  <1>6. Working'
    BY <1>0, <1>1, <1>2 DEF Working, TypeOK, Bufs, NoBuf
  <1>7. Locking'
    BY <1>0, <1>1, <1>2 DEF Locking, TypeOK
  <1>8. Held'
    BY <1>0, <1>1, <1>2 DEF Held, TypeOK, Bufs, NoBuf
  <1>9. Data'
    BY <1>0, <1>1, <1>2 DEF Data, TypeOK, Clean
  <1> QED BY <1>3, <1>4, <1>5, <1>6, <1>7, <1>8, <1>9 DEF BioInv

(* bget() that finds every buffer referenced.                              *)
LEMMA BgetPanic ==
  ASSUME BioInv, NEW p \in Users, NEW k \in Blocks, bget_panic(p, k)
  PROVE BioInv'
  <1>0. TypeOK /\ Counted /\ Full /\ CachedOnce /\ Working /\ Locking /\ Held /\ Data
    BY DEF BioInv
  <1>1. /\ pc[p] = "out" /\ pc' = [pc EXCEPT ![p] = "panic"] /\ \A b \in Bufs : refcnt[b] # 0
        /\ UNCHANGED <<disk, blockno, valid, refcnt, data, lru, locked, bp, pins>>
    BY DEF bget_panic, goto
  <1>2. Counted' /\ CachedOnce'
    BY <1>1, CountingKept
  <1>3. TypeOK'
    BY <1>0, <1>1 DEF TypeOK
  <1>4. Full' /\ Working' /\ Locking'
    BY <1>0, <1>1 DEF Full, Working, Locking, TypeOK
  <1>5. Held'
    BY <1>0, <1>1 DEF Held, TypeOK
  <1>6. Data'
    BY <1>0, <1>1 DEF Data, Clean, TypeOK
  <1> QED BY <1>2, <1>3, <1>4, <1>5, <1>6 DEF BioInv

(* bget() that recycles a buffer: nobody works with it, it is not pinned,  *)
(* its lock is free.                                                       *)
LEMMA BgetRecycle ==
  ASSUME BioInv, NEW p \in Users, NEW k \in Blocks, bget_recycle(p, k)
  PROVE BioInv'
  <1>0. TypeOK /\ Counted /\ Full /\ CachedOnce /\ Working /\ Locking /\ Held /\ Data
    BY DEF BioInv
  <1>1. PICK b \in Bufs : b = lru[LastUnused] /\ refcnt[b] = 0
    BY <1>0, RecycledIsUnused DEF bget_recycle
  <1>2. /\ blockno' = [blockno EXCEPT ![b] = k] /\ valid' = [valid EXCEPT ![b] = FALSE]
        /\ refcnt' = [refcnt EXCEPT ![b] = 1] /\ bp' = [bp EXCEPT ![p] = b]
        /\ UNCHANGED <<disk, data, lru, locked, pins>>
    BY <1>1 DEF bget_recycle
  <1>3. pc[p] = "out" /\ pc' = [pc EXCEPT ![p] = "acquire"] /\ bp[p] = NoBuf /\ ~Cached(k)
    BY <1>0 DEF bget_recycle, goto, Working
  <1>4. pins[b] = 0 /\ (\A q \in Users : bp[q] # b) /\ Cardinality(Holders(b)) = 0
    BY <1>0, <1>1, HolderCounts DEF Counted
  <1>5. locked[b] = NoProc
    BY <1>0, <1>4 DEF Held, TypeOK
  <1>6. TypeOK'
    BY <1>0, <1>2, <1>3 DEF TypeOK
  <1>7. Counted'
    <2> SUFFICES ASSUME NEW c \in Bufs PROVE refcnt'[c] = Cardinality(Holders(c)') + pins'[c]
      BY DEF Counted
    <2>1. Cardinality(Holders(c)') = IF c = b THEN Cardinality(Holders(c)) + 1 ELSE Cardinality(Holders(c))
      BY ZenonT(30), <1>0, <1>2, <1>3, HolderAdded
    <2> QED BY <1>0, <1>2, <1>4, <2>1 DEF Counted, TypeOK
  <1>8. Full'
    <2>1. \A q \in Users : pc'[q] = "panic" => pc[q] = "panic"
      BY <1>0, <1>3 DEF TypeOK
    <2> QED BY <2>1, FullKept DEF bget_recycle
  <1>9. CachedOnce'
    BY <1>0, <1>2, <1>3 DEF CachedOnce, Cached, TypeOK
  <1>10. Working'
    BY <1>0, <1>2, <1>3 DEF Working, TypeOK, Bufs, NoBuf
  <1>11. Locking'
    BY <1>0, <1>2, <1>3 DEF Locking, TypeOK
  <1>12. Held'
    BY <1>0, <1>2, <1>3, <1>5 DEF Held, TypeOK
  <1>13. Data'
    BY <1>0, <1>2, <1>3, <1>4 DEF Data, TypeOK, Clean
  <1> QED BY SMTT(30), <1>6, <1>7, <1>8, <1>9, <1>10, <1>11, <1>12, <1>13 DEF BioInv

(* acquiresleep() of a free lock, of a held one, and a spurious wakeup.    *)
LEMMA Acquiresleep ==
  ASSUME BioInv, NEW p \in Users, acquiresleep(p) \/ acquiresleep_sleep(p) \/ kill(p)
  PROVE BioInv'
  <1>0. TypeOK /\ Counted /\ Full /\ CachedOnce /\ Working /\ Locking /\ Held /\ Data
    BY SMTT(30) DEF BioInv
  <1>1. PICK b \in Bufs : b = bp[p]
    BY BufferOf DEF acquiresleep, acquiresleep_sleep, kill
  <1>2. Counted' /\ CachedOnce'
    BY CountingKept DEF acquiresleep, acquiresleep_sleep, kill
  <1>3. CASE acquiresleep(p)
    <2>1. PICK a \in {"have", "read"} : /\ pc' = [pc EXCEPT ![p] = a] /\ a = IF valid[b] THEN "have" ELSE "read"
      BY ZenonT(30), <1>1, <1>3 DEF acquiresleep, goto
    <2>2. /\ pc[p] = "acquire" /\ locked[b] = NoProc /\ locked' = [locked EXCEPT ![b] = p]
          /\ UNCHANGED <<disk, blockno, valid, refcnt, data, lru, bp, pins>>
      BY <1>1, <1>3 DEF acquiresleep
    <2>3. TypeOK'
      BY <1>0, <2>1, <2>2 DEF TypeOK
    <2>4. Working' /\ Locking'
      BY SMTT(30), <1>0, <1>1, <2>1, <2>2, BioConstants DEF Working, Locking, TypeOK
    <2>5. Held'
      BY SMTT(30), <1>0, <1>1, <2>1, <2>2, BioConstants DEF Held, TypeOK
    <2>6. Data'
      BY <1>0, <1>1, <2>1, <2>2, BioConstants DEF Data, TypeOK, Clean
    <2>7. \A q \in Users : pc'[q] = "panic" => pc[q] = "panic"
      BY <1>0, <2>1 DEF TypeOK
    <2>8. Full'
      BY <2>2, <2>7, FullKept
    <2> QED BY <1>2, <2>3, <2>4, <2>5, <2>6, <2>8 DEF BioInv
  <1>4. CASE acquiresleep_sleep(p) \/ kill(p)
    <2>1. PICK a \in {"asleep", "acquire"} : /\ pc' = [pc EXCEPT ![p] = a] /\ (a = "asleep" => locked[b] # NoProc)
      BY <1>1, <1>4 DEF acquiresleep_sleep, kill, goto
    <2>2. /\ pc[p] \in {"acquire", "asleep"}
          /\ UNCHANGED <<disk, blockno, valid, refcnt, data, lru, locked, bp, pins>>
      BY <1>4 DEF acquiresleep_sleep, kill
    <2>3. TypeOK'
      BY <1>0, <2>1, <2>2 DEF TypeOK
    <2>4. Working' /\ Locking'
      BY <1>0, <1>1, <2>1, <2>2 DEF Working, Locking, TypeOK
    <2>5. Held'
      BY SMTT(30), <1>0, <1>1, <2>1, <2>2 DEF Held, TypeOK
    <2>6. Data'
      BY <1>0, <1>1, <2>1, <2>2 DEF Data, TypeOK, Clean
    <2>7. \A q \in Users : pc'[q] = "panic" => pc[q] = "panic"
      BY <1>0, <2>1 DEF TypeOK
    <2>8. Full'
      BY <2>2, <2>7, FullKept
    <2> QED BY <1>2, <2>3, <2>4, <2>5, <2>6, <2>8 DEF BioInv
  <1> QED BY <1>3, <1>4

(* bread() fetches the block.                                              *)
LEMMA BreadDisk ==
  ASSUME BioInv, NEW p \in Users, bread_disk(p)
  PROVE BioInv'
  <1>0. TypeOK /\ Counted /\ Full /\ CachedOnce /\ Working /\ Locking /\ Held /\ Data
    BY DEF BioInv
  <1>1. PICK b \in Bufs : b = bp[p] /\ blockno[b] \in Blocks
    BY BufferOf DEF bread_disk
  <1>2. PICK v \in Values : v = disk[blockno[b]]
    BY <1>0, <1>1 DEF TypeOK
  <1>3. /\ pc[p] = "read" /\ pc' = [pc EXCEPT ![p] = "have"]
        /\ data' = [data EXCEPT ![b] = v] /\ valid' = [valid EXCEPT ![b] = TRUE]
        /\ UNCHANGED <<disk, blockno, refcnt, lru, locked, bp, pins>>
    BY <1>1, <1>2 DEF bread_disk, goto
  <1>4. Counted' /\ Full' /\ CachedOnce'
    <2>1. \A q \in Users : pc'[q] = "panic" => pc[q] = "panic"
      BY <1>0, <1>3 DEF TypeOK
    <2> QED BY <1>3, <2>1, CountingKept, FullKept
  <1>5. TypeOK'
    BY <1>0, <1>3 DEF TypeOK
  <1>6. Working' /\ Locking'
    BY <1>0, <1>1, <1>3 DEF Working, Locking, TypeOK
  <1>7. Held'
    BY <1>0, <1>3 DEF Held, TypeOK
  <1>8. \A q \in Users : pc[q] \in {"read", "have"} /\ bp[q] = b => q = p
    BY SMTT(30), <1>0, <1>1, <1>3 DEF Locking
  <1>9. Data'
    BY <1>0, <1>1, <1>2, <1>3, <1>8 DEF Data, TypeOK, Clean
  <1> QED BY <1>4, <1>5, <1>6, <1>7, <1>9 DEF BioInv

(* The holder of a buffer changes its data, or writes it to the disk.      *)
LEMMA ModifyWrite ==
  ASSUME BioInv, NEW p \in Users, bwrite(p) \/ \E v \in Values : modify(p, v)
  PROVE BioInv'
  <1>0. TypeOK /\ Counted /\ Full /\ CachedOnce /\ Working /\ Locking /\ Held /\ Data
    BY DEF BioInv
  <1>1. PICK b \in Bufs : b = bp[p] /\ blockno[b] \in Blocks
    BY BufferOf DEF bwrite, modify
  <1>2. /\ pc[p] = "have" /\ locked[b] = p /\ valid[b]
        /\ UNCHANGED <<blockno, valid, refcnt, lru, locked, pc, bp, pins>>
    BY <1>0, <1>1 DEF bwrite, modify, Locking, Data
  <1>3. Counted' /\ Full' /\ CachedOnce'
    BY <1>2, CountingKept, FullKept
  <1>4. Working' /\ Locking' /\ Held'
    BY <1>0, <1>2 DEF Working, Locking, Held
  <1>5. CASE bwrite(p)
    <2>1. PICK v \in Values : v = data[b]
      BY <1>0, <1>2 DEF Data
    <2>2. disk' = [disk EXCEPT ![blockno[b]] = v] /\ data' = data
      BY <1>1, <1>5, <2>1 DEF bwrite
    <2>3. TypeOK'
      <3>1. disk' \in [Blocks -> Values]
        BY <1>0, <1>1, <2>2 DEF TypeOK
      <3> QED BY <1>0, <1>2, <2>2, <3>1 DEF TypeOK
    <2>4. ASSUME NEW c \in Bufs, valid[c], pins[c] = 0, locked[c] = NoProc PROVE Clean(c)'
      <3>1. c # b /\ blockno[c] \in Blocks /\ Clean(c)
        BY <1>0, <1>2, <2>4, BioConstants DEF Data, Working
      <3>2. blockno[c] # blockno[b]
        BY SMTT(30), <1>0, <3>1, BioConstants DEF CachedOnce
      <3> QED BY SMTT(30), <1>0, <1>2, <2>2, <3>1, <3>2 DEF Clean, TypeOK
    <2>5. Data'
      BY SMTT(30), <1>0, <1>2, <2>2, <2>4 DEF Data
    <2> QED BY SMTT(30), <1>3, <1>4, <2>3, <2>5 DEF BioInv
  <1>6. ASSUME NEW v \in Values, modify(p, v) PROVE BioInv'
    <2>1. data' = [data EXCEPT ![b] = v] /\ disk' = disk
      BY <1>1, <1>6 DEF modify
    <2>2. TypeOK'
      BY SMTT(30), <1>0, <1>2, <2>1 DEF TypeOK
    <2>3. Data'
      BY <1>0, <1>2, <2>1, BioConstants DEF Data, Clean, TypeOK
    <2> QED BY <1>3, <1>4, <2>2, <2>3 DEF BioInv
  <1> QED BY <1>5, <1>6

(* bpin() and bunpin() of the buffer the log holds.                        *)
LEMMA PinUnpin ==
  ASSUME BioInv, NEW p \in Users, bpin(p) \/ bunpin(p)
  PROVE BioInv'
  <1>0. TypeOK /\ Counted /\ Full /\ CachedOnce /\ Working /\ Locking /\ Held /\ Data
    BY SMTT(30) DEF BioInv
  <1>1. PICK b \in Bufs : b = bp[p] /\ blockno[b] \in Blocks
    BY BufferOf DEF bpin, bunpin
  <1>2. /\ pc[p] = "have" /\ locked[b] = p
        /\ UNCHANGED <<disk, blockno, valid, data, lru, locked, pc, bp>>
    BY <1>0, <1>1 DEF bpin, bunpin, Locking
  <1>3. Full'
    BY <1>2, FullKept DEF bpin, bunpin
  <1>4. CachedOnce' /\ Locking' /\ Held'
    BY <1>0, <1>2 DEF CachedOnce, Locking, Held
  <1>5. \A c \in Bufs : Holders(c)' = Holders(c) /\ Cardinality(Holders(c)) \in Nat
    BY <1>0, <1>2, HolderCounts DEF Holders
  <1>6. CASE bpin(p)
    <2>1. /\ refcnt' = [refcnt EXCEPT ![b] = @ + 1] /\ pins' = [pins EXCEPT ![b] = @ + 1]
          /\ pins[b] = 0
      BY <1>1, <1>6 DEF bpin
    <2>2. TypeOK'
      BY <1>0, <1>2, <2>1 DEF TypeOK
    <2>3. Counted' /\ Working'
      BY <1>0, <1>1, <1>2, <1>5, <2>1 DEF Counted, Working, TypeOK
    <2>4. Data'
      BY SMTT(30), <1>0, <1>2, <2>1 DEF Data, Clean, TypeOK
    <2> QED BY SMTT(30), <1>3, <1>4, <2>2, <2>3, <2>4 DEF BioInv
  <1>7. CASE bunpin(p)
    <2>1. /\ refcnt' = [refcnt EXCEPT ![b] = @ - 1] /\ pins' = [pins EXCEPT ![b] = @ - 1]
          /\ pins[b] > 0
      BY <1>1, <1>7 DEF bunpin
    <2>0. refcnt[b] > 0
      BY <1>0, <1>1, HolderCounts
    <2>2. TypeOK'
      BY SMTT(30), <1>0, <1>2, <2>0, <2>1 DEF TypeOK
    <2>3. Counted' /\ Working'
      BY <1>0, <1>1, <1>2, <1>5, <2>1 DEF Counted, Working, TypeOK
    <2>4. Data'
      BY <1>0, <1>2, <2>1, BioConstants DEF Data, Clean, TypeOK
    <2> QED BY <1>3, <1>4, <2>2, <2>3, <2>4 DEF BioInv
  <1> QED BY <1>6, <1>7

(* brelse() releases the sleep-lock and wakes who waits for it ...         *)
LEMMA Releasesleep ==
  ASSUME BioInv, NEW p \in Users, releasesleep(p)
  PROVE BioInv'
  <1>0. TypeOK /\ Counted /\ Full /\ CachedOnce /\ Working /\ Locking /\ Held /\ Data
    BY DEF BioInv
  <1>1. PICK b \in Bufs : b = bp[p] /\ blockno[b] \in Blocks
    BY BufferOf DEF releasesleep
  <1>2. /\ pc[p] = "have" /\ locked[b] = p /\ (Clean(b) \/ pins[b] > 0)
        /\ locked' = [locked EXCEPT ![b] = NoProc]
        /\ UNCHANGED <<disk, blockno, valid, refcnt, data, lru, bp, pins>>
    BY <1>1 DEF releasesleep, holdingsleep
  <1>3. /\ pc' \in [Users -> {"out", "acquire", "asleep", "read", "have", "brelse", "panic"}]
        /\ pc'[p] = "brelse"
        /\ \A q \in Users \ {p} :
             pc'[q] = IF pc[q] = "asleep" /\ bp[q] = b THEN "acquire" ELSE pc[q]
    BY <1>0, <1>1 DEF releasesleep, TypeOK
  <1>4. Counted' /\ Full' /\ CachedOnce'
    BY <1>2, <1>3, CountingKept, FullKept
  <1>5. TypeOK'
    BY SMTT(30), <1>0, <1>2, <1>3 DEF TypeOK
  <1>6. Working'
    BY <1>0, <1>1, <1>2, <1>3 DEF Working
  <1>7. \A q \in Users : pc[q] \in {"read", "have"} /\ bp[q] = b => q = p
    BY <1>0, <1>1, <1>2 DEF Locking
  <1>8. Locking'
    <2> SUFFICES ASSUME NEW q \in Users, q # p
                 PROVE /\ pc'[q] \in {"read", "have"} => locked'[bp[q]] = q
                       /\ pc'[q] = "asleep" => locked'[bp[q]] # NoProc
      BY <1>2, <1>3 DEF Locking
    <2>1. pc'[q] \in {"read", "have", "asleep"} => pc[q] = pc'[q] /\ bp[q] # b
      BY <1>3, <1>7
    <2>2. pc[q] \notin {"out", "panic"} => bp[q] \in Bufs
      BY BufferOf
    <2> QED BY SMTT(30), <1>0, <1>2, <2>1, <2>2 DEF Locking, TypeOK
  <1>9. Held'
    BY SMTT(30), <1>0, <1>1, <1>2, <1>3 DEF Held, TypeOK
  <1>10. Data'
    BY <1>0, <1>1, <1>2, <1>3 DEF Data, Clean, TypeOK
  <1> QED BY <1>4, <1>5, <1>6, <1>8, <1>9, <1>10 DEF BioInv

(* ... and drops the reference.                                            *)
LEMMA Brelse ==
  ASSUME BioInv, NEW p \in Users, brelse(p)
  PROVE BioInv'
  <1>0. TypeOK /\ Counted /\ Full /\ CachedOnce /\ Working /\ Locking /\ Held /\ Data
    BY DEF BioInv
  <1>1. PICK b \in Bufs : b = bp[p] /\ blockno[b] \in Blocks /\ refcnt[b] > 0
    BY BufferOf DEF brelse
  <1>2. /\ pc[p] = "brelse" /\ pc' = [pc EXCEPT ![p] = "out"]
        /\ refcnt' = [refcnt EXCEPT ![b] = @ - 1] /\ bp' = [bp EXCEPT ![p] = NoBuf]
        /\ lru' = (IF refcnt[b] = 1 THEN MoveToFront(b) ELSE lru)
        /\ UNCHANGED <<disk, blockno, valid, data, locked, pins>>
    BY <1>1 DEF brelse, goto
  <1>3. TypeOK'
    <2>1. lru' \in [Bufs -> Bufs] /\ {lru'[n] : n \in Bufs} = Bufs
      <3>1. lru \in [Bufs -> Bufs] /\ {lru[n] : n \in Bufs} = Bufs
        BY <1>0 DEF TypeOK
      <3>2. MoveToFront(b) \in [Bufs -> Bufs] /\ {MoveToFront(b)[n] : n \in Bufs} = Bufs
        BY ZenonT(30), <1>0, MoveToFrontKeepsAll
      <3>3. lru' = MoveToFront(b) \/ lru' = lru
        BY <1>2
      <3> QED BY ZenonT(30), <3>1, <3>2, <3>3
    <2>2. refcnt' \in [Bufs -> Nat] /\ bp' \in [Users -> Bufs \union {NoBuf}]
      BY <1>0, <1>1, <1>2 DEF TypeOK
    <2>3. pc' \in [Users -> {"out", "acquire", "asleep", "read", "have", "brelse", "panic"}]
      BY <1>0, <1>2 DEF TypeOK
    <2> QED BY ZenonT(30), <1>0, <1>2, <2>1, <2>2, <2>3 DEF TypeOK
  <1>4. Counted'
    <2> SUFFICES ASSUME NEW c \in Bufs PROVE refcnt'[c] = Cardinality(Holders(c)') + pins'[c]
      BY DEF Counted
    <2>1. Cardinality(Holders(c)') = IF c = b THEN Cardinality(Holders(c)) - 1 ELSE Cardinality(Holders(c))
      BY ZenonT(30), <1>0, <1>1, <1>2, HolderRemoved
    <2>2. Cardinality(Holders(c)) \in Nat
      BY <1>0, HolderCounts
    <2> QED BY <1>0, <1>2, <2>1, <2>2 DEF Counted, TypeOK
  <1>5. Full' /\ CachedOnce'
    <2>1. \A q \in Users : pc'[q] = "panic" => pc[q] = "panic"
      BY <1>0, <1>2 DEF TypeOK
    <2>2. Full'
      BY <2>1, FullKept DEF brelse
    <2> QED BY <1>0, <1>2, <2>2 DEF CachedOnce
  <1>6. Working'
    BY <1>0, <1>1, <1>2 DEF Working, TypeOK
  <1>7. Locking'
    BY <1>0, <1>2 DEF Locking, TypeOK
  <1>8. Held'
    BY <1>0, <1>2 DEF Held, TypeOK
  <1>9. Data'
    BY <1>0, <1>2 DEF Data, Clean, TypeOK
  <1> QED BY <1>3, <1>4, <1>5, <1>6, <1>7, <1>8, <1>9 DEF BioInv

(* Every step keeps the invariant.                                         *)
LEMMA BioStep == BioInv /\ [Next]_vars => BioInv'
  <1> SUFFICES ASSUME BioInv, [Next]_vars PROVE BioInv'
    BY SMTT(30)
  <1>1. CASE UNCHANGED vars
    BY <1>1 DEF vars, BioInv, TypeOK, Counted, Full, CachedOnce, Working, Locking, Held, Data,
                Holders, Clean
  <1>2. CASE Next
    <2>1. ASSUME NEW p \in Users, panic(p) PROVE UNCHANGED vars
      BY <2>1 DEF panic
    <2> QED BY <1>1, <1>2, <2>1, BgetCached, BgetRecycle, BgetPanic, Acquiresleep, BreadDisk, ModifyWrite, PinUnpin, Releasesleep, Brelse
            DEF Next
  <1> QED BY <1>1, <1>2

(* With any number of buffers, users and blocks, refcnt counts exactly     *)
(* the uses under way and pins of a buffer, no block is cached twice and  *)
(* the list loses no buffer.                                               *)
THEOREM RefcntExactCorrect == Spec => []RefcntExact
  <1>1. BioInv => RefcntExact
    BY SMTT(30) DEF BioInv, RefcntExact, Counted, CachedOnce, Holders
  <1> QED BY <1>1, BioInitially, BioStep, PTL DEF Spec

(* When every buffer is referenced, the users at work and the pinned       *)
(* buffers are at least as many as the buffers.                            *)
LEMMA AllReferenced ==
  ASSUME BioInv, \A b \in Bufs : refcnt[b] # 0
  PROVE Cardinality(Busy) + Cardinality(Pinned) >= NBUF
  <1> DEFINE T == {bp[q] : q \in Busy}
  <1>0. TypeOK /\ Counted
    BY DEF BioInv
  <1>1. IsFiniteSet(Busy) /\ Cardinality(Busy) \in Nat
    BY BioConstants, FS_Subset, FS_CardinalityType DEF Busy
  <1>2. IsFiniteSet(T) /\ Cardinality(T) <= Cardinality(Busy)
    <2>1. [q \in Busy |-> bp[q]] \in Surjection(Busy, T)
      BY DEF Surjection
    <2> HIDE DEF T
    <2> QED BY <1>1, <2>1, FS_Surjection
  <1>3. IsFiniteSet(Bufs) /\ Cardinality(Bufs) = NBUF
    BY FS_Interval, BioConstants DEF Bufs
  <1>4. IsFiniteSet(Pinned) /\ Cardinality(Pinned) \in Nat
    BY <1>3, FS_Subset, FS_CardinalityType DEF Pinned
  <1>5. Bufs \in SUBSET (T \union Pinned)
    <2> SUFFICES ASSUME NEW b \in Bufs, b \notin Pinned PROVE b \in T
      OBVIOUS
    <2>1. pins[b] = 0
      BY <1>0 DEF Pinned, TypeOK
    <2>2. Cardinality(Holders(b)) # 0
      BY <1>0, <2>1, HolderCounts DEF Counted
    <2>3. Holders(b) # {}
      BY <2>2, FS_EmptySet
    <2>4. PICK q \in Users : bp[q] = b
      BY <2>3 DEF Holders
    <2>5. q \in Busy
      BY <2>4 DEF Busy, Bufs, NoBuf
    <2> QED BY <2>4, <2>5
  <1> HIDE DEF T
  <1>6. /\ Cardinality(Bufs) <= Cardinality(T \union Pinned)
        /\ Cardinality(T \union Pinned) = Cardinality(T) + Cardinality(Pinned) - Cardinality(T \intersect Pinned)
        /\ Cardinality(T \intersect Pinned) \in Nat /\ Cardinality(T) \in Nat
    <2>1. IsFiniteSet(T \union Pinned)
      BY ZenonT(30), <1>2, <1>4, FS_Union
    <2>2. Cardinality(T \union Pinned) = Cardinality(T) + Cardinality(Pinned) - Cardinality(T \intersect Pinned)
      BY <1>2, <1>4, FS_Union
    <2>3. IsFiniteSet(T \intersect Pinned)
      BY <1>2, FS_Intersection
    <2>4. Cardinality(Bufs) <= Cardinality(T \union Pinned)
      BY <1>5, <2>1, FS_Subset
    <2> QED BY <1>2, <2>2, <2>3, <2>4, FS_CardinalityType
  <1> QED BY <1>1, <1>2, <1>3, <1>4, <1>6, BioConstants

(* With any number of buffers, users and pins, bget() panics only when the *)
(* uses under way and the pins take every buffer; who writes or releases a *)
(* buffer holds its lock; nobody sleeps on a free sleep-lock.              *)
THEOREM PanicsOnlyWhenFullCorrect == Spec => []PanicsOnlyWhenFull
  <1>1. BioInv => PanicsOnlyWhenFull
    <2> SUFFICES ASSUME BioInv, NEW p \in Users
                 PROVE /\ pc[p] = "panic" => Cardinality(Busy) + Cardinality(Pinned) >= NBUF
                       /\ pc[p] = "have" => holdingsleep(p)
                       /\ pc[p] = "asleep" => locked[bp[p]] # NoProc
      BY DEF PanicsOnlyWhenFull, Busy, Pinned
    <2>1. pc[p] = "panic" => Cardinality(Busy) + Cardinality(Pinned) >= NBUF
      BY AllReferenced DEF BioInv, Full
    <2> QED BY <2>1 DEF BioInv, Locking, holdingsleep
  <1> QED BY <1>1, BioInitially, BioStep, PTL DEF Spec

-----------------------------------------------------------------------------
(* What BlockStore sees of the cache.                                      *)
Mem == [k \in Blocks |-> Content(k)]
Holds == [p \in Users |-> IF pc[p] = "have" THEN blockno[bp[p]] ELSE NoBlock]
Sees == [p \in Users |-> IF pc[p] = "have" THEN data[bp[p]] ELSE NoValue]

(* The content of a block in a valid buffer is the buffer's, and that of   *)
(* any other block the disk's.                                             *)
LEMMA ContentCached ==
  ASSUME NEW k \in Blocks
  PROVE /\ CachedOnce => \A b \in Bufs : blockno[b] = k /\ valid[b] => Content(k) = data[b]
        /\ (\A b \in Bufs : ~(blockno[b] = k /\ valid[b])) => Content(k) = disk[k]
        /\ CachedOnce' => \A b \in Bufs : blockno'[b] = k /\ valid'[b] => Content(k)' = data'[b]
        /\ (\A b \in Bufs : ~(blockno'[b] = k /\ valid'[b])) => Content(k)' = disk'[k]
  <1>1. ASSUME CachedOnce, NEW b \in Bufs, blockno[b] = k, valid[b] PROVE Content(k) = data[b]
    <2>1. \A c \in Bufs : blockno[c] = k => c = b
      BY <1>1, BioConstants DEF CachedOnce
    <2> QED BY <1>1, <2>1 DEF Content
  <1>2. ASSUME CachedOnce', NEW b \in Bufs, blockno'[b] = k, valid'[b] PROVE Content(k)' = data'[b]
    <2>1. \A c \in Bufs : blockno'[c] = k => c = b
      BY <1>2, BioConstants DEF CachedOnce
    <2> QED BY <1>2, <2>1 DEF Content
  <1>3. (\A b \in Bufs : ~(blockno[b] = k /\ valid[b])) => Content(k) = disk[k]
    BY DEF Content
  <1>4. (\A b \in Bufs : ~(blockno'[b] = k /\ valid'[b])) => Content(k)' = disk'[k]
    BY SMTT(30) DEF Content
  <1> QED BY <1>1, <1>2, <1>3, <1>4

(* A step of the cache that leaves the blocks' contents and the holders    *)
(* alone is no step of the block store.                                    *)
LEMMA Stutters ==
  ASSUME Mem' = Mem, Holds' = Holds, Sees' = Sees
  PROVE UNCHANGED Store!vars
  BY DEF Store!vars, Mem, Holds, Sees

(* bget(), sleeping and waking up, writing, pinning, unpinning and the     *)
(* last part of brelse() are invisible.                                    *)
LEMMA ContentsKept ==
  ASSUME UNCHANGED <<disk, blockno, valid, data>>
  PROVE Mem' = Mem
  BY DEF Mem, Content

(* Recycling is invisible, because the recycled buffer is clean.           *)
LEMMA RecyclingKeepsContents ==
  ASSUME BioInv, BioInv', NEW p \in Users, NEW k \in Blocks, bget_recycle(p, k)
  PROVE Mem' = Mem
  <1>0. TypeOK /\ Counted /\ CachedOnce /\ CachedOnce' /\ Held /\ Data
    BY DEF BioInv
  <1>1. PICK b \in Bufs : b = lru[LastUnused] /\ refcnt[b] = 0
    BY <1>0, RecycledIsUnused DEF bget_recycle
  <1>2. /\ blockno' = [blockno EXCEPT ![b] = k] /\ valid' = [valid EXCEPT ![b] = FALSE]
        /\ disk' = disk /\ data' = data
    BY SMTT(30), <1>1 DEF bget_recycle
  <1>3. pins[b] = 0 /\ locked[b] = NoProc
    BY SMTT(30), <1>0, <1>1, HolderCounts DEF Held, TypeOK
  <1>4. valid[b] => data[b] = disk[blockno[b]]
    BY <1>0, <1>3 DEF Data, Clean
  <1>5. ASSUME NEW l \in Blocks PROVE Content(l)' = Content(l)
    <2>1. CASE \E c \in Bufs : c # b /\ blockno[c] = l /\ valid[c]
      <3>1. PICK c \in Bufs : c # b /\ blockno[c] = l /\ valid[c]
        BY <2>1
      <3>2. blockno'[c] = l /\ valid'[c] /\ data'[c] = data[c]
        BY <1>0, <1>2, <3>1 DEF TypeOK
      <3> QED BY SMTT(30), <1>0, <3>1, <3>2, ContentCached
    <2>2. CASE \A c \in Bufs : c # b => ~(blockno[c] = l /\ valid[c])
      <3>1. \A c \in Bufs : ~(blockno'[c] = l /\ valid'[c])
        BY SMTT(30), <1>0, <1>2, <2>2 DEF TypeOK
      <3>2. Content(l)' = disk[l]
        BY SMTT(30), <1>2, <3>1, ContentCached
      <3>3. Content(l) = disk[l]
        BY <1>0, <1>4, <2>2, ContentCached
      <3> QED BY <3>2, <3>3
    <2> QED BY SMTT(30), <2>1, <2>2
  <1> QED BY <1>5 DEF Mem

(* Fetching a block into a buffer does not change its content.             *)
LEMMA FetchingKeepsContents ==
  ASSUME BioInv, BioInv', NEW p \in Users, bread_disk(p)
  PROVE Mem' = Mem
  <1>0. TypeOK /\ CachedOnce /\ CachedOnce' /\ Data
    BY SMTT(30) DEF BioInv
  <1>1. PICK b \in Bufs : b = bp[p] /\ blockno[b] \in Blocks
    BY SMTT(30), BufferOf DEF bread_disk
  <1>2. /\ data' = [data EXCEPT ![b] = disk[blockno[b]]] /\ valid' = [valid EXCEPT ![b] = TRUE]
        /\ blockno' = blockno /\ disk' = disk /\ ~valid[b]
    BY <1>0, <1>1 DEF bread_disk, Data
  <1>3. ASSUME NEW l \in Blocks PROVE Content(l)' = Content(l)
    <2>1. CASE l = blockno[b]
      <3>1. Content(l)' = disk[l]
        BY SMTT(30), <1>0, <1>2, <2>1, ContentCached DEF TypeOK
      <3>2. \A c \in Bufs : ~(blockno[c] = l /\ valid[c])
        BY SMTT(30), <1>0, <1>2, <2>1, BioConstants DEF CachedOnce
      <3> QED BY SMTT(30), <3>1, <3>2, ContentCached
    <2>2. CASE l # blockno[b]
      <3>1. \A c \in Bufs : blockno[c] = l => valid'[c] = valid[c] /\ data'[c] = data[c]
        BY ZenonT(30), <1>0, <1>2, <2>2 DEF TypeOK
      <3>2. CASE \E c \in Bufs : blockno[c] = l /\ valid[c]
        BY <1>0, <1>2, <3>1, <3>2, ContentCached
      <3>3. CASE \A c \in Bufs : ~(blockno[c] = l /\ valid[c])
        BY ZenonT(30), <1>2, <3>1, <3>3, ContentCached
      <3> QED BY <3>2, <3>3
    <2> QED BY SMTT(30), <2>1, <2>2
  <1> QED BY <1>3 DEF Mem

(* Writing a buffer does not change what its block contains.               *)
LEMMA WritingKeepsContents ==
  ASSUME BioInv, NEW p \in Users, bwrite(p)
  PROVE Mem' = Mem
  <1>0. TypeOK /\ CachedOnce /\ Data
    BY SMTT(30) DEF BioInv
  <1>1. PICK b \in Bufs : b = bp[p] /\ blockno[b] \in Blocks /\ valid[b]
    BY <1>0, BufferOf DEF bwrite, Data
  <1>2. disk' = [disk EXCEPT ![blockno[b]] = data[b]] /\ UNCHANGED <<blockno, valid, data>>
    BY <1>1 DEF bwrite
  <1>3. CachedOnce'
    BY <1>0, <1>2 DEF CachedOnce
  <1>4. ASSUME NEW l \in Blocks PROVE Content(l)' = Content(l)
    <2>1. CASE \E c \in Bufs : blockno[c] = l /\ valid[c]
      BY SMTT(30), <1>0, <1>2, <1>3, <2>1, ContentCached
    <2>2. CASE \A c \in Bufs : ~(blockno[c] = l /\ valid[c])
      <3>1. disk'[l] = disk[l]
        BY <1>0, <1>1, <1>2, <2>2 DEF TypeOK
      <3> QED BY <1>2, <2>2, <3>1, ContentCached
    <2> QED BY SMTT(30), <2>1, <2>2
  <1> QED BY <1>4 DEF Mem

(* A step in which nobody obtains, changes or gives up a buffer.           *)
LEMMA HoldersKept ==
  ASSUME BioInv, Mem' = Mem,
         \A q \in Users : pc'[q] = "have" <=> pc[q] = "have",
         \A q \in Users : pc[q] = "have" => /\ bp'[q] = bp[q] /\ blockno'[bp[q]] = blockno[bp[q]]
                                            /\ data'[bp[q]] = data[bp[q]]
  PROVE UNCHANGED Store!vars
  <1>1. Holds' = Holds
    BY DEF Holds
  <1>2. Sees' = Sees
    BY DEF Sees
  <1> QED BY <1>1, <1>2, Stutters

(* The step after which bread() returns: the process gets the block's      *)
(* content, and nobody else has the block.                                 *)
LEMMA Obtains ==
  ASSUME BioInv, BioInv', NEW p \in Users, pc[p] \in {"acquire", "read"}, pc' = [pc EXCEPT ![p] = "have"],
         bp' = bp, blockno' = blockno, Mem' = Mem, \A c \in Bufs \ {bp[p]} : data'[c] = data[c]
  PROVE \E k \in Blocks : Store!Get(p, k)
  <1>0. TypeOK /\ CachedOnce /\ Locking /\ TypeOK' /\ CachedOnce' /\ Locking' /\ Data'
    BY DEF BioInv
  <1>1. PICK b \in Bufs : b = bp[p] /\ blockno[b] \in Blocks
    BY BufferOf
  <1>2. PICK k \in Blocks : k = blockno[b]
    BY <1>1
  <1>3. ASSUME NEW q \in Users, pc[q] = "have" PROVE q # p /\ bp[q] \in Bufs /\ bp[q] # b /\ blockno[bp[q]] # k
    <2>1. q # p /\ bp[q] \in Bufs
      BY SMTT(30), <1>3, BufferOf
    <2>2. pc'[q] = "have" /\ pc'[p] = "have"
      BY SMTT(30), <1>0, <1>3, <2>1 DEF TypeOK
    <2>3. locked'[bp[q]] = q /\ locked'[b] = p
      BY SMTT(30), <1>0, <1>1, <2>2 DEF Locking
    <2> QED BY SMTT(30), <1>0, <1>2, <2>1, <2>3, BioConstants DEF CachedOnce
  <1>4. Holds[p] = NoBlock /\ \A q \in Users : Holds[q] # k
    BY SMTT(30), <1>3, BioConstants DEF Holds
  <1>5. Holds' = [Holds EXCEPT ![p] = k]
    BY ZenonT(30), <1>0, <1>1, <1>2 DEF Holds, TypeOK
  <1>6. Mem[k] = data'[b]
    <2>1. valid'[b] /\ blockno'[b] = k
      BY SMTT(30), <1>0, <1>1, <1>2 DEF Data, TypeOK
    <2>2. Content(k)' = data'[b]
      BY <1>0, <2>1, ContentCached
    <2>3. Mem'[k] = Content(k)'
      BY DEF Mem
    <2> QED BY SMTT(30), <2>2, <2>3
  <1>7. Sees' = [Sees EXCEPT ![p] = Mem[k]]
    <2>1. \A q \in Users \ {p} : Sees'[q] = Sees[q]
      BY SMTT(30), <1>0, <1>1, <1>3 DEF Sees, TypeOK
    <2>2. Sees'[p] = Mem[k]
      BY SMTT(30), <1>0, <1>1, <1>6 DEF Sees, TypeOK
    <2>3. Sees = [q \in Users |-> Sees[q]] /\ Sees' = [q \in Users |-> Sees'[q]]
      BY SMTT(30) DEF Sees
    <2> QED BY SMTT(30), <2>1, <2>2, <2>3
  <1>8. Store!Get(p, k)
    BY SMTT(30), <1>4, <1>5, <1>7 DEF Store!Get, Mem, Holds, Sees
  <1> QED BY SMTT(30), <1>8

(* A change of the data is a change of the block's content.                *)
LEMMA Changes ==
  ASSUME BioInv, NEW p \in Users, NEW v \in Values, modify(p, v)
  PROVE Store!Change(p, v)
  <1>0. TypeOK /\ CachedOnce /\ Locking /\ Data
    BY SMTT(30) DEF BioInv
  <1>1. PICK b \in Bufs : b = bp[p] /\ blockno[b] \in Blocks
    BY BufferOf DEF modify
  <1>2. PICK k \in Blocks : k = blockno[b]
    BY <1>1
  <1>3. /\ pc[p] = "have" /\ data' = [data EXCEPT ![b] = v]
        /\ UNCHANGED <<disk, blockno, valid, refcnt, lru, locked, pc, bp, pins>>
    BY <1>1 DEF modify
  <1>4. CachedOnce'
    BY SMTT(30), <1>0, <1>3 DEF CachedOnce
  <1>5. \A q \in Users : pc[q] = "have" /\ q # p => bp[q] \in Bufs /\ bp[q] # b
    BY SMTT(30), <1>0, <1>1, <1>3, BufferOf DEF Locking
  <1>6. Holds[p] = k /\ Holds' = Holds
    BY SMTT(30), <1>1, <1>2, <1>3 DEF Holds
  <1>7. Sees' = [Sees EXCEPT ![p] = v]
    BY ZenonT(30), <1>0, <1>1, <1>3, <1>5 DEF Sees, TypeOK
  <1>8. Mem' = [Mem EXCEPT ![k] = v]
    <2>1. Content(k)' = v
      BY SMTT(30), <1>0, <1>1, <1>2, <1>3, <1>4, ContentCached DEF Data, TypeOK
    <2>2. ASSUME NEW l \in Blocks, l # k PROVE Content(l)' = Content(l)
      <3>1. \A c \in Bufs : blockno[c] = l => data'[c] = data[c]
        BY SMTT(30), <1>0, <1>2, <1>3, <2>2 DEF TypeOK
      <3>2. CASE \E c \in Bufs : blockno[c] = l /\ valid[c]
        BY SMTT(30), <1>0, <1>3, <1>4, <3>1, <3>2, ContentCached
      <3>3. CASE \A c \in Bufs : ~(blockno[c] = l /\ valid[c])
        BY SMTT(30), <1>3, <3>3, ContentCached
      <3> QED BY SMTT(30), <3>2, <3>3
    <2> QED BY ZenonT(30), <2>1, <2>2 DEF Mem
  <1> QED BY ZenonT(30), <1>6, <1>7, <1>8, BioConstants DEF Store!Change, Mem, Holds, Sees

(* releasesleep() gives the block up.                                      *)
LEMMA GivesUp ==
  ASSUME BioInv, NEW p \in Users, releasesleep(p)
  PROVE Store!Put(p)
  <1>0. TypeOK
    BY DEF BioInv
  <1>1. PICK b \in Bufs : b = bp[p] /\ blockno[b] \in Blocks
    BY BufferOf DEF releasesleep
  <1>2. pc[p] = "have" /\ UNCHANGED <<disk, blockno, valid, refcnt, data, lru, bp, pins>>
    BY DEF releasesleep
  <1>3. pc'[p] = "brelse" /\ \A q \in Users \ {p} : pc'[q] = "have" <=> pc[q] = "have"
    BY <1>0, <1>1 DEF releasesleep, TypeOK
  <1>4. Mem' = Mem
    BY SMTT(30), <1>2, ContentsKept
  <1>5. Holds[p] # NoBlock /\ Holds' = [Holds EXCEPT ![p] = NoBlock]
    BY ZenonT(30), <1>1, <1>2, <1>3, BioConstants DEF Holds
  <1>6. Sees' = [Sees EXCEPT ![p] = NoValue]
    BY ZenonT(30), <1>2, <1>3 DEF Sees
  <1> QED BY ZenonT(30), <1>4, <1>5, <1>6 DEF Store!Put, Mem, Holds, Sees

(* Every step of the cache is a step of the block store, or none.          *)
LEMMA StoreStep ==
  ASSUME BioInv, BioInv', [Next]_vars
  PROVE [Store!Next]_(Store!vars)
  <1>0. TypeOK
    BY SMTT(30) DEF BioInv
  <1>1. ASSUME UNCHANGED vars PROVE UNCHANGED Store!vars
    <2>1. Mem' = Mem
      BY SMTT(30), <1>1, ContentsKept DEF vars
    <2> QED BY <1>1, <2>1, HoldersKept DEF vars
  <1>2. ASSUME NEW p \in Users, NEW k \in Blocks, bget_cached(p, k) PROVE UNCHANGED Store!vars
    <2>1. Mem' = Mem
      BY <1>2, ContentsKept DEF bget_cached
    <2>2. PICK b \in Bufs : bp' = [bp EXCEPT ![p] = b]
      BY ZenonT(30), <1>2 DEF bget_cached
    <2>3. pc[p] = "out" /\ pc' = [pc EXCEPT ![p] = "acquire"] /\ UNCHANGED <<blockno, data>>
      BY SMTT(30), <1>2 DEF bget_cached, goto
    <2> QED BY SMTT(30), <1>0, <2>1, <2>2, <2>3, HoldersKept DEF TypeOK
  <1>3. ASSUME NEW p \in Users, NEW k \in Blocks, bget_recycle(p, k) PROVE UNCHANGED Store!vars
    <2>1. Mem' = Mem
      BY SMTT(30), <1>3, RecyclingKeepsContents
    <2>2. PICK b \in Bufs : b = lru[LastUnused] /\ refcnt[b] = 0
      BY SMTT(30), <1>0, <1>3, RecycledIsUnused DEF bget_recycle
    <2>3. /\ pc[p] = "out" /\ pc' = [pc EXCEPT ![p] = "acquire"] /\ bp' = [bp EXCEPT ![p] = b]
          /\ blockno' = [blockno EXCEPT ![b] = k] /\ data' = data
      BY <1>3, <2>2 DEF bget_recycle, goto
    <2>4. \A q \in Users : pc[q] = "have" => bp[q] \in Bufs /\ bp[q] # b
      BY <2>2, BufferOf
    <2> QED BY SMTT(30), <1>0, <2>1, <2>3, <2>4, HoldersKept DEF TypeOK
  <1>4. ASSUME NEW p \in Users, acquiresleep(p) PROVE \E k \in Blocks : Store!Get(p, k) \/ UNCHANGED Store!vars
    <2>1. Mem' = Mem
      BY SMTT(30), <1>4, ContentsKept DEF acquiresleep
    <2>2. /\ pc[p] = "acquire" /\ UNCHANGED <<blockno, data, bp>>
          /\ pc' = [pc EXCEPT ![p] = "have"] \/ pc' = [pc EXCEPT ![p] = "read"]
      BY ZenonT(30), <1>4 DEF acquiresleep, goto
    <2>3. CASE pc' = [pc EXCEPT ![p] = "have"]
      BY ZenonT(30), <2>1, <2>2, <2>3, Obtains
    <2>4. CASE pc' = [pc EXCEPT ![p] = "read"]
      <3>1. UNCHANGED Store!vars
        BY SMTT(30), <1>0, <2>1, <2>2, <2>4, HoldersKept DEF TypeOK
      <3>2. blockno[bp[p]] \in Blocks
        BY <2>2, BufferOf
      <3> QED BY <3>1, <3>2
    <2> QED BY SMTT(30), <2>2, <2>3, <2>4
  <1>5. ASSUME NEW p \in Users, acquiresleep_sleep(p) \/ kill(p) \/ bpin(p) \/ bunpin(p) PROVE UNCHANGED Store!vars
    <2>1. Mem' = Mem
      BY SMTT(30), <1>5, ContentsKept DEF acquiresleep_sleep, kill, bpin, bunpin
    <2>2. UNCHANGED <<blockno, data, bp>>
      BY SMTT(30), <1>5 DEF acquiresleep_sleep, kill, bpin, bunpin
    <2>3. \A q \in Users : pc'[q] = "have" <=> pc[q] = "have"
      BY SMTT(30), <1>0, <1>5 DEF acquiresleep_sleep, kill, bpin, bunpin, goto, TypeOK
    <2> QED BY SMTT(30), <2>1, <2>2, <2>3, HoldersKept
  <1>6. ASSUME NEW p \in Users, bread_disk(p) PROVE \E k \in Blocks : Store!Get(p, k)
    <2>1. Mem' = Mem
      BY <1>6, FetchingKeepsContents
    <2>2. pc[p] = "read" /\ pc' = [pc EXCEPT ![p] = "have"] /\ blockno' = blockno /\ bp' = bp
      BY <1>6 DEF bread_disk, goto
    <2>3. \A c \in Bufs \ {bp[p]} : data'[c] = data[c]
      BY <1>0, <1>6 DEF bread_disk, TypeOK
    <2> QED BY ZenonT(30), <2>1, <2>2, <2>3, Obtains
  <1>7. ASSUME NEW p \in Users, bwrite(p) PROVE UNCHANGED Store!vars
    <2>1. Mem' = Mem
      BY SMTT(30), <1>7, WritingKeepsContents
    <2>2. UNCHANGED <<blockno, data, bp, pc>>
      BY <1>7 DEF bwrite
    <2> QED BY <2>1, <2>2, HoldersKept
  <1>8. ASSUME NEW p \in Users, brelse(p) PROVE UNCHANGED Store!vars
    <2>1. Mem' = Mem
      BY <1>8, ContentsKept DEF brelse
    <2>2. /\ pc[p] = "brelse" /\ pc' = [pc EXCEPT ![p] = "out"] /\ bp' = [bp EXCEPT ![p] = NoBuf]
          /\ UNCHANGED <<blockno, data>>
      BY <1>8 DEF brelse, goto
    <2> QED BY SMTT(30), <1>0, <2>1, <2>2, HoldersKept DEF TypeOK
  <1>9. ASSUME NEW p \in Users, NEW k \in Blocks, bget_panic(p, k) PROVE UNCHANGED Store!vars
    <2>1. Mem' = Mem
      BY SMTT(30), <1>9, ContentsKept DEF bget_panic
    <2>2. UNCHANGED <<blockno, data, bp>>
      BY SMTT(30), <1>9 DEF bget_panic
    <2>3. \A q \in Users : pc'[q] = "have" <=> pc[q] = "have"
      BY SMTT(30), <1>0, <1>9 DEF bget_panic, goto, TypeOK
    <2> QED BY SMTT(30), <2>1, <2>2, <2>3, HoldersKept
  <1>10. ASSUME NEW p \in Users, panic(p) PROVE UNCHANGED Store!vars
    BY <1>1, <1>10 DEF panic
  <1>11. CASE Next
    <2>1. PICK p \in Users :
            \/ \E k \in Blocks : bget_cached(p, k) \/ bget_recycle(p, k) \/ bget_panic(p, k)
            \/ acquiresleep(p) \/ acquiresleep_sleep(p) \/ kill(p) \/ bread_disk(p)
            \/ \E v \in Values : modify(p, v)
            \/ bwrite(p) \/ bpin(p) \/ bunpin(p)
            \/ releasesleep(p) \/ brelse(p) \/ panic(p)
      BY <1>11 DEF Next
    <2>2. \/ UNCHANGED Store!vars
          \/ \E k \in Blocks : Store!Get(p, k)
          \/ \E v \in Values : Store!Change(p, v)
          \/ Store!Put(p)
      BY ONLY SMTT(30), <2>1, <1>2, <1>3, <1>4, <1>5, <1>6, <1>7, <1>8, <1>9, <1>10, Changes, GivesUp, BioInv
    <2> QED BY <2>2 DEF Store!Next
  <1> QED BY <1>1, <1>11

(* With any number of buffers, users and blocks, the buffer cache          *)
(* implements the block store: bread() returns what the last holder of the *)
(* block left, to one user at a time.                                      *)
THEOREM CacheRefinesBlockStore == Spec => CacheIsBlockStore
  <1>1. Init => Store!Init
    <2> SUFFICES ASSUME Init PROVE Store!Init
      OBVIOUS
    <2>1. \A k \in Blocks : Content(k) = disk[k]
      BY DEF Init, Content
    <2> QED BY <2>1 DEF Init, Store!Init
  <1> QED BY <1>1, BioInitially, BioStep, StoreStep, PTL DEF Spec, CacheIsBlockStore, Store!Spec
=============================================================================
