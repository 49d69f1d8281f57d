---------------------------- MODULE VirtioProofs ----------------------------
(***************************************************************************)
(* The disk driver and the device: for any number of processes, of blocks  *)
(* and of descriptors, and wherever the 16-bit indices of the rings wrap,  *)
(* no descriptor is lost or shared, the rings are not overrun, no sleeper  *)
(* is forgotten, and each call moves its own block to or from its own      *)
(* buffer once.                                                            *)
(***************************************************************************)
EXTENDS Virtio, Rings, FiniteSetTheorems, WellFoundedInduction

\* The provers are asked for first-order reasoning unless a step says SMT.
USE Zenon

-----------------------------------------------------------------------------
(* The inductive invariant.                                                *)

\* The chain of a request: the header's, the data's and the status's descriptor.
First(p) == head[p]
Second(p) == desc[First(p)].next
Third(p) == desc[Second(p)].next
Three(p) == {First(p), Second(p), Third(p)}

\* virtio_disk_rw() links three descriptors that are not free ...
Linked ==
  \A p \in Submitted :
    /\ desc[First(p)].more /\ desc[Second(p)].more /\ ~desc[Third(p)].more
    /\ First(p) # Second(p) /\ First(p) # Third(p) /\ Second(p) # Third(p)
    /\ ~free[First(p)] /\ ~free[Second(p)] /\ ~free[Third(p)]
\* ... of no other request, and none is lost.
Apart == \A p, q \in Submitted : p # q => \A d \in Three(p) : d \notin Three(q)
Accounted == \A d \in Descs : free[d] \/ \E p \in Submitted : d \in Three(p)

\* What the descriptors, the header and disk.info say about a request.
Described ==
  \A p \in Submitted :
    /\ desc[Second(p)].buf = p
    /\ op[First(p)] = arg[p]
    /\ info[First(p)].b = p
    /\ busy[p] \/ info[First(p)].status = 0

\* The callers; one that sleeps for its buffer has its request under way.
Callers ==
  \A p \in Procs :
    /\ p \notin Submitted => ~busy[p]
    /\ IF pc[p] = "out" THEN arg[p] = NoReq ELSE arg[p].k \in Blocks
    /\ pc[p] = "sleep_b" => busy[p]

\* The head of a request that the device has not done, or has.
Unfinished(h) == \E p \in Submitted : First(p) = h /\ busy[p] /\ info[h].status = Pending
Finished(h) == \E p \in Submitted : First(p) = h /\ busy[p] /\ info[h].status = 0

\* The entries of the available ring that the device has still to fetch, and
\* those of the used ring that the handler has still to look at.
queued == Ahead(U16, fetched, availIdx)
Queued(n) == avail[Slot(NUM, fetched, n)]
Completed(n) == used[Slot(NUM, used_idx, n)]

AvailRing ==
  /\ queued <= NUM
  /\ \A n \in 0..queued - 1 : Unfinished(Queued(n)) /\ Queued(n) \notin inflight
  /\ \A m, n \in 0..queued - 1 : m # n => Queued(m) # Queued(n)
InDevice == \A h \in inflight : Unfinished(h)
UsedRing ==
  /\ unseen <= NUM
  /\ \A n \in 0..unseen - 1 : Finished(Completed(n))
  /\ \A m, n \in 0..unseen - 1 : m # n => Completed(m) # Completed(n)

\* An entry to look at has an interrupt to come, or the handler is in its loop.
Interrupt == used_idx # usedIdx => irq \/ handler
\* Who sleeps for descriptors found fewer than three.
Starved == \A p \in Procs : pc[p] = "sleep_free" => Cardinality(FreeDescs) < 3

VirtioInv ==
  /\ TypeOK
  /\ Linked /\ Apart /\ Accounted /\ Described /\ Callers
  /\ AvailRing /\ InDevice /\ UsedRing
  /\ Interrupt /\ Starved

-----------------------------------------------------------------------------
(* Facts about numbers and sets.                                           *)

(* The number of descriptors, and where the indices of the rings wrap.     *)
LEMMA Sizes ==
  /\ NUM \in Nat \ {0} /\ NUM >= 3 /\ Descs = 0..NUM - 1 /\ Descs \subseteq Nat
  /\ U16 \in Nat \ {0} /\ U16 >= NUM /\ U16 % NUM = 0
  /\ Pending # 0
  /\ NoBuf \notin Procs /\ NoBlock \notin Blocks
<1>1. ~(U16 < NUM)
  <2> SUFFICES ASSUME U16 < NUM PROVE FALSE
    OBVIOUS
  <2>1. U16 \in 0..NUM - 1 /\ NUM \in Nat \ {0}
    BY SMT, VirtioConstants
  <2>2. U16 % NUM = U16
    BY <2>1, ModSmall
  <2> QED  BY SMT, <2>2, VirtioConstants
<1> QED  BY SMT, <1>1, VirtioConstants DEF Descs, Pending

(* Every non-empty set of naturals has a least element.                    *)
LEMMA LeastNatural ==
  ASSUME NEW T \in SUBSET Nat, T # {}
  PROVE  \E x \in T : \A y \in T : x <= y
<1> DEFINE R == OpToRel(<, Nat)
<1>1. IsWellFoundedOn(R, Nat)
  BY NatLessThanWellFounded
<1>2. \A x, y \in Nat : y < x => <<y, x>> \in R
  BY DEF OpToRel
<1> HIDE DEF R
<1>3. PICK x \in T : \A y \in T : ~(<<y, x>> \in R)
  BY <1>1, WFMin
<1>4. \A y \in T : ~(y < x)
  BY <1>2, <1>3
<1> QED  BY SMT, <1>4

(* alloc_desc(): the descriptor it returns is one of the free ones.        *)
LEMMA LowestFree ==
  ASSUME NEW S \in SUBSET Descs, S # {}
  PROVE  Lowest(S) \in S
<1>1. S \in SUBSET Nat
  BY Sizes
<1>2. \E d \in S : \A e \in S : d <= e
  BY <1>1, LeastNatural
<1> QED  BY <1>2 DEF Lowest

(* The descriptors are finitely many.                                      *)
LEMMA DescCount ==
  ASSUME NEW S \in SUBSET Descs
  PROVE  IsFiniteSet(S) /\ Cardinality(S) \in Nat /\ Cardinality(Descs) = NUM /\ IsFiniteSet(Descs)
<1>1. IsFiniteSet(Descs) /\ Cardinality(Descs) = NUM
  <2>1. IsFiniteSet(0..NUM - 1) /\ Cardinality(0..NUM - 1) = NUM
    BY SMT, Sizes, FS_Interval
  <2> QED  BY <2>1, Sizes
<1> QED  BY <1>1, FS_Subset, FS_CardinalityType

(* alloc3_desc(): with three descriptors free it takes three of them.      *)
LEMMA ThreeLowest ==
  ASSUME NEW S \in SUBSET Descs, Cardinality(S) >= 3
  PROVE  LET a == Lowest(S)
             b == Lowest(S \ {a})
             c == Lowest(S \ {a, b})
         IN  a \in S /\ b \in S \ {a} /\ c \in S \ {a, b}
<1> DEFINE a == Lowest(S)
           b == Lowest(S \ {a})
           c == Lowest(S \ {a, b})
<1>0. IsFiniteSet(S) /\ Cardinality(S) \in Nat
  BY DescCount
<1>1. a \in S
  <2>1. S # {}
    BY SMT, FS_EmptySet
  <2> QED  BY <2>1, LowestFree
<1>2. b \in S \ {a} /\ Cardinality(S \ {a}) >= 2 /\ IsFiniteSet(S \ {a}) /\ Cardinality(S \ {a}) \in Nat
  <2> HIDE DEF a
  <2>1. Cardinality(S \ {a}) = Cardinality(S) - 1 /\ IsFiniteSet(S \ {a})
    BY <1>0, <1>1, FS_RemoveElement
  <2>2. Cardinality(S \ {a}) >= 2
    BY SMT, <1>0, <2>1
  <2>3. S \ {a} # {} /\ S \ {a} \in SUBSET Descs
    BY SMT, <2>2, FS_EmptySet
  <2> QED  BY SMT, <1>0, <2>1, <2>2, <2>3, LowestFree
<1>3. c \in S \ {a, b}
  <2> HIDE DEF a, b
  <2>1. Cardinality((S \ {a}) \ {b}) = Cardinality(S \ {a}) - 1
    BY <1>2, FS_RemoveElement
  <2>2. Cardinality((S \ {a}) \ {b}) >= 1
    BY SMT, <1>2, <2>1
  <2>3. (S \ {a}) \ {b} = S \ {a, b}
    OBVIOUS
  <2>4. S \ {a, b} # {} /\ S \ {a, b} \in SUBSET Descs
    BY SMT, <2>2, <2>3, FS_EmptySet
  <2> QED  BY <2>4, LowestFree
<1> QED  BY <1>1, <1>2, <1>3

(* A ring with different entries in T has no more entries than T.          *)
LEMMA Pigeonhole ==
  ASSUME NEW n \in Nat, NEW T, IsFiniteSet(T), NEW f \in [0..n - 1 -> T],
         \A i, j \in 0..n - 1 : i # j => f[i] # f[j]
  PROVE  n <= Cardinality(T)
<1>1. f \in Injection(0..n - 1, T)
  BY DEF Injection, IsInjective
<1>2. Cardinality(0..n - 1) <= Cardinality(T)
  BY <1>1, FS_Injection
<1>3. Cardinality(0..n - 1) = n
  <2>1. n - 1 \in Int /\ 0 \in Int /\ (IF 0 > n - 1 THEN 0 ELSE n - 1 - 0 + 1) = n
    BY SMT
  <2> QED  BY <2>1, FS_Interval
<1> QED  BY <1>2, <1>3

-----------------------------------------------------------------------------
(* Facts about chains.                                                     *)

(* free_chain() walks over the three descriptors of the request.           *)
LEMMA ChainIsThree ==
  ASSUME TypeOK, Linked, NEW p \in Submitted
  PROVE  /\ First(p) \in Descs /\ Second(p) \in Descs /\ Third(p) \in Descs
         /\ Chain(head[p]) = Three(p)
<1>1. p \in Procs
  BY DEF Submitted
<1>2. First(p) \in Descs
  BY <1>1 DEF First, TypeOK
<1>3. Second(p) \in Descs
  BY <1>2 DEF Second, TypeOK
<1>4. Third(p) \in Descs
  BY <1>3 DEF Third, TypeOK
<1>5. desc[First(p)].more /\ desc[Second(p)].more
  BY DEF Linked
<1>6. Chain(head[p]) = Three(p)
  BY <1>5 DEF Chain, Three, First, Second, Third
<1> QED  BY <1>2, <1>3, <1>4, <1>6

(* ... which really are three.                                             *)
LEMMA ChainCount ==
  ASSUME TypeOK, Linked, NEW p \in Submitted
  PROVE  Cardinality(Three(p)) = 3
<1> DEFINE a == First(p)
           b == Second(p)
           c == Third(p)
<1>1. a # b /\ a # c /\ b # c
  BY DEF Linked
<1> HIDE DEF a, b, c
<1>2. IsFiniteSet({a}) /\ Cardinality({a}) = 1
  BY FS_Singleton
<1>3. IsFiniteSet({a} \cup {b}) /\ Cardinality({a} \cup {b}) = 2
  BY SMT, <1>1, <1>2, FS_AddElement
<1> DEFINE T == {a} \cup {b}
<1>4. c \notin T /\ Three(p) = T \cup {c}
  BY <1>1 DEF Three, a, b, c
<1> HIDE DEF T
<1>5. Cardinality(T \cup {c}) = 3
  BY SMT, <1>3, <1>4, FS_AddElement DEF T
<1> QED  BY <1>4, <1>5

(* A descriptor belongs to one request at most.                            *)
LEMMA OneOwner ==
  ASSUME Apart, NEW p \in Submitted, NEW q \in Submitted, NEW d \in Three(p), d \in Three(q)
  PROVE  p = q
BY DEF Apart

(* So the head of a chain tells the request.                               *)
LEMMA HeadTells ==
  ASSUME Apart, NEW p \in Submitted, NEW q \in Submitted, First(p) = First(q)
  PROVE  p = q
<1>1. First(p) \in Three(p) /\ First(p) \in Three(q)
  BY DEF Three
<1> QED  BY <1>1, OneOwner

(* A request's chain stays while its descriptors do.                       *)
LEMMA SameChain ==
  ASSUME NEW p, head'[p] = head[p], \A d \in Three(p) : desc'[d] = desc[d]
  PROVE  /\ First(p)' = First(p) /\ Second(p)' = Second(p) /\ Third(p)' = Third(p)
         /\ Three(p)' = Three(p)
<1>1. First(p)' = First(p)
  BY DEF First
<1>2. Second(p)' = Second(p)
  BY <1>1 DEF Second, Three
<1>3. Third(p)' = Third(p)
  BY <1>2 DEF Third, Three
<1> QED  BY <1>1, <1>2, <1>3 DEF Three

\* What a step leaves alone that changes no chain, for instance of a process
\* that only goes to sleep or wakes up.
ChainsSame == UNCHANGED <<free, desc, op, head, Submitted>>

(* Such a step keeps the invariants about chains.                          *)
LEMMA ChainsKept ==
  ASSUME Linked, Apart, Accounted, ChainsSame
  PROVE  Linked' /\ Apart' /\ Accounted'
<1>1. \A p \in Submitted : /\ First(p)' = First(p) /\ Second(p)' = Second(p) /\ Third(p)' = Third(p)
                           /\ Three(p)' = Three(p)
  BY DEF ChainsSame, First, Second, Third, Three
<1>2. Linked'
  BY <1>1 DEF ChainsSame, Linked
<1>3. Apart'
  BY SMT, <1>1 DEF ChainsSame, Apart
<1>4. Accounted'
  BY <1>1 DEF ChainsSame, Accounted
<1> QED  BY <1>2, <1>3, <1>4

(* The rings are kept by a step that moves neither their indices nor their *)
(* entries, and finishes no request.                                       *)
LEMMA RingsKept ==
  ASSUME AvailRing, InDevice, UsedRing,
         UNCHANGED <<avail, availIdx, used, usedIdx, used_idx, fetched, inflight>>,
         \A h : Unfinished(h) => Unfinished(h)',
         \A h : Finished(h) => Finished(h)'
  PROVE  AvailRing' /\ InDevice' /\ UsedRing'
<1>1. queued' = queued /\ unseen' = unseen
  BY DEF queued, unseen
<1>2. \A n : Queued(n)' = Queued(n) /\ Completed(n)' = Completed(n)
  BY DEF Queued, Completed
<1> QED  BY <1>1, <1>2 DEF AvailRing, InDevice, UsedRing

(* Requests are kept by a step that changes neither chains nor b->disk nor *)
(* disk.info.                                                              *)
LEMMA RequestsKept ==
  ASSUME ChainsSame, UNCHANGED <<busy, info>>
  PROVE  /\ \A h : Unfinished(h) => Unfinished(h)'
         /\ \A h : Finished(h) => Finished(h)'
BY DEF ChainsSame, Unfinished, Finished, First

(* FreeDescs depends on disk.free alone.                                   *)
LEMMA FreeKept ==
  ASSUME UNCHANGED free
  PROVE  FreeDescs' = FreeDescs
BY DEF FreeDescs

-----------------------------------------------------------------------------
(* virtio_disk_init() establishes the invariant.                           *)
LEMMA InitVirtio == Init => VirtioInv
<1> SUFFICES ASSUME Init PROVE VirtioInv
  OBVIOUS
<1>1. Submitted = {}
  BY DEF Init, Submitted
<1>2. 0 \in Descs /\ 0 \in Indices
  BY SMT, Sizes DEF Indices
<1>3. TypeOK
  BY <1>2 DEF Init, TypeOK, NullDesc, NoReq, Reqs
<1>4. queued = 0 /\ unseen = 0
  <2>1. Ahead(U16, 0, 0) = 0
    BY SMT, Sizes, AheadMoves
  <2> QED  BY <2>1 DEF Init, queued, unseen, Ahead
<1>5. AvailRing /\ InDevice /\ UsedRing
  BY SMT, <1>4, Sizes DEF Init, AvailRing, InDevice, UsedRing
<1>6. Linked /\ Apart /\ Described
  BY <1>1 DEF Linked, Apart, Described
<1>7. Accounted /\ Callers /\ Interrupt /\ Starved
  BY <1>1 DEF Init, Accounted, Callers, Interrupt, Starved
<1> QED  BY <1>3, <1>5, <1>6, <1>7 DEF VirtioInv

(* The call: the caller has no request in the rings yet.                   *)
LEMMA RwKeeps ==
  ASSUME VirtioInv, NEW p \in Procs, NEW w \in BOOLEAN, NEW k \in Blocks, virtio_disk_rw(p, w, k)
  PROVE  VirtioInv'
<1>inv. TypeOK /\ Linked /\ Apart /\ Accounted /\ Described /\ Callers /\ AvailRing
        /\ InDevice /\ UsedRing /\ Interrupt /\ Starved
  BY DEF VirtioInv
<1>1. Submitted' = Submitted /\ p \notin Submitted
  BY <1>inv DEF virtio_disk_rw, goto, TypeOK, Submitted
<1>2. TypeOK'
  BY <1>inv DEF virtio_disk_rw, goto, driver, device, TypeOK, Reqs
<1>3. ChainsSame /\ UNCHANGED <<busy, info>>
  BY <1>1 DEF virtio_disk_rw, driver, device, ChainsSame
<1>4. Linked' /\ Apart' /\ Accounted'
  BY <1>inv, <1>3, ChainsKept
<1>5. Described'
  <2>1. \A q \in Submitted : arg'[q] = arg[q]
    BY <1>inv, <1>1 DEF virtio_disk_rw, TypeOK, Submitted
  <2> QED  BY <1>inv, <1>1, <2>1 DEF virtio_disk_rw, driver, Described, First, Second
<1>6. Callers'
  BY <1>inv, <1>1 DEF virtio_disk_rw, goto, driver, TypeOK, Callers, Reqs
<1>7. AvailRing' /\ InDevice' /\ UsedRing'
  BY <1>inv, <1>3, RequestsKept, RingsKept DEF virtio_disk_rw, driver, device
<1>8. Interrupt' /\ Starved'
  BY <1>inv DEF virtio_disk_rw, goto, driver, device, TypeOK, Interrupt, Starved, FreeDescs
<1> QED  BY <1>2, <1>4, <1>5, <1>6, <1>7, <1>8 DEF VirtioInv

(* A process that only goes to sleep again or wakes up early.              *)
LEMMA StillBusyKeeps ==
  ASSUME VirtioInv, NEW p \in Procs, still_busy(p)
  PROVE  VirtioInv'
<1>inv. TypeOK /\ Linked /\ Apart /\ Accounted /\ Described /\ Callers /\ AvailRing
        /\ InDevice /\ UsedRing /\ Interrupt /\ Starved
  BY DEF VirtioInv
<1>1. Submitted' = Submitted
  BY <1>inv DEF still_busy, goto, TypeOK, Submitted
<1>2. TypeOK'
  BY <1>inv DEF still_busy, goto, driver, device, TypeOK
<1>3. ChainsSame /\ UNCHANGED <<busy, info>>
  BY <1>1 DEF still_busy, driver, device, ChainsSame
<1>4. Linked' /\ Apart' /\ Accounted'
  BY <1>inv, <1>3, ChainsKept
<1>5. Described'
  BY <1>inv, <1>1 DEF still_busy, driver, Described, First, Second
<1>6. Callers'
  BY <1>inv, <1>1 DEF still_busy, goto, driver, TypeOK, Callers
<1>7. AvailRing' /\ InDevice' /\ UsedRing'
  BY <1>inv, <1>3, RequestsKept, RingsKept DEF still_busy, driver, device
<1>8. Interrupt' /\ Starved'
  BY <1>inv DEF still_busy, goto, driver, device, TypeOK, Interrupt, Starved, FreeDescs
<1> QED  BY <1>2, <1>4, <1>5, <1>6, <1>7, <1>8 DEF VirtioInv

(* kill() on a sleeper.                                                    *)
LEMMA KillKeeps ==
  ASSUME VirtioInv, NEW p \in Procs, kill(p)
  PROVE  VirtioInv'
<1>inv. TypeOK /\ Linked /\ Apart /\ Accounted /\ Described /\ Callers /\ AvailRing
        /\ InDevice /\ UsedRing /\ Interrupt /\ Starved
  BY DEF VirtioInv
<1>1. Submitted' = Submitted
  BY <1>inv DEF kill, goto, TypeOK, Submitted
<1>2. TypeOK'
  BY <1>inv DEF kill, goto, driver, device, TypeOK
<1>3. ChainsSame /\ UNCHANGED <<busy, info>>
  BY <1>1 DEF kill, driver, device, ChainsSame
<1>4. Linked' /\ Apart' /\ Accounted'
  BY <1>inv, <1>3, ChainsKept
<1>5. Described'
  BY <1>inv, <1>1 DEF kill, driver, Described, First, Second
<1>6. Callers'
  BY <1>inv, <1>1 DEF kill, goto, driver, TypeOK, Callers
<1>7. AvailRing' /\ InDevice' /\ UsedRing'
  BY <1>inv, <1>3, RequestsKept, RingsKept DEF kill, driver, device
<1>8. Interrupt' /\ Starved'
  BY <1>inv DEF kill, goto, driver, device, TypeOK, Interrupt, Starved, FreeDescs
<1> QED  BY <1>2, <1>4, <1>5, <1>6, <1>7, <1>8 DEF VirtioInv

(* The start and the end of the interrupt handler.                         *)
LEMMA IntrAckKeeps ==
  ASSUME VirtioInv, intr_ack \/ intr_done
  PROVE  VirtioInv'
<1>inv. TypeOK /\ Linked /\ Apart /\ Accounted /\ Described /\ Callers /\ AvailRing
        /\ InDevice /\ UsedRing /\ Interrupt /\ Starved
  BY DEF VirtioInv
<1>1. UNCHANGED <<moved, driver, used, usedIdx, fetched, inflight, pc, arg, head>>
  BY DEF intr_ack, intr_done, device
<1>2. Submitted' = Submitted
  BY <1>1 DEF Submitted
<1>3. TypeOK'
  BY <1>inv, <1>1 DEF intr_ack, intr_done, driver, device, TypeOK
<1>4. ChainsSame /\ UNCHANGED <<busy, info>>
  BY <1>1, <1>2 DEF driver, ChainsSame
<1>5. Linked' /\ Apart' /\ Accounted'
  BY <1>inv, <1>4, ChainsKept
<1>6. Described' /\ Callers'
  BY <1>inv, <1>1, <1>2 DEF driver, Described, First, Second, Callers
<1>7. AvailRing' /\ InDevice' /\ UsedRing'
  BY <1>inv, <1>1, <1>4, RequestsKept, RingsKept DEF driver
<1>8. Interrupt' /\ Starved'
  BY <1>inv, <1>1 DEF intr_ack, intr_done, device, driver, Interrupt, Starved, FreeDescs
<1> QED  BY <1>3, <1>5, <1>6, <1>7, <1>8 DEF VirtioInv

(* alloc3_desc() fails and the caller sleeps; only unused descriptors are  *)
(* written.                                                                *)
LEMMA NoDescKeeps ==
  ASSUME VirtioInv, NEW p \in Procs, no_desc(p)
  PROVE  VirtioInv'
<1>inv. TypeOK /\ Linked /\ Apart /\ Accounted /\ Described /\ Callers /\ AvailRing
        /\ InDevice /\ UsedRing /\ Interrupt /\ Starved
  BY DEF VirtioInv
<1>0. \A q \in Procs : /\ pc'[q] = pc[q] \/ (pc[q] = "sleep_free" /\ pc'[q] = "alloc") \/ q = p
                       /\ pc'[p] = "sleep_free" /\ pc[p] = "alloc"
  BY <1>inv DEF no_desc, wakeup_free, TypeOK
<1>a. pc' \in [Procs -> {"out", "alloc", "sleep_free", "sleep_b", "check"}]
  BY <1>inv DEF no_desc, wakeup_free, TypeOK
<1>1. Submitted' = Submitted
  BY <1>0 DEF Submitted
<1>2. desc' \in [Descs -> [buf : Procs \union {NoBuf}, more : BOOLEAN, next : Descs]]
  BY SMT, <1>inv, Sizes DEF no_desc, TypeOK, NullDesc
<1>3. TypeOK'
  BY <1>inv, <1>a, <1>2 DEF no_desc, device, TypeOK
<1>4. ASSUME NEW q \in Submitted
      PROVE  /\ First(q)' = First(q) /\ Second(q)' = Second(q) /\ Third(q)' = Third(q)
             /\ Three(q)' = Three(q)
             /\ \A d \in Three(q) : desc'[d] = desc[d]
  <2>1. \A d \in Three(q) : d \in Descs /\ ~free[d]
    BY <1>inv, ChainIsThree DEF Linked, Three
  <2>2. \A d \in Three(q) : desc'[d] = desc[d]
    BY <2>1 DEF no_desc
  <2>3. head'[q] = head[q]
    BY DEF no_desc
  <2> QED  BY <2>2, <2>3, SameChain
<1>5. Linked' /\ Apart' /\ Accounted'
  <2>1. Linked'
    BY ZenonT(30), <1>inv, <1>1, <1>4 DEF no_desc, Linked, Three
  <2>2. Apart' /\ Accounted'
    BY SMT, <1>inv, <1>1, <1>4 DEF no_desc, Apart, Accounted
  <2> QED  BY <2>1, <2>2
<1>6. Described'
  BY SMT, <1>inv, <1>1, <1>4 DEF no_desc, Described, Three
<1>7. Callers'
  BY <1>inv, <1>0, <1>1 DEF no_desc, Callers
<1>8. /\ \A h : Unfinished(h) => Unfinished(h)'
      /\ \A h : Finished(h) => Finished(h)'
  BY <1>1 DEF no_desc, Unfinished, Finished, First
<1>9. AvailRing' /\ InDevice' /\ UsedRing'
  BY <1>inv, <1>8, RingsKept DEF no_desc, device
<1>10. Interrupt'
  BY <1>inv DEF no_desc, device, Interrupt
<1>11. Starved'
  BY DEF no_desc, Starved, FreeDescs
<1> QED  BY <1>3, <1>5, <1>6, <1>7, <1>9, <1>10, <1>11 DEF VirtioInv

(* free_chain() and the return: the other requests' descriptors stay, and  *)
(* whoever waits for descriptors wakes up.                                 *)
LEMMA FinishKeeps ==
  ASSUME VirtioInv, NEW p \in Procs, finish(p)
  PROVE  VirtioInv'
<1>inv. TypeOK /\ Linked /\ Apart /\ Accounted /\ Described /\ Callers /\ AvailRing
        /\ InDevice /\ UsedRing /\ Interrupt /\ Starved
  BY DEF VirtioInv
<1>0. \A q \in Procs \ {p} : pc'[q] = IF pc[q] = "sleep_free" THEN "alloc" ELSE pc[q]
  BY <1>inv DEF finish, Returns, wakeup_free, TypeOK
<1>a. pc'[p] = "out" /\ pc[p] = "check"
  BY DEF finish, Returns, wakeup_free
<1>b. pc' \in [Procs -> {"out", "alloc", "sleep_free", "sleep_b", "check"}]
  BY <1>inv DEF finish, Returns, wakeup_free, TypeOK
<1>1. Submitted' = Submitted \ {p} /\ p \in Submitted
  BY <1>0, <1>a DEF Submitted
<1>2. Chain(head[p]) = Three(p) /\ First(p) \in Descs /\ Second(p) \in Descs /\ Third(p) \in Descs
  BY <1>inv, <1>1, ChainIsThree
<1>3. free' = [d \in Descs |-> free[d] \/ d \in Three(p)]
  BY <1>2 DEF finish
<1>4. desc' = [d \in Descs |-> IF d \in Three(p) THEN NullDesc ELSE desc[d]]
  BY <1>2 DEF finish, Returns
<1>5. info' = [info EXCEPT ![First(p)].b = NoBuf]
  BY DEF finish, Returns, First
<1>6. arg' = [arg EXCEPT ![p] = NoReq]
  BY DEF finish, Returns
<1>7. UNCHANGED <<moved, busy, op, avail, availIdx, used_idx, device, handler, head>> /\ ~busy[p]
  BY DEF finish, Returns
<1>8. TypeOK'
  <2>1. desc' \in [Descs -> [buf : Procs \union {NoBuf}, more : BOOLEAN, next : Descs]]
    BY SMTT(30), <1>inv, <1>4, Sizes DEF TypeOK, NullDesc
  <2>2. free' \in [Descs -> BOOLEAN]
    BY <1>3
  <2>3. info' \in [Descs -> [b : Procs \union {NoBuf}, status : {0, Pending}]]
    <3>1. PICK i \in [b : Procs \union {NoBuf}, status : {0, Pending}] : i = info[First(p)]
      BY <1>inv, <1>2 DEF TypeOK
    <3>2. [i EXCEPT !.b = NoBuf] \in [b : Procs \union {NoBuf}, status : {0, Pending}]
      OBVIOUS
    <3> QED  BY <1>inv, <1>2, <1>5, <3>1, <3>2 DEF TypeOK
  <2>4. arg' \in [Procs -> Reqs]
    BY <1>inv, <1>6 DEF TypeOK, Reqs, NoReq
  <2> QED  BY <1>inv, <1>b, <1>7, <2>1, <2>2, <2>3, <2>4 DEF device, TypeOK
<1>9. ASSUME NEW q \in Submitted, q # p
      PROVE  /\ First(q)' = First(q) /\ Second(q)' = Second(q) /\ Third(q)' = Third(q)
             /\ Three(q)' = Three(q)
             /\ \A d \in Three(q) : d \in Descs /\ d \notin Three(p) /\ desc'[d] = desc[d]
             /\ First(q) # First(p) /\ info'[First(q)] = info[First(q)] /\ arg'[q] = arg[q]
  <2>1. \A d \in Three(q) : d \in Descs /\ d \notin Three(p)
    BY <1>inv, <1>1, <1>9, ChainIsThree DEF Apart, Three
  <2>2. \A d \in Three(q) : desc'[d] = desc[d]
    BY <1>4, <2>1
  <2>3. head'[q] = head[q]
    BY <1>7
  <2>4. First(q) # First(p) /\ First(q) \in Descs
    BY <2>1 DEF Three
  <2>5. info'[First(q)] = info[First(q)] /\ arg'[q] = arg[q]
    BY <1>inv, <1>2, <1>5, <1>6, <1>9, <2>4 DEF TypeOK, Submitted
  <2> QED  BY <2>1, <2>2, <2>3, <2>4, <2>5, SameChain
<1>10. Linked'
  <2> SUFFICES ASSUME NEW q \in Submitted, q # p
               PROVE  /\ desc'[First(q)].more /\ desc'[Second(q)].more /\ ~desc'[Third(q)].more
                      /\ First(q) # Second(q) /\ First(q) # Third(q) /\ Second(q) # Third(q)
                      /\ ~free'[First(q)] /\ ~free'[Second(q)] /\ ~free'[Third(q)]
    BY SMT, <1>1, <1>9 DEF Linked
  <2>1. First(q) \in Three(q) /\ Second(q) \in Three(q) /\ Third(q) \in Three(q)
    BY DEF Three
  <2> QED  BY ZenonT(30), <1>inv, <1>3, <1>9, <2>1 DEF Linked
<1>11. Apart'
  BY SMT, <1>inv, <1>1, <1>9 DEF Apart
<1>12. Accounted'
  <2> SUFFICES ASSUME NEW d \in Descs, ~free[d], d \notin Three(p)
               PROVE  \E q \in Submitted' : d \in Three(q)'
    BY <1>3 DEF Accounted
  <2>1. PICK q \in Submitted : d \in Three(q)
    BY <1>inv DEF Accounted
  <2> QED  BY <1>1, <1>9, <2>1
<1>13. Described'
  BY SMTT(30), <1>inv, <1>1, <1>7, <1>9 DEF Described, Three
<1>14. Callers'
  BY <1>inv, <1>0, <1>a, <1>1, <1>6, <1>7 DEF TypeOK, Callers
<1>15. /\ \A h : Unfinished(h) => Unfinished(h)'
       /\ \A h : Finished(h) => Finished(h)'
  BY <1>1, <1>7, <1>9 DEF Unfinished, Finished
<1>16. AvailRing' /\ InDevice' /\ UsedRing'
  BY <1>inv, <1>7, <1>15, RingsKept DEF device
<1>17. Interrupt' /\ Starved'
  BY <1>inv, <1>0, <1>a, <1>7 DEF device, Interrupt, Starved
<1> QED  BY <1>8, <1>10, <1>11, <1>12, <1>13, <1>14, <1>16, <1>17 DEF VirtioInv

-----------------------------------------------------------------------------
(* The rings.                                                              *)

(* The indices of the two rings.                                           *)
LEMMA RingIndices ==
  ASSUME TypeOK
  PROVE  /\ fetched \in 0..U16 - 1 /\ availIdx \in 0..U16 - 1
         /\ used_idx \in 0..U16 - 1 /\ usedIdx \in 0..U16 - 1
         /\ queued \in 0..U16 - 1 /\ unseen \in 0..U16 - 1
         /\ unseen = Ahead(U16, used_idx, usedIdx)
<1>1. /\ fetched \in 0..U16 - 1 /\ availIdx \in 0..U16 - 1
      /\ used_idx \in 0..U16 - 1 /\ usedIdx \in 0..U16 - 1
  BY DEF TypeOK, Indices
<1>2. queued \in 0..U16 - 1
  BY <1>1, Sizes, AheadMoves DEF queued
<1>3. unseen = Ahead(U16, used_idx, usedIdx)
  BY DEF unseen, Ahead
<1>4. unseen \in 0..U16 - 1
  BY <1>1, <1>3, Sizes, AheadMoves
<1> QED  BY <1>1, <1>2, <1>3, <1>4

(* How the indices move ...                                                *)
LEMMA RingMoves ==
  ASSUME TypeOK
  PROVE  /\ queued = 0 <=> fetched = availIdx
         /\ unseen = 0 <=> used_idx = usedIdx
         /\ \A i \in {fetched, availIdx, used_idx, usedIdx} : (i + 1) % U16 \in 0..U16 - 1
         /\ queued > 0 => Ahead(U16, (fetched + 1) % U16, availIdx) = queued - 1
         /\ queued < U16 - 1 => Ahead(U16, fetched, (availIdx + 1) % U16) = queued + 1
         /\ unseen > 0 => Ahead(U16, (used_idx + 1) % U16, usedIdx) = unseen - 1
         /\ unseen < U16 - 1 => Ahead(U16, used_idx, (usedIdx + 1) % U16) = unseen + 1
<1>0. /\ U16 \in Nat \ {0} /\ NUM \in Nat \ {0} /\ U16 % NUM = 0
      /\ fetched \in 0..U16 - 1 /\ availIdx \in 0..U16 - 1
      /\ used_idx \in 0..U16 - 1 /\ usedIdx \in 0..U16 - 1
  BY RingIndices, Sizes
<1>11. Ahead(U16, fetched, availIdx) = 0 <=> fetched = availIdx
  BY ONLY <1>0, AheadMoves
<1>12. ((fetched + 1) % U16) \in 0..U16 - 1 /\ ((availIdx + 1) % U16) \in 0..U16 - 1
  BY ONLY <1>0, AheadMoves
<1>13. Ahead(U16, fetched, availIdx) < U16 - 1 =>
        Ahead(U16, fetched, (availIdx + 1) % U16) = Ahead(U16, fetched, availIdx) + 1
  BY ONLY <1>0, AheadMoves
<1>14. Ahead(U16, fetched, availIdx) > 0 =>
        Ahead(U16, (fetched + 1) % U16, availIdx) = Ahead(U16, fetched, availIdx) - 1
  BY ONLY <1>0, AheadMoves
<1>21. Ahead(U16, used_idx, usedIdx) = 0 <=> used_idx = usedIdx
  BY ONLY <1>0, AheadMoves
<1>22. ((used_idx + 1) % U16) \in 0..U16 - 1 /\ ((usedIdx + 1) % U16) \in 0..U16 - 1
  BY ONLY <1>0, AheadMoves
<1>23. Ahead(U16, used_idx, usedIdx) < U16 - 1 =>
        Ahead(U16, used_idx, (usedIdx + 1) % U16) = Ahead(U16, used_idx, usedIdx) + 1
  BY ONLY <1>0, AheadMoves
<1>24. Ahead(U16, used_idx, usedIdx) > 0 =>
        Ahead(U16, (used_idx + 1) % U16, usedIdx) = Ahead(U16, used_idx, usedIdx) - 1
  BY ONLY <1>0, AheadMoves
<1> QED  BY <1>11, <1>12, <1>13, <1>14, <1>21, <1>22, <1>23, <1>24, RingIndices DEF queued

(* ... and which entries they stand for.                                   *)
LEMMA RingSlots ==
  ASSUME TypeOK
  PROVE  /\ \A n \in Nat : Slot(NUM, fetched, n) \in Descs /\ Slot(NUM, used_idx, n) \in Descs
         /\ fetched % NUM = Slot(NUM, fetched, 0) /\ used_idx % NUM = Slot(NUM, used_idx, 0)
         /\ availIdx % NUM = Slot(NUM, fetched, queued)
         /\ usedIdx % NUM = Slot(NUM, used_idx, unseen)
         /\ \A n \in Nat : /\ Slot(NUM, (fetched + 1) % U16, n) = Slot(NUM, fetched, n + 1)
                           /\ Slot(NUM, (used_idx + 1) % U16, n) = Slot(NUM, used_idx, n + 1)
<1>0. /\ U16 \in Nat \ {0} /\ NUM \in Nat \ {0} /\ U16 % NUM = 0
      /\ fetched \in 0..U16 - 1 /\ availIdx \in 0..U16 - 1
      /\ used_idx \in 0..U16 - 1 /\ usedIdx \in 0..U16 - 1
      /\ fetched \in Nat /\ used_idx \in Nat
  BY SMT, RingIndices, Sizes
<1>1. /\ Counter(U16, NUM, fetched) /\ Counter(U16, NUM, availIdx)
      /\ Counter(U16, NUM, used_idx) /\ Counter(U16, NUM, usedIdx)
  BY <1>0 DEF Counter
<1>11. \A n \in Nat : Slot(NUM, fetched, n) \in 0..NUM - 1
  BY ONLY ZenonT(30), <1>0, SlotIn
<1>12. fetched % NUM = Slot(NUM, fetched, 0)
  BY ONLY ZenonT(30), <1>0, SlotFirst
<1>13. availIdx % NUM = Slot(NUM, fetched, Ahead(U16, fetched, availIdx))
  BY ONLY SMTT(30), <1>1, SlotLast
<1>14. \A n \in Nat : Slot(NUM, (fetched + 1) % U16, n) = Slot(NUM, fetched, n + 1)
  BY ONLY SMTT(30), <1>1, SlotNext
<1>21. \A n \in Nat : Slot(NUM, used_idx, n) \in 0..NUM - 1
  BY ONLY ZenonT(30), <1>0, SlotIn
<1>22. used_idx % NUM = Slot(NUM, used_idx, 0)
  BY ONLY ZenonT(30), <1>0, SlotFirst
<1>23. usedIdx % NUM = Slot(NUM, used_idx, Ahead(U16, used_idx, usedIdx))
  BY ONLY SMTT(30), <1>1, SlotLast
<1>24. \A n \in Nat : Slot(NUM, (used_idx + 1) % U16, n) = Slot(NUM, used_idx, n + 1)
  BY ONLY SMTT(30), <1>1, SlotNext
<1> QED  BY <1>11, <1>12, <1>13, <1>14, <1>21, <1>22, <1>23, <1>24, RingIndices, Sizes DEF queued

(* Different entries.                                                      *)
LEMMA RingSlotsDiffer ==
  ASSUME TypeOK, NEW m \in Nat, NEW n \in Nat, m < n, n < NUM
  PROVE  /\ Slot(NUM, fetched, m) # Slot(NUM, fetched, n)
         /\ Slot(NUM, used_idx, m) # Slot(NUM, used_idx, n)
<1>1. fetched \in Nat /\ used_idx \in Nat /\ NUM \in Nat \ {0} /\ n - m < NUM
  BY SMT, RingIndices, Sizes
<1> QED  BY <1>1, SlotsDiffer

(* fetch: the first entry of the available ring goes to the device.        *)
LEMMA FetchKeeps ==
  ASSUME VirtioInv, fetch
  PROVE  VirtioInv'
<1>inv. TypeOK /\ Linked /\ Apart /\ Accounted /\ Described /\ Callers /\ AvailRing
        /\ InDevice /\ UsedRing /\ Interrupt /\ Starved
  BY DEF VirtioInv
<1>1. UNCHANGED <<moved, driver, used, usedIdx, irq, handler, pc, arg, head>>
  BY DEF fetch
<1>2. Submitted' = Submitted
  BY <1>1 DEF Submitted
<1>3. ChainsSame /\ UNCHANGED <<busy, info>>
  BY <1>1, <1>2 DEF driver, ChainsSame
<1>4. Linked' /\ Apart' /\ Accounted'
  BY <1>inv, <1>3, ChainsKept
<1>5. Described' /\ Callers' /\ Interrupt' /\ Starved'
  BY <1>inv, <1>1, <1>2 DEF driver, Described, First, Second, Callers, Interrupt, Starved, FreeDescs
<1>6. /\ \A h : Unfinished(h) => Unfinished(h)'
      /\ \A h : Finished(h) => Finished(h)'
  BY <1>3, RequestsKept
<1>7. UsedRing'
  <2>1. unseen' = unseen
    BY <1>1 DEF driver, unseen
  <2>2. \A n : Completed(n)' = Completed(n)
    BY <1>1 DEF driver, Completed
  <2> QED  BY <1>inv, <1>6, <2>1, <2>2 DEF UsedRing
<1>8. queued \in 1..NUM /\ fetched' \in 0..U16 - 1 /\ queued' = queued - 1
  <2>1. queued # 0
    BY <1>inv, RingMoves DEF fetch
  <2>2. queued \in 1..NUM
    BY SMTT(30), <1>inv, <2>1, RingIndices, Sizes DEF AvailRing
  <2>3. fetched' \in 0..U16 - 1
    BY <1>inv, RingMoves DEF fetch
  <2>4. queued' = queued - 1
    <3>1. queued > 0
      BY SMT, <2>2, Sizes
    <3>2. Ahead(U16, (fetched + 1) % U16, availIdx) = queued - 1
      BY <1>inv, <3>1, RingMoves
    <3>3. queued' = Ahead(U16, (fetched + 1) % U16, availIdx)
      BY <1>1 DEF fetch, queued, driver
    <3> QED  BY <3>2, <3>3
  <2> QED  BY <2>2, <2>3, <2>4
<1>9. avail[fetched % NUM] = Queued(0)
  BY <1>inv, RingSlots DEF Queued
<1>10. \A n \in Nat : Queued(n)' = Queued(n + 1)
  <2>1. \A n \in Nat : Slot(NUM, (fetched + 1) % U16, n) = Slot(NUM, fetched, n + 1)
    BY <1>inv, RingSlots
  <2> QED  BY <1>1, <2>1 DEF fetch, Queued, driver
<1>11. inflight' = inflight \union {Queued(0)}
  BY <1>9 DEF fetch
<1>12. InDevice'
  <2>1. 0 \in 0..queued - 1
    BY SMT, <1>8, Sizes
  <2> QED  BY <1>inv, <1>6, <1>11, <2>1 DEF InDevice, AvailRing
<1>13. AvailRing'
  <2>0. 0 \in 0..queued - 1 /\ \A n \in 0..queued' - 1 : n \in Nat /\ n + 1 \in 0..queued - 1 /\ n + 1 # 0
    BY SMT, <1>8, Sizes
  <2>1. queued' <= NUM
    BY SMT, <1>8, Sizes
  <2>2. \A n \in 0..queued' - 1 : Unfinished(Queued(n))' /\ Queued(n)' \notin inflight'
    BY <1>inv, <1>6, <1>10, <1>11, <2>0 DEF AvailRing
  <2>3. \A m, n \in 0..queued' - 1 : m # n => Queued(m)' # Queued(n)'
    <3> SUFFICES ASSUME NEW m \in 0..queued' - 1, NEW n \in 0..queued' - 1, m # n
                 PROVE  Queued(m + 1) # Queued(n + 1)
      BY <1>10, <2>0
    <3>1. m + 1 # n + 1
      BY SMT, <2>0
    <3> QED  BY <1>inv, <2>0, <3>1 DEF AvailRing
  <2> QED  BY <2>1, <2>2, <2>3 DEF AvailRing
<1>14. TypeOK'
  <2>1. inflight' \subseteq Descs
    <3>1. fetched % NUM \in Descs
      BY <1>inv, RingSlots
    <3> QED  BY <1>inv, <3>1 DEF fetch, TypeOK
  <2> QED  BY ZenonT(30), <1>inv, <1>1, <1>8, <2>1 DEF driver, TypeOK, Indices
<1> QED  BY <1>4, <1>5, <1>7, <1>12, <1>13, <1>14 DEF VirtioInv

(* A ring of different descriptors among which two are not has room for    *)
(* two more.                                                               *)
LEMMA TwoSpare ==
  ASSUME NEW n \in Nat, NEW x \in Descs, NEW y \in Descs, x # y,
         NEW f \in [0..n - 1 -> Descs \ {x, y}],
         \A i, j \in 0..n - 1 : i # j => f[i] # f[j]
  PROVE  n <= NUM - 2
<1>1. IsFiniteSet(Descs) /\ Cardinality(Descs) = NUM
  BY DescCount
<1>2. IsFiniteSet(Descs \ {x}) /\ Cardinality(Descs \ {x}) = NUM - 1
  BY <1>1, FS_RemoveElement
<1>3. y \in Descs \ {x} /\ (Descs \ {x}) \ {y} = Descs \ {x, y}
  OBVIOUS
<1> DEFINE T == Descs \ {x}
<1>4. IsFiniteSet(T \ {y}) /\ Cardinality(T \ {y}) = NUM - 2
  <2>1. IsFiniteSet(T) /\ Cardinality(T) = NUM - 1 /\ y \in T
    BY <1>2, <1>3
  <2> HIDE DEF T
  <2>2. IsFiniteSet(T \ {y}) /\ Cardinality(T \ {y}) = Cardinality(T) - 1
    BY <2>1, FS_RemoveElement
  <2> QED  BY SMTT(30), <2>1, <2>2, Sizes
<1>5. IsFiniteSet(Descs \ {x, y}) /\ Cardinality(Descs \ {x, y}) = NUM - 2
  BY <1>3, <1>4
<1> QED  BY <1>5, Pigeonhole

(* virtio_disk_intr(), one entry: the caller it belongs to is done with,   *)
(* and it belongs to no other.                                             *)
LEMMA IntrOneKeeps ==
  ASSUME VirtioInv, intr_one
  PROVE  VirtioInv'
<1>inv. TypeOK /\ Linked /\ Apart /\ Accounted /\ Described /\ Callers /\ AvailRing
        /\ InDevice /\ UsedRing /\ Interrupt /\ Starved
  BY DEF VirtioInv
<1>1. UNCHANGED <<moved, free, desc, op, info, avail, availIdx, device, handler, arg, head>>
  BY DEF intr_one
<1>2. unseen \in 1..NUM
  <2>1. unseen # 0
    BY <1>inv, RingMoves DEF intr_one
  <2> QED  BY SMTT(30), <1>inv, <2>1, RingIndices, Sizes DEF UsedRing
<1>3. used[used_idx % NUM] = Completed(0)
  BY <1>inv, RingSlots DEF Completed
<1>4. PICK q \in Submitted : First(q) = Completed(0) /\ busy[q] /\ info[Completed(0)].status = 0
  <2>1. 0 \in 0..unseen - 1
    BY SMT, <1>2, Sizes
  <2> QED  BY <1>inv, <2>1 DEF UsedRing, Finished
<1>5. q \in Procs /\ info[Completed(0)].b = q
  BY <1>inv, <1>4 DEF Described, Submitted
<1>6. /\ busy' = [busy EXCEPT ![q] = FALSE]
      /\ pc' = [pc EXCEPT ![q] = IF @ = "sleep_b" THEN "check" ELSE @]
  BY <1>3, <1>5 DEF intr_one
<1>7. Submitted' = Submitted
  BY <1>inv, <1>4, <1>5, <1>6 DEF TypeOK, Submitted
<1>8. used_idx' = (used_idx + 1) % U16 /\ used_idx' \in 0..U16 - 1 /\ unseen' = unseen - 1
  <2>1. used_idx' = (used_idx + 1) % U16
    BY DEF intr_one
  <2>2. (used_idx + 1) % U16 \in 0..U16 - 1
    BY <1>inv, RingMoves
  <2>3. Ahead(U16, (used_idx + 1) % U16, usedIdx) = unseen - 1
    BY SMTT(30), <1>inv, <1>2, RingMoves, Sizes
  <2>4. unseen' = Ahead(U16, (used_idx + 1) % U16, usedIdx)
    BY <1>1, <2>1 DEF unseen, Ahead, device
  <2> QED  BY <2>1, <2>2, <2>3, <2>4
<1>9. TypeOK'
  <2>1. busy' \in [Procs -> BOOLEAN]
    BY <1>inv, <1>5, <1>6 DEF TypeOK
  <2>2. pc' \in [Procs -> {"out", "alloc", "sleep_free", "sleep_b", "check"}]
    BY <1>inv, <1>5, <1>6 DEF TypeOK
  <2>3. used_idx' \in Indices
    BY <1>8 DEF Indices
  <2> QED  BY SMTT(30), <1>inv, <1>1, <2>1, <2>2, <2>3 DEF device, TypeOK
<1>10. Linked' /\ Apart' /\ Accounted'
  <2>1. ChainsSame
    BY <1>1, <1>7 DEF ChainsSame
  <2> QED  BY <1>inv, <2>1, ChainsKept
<1>11. Described'
  <2>1. \A r \in Submitted : busy'[r] \/ info[First(r)].status = 0
    BY <1>inv, <1>4, <1>6 DEF TypeOK, Described, Submitted
  <2> QED  BY <1>inv, <1>1, <1>7, <2>1 DEF Described, First, Second
<1>12. Callers'
  BY <1>inv, <1>1, <1>4, <1>6, <1>7 DEF TypeOK, Callers, Submitted
<1>13. \A h : Unfinished(h) => Unfinished(h)'
  <2> SUFFICES ASSUME NEW h, NEW r \in Submitted, First(r) = h, busy[r], info[h].status = Pending
               PROVE  First(r)' = h /\ busy'[r] /\ info'[h].status = Pending
    BY <1>7 DEF Unfinished
  <2>1. r # q
    BY <1>4, Sizes
  <2> QED  BY <1>inv, <1>1, <1>6, <2>1 DEF TypeOK, First, Submitted
<1>14. AvailRing' /\ InDevice'
  <2>1. queued' = queued /\ \A n : Queued(n)' = Queued(n)
    BY <1>1 DEF queued, Queued, device
  <2> QED  BY <1>inv, <1>1, <1>13, <2>1 DEF device, AvailRing, InDevice
<1>15. UsedRing'
  <2>0. 0 \in 0..unseen - 1 /\ \A n \in 0..unseen' - 1 : n \in Nat /\ n + 1 \in 0..unseen - 1 /\ n + 1 # 0
    BY SMT, <1>2, <1>8, Sizes
  <2>1. \A n \in Nat : Completed(n)' = Completed(n + 1)
    <3>1. \A n \in Nat : Slot(NUM, (used_idx + 1) % U16, n) = Slot(NUM, used_idx, n + 1)
      BY <1>inv, RingSlots
    <3> QED  BY <1>1, <1>8, <3>1 DEF Completed, device
  <2>2. unseen' <= NUM
    BY SMTT(30), <1>2, <1>8, Sizes
  <2>3. ASSUME NEW n \in 0..unseen' - 1 PROVE Finished(Completed(n))'
    <3>1. PICK r \in Submitted : First(r) = Completed(n + 1) /\ busy[r] /\ info[Completed(n + 1)].status = 0
      BY <1>inv, <2>0 DEF UsedRing, Finished
    <3>2. r # q
      BY <1>inv, <1>4, <2>0, <3>1 DEF UsedRing
    <3>3. Completed(n)' = Completed(n + 1) /\ First(r)' = First(r) /\ info' = info
      BY <1>1, <2>0, <2>1 DEF First
    <3>4. busy'[r]
      BY <1>inv, <1>6, <3>1, <3>2 DEF TypeOK, Submitted
    <3> QED  BY <1>7, <3>1, <3>3, <3>4 DEF Finished
  <2>4. ASSUME NEW m \in 0..unseen' - 1, NEW n \in 0..unseen' - 1, m # n
        PROVE  Completed(m)' # Completed(n)'
    <3>1. m + 1 # n + 1
      BY ZenonT(30), <2>0, <2>4, SuccDiffer
    <3> QED  BY <1>inv, <2>0, <2>1, <3>1 DEF UsedRing
  <2> QED  BY <2>2, <2>3, <2>4 DEF UsedRing
<1>16. Interrupt' /\ Starved'
  <2>1. \A r \in Procs : pc'[r] = "sleep_free" => pc[r] = "sleep_free"
    BY <1>inv, <1>5, <1>6 DEF TypeOK
  <2>2. FreeDescs' = FreeDescs
    BY <1>1, FreeKept
  <2>3. Starved'
    BY <1>inv, <2>1, <2>2 DEF Starved
  <2> QED  BY SMT, <1>1, <2>3 DEF intr_one, Interrupt
<1> QED  BY <1>9, <1>10, <1>11, <1>12, <1>14, <1>15, <1>16 DEF VirtioInv

(* The device completes a request: it was fetched and not completed, so    *)
(* the used ring has room, and its owner still waits.                      *)
LEMMA CompleteKeeps ==
  ASSUME VirtioInv, NEW h \in inflight, complete(h)
  PROVE  VirtioInv'
<1>inv. TypeOK /\ Linked /\ Apart /\ Accounted /\ Described /\ Callers /\ AvailRing
        /\ InDevice /\ UsedRing /\ Interrupt /\ Starved
  BY DEF VirtioInv
<1>1. UNCHANGED <<busy, free, desc, op, avail, availIdx, used_idx, fetched, handler, pc, arg, head>>
  BY DEF complete
<1>2. Submitted' = Submitted
  BY <1>1 DEF Submitted
<1>3. PICK q \in Submitted : First(q) = h /\ busy[q] /\ info[h].status = Pending
  BY <1>inv DEF InDevice, Unfinished
<1>4. q \in Procs /\ h \in Descs /\ Second(q) \in Descs /\ h # Second(q)
  BY <1>inv, <1>3, ChainIsThree DEF Linked, Submitted
<1>5. info' = [info EXCEPT ![h].status = 0]
  BY DEF complete
<1>6. /\ info'[h].status = 0 /\ info'[h].b = info[h].b
      /\ \A d \in Descs : d # h => info'[d] = info[d]
  <2>1. PICK i \in [b : Procs \union {NoBuf}, status : {0, Pending}] : i = info[h]
    BY <1>inv, <1>4 DEF TypeOK
  <2>2. [i EXCEPT !.status = 0].status = 0 /\ [i EXCEPT !.status = 0].b = i.b
    OBVIOUS
  <2>3. info'[h] = [i EXCEPT !.status = 0]
    BY <1>inv, <1>4, <1>5, <2>1 DEF TypeOK
  <2>4. \A d \in Descs : d # h => info'[d] = info[d]
    BY <1>inv, <1>4, <1>5 DEF TypeOK
  <2> QED  BY <2>1, <2>2, <2>3, <2>4
<1>7. \A r \in Submitted : First(r) \in Descs /\ (First(r) = h => r = q)
  BY <1>inv, <1>3, ChainIsThree, HeadTells
<1>8. \A n \in 0..unseen - 1 : Completed(n) # h /\ Completed(n) # Second(q) /\ Completed(n) \in Descs
  <2> SUFFICES ASSUME NEW n \in 0..unseen - 1
               PROVE  Completed(n) # h /\ Completed(n) # Second(q) /\ Completed(n) \in Descs
    OBVIOUS
  <2>1. PICK r \in Submitted : First(r) = Completed(n) /\ info[Completed(n)].status = 0
    BY <1>inv DEF UsedRing, Finished
  <2>2. Completed(n) # h
    BY <1>3, <2>1, Sizes
  <2>3. r # q
    BY <1>3, <2>1, <2>2
  <2>4. Second(q) \in Three(q) /\ First(r) \in Three(r)
    BY DEF Three
  <2>5. Completed(n) # Second(q)
    BY <1>inv, <2>1, <2>3, <2>4, OneOwner
  <2> QED  BY <1>7, <2>1, <2>2, <2>5
<1>9. PICK u \in Nat : u = unseen /\ u <= NUM - 2
  <2> DEFINE f == [n \in 0..unseen - 1 |-> Completed(n)]
  <2>1. unseen \in Nat
    BY SMTT(30), <1>inv, RingIndices, Sizes
  <2>2. f \in [0..unseen - 1 -> Descs \ {h, Second(q)}]
    BY <1>8
  <2>3. \A m, n \in 0..unseen - 1 : m # n => f[m] # f[n]
    BY <1>inv DEF UsedRing
  <2> HIDE DEF f
  <2>4. unseen <= NUM - 2
    BY <1>4, <2>1, <2>2, <2>3, TwoSpare
  <2> QED  BY <2>1, <2>4
<1>10. usedIdx' = (usedIdx + 1) % U16 /\ usedIdx' \in 0..U16 - 1 /\ unseen' = u + 1
  <2>1. usedIdx' = (usedIdx + 1) % U16
    BY DEF complete
  <2>2. (usedIdx + 1) % U16 \in 0..U16 - 1
    BY <1>inv, RingMoves
  <2>3. unseen < U16 - 1
    BY SMT, <1>9, Sizes
  <2>4. Ahead(U16, used_idx, (usedIdx + 1) % U16) = u + 1
    BY <1>inv, <1>9, <2>3, RingMoves
  <2>5. unseen' = Ahead(U16, used_idx, (usedIdx + 1) % U16)
    BY <1>1, <2>1 DEF unseen, Ahead
  <2> QED  BY <2>1, <2>2, <2>4, <2>5
<1>11. used' = [used EXCEPT ![Slot(NUM, used_idx, u)] = h] /\ Slot(NUM, used_idx, u) \in Descs
  BY <1>inv, <1>9, RingSlots DEF complete
<1>12. \A n : Completed(n)' = used'[Slot(NUM, used_idx, n)]
  BY <1>1 DEF Completed
<1>13. Completed(u)' = h
  BY <1>inv, <1>11, <1>12 DEF TypeOK
<1>14. ASSUME NEW n \in 0..u - 1 PROVE Completed(n)' = Completed(n)
  <2>1. n \in Nat /\ n < u /\ u < NUM
    BY SMT, <1>9, Sizes
  <2>2. Slot(NUM, used_idx, n) # Slot(NUM, used_idx, u) /\ Slot(NUM, used_idx, n) \in Descs
    BY <1>inv, <2>1, RingSlotsDiffer, RingSlots
  <2> QED  BY <1>inv, <1>11, <1>12, <2>2 DEF Completed, TypeOK
<1>15. ASSUME NEW d, Finished(d) PROVE Finished(d)'
  <2>1. PICK r \in Submitted : First(r) = d /\ busy[r] /\ info[d].status = 0
    BY <1>15 DEF Finished
  <2>2. d # h /\ d \in Descs
    BY <1>3, <1>7, <2>1, Sizes
  <2> QED  BY <1>1, <1>2, <1>6, <2>1, <2>2 DEF Finished, First
<1>16. ASSUME NEW d, Unfinished(d), d # h PROVE Unfinished(d)'
  <2>1. PICK r \in Submitted : First(r) = d /\ busy[r] /\ info[d].status = Pending
    BY <1>16 DEF Unfinished
  <2>2. d \in Descs
    BY <1>7, <2>1
  <2> QED  BY <1>1, <1>2, <1>6, <1>16, <2>1, <2>2 DEF Unfinished, First
<1>17. UsedRing'
  <2>0. unseen' - 1 = u /\ \A n \in 0..u : n = u \/ n \in 0..u - 1
    BY SMT, <1>9, <1>10
  <2>1. unseen' <= NUM
    BY SMT, <1>9, <1>10, Sizes
  <2>2. Finished(h)'
    BY <1>1, <1>2, <1>3, <1>6 DEF Finished, First
  <2>3. \A n \in 0..u - 1 : Finished(Completed(n)) /\ Completed(n) # h
    BY <1>inv, <1>8, <1>9 DEF UsedRing
  <2>4. \A n \in 0..u : Finished(Completed(n))'
    <3> SUFFICES ASSUME NEW n \in 0..u PROVE Finished(Completed(n))'
      OBVIOUS
    <3>1. CASE n = u
      BY <1>13, <2>2, <3>1 DEF Finished
    <3>2. CASE n \in 0..u - 1
      BY <1>14, <1>15, <2>3, <3>2 DEF Finished
    <3> QED  BY <2>0, <3>1, <3>2
  <2>5. \A m, n \in 0..u : m # n => Completed(m)' # Completed(n)'
    <3> SUFFICES ASSUME NEW m \in 0..u, NEW n \in 0..u, m # n PROVE Completed(m)' # Completed(n)'
      OBVIOUS
    <3>1. CASE m = u \/ n = u
      BY <1>13, <1>14, <2>0, <2>3, <3>1
    <3>2. CASE m \in 0..u - 1 /\ n \in 0..u - 1
      BY <1>inv, <1>9, <1>14, <3>2 DEF UsedRing
    <3> QED  BY <2>0, <3>1, <3>2
  <2> QED  BY <2>0, <2>1, <2>4, <2>5 DEF UsedRing
<1>18. inflight' = inflight \ {h}
  BY DEF complete
<1>19. AvailRing' /\ InDevice'
  <2>1. queued' = queued /\ \A n : Queued(n)' = Queued(n)
    BY <1>1 DEF queued, Queued
  <2>2. InDevice'
    BY <1>inv, <1>16, <1>18 DEF InDevice
  <2>3. \A n \in 0..queued - 1 : Unfinished(Queued(n))'
    <3> SUFFICES ASSUME NEW n \in 0..queued - 1 PROVE Unfinished(Queued(n))'
      OBVIOUS
    <3>1. Unfinished(Queued(n)) /\ Queued(n) # h
      BY <1>inv DEF AvailRing
    <3> QED  BY <1>16, <2>1, <3>1 DEF Unfinished
  <2> QED  BY <1>inv, <1>18, <2>1, <2>2, <2>3 DEF AvailRing
<1>20. Linked' /\ Apart' /\ Accounted'
  <2>1. ChainsSame
    BY <1>1, <1>2 DEF ChainsSame
  <2> QED  BY <1>inv, <2>1, ChainsKept
<1>21. Described'
  <2>1. \A r \in Submitted : info'[First(r)].b = info[First(r)].b /\ (info[First(r)].status = 0 => info'[First(r)].status = 0)
    BY <1>6, <1>7
  <2> QED  BY <1>inv, <1>1, <1>2, <2>1 DEF Described, First, Second
<1>22. Callers' /\ Interrupt' /\ Starved'
  BY <1>inv, <1>1, <1>2 DEF complete, Callers, Interrupt, Starved, FreeDescs
<1>23. TypeOK'
  <2>1. moved' \in [buf : Procs, write : BOOLEAN, k : Blocks]
    <3>1. desc[desc[h].next].buf = q /\ op[h] = arg[q]
      BY <1>inv, <1>3 DEF Described, First, Second
    <3>2. arg[q].k \in Blocks /\ arg[q].write \in BOOLEAN
      BY <1>inv, <1>3, <1>4 DEF Callers, TypeOK, Reqs, Submitted
    <3>3. moved' = [buf |-> q, write |-> arg[q].write, k |-> arg[q].k]
      BY <3>1 DEF complete
    <3> QED  BY <1>4, <3>2, <3>3
  <2>2. info' \in [Descs -> [b : Procs \union {NoBuf}, status : {0, Pending}]]
    <3>1. PICK i \in [b : Procs \union {NoBuf}, status : {0, Pending}] : i = info[h]
      BY <1>inv, <1>4 DEF TypeOK
    <3>2. [i EXCEPT !.status = 0] \in [b : Procs \union {NoBuf}, status : {0, Pending}]
      OBVIOUS
    <3> QED  BY <1>inv, <1>4, <1>5, <3>1, <3>2 DEF TypeOK
  <2>3. used' \in [Descs -> Descs]
    BY <1>inv, <1>4, <1>11 DEF TypeOK
  <2>4. usedIdx' \in Indices /\ inflight' \subseteq Descs
    BY <1>inv, <1>10, <1>18 DEF TypeOK, Indices
  <2>5. irq' \in BOOLEAN
    BY DEF complete
  <2> QED  BY ZenonT(30), <1>inv, <1>1, <2>1, <2>2, <2>3, <2>4, <2>5 DEF TypeOK
<1> QED  BY <1>17, <1>19, <1>20, <1>21, <1>22, <1>23 DEF VirtioInv

\* What virtio_disk_rw() writes when alloc3_desc() has given it a, b and c ...
Takes(p, a, b, c) ==
  /\ a \in Descs /\ b \in Descs /\ c \in Descs
  /\ free[a] /\ free[b] /\ free[c]
  /\ a # b /\ a # c /\ b # c
  /\ free' = [free EXCEPT ![a] = FALSE, ![b] = FALSE, ![c] = FALSE]
  /\ op' = [op EXCEPT ![a] = arg[p]]
  /\ desc' = [desc EXCEPT ![a] = [buf |-> NoBuf, more |-> TRUE, next |-> b],
                         ![b] = [buf |-> p, more |-> TRUE, next |-> c],
                         ![c] = NullDesc]
  /\ info' = [info EXCEPT ![a] = [b |-> p, status |-> Pending]]
  /\ avail' = [avail EXCEPT ![availIdx % NUM] = a]
  /\ availIdx' = (availIdx + 1) % U16
  /\ head' = [head EXCEPT ![p] = a]
  /\ busy' = [busy EXCEPT ![p] = TRUE]
  /\ pc[p] = "alloc" /\ pc' = [pc EXCEPT ![p] = "sleep_b"]
  /\ UNCHANGED <<moved, used_idx, device, handler, arg>>

\* ... and what this means: one more chain, and the others as they were.
NewChain(p, a, b, c) ==
  /\ \A d \in Descs : free'[d] = (free[d] /\ d \notin {a, b, c})
  /\ desc'[a] = [buf |-> NoBuf, more |-> TRUE, next |-> b]
  /\ desc'[b] = [buf |-> p, more |-> TRUE, next |-> c]
  /\ desc'[c] = NullDesc
  /\ First(p)' = a /\ Second(p)' = b /\ Third(p)' = c /\ Three(p)' = {a, b, c}
  /\ busy'[p] /\ op'[a] = arg[p] /\ info'[a] = [b |-> p, status |-> Pending]
OthersSame(a, b, c) ==
  \A q \in Submitted :
    /\ First(q)' = First(q) /\ Second(q)' = Second(q) /\ Third(q)' = Third(q)
    /\ Three(q)' = Three(q)
    /\ \A d \in Three(q) : d \in Descs /\ d \notin {a, b, c} /\ desc'[d] = desc[d] /\ ~free[d]
    /\ op'[First(q)] = op[First(q)] /\ info'[First(q)] = info[First(q)]
    /\ busy'[q] = busy[q]

(* alloc3_desc() takes three different free descriptors.                   *)
LEMMA SubmitTakes ==
  ASSUME NEW p \in Procs, submit(p)
  PROVE  \E a, b, c \in Descs : Takes(p, a, b, c)
<1> DEFINE a == Lowest(FreeDescs)
           b == Lowest(FreeDescs \ {a})
           c == Lowest(FreeDescs \ {a, b})
<1>1. /\ free' = [free EXCEPT ![a] = FALSE, ![b] = FALSE, ![c] = FALSE]
      /\ op' = [op EXCEPT ![a] = arg[p]]
      /\ desc' = [desc EXCEPT ![a] = [buf |-> NoBuf, more |-> TRUE, next |-> b],
                             ![b] = [buf |-> p, more |-> TRUE, next |-> c],
                             ![c] = NullDesc]
      /\ info' = [info EXCEPT ![a] = [b |-> p, status |-> Pending]]
      /\ avail' = [avail EXCEPT ![availIdx % NUM] = a]
      /\ head' = [head EXCEPT ![p] = a]
  BY DEF submit
<1>2. /\ pc[p] = "alloc" /\ pc' = [pc EXCEPT ![p] = "sleep_b"]
      /\ busy' = [busy EXCEPT ![p] = TRUE]
      /\ availIdx' = (availIdx + 1) % U16
      /\ UNCHANGED <<moved, used_idx, device, handler, arg>>
  BY DEF submit, goto
<1>3. FreeDescs \in SUBSET Descs /\ Cardinality(FreeDescs) >= 3
  BY DEF submit, FreeDescs
<1>4. a \in FreeDescs /\ b \in FreeDescs \ {a} /\ c \in FreeDescs \ {a, b}
  BY <1>3, ThreeLowest
<1> HIDE DEF a, b, c
<1>5. /\ a \in Descs /\ b \in Descs /\ c \in Descs
      /\ free[a] /\ free[b] /\ free[c]
      /\ a # b /\ a # c /\ b # c
  BY <1>4 DEF FreeDescs
<1>6. Takes(p, a, b, c)
  BY <1>1, <1>2, <1>5 DEF Takes
<1> QED  BY <1>5, <1>6

(* The chain that submit(p) makes.                                         *)
LEMMA SubmitMakes ==
  ASSUME TypeOK, NEW p \in Procs, NEW a \in Descs, NEW b \in Descs, NEW c \in Descs, Takes(p, a, b, c)
  PROVE  NewChain(p, a, b, c) /\ Submitted' = Submitted \union {p} /\ p \notin Submitted
<1>0. /\ free \in [Descs -> BOOLEAN] /\ DOMAIN desc = Descs /\ DOMAIN op = Descs /\ DOMAIN info = Descs
      /\ DOMAIN head = Procs /\ DOMAIN busy = Procs /\ DOMAIN pc = Procs
  BY DEF TypeOK
<1>1. \A d \in Descs : free'[d] = (free[d] /\ d \notin {a, b, c})
  BY <1>0 DEF Takes
<1>2. /\ desc'[a] = [buf |-> NoBuf, more |-> TRUE, next |-> b]
      /\ desc'[b] = [buf |-> p, more |-> TRUE, next |-> c]
      /\ desc'[c] = NullDesc
  BY <1>0 DEF Takes
<1>3. First(p)' = a
  BY <1>0 DEF Takes, First
<1>4. Second(p)' = b
  BY SMT, <1>2, <1>3 DEF Second
<1>5. Third(p)' = c
  BY SMT, <1>2, <1>4 DEF Third
<1>6. Three(p)' = {a, b, c}
  BY <1>3, <1>4, <1>5 DEF Three
<1>7. busy'[p] /\ op'[a] = arg[p] /\ info'[a] = [b |-> p, status |-> Pending]
  BY <1>0 DEF Takes
<1>8. Submitted' = Submitted \union {p} /\ p \notin Submitted
  BY <1>0 DEF Takes, Submitted
<1> QED  BY <1>1, <1>2, <1>3, <1>4, <1>5, <1>6, <1>7, <1>8 DEF NewChain

(* The chains of the other requests have none of its descriptors.          *)
LEMMA SubmitLeaves ==
  ASSUME TypeOK, Linked, NEW p \in Procs, NEW a \in Descs, NEW b \in Descs, NEW c \in Descs,
         Takes(p, a, b, c)
  PROVE  OthersSame(a, b, c)
<1> SUFFICES ASSUME NEW q \in Submitted
             PROVE  /\ First(q)' = First(q) /\ Second(q)' = Second(q) /\ Third(q)' = Third(q)
                    /\ Three(q)' = Three(q)
                    /\ \A d \in Three(q) : d \in Descs /\ d \notin {a, b, c} /\ desc'[d] = desc[d] /\ ~free[d]
                    /\ op'[First(q)] = op[First(q)] /\ info'[First(q)] = info[First(q)]
                    /\ busy'[q] = busy[q]
  BY DEF OthersSame
<1>0. DOMAIN desc = Descs /\ DOMAIN op = Descs /\ DOMAIN info = Descs /\ DOMAIN head = Procs /\ DOMAIN busy = Procs
  BY DEF TypeOK
<1>1. q \in Procs /\ q # p
  BY ZenonT(30) DEF Takes, Submitted
<1>2. \A d \in Three(q) : d \in Descs /\ ~free[d]
  BY ChainIsThree DEF Linked, Three
<1>3. \A d \in Three(q) : d \notin {a, b, c}
  BY <1>2 DEF Takes
<1>4. \A d \in Three(q) : desc'[d] = desc[d]
  BY <1>0, <1>2, <1>3 DEF Takes
<1>5. head'[q] = head[q] /\ busy'[q] = busy[q]
  BY <1>0, <1>1 DEF Takes
<1>6. First(q) \in Descs /\ First(q) # a
  BY <1>2, <1>3 DEF Three
<1>7. op'[First(q)] = op[First(q)] /\ info'[First(q)] = info[First(q)]
  BY <1>0, <1>6 DEF Takes
<1> QED  BY <1>2, <1>3, <1>4, <1>5, <1>7, SameChain

(* So the chains stay linked, apart and accounted for ...                  *)
LEMMA SubmitChains ==
  ASSUME Linked, Apart, Accounted, Described, NEW p \in Procs,
         NEW a \in Descs, NEW b \in Descs, NEW c \in Descs, a # b, a # c, b # c,
         NewChain(p, a, b, c), OthersSame(a, b, c), Submitted' = Submitted \union {p}, arg' = arg
  PROVE  Linked' /\ Apart' /\ Accounted' /\ Described'
<1>1. Linked'
  <2>1. ASSUME NEW q \in Submitted
        PROVE  /\ desc'[First(q)].more /\ desc'[Second(q)].more /\ ~desc'[Third(q)].more
               /\ First(q) # Second(q) /\ First(q) # Third(q) /\ Second(q) # Third(q)
               /\ ~free'[First(q)] /\ ~free'[Second(q)] /\ ~free'[Third(q)]
    <3>1. First(q) \in Three(q) /\ Second(q) \in Three(q) /\ Third(q) \in Three(q)
      BY DEF Three
    <3>2. \A d \in Three(q) : ~free'[d] /\ desc'[d] = desc[d]
      BY DEF OthersSame, NewChain
    <3> QED  BY <3>1, <3>2 DEF Linked
  <2>2. desc'[a].more /\ desc'[b].more /\ ~desc'[c].more
    BY SMT DEF NewChain, NullDesc
  <2>3. ~free'[a] /\ ~free'[b] /\ ~free'[c]
    BY DEF NewChain
  <2>4. First(p)' = a /\ Second(p)' = b /\ Third(p)' = c
    BY DEF NewChain
  <2>5. \A q \in Submitted : First(q)' = First(q) /\ Second(q)' = Second(q) /\ Third(q)' = Third(q)
    BY DEF OthersSame
  <2> QED  BY <2>1, <2>2, <2>3, <2>4, <2>5 DEF Linked
<1>2. Apart'
  <2> SUFFICES ASSUME NEW q \in Submitted', NEW r \in Submitted', q # r, NEW d \in Three(q)'
               PROVE  d \notin Three(r)'
    BY DEF Apart
  <2>1. CASE q \in Submitted /\ r \in Submitted
    BY SMTT(30), <2>1 DEF Apart, OthersSame
  <2>2. CASE q = p
    BY SMTT(30), <2>2 DEF NewChain, OthersSame
  <2>3. CASE r = p
    BY SMT, <2>3 DEF NewChain, OthersSame
  <2> QED  BY <2>1, <2>2, <2>3
<1>3. Accounted'
  <2> SUFFICES ASSUME NEW d \in Descs, ~free'[d] PROVE \E q \in Submitted' : d \in Three(q)'
    BY DEF Accounted
  <2>1. CASE d \in {a, b, c}
    BY <2>1 DEF NewChain
  <2>2. CASE ~free[d]
    BY SMT, <2>2 DEF Accounted, OthersSame
  <2> QED  BY ZenonT(30), <2>1, <2>2 DEF NewChain
<1>4. Described'
  <2>1. ASSUME NEW q \in Submitted
        PROVE  /\ desc'[Second(q)].buf = q /\ op'[First(q)] = arg[q]
               /\ info'[First(q)].b = q /\ (busy'[q] \/ info'[First(q)].status = 0)
    <3>1. Second(q) \in Three(q)
      BY DEF Three
    <3> QED  BY SMT, <3>1 DEF Described, OthersSame
  <2>2. /\ desc'[b].buf = p /\ info'[a].b = p /\ op'[a] = arg[p] /\ busy'[p]
        /\ First(p)' = a /\ Second(p)' = b
    BY SMT DEF NewChain
  <2>3. \A q \in Submitted : First(q)' = First(q) /\ Second(q)' = Second(q)
    BY DEF OthersSame
  <2> QED  BY ZenonT(60), <2>1, <2>2, <2>3 DEF Described
<1> QED  BY <1>1, <1>2, <1>3, <1>4

(* ... and what was in a ring is.                                          *)
LEMMA SubmitRequests ==
  ASSUME NEW p \in Procs, NEW a \in Descs, NEW b \in Descs, NEW c \in Descs,
         OthersSame(a, b, c), Submitted' = Submitted \union {p}
  PROVE  /\ \A h : Unfinished(h) => Unfinished(h)' /\ h # a /\ h # b /\ h \in Descs
         /\ \A h : Finished(h) => Finished(h)'
<1>1. ASSUME NEW h, Unfinished(h) PROVE Unfinished(h)' /\ h # a /\ h # b /\ h \in Descs
  <2>1. PICK q \in Submitted : First(q) = h /\ busy[q] /\ info[h].status = Pending
    BY <1>1 DEF Unfinished
  <2>2. h \in Three(q)
    BY <2>1 DEF Three
  <2>3. First(q)' = h /\ busy'[q] /\ info'[h].status = Pending
    BY <2>1 DEF OthersSame
  <2>4. h # a /\ h # b /\ h \in Descs
    BY <2>2 DEF OthersSame
  <2> QED  BY <2>3, <2>4 DEF Unfinished
<1>2. ASSUME NEW h, Finished(h) PROVE Finished(h)'
  <2>1. PICK q \in Submitted : First(q) = h /\ busy[q] /\ info[h].status = 0
    BY <1>2 DEF Finished
  <2>2. First(q)' = h /\ busy'[q] /\ info'[h].status = 0
    BY <2>1 DEF OthersSame
  <2> QED  BY <2>2 DEF Finished
<1> QED  BY <1>1, <1>2

(* The types.                                                              *)
LEMMA SubmitTypes ==
  ASSUME TypeOK, NEW p \in Procs, NEW a \in Descs, NEW b \in Descs, NEW c \in Descs, Takes(p, a, b, c)
  PROVE  TypeOK'
<1>0. /\ free \in [Descs -> BOOLEAN] /\ op \in [Descs -> Reqs] /\ arg \in [Procs -> Reqs]
      /\ desc \in [Descs -> [buf : Procs \union {NoBuf}, more : BOOLEAN, next : Descs]]
      /\ info \in [Descs -> [b : Procs \union {NoBuf}, status : {0, Pending}]]
      /\ avail \in [Descs -> Descs] /\ head \in [Procs -> Descs]
      /\ busy \in [Procs -> BOOLEAN] /\ pc \in [Procs -> {"out", "alloc", "sleep_free", "sleep_b", "check"}]
  BY DEF TypeOK
<1>1. free' \in [Descs -> BOOLEAN] /\ op' \in [Descs -> Reqs]
  BY <1>0 DEF Takes
<1>2. desc' \in [Descs -> [buf : Procs \union {NoBuf}, more : BOOLEAN, next : Descs]]
  <2>1. /\ [buf |-> NoBuf, more |-> TRUE, next |-> b] \in [buf : Procs \union {NoBuf}, more : BOOLEAN, next : Descs]
        /\ [buf |-> p, more |-> TRUE, next |-> c] \in [buf : Procs \union {NoBuf}, more : BOOLEAN, next : Descs]
        /\ NullDesc \in [buf : Procs \union {NoBuf}, more : BOOLEAN, next : Descs]
    BY SMT, Sizes DEF NullDesc
  <2> QED  BY ZenonT(30), <1>0, <2>1 DEF Takes
<1>3. info' \in [Descs -> [b : Procs \union {NoBuf}, status : {0, Pending}]]
  BY <1>0 DEF Takes
<1>4. avail' \in [Descs -> Descs] /\ head' \in [Procs -> Descs]
  BY ZenonT(30), <1>0 DEF Takes
<1>5. busy' \in [Procs -> BOOLEAN] /\ pc' \in [Procs -> {"out", "alloc", "sleep_free", "sleep_b", "check"}]
  BY <1>0 DEF Takes
<1>6. availIdx' \in Indices
  BY RingMoves DEF Takes, Indices
<1>7. UNCHANGED <<moved, used_idx, used, usedIdx, fetched, inflight, irq, handler, arg>>
  BY DEF Takes, device
<1> QED  BY SMTT(30), <1>1, <1>2, <1>3, <1>4, <1>5, <1>6, <1>7 DEF TypeOK

(* The available ring has room for the head of the chain.                  *)
LEMMA SubmitRings ==
  ASSUME TypeOK, AvailRing, InDevice, NEW p \in Procs,
         NEW a \in Descs, NEW b \in Descs, NEW c \in Descs, Takes(p, a, b, c),
         NewChain(p, a, b, c), OthersSame(a, b, c), Submitted' = Submitted \union {p}
  PROVE  AvailRing' /\ InDevice'
<1>1. /\ \A h : Unfinished(h) => Unfinished(h)' /\ h # a /\ h # b /\ h \in Descs
      /\ fetched' = fetched /\ inflight' = inflight /\ a # b
  BY SubmitRequests DEF Takes, device
<1>2. PICK u \in Nat : u = queued /\ u <= NUM - 2
  <2> DEFINE f == [n \in 0..queued - 1 |-> Queued(n)]
  <2>1. queued \in Nat
    BY SMT, RingIndices, Sizes
  <2>2. f \in [0..queued - 1 -> Descs \ {a, b}]
    BY <1>1 DEF AvailRing
  <2>3. \A m, n \in 0..queued - 1 : m # n => f[m] # f[n]
    BY DEF AvailRing
  <2> HIDE DEF f
  <2>4. queued <= NUM - 2
    BY <1>1, <2>1, <2>2, <2>3, TwoSpare
  <2> QED  BY <2>1, <2>4
<1>3. queued' = u + 1
  <2>1. queued < U16 - 1
    BY SMT, <1>2, Sizes
  <2>2. Ahead(U16, fetched, (availIdx + 1) % U16) = u + 1
    BY <1>2, <2>1, RingMoves
  <2> QED  BY <1>1, <2>2 DEF queued, Takes
<1>4. avail' = [avail EXCEPT ![Slot(NUM, fetched, u)] = a] /\ Slot(NUM, fetched, u) \in Descs
  BY <1>2, RingSlots DEF Takes
<1>5. \A n : Queued(n)' = avail'[Slot(NUM, fetched, n)]
  BY <1>1 DEF Queued
<1>6. DOMAIN avail = Descs
  BY DEF TypeOK
<1>7. Queued(u)' = a
  BY <1>4, <1>5, <1>6
<1>8. ASSUME NEW n \in 0..u - 1 PROVE Queued(n)' = Queued(n)
  <2>1. n \in Nat /\ n < u /\ u < NUM
    BY SMT, <1>2, Sizes
  <2>2. Slot(NUM, fetched, n) # Slot(NUM, fetched, u) /\ Slot(NUM, fetched, n) \in Descs
    BY <2>1, RingSlotsDiffer, RingSlots
  <2> QED  BY <1>4, <1>5, <1>6, <2>2 DEF Queued
<1>9. InDevice' /\ a \notin inflight
  BY <1>1 DEF InDevice
<1>10. AvailRing'
  <2>0. queued' - 1 = u /\ \A n \in 0..u : n = u \/ n \in 0..u - 1
    BY SMT, <1>2, <1>3
  <2>1. queued' <= NUM
    BY SMTT(30), <1>2, <1>3, Sizes
  <2>2. \A h : h = a => Unfinished(h)'
    <3> DEFINE i == [b |-> p, status |-> Pending]
    <3>1. i.status = Pending
      OBVIOUS
    <3>2. First(p)' = a /\ busy'[p] /\ info'[a] = i
      BY DEF NewChain
    <3>3. p \in Submitted'
      OBVIOUS
    <3> HIDE DEF i
    <3> QED  BY <3>1, <3>2, <3>3 DEF Unfinished
  <2>3. \A n \in 0..u - 1 : Unfinished(Queued(n)) /\ Queued(n) \notin inflight /\ Queued(n) # a
    BY <1>1, <1>2 DEF AvailRing
  <2>4. \A n \in 0..u : Unfinished(Queued(n))' /\ Queued(n)' \notin inflight'
    <3> SUFFICES ASSUME NEW n \in 0..u PROVE Unfinished(Queued(n))' /\ Queued(n)' \notin inflight'
      OBVIOUS
    <3>1. CASE n = u
      BY ZenonT(30), <1>1, <1>7, <1>9, <2>2, <3>1 DEF Unfinished
    <3>2. CASE n \in 0..u - 1
      BY <1>1, <1>8, <2>3, <3>2 DEF Unfinished
    <3> QED  BY <2>0, <3>1, <3>2
  <2>5. \A m, n \in 0..u : m # n => Queued(m)' # Queued(n)'
    <3> SUFFICES ASSUME NEW m \in 0..u, NEW n \in 0..u, m # n PROVE Queued(m)' # Queued(n)'
      OBVIOUS
    <3>1. CASE m = u \/ n = u
      BY <1>7, <1>8, <2>0, <2>3, <3>1
    <3>2. CASE m \in 0..u - 1 /\ n \in 0..u - 1
      BY <1>2, <1>8, <3>2 DEF AvailRing
    <3> QED  BY <2>0, <3>1, <3>2
  <2> QED  BY <2>0, <2>1, <2>4, <2>5 DEF AvailRing
<1> QED  BY <1>9, <1>10

(* virtio_disk_rw() with three descriptors free: a new request gets them.  *)
LEMMA SubmitKeeps ==
  ASSUME VirtioInv, NEW p \in Procs, submit(p)
  PROVE  VirtioInv'
<1>inv. TypeOK /\ Linked /\ Apart /\ Accounted /\ Described /\ Callers /\ AvailRing
        /\ InDevice /\ UsedRing /\ Interrupt /\ Starved
  BY DEF VirtioInv
<1>1. PICK a \in Descs, b \in Descs, c \in Descs : Takes(p, a, b, c)
  BY SubmitTakes
<1>2. NewChain(p, a, b, c) /\ Submitted' = Submitted \union {p} /\ p \notin Submitted
  BY <1>inv, <1>1, SubmitMakes
<1>3. OthersSame(a, b, c)
  BY <1>inv, <1>1, SubmitLeaves
<1>4. /\ a # b /\ a # c /\ b # c
      /\ pc[p] = "alloc" /\ pc' = [pc EXCEPT ![p] = "sleep_b"]
      /\ busy' = [busy EXCEPT ![p] = TRUE]
      /\ UNCHANGED <<used_idx, used, usedIdx, fetched, inflight, irq, handler, arg>>
  BY <1>1 DEF Takes, device
<1>5. Linked' /\ Apart' /\ Accounted' /\ Described'
  BY <1>inv, <1>2, <1>3, <1>4, SubmitChains
<1>6. AvailRing' /\ InDevice'
  BY <1>inv, <1>1, <1>2, <1>3, SubmitRings
<1>7. TypeOK'
  BY <1>inv, <1>1, SubmitTypes
<1>8. Callers'
  <2>1. /\ \A q \in Procs \ {p} : pc'[q] = pc[q] /\ busy'[q] = busy[q]
        /\ pc'[p] = "sleep_b" /\ busy'[p]
    BY <1>inv, <1>4 DEF TypeOK
  <2> QED  BY <1>inv, <1>2, <1>4, <2>1 DEF Callers
<1>9. UsedRing'
  <2>1. unseen' = unseen /\ \A n : Completed(n)' = Completed(n)
    BY <1>4 DEF unseen, Completed
  <2>2. \A h : Finished(h) => Finished(h)'
    BY <1>2, <1>3, SubmitRequests
  <2> QED  BY <1>inv, <2>1, <2>2 DEF UsedRing, Finished
<1>10. Interrupt'
  BY <1>inv, <1>4 DEF Interrupt
<1>11. Starved'
  <2>1. FreeDescs' \in SUBSET FreeDescs /\ FreeDescs \in SUBSET Descs /\ FreeDescs' \in SUBSET Descs
    BY <1>2 DEF NewChain, FreeDescs
  <2>2. Cardinality(FreeDescs') <= Cardinality(FreeDescs)
    BY <2>1, DescCount, FS_Subset
  <2>3. Cardinality(FreeDescs') \in Nat /\ Cardinality(FreeDescs) \in Nat
    BY <2>1, DescCount
  <2>4. \A q \in Procs : pc'[q] = "sleep_free" => pc[q] = "sleep_free"
    BY <1>inv, <1>4 DEF TypeOK
  <2> QED  BY SMTT(30), <1>inv, <2>2, <2>3, <2>4 DEF Starved
<1> QED  BY <1>5, <1>6, <1>7, <1>8, <1>9, <1>10, <1>11 DEF VirtioInv

(* Nothing happens.                                                        *)
LEMMA StutterKeeps ==
  ASSUME VirtioInv, UNCHANGED vars
  PROVE  VirtioInv'
<1>inv. TypeOK /\ Linked /\ Apart /\ Accounted /\ Described /\ Callers /\ AvailRing
        /\ InDevice /\ UsedRing /\ Interrupt /\ Starved
  BY DEF VirtioInv
<1>1. ChainsSame
  BY DEF vars, ChainsSame, Submitted
<1>2. Linked' /\ Apart' /\ Accounted'
  BY <1>inv, <1>1, ChainsKept
<1>3. AvailRing' /\ InDevice' /\ UsedRing'
  BY <1>inv, <1>1, RequestsKept, RingsKept DEF vars
<1>4. Described' /\ Callers'
  <2>1. Submitted' = Submitted
    BY DEF vars, Submitted
  <2>2. Described'
    BY <1>inv, <2>1 DEF vars, Described, First, Second
  <2>3. Callers'
    BY <1>inv, <2>1 DEF vars, Callers
  <2> QED  BY <2>2, <2>3
<1>5. Interrupt' /\ Starved' /\ TypeOK'
  BY <1>inv, FreeKept DEF vars, Interrupt, Starved, TypeOK
<1> QED  BY <1>2, <1>3, <1>4, <1>5 DEF VirtioInv

(* Every step of the callers, the handler and the device keeps the         *)
(* invariant.                                                              *)
LEMMA NextKeeps == VirtioInv /\ [Next]_vars => VirtioInv'
<1> SUFFICES ASSUME VirtioInv, [Next]_vars PROVE VirtioInv'
  OBVIOUS
<1>1. ASSUME NEW p \in Procs, CallerNext(p) PROVE VirtioInv'
  BY <1>1, SubmitKeeps, NoDescKeeps, StillBusyKeeps, FinishKeeps DEF CallerNext
<1>2. CASE HandlerNext
  BY <1>2, IntrAckKeeps, IntrOneKeeps DEF HandlerNext
<1>3. CASE DeviceNext
  BY <1>3, FetchKeeps, CompleteKeeps DEF DeviceNext
<1> QED  BY <1>1, <1>2, <1>3, RwKeeps, KillKeeps, StutterKeeps DEF Next

(* The invariant holds throughout.                                         *)
LEMMA VirtioInvariant == Spec => []VirtioInv
BY InitVirtio, NextKeeps, PTL DEF Spec

-----------------------------------------------------------------------------
(* What the invariant means.                                               *)

(* The free descriptors are those of no chain.                             *)
LEMMA FreeAreTheRest ==
  ASSUME VirtioInv
  PROVE  FreeDescs = Descs \ UNION {Chain(head[p]) : p \in Submitted}
<1>inv. TypeOK /\ Linked /\ Apart /\ Accounted /\ Described /\ Callers /\ AvailRing
        /\ InDevice /\ UsedRing /\ Interrupt /\ Starved
  BY DEF VirtioInv
<1>1. \A p \in Submitted : Chain(head[p]) = Three(p) /\ \A d \in Three(p) : ~free[d]
  BY <1>inv, ChainIsThree DEF Linked, Three
<1>2. \A d \in Descs : free[d] <=> ~\E p \in Submitted : d \in Chain(head[p])
  BY <1>inv, <1>1 DEF Accounted
<1> QED  BY <1>2 DEF FreeDescs

(* An entry of the used ring is the head of its caller's request.          *)
LEMMA EntriesFinished ==
  ASSUME VirtioInv, NEW n \in 0..unseen - 1
  PROVE  LET id == used[(used_idx + n) % NUM] IN
         /\ info[id].status = 0
         /\ info[id].b \in Submitted /\ busy[info[id].b] /\ head[info[id].b] = id
<1>inv. TypeOK /\ Linked /\ Apart /\ Accounted /\ Described /\ Callers /\ AvailRing
        /\ InDevice /\ UsedRing /\ Interrupt /\ Starved
  BY DEF VirtioInv
<1> DEFINE id == Completed(n)
<1>1. id = used[(used_idx + n) % NUM]
  BY DEF Completed, Slot
<1> HIDE DEF id
<1>2. Finished(id)
  BY <1>inv DEF UsedRing, id
<1>3. PICK p \in Submitted : First(p) = id /\ busy[p] /\ info[id].status = 0
  BY <1>2 DEF Finished
<1>4. info[id].b = p
  BY <1>inv, <1>3 DEF Described
<1> QED  BY <1>1, <1>3, <1>4 DEF First

(* VirtioInv implies DescsAccounted.                                       *)
LEMMA InvDescsAccounted == VirtioInv => DescsAccounted
<1> SUFFICES ASSUME VirtioInv PROVE DescsAccounted
  OBVIOUS
<1>inv. TypeOK /\ Linked /\ Apart /\ Accounted /\ Described /\ Callers /\ AvailRing
        /\ InDevice /\ UsedRing /\ Interrupt /\ Starved
  BY DEF VirtioInv
<1>1. \A p \in Submitted : Chain(head[p]) = Three(p) /\ Cardinality(Three(p)) = 3
  BY <1>inv, ChainIsThree, ChainCount
<1>2. \A p, q \in Submitted : p # q => Three(p) \intersect Three(q) = {}
  BY <1>inv DEF Apart
<1>3. unseen <= NUM /\ TypeOK
  BY <1>inv DEF UsedRing
<1> QED  BY <1>1, <1>2, <1>3, FreeAreTheRest, EntriesFinished DEF DescsAccounted

(* VirtioInv implies SleepersJustified.                                    *)
LEMMA InvSleepersJustified == VirtioInv => SleepersJustified
BY DEF VirtioInv, Interrupt, Starved, Callers, SleepersJustified

(* For any number of callers, ring entries and blocks: no descriptor is    *)
(* shared, lost or freed twice, and what the handler finds in the used     *)
(* ring is a finished request whose caller waits for it.                   *)
THEOREM DescsAccountedCorrect == Spec => []DescsAccounted
BY VirtioInvariant, InvDescsAccounted, PTL

(* ... no completion is left without an interrupt to come, nobody sleeps   *)
(* for descriptors while three are free, or on a buffer the disk is done   *)
(* with.                                                                   *)
THEOREM SleepersJustifiedCorrect == Spec => []SleepersJustified
BY VirtioInvariant, InvSleepersJustified, PTL

-----------------------------------------------------------------------------
(* virtio_disk_rw() is atomic.                                             *)

(* The phase of a call: where the caller is and what the device has        *)
(* written, before and after a step.                                       *)
LEMMA PhaseIs ==
  ASSUME NEW p \in Procs
  PROVE  /\ pc[p] = "out" => Phase(p) = "idle"
         /\ p \in Submitted /\ info[First(p)].status = 0 => Phase(p) = "done"
         /\ pc[p] # "out" /\ (p \in Submitted => info[First(p)].status # 0) => Phase(p) = "pending"
         /\ pc'[p] = "out" => Phase(p)' = "idle"
         /\ p \in Submitted' /\ info'[First(p)'].status = 0 => Phase(p)' = "done"
         /\ pc'[p] # "out" /\ (p \in Submitted' => info'[First(p)'].status # 0) => Phase(p)' = "pending"
BY SMT DEF Phase, Submitted, First

\* A caller goes to sleep or wakes up, and what the device wrote stays.
SamePlace(p) ==
  /\ pc'[p] = "out" <=> pc[p] = "out"
  /\ p \in Submitted' <=> p \in Submitted
  /\ p \in Submitted => info'[First(p)'].status = info[First(p)].status

\* What the atomic disk knows of the calls.
calls == [p \in Procs |-> [phase |-> Phase(p), write |-> arg[p].write, k |-> arg[p].k]]

(* The fields of an empty request.                                         *)
LEMMA NoReqFields == NoReq.write = FALSE /\ NoReq.k = NoBlock
BY DEF NoReq

(* A function that differs from another at one point.                      *)
LEMMA OneChanges ==
  ASSUME NEW f, NEW g, f = [q \in Procs |-> f[q]], g = [q \in Procs |-> g[q]],
         NEW p \in Procs, \A q \in Procs \ {p} : g[q] = f[q]
  PROVE  g = [f EXCEPT ![p] = g[p]]
OBVIOUS

(* A step of one caller's request: the other calls stay as they are.       *)
LEMMA CallChanges ==
  ASSUME NEW p \in Procs, \A q \in Procs \ {p} : Phase(q)' = Phase(q) /\ arg'[q] = arg[q]
  PROVE  calls' = [calls EXCEPT ![p] = [phase |-> Phase(p)', write |-> arg'[p].write, k |-> arg'[p].k]]
<1>1. calls = [q \in Procs |-> calls[q]] /\ calls' = [q \in Procs |-> calls'[q]]
  BY DEF calls
<1>2. \A q \in Procs \ {p} : calls'[q] = calls[q]
  BY DEF calls
<1>3. calls'[p] = [phase |-> Phase(p)', write |-> arg'[p].write, k |-> arg'[p].k]
  BY DEF calls
<1> QED  BY <1>1, <1>2, <1>3, OneChanges

(* A step that leaves the callers where they are is not seen outside.      *)
LEMMA NotSeen ==
  ASSUME moved' = moved, arg' = arg, \A p \in Procs : SamePlace(p)
  PROVE  UNCHANGED Atomic!vars
<1>1. \A p \in Procs : Phase(p)' = Phase(p)
  BY PhaseIs DEF SamePlace
<1> QED  BY <1>1 DEF Atomic!vars

(* Going to sleep and waking up leave the callers where they are.          *)
LEMMA SleepersStay ==
  ASSUME info' = info, head' = head,
         \A q \in Procs : \/ pc'[q] = pc[q]
                          \/ pc[q] \in {"alloc", "sleep_free"} /\ pc'[q] \in {"alloc", "sleep_free"}
                          \/ pc[q] \in {"sleep_b", "check"} /\ pc'[q] \in {"sleep_b", "check"}
  PROVE  \A q \in Procs : SamePlace(q)
BY SMT DEF SamePlace, Submitted, First

(* The call.                                                               *)
LEMMA RwCalls ==
  ASSUME VirtioInv, NEW p \in Procs, NEW w \in BOOLEAN, NEW k \in Blocks, virtio_disk_rw(p, w, k)
  PROVE  Atomic!Call(p)
<1>inv. TypeOK /\ Callers
  BY DEF VirtioInv
<1>1. /\ pc[p] = "out" /\ pc' = [pc EXCEPT ![p] = "alloc"] /\ moved' = moved
      /\ arg' = [arg EXCEPT ![p] = [write |-> w, k |-> k]] /\ info' = info /\ head' = head
  BY DEF virtio_disk_rw, goto, driver
<1>2. arg[p] = NoReq /\ Phase(p) = "idle"
  BY <1>inv, <1>1, PhaseIs DEF Callers
<1>3. pc'[p] = "alloc" /\ arg'[p] = [write |-> w, k |-> k]
  BY <1>inv, <1>1 DEF TypeOK
<1>4. Phase(p)' = "pending"
  BY SMTT(30), <1>3, PhaseIs DEF Submitted
<1>5. \A q \in Procs \ {p} : pc'[q] = pc[q] /\ arg'[q] = arg[q]
  BY <1>inv, <1>1 DEF TypeOK
<1>6. \A q \in Procs \ {p} : Phase(q)' = Phase(q)
  BY <1>1, <1>5 DEF Phase, Submitted
<1>7. calls[p] = [phase |-> "idle", write |-> FALSE, k |-> NoBlock]
  <2>1. arg[p].write = FALSE /\ arg[p].k = NoBlock
    BY <1>2, NoReqFields
  <2> QED  BY <1>2, <2>1 DEF calls
<1>8. calls' = [calls EXCEPT ![p] = [phase |-> "pending", write |-> w, k |-> k]]
  <2>1. arg'[p].write = w /\ arg'[p].k = k
    <3> DEFINE rq == [write |-> w, k |-> k]
    <3>1. rq.write = w /\ rq.k = k
      OBVIOUS
    <3>2. arg'[p] = rq
      BY <1>3
    <3> HIDE DEF rq
    <3> QED  BY <3>1, <3>2
  <2> QED  BY <1>4, <1>5, <1>6, <2>1, CallChanges
<1> QED  BY <1>1, <1>7, <1>8 DEF calls, Atomic!Call, Atomic!NoReq

(* The device carries out the request whose head it has.                   *)
LEMMA CompleteTransfers ==
  ASSUME VirtioInv, NEW h \in inflight, complete(h)
  PROVE  \E q \in Procs : Atomic!Transfer(q)
<1>inv. TypeOK /\ Linked /\ Apart /\ Described /\ InDevice
  BY DEF VirtioInv
<1>1. /\ UNCHANGED <<desc, op, pc, arg, head>> /\ info' = [info EXCEPT ![h].status = 0]
      /\ moved' = [buf |-> desc[desc[h].next].buf, write |-> op[h].write, k |-> op[h].k]
  BY DEF complete
<1>2. PICK q \in Submitted : First(q) = h /\ busy[q] /\ info[h].status = Pending
  BY <1>inv DEF InDevice, Unfinished
<1>3. q \in Procs /\ h \in Descs /\ pc[q] # "out" /\ Submitted' = Submitted
  BY <1>inv, <1>1, <1>2 DEF Submitted, TypeOK
<1>4. moved' = [buf |-> q, write |-> arg[q].write, k |-> arg[q].k]
  BY <1>inv, <1>1, <1>2 DEF Described, Second, First
<1>5. info'[h].status = 0 /\ \A d \in Descs : d # h => info'[d] = info[d]
  BY ZenonT(30), <1>inv, <1>1, <1>3 DEF TypeOK
<1>6. Phase(q) = "pending" /\ Phase(q)' = "done"
  <2>1. First(q)' = h
    BY <1>1, <1>2 DEF First
  <2> QED  BY <1>2, <1>3, <1>5, <2>1, PhaseIs, Sizes
<1>7. \A r \in Procs \ {q} : Phase(r)' = Phase(r)
  <2> SUFFICES ASSUME NEW r \in Procs \ {q} PROVE Phase(r)' = Phase(r)
    OBVIOUS
  <2>1. r \in Submitted => First(r) \in Descs /\ First(r) # h
    BY <1>inv, <1>2, HeadTells, ChainIsThree
  <2>2. SamePlace(r)
    BY <1>1, <1>3, <1>5, <2>1 DEF SamePlace, First
  <2> QED  BY <2>2, PhaseIs DEF SamePlace
<1>8. Atomic!Transfer(q)
  <2> DEFINE c == [phase |-> "pending", write |-> arg[q].write, k |-> arg[q].k]
  <2>1. calls[q] = c
    BY <1>3, <1>6 DEF calls
  <2>2. calls' = [calls EXCEPT ![q] = [phase |-> "done", write |-> arg[q].write, k |-> arg[q].k]]
    BY <1>1, <1>3, <1>6, <1>7, CallChanges
  <2>a. [c EXCEPT !.phase = "done"] = [phase |-> "done", write |-> arg[q].write, k |-> arg[q].k]
    BY SMT
  <2>b. c.phase = "pending" /\ c.write = arg[q].write /\ c.k = arg[q].k
    OBVIOUS
  <2> HIDE DEF c
  <2>3. calls' = [calls EXCEPT ![q].phase = "done"]
    BY <2>1, <2>2, <2>a
  <2>4. calls[q].phase = "pending" /\ moved' = [buf |-> q, write |-> calls[q].write, k |-> calls[q].k]
    BY <1>4, <2>1, <2>b
  <2> QED  BY <2>3, <2>4 DEF calls, Atomic!Transfer
<1> QED  BY <1>3, <1>8

(* The return: b->disk is clear, so the transfer has been made.            *)
LEMMA FinishReturns ==
  ASSUME VirtioInv, NEW p \in Procs, finish(p)
  PROVE  Atomic!Return(p)
<1>inv. TypeOK /\ Linked /\ Apart /\ Described
  BY DEF VirtioInv
<1>1. /\ pc[p] = "check" /\ ~busy[p] /\ UNCHANGED <<moved, head>>
      /\ info' = [info EXCEPT ![First(p)].b = NoBuf] /\ arg' = [arg EXCEPT ![p] = NoReq]
  BY DEF finish, Returns, First
<1>2. pc'[p] = "out" /\ arg'[p] = NoReq
  BY <1>inv, <1>1 DEF finish, Returns, wakeup_free, TypeOK
<1>3. \A q \in Procs \ {p} : pc'[q] = IF pc[q] = "sleep_free" THEN "alloc" ELSE pc[q]
  BY <1>inv DEF finish, Returns, wakeup_free, TypeOK
<1>other. \A q \in Procs \ {p} : arg'[q] = arg[q]
  BY <1>inv, <1>1 DEF TypeOK
<1>4. p \in Submitted /\ Submitted' = Submitted \ {p}
  BY <1>1, <1>2, <1>3 DEF Submitted
<1>5. Phase(p) = "done" /\ Phase(p)' = "idle"
  BY <1>inv, <1>1, <1>2, <1>4, PhaseIs DEF Described
<1>6. \A q \in Procs \ {p} : Phase(q)' = Phase(q)
  <2> SUFFICES ASSUME NEW q \in Procs \ {p} PROVE Phase(q)' = Phase(q)
    OBVIOUS
  <2>1. q \in Submitted => First(q) \in Descs /\ First(q) # First(p) /\ First(q)' = First(q)
    BY <1>inv, <1>1, <1>4, HeadTells, ChainIsThree DEF First
  <2>a. \A d \in Descs : d # First(p) => info'[d] = info[d]
    BY <1>inv, <1>1 DEF TypeOK
  <2>2. q \in Submitted => info'[First(q)'] = info[First(q)]
    BY <2>1, <2>a
  <2>3. SamePlace(q)
    BY <1>3, <1>4, <2>2 DEF SamePlace
  <2> QED  BY <2>3, PhaseIs DEF SamePlace
<1>7. calls[p].phase = "done"
  BY <1>5 DEF calls
<1>8. calls' = [calls EXCEPT ![p] = [phase |-> "idle", write |-> FALSE, k |-> NoBlock]]
  <2>1. arg'[p].write = FALSE /\ arg'[p].k = NoBlock
    BY <1>2, NoReqFields
  <2> QED  BY <1>5, <1>6, <1>other, <2>1, CallChanges
<1> QED  BY <1>1, <1>7, <1>8 DEF calls, Atomic!Return, Atomic!NoReq

(* A request that is formatted and made available is still pending.        *)
LEMMA SubmitNotSeen ==
  ASSUME VirtioInv, NEW p \in Procs, submit(p)
  PROVE  UNCHANGED Atomic!vars
<1>inv. TypeOK /\ Linked
  BY DEF VirtioInv
<1>1. PICK a \in Descs, b \in Descs, c \in Descs : Takes(p, a, b, c)
  BY SubmitTakes
<1>2. NewChain(p, a, b, c) /\ Submitted' = Submitted \union {p} /\ p \notin Submitted
  BY <1>inv, <1>1, SubmitMakes
<1>3. OthersSame(a, b, c)
  BY <1>inv, <1>1, SubmitLeaves
<1>4. pc[p] = "alloc" /\ pc' = [pc EXCEPT ![p] = "sleep_b"] /\ moved' = moved /\ arg' = arg
  BY <1>1 DEF Takes
<1>5. Phase(p) = "pending" /\ Phase(p)' = "pending"
  <2>1. First(p)' = a /\ info'[a] = [b |-> p, status |-> Pending]
    BY <1>2 DEF NewChain
  <2>2. pc'[p] = "sleep_b"
    BY <1>inv, <1>4 DEF TypeOK
  <2>3. info'[First(p)'].status # 0 /\ pc[p] # "out" /\ pc'[p] # "out"
    <3> DEFINE i == [b |-> p, status |-> Pending]
    <3>1. i.status = Pending
      OBVIOUS
    <3>2. info'[First(p)'] = i
      BY <2>1
    <3> HIDE DEF i
    <3> QED  BY <1>4, <2>2, <3>1, <3>2, Sizes
  <2> QED  BY <1>2, <2>3, PhaseIs
<1>6. \A q \in Procs \ {p} : Phase(q)' = Phase(q)
  <2>1. \A q \in Procs \ {p} : pc'[q] = pc[q]
    BY <1>inv, <1>4 DEF TypeOK
  <2>2. \A q \in Procs \ {p} : SamePlace(q)
    BY <1>2, <1>3, <2>1 DEF SamePlace, OthersSame
  <2> QED  BY <2>2, PhaseIs DEF SamePlace
<1> QED  BY <1>4, <1>5, <1>6 DEF Atomic!vars

(* So are waiting for descriptors, waking up for nothing, kill(), and the  *)
(* handler's steps.                                                        *)
LEMMA OthersNotSeen ==
  ASSUME VirtioInv,
         \/ \E p \in Procs : no_desc(p) \/ still_busy(p) \/ kill(p)
         \/ HandlerNext
         \/ fetch
         \/ UNCHANGED vars
  PROVE  UNCHANGED Atomic!vars
<1>inv. TypeOK
  BY DEF VirtioInv
<1>1. CASE \E p \in Procs : no_desc(p)
  <2>1. moved' = moved /\ arg' = arg /\ info' = info /\ head' = head
    BY <1>1 DEF no_desc
  <2>2. \A q \in Procs : \/ pc'[q] = pc[q]
                         \/ pc[q] \in {"alloc", "sleep_free"} /\ pc'[q] \in {"alloc", "sleep_free"}
    BY SMTT(30), <1>inv, <1>1 DEF no_desc, wakeup_free, TypeOK
  <2> QED  BY <2>1, <2>2, SleepersStay, NotSeen
<1>2. CASE \E p \in Procs : still_busy(p) \/ kill(p)
  <2>1. moved' = moved /\ arg' = arg /\ info' = info /\ head' = head
    BY <1>2 DEF still_busy, kill, driver
  <2>2. \A q \in Procs : \/ pc'[q] = pc[q]
                         \/ pc[q] \in {"alloc", "sleep_free"} /\ pc'[q] \in {"alloc", "sleep_free"}
                         \/ pc[q] \in {"sleep_b", "check"} /\ pc'[q] \in {"sleep_b", "check"}
    BY SMTT(30), <1>inv, <1>2 DEF still_busy, kill, goto, TypeOK
  <2> QED  BY <2>1, <2>2, SleepersStay, NotSeen
<1>3. CASE intr_one
  <2>1. moved' = moved /\ arg' = arg /\ info' = info /\ head' = head
    BY <1>3 DEF intr_one
  <2>2. \A q \in Procs : \/ pc'[q] = pc[q]
                         \/ pc[q] \in {"sleep_b", "check"} /\ pc'[q] \in {"sleep_b", "check"}
    <3>1. pc' = [pc EXCEPT ![info[used[used_idx % NUM]].b] = IF @ = "sleep_b" THEN "check" ELSE @]
      BY <1>3 DEF intr_one
    <3>2. pc \in [Procs -> {"out", "alloc", "sleep_free", "sleep_b", "check"}]
      BY <1>inv DEF TypeOK
    <3> QED  BY <3>1, <3>2
  <2> QED  BY <2>1, <2>2, SleepersStay, NotSeen
<1>4. CASE intr_ack \/ intr_done \/ fetch \/ UNCHANGED vars
  <2>1. moved' = moved /\ arg' = arg /\ info' = info /\ head' = head /\ pc' = pc
    BY <1>4 DEF intr_ack, intr_done, fetch, vars, driver
  <2> QED  BY <2>1, SleepersStay, NotSeen
<1> QED  BY <1>1, <1>2, <1>3, <1>4 DEF HandlerNext

(* Each step of the driver and the device is a step of the atomic disk, or *)
(* is not seen.                                                            *)
LEMMA AtomicStep == VirtioInv /\ [Next]_vars => [Atomic!Next]_(Atomic!vars)
<1> SUFFICES ASSUME VirtioInv, [Next]_vars PROVE [Atomic!Next]_(Atomic!vars)
  OBVIOUS
<1>1. ASSUME NEW p \in Procs, NEW w \in BOOLEAN, NEW k \in Blocks, virtio_disk_rw(p, w, k)
      PROVE  Atomic!Next
  BY <1>1, RwCalls DEF Atomic!Next
<1>2. ASSUME NEW p \in Procs, finish(p) PROVE Atomic!Next
  BY <1>2, FinishReturns DEF Atomic!Next
<1>3. ASSUME NEW h \in inflight, complete(h) PROVE Atomic!Next
  BY <1>3, CompleteTransfers DEF Atomic!Next
<1> QED  BY <1>1, <1>2, <1>3, SubmitNotSeen, OthersNotSeen DEF Next, CallerNext, DeviceNext

(* Whatever the order in which the device completes requests, however many *)
(* callers share the descriptors and whoever is woken early: each call     *)
(* moves its own block to or from its own buffer, once, before it returns. *)
THEOREM DiskRefinesAtomic == Spec => DiskIsAtomic
<1>1. Init => Atomic!Init
  BY SMT DEF Init, NoReq, Phase, Submitted, Atomic!Init, Atomic!NoReq
<1> QED  BY <1>1, VirtioInvariant, AtomicStep, PTL DEF Spec, DiskIsAtomic, Atomic!Spec
=============================================================================
