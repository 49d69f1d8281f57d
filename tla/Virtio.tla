------------------------------- MODULE Virtio -------------------------------
(***************************************************************************)
(* kernel/virtio_disk.c: the driver of the virtio disk, with the device.   *)
(*                                                                         *)
(* A critical section of disk.vdisk_lock is one action, except the         *)
(* interrupt handler, which races with the device: its acknowledgement,    *)
(* each iteration of its loop and its end are separate steps.  The device  *)
(* fetches requests in order and completes them in any order, as the       *)
(* virtio specification allows; it reads the descriptors when it completes *)
(* a request.  What it transfers is recorded instead of the data: which    *)
(* buffer, in which direction, which block.  Each process works on a       *)
(* buffer of its own, and bio.c's sleep-locks keep two processes off the   *)
(* same block.  sleep() and wakeup() are atomic with the lock, as module   *)
(* Proc justifies.                                                         *)
(***************************************************************************)
EXTENDS Integers, FiniteSets

CONSTANTS
  Procs, Blocks,
  NoBlock,
  NoTransfer,    \* the device has not moved anything yet
  NoBuf,         \* a null buffer pointer
  NUM,           \* virtio.h: descriptors, and entries of each ring
  U16            \* 2^16: where the ring indices wrap

ASSUME VirtioConstants ==
  /\ NUM \in Nat /\ NUM >= 3
  /\ U16 \in Nat /\ U16 > 0 /\ U16 % NUM = 0
  /\ NoBlock \notin Blocks /\ NoBuf \notin Procs

Descs == 0..NUM - 1
NoReq == [write |-> FALSE, k |-> NoBlock]
NullDesc == [buf |-> NoBuf, more |-> FALSE, next |-> 0]
Pending == 255   \* info[].status before the device writes 0

VARIABLES
  moved,         \* the transfer the device made last: buffer, direction, block
  busy,          \* busy[p]: b->disk
  free, desc,    \* disk.free, disk.desc
  op,            \* op[i]: disk.ops[i]
  info,          \* info[i]: disk.info[i]
  avail, availIdx,     \* the available ring and its idx
  used, usedIdx,       \* the used ring and its idx
  used_idx,      \* disk.used_idx: how far the driver has looked
  fetched,       \* the device: how far it has looked in the available ring
  inflight,      \* the device: heads of the chains it is working on
  irq,           \* the device: its interrupt is asserted
  handler,       \* virtio_disk_intr() is running, and has vdisk_lock
  pc,
  arg,           \* arg[p]: the transfer p has asked for
  head           \* head[p]: virtio_disk_rw()'s idx[0]

driver == <<busy, free, desc, op, info, avail, availIdx, used_idx>>
device == <<used, usedIdx, fetched, inflight, irq>>
vars == <<moved, busy, free, desc, op, info, avail, availIdx, used, usedIdx,
          used_idx, fetched, inflight, irq, handler, pc, arg, head>>

goto(p, a) == pc' = [pc EXCEPT ![p] = a]
\* wakeup(&disk.free[0])
wakeup_free(f) == [q \in Procs |-> IF f[q] = "sleep_free" THEN "alloc" ELSE f[q]]

(* virtio_disk_init()                                                       *)
Init ==
  /\ moved = NoTransfer
  /\ busy = [p \in Procs |-> FALSE]
  /\ free = [d \in Descs |-> TRUE]
  /\ desc = [d \in Descs |-> NullDesc]
  /\ op = [d \in Descs |-> NoReq]
  /\ info = [d \in Descs |-> [b |-> NoBuf, status |-> 0]]
  /\ avail = [d \in Descs |-> 0] /\ availIdx = 0
  /\ used = [d \in Descs |-> 0] /\ usedIdx = 0 /\ used_idx = 0
  /\ fetched = 0 /\ inflight = {} /\ irq = FALSE
  /\ handler = FALSE
  /\ pc = [p \in Procs |-> "out"]
  /\ arg = [p \in Procs |-> NoReq]
  /\ head = [p \in Procs |-> 0]

-----------------------------------------------------------------------------
(* virtio_disk_rw()                                                        *)

(* The call, for a block whose buffer bio.c has locked.                     *)
virtio_disk_rw(p, w, k) ==
  /\ pc[p] = "out"
  /\ \A q \in Procs : arg[q].k # k
  /\ arg' = [arg EXCEPT ![p] = [write |-> w, k |-> k]]
  /\ goto(p, "alloc")
  /\ UNCHANGED <<moved, driver, device, handler, head>>

FreeDescs == {d \in Descs : free[d]}
Lowest(S) == CHOOSE d \in S : \A e \in S : d <= e

(* alloc3_desc() succeeds: the chain is formatted and made available, and   *)
(* the caller sleeps until b->disk is cleared.                              *)
submit(p) ==
  LET a == Lowest(FreeDescs)
      b == Lowest(FreeDescs \ {a})
      c == Lowest(FreeDescs \ {a, b})
  IN
  /\ pc[p] = "alloc" /\ ~handler
  /\ Cardinality(FreeDescs) >= 3
  /\ free' = [free EXCEPT ![a] = FALSE, ![b] = FALSE, ![c] = FALSE]
  /\ op' = [op EXCEPT ![a] = arg[p]]
  /\ desc' = [desc EXCEPT ![a] = [buf |-> NoBuf, more |-> TRUE, next |-> b],
                         ![b] = [buf |-> p, more |-> TRUE, next |-> c],
                         ![c] = NullDesc]
  /\ info' = [info EXCEPT ![a] = [b |-> p, status |-> Pending]]
  /\ busy' = [busy EXCEPT ![p] = TRUE]
  /\ avail' = [avail EXCEPT ![availIdx % NUM] = a]
  /\ availIdx' = (availIdx + 1) % U16
  /\ head' = [head EXCEPT ![p] = a]
  /\ goto(p, "sleep_b")
  /\ UNCHANGED <<moved, used_idx, device, handler, arg>>

(* alloc3_desc() fails: what it took it gives back, one free_desc() each,   *)
(* which wakes the others that wait for descriptors; the caller sleeps.     *)
no_desc(p) ==
  /\ pc[p] = "alloc" /\ ~handler
  /\ Cardinality(FreeDescs) < 3
  /\ desc' = [d \in Descs |-> IF free[d] THEN NullDesc ELSE desc[d]]
  /\ pc' = [(IF FreeDescs = {} THEN pc ELSE wakeup_free(pc)) EXCEPT ![p] = "sleep_free"]
  /\ UNCHANGED <<moved, busy, free, op, info, avail, availIdx, used_idx,
                 device, handler, arg, head>>

(* A caller woken while b->disk is still set sleeps again.                  *)
still_busy(p) ==
  /\ pc[p] = "check" /\ ~handler
  /\ busy[p]
  /\ goto(p, "sleep_b")
  /\ UNCHANGED <<moved, driver, device, handler, arg, head>>

\* The descriptors free_chain(d) walks over: the last one has no NEXT flag.
Chain(d) ==
  LET e == desc[d].next IN
  {d} \union (IF desc[d].more THEN {e} ELSE {})
      \union (IF desc[d].more /\ desc[e].more THEN {desc[e].next} ELSE {})

\* The return from virtio_disk_rw(), but for what free_chain() frees and whom
\* it wakes; free_chain()'s panics are the guard.
Returns(p) ==
  /\ pc[p] = "check" /\ ~handler
  /\ \A d \in Chain(head[p]) : ~free[d]
  /\ info' = [info EXCEPT ![head[p]].b = NoBuf]
  /\ desc' = [d \in Descs |-> IF d \in Chain(head[p]) THEN NullDesc ELSE desc[d]]
  /\ pc' = [wakeup_free(pc) EXCEPT ![p] = "out"]
  /\ arg' = [arg EXCEPT ![p] = NoReq]
  /\ UNCHANGED <<moved, busy, op, avail, availIdx, used_idx, device, handler, head>>

\* Mutants of finish: b->disk is not tested again after sleep(); only the first
\* descriptor is freed.
finish_early(p) ==
  /\ Returns(p)
  /\ free' = [d \in Descs |-> free[d] \/ d \in Chain(head[p])]

finish_leaks(p) ==
  /\ ~busy[p]
  /\ Returns(p)
  /\ free' = [free EXCEPT ![head[p]] = TRUE]

(* b->disk is clear: free_chain() and return.                               *)
finish(p) ==
  /\ ~busy[p]
  /\ Returns(p)
  /\ free' = [d \in Descs |-> free[d] \/ d \in Chain(head[p])]

(* kill() makes a sleeper runnable before its time.                         *)
kill(p) ==
  /\ \/ pc[p] = "sleep_b" /\ goto(p, "check")
     \/ pc[p] = "sleep_free" /\ goto(p, "alloc")
  /\ UNCHANGED <<moved, driver, device, handler, arg, head>>

-----------------------------------------------------------------------------
(* virtio_disk_intr()                                                      *)

intr_ack ==
  /\ irq /\ ~handler
  /\ handler' = TRUE
  /\ irq' = FALSE
  /\ UNCHANGED <<moved, driver, used, usedIdx, fetched, inflight, pc, arg, head>>

(* One used entry; a status other than 0 is a panic.                        *)
intr_one ==
  LET id == used[used_idx % NUM]
      b == info[id].b
  IN
  /\ handler
  /\ used_idx # usedIdx
  /\ info[id].status = 0
  /\ busy' = [busy EXCEPT ![b] = FALSE]
  /\ pc' = [pc EXCEPT ![b] = IF @ = "sleep_b" THEN "check" ELSE @]
  /\ used_idx' = (used_idx + 1) % U16
  /\ UNCHANGED <<moved, free, desc, op, info, avail, availIdx, device, handler, arg, head>>

\* Mutant of intr_done: the loop over the used ring is an if.
intr_done_once ==
  /\ handler
  /\ handler' = FALSE
  /\ UNCHANGED <<moved, driver, device, pc, arg, head>>

intr_done ==
  /\ handler
  /\ used_idx = usedIdx
  /\ handler' = FALSE
  /\ UNCHANGED <<moved, driver, device, pc, arg, head>>

-----------------------------------------------------------------------------
(* The device (external): QEMU's virtio-blk.                                *)

fetch ==
  /\ fetched # availIdx
  /\ inflight' = inflight \union {avail[fetched % NUM]}
  /\ fetched' = (fetched + 1) % U16
  /\ UNCHANGED <<moved, driver, used, usedIdx, irq, handler, pc, arg, head>>

complete(h) ==
  /\ h \in inflight
  /\ moved' = [buf |-> desc[desc[h].next].buf, write |-> op[h].write, k |-> op[h].k]
  /\ info' = [info EXCEPT ![h].status = 0]
  /\ used' = [used EXCEPT ![usedIdx % NUM] = h]
  /\ usedIdx' = (usedIdx + 1) % U16
  /\ irq' = TRUE
  /\ inflight' = inflight \ {h}
  /\ UNCHANGED <<busy, free, desc, op, avail, availIdx, used_idx, fetched,
                 handler, pc, arg, head>>

-----------------------------------------------------------------------------
\* The steps of a process that is not asleep.
CallerNext(p) == submit(p) \/ no_desc(p) \/ still_busy(p) \/ finish(p)
HandlerNext == intr_ack \/ intr_one \/ intr_done
DeviceNext == fetch \/ \E h \in inflight : complete(h)

Next ==
  \/ \E p \in Procs :
       \/ \E w \in BOOLEAN, k \in Blocks : virtio_disk_rw(p, w, k)
       \/ CallerNext(p)
       \/ kill(p)
  \/ HandlerNext
  \/ DeviceNext

Spec == Init /\ [][Next]_vars

-----------------------------------------------------------------------------
Indices == 0..U16 - 1
Reqs == [write : BOOLEAN, k : Blocks \union {NoBlock}]

TypeOK ==
  /\ moved \in {NoTransfer} \union [buf : Procs, write : BOOLEAN, k : Blocks]
  /\ busy \in [Procs -> BOOLEAN]
  /\ free \in [Descs -> BOOLEAN]
  /\ desc \in [Descs -> [buf : Procs \union {NoBuf}, more : BOOLEAN, next : Descs]]
  /\ op \in [Descs -> Reqs]
  /\ info \in [Descs -> [b : Procs \union {NoBuf}, status : {0, Pending}]]
  /\ avail \in [Descs -> Descs] /\ used \in [Descs -> Descs]
  /\ {availIdx, usedIdx, used_idx, fetched} \subseteq Indices
  /\ inflight \subseteq Descs
  /\ {irq, handler} \subseteq BOOLEAN
  /\ pc \in [Procs -> {"out", "alloc", "sleep_free", "sleep_b", "check"}]
  /\ arg \in [Procs -> Reqs]
  /\ head \in [Procs -> Descs]

\* Processes whose request has descriptors.
Submitted == {p \in Procs : pc[p] \in {"sleep_b", "check"}}

\* virtio_disk_rw() is atomic: the device, the descriptors and the rings move
\* each request's data once, between its own buffer and its own block, before
\* the call returns, whatever completes out of order or wakes up early.
Phase(p) ==
  CASE pc[p] = "out" -> "idle"
    [] p \in Submitted /\ info[head[p]].status = 0 -> "done"
    [] OTHER -> "pending"
Atomic == INSTANCE AtomicDisk WITH
  req <- [p \in Procs |-> [phase |-> Phase(p), write |-> arg[p].write, k |-> arg[p].k]]
DiskIsAtomic == Atomic!Spec

\* The entries of the used ring that the handler has still to look at.
unseen == (usedIdx + U16 - used_idx) % U16

\* alloc3_desc(), free_chain() and the panics of free_desc(): the chains of
\* the requests under way have three descriptors each, are disjoint, and with
\* the free descriptors are all there are.  virtio_disk.c:290: every entry of
\* the used ring that the handler has still to look at is a finished request
\* whose caller is waiting for it, and the ring holds no more of them than it
\* has entries.
DescsAccounted ==
  /\ TypeOK
  /\ \A p \in Submitted : Cardinality(Chain(head[p])) = 3
  /\ \A p, q \in Submitted : p # q => Chain(head[p]) \intersect Chain(head[q]) = {}
  /\ FreeDescs = Descs \ UNION {Chain(head[p]) : p \in Submitted}
  /\ unseen <= NUM
  /\ \A n \in 0..unseen - 1 :
       LET id == used[(used_idx + n) % NUM] IN
       /\ info[id].status = 0
       /\ info[id].b \in Submitted /\ busy[info[id].b] /\ head[info[id].b] = id

\* virtio_disk.c:273-278, the acknowledgement that "may race with the device
\* writing new entries" is "harmless": an entry nobody has looked at has an
\* interrupt to come, or the handler is still in its loop.  virtio_disk.c:204-209
\* and :260-262: nobody sleeps for descriptors while three are free, or on a
\* buffer the disk is done with.
SleepersJustified ==
  /\ used_idx # usedIdx => irq \/ handler
  /\ \A p \in Procs :
       /\ pc[p] = "sleep_free" => Cardinality(FreeDescs) < 3
       /\ pc[p] = "sleep_b" => busy[p]
=============================================================================
