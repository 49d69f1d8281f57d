------------------------------ MODULE MCVirtio ------------------------------
(* Three callers and two chains of descriptors, so that one of them waits. *)
EXTENDS Virtio, TLC

Symmetry == Permutations(Procs) \union Permutations(Blocks)

(* Two states that differ only in what nobody reads again are the same:     *)
(* ring entries already consumed, the headers of free descriptors, the      *)
(* local variable of a call that has returned, and the last transfer.       *)
Live(ring, from, to) ==
  [n \in 0..((to + U16 - from) % U16) - 1 |-> ring[(from + n) % NUM]]
View ==
  <<busy, free, desc, info, irq, handler, pc, arg, inflight,
    [p \in Submitted |-> head[p]],
    [d \in Descs |-> IF free[d] THEN NoReq ELSE op[d]],
    availIdx, Live(avail, fetched, availIdx), usedIdx, Live(used, used_idx, usedIdx)>>
=============================================================================
