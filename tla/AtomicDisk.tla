----------------------------- MODULE AtomicDisk -----------------------------
(***************************************************************************)
(* What virtio_disk_rw() promises: each call moves one block between the   *)
(* disk and the buffer it was given, once, between the call and the return.*)
(***************************************************************************)
CONSTANTS Procs, Blocks, NoBlock, NoTransfer

VARIABLES
  req,      \* req[p]: the call p has made; p also stands for its buffer
  moved     \* the transfer the disk made last

vars == <<req, moved>>

NoReq == [phase |-> "idle", write |-> FALSE, k |-> NoBlock]

Init == req = [p \in Procs |-> NoReq] /\ moved = NoTransfer

Call(p) ==
  /\ req[p] = NoReq
  /\ \E w \in BOOLEAN, k \in Blocks :
       req' = [req EXCEPT ![p] = [phase |-> "pending", write |-> w, k |-> k]]
  /\ UNCHANGED moved

Transfer(p) ==
  /\ req[p].phase = "pending"
  /\ req' = [req EXCEPT ![p].phase = "done"]
  /\ moved' = [buf |-> p, write |-> req[p].write, k |-> req[p].k]

Return(p) ==
  /\ req[p].phase = "done"
  /\ req' = [req EXCEPT ![p] = NoReq]
  /\ UNCHANGED moved

Next == \E p \in Procs : Call(p) \/ Transfer(p) \/ Return(p)

Spec == Init /\ [][Next]_vars
=============================================================================
