----------------------------- MODULE BlockStore -----------------------------
(***************************************************************************)
(* What the buffer cache promises its clients: each disk block has one     *)
(* current content, whoever obtains a block sees the content the last      *)
(* holder left, and a block has at most one holder at a time.              *)
(***************************************************************************)
CONSTANTS Procs, Blocks, Values, NoBlock, NoValue

VARIABLES
  mem,     \* mem[k]: the content of block k
  holds,   \* holds[p]: the block p has obtained, or NoBlock
  sees     \* sees[p]: the content p finds in it, or NoValue

vars == <<mem, holds, sees>>

Init ==
  /\ mem \in [Blocks -> Values]
  /\ holds = [p \in Procs |-> NoBlock]
  /\ sees = [p \in Procs |-> NoValue]

Get(p, k) ==
  /\ holds[p] = NoBlock
  /\ \A q \in Procs : holds[q] # k
  /\ holds' = [holds EXCEPT ![p] = k]
  /\ sees' = [sees EXCEPT ![p] = mem[k]]
  /\ UNCHANGED mem

Change(p, v) ==
  /\ holds[p] # NoBlock
  /\ mem' = [mem EXCEPT ![holds[p]] = v]
  /\ sees' = [sees EXCEPT ![p] = v]
  /\ UNCHANGED holds

Put(p) ==
  /\ holds[p] # NoBlock
  /\ holds' = [holds EXCEPT ![p] = NoBlock]
  /\ sees' = [sees EXCEPT ![p] = NoValue]
  /\ UNCHANGED mem

Next ==
  \E p \in Procs :
    \/ \E k \in Blocks : Get(p, k)
    \/ \E v \in Values : Change(p, v)
    \/ Put(p)

Spec == Init /\ [][Next]_vars
=============================================================================
