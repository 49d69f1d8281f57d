------------------------------ MODULE TxnDisk ------------------------------
(***************************************************************************)
(* What the log promises to the file system code above it: a disk whose    *)
(* contents change by whole transactions.  File-system operations run      *)
(* between begin_op() and end_op() and write blocks of the current image.  *)
(* The durable image is replaced by the current one in a single step, and  *)
(* only while no operation is under way; a crash puts the current image    *)
(* back to the durable one.                                                *)
(***************************************************************************)
CONSTANTS Procs, Blocks, Values

VARIABLES durable,   \* what a reboot would find
          current,   \* what a read through the buffer cache returns
          active     \* the operations between begin_op() and end_op()

vars == <<durable, current, active>>

Init ==
  /\ durable \in [Blocks -> Values]
  /\ current = durable
  /\ active = {}

Begin(p) ==
  /\ p \notin active
  /\ active' = active \union {p}
  /\ UNCHANGED <<durable, current>>

Write(p, b, v) ==
  /\ p \in active
  /\ current' = [current EXCEPT ![b] = v]
  /\ UNCHANGED <<durable, active>>

End(p) ==
  /\ p \in active
  /\ active' = active \ {p}
  /\ UNCHANGED <<durable, current>>

Commit ==
  /\ active = {}
  /\ durable' = current
  /\ UNCHANGED <<current, active>>

Crash ==
  /\ current' = durable
  /\ active' = {}
  /\ UNCHANGED durable

Next ==
  \/ \E p \in Procs : Begin(p) \/ End(p)
  \/ \E p \in Procs, b \in Blocks, v \in Values : Write(p, b, v)
  \/ Commit
  \/ Crash

Spec == Init /\ [][Next]_vars
=============================================================================
