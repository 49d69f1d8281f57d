----------------------------- MODULE ByteQueue -----------------------------
(* What a pipe promises: a bounded queue of bytes, taken in the order in    *)
(* which they were put.                                                     *)
EXTENDS Naturals, Sequences

CONSTANTS Bytes, Size

VARIABLES
  queue,
  taken     \* the byte taken last

vars == <<queue, taken>>

Init == queue = << >> /\ taken \in Bytes

Put == /\ Len(queue) < Size
       /\ \E v \in Bytes : queue' = Append(queue, v)
       /\ UNCHANGED taken

Take == /\ queue # << >>
        /\ taken' = Head(queue)
        /\ queue' = Tail(queue)

Spec == Init /\ [][Put \/ Take]_vars
=============================================================================
