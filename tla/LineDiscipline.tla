--------------------------- MODULE LineDiscipline ---------------------------
(* What the console promises its readers: the line being typed can be edited, *)
(* and is handed over, whole and in order, when it ends or fills the buffer.  *)
EXTENDS Naturals, Sequences

CONSTANTS Chars, NL, EOF, Size

VARIABLES
  ready,     \* handed over and not yet read
  line       \* being typed

vars == <<ready, line>>

Init == ready = <<>> /\ line = <<>>

Type ==
  \E c \in Chars \union {NL, EOF} :
    /\ Len(ready) + Len(line) < Size
    /\ IF c \in {NL, EOF} \/ Len(ready) + Len(line) + 1 = Size
       THEN ready' = ready \o Append(line, c) /\ line' = <<>>
       ELSE line' = Append(line, c) /\ UNCHANGED ready

Erase == line # <<>> /\ line' = SubSeq(line, 1, Len(line) - 1) /\ UNCHANGED ready
Kill == line # <<>> /\ line' = <<>> /\ UNCHANGED ready
Read == ready # <<>> /\ ready' = Tail(ready) /\ UNCHANGED line

Spec == Init /\ [][Type \/ Erase \/ Kill \/ Read]_vars
=============================================================================
