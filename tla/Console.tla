------------------------------ MODULE Console -------------------------------
(***************************************************************************)
(* The input half of kernel/console.c: the ring of typed characters, its   *)
(* editing by the interrupt handler, and the processes that read lines.    *)
(*                                                                         *)
(* r, w and e are C uints that wrap at ConsUint.  cons.lock is held by     *)
(* consoleintr() from its first to its last statement, and by consoleread()*)
(* except while it sleeps: each handler run, and each round of the reader's*)
(* loop, is one action.  Echoing is in module Uart.                        *)
(***************************************************************************)
EXTENDS Naturals, Sequences

CONSTANTS
  Readers,
  NoReader,         \* nobody holds cons.lock
  Chars, NL, EOF,   \* what is stored: other characters, '\n' and C('D')
  INPUT_BUF_SIZE,
  ConsUint,         \* 2^32
  MaxRead           \* bound on the length of a read()

ASSUME ConsoleConstants ==
  /\ INPUT_BUF_SIZE \in Nat \ {0} /\ MaxRead \in Nat /\ NoReader \notin Readers
  /\ ConsUint \in Nat /\ ConsUint > INPUT_BUF_SIZE /\ ConsUint % INPUT_BUF_SIZE = 0

VARIABLES
  cons,             \* buf, r, w and e
  conslock,         \* the reader inside its loop
  rd                \* the readers: place, n, target and p->killed

consvars == <<cons, conslock, rd>>

add(x, y) == (x + y) % ConsUint
sub(x, y) == (x + ConsUint - y) % ConsUint

Outside == [pc |-> "out", n |-> 0, target |-> 0, killed |-> FALSE]

ConsInit ==
  /\ cons = [buf |-> [i \in 0..INPUT_BUF_SIZE - 1 |-> NL], r |-> 0, w |-> 0, e |-> 0]
  /\ conslock = NoReader
  /\ rd = [p \in Readers |-> Outside]

woken == [p \in Readers |-> IF rd[p].pc = "asleep" THEN [rd[p] EXCEPT !.pc = "woken"] ELSE rd[p]]

\* consoleintr(), the default case; '\r' has become NL.
stored_full(k, c) ==
  LET e1 == add(k.e, 1) IN
  [k EXCEPT !.buf[k.e % INPUT_BUF_SIZE] = c, !.e = e1, !.w = IF c \in {NL, EOF} THEN e1 ELSE @]
stored(k, c) ==
  LET e1 == add(k.e, 1) IN
  [k EXCEPT !.buf[k.e % INPUT_BUF_SIZE] = c, !.e = e1,
            !.w = IF c \in {NL, EOF} \/ sub(e1, k.r) = INPUT_BUF_SIZE THEN e1 ELSE @]
intr_char(c) ==
  /\ conslock = NoReader
  /\ sub(cons.e, cons.r) < INPUT_BUF_SIZE
  /\ cons' = stored(cons, c)
  /\ rd' = IF cons'.w # cons.w THEN woken ELSE rd
  /\ UNCHANGED conslock

\* C('H') and delete: one character of the unfinished line.
intr_erase ==
  /\ conslock = NoReader
  /\ cons.e # cons.w
  /\ cons' = [cons EXCEPT !.e = sub(@, 1)]
  /\ UNCHANGED <<conslock, rd>>

\* C('U'): back to w or to a '\n', whichever comes first.
erasable_past(k) == {n \in 1..INPUT_BUF_SIZE : \A i \in 1..n : k.buf[sub(k.e, i) % INPUT_BUF_SIZE] # NL}
erasable(k) ==
  {n \in 1..INPUT_BUF_SIZE :
     \A i \in 1..n : sub(k.e, i - 1) # k.w /\ k.buf[sub(k.e, i) % INPUT_BUF_SIZE] # NL}
intr_kill_line ==
  /\ conslock = NoReader
  /\ erasable(cons) # {}
  /\ cons' = [cons EXCEPT !.e = sub(@, CHOOSE n \in erasable(cons) : n + 1 \notin erasable(cons))]
  /\ UNCHANGED <<conslock, rd>>

\* consoleread() takes cons.lock, at first and after every sleep().
read_enter(p) ==
  /\ conslock = NoReader
  /\ \/ /\ rd[p].pc = "out"
        /\ \E n \in 1..MaxRead : rd' = [rd EXCEPT ![p].pc = "loop", ![p].n = n, ![p].target = n]
     \/ rd[p].pc = "woken" /\ rd' = [rd EXCEPT ![p].pc = "loop"]
  /\ conslock' = p
  /\ UNCHANGED cons

\* Nothing complete to read: give up when killed, sleep otherwise.  A kill()
\* between the test in killed() and sleep()'s acquire(&p->lock) wakes nobody.
read_wait(p) ==
  /\ conslock = p /\ rd[p].n > 0
  /\ cons.r = cons.w
  /\ \E late_kill \in BOOLEAN :
       rd' = [rd EXCEPT ![p] = IF @.killed THEN Outside ELSE [@ EXCEPT !.pc = "asleep", !.killed = late_kill]]
  /\ conslock' = NoReader
  /\ UNCHANGED cons

\* One character: C('D') ends the read and stays if something was read; a
\* '\n', or a copyout that fails, ends it too.
read_char(p) ==
  LET c == cons.buf[cons.r % INPUT_BUF_SIZE]
      kept == c = EOF /\ rd[p].n < rd[p].target IN
  /\ conslock = p /\ rd[p].n > 0
  /\ cons.r # cons.w
  /\ cons' = [cons EXCEPT !.r = IF kept THEN @ ELSE add(@, 1)]
  /\ \/ conslock' = NoReader /\ rd' = [rd EXCEPT ![p] = Outside]
     \/ /\ c \notin {EOF, NL}
        /\ rd' = [rd EXCEPT ![p].n = @ - 1]
        /\ UNCHANGED conslock

read_end(p) ==
  /\ conslock = p /\ rd[p].n = 0
  /\ conslock' = NoReader /\ rd' = [rd EXCEPT ![p] = Outside]
  /\ UNCHANGED cons

\* kill() from another CPU; a second one only matters to a sleeper.
read_kill(p) ==
  /\ rd[p].pc # "out" /\ (rd[p].killed => rd[p].pc = "asleep")
  /\ rd' = [rd EXCEPT ![p].killed = TRUE, ![p].pc = IF @ = "asleep" THEN "woken" ELSE @]
  /\ UNCHANGED <<cons, conslock>>

ConsNext ==
  \/ \E c \in Chars \union {NL, EOF} : intr_char(c)
  \/ intr_erase \/ intr_kill_line
  \/ \E p \in Readers : read_enter(p) \/ read_wait(p) \/ read_char(p) \/ read_end(p) \/ read_kill(p)

-----------------------------------------------------------------------------
ring(from, to) == [i \in 1..sub(to, from) |-> cons.buf[add(from, i - 1) % INPUT_BUF_SIZE]]

Lines == INSTANCE LineDiscipline
           WITH Size <- INPUT_BUF_SIZE, ready <- ring(cons.r, cons.w), line <- ring(cons.w, cons.e)

(* consoleintr() and consoleread() implement the line discipline across the  *)
(* wrapping of the ring and of its indices: C('U') and backspace stop at the *)
(* text already handed over, nothing typed is lost, repeated or reordered,   *)
(* and a full ring is handed over although its line has not ended.           *)
ConsoleIsLineDiscipline == Lines!Spec

(* A reader sleeps only while there is nothing complete to read, also when   *)
(* another reader took what it was woken for; and the ring is never full of  *)
(* text that no reader may have, which would refuse every further character. *)
ReaderAwake ==
  /\ \A p \in Readers : rd[p].pc = "asleep" => cons.r = cons.w
  /\ sub(cons.e, cons.r) = INPUT_BUF_SIZE => cons.w = cons.e
=============================================================================
