-------------------------------- MODULE Uart --------------------------------
(***************************************************************************)
(* kernel/uart.c with the transmitting half of kernel/console.c, the UART  *)
(* interrupt's way through devintr() and the PLIC, and the 16550 itself.   *)
(*                                                                         *)
(* Writers are processes in write(); they and the interrupt handler send   *)
(* through the ring uart_tx_buf, under uart_tx_lock.  printf() and the     *)
(* echo of the handler write the register directly, without that lock.  A  *)
(* read and a write of a device register are actions of their own.         *)
(* Interrupts reach one handler at a time: the PLIC hands the UART's out   *)
(* again only after plic_complete().                                       *)
(***************************************************************************)
EXTENDS Naturals, Sequences

CONSTANTS
  Writers,
  Free,              \* uart_tx_lock is free
  Out,               \* characters that write() sends
  UART_TX_BUF_SIZE,
  TxUint,            \* 2^64: where uart_tx_r and uart_tx_w wrap
  FIFO,              \* the depth of the device's transmit FIFO
  RxMax,             \* bound on received characters that wait in the device
  EchoMax            \* bound on the characters echoed for one received

ASSUME UartConstants ==
  /\ UART_TX_BUF_SIZE \in Nat \ {0}
  /\ TxUint \in Nat /\ TxUint > UART_TX_BUF_SIZE /\ TxUint % UART_TX_BUF_SIZE = 0
  /\ FIFO \in Nat /\ FIFO >= 3 /\ RxMax \in Nat /\ EchoMax \in Nat
  /\ Free \notin Writers \union {"intr"} /\ "intr" \notin Writers

VARIABLES
  tx,        \* uart_tx_buf, uart_tx_r and uart_tx_w
  txlock,    \* uart_tx_lock: a writer, "intr" or Free
  wr,        \* the writers: place and character
  intr,      \* the handler: place and characters still to echo
  prt,       \* printf()'s place: "out", or "thr" once the register was seen idle
  dev,       \* the device: characters in its FIFO and received, transmit interrupt
  sent       \* the character uartstart() last took from the ring

uartvars == <<tx, txlock, wr, intr, prt, dev, sent>>

dead == CHOOSE x \in Out : TRUE     \* a character that is not read again

UartInit ==
  /\ tx = [buf |-> [i \in 0..UART_TX_BUF_SIZE - 1 |-> dead], r |-> 0, w |-> 0]
  /\ txlock = Free
  /\ wr = [p \in Writers |-> [pc |-> "out", c |-> dead]]
  /\ intr = [pc |-> "none", echo |-> 0]
  /\ prt = "out"
  /\ dev = [fifo |-> 0, rx |-> 0, thri |-> FALSE]
  /\ sent \in Out

txadd(x, y) == (x + y) % TxUint
txfull_off_by_one(t) == t.w = txadd(t.r, UART_TX_BUF_SIZE + 1)
txfull(t) == t.w = txadd(t.r, UART_TX_BUF_SIZE)
queued == (tx.w + TxUint - tx.r) % TxUint

idle == dev.fifo = 0                       \* ReadReg(LSR) & LSR_TX_IDLE
WriteTHR == dev' = [dev EXCEPT !.fifo = @ + 1, !.thri = FALSE]
\* Reading ISR withdraws the transmit interrupt, unless it reports a received character.
ReadISR == dev' = [dev EXCEPT !.thri = @ /\ dev.rx > 0]

-----------------------------------------------------------------------------
\* uartputc(), from consolewrite(): at first, and after a sleep().
uartputc(p) ==
  /\ txlock = Free
  /\ \/ wr[p].pc = "out" /\ \E c \in Out : wr' = [wr EXCEPT ![p] = [pc |-> "put", c |-> c]]
     \/ wr[p].pc = "woken" /\ wr' = [wr EXCEPT ![p].pc = "put"]
  /\ txlock' = p
  /\ UNCHANGED <<tx, intr, prt, dev, sent>>

uartputc_wait(p) ==
  /\ wr[p].pc = "put" /\ txfull(tx)
  /\ wr' = [wr EXCEPT ![p].pc = "asleep"]
  /\ txlock' = Free
  /\ UNCHANGED <<tx, intr, prt, dev, sent>>

uartputc_store(p) ==
  /\ wr[p].pc = "put" /\ ~txfull(tx)
  /\ tx' = [tx EXCEPT !.buf[tx.w % UART_TX_BUF_SIZE] = wr[p].c, !.w = txadd(@, 1)]
  /\ wr' = [wr EXCEPT ![p] = [pc |-> "start", c |-> dead]]
  /\ UNCHANGED <<txlock, intr, prt, dev, sent>>

\* The place of the holder of uart_tx_lock inside uartstart(), and its next one.
starting(a) == txlock = a /\ IF a = "intr" THEN intr.pc = "start" ELSE wr[a].pc = "start"
sending(a) == txlock = a /\ IF a = "intr" THEN intr.pc = "thr" ELSE wr[a].pc = "thr"
moved(a, pc, w) ==
  IF a = "intr" THEN intr' = [intr EXCEPT !.pc = pc] /\ wr' = w
                ELSE wr' = [w EXCEPT ![a].pc = pc] /\ UNCHANGED intr
returned(a) == moved(a, IF a = "intr" THEN "done" ELSE "out", wr)

uartstart_empty(a) ==
  /\ starting(a) /\ tx.w = tx.r
  /\ ReadISR
  /\ returned(a) /\ txlock' = Free
  /\ UNCHANGED <<tx, prt, sent>>

uartstart_busy(a) ==
  /\ starting(a) /\ tx.w # tx.r /\ ~idle
  /\ returned(a) /\ txlock' = Free
  /\ UNCHANGED <<tx, prt, dev, sent>>

wakes == [p \in Writers |-> IF wr[p].pc = "asleep" THEN [wr[p] EXCEPT !.pc = "woken"] ELSE wr[p]]
uartstart_take(a) ==
  /\ starting(a) /\ tx.w # tx.r /\ idle
  /\ sent' = tx.buf[tx.r % UART_TX_BUF_SIZE]
  /\ tx' = [tx EXCEPT !.r = txadd(@, 1)]
  /\ moved(a, "thr", wakes)
  /\ UNCHANGED <<txlock, prt, dev>>

uartstart_send(a) ==
  /\ sending(a)
  /\ WriteTHR
  /\ moved(a, "start", wr)
  /\ UNCHANGED <<tx, txlock, prt, sent>>

\* uartputc_sync() for printf(), one character at a time under pr.lock.
printf_unchecked ==
  /\ prt = "out"
  /\ prt' = "thr"
  /\ UNCHANGED <<tx, txlock, wr, intr, dev, sent>>
printf_check ==
  /\ prt = "out" /\ idle
  /\ prt' = "thr"
  /\ UNCHANGED <<tx, txlock, wr, intr, dev, sent>>
printf_send ==
  /\ prt = "thr"
  /\ WriteTHR /\ prt' = "out"
  /\ UNCHANGED <<tx, txlock, wr, intr, sent>>

-----------------------------------------------------------------------------
\* devintr(), plic_claim(), and the start of uartintr().
plic_claim == intr.pc = "none" /\ (dev.thri \/ dev.rx > 0)
claim ==
  /\ plic_claim
  /\ intr' = [intr EXCEPT !.pc = "rx"]
  /\ UNCHANGED <<tx, txlock, wr, prt, dev, sent>>

\* uartgetc() and consoleintr(), which echoes some characters or none.
uartintr_getc ==
  /\ intr.pc = "rx" /\ dev.rx > 0
  /\ dev' = [dev EXCEPT !.rx = @ - 1]
  /\ \E n \in 0..EchoMax : intr' = [pc |-> IF n = 0 THEN "rx" ELSE "echo", echo |-> n]
  /\ UNCHANGED <<tx, txlock, wr, prt, sent>>

echo_check ==
  /\ intr.pc = "echo" /\ idle
  /\ intr' = [intr EXCEPT !.pc = "echothr"]
  /\ UNCHANGED <<tx, txlock, wr, prt, dev, sent>>
echo_send ==
  /\ intr.pc = "echothr"
  /\ WriteTHR
  /\ intr' = [pc |-> IF intr.echo = 1 THEN "rx" ELSE "echo", echo |-> intr.echo - 1]
  /\ UNCHANGED <<tx, txlock, wr, prt, sent>>

uartintr_tx_skips ==
  /\ intr.pc = "rx" /\ dev.rx = 0
  /\ intr' = [intr EXCEPT !.pc = "done"]
  /\ UNCHANGED <<tx, txlock, wr, prt, dev, sent>>
uartintr_tx ==
  /\ intr.pc = "rx" /\ dev.rx = 0 /\ txlock = Free
  /\ intr' = [intr EXCEPT !.pc = "start"] /\ txlock' = "intr"
  /\ UNCHANGED <<tx, wr, prt, dev, sent>>

plic_complete ==
  /\ intr.pc = "done"
  /\ intr' = [intr EXCEPT !.pc = "none"]
  /\ UNCHANGED <<tx, txlock, wr, prt, dev, sent>>

\* The device: it sends a character, and interrupts when its FIFO runs empty;
\* or receives one.
transmit ==
  /\ dev.fifo > 0
  /\ dev' = [dev EXCEPT !.fifo = @ - 1, !.thri = @ \/ dev.fifo = 1]
  /\ UNCHANGED <<tx, txlock, wr, intr, prt, sent>>
receive ==
  /\ dev.rx < RxMax
  /\ dev' = [dev EXCEPT !.rx = @ + 1]
  /\ UNCHANGED <<tx, txlock, wr, intr, prt, sent>>

PutChar(p) == uartputc(p) \/ uartputc_wait(p) \/ uartputc_store(p)
uartstart(a) == uartstart_empty(a) \/ uartstart_busy(a) \/ uartstart_take(a) \/ uartstart_send(a)
Handler ==
  claim \/ uartintr_getc \/ echo_check \/ echo_send \/ uartintr_tx \/ plic_complete \/ uartstart("intr")

UartNext ==
  \/ \E p \in Writers : PutChar(p) \/ uartstart(p)
  \/ printf_check \/ printf_send
  \/ Handler
  \/ transmit \/ receive

-----------------------------------------------------------------------------
ringchars == [i \in 1..queued |-> tx.buf[txadd(tx.r, i - 1) % UART_TX_BUF_SIZE]]
Q == INSTANCE ByteQueue WITH Bytes <- Out, Size <- UART_TX_BUF_SIZE, queue <- ringchars, taken <- sent

(* The transmit ring is a bounded queue across the wrapping of its indices:  *)
(* what write() sends leaves in order, none of it lost or sent twice,        *)
(* whoever runs uartstart().                                                 *)
OutputIsQueue == Q!Spec

(* uartputc_sync() tests LSR_TX_IDLE and writes the register without         *)
(* uart_tx_lock, so that echo, printf() and uartstart() can all have found   *)
(* it idle: never more than three, which the device's FIFO takes.  Without   *)
(* FCR_FIFO_ENABLE a character would be overwritten.                         *)
FifoNeverOverrun == dev.fifo <= FIFO

(* A full ring does not stay full: the interrupt that drains it is not lost  *)
(* to the characters that echo and printf() slip in between, nor to the      *)
(* ReadReg(ISR) of an uartstart() that found the ring empty, and a writer    *)
(* that sleeps for room is woken.                                            *)
OutputDrains ==
  (<>[][~printf_check /\ ~receive]_uartvars) =>
    /\ (queued = UART_TX_BUF_SIZE) ~> (queued < UART_TX_BUF_SIZE)
    /\ \A p \in Writers : (wr[p].pc = "asleep") ~> (wr[p].pc # "asleep")
=============================================================================
