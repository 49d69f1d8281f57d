----------------------------- MODULE DevProofs ------------------------------
(***************************************************************************)
(* The devices and the clock, for any number of processes and any size of  *)
(* the rings, wherever the counters wrap: sys_sleep() sleeps for as long   *)
(* as it was asked to (module Clock), what write() sends to the console    *)
(* leaves in order and never overruns the UART (Uart), and what is typed   *)
(* reaches the readers as the line discipline says (Console).              *)
(***************************************************************************)
EXTENDS Clock, Uart, Console, Rings

\* The provers are asked for first-order reasoning unless a step says SMT.
USE Zenon

-----------------------------------------------------------------------------
(* Clock: sys_sleep() sleeps for the ticks it was asked to, wherever ticks *)
(* wraps.                                                                  *)
ClockSpec == ClockInit /\ [][ClockNext]_clockvars

Places == {"out", "test", "sleep", "asleep", "woken", "slept", "-1"}
Sleeper == [pc : Places, n : 0..MaxSleep, ticks0 : 0..TickUint - 1, killed : BOOLEAN, since : 0..MaxSleep + Lag]
ClockTypes == /\ ticks \in 0..TickUint - 1
              /\ tickslock \in Sleepers \union {Nobody}
              /\ sl \in [Sleepers -> Sleeper]

\* A process holds tickslock from its test to sleep().
TicksLocked == \A p \in Sleepers : sl[p].pc \in {"test", "sleep"} => tickslock = p
\* What the code computes is what has passed.
ElapsedIsSince == \A p \in Sleepers : sl[p].pc \in {"test", "sleep", "asleep", "woken"} => elapsed(p) = sl[p].since
StillShort == \A p \in Sleepers : sl[p].pc = "asleep" => sl[p].since < sl[p].n

ClockInv == ClockTypes /\ TicksLocked /\ ElapsedIsSince /\ StillShort /\ SleepsExactly

-----------------------------------------------------------------------------
(* C's unsigned difference and increment, as cases on where the wrap is.   *)

(* ticks - ticks0 of sys_sleep(), in uints.                                *)
LEMMA WrapDiff ==
  ASSUME NEW T \in Nat \ {0}, NEW a \in 0..T - 1, NEW b \in 0..T - 1
  PROVE (a + T - b) % T = IF a >= b THEN a - b ELSE a + T - b
  BY CounterWraps DEF Ahead

(* ticks++ of clockintr(), in uints.                                       *)
LEMMA WrapTick ==
  ASSUME NEW T \in Nat \ {0}, NEW a \in 0..T - 1
  PROVE (a + 1) % T = IF a = T - 1 THEN 0 ELSE a + 1
  BY CounterWraps

-----------------------------------------------------------------------------
(* The invariant holds when nobody has called sys_sleep() yet.             *)
LEMMA ClockInitially == ClockInit => ClockInv
  BY SMTT(30), ClockConstants DEF ClockInit, ClockInv, ClockTypes, TicksLocked, ElapsedIsSince, StillShort,
                        SleepsExactly, Awake, Sleeper, Places

(* A step of one process, which leaves ticks alone and takes tickslock from *)
(* nobody else, keeps the invariant if it holds for that process.          *)
LEMMA OneMoves ==
  ASSUME ClockInv, NEW p \in Sleepers,
         ticks' = ticks, sl' \in [Sleepers -> Sleeper], \A q \in Sleepers \ {p} : sl'[q] = sl[q],
         tickslock' \in Sleepers \union {Nobody},
         \A q \in Sleepers \ {p} : tickslock = q => tickslock' = q,
         sl'[p].pc \in {"test", "sleep"} => tickslock' = p,
         sl'[p].pc \in {"test", "sleep", "asleep", "woken"} => elapsed(p)' = sl'[p].since,
         sl'[p].pc \in {"sleep", "asleep"} => sl'[p].since < sl'[p].n,
         sl'[p].pc = "slept" => sl'[p].since >= sl'[p].n
  PROVE ClockInv'
  <1>1. ClockTypes'
    BY DEF ClockInv, ClockTypes
  <1>2. TicksLocked'
    BY DEF ClockInv, TicksLocked
  <1>3. ElapsedIsSince'
    BY DEF ClockInv, ElapsedIsSince, elapsed
  <1>4. StillShort' /\ SleepsExactly'
    BY DEF ClockInv, StillShort, SleepsExactly
  <1> QED BY <1>1, <1>2, <1>3, <1>4 DEF ClockInv

(* Every step of sys_sleep(), clockintr() and kill() keeps the invariant.  *)
LEMMA ClockStep == ClockInv /\ [ClockNext]_clockvars => ClockInv'
  <1> SUFFICES ASSUME ClockInv, [ClockNext]_clockvars PROVE ClockInv'
    OBVIOUS
  <1> USE ClockConstants
  <1> USE DEF ClockInv
  <1>t. TickUint \in Nat \ {0} /\ MaxSleep + Lag < TickUint
    BY SMT
  <1>e. \A p \in Sleepers : /\ sl[p] \in Sleeper
                            /\ elapsed(p) = IF ticks >= sl[p].ticks0 THEN ticks - sl[p].ticks0
                                            ELSE ticks + TickUint - sl[p].ticks0
    BY ZenonT(30), <1>t, WrapDiff DEF ClockTypes, elapsed, Sleeper
  <1>1. CASE clockintr
    <2>1. ticks' = IF ticks = TickUint - 1 THEN 0 ELSE ticks + 1
      BY ZenonT(30), <1>1, <1>t, WrapTick DEF clockintr, ClockTypes
    <2>2. ticks' \in 0..TickUint - 1
      BY SMTT(30), <2>1, <1>t DEF ClockTypes
    <2>3. ASSUME NEW p \in Sleepers
          PROVE /\ sl'[p] \in Sleeper
                /\ sl'[p].pc \notin {"test", "sleep"}
                /\ sl'[p].pc \in {"asleep", "woken"} => elapsed(p)' = sl'[p].since
                /\ sl'[p].pc # "asleep"
                /\ sl'[p].pc = "slept" => sl'[p].since >= sl'[p].n
      <3>1. sl[p] \in Sleeper /\ sl[p].pc \notin {"test", "sleep"}
        BY ZenonT(30), <1>1, <1>e DEF clockintr, TicksLocked
      <3>2. sl'[p] = [sl[p] EXCEPT !.pc = IF @ = "asleep" THEN "woken" ELSE @,
                                   !.since = IF sl[p].pc \in {"asleep", "woken"} THEN @ + 1 ELSE @]
        BY ZenonT(30), <1>1 DEF clockintr
      <3>3. sl[p].pc \in {"asleep", "woken"} => sl[p].since + 1 \in 0..MaxSleep + Lag
        <4>1. sl[p].pc = "woken" => sl[p].since < MaxSleep + Lag
          BY ZenonT(30), <1>1 DEF clockintr
        <4>2. sl[p].pc = "asleep" => sl[p].since < MaxSleep
          BY SMT, <3>1 DEF StillShort, Sleeper
        <4> QED BY SMTT(30), <4>1, <4>2, <3>1 DEF Sleeper
      <3>4. sl'[p] \in Sleeper
        BY ZenonT(30), <3>1, <3>2, <3>3 DEF Sleeper, Places
      <3>5. elapsed(p)' = IF ticks' >= sl[p].ticks0 THEN ticks' - sl[p].ticks0
                          ELSE ticks' + TickUint - sl[p].ticks0
        BY SMT, <2>2, <3>1, <3>2, <1>t, WrapDiff DEF elapsed, Sleeper
      <3>6. sl[p].pc \in {"asleep", "woken"} => elapsed(p)' = sl[p].since + 1
        BY SMTT(30), <2>1, <3>1, <3>3, <3>5, <1>e, <1>t DEF ElapsedIsSince, ClockTypes, Sleeper
      <3> QED BY SMTT(30), <3>1, <3>2, <3>4, <3>6 DEF SleepsExactly, Sleeper, Places
    <2>4. tickslock' = tickslock /\ sl' \in [Sleepers -> Sleeper]
      BY ZenonT(30), <1>1, <2>3 DEF clockintr
    <2> QED BY <2>2, <2>3, <2>4 DEF ClockTypes, TicksLocked, ElapsedIsSince, StillShort, SleepsExactly
  <1>2. ASSUME NEW p \in Sleepers,
               sys_sleep(p) \/ sleep_test(p) \/ sleep_block(p) \/ sleep_return(p) \/ kill_sleeper(p)
        PROVE ClockInv'
    <2> USE DEF ClockTypes, Sleeper, Places
    <2>0. sl[p] \in Sleeper
      BY ZenonT(30)
    <2>1. CASE sys_sleep(p) /\ sl[p].pc = "out"
      <3>1. PICK n \in 0..MaxSleep : sl' = [sl EXCEPT ![p].pc = "test", ![p].n = n, ![p].ticks0 = ticks, ![p].since = 0]
        BY ZenonT(30), <2>1 DEF sys_sleep
      <3>2. /\ sl' \in [Sleepers -> Sleeper] /\ \A q \in Sleepers \ {p} : sl'[q] = sl[q]
            /\ sl'[p].pc = "test" /\ sl'[p].ticks0 = ticks /\ sl'[p].since = 0
        <4>0. PICK s \in Sleeper : s = sl[p]
          BY <2>0, Zenon
        <4>1. PICK r : r = [s EXCEPT !.pc = "test", !.n = n, !.ticks0 = ticks, !.since = 0]
          BY Zenon
        <4>2. sl' = [sl EXCEPT ![p] = r]
          BY <3>1, <4>0, <4>1, Zenon
        <4>3. r \in Sleeper /\ r.pc = "test" /\ r.ticks0 = ticks /\ r.since = 0
          <5> DEFINE r1 == [s EXCEPT !.pc = "test"]
                     r2 == [r1 EXCEPT !.n = n]
                     r3 == [r2 EXCEPT !.ticks0 = ticks]
          <5>1. r1 \in Sleeper /\ r1.pc = "test"
            OBVIOUS
          <5>2. r2 \in Sleeper /\ r2.pc = "test"
            <6> HIDE DEF r1
            <6> QED BY <5>1
          <5>3. r3 \in Sleeper /\ r3.pc = "test" /\ r3.ticks0 = ticks
            <6> HIDE DEF r2
            <6> QED BY <5>2
          <5>4. r = [r3 EXCEPT !.since = 0]
            BY <4>1, ZenonT(30)
          <5> HIDE DEF r3
          <5> QED BY SMT, <5>3, <5>4
        <4> QED BY <4>2, <4>3
      <3>3. ticks' = ticks /\ tickslock = Nobody /\ tickslock' = p
        BY ZenonT(30), <2>1 DEF sys_sleep
      <3>4. elapsed(p)' = sl'[p].since
        BY SMT, <3>2, <3>3, <1>t, WrapDiff DEF elapsed
      <3> QED BY SMTT(30), <3>2, <3>3, <3>4, OneMoves
    <2>2. CASE sys_sleep(p) /\ sl[p].pc = "woken"
      <3>1. /\ sl' \in [Sleepers -> Sleeper] /\ \A q \in Sleepers \ {p} : sl'[q] = sl[q]
            /\ sl'[p].pc = "test" /\ sl'[p].ticks0 = sl[p].ticks0 /\ sl'[p].since = sl[p].since
        BY ZenonT(30), <2>2 DEF sys_sleep
      <3>2. elapsed(p)' = sl'[p].since
        BY <2>2, <3>1 DEF sys_sleep, ElapsedIsSince, elapsed
      <3> QED BY <2>2, <3>1, <3>2, OneMoves DEF sys_sleep
    <2>3. CASE sleep_test(p)
      <3>1. /\ sl' \in [Sleepers -> Sleeper] /\ \A q \in Sleepers \ {p} : sl'[q] = sl[q]
            /\ sl'[p].ticks0 = sl[p].ticks0 /\ sl'[p].since = sl[p].since /\ sl'[p].n = sl[p].n
            /\ sl'[p].pc = IF elapsed(p) >= sl[p].n THEN "slept" ELSE IF sl[p].killed THEN "-1" ELSE "sleep"
        BY SMT, <2>3 DEF sleep_test
      <3>2. elapsed(p) = sl[p].since /\ elapsed(p)' = sl'[p].since
        BY <2>3, <3>1 DEF sleep_test, ElapsedIsSince, elapsed
      <3>3. /\ tickslock = p /\ ticks' = ticks /\ tickslock' \in {p, Nobody}
            /\ sl'[p].pc = "sleep" => tickslock' = p
        BY <2>3, <3>1 DEF sleep_test
      <3> QED BY SMTT(30), <2>0, <3>1, <3>2, <3>3, OneMoves
    <2>4. CASE sleep_block(p)
      <3>1. /\ sl' \in [Sleepers -> Sleeper] /\ \A q \in Sleepers \ {p} : sl'[q] = sl[q]
            /\ sl'[p].ticks0 = sl[p].ticks0 /\ sl'[p].since = sl[p].since /\ sl'[p].n = sl[p].n
            /\ sl'[p].pc = "asleep"
        BY <2>4 DEF sleep_block
      <3>2. elapsed(p)' = sl'[p].since /\ sl'[p].since < sl'[p].n
        BY ZenonT(30), <2>4, <3>1 DEF sleep_block, ElapsedIsSince, elapsed, SleepsExactly
      <3>3. tickslock = p /\ ticks' = ticks /\ tickslock' = Nobody
        BY <2>4 DEF sleep_block, TicksLocked
      <3> QED BY <3>1, <3>2, <3>3, OneMoves
    <2>5. CASE sleep_return(p)
      <3>1. /\ sl' \in [Sleepers -> Sleeper] /\ \A q \in Sleepers \ {p} : sl'[q] = sl[q]
            /\ sl'[p].pc = "out"
        BY SMT, <2>5 DEF sleep_return, Awake
      <3> QED BY <2>5, <3>1, OneMoves DEF sleep_return
    <2>6. CASE kill_sleeper(p)
      <3>1. /\ sl' \in [Sleepers -> Sleeper] /\ \A q \in Sleepers \ {p} : sl'[q] = sl[q]
            /\ sl'[p].ticks0 = sl[p].ticks0 /\ sl'[p].since = sl[p].since /\ sl'[p].n = sl[p].n
            /\ sl'[p].pc = IF sl[p].pc = "asleep" THEN "woken" ELSE sl[p].pc
        BY ZenonT(30), <2>6 DEF kill_sleeper
      <3>2. sl'[p].pc \in {"test", "sleep", "asleep", "woken"} => elapsed(p)' = sl'[p].since
        BY <2>6, <3>1 DEF kill_sleeper, ElapsedIsSince, elapsed
      <3>3. /\ ticks' = ticks /\ tickslock' = tickslock
            /\ sl'[p].pc \in {"test", "sleep"} => tickslock' = p
        BY SMT, <2>6, <3>1 DEF kill_sleeper, TicksLocked
      <3>4. /\ sl'[p].pc \in {"sleep", "asleep"} => sl'[p].since < sl'[p].n
            /\ sl'[p].pc = "slept" => sl'[p].since >= sl'[p].n
        BY <3>1 DEF SleepsExactly
      <3> QED BY <3>1, <3>2, <3>3, <3>4, OneMoves
    <2> QED BY ZenonT(30), <1>2, <2>1, <2>2, <2>3, <2>4, <2>5, <2>6 DEF sys_sleep
  <1>3. CASE UNCHANGED clockvars
    BY <1>3 DEF clockvars, ClockTypes, TicksLocked, ElapsedIsSince, StillShort, SleepsExactly, elapsed
  <1> QED BY <1>1, <1>2, <1>3 DEF ClockNext

(* sys_sleep(n) returns 0 after n ticks and goes on sleeping only while     *)
(* fewer have passed, for every width of ticks, wherever it wraps, and with  *)
(* any number of sleepers and kill()s.                                       *)
THEOREM SleepsExactlyCorrect == ClockSpec => []SleepsExactly
  <1>1. ClockInv => SleepsExactly
    BY DEF ClockInv
  <1> QED BY <1>1, ClockInitially, ClockStep, PTL DEF ClockSpec

-----------------------------------------------------------------------------
(* Uart: the transmit ring is a queue, and the device is never overrun.    *)
UartSpec == UartInit /\ [][UartNext]_uartvars

Writer == [pc : {"out", "put", "asleep", "woken", "start", "thr"}, c : Out]
Interrupt == [pc : {"none", "rx", "echo", "echothr", "start", "thr", "done"}, echo : Int]
Transmit == [buf : Ring(Out, UART_TX_BUF_SIZE), r : 0..TxUint - 1, w : 0..TxUint - 1]
Device == [fifo : Nat, rx : Nat, thri : BOOLEAN]
UartTypes == /\ tx \in Transmit
             /\ wr \in [Writers -> Writer]
             /\ intr \in Interrupt
             /\ prt \in {"out", "thr"}
             /\ dev \in Device
             /\ sent \in Out

\* The writers and the handler, and where they are.
Agents == Writers \union {"intr"}
place(a) == IF a = "intr" THEN intr.pc ELSE wr[a].pc

\* Whoever is in a section under uart_tx_lock holds it.
TxLocked == \A a \in Agents : place(a) \in {"put", "start", "thr"} => txlock = a

\* Each of printf(), echo and uartstart() that has found the register idle will
\* write one character; they were at most three, and the FIFO was empty.
one(b) == IF b THEN 1 ELSE 0
startsends == \E a \in Agents : place(a) = "thr"
ThreeAtMost == dev.fifo + one(prt = "thr") + one(intr.pc = "echothr") + one(startsends) <= 3

\* The ring is never more than full.
TxBounded == queued <= UART_TX_BUF_SIZE

\* A step of a moves nobody else, except that wakeup() wakes the sleepers.
OthersStay(a) ==
  \A b \in Agents : b # a => place(b)' = place(b) \/ (place(b) = "asleep" /\ place(b)' = "woken")

UartInv == UartTypes /\ TxLocked /\ ThreeAtMost /\ TxBounded

(* A character that is not read again is one, as there are characters.     *)
LEMMA DeadIsOut == UartTypes => dead \in Out
<1> SUFFICES ASSUME UartTypes PROVE dead \in Out
  OBVIOUS
<1>1. \E x \in Out : TRUE
  BY DEF UartTypes
<1> QED  BY <1>1 DEF dead

(* The fields of the state have their types.                               *)
LEMMA UartFields ==
  UartTypes =>
    /\ \A p \in Writers : wr[p].pc \in {"out", "put", "asleep", "woken", "start", "thr"} /\ wr[p].c \in Out
    /\ intr.pc \in {"none", "rx", "echo", "echothr", "start", "thr", "done"} /\ intr.echo \in Int
    /\ tx.buf \in Ring(Out, UART_TX_BUF_SIZE) /\ tx.r \in 0..TxUint - 1 /\ tx.w \in 0..TxUint - 1
    /\ dev.fifo \in Nat /\ dev.rx \in Nat /\ dev.thri \in BOOLEAN
BY DEF UartTypes, Writer, Interrupt, Transmit, Device

(* What the constants say of the transmit ring.                            *)
LEMMA TxConstants ==
  /\ UART_TX_BUF_SIZE \in Nat \ {0} /\ TxUint \in Nat \ {0} /\ UART_TX_BUF_SIZE \in Nat /\ UART_TX_BUF_SIZE < TxUint
  /\ \A x \in 0..TxUint - 1 : Counter(TxUint, UART_TX_BUF_SIZE, x) /\ x \in Nat
<1>1. UART_TX_BUF_SIZE \in Nat \ {0} /\ TxUint \in Nat \ {0} /\ UART_TX_BUF_SIZE \in Nat /\ UART_TX_BUF_SIZE < TxUint
  BY SMT, UartConstants
<1>2. \A x \in 0..TxUint - 1 : x \in Nat
  BY SMT, UartConstants
<1> QED  BY <1>1, <1>2, UartConstants DEF Counter

(* A lock holder's move changes its own place only.                        *)
LEMMA Moves ==
  ASSUME NEW a, a \in Writers \union {"intr"}, NEW pc, NEW w \in [Writers -> Writer], moved(a, pc, w),
         intr \in Interrupt
  PROVE  /\ a = "intr" => /\ wr' = w /\ intr'.pc = pc /\ intr'.echo = intr.echo
                          /\ pc \in {"start", "thr", "done"} => intr' \in Interrupt
         /\ a # "intr" => /\ intr' = intr /\ wr'[a].pc = pc /\ wr'[a].c = w[a].c
                          /\ \A p \in Writers : p # a => wr'[p] = w[p]
                          /\ pc \in {"start", "thr", "out"} => wr' \in [Writers -> Writer]
<1>1. CASE a = "intr"
  BY SMTT(30), <1>1 DEF moved, Interrupt
<1>2. CASE a # "intr"
  <2>1. a \in Writers /\ wr' = [w EXCEPT ![a].pc = pc] /\ intr' = intr
    BY <1>2 DEF moved
  <2>2. w[a] \in Writer
    BY <2>1
  <2>3. wr'[a] = [w[a] EXCEPT !.pc = pc] /\ \A p \in Writers : p # a => wr'[p] = w[p]
    BY <2>1
  <2>4. wr'[a].pc = pc /\ wr'[a].c = w[a].c
    BY SMTT(30), <2>2, <2>3 DEF Writer
  <2>5. pc \in {"start", "thr", "out"} => wr' \in [Writers -> Writer]
    BY SMTT(30), <2>1, <2>2 DEF Writer
  <2> QED  BY <1>2, <2>1, <2>3, <2>4, <2>5
<1> QED  BY <1>1, <1>2

(* The transmit interrupt's wakeup() changes no writer's character.        *)
LEMMA WakesTyped ==
  ASSUME wr \in [Writers -> Writer]
  PROVE  /\ wakes \in [Writers -> Writer]
         /\ \A p \in Writers : wakes[p].pc = (IF wr[p].pc = "asleep" THEN "woken" ELSE wr[p].pc)
<1>1. \A p \in Writers : wr[p] \in Writer
  OBVIOUS
<1>2. \A x \in Writer : [x EXCEPT !.pc = "woken"] \in Writer /\ [x EXCEPT !.pc = "woken"].pc = "woken"
  BY SMTT(30) DEF Writer
<1>3. ASSUME NEW p \in Writers
      PROVE  wakes[p] \in Writer /\ wakes[p].pc = (IF wr[p].pc = "asleep" THEN "woken" ELSE wr[p].pc)
  <2>1. wakes[p] = IF wr[p].pc = "asleep" THEN [wr[p] EXCEPT !.pc = "woken"] ELSE wr[p]
    BY DEF wakes
  <2>2. CASE wr[p].pc = "asleep"
    <3>1. wakes[p] = [wr[p] EXCEPT !.pc = "woken"]
      BY <2>1, <2>2
    <3> QED  BY <1>1, <1>2, <2>2, <3>1
  <2>3. CASE wr[p].pc # "asleep"
    BY <1>1, <2>1, <2>3
  <2> QED  BY <2>2, <2>3
<1>4. wakes = [p \in Writers |-> wakes[p]]
  BY DEF wakes
<1>5. wakes \in [Writers -> Writer]
  BY <1>3, <1>4
<1> QED  BY <1>3, <1>5

(* The device's registers keep their types.                                *)
LEMMA DeviceTyped ==
  ASSUME dev \in Device
  PROVE  /\ WriteTHR => dev' \in Device /\ dev'.fifo = dev.fifo + 1
         /\ ReadISR => dev' \in Device /\ dev'.fifo = dev.fifo
         /\ transmit => dev' \in Device /\ dev'.fifo = dev.fifo - 1
         /\ receive => dev' \in Device /\ dev'.fifo = dev.fifo
         /\ uartintr_getc => dev' \in Device /\ dev'.fifo = dev.fifo
<1>1. ASSUME NEW x \in Nat, NEW b \in BOOLEAN
      PROVE  [dev EXCEPT !.fifo = x, !.thri = b] \in Device /\ [dev EXCEPT !.fifo = x, !.thri = b].fifo = x
  <2>1. [dev EXCEPT !.fifo = x, !.thri = b] \in Device
    BY DEF Device
  <2>2. [dev EXCEPT !.fifo = x, !.thri = b].fifo = x
    BY DEF Device
  <2> QED  BY <2>1, <2>2
<1>a. ASSUME NEW b \in BOOLEAN
      PROVE  [dev EXCEPT !.thri = b] \in Device /\ [dev EXCEPT !.thri = b].fifo = dev.fifo
  <2>1. [dev EXCEPT !.thri = b] \in Device
    BY DEF Device
  <2>2. [dev EXCEPT !.thri = b].fifo = dev.fifo
    BY DEF Device
  <2> QED  BY <2>1, <2>2
<1>b. dev.fifo \in Nat
  BY DEF Device
<1>0. dev.rx \in Nat /\ dev.thri \in BOOLEAN
  BY DEF Device
<1>2. dev.fifo + 1 \in Nat /\ (dev.fifo > 0 => dev.fifo - 1 \in Nat)
  BY SMT, <1>b
<1>3. WriteTHR => dev' \in Device /\ dev'.fifo = dev.fifo + 1
  BY <1>0, <1>1, <1>2 DEF WriteTHR
<1>4. ReadISR => dev' \in Device /\ dev'.fifo = dev.fifo
  <2>1. PICK b \in BOOLEAN : b = (dev.thri /\ dev.rx > 0)
    BY <1>0
  <2>2. ReadISR => dev' = [dev EXCEPT !.thri = b]
    BY <2>1 DEF ReadISR
  <2> HIDE DEF ReadISR
  <2>3. [dev EXCEPT !.thri = b] \in Device /\ [dev EXCEPT !.thri = b].fifo = dev.fifo
    BY <1>a
  <2> QED  BY <2>2, <2>3
<1>5. transmit => dev' \in Device /\ dev'.fifo = dev.fifo - 1
  <2>1. PICK b \in BOOLEAN : b = (dev.thri \/ dev.fifo = 1)
    BY <1>0
  <2>2. transmit => dev' = [dev EXCEPT !.fifo = dev.fifo - 1, !.thri = b] /\ dev.fifo > 0
    BY <2>1 DEF transmit
  <2> QED  BY <1>1, <1>2, <2>2
<1>6. receive => dev' \in Device /\ dev'.fifo = dev.fifo
  BY SMTT(30) DEF Device, receive
<1>7. uartintr_getc => dev' \in Device /\ dev'.fifo = dev.fifo
  BY SMTT(30) DEF Device, uartintr_getc
<1> QED  BY <1>3, <1>4, <1>5, <1>6, <1>7

-----------------------------------------------------------------------------
(* The ring.                                                               *)

(* The indices of the ring are counters; queued is how far they are apart. *)
LEMMA TxRing ==
  tx \in Transmit => RingAt(TxUint, UART_TX_BUF_SIZE, tx.r, tx.w, queued) /\ queued = Ahead(TxUint, tx.r, tx.w)
<1> SUFFICES ASSUME tx \in Transmit
             PROVE  RingAt(TxUint, UART_TX_BUF_SIZE, tx.r, tx.w, queued) /\ queued = Ahead(TxUint, tx.r, tx.w)
  OBVIOUS
<1>1. tx.r \in 0..TxUint - 1 /\ tx.w \in 0..TxUint - 1
  BY DEF Transmit
<1>2. queued = Ahead(TxUint, tx.r, tx.w)
  BY DEF queued, Ahead
<1> QED  BY <1>1, <1>2, TxConstants DEF RingAt

(* The characters in the ring are those from the reader's entry on.        *)
LEMMA RingChars ==
  tx \in Transmit => ringchars = Run(tx.buf, UART_TX_BUF_SIZE, tx.r, queued)
<1> SUFFICES ASSUME tx \in Transmit
             PROVE  ringchars = Run(tx.buf, UART_TX_BUF_SIZE, tx.r, queued)
  OBVIOUS
<1>1. RingAt(TxUint, UART_TX_BUF_SIZE, tx.r, tx.w, queued)
  BY TxRing
<1>2. queued \in 0..TxUint - 1
  BY <1>1, RingTells
<1>3. Wrapped(TxUint, UART_TX_BUF_SIZE, tx.buf, tx.r, queued, ringchars)
  BY <1>1, <1>2 DEF RingAt, Wrapped, ringchars, txadd
<1>4. ringchars = Run(tx.buf, UART_TX_BUF_SIZE, tx.r, queued)
  BY <1>3, RunCounters
<1> QED  BY <1>4

(* uartputc() stores a character when there is room.                       *)
LEMMA StorePuts ==
  ASSUME UartTypes, TxBounded, NEW p \in Writers, uartputc_store(p)
  PROVE  tx' \in Transmit /\ queued < UART_TX_BUF_SIZE /\ queued' = queued + 1
         /\ ringchars' = Append(ringchars, wr[p].c)
<1>1. tx \in Transmit /\ tx.buf \in Ring(Out, UART_TX_BUF_SIZE) /\ wr[p].c \in Out
  BY UartFields DEF UartTypes
<1>2. RingAt(TxUint, UART_TX_BUF_SIZE, tx.r, tx.w, queued) /\ UART_TX_BUF_SIZE \in Nat
  BY <1>1, TxConstants, TxRing
<1>3. PICK w1 : w1 = (tx.w + 1) % TxUint
  OBVIOUS
<1>4. queued \in Nat /\ w1 \in 0..TxUint - 1
  BY <1>2, <1>3, RingTells
<1>5. queued < UART_TX_BUF_SIZE => Ahead(TxUint, tx.r, w1) = queued + 1
  BY SMT, <1>2, <1>3, RingTells
<1>6. queued # UART_TX_BUF_SIZE
  <2>1. tx.w # (tx.r + UART_TX_BUF_SIZE) % TxUint
    BY DEF uartputc_store, txfull, txadd
  <2> QED  BY SMT, <1>2, <2>1, RingTells
<1>7. queued < UART_TX_BUF_SIZE
  BY SMT, <1>2, <1>4, <1>6 DEF TxBounded
<1>8. PICK buf1 : buf1 = [tx.buf EXCEPT ![tx.w % UART_TX_BUF_SIZE] = wr[p].c]
  OBVIOUS
<1>9. Stored(Out, UART_TX_BUF_SIZE, tx.r, queued, tx.buf, wr[p].c, buf1)
  BY <1>1, <1>2, <1>7, <1>8, RunStore
<1>10. /\ buf1 \in Ring(Out, UART_TX_BUF_SIZE)
       /\ Run(buf1, UART_TX_BUF_SIZE, tx.r, queued + 1) = Append(Run(tx.buf, UART_TX_BUF_SIZE, tx.r, queued), wr[p].c)
  BY SMT, <1>9, RunAppend
<1>11. tx' = [tx EXCEPT !.buf = buf1, !.w = w1]
  BY <1>3, <1>8 DEF uartputc_store, txadd
<1>12. tx' \in Transmit /\ tx'.buf = buf1 /\ tx'.r = tx.r /\ tx'.w = w1
  BY <1>1, <1>4, <1>10, <1>11 DEF Transmit
<1>13. /\ (tx \in Transmit => ringchars = Run(tx.buf, UART_TX_BUF_SIZE, tx.r, queued))'
       /\ (tx \in Transmit => queued = Ahead(TxUint, tx.r, tx.w))'
  BY RingChars, TxRing, PTL
<1>14. queued' = queued + 1
  BY <1>5, <1>7, <1>12, <1>13
<1>15. ringchars' = Run(buf1, UART_TX_BUF_SIZE, tx.r, queued + 1)
  BY <1>12, <1>13, <1>14
<1> QED  BY <1>1, <1>7, <1>10, <1>12, <1>14, <1>15, RingChars

(* uartstart() takes the oldest.                                           *)
LEMMA StartTakes ==
  ASSUME UartTypes, NEW a, uartstart_take(a)
  PROVE  tx' \in Transmit /\ queued > 0 /\ queued' = queued - 1
         /\ ringchars # <<>> /\ sent' = Head(ringchars) /\ ringchars' = Tail(ringchars) /\ sent' \in Out
<1>1. tx \in Transmit /\ tx.buf \in Ring(Out, UART_TX_BUF_SIZE)
  BY UartFields DEF UartTypes
<1>2. RingAt(TxUint, UART_TX_BUF_SIZE, tx.r, tx.w, queued)
  BY <1>1, TxRing
<1>3. PICK r1 : r1 = (tx.r + 1) % TxUint
  OBVIOUS
<1>4. queued \in Nat /\ r1 \in 0..TxUint - 1 /\ (queued = 0 <=> tx.r = tx.w)
  BY SMT, <1>2, <1>3, RingTells
<1>5. queued > 0 => Ahead(TxUint, r1, tx.w) = queued - 1
  BY SMT, <1>2, <1>3, RingTells
<1>6. queued # 0
  BY <1>4 DEF uartstart_take
<1>7. queued > 0 /\ queued \in Nat \ {0}
  BY SMT, <1>4, <1>6
<1>8. /\ Run(tx.buf, UART_TX_BUF_SIZE, tx.r, queued) # <<>>
      /\ Head(Run(tx.buf, UART_TX_BUF_SIZE, tx.r, queued)) = tx.buf[tx.r % UART_TX_BUF_SIZE]
      /\ Run(tx.buf, UART_TX_BUF_SIZE, r1, queued - 1) = Tail(Run(tx.buf, UART_TX_BUF_SIZE, tx.r, queued))
      /\ tx.buf[tx.r % UART_TX_BUF_SIZE] \in Out
  <2>1. FromFront(Out, TxUint, UART_TX_BUF_SIZE, tx.buf, tx.r, queued, r1)
    BY <1>1, <1>2, <1>3, <1>7 DEF FromFront, RingAt
  <2> QED  BY SMT, <2>1, RunTail
<1>9. tx' = [tx EXCEPT !.r = r1]
  BY <1>3 DEF uartstart_take, txadd
<1>10. tx' \in Transmit /\ tx'.buf = tx.buf /\ tx'.r = r1 /\ tx'.w = tx.w
  BY <1>1, <1>4, <1>9 DEF Transmit
<1>11. /\ (tx \in Transmit => ringchars = Run(tx.buf, UART_TX_BUF_SIZE, tx.r, queued))'
       /\ (tx \in Transmit => queued = Ahead(TxUint, tx.r, tx.w))'
  BY RingChars, TxRing, PTL
<1>12. queued' = queued - 1
  BY <1>5, <1>7, <1>10, <1>11
<1>13. ringchars' = Run(tx.buf, UART_TX_BUF_SIZE, r1, queued - 1)
  BY <1>10, <1>11, <1>12
<1>14. sent' = tx.buf[tx.r % UART_TX_BUF_SIZE]
  BY DEF uartstart_take
<1> QED  BY <1>1, <1>7, <1>8, <1>10, <1>12, <1>13, <1>14, RingChars

-----------------------------------------------------------------------------
(* Who is where.                                                           *)

(* A place of a writer: it, or the value it is changed to.                 *)
LEMMA WriterPlaces ==
  ASSUME NEW x \in Writer, NEW q \in {"out", "put", "asleep", "woken", "start", "thr"}
  PROVE  [x EXCEPT !.pc = q] \in Writer /\ [x EXCEPT !.pc = q].pc = q
BY SMT DEF Writer

(* A step of one writer changes its own place only.                        *)
LEMMA WriterMoves ==
  ASSUME UartTypes, NEW p \in Writers, NEW x \in Writer, wr' = [wr EXCEPT ![p] = x], intr' = intr
  PROVE  wr' \in [Writers -> Writer] /\ place(p)' = x.pc /\ OthersStay(p)
<1>1. wr \in [Writers -> Writer] /\ p # "intr"
  BY UartConstants DEF UartTypes
<1>2. wr' \in [Writers -> Writer] /\ wr'[p] = x /\ \A q \in Writers : q # p => wr'[q] = wr[q]
  BY <1>1
<1> QED  BY <1>1, <1>2 DEF place, OthersStay, Agents

(* A step of the interrupt handler changes its place only.                 *)
LEMMA HandlerMoves ==
  ASSUME wr' = wr PROVE place("intr")' = intr'.pc /\ OthersStay("intr")
BY DEF place, OthersStay, Agents

(* Steps in which nobody takes uart_tx_lock, waits for it or releases it.  *)
LEMMA NobodyMoves ==
  ASSUME UNCHANGED <<wr, intr>> PROVE \A a \in Agents : place(a)' = place(a)
BY DEF place

(* Taking the lock for a character.                                        *)
LEMMA PutMoves ==
  ASSUME UartTypes, NEW p \in Writers, uartputc(p)
  PROVE  wr' \in [Writers -> Writer] /\ place(p)' = "put" /\ OthersStay(p)
<1>1. CASE wr[p].pc = "out" /\ \E c \in Out : wr' = [wr EXCEPT ![p] = [pc |-> "put", c |-> c]]
  <2>1. PICK c \in Out : wr' = [wr EXCEPT ![p] = [pc |-> "put", c |-> c]]
    BY <1>1
  <2>2. PICK x : x = [pc |-> "put", c |-> c] /\ x \in Writer /\ x.pc = "put"
    <3>1. [pc |-> "put", c |-> c] \in Writer /\ [pc |-> "put", c |-> c].pc = "put"
      BY SMT DEF Writer
    <3> QED  BY <3>1
  <2>3. wr' = [wr EXCEPT ![p] = x] /\ intr' = intr
    BY <2>1, <2>2 DEF uartputc
  <2> QED  BY <2>2, <2>3, WriterMoves
<1>2. CASE wr' = [wr EXCEPT ![p].pc = "put"]
  <2>1. wr[p] \in Writer
    BY DEF UartTypes
  <2>2. PICK x \in Writer : x = [wr[p] EXCEPT !.pc = "put"] /\ x.pc = "put"
    BY <2>1, WriterPlaces
  <2>3. wr' = [wr EXCEPT ![p] = x] /\ intr' = intr
    BY <1>2, <2>2 DEF uartputc
  <2> QED  BY <2>2, <2>3, WriterMoves
<1> QED  BY <1>1, <1>2 DEF uartputc

(* Going to sleep on a full ring.                                          *)
LEMMA WaitMoves ==
  ASSUME UartTypes, NEW p \in Writers, uartputc_wait(p)
  PROVE  wr' \in [Writers -> Writer] /\ place(p)' = "asleep" /\ OthersStay(p)
<1>1. wr[p] \in Writer
  BY DEF UartTypes
<1>2. PICK x \in Writer : x = [wr[p] EXCEPT !.pc = "asleep"] /\ x.pc = "asleep"
  BY <1>1, WriterPlaces
<1>3. wr' = [wr EXCEPT ![p] = x] /\ intr' = intr
  BY <1>2 DEF uartputc_wait
<1> QED  BY <1>2, <1>3, WriterMoves

(* Going on to uartstart() with the character stored.                      *)
LEMMA StoreMoves ==
  ASSUME UartTypes, NEW p \in Writers, uartputc_store(p)
  PROVE  wr' \in [Writers -> Writer] /\ place(p)' = "start" /\ OthersStay(p)
<1>1. PICK x : x = [pc |-> "start", c |-> dead] /\ x \in Writer /\ x.pc = "start"
  <2>1. [pc |-> "start", c |-> dead] \in Writer /\ [pc |-> "start", c |-> dead].pc = "start"
    BY SMT, DeadIsOut DEF Writer
  <2> QED  BY <2>1
<1>2. wr' = [wr EXCEPT ![p] = x] /\ intr' = intr
  BY <1>1 DEF uartputc_store
<1> QED  BY <1>1, <1>2, WriterMoves

(* The moves in uartstart(), of a writer or of the handler.                *)
LEMMA StartMoves ==
  ASSUME UartTypes, NEW a \in Agents, NEW q, NEW w \in [Writers -> Writer], moved(a, q, w),
         \A p \in Writers : w[p].pc = wr[p].pc \/ (wr[p].pc = "asleep" /\ w[p].pc = "woken"),
         q \in {"start", "thr"} \/ q = (IF a = "intr" THEN "done" ELSE "out")
  PROVE  wr' \in [Writers -> Writer] /\ intr' \in Interrupt /\ place(a)' = q /\ OthersStay(a)
<1>1. intr \in Interrupt /\ a \in Writers \union {"intr"}
  BY DEF UartTypes, Agents
<1>2. CASE a = "intr"
  <2>1. wr' = w /\ intr'.pc = q /\ intr' \in Interrupt
    BY <1>1, <1>2, Moves
  <2>2. \A b \in Agents : b # a => b \in Writers /\ b # "intr"
    BY <1>2 DEF Agents
  <2>3. place(a)' = q /\ OthersStay(a)
    BY <1>2, <2>1, <2>2 DEF place, OthersStay
  <2> QED  BY <2>1, <2>3
<1>3. CASE a # "intr"
  <2>1. /\ intr' = intr /\ wr'[a].pc = q /\ wr' \in [Writers -> Writer]
        /\ \A p \in Writers : p # a => wr'[p] = w[p]
    BY <1>1, <1>3, Moves
  <2>2. place(a)' = q
    BY <1>3, <2>1 DEF place
  <2>3. ASSUME NEW b \in Agents, b # a
        PROVE  place(b)' = place(b) \/ (place(b) = "asleep" /\ place(b)' = "woken")
    BY <2>1, <2>3 DEF place, Agents
  <2> QED  BY <1>1, <2>1, <2>2, <2>3 DEF OthersStay
<1> QED  BY <1>2, <1>3

-----------------------------------------------------------------------------
(* The lock.                                                               *)

(* A step of a that takes a free lock, or keeps or releases its own.       *)
LEMMA LockKept ==
  ASSUME TxLocked, NEW a \in Agents, OthersStay(a),
         place(a)' \in {"put", "start", "thr"} => txlock' = a,
         txlock' = txlock \/ txlock = Free \/ txlock = a
  PROVE  TxLocked'
<1> SUFFICES ASSUME NEW b \in Agents, place(b)' \in {"put", "start", "thr"} PROVE txlock' = b
  BY DEF TxLocked
<1>1. CASE b = a
  BY <1>1
<1>2. CASE b # a
  <2>1. place(b) \in {"put", "start", "thr"}
    BY <1>2 DEF OthersStay
  <2>2. txlock = b /\ b # Free
    BY <2>1, UartConstants DEF TxLocked, Agents
  <2> QED  BY <1>2, <2>2
<1> QED  BY <1>1, <1>2

(* Whoever is sending holds the lock: nobody else is.                      *)
LEMMA OneSends ==
  ASSUME TxLocked, NEW a \in Agents, txlock = a, OthersStay(a), place(a)' # "thr"
  PROVE  ~startsends'
<1> SUFFICES ASSUME NEW b \in Agents, place(b)' = "thr" PROVE FALSE
  BY DEF startsends
<1>1. b # a /\ place(b) = "thr"
  BY DEF OthersStay
<1> QED  BY <1>1 DEF TxLocked

(* Nobody begins to send in a step that moves a elsewhere.                 *)
LEMMA NobodyBegins ==
  ASSUME NEW a \in Agents, OthersStay(a), place(a)' # "thr" PROVE startsends' => startsends
BY DEF startsends, OthersStay

(* The FIFO and those about to write stay at most three: in a step that    *)
(* adds nobody ...                                                         *)
LEMMA ThreeStay ==
  ASSUME UartTypes, ThreeAtMost, dev'.fifo \in Nat, dev'.fifo <= dev.fifo, prt' = "thr" => prt = "thr",
         intr'.pc = "echothr" => intr.pc = "echothr", startsends' => startsends
  PROVE  ThreeAtMost'
<1>1. dev.fifo \in Nat
  BY UartFields
<1>2. PICK x \in {0, 1}, y \in {0, 1}, z \in {0, 1} :
        x = one(prt = "thr") /\ y = one(intr.pc = "echothr") /\ z = one(startsends)
  BY DEF one
<1>3. PICK x1 \in {0, 1}, y1 \in {0, 1}, z1 \in {0, 1} :
        x1 = one(prt = "thr")' /\ y1 = one(intr.pc = "echothr")' /\ z1 = one(startsends)'
  BY DEF one
<1>4. x1 = 1 => x = 1
  BY SMT, <1>2, <1>3 DEF one
<1>5. y1 = 1 => y = 1
  BY SMT, <1>2, <1>3 DEF one
<1>6. z1 = 1 => z = 1
  BY SMT, <1>2, <1>3 DEF one
<1>7. dev.fifo + x + y + z <= 3
  BY <1>2 DEF ThreeAtMost
<1>8. dev'.fifo + x1 + y1 + z1 <= 3
  BY SMT, <1>1, <1>4, <1>5, <1>6, <1>7
<1> QED  BY <1>3, <1>8 DEF ThreeAtMost

(* ... that finds the FIFO empty ...                                       *)
LEMMA ThreeIdle ==
  ASSUME idle, dev' = dev PROVE ThreeAtMost'
<1>1. dev'.fifo = 0
  BY DEF idle
<1>2. PICK x1 \in {0, 1}, y1 \in {0, 1}, z1 \in {0, 1} :
        x1 = one(prt = "thr")' /\ y1 = one(intr.pc = "echothr")' /\ z1 = one(startsends)'
  BY DEF one
<1>3. dev'.fifo + x1 + y1 + z1 <= 3
  BY SMT, <1>1
<1> QED  BY <1>2, <1>3 DEF ThreeAtMost

(* ... and in which one of them writes.                                    *)
LEMMA ThreeSend ==
  ASSUME UartTypes, ThreeAtMost, dev'.fifo = dev.fifo + 1, prt' = "thr" => prt = "thr",
         intr'.pc = "echothr" => intr.pc = "echothr", startsends' => startsends,
         \/ prt = "thr" /\ prt' # "thr"
         \/ intr.pc = "echothr" /\ intr'.pc # "echothr"
         \/ startsends /\ ~startsends'
  PROVE  ThreeAtMost'
<1>1. dev.fifo \in Nat
  BY UartFields
<1>2. PICK x \in {0, 1}, y \in {0, 1}, z \in {0, 1} :
        x = one(prt = "thr") /\ y = one(intr.pc = "echothr") /\ z = one(startsends)
  BY DEF one
<1>3. PICK x1 \in {0, 1}, y1 \in {0, 1}, z1 \in {0, 1} :
        x1 = one(prt = "thr")' /\ y1 = one(intr.pc = "echothr")' /\ z1 = one(startsends)'
  BY DEF one
<1>4. x1 = 1 => x = 1
  BY SMT, <1>2, <1>3 DEF one
<1>5. y1 = 1 => y = 1
  BY SMT, <1>2, <1>3 DEF one
<1>6. z1 = 1 => z = 1
  BY SMT, <1>2, <1>3 DEF one
<1>7. (x = 1 /\ x1 = 0) \/ (y = 1 /\ y1 = 0) \/ (z = 1 /\ z1 = 0)
  BY SMT, <1>2, <1>3 DEF one
<1>8. dev.fifo + x + y + z <= 3
  BY <1>2 DEF ThreeAtMost
<1>9. dev'.fifo + x1 + y1 + z1 <= 3
  BY SMT, <1>1, <1>4, <1>5, <1>6, <1>7, <1>8
<1> QED  BY <1>3, <1>9 DEF ThreeAtMost

-----------------------------------------------------------------------------
(* Every step keeps the invariant.                                         *)

(* A step that leaves the ring alone leaves it bounded.                    *)
LEMMA BoundKept == ASSUME TxBounded, tx' = tx PROVE TxBounded'
BY DEF TxBounded, queued

(* One character more, if it was not full, or one less.                    *)
LEMMA BoundMoves ==
  ASSUME UartTypes, TxBounded,
         (queued < UART_TX_BUF_SIZE /\ queued' = queued + 1) \/ (queued > 0 /\ queued' = queued - 1)
  PROVE  TxBounded'
<1>1. RingAt(TxUint, UART_TX_BUF_SIZE, tx.r, tx.w, queued) /\ UART_TX_BUF_SIZE \in Nat
  BY TxRing, TxConstants DEF UartTypes
<1>2. queued \in Nat
  BY <1>1, RingTells
<1> QED  BY SMT, <1>1, <1>2 DEF TxBounded

(* What a step that leaves the device alone does to the FIFO's count.      *)
LEMMA DeviceStays ==
  ASSUME UartTypes, dev' = dev PROVE dev'.fifo \in Nat /\ dev'.fifo <= dev.fifo
<1>1. dev.fifo \in Nat
  BY UartFields
<1>2. dev.fifo <= dev.fifo
  BY SMT, <1>1
<1> QED  BY <1>1, <1>2

(* A writer outside uartstart().                                           *)
LEMMA PutCharKeeps ==
  ASSUME UartInv, NEW p \in Writers, PutChar(p) PROVE UartInv'
<1>0. UartTypes /\ TxLocked /\ ThreeAtMost /\ TxBounded /\ p \in Agents
  BY DEF UartInv, Agents
<1>1. CASE uartputc(p)
  <2>1. /\ wr' \in [Writers -> Writer] /\ place(p)' = "put" /\ OthersStay(p)
        /\ UNCHANGED <<tx, intr, prt, dev, sent>> /\ txlock = Free /\ txlock' = p
    BY <1>0, <1>1, PutMoves DEF uartputc
  <2>2. UartTypes'
    BY <1>0, <2>1 DEF UartTypes
  <2>3. TxLocked'
    BY <1>0, <2>1, LockKept
  <2>4. startsends' => startsends
    BY <1>0, <2>1, NobodyBegins
  <2>5. ThreeAtMost'
    BY <1>0, <2>1, <2>4, DeviceStays, ThreeStay
  <2> QED  BY <1>0, <2>1, <2>2, <2>3, <2>5, BoundKept DEF UartInv
<1>2. CASE uartputc_wait(p)
  <2>1. /\ wr' \in [Writers -> Writer] /\ place(p)' = "asleep" /\ OthersStay(p)
        /\ UNCHANGED <<tx, intr, prt, dev, sent>>
    BY <1>0, <1>2, WaitMoves DEF uartputc_wait
  <2>2. UartTypes'
    BY <1>0, <2>1 DEF UartTypes
  <2>3. TxLocked'
    <3>1. txlock = p
      BY <1>0, <1>2, UartConstants DEF TxLocked, place, uartputc_wait
    <3> QED  BY <1>0, <2>1, <3>1, LockKept
  <2>4. startsends' => startsends
    BY <1>0, <2>1, NobodyBegins
  <2>5. ThreeAtMost'
    BY <1>0, <2>1, <2>4, DeviceStays, ThreeStay
  <2> QED  BY <1>0, <2>1, <2>2, <2>3, <2>5, BoundKept DEF UartInv
<1>3. CASE uartputc_store(p)
  <2>1. /\ wr' \in [Writers -> Writer] /\ place(p)' = "start" /\ OthersStay(p)
        /\ UNCHANGED <<txlock, intr, prt, dev, sent>>
    BY <1>0, <1>3, StoreMoves DEF uartputc_store
  <2>2. tx' \in Transmit /\ queued < UART_TX_BUF_SIZE /\ queued' = queued + 1
    BY <1>0, <1>3, StorePuts
  <2>3. UartTypes'
    BY <1>0, <2>1, <2>2 DEF UartTypes
  <2>4. TxLocked'
    <3>1. txlock = p
      BY <1>0, <1>3, UartConstants DEF TxLocked, place, uartputc_store
    <3> QED  BY <1>0, <2>1, <3>1, LockKept
  <2>5. startsends' => startsends
    BY <1>0, <2>1, NobodyBegins
  <2>6. ThreeAtMost'
    BY <1>0, <2>1, <2>5, DeviceStays, ThreeStay
  <2> QED  BY <1>0, <2>2, <2>3, <2>4, <2>6, BoundMoves DEF UartInv
<1> QED  BY <1>1, <1>2, <1>3 DEF PutChar

(* uartstart(), by a writer or by the handler.                             *)
LEMMA StartKeeps ==
  ASSUME UartInv, NEW a \in Agents, uartstart(a) PROVE UartInv'
<1>0. UartTypes /\ TxLocked /\ ThreeAtMost /\ TxBounded /\ wr \in [Writers -> Writer] /\ dev \in Device
  BY DEF UartInv, UartTypes
<1>1. CASE uartstart_empty(a) \/ uartstart_busy(a)
  <2>1. PICK q : q = (IF a = "intr" THEN "done" ELSE "out") /\ q \notin {"thr", "start", "put", "echothr"}
    <3>1. (IF a = "intr" THEN "done" ELSE "out") \notin {"thr", "start", "put", "echothr"}
      BY SMT
    <3>2. PICK q : q = (IF a = "intr" THEN "done" ELSE "out")
      OBVIOUS
    <3> QED  BY <3>1, <3>2
  <2>2. moved(a, q, wr) /\ txlock = a /\ UNCHANGED <<tx, prt, sent>> /\ (ReadISR \/ dev' = dev)
    BY <1>1, <2>1 DEF uartstart_empty, uartstart_busy, returned, starting
  <2>3. wr' \in [Writers -> Writer] /\ intr' \in Interrupt /\ place(a)' = q /\ OthersStay(a)
    BY <1>0, <2>1, <2>2, StartMoves
  <2>4. dev' \in Device /\ dev'.fifo = dev.fifo
    BY <1>0, <2>2, DeviceTyped
  <2>5. UartTypes'
    BY <1>0, <2>2, <2>3, <2>4 DEF UartTypes
  <2>6. TxLocked'
    BY <1>0, <2>1, <2>2, <2>3, LockKept
  <2>7. startsends' => startsends
    BY <2>1, <2>3, NobodyBegins
  <2>8. intr'.pc = "echothr" => intr.pc = "echothr"
    BY <2>1, <2>3, UartConstants DEF OthersStay, place, Agents
  <2>9. dev'.fifo \in Nat /\ dev'.fifo <= dev.fifo
    <3>1. dev.fifo \in Nat
      BY <1>0, UartFields
    <3> QED  BY SMT, <2>4, <3>1
  <2>10. ThreeAtMost'
    BY <1>0, <2>2, <2>7, <2>8, <2>9, ThreeStay
  <2> QED  BY <1>0, <2>2, <2>5, <2>6, <2>10, BoundKept DEF UartInv
<1>2. CASE uartstart_take(a)
  <2>1. moved(a, "thr", wakes) /\ txlock = a /\ UNCHANGED <<txlock, prt, dev>> /\ idle
    BY <1>2 DEF uartstart_take, starting
  <2>2. wakes \in [Writers -> Writer] /\ \A p \in Writers : wakes[p].pc = wr[p].pc \/ (wr[p].pc = "asleep" /\ wakes[p].pc = "woken")
    BY <1>0, WakesTyped
  <2>3. wr' \in [Writers -> Writer] /\ intr' \in Interrupt /\ place(a)' = "thr" /\ OthersStay(a)
    BY <1>0, <2>1, <2>2, StartMoves
  <2>4. tx' \in Transmit /\ sent' \in Out /\ queued > 0 /\ queued' = queued - 1
    BY <1>0, <1>2, StartTakes
  <2>5. UartTypes'
    BY <1>0, <2>1, <2>3, <2>4 DEF UartTypes
  <2>6. TxLocked'
    BY <1>0, <2>1, <2>3, LockKept
  <2>7. ThreeAtMost'
    BY <2>1, ThreeIdle
  <2> QED  BY <1>0, <2>4, <2>5, <2>6, <2>7, BoundMoves DEF UartInv
<1>3. CASE uartstart_send(a)
  <2>1. moved(a, "start", wr) /\ txlock = a /\ UNCHANGED <<tx, txlock, prt, sent>> /\ WriteTHR /\ place(a) = "thr"
    BY <1>3 DEF uartstart_send, sending, place
  <2>2. wr' \in [Writers -> Writer] /\ intr' \in Interrupt /\ place(a)' = "start" /\ OthersStay(a)
    BY <1>0, <2>1, StartMoves
  <2>3. dev' \in Device /\ dev'.fifo = dev.fifo + 1
    BY <1>0, <2>1, DeviceTyped
  <2>4. UartTypes'
    BY <1>0, <2>1, <2>2, <2>3 DEF UartTypes
  <2>5. TxLocked'
    BY <1>0, <2>1, <2>2, LockKept
  <2>6. ~startsends'
    BY <1>0, <2>1, <2>2, OneSends
  <2>7. startsends
    BY <2>1 DEF startsends
  <2>8. intr'.pc = "echothr" => intr.pc = "echothr"
    BY <2>2, UartConstants DEF OthersStay, place, Agents
  <2>9. ThreeAtMost'
    BY <1>0, <2>1, <2>3, <2>6, <2>7, <2>8, ThreeSend
  <2> QED  BY <1>0, <2>1, <2>4, <2>5, <2>9, BoundKept DEF UartInv
<1> QED  BY <1>1, <1>2, <1>3 DEF uartstart

(* Steps of nobody that uart_tx_lock concerns: printf() and the device.    *)
LEMMA OutsideKeeps ==
  ASSUME UartInv, printf_check \/ printf_send \/ transmit \/ receive PROVE UartInv'
<1>0. UartTypes /\ TxLocked /\ ThreeAtMost /\ TxBounded /\ dev \in Device
  BY DEF UartInv, UartTypes
<1>1. UNCHANGED <<tx, txlock, wr, intr, sent>>
  BY DEF printf_check, printf_send, transmit, receive
<1>2. \A a \in Agents : place(a)' = place(a)
  BY <1>1, NobodyMoves
<1>3. TxLocked'
  BY <1>0, <1>1, <1>2 DEF TxLocked
<1>4. startsends' <=> startsends
  BY <1>2 DEF startsends
<1>5. TxBounded'
  BY <1>0, <1>1, BoundKept
<1>6. dev' \in Device /\ prt' \in {"out", "thr"}
  <2>1. dev' = dev \/ WriteTHR \/ transmit \/ receive
    BY DEF printf_check, printf_send
  <2>2. prt' \in {"out", "thr"}
    BY <1>0 DEF printf_check, printf_send, transmit, receive, UartTypes
  <2> QED  BY <1>0, <2>1, <2>2, DeviceTyped
<1>7. UartTypes'
  BY <1>0, <1>1, <1>6 DEF UartTypes
<1>8. ASSUME printf_check PROVE ThreeAtMost'
  BY <1>8, ThreeIdle DEF printf_check
<1>9. ASSUME printf_send PROVE ThreeAtMost'
  <2>1. dev'.fifo = dev.fifo + 1 /\ prt = "thr" /\ prt' # "thr"
    BY <1>0, <1>9, DeviceTyped DEF printf_send
  <2> QED  BY <1>0, <1>1, <1>4, <2>1, ThreeSend
<1>10. ASSUME transmit \/ receive PROVE ThreeAtMost'
  <2>1. dev'.fifo \in Nat /\ dev'.fifo <= dev.fifo
    <3>1. dev.fifo \in Nat
      BY <1>0, UartFields
    <3>2. dev'.fifo = dev.fifo \/ (dev.fifo > 0 /\ dev'.fifo = dev.fifo - 1)
      BY <1>0, <1>10, DeviceTyped DEF transmit
    <3> QED  BY SMT, <3>1, <3>2
  <2>2. prt' = prt
    BY <1>10 DEF transmit, receive
  <2> QED  BY <1>0, <1>1, <1>4, <2>1, <2>2, ThreeStay
<1>11. ThreeAtMost'
  BY <1>8, <1>9, <1>10
<1> QED  BY <1>3, <1>5, <1>7, <1>11 DEF UartInv

(* The handler's new place and count are of their types.                   *)
LEMMA HandlerTyped ==
  ASSUME UartTypes, claim \/ uartintr_getc \/ echo_check \/ echo_send \/ uartintr_tx \/ plic_complete
  PROVE  /\ intr' \in Interrupt /\ intr'.pc # "thr" /\ wr' = wr
         /\ UNCHANGED <<tx, prt, sent>> /\ dev' \in Device
         /\ intr'.pc \in {"put", "start", "thr"} => uartintr_tx
<1>0. intr \in Interrupt /\ dev \in Device /\ intr.echo \in Int
  BY UartFields DEF UartTypes
<1>1. wr' = wr /\ UNCHANGED <<tx, prt, sent>>
  BY DEF claim, uartintr_getc, echo_check, echo_send, uartintr_tx, plic_complete
<1>2. dev' \in Device
  <2>1. dev' = dev \/ WriteTHR \/ uartintr_getc
    BY DEF claim, echo_check, echo_send, uartintr_tx, plic_complete
  <2> QED  BY <1>0, <2>1, DeviceTyped
<1>3. ASSUME NEW q \in {"rx", "echothr", "start", "none"}
      PROVE  [intr EXCEPT !.pc = q] \in Interrupt /\ [intr EXCEPT !.pc = q].pc = q
  BY SMT, <1>0 DEF Interrupt
<1>4. CASE claim \/ echo_check \/ plic_complete
  <2>1. PICK q \in {"rx", "echothr", "none"} : intr' = [intr EXCEPT !.pc = q]
    BY <1>4 DEF claim, echo_check, plic_complete
  <2>2. intr' \in Interrupt /\ intr'.pc = q
    BY <1>3, <2>1
  <2>3. q \notin {"put", "start", "thr"}
    BY SMT
  <2> QED  BY <1>1, <1>2, <2>2, <2>3
<1>5. CASE uartintr_tx
  <2>1. intr' = [intr EXCEPT !.pc = "start"]
    BY <1>5 DEF uartintr_tx
  <2>2. intr' \in Interrupt /\ intr'.pc = "start"
    BY <1>3, <2>1
  <2> QED  BY <1>1, <1>2, <1>5, <2>2
<1>6. CASE uartintr_getc
  <2>1. PICK n \in 0..EchoMax : intr' = [pc |-> IF n = 0 THEN "rx" ELSE "echo", echo |-> n]
    BY <1>6 DEF uartintr_getc
  <2>2. PICK q \in {"rx", "echo"} : intr' = [pc |-> q, echo |-> n]
    BY <2>1
  <2>3. intr' \in Interrupt /\ intr'.pc = q /\ q \notin {"put", "start", "thr"}
    BY SMT, <2>2, UartConstants DEF Interrupt
  <2> QED  BY <1>1, <1>2, <2>3
<1>7. CASE echo_send
  <2>1. PICK q \in {"rx", "echo"} : intr' = [pc |-> q, echo |-> intr.echo - 1]
    BY <1>7 DEF echo_send
  <2>2. intr' \in Interrupt /\ intr'.pc = q /\ q \notin {"put", "start", "thr"}
    BY SMT, <1>0, <2>1 DEF Interrupt
  <2> QED  BY <1>1, <1>2, <2>2
<1> QED  BY <1>4, <1>5, <1>6, <1>7

(* The handler outside uartstart().                                        *)
LEMMA HandlerKeeps ==
  ASSUME UartInv, claim \/ uartintr_getc \/ echo_check \/ echo_send \/ uartintr_tx \/ plic_complete
  PROVE  UartInv'
<1>0. UartTypes /\ TxLocked /\ ThreeAtMost /\ TxBounded /\ dev \in Device
  BY DEF UartInv, UartTypes
<1>1. /\ intr' \in Interrupt /\ intr'.pc # "thr" /\ wr' = wr /\ UNCHANGED <<tx, prt, sent>> /\ dev' \in Device
      /\ intr'.pc \in {"put", "start", "thr"} => uartintr_tx
  BY <1>0, HandlerTyped
<1>2. "intr" \in Agents /\ place("intr")' = intr'.pc /\ OthersStay("intr")
  BY <1>1, HandlerMoves DEF Agents
<1>3. UartTypes'
  BY <1>0, <1>1 DEF UartTypes
<1>4. TxLocked'
  <2>1. txlock' = txlock \/ (uartintr_tx /\ txlock = Free /\ txlock' = "intr")
    BY DEF claim, uartintr_getc, echo_check, echo_send, uartintr_tx, plic_complete
  <2>2. uartintr_tx => txlock' = "intr"
    BY DEF uartintr_tx
  <2> QED  BY <1>0, <1>1, <1>2, <2>1, <2>2, LockKept
<1>5. startsends' => startsends
  BY <1>1, <1>2, NobodyBegins
<1>6. TxBounded'
  BY <1>0, <1>1, BoundKept
<1>7. ASSUME echo_check PROVE ThreeAtMost'
  BY <1>7, ThreeIdle DEF echo_check
<1>8. ASSUME echo_send PROVE ThreeAtMost'
  <2>1. PICK q \in {"rx", "echo"} : intr' = [pc |-> q, echo |-> intr.echo - 1]
    BY <1>8 DEF echo_send
  <2>2. q # "echothr" /\ intr'.pc = q
    BY SMT, <2>1
  <2>3. intr.pc = "echothr" /\ dev'.fifo = dev.fifo + 1
    BY <1>0, <1>8, DeviceTyped DEF echo_send
  <2> QED  BY <1>0, <1>1, <1>5, <2>2, <2>3, ThreeSend
<1>9. ASSUME claim \/ uartintr_getc \/ uartintr_tx \/ plic_complete PROVE ThreeAtMost'
  <2>1. dev'.fifo = dev.fifo
    <3>1. dev' = dev \/ uartintr_getc
      BY <1>9 DEF claim, uartintr_tx, plic_complete
    <3> QED  BY <1>0, <3>1, DeviceTyped
  <2>2. dev'.fifo \in Nat /\ dev'.fifo <= dev.fifo
    <3>1. dev.fifo \in Nat
      BY <1>0, UartFields
    <3> QED  BY SMT, <2>1, <3>1
  <2>3. intr'.pc # "echothr"
    <3>1. intr \in Interrupt
      BY <1>0 DEF UartTypes
    <3>2. CASE uartintr_getc
      <4>1. PICK n \in 0..EchoMax : intr' = [pc |-> IF n = 0 THEN "rx" ELSE "echo", echo |-> n]
        BY <3>2 DEF uartintr_getc
      <4> QED  BY SMT, <4>1
    <3>3. CASE claim \/ uartintr_tx \/ plic_complete
      <4>1. PICK q \in {"rx", "start", "none"} : intr' = [intr EXCEPT !.pc = q]
        BY <3>3 DEF claim, uartintr_tx, plic_complete
      <4> QED  BY SMT, <3>1, <4>1 DEF Interrupt
    <3> QED  BY <1>9, <3>2, <3>3
  <2> QED  BY <1>0, <1>1, <1>5, <2>2, <2>3, ThreeStay
<1>10. ThreeAtMost'
  BY <1>7, <1>8, <1>9
<1> QED  BY <1>3, <1>4, <1>6, <1>10 DEF UartInv

(* The invariant holds before anyone has written.                          *)
LEMMA UartInitially == UartInit => UartInv
<1> SUFFICES ASSUME UartInit PROVE UartInv
  OBVIOUS
<1>0. dead \in Out
  <2>1. \E x \in Out : TRUE
    BY DEF UartInit
  <2> QED  BY <2>1 DEF dead
<1>1. 0 \in 0..TxUint - 1 /\ 0 \in Int /\ 0 \in Nat
  BY SMT, TxConstants
<1>2. tx \in Transmit
  <2>1. [i \in 0..UART_TX_BUF_SIZE - 1 |-> dead] \in Ring(Out, UART_TX_BUF_SIZE)
    BY <1>0 DEF Ring
  <2> QED  BY <1>1, <2>1 DEF UartInit, Transmit
<1>3. wr \in [Writers -> Writer] /\ \A p \in Writers : wr[p].pc = "out"
  <2>1. [pc |-> "out", c |-> dead] \in Writer /\ [pc |-> "out", c |-> dead].pc = "out"
    BY SMT, <1>0 DEF Writer
  <2> QED  BY <2>1 DEF UartInit
<1>4. intr \in Interrupt /\ intr.pc = "none"
  BY SMT DEF UartInit, Interrupt
<1>5. dev \in Device /\ dev.fifo = 0
  BY <1>1 DEF UartInit, Device
<1>6. UartTypes
  BY <1>2, <1>3, <1>4, <1>5 DEF UartInit, UartTypes
<1>7. \A a \in Agents : place(a) \in {"none", "out"}
  BY <1>3, <1>4 DEF Agents, place
<1>8. TxLocked
  BY <1>7 DEF TxLocked
<1>9. ThreeAtMost
  <2>1. PICK x \in {0, 1}, y \in {0, 1}, z \in {0, 1} :
          x = one(prt = "thr") /\ y = one(intr.pc = "echothr") /\ z = one(startsends)
    BY DEF one
  <2>2. dev.fifo + x + y + z <= 3
    BY SMT, <1>5
  <2> QED  BY <2>1, <2>2 DEF ThreeAtMost
<1>10. TxBounded
  <2>1. tx.r = tx.w
    BY DEF UartInit
  <2>2. RingAt(TxUint, UART_TX_BUF_SIZE, tx.r, tx.w, queued)
    BY <1>2, TxRing
  <2>3. queued = 0
    BY SMT, <2>1, <2>2, RingTells
  <2> QED  BY SMT, <2>3, TxConstants DEF TxBounded
<1> QED  BY <1>6, <1>8, <1>9, <1>10 DEF UartInv

(* A step that changes nothing keeps it.                                   *)
LEMMA UartStutters == ASSUME UartInv, UNCHANGED uartvars PROVE UartInv'
<1>1. UNCHANGED <<tx, txlock, wr, intr, prt, dev, sent>>
  BY DEF uartvars
<1>2. UartTypes' /\ TxBounded'
  BY <1>1, BoundKept DEF UartInv, UartTypes
<1>3. TxLocked'
  BY <1>1 DEF UartInv, TxLocked, place
<1>4. startsends' <=> startsends
  BY <1>1 DEF startsends, place
<1>5. ThreeAtMost'
  BY <1>1, <1>4, DeviceStays, ThreeStay DEF UartInv
<1> QED  BY <1>2, <1>3, <1>5 DEF UartInv

(* Every step keeps it.                                                    *)
LEMMA UartStep == UartInv /\ [UartNext]_uartvars => UartInv'
<1> SUFFICES ASSUME UartInv, [UartNext]_uartvars PROVE UartInv'
  OBVIOUS
<1>1. CASE \E p \in Writers : PutChar(p)
  BY <1>1, PutCharKeeps
<1>2. CASE \E a \in Agents : uartstart(a)
  BY <1>2, StartKeeps
<1>3. CASE printf_check \/ printf_send \/ transmit \/ receive
  BY <1>3, OutsideKeeps
<1>4. CASE claim \/ uartintr_getc \/ echo_check \/ echo_send \/ uartintr_tx \/ plic_complete
  BY <1>4, HandlerKeeps
<1>5. CASE UNCHANGED uartvars
  BY <1>5, UartStutters
<1>6. "intr" \in Agents /\ \A p \in Writers : p \in Agents
  BY DEF Agents
<1> QED  BY <1>1, <1>2, <1>3, <1>4, <1>5, <1>6 DEF UartNext, Handler

(* Whatever echo, printf() and uartstart() do to the register without a    *)
(* common lock, a FIFO of three characters or more is not overrun.         *)
THEOREM FifoNeverOverrunCorrect == UartSpec => []FifoNeverOverrun
<1>1. UartInv => FifoNeverOverrun
  <2> SUFFICES ASSUME UartInv PROVE FifoNeverOverrun
    OBVIOUS
  <2>1. PICK x \in {0, 1}, y \in {0, 1}, z \in {0, 1} :
          x = one(prt = "thr") /\ y = one(intr.pc = "echothr") /\ z = one(startsends)
    BY DEF one
  <2>2. dev.fifo \in Nat /\ dev.fifo + x + y + z <= 3
    BY <2>1, UartFields DEF UartInv, ThreeAtMost
  <2> QED  BY SMT, <2>2, UartConstants DEF FifoNeverOverrun
<1> QED  BY <1>1, UartInitially, UartStep, PTL DEF UartSpec

(* With any number of writers and a ring of any size, whose indices wrap   *)
(* anywhere, the transmit ring is a queue.                                 *)
THEOREM UartRefinesQueue == UartSpec => OutputIsQueue
<1>1. UartInit => Q!Init
  <2> SUFFICES ASSUME UartInit PROVE Q!Init
    OBVIOUS
  <2>1. UartTypes /\ tx \in Transmit /\ tx.r = tx.w /\ sent \in Out
    BY UartInitially DEF UartInv, UartTypes, UartInit
  <2>2. RingAt(TxUint, UART_TX_BUF_SIZE, tx.r, tx.w, queued)
    BY <2>1, TxRing
  <2>3. queued = 0
    BY SMT, <2>1, <2>2, RingTells
  <2>4. ringchars = [i \in 1..0 |-> tx.buf[txadd(tx.r, i - 1) % UART_TX_BUF_SIZE]]
    BY <2>3 DEF ringchars
  <2>5. ringchars = << >>
    BY SMT, <2>4
  <2> QED  BY <2>1, <2>5 DEF Q!Init
<1>2. UartInv /\ [UartNext]_uartvars => [Q!Put \/ Q!Take]_(Q!vars)
  <2> SUFFICES ASSUME UartInv, [UartNext]_uartvars PROVE [Q!Put \/ Q!Take]_(Q!vars)
    OBVIOUS
  <2>0. UartTypes /\ TxBounded /\ tx \in Transmit
    BY DEF UartInv, UartTypes
  <2>1. ASSUME NEW p \in Writers, uartputc_store(p) PROVE Q!Put
    <3>1. queued < UART_TX_BUF_SIZE /\ ringchars' = Append(ringchars, wr[p].c) /\ wr[p].c \in Out
      BY <2>0, <2>1, StorePuts, UartFields
    <3>2. Len(ringchars) = queued
      <4>1. RingAt(TxUint, UART_TX_BUF_SIZE, tx.r, tx.w, queued)
        BY <2>0, TxRing
      <4>2. queued \in Nat
        BY <4>1, RingTells
      <4>3. Len(Run(tx.buf, UART_TX_BUF_SIZE, tx.r, queued)) = queued
        BY <4>2, RunLen
      <4> QED  BY <2>0, <4>3, RingChars
    <3>3. sent' = sent
      BY <2>1 DEF uartputc_store
    <3> QED  BY <3>1, <3>2, <3>3 DEF Q!Put
  <2>2. ASSUME NEW a, uartstart_take(a) PROVE Q!Take
    BY <2>0, <2>2, StartTakes DEF Q!Take
  <2>3. CASE UNCHANGED <<tx, sent>>
    BY <2>3 DEF Q!vars, ringchars, queued
  <2>4. CASE UNCHANGED uartvars
    BY <2>3, <2>4 DEF uartvars
  <2>5. ASSUME NEW p \in Writers, uartputc(p) \/ uartputc_wait(p) PROVE UNCHANGED <<tx, sent>>
    BY <2>5 DEF uartputc, uartputc_wait
  <2>6. ASSUME NEW a, uartstart_empty(a) \/ uartstart_busy(a) \/ uartstart_send(a) PROVE UNCHANGED <<tx, sent>>
    BY <2>6 DEF uartstart_empty, uartstart_busy, uartstart_send
  <2>7. ASSUME printf_check \/ printf_send \/ transmit \/ receive PROVE UNCHANGED <<tx, sent>>
    BY <2>7 DEF printf_check, printf_send, transmit, receive
  <2>8. ASSUME claim \/ uartintr_getc \/ echo_check \/ echo_send \/ uartintr_tx \/ plic_complete
        PROVE  UNCHANGED <<tx, sent>>
    BY <2>8 DEF claim, uartintr_getc, echo_check, echo_send, uartintr_tx, plic_complete
  <2> QED  BY <2>1, <2>2, <2>3, <2>4, <2>5, <2>6, <2>7, <2>8 DEF UartNext, Handler, PutChar, uartstart
<1> QED  BY <1>1, <1>2, UartInitially, UartStep, PTL DEF UartSpec, OutputIsQueue, Q!Spec

-----------------------------------------------------------------------------
(* Console: the input ring is the line discipline's text.                  *)
ConsSpec == ConsInit /\ [][ConsNext]_consvars

Typed == Chars \union {NL, EOF}
ConsRing == [buf : Ring(Typed, INPUT_BUF_SIZE), r : 0..ConsUint - 1, w : 0..ConsUint - 1, e : 0..ConsUint - 1]
Reader == [pc : {"out", "loop", "asleep", "woken"}, n : Nat, target : Nat, killed : BOOLEAN]
ConsTypes == cons \in ConsRing /\ rd \in [Readers -> Reader]

\* The characters handed over and not read, and those of the unfinished line.
given == sub(cons.w, cons.r)
typed == sub(cons.e, cons.w)

\* The ring is never more than full.
ConsBounded == given + typed <= INPUT_BUF_SIZE
\* The unfinished line holds no '\n', at which C('U') would stop.
LineOpen == \A k \in Nat : k < typed => cons.buf[Slot(INPUT_BUF_SIZE, cons.w, k)] # NL
\* A full ring has been handed over: the second half of ReaderAwake.
FullGiven == given + typed = INPUT_BUF_SIZE => typed = 0
Asleep == \A p \in Readers : rd[p].pc = "asleep" => cons.r = cons.w

ConsInv == ConsTypes /\ ConsBounded /\ LineOpen /\ FullGiven /\ Asleep

(* What the constants say of the input ring.                               *)
LEMMA ConsConstants ==
  /\ INPUT_BUF_SIZE \in Nat \ {0} /\ ConsUint \in Nat \ {0}
  /\ INPUT_BUF_SIZE \in Nat /\ INPUT_BUF_SIZE < ConsUint
  /\ \A x \in 0..ConsUint - 1 : Counter(ConsUint, INPUT_BUF_SIZE, x) /\ x \in Nat
<1>1. /\ INPUT_BUF_SIZE \in Nat \ {0} /\ ConsUint \in Nat \ {0}
      /\ INPUT_BUF_SIZE \in Nat /\ INPUT_BUF_SIZE < ConsUint
  BY SMT, ConsoleConstants
<1>2. \A x \in 0..ConsUint - 1 : x \in Nat
  BY SMT, ConsoleConstants
<1> QED  BY <1>1, <1>2, ConsoleConstants DEF Counter

(* The fields of the ring have their types.                                *)
LEMMA ConsFields ==
  cons \in ConsRing =>
    /\ cons.buf \in Ring(Typed, INPUT_BUF_SIZE)
    /\ cons.r \in 0..ConsUint - 1 /\ cons.w \in 0..ConsUint - 1 /\ cons.e \in 0..ConsUint - 1
BY DEF ConsRing

(* The two parts of the ring.                                              *)
LEMMA ConsParts ==
  cons \in ConsRing =>
    /\ RingAt(ConsUint, INPUT_BUF_SIZE, cons.r, cons.w, given)
    /\ RingAt(ConsUint, INPUT_BUF_SIZE, cons.w, cons.e, typed)
    /\ given = Ahead(ConsUint, cons.r, cons.w) /\ typed = Ahead(ConsUint, cons.w, cons.e)
<1> SUFFICES ASSUME cons \in ConsRing
             PROVE  /\ RingAt(ConsUint, INPUT_BUF_SIZE, cons.r, cons.w, given)
                    /\ RingAt(ConsUint, INPUT_BUF_SIZE, cons.w, cons.e, typed)
                    /\ given = Ahead(ConsUint, cons.r, cons.w) /\ typed = Ahead(ConsUint, cons.w, cons.e)
  OBVIOUS
<1>1. given = Ahead(ConsUint, cons.r, cons.w) /\ typed = Ahead(ConsUint, cons.w, cons.e)
  BY DEF given, typed, sub, Ahead
<1> QED  BY <1>1, ConsFields, ConsConstants DEF RingAt

(* Their lengths.                                                          *)
LEMMA PartLengths ==
  cons \in ConsRing => given \in Nat /\ typed \in Nat /\ (given = 0 <=> cons.r = cons.w) /\ (typed = 0 <=> cons.w = cons.e)
<1> SUFFICES ASSUME cons \in ConsRing
             PROVE  given \in Nat /\ typed \in Nat /\ (given = 0 <=> cons.r = cons.w) /\ (typed = 0 <=> cons.w = cons.e)
  OBVIOUS
<1>1. /\ RingAt(ConsUint, INPUT_BUF_SIZE, cons.r, cons.w, given)
      /\ RingAt(ConsUint, INPUT_BUF_SIZE, cons.w, cons.e, typed)
  BY ConsParts
<1>2. given \in Nat /\ typed \in Nat
  BY <1>1, RingTells
<1>3. given = 0 <=> cons.r = cons.w
  BY SMT, <1>1, RingTells
<1>4. typed = 0 <=> cons.w = cons.e
  BY SMT, <1>1, RingTells
<1> QED  BY <1>2, <1>3, <1>4

(* Two distances add up while they fit the ring.                           *)
LEMMA TwoParts ==
  ASSUME NEW M, NEW P, NEW r, NEW w, NEW e, NEW n, NEW m, RingAt(M, P, r, w, n), RingAt(M, P, w, e, m), n + m <= P
  PROVE  RingAt(M, P, r, e, n + m) /\ Ahead(M, r, e) = n + m
<1>1. M \in Nat \ {0} /\ r \in 0..M - 1 /\ w \in 0..M - 1 /\ e \in 0..M - 1
  BY DEF RingAt, Counter
<1>2. P \in Nat /\ P < M /\ n = Ahead(M, r, w) /\ m = Ahead(M, w, e)
  BY DEF RingAt, Counter
<1>3. n \in Nat /\ m \in Nat
  BY RingTells
<1>4. n + m < M
  BY SMT, <1>1, <1>2, <1>3
<1>5. Ahead(M, r, w) + Ahead(M, w, e) < M
  BY <1>2, <1>4
<1>6. Ahead(M, r, e) = Ahead(M, r, w) + Ahead(M, w, e)
  BY ONLY SMT, <1>1, <1>5, AheadSum
<1> QED  BY <1>2, <1>6 DEF RingAt

(* Together they are what consoleintr() compares with the size.            *)
LEMMA ConsWhole ==
  cons \in ConsRing /\ ConsBounded =>
    RingAt(ConsUint, INPUT_BUF_SIZE, cons.r, cons.e, given + typed) /\ sub(cons.e, cons.r) = given + typed
<1> SUFFICES ASSUME cons \in ConsRing, ConsBounded
             PROVE  /\ RingAt(ConsUint, INPUT_BUF_SIZE, cons.r, cons.e, given + typed)
                    /\ sub(cons.e, cons.r) = given + typed
  OBVIOUS
<1>1. /\ RingAt(ConsUint, INPUT_BUF_SIZE, cons.r, cons.w, given)
      /\ RingAt(ConsUint, INPUT_BUF_SIZE, cons.w, cons.e, typed)
  BY ConsParts
<1>2. /\ RingAt(ConsUint, INPUT_BUF_SIZE, cons.r, cons.e, given + typed)
      /\ Ahead(ConsUint, cons.r, cons.e) = given + typed
  BY SMT, <1>1, TwoParts DEF ConsBounded
<1> QED  BY <1>2 DEF sub, Ahead

(* The writer goes back n steps.                                           *)
LEMMA RingBack ==
  ASSUME NEW M, NEW P, NEW w, NEW e, NEW m, RingAt(M, P, w, e, m), NEW n \in Nat, n <= m
  PROVE  (e + M - n) % M \in 0..M - 1 /\ RingAt(M, P, w, (e + M - n) % M, m - n)
<1>1. M \in Nat \ {0} /\ w \in 0..M - 1 /\ e \in 0..M - 1 /\ m = Ahead(M, w, e)
  BY DEF RingAt, Counter
<1>2. n \in 0..Ahead(M, w, e)
  <2>1. m \in Nat
    BY RingTells
  <2>2. n \in 0..m
    BY SMT, <2>1
  <2> QED  BY <1>1, <2>2
<1>3. (e + M - n) % M \in 0..M - 1 /\ Ahead(M, w, (e + M - n) % M) = Ahead(M, w, e) - n
  BY ONLY SMT, <1>1, <1>2, AheadBack
<1> QED  BY <1>1, <1>3 DEF RingAt, Counter

-----------------------------------------------------------------------------
(* What the operations do to the ring.                                     *)

(* After a step: the lengths of the two parts.                             *)
LEMMA PartsAfter ==
  ASSUME cons' \in ConsRing
  PROVE  /\ given' = Ahead(ConsUint, cons'.r, cons'.w) /\ typed' = Ahead(ConsUint, cons'.w, cons'.e)
         /\ given' \in Nat /\ typed' \in Nat
<1>1. (cons \in ConsRing => /\ given = Ahead(ConsUint, cons.r, cons.w)
                            /\ typed = Ahead(ConsUint, cons.w, cons.e))'
  BY ConsParts, PTL
<1>2. (cons \in ConsRing => given \in Nat /\ typed \in Nat)'
  BY PartLengths, PTL
<1> QED  BY <1>1, <1>2

(* consoleintr() stores a character: the line grows by it, or is handed    *)
(* over with it.                                                           *)
LEMMA CharStored ==
  ASSUME cons \in ConsRing, ConsBounded, NEW c \in Typed, intr_char(c)
  PROVE  /\ cons' \in ConsRing /\ cons'.r = cons.r /\ given + typed < INPUT_BUF_SIZE
         /\ Stored(Typed, INPUT_BUF_SIZE, cons.r, given + typed, cons.buf, c, cons'.buf)
         /\ Stored(Typed, INPUT_BUF_SIZE, cons.w, typed, cons.buf, c, cons'.buf)
         /\ IF c \in {NL, EOF} \/ given + typed + 1 = INPUT_BUF_SIZE
            THEN given' = given + typed + 1 /\ typed' = 0
            ELSE given' = given /\ typed' = typed + 1 /\ cons'.w = cons.w
<1>1. /\ cons.buf \in Ring(Typed, INPUT_BUF_SIZE)
      /\ cons.r \in 0..ConsUint - 1 /\ cons.w \in 0..ConsUint - 1 /\ cons.e \in 0..ConsUint - 1
  BY ConsFields
<1>2. /\ RingAt(ConsUint, INPUT_BUF_SIZE, cons.w, cons.e, typed)
      /\ RingAt(ConsUint, INPUT_BUF_SIZE, cons.r, cons.e, given + typed)
      /\ sub(cons.e, cons.r) = given + typed /\ given = Ahead(ConsUint, cons.r, cons.w)
  BY ConsParts, ConsWhole
<1>3. given \in Nat /\ typed \in Nat /\ INPUT_BUF_SIZE \in Nat
  BY PartLengths, ConsConstants
<1>4. given + typed < INPUT_BUF_SIZE
  BY <1>2 DEF intr_char
<1>5. typed < INPUT_BUF_SIZE
  BY SMT, <1>3, <1>4
<1>6. PICK e1, buf1 : e1 = (cons.e + 1) % ConsUint /\ buf1 = [cons.buf EXCEPT ![cons.e % INPUT_BUF_SIZE] = c]
  OBVIOUS
<1>7. /\ Stored(Typed, INPUT_BUF_SIZE, cons.r, given + typed, cons.buf, c, buf1)
      /\ Stored(Typed, INPUT_BUF_SIZE, cons.w, typed, cons.buf, c, buf1)
  BY <1>1, <1>2, <1>4, <1>5, <1>6, RunStore
<1>8. buf1 \in Ring(Typed, INPUT_BUF_SIZE)
  BY <1>7, RunAppend
<1>9. e1 \in 0..ConsUint - 1
  BY <1>2, <1>6, RingTells
<1>10. Ahead(ConsUint, cons.w, e1) = typed + 1
  BY SMTT(30), <1>2, <1>5, <1>6, RingTells
<1>11. Ahead(ConsUint, cons.r, e1) = given + typed + 1
  BY SMTT(30), <1>2, <1>4, <1>6, RingTells
<1>12. Ahead(ConsUint, e1, e1) = 0
  <2>1. RingAt(ConsUint, INPUT_BUF_SIZE, e1, e1, Ahead(ConsUint, e1, e1))
    BY <1>9, ConsConstants DEF RingAt
  <2> QED  BY SMT, <2>1, RingTells
<1>13. sub(e1, cons.r) = given + typed + 1
  BY <1>11 DEF sub, Ahead
<1>14. PICK w1 : w1 = IF c \in {NL, EOF} \/ given + typed + 1 = INPUT_BUF_SIZE THEN e1 ELSE cons.w
  OBVIOUS
<1>15. cons' = [cons EXCEPT !.buf = buf1, !.e = e1, !.w = w1]
  BY <1>6, <1>13, <1>14 DEF intr_char, stored, add
<1>16. w1 \in 0..ConsUint - 1
  BY <1>1, <1>9, <1>14
<1>17. cons' \in ConsRing /\ cons'.buf = buf1 /\ cons'.r = cons.r /\ cons'.w = w1 /\ cons'.e = e1
  BY <1>8, <1>9, <1>15, <1>16 DEF ConsRing
<1>18. given' = Ahead(ConsUint, cons.r, w1) /\ typed' = Ahead(ConsUint, w1, e1)
  BY <1>17, PartsAfter
<1>19. CASE c \in {NL, EOF} \/ given + typed + 1 = INPUT_BUF_SIZE
  <2>1. w1 = e1
    BY <1>14, <1>19
  <2>2. given' = given + typed + 1 /\ typed' = 0
    BY <1>11, <1>12, <1>18, <2>1
  <2> QED  BY <1>4, <1>7, <1>17, <1>19, <2>2
<1>20. CASE ~(c \in {NL, EOF} \/ given + typed + 1 = INPUT_BUF_SIZE)
  <2>1. w1 = cons.w
    BY <1>14, <1>20
  <2>2. given' = given /\ typed' = typed + 1
    BY <1>2, <1>10, <1>18, <2>1
  <2> QED  BY <1>4, <1>7, <1>17, <1>20, <2>1, <2>2
<1> QED  BY <1>19, <1>20

(* Erasing n characters of the line.                                       *)
LEMMA CharsErased ==
  ASSUME cons \in ConsRing, NEW n \in Nat, n <= typed, cons' = [cons EXCEPT !.e = sub(@, n)]
  PROVE  /\ cons' \in ConsRing /\ cons'.buf = cons.buf /\ cons'.r = cons.r /\ cons'.w = cons.w
         /\ given' = given /\ typed' = typed - n
<1>1. RingAt(ConsUint, INPUT_BUF_SIZE, cons.w, cons.e, typed) /\ given = Ahead(ConsUint, cons.r, cons.w)
  BY ConsParts
<1>2. PICK e1 : e1 = (cons.e + ConsUint - n) % ConsUint
  OBVIOUS
<1>3. e1 \in 0..ConsUint - 1 /\ RingAt(ConsUint, INPUT_BUF_SIZE, cons.w, e1, typed - n)
  BY <1>1, <1>2, RingBack
<1>4. cons' = [cons EXCEPT !.e = e1]
  BY <1>2 DEF sub
<1>5. cons' \in ConsRing /\ cons'.buf = cons.buf /\ cons'.r = cons.r /\ cons'.w = cons.w /\ cons'.e = e1
  BY <1>3, <1>4 DEF ConsRing
<1>6. given' = Ahead(ConsUint, cons.r, cons.w) /\ typed' = Ahead(ConsUint, cons.w, e1)
  BY <1>5, PartsAfter
<1> QED  BY <1>1, <1>3, <1>5, <1>6 DEF RingAt

(* The reader takes a character.                                           *)
LEMMA CharRead ==
  ASSUME cons \in ConsRing, cons.r # cons.w, cons' = [cons EXCEPT !.r = add(@, 1)]
  PROVE  /\ cons' \in ConsRing /\ cons'.buf = cons.buf /\ cons'.r = (cons.r + 1) % ConsUint
         /\ cons'.w = cons.w /\ cons'.e = cons.e
         /\ given \in Nat \ {0} /\ given' = given - 1 /\ typed' = typed
<1>1. RingAt(ConsUint, INPUT_BUF_SIZE, cons.r, cons.w, given) /\ typed = Ahead(ConsUint, cons.w, cons.e)
  BY ConsParts
<1>2. given \in Nat /\ given # 0
  BY PartLengths
<1>3. given > 0 /\ given \in Nat \ {0}
  BY SMT, <1>2
<1>4. PICK r1 : r1 = (cons.r + 1) % ConsUint
  OBVIOUS
<1>5. r1 \in 0..ConsUint - 1
  BY <1>1, <1>4, RingTells
<1>6. Ahead(ConsUint, r1, cons.w) = given - 1
  BY SMTT(30), <1>1, <1>3, <1>4, RingTells
<1>7. cons' = [cons EXCEPT !.r = r1]
  BY <1>4 DEF add
<1>8. cons' \in ConsRing /\ cons'.buf = cons.buf /\ cons'.r = r1 /\ cons'.w = cons.w /\ cons'.e = cons.e
  BY <1>5, <1>7 DEF ConsRing
<1>9. given' = Ahead(ConsUint, r1, cons.w) /\ typed' = Ahead(ConsUint, cons.w, cons.e)
  BY <1>8, PartsAfter
<1> QED  BY <1>1, <1>3, <1>4, <1>6, <1>8, <1>9

(* C('U') goes back over the whole unfinished line and no further.         *)
LEMMA KillStops ==
  ASSUME cons \in ConsRing, ConsBounded, LineOpen PROVE erasable(cons) = 1..typed
<1>1. RingAt(ConsUint, INPUT_BUF_SIZE, cons.w, cons.e, typed)
  BY ConsParts
<1>2. typed \in Nat /\ given \in Nat /\ INPUT_BUF_SIZE \in Nat
  BY PartLengths, ConsConstants
<1>3. typed <= INPUT_BUF_SIZE
  BY SMT, <1>2 DEF ConsBounded
<1>4. ASSUME NEW j \in Nat, j <= typed
      PROVE  RingAt(ConsUint, INPUT_BUF_SIZE, cons.w, sub(cons.e, j), typed - j)
  BY <1>1, <1>4, RingBack DEF sub
<1>5. sub(cons.e, typed) = cons.w
  <2>1. typed <= typed /\ typed - typed = 0
    BY SMT, <1>2
  <2>2. RingAt(ConsUint, INPUT_BUF_SIZE, cons.w, sub(cons.e, typed), 0)
    BY <1>2, <1>4, <2>1
  <2> QED  BY SMT, <2>2, RingTells
<1>6. ASSUME NEW j \in Nat, j < typed PROVE sub(cons.e, j) # cons.w
  <2>1. j <= typed /\ typed - j # 0
    BY SMT, <1>2, <1>6
  <2>2. RingAt(ConsUint, INPUT_BUF_SIZE, cons.w, sub(cons.e, j), typed - j)
    BY <1>4, <2>1
  <2> QED  BY SMTT(30), <2>1, <2>2, RingTells
<1>7. ASSUME NEW i \in 1..typed PROVE cons.buf[sub(cons.e, i) % INPUT_BUF_SIZE] # NL
  <2>1. i \in Nat /\ i <= typed
    BY SMT, <1>2
  <2>2. PICK k \in Nat : k = typed - i /\ k < typed
    BY SMT, <1>2
  <2>3. RingAt(ConsUint, INPUT_BUF_SIZE, cons.w, sub(cons.e, i), k)
    BY <1>4, <2>1, <2>2
  <2>4. sub(cons.e, i) % INPUT_BUF_SIZE = Slot(INPUT_BUF_SIZE, cons.w, k)
    BY SMT, <2>3, SlotLast DEF RingAt
  <2> QED  BY <2>2, <2>4 DEF LineOpen
<1>8. ASSUME NEW n \in erasable(cons) PROVE n \in 1..typed
  <2>1. /\ n \in 1..INPUT_BUF_SIZE
        /\ \A i \in 1..n : sub(cons.e, i - 1) # cons.w
    BY DEF erasable
  <2>2. ASSUME ~(n <= typed) PROVE FALSE
    <3>1. PICK i \in 1..n : i - 1 = typed
      <4>1. typed + 1 \in 1..n /\ (typed + 1) - 1 = typed
        BY SMT, <1>2, <2>1, <2>2
      <4> QED  BY <4>1
    <3>2. sub(cons.e, i - 1) # cons.w
      BY <2>1
    <3> QED  BY <1>5, <3>1, <3>2
  <2> QED  BY SMT, <1>2, <2>1, <2>2
<1>9. ASSUME NEW n \in 1..typed PROVE n \in erasable(cons)
  <2>1. n \in 1..INPUT_BUF_SIZE
    BY SMT, <1>2, <1>3
  <2>2. ASSUME NEW i \in 1..n
        PROVE  sub(cons.e, i - 1) # cons.w /\ cons.buf[sub(cons.e, i) % INPUT_BUF_SIZE] # NL
    <3>1. i - 1 \in Nat /\ i - 1 < typed /\ i \in 1..typed
      BY SMT, <1>2
    <3> QED  BY <1>6, <1>7, <3>1
  <2> QED  BY <2>1, <2>2 DEF erasable
<1> QED  BY <1>8, <1>9

(* What intr_kill_line erases is the line.                                 *)
LEMMA KillIsErase ==
  ASSUME cons \in ConsRing, ConsBounded, LineOpen, intr_kill_line
  PROVE  typed # 0 /\ cons' = [cons EXCEPT !.e = sub(@, typed)]
<1>1. erasable(cons) = 1..typed /\ typed \in Nat
  BY KillStops, PartLengths
<1>2. typed # 0
  <2>1. 1..typed # {}
    BY <1>1 DEF intr_kill_line
  <2> QED  BY SMT, <1>1, <2>1
<1>3. \A n \in 1..typed : n + 1 \notin 1..typed <=> n = typed
  BY SMT, <1>1
<1>4. typed \in 1..typed
  BY SMT, <1>1, <1>2
<1>5. PICK n : n = CHOOSE m \in 1..typed : m + 1 \notin 1..typed
  OBVIOUS
<1>6. n \in 1..typed /\ n + 1 \notin 1..typed
  BY <1>3, <1>4, <1>5
<1>7. n = typed
  BY <1>3, <1>6
<1>8. cons' = [cons EXCEPT !.e = sub(@, CHOOSE m \in 1..typed : m + 1 \notin 1..typed)]
  BY <1>1 DEF intr_kill_line
<1> QED  BY <1>2, <1>5, <1>7, <1>8

-----------------------------------------------------------------------------
(* Every step keeps the invariant.                                         *)

(* Nobody is moved by wakeup() to sleep.                                   *)
LEMMA WokenTyped ==
  ASSUME rd \in [Readers -> Reader]
  PROVE  woken \in [Readers -> Reader] /\ \A p \in Readers : woken[p].pc # "asleep"
<1>1. \A x \in Reader : [x EXCEPT !.pc = "woken"] \in Reader /\ [x EXCEPT !.pc = "woken"].pc = "woken"
  BY SMT DEF Reader
<1>2. ASSUME NEW p \in Readers PROVE woken[p] \in Reader /\ woken[p].pc # "asleep"
  <2>1. rd[p] \in Reader /\ woken[p] = IF rd[p].pc = "asleep" THEN [rd[p] EXCEPT !.pc = "woken"] ELSE rd[p]
    BY DEF woken
  <2>2. CASE rd[p].pc = "asleep"
    <3>1. woken[p] = [rd[p] EXCEPT !.pc = "woken"]
      BY <2>1, <2>2
    <3> QED  BY <1>1, <2>1, <3>1
  <2>3. CASE rd[p].pc # "asleep"
    BY <2>1, <2>3
  <2> QED  BY <2>2, <2>3
<1>3. woken = [p \in Readers |-> woken[p]]
  BY DEF woken
<1>4. woken \in [Readers -> Reader]
  BY <1>2, <1>3
<1> QED  BY <1>2, <1>4

(* A reader's step changes its own record.                                 *)
LEMMA ReaderMoves ==
  ASSUME rd \in [Readers -> Reader], NEW p \in Readers, NEW x \in Reader, rd' = [rd EXCEPT ![p] = x]
  PROVE  rd' \in [Readers -> Reader] /\ rd'[p] = x /\ \A q \in Readers : q # p => rd'[q] = rd[q]
OBVIOUS

(* The ring as it was keeps its invariants.                                *)
LEMMA RingStays ==
  ASSUME ConsInv, cons' = cons PROVE (cons \in ConsRing /\ ConsBounded /\ LineOpen /\ FullGiven)'
BY DEF ConsInv, ConsTypes, ConsBounded, LineOpen, FullGiven, given, typed

(* consoleintr() stores a character.                                       *)
LEMMA CharKeeps ==
  ASSUME ConsInv, NEW c \in Typed, intr_char(c) PROVE ConsInv'
<1>0. cons \in ConsRing /\ rd \in [Readers -> Reader] /\ ConsBounded /\ LineOpen /\ Asleep
  BY DEF ConsInv, ConsTypes
<1>1. /\ cons' \in ConsRing /\ cons'.r = cons.r /\ given + typed < INPUT_BUF_SIZE
      /\ Stored(Typed, INPUT_BUF_SIZE, cons.w, typed, cons.buf, c, cons'.buf)
      /\ IF c \in {NL, EOF} \/ given + typed + 1 = INPUT_BUF_SIZE
         THEN given' = given + typed + 1 /\ typed' = 0
         ELSE given' = given /\ typed' = typed + 1 /\ cons'.w = cons.w
  BY <1>0, CharStored
<1>2. given \in Nat /\ typed \in Nat /\ INPUT_BUF_SIZE \in Nat
  BY <1>0, PartLengths, ConsConstants
<1>3. ConsTypes'
  BY <1>0, <1>1, WokenTyped DEF intr_char, ConsTypes
<1>4. Asleep'
  <2>1. CASE cons'.w # cons.w
    BY <1>0, <2>1, WokenTyped DEF intr_char, Asleep
  <2>2. CASE cons'.w = cons.w
    BY <1>0, <1>1, <2>2 DEF intr_char, Asleep
  <2> QED  BY <2>1, <2>2
<1>5. CASE c \in {NL, EOF} \/ given + typed + 1 = INPUT_BUF_SIZE
  <2>1. given' = given + typed + 1 /\ typed' = 0
    BY <1>1, <1>5
  <2>2. ConsBounded'
    BY SMT, <1>1, <1>2, <2>1 DEF ConsBounded
  <2>3. LineOpen'
    BY SMT, <2>1 DEF LineOpen
  <2>4. FullGiven'
    BY <2>1 DEF FullGiven
  <2> QED  BY <1>3, <1>4, <2>2, <2>3, <2>4 DEF ConsInv
<1>6. CASE ~(c \in {NL, EOF} \/ given + typed + 1 = INPUT_BUF_SIZE)
  <2>1. given' = given /\ typed' = typed + 1 /\ cons'.w = cons.w /\ c # NL /\ given + typed + 1 # INPUT_BUF_SIZE
    BY <1>1, <1>6
  <2>2. ConsBounded' /\ FullGiven'
    BY SMT, <1>1, <1>2, <2>1 DEF ConsBounded, FullGiven
  <2>3. LineOpen'
    <3>1. /\ cons'.buf[Slot(INPUT_BUF_SIZE, cons.w, typed)] = c
          /\ \A k \in Nat : k < typed =>
               cons'.buf[Slot(INPUT_BUF_SIZE, cons.w, k)] = cons.buf[Slot(INPUT_BUF_SIZE, cons.w, k)]
      BY SMT, <1>1, StoredAt
    <3>2. \A k \in Nat : k < typed + 1 => k < typed \/ k = typed
      BY SMT, <1>2
    <3>3. \A k \in Nat : k < typed + 1 => cons'.buf[Slot(INPUT_BUF_SIZE, cons.w, k)] # NL
      BY <1>0, <2>1, <3>1, <3>2 DEF LineOpen
    <3> QED  BY <2>1, <3>3 DEF LineOpen
  <2> QED  BY <1>3, <1>4, <2>2, <2>3 DEF ConsInv
<1> QED  BY <1>5, <1>6

(* Erasing, one character or all.                                          *)
LEMMA EraseKeeps ==
  ASSUME ConsInv, intr_erase \/ intr_kill_line
  PROVE  /\ ConsInv'
         /\ \E n \in Nat : /\ n > 0 /\ n <= typed /\ cons' = [cons EXCEPT !.e = sub(@, n)]
                           /\ (intr_erase /\ n = 1) \/ (intr_kill_line /\ n = typed)
<1>0. cons \in ConsRing /\ rd \in [Readers -> Reader] /\ ConsBounded /\ LineOpen /\ Asleep
  BY DEF ConsInv, ConsTypes
<1>1. given \in Nat /\ typed \in Nat /\ INPUT_BUF_SIZE \in Nat
  BY <1>0, PartLengths, ConsConstants
<1>2. PICK n \in Nat : /\ n > 0 /\ n <= typed /\ cons' = [cons EXCEPT !.e = sub(@, n)]
                       /\ (intr_erase /\ n = 1) \/ (intr_kill_line /\ n = typed)
  <2>1. CASE intr_erase
    <3>1. typed # 0 /\ cons' = [cons EXCEPT !.e = sub(@, 1)]
      BY <1>0, <2>1, PartLengths DEF intr_erase
    <3>2. 1 \in Nat /\ 1 > 0 /\ 1 <= typed
      BY SMT, <1>1, <3>1
    <3> QED  BY <2>1, <3>1, <3>2
  <2>2. CASE intr_kill_line
    <3>1. typed # 0 /\ cons' = [cons EXCEPT !.e = sub(@, typed)]
      BY <1>0, <2>2, KillIsErase
    <3>2. typed > 0 /\ typed <= typed
      BY SMT, <1>1, <3>1
    <3> QED  BY <1>1, <2>2, <3>1, <3>2
  <2> QED  BY <2>1, <2>2
<1>3. /\ cons' \in ConsRing /\ cons'.buf = cons.buf /\ cons'.r = cons.r /\ cons'.w = cons.w
      /\ given' = given /\ typed' = typed - n
  BY <1>0, <1>2, CharsErased
<1>4. ConsTypes'
  BY <1>0, <1>3 DEF intr_erase, intr_kill_line, ConsTypes
<1>5. ConsBounded' /\ FullGiven'
  BY SMTT(30), <1>0, <1>1, <1>2, <1>3 DEF ConsBounded, FullGiven
<1>6. LineOpen'
  <2>1. \A k \in Nat : k < typed - n => k < typed
    BY SMT, <1>1, <1>2
  <2> QED  BY <1>0, <1>3, <2>1 DEF LineOpen
<1>7. Asleep'
  BY <1>0, <1>3 DEF intr_erase, intr_kill_line, Asleep
<1> QED  BY <1>2, <1>4, <1>5, <1>6, <1>7 DEF ConsInv

(* consoleread() takes the lock.                                           *)
LEMMA EnterTyped ==
  ASSUME rd \in [Readers -> Reader], NEW p \in Readers, read_enter(p)
  PROVE  rd' \in [Readers -> Reader] /\ rd'[p].pc # "asleep" /\ \A q \in Readers : q # p => rd'[q] = rd[q]
<1>0. rd[p] \in Reader
  OBVIOUS
<1>1. CASE rd' = [rd EXCEPT ![p].pc = "loop"]
  <2>1. PICK x \in Reader : x = [rd[p] EXCEPT !.pc = "loop"] /\ x.pc = "loop"
    <3>1. [rd[p] EXCEPT !.pc = "loop"] \in Reader /\ [rd[p] EXCEPT !.pc = "loop"].pc = "loop"
      BY SMT, <1>0 DEF Reader
    <3> QED  BY <3>1
  <2>2. rd' = [rd EXCEPT ![p] = x]
    BY <1>1, <2>1
  <2> QED  BY <2>1, <2>2, ReaderMoves
<1>2. CASE \E n \in 1..MaxRead : rd' = [rd EXCEPT ![p].pc = "loop", ![p].n = n, ![p].target = n]
  <2>1. PICK n \in 1..MaxRead : rd' = [rd EXCEPT ![p].pc = "loop", ![p].n = n, ![p].target = n]
    BY <1>2
  <2>2. n \in Nat
    BY SMT, ConsoleConstants
  <2>3. PICK x \in Reader : x = [rd[p] EXCEPT !.pc = "loop", !.n = n, !.target = n] /\ x.pc = "loop"
    <3>1. /\ [rd[p] EXCEPT !.pc = "loop", !.n = n, !.target = n] \in Reader
          /\ [rd[p] EXCEPT !.pc = "loop", !.n = n, !.target = n].pc = "loop"
      BY ZenonT(30), <1>0, <2>2 DEF Reader
    <3> QED  BY <3>1
  <2>4. rd' = [rd EXCEPT ![p] = x]
    BY ZenonT(30), <2>1, <2>3
  <2> QED  BY <2>3, <2>4, ReaderMoves
<1> QED  BY <1>1, <1>2 DEF read_enter

(* A reader that leaves, and one that is outside.                          *)
LEMMA OutsideTyped == Outside \in Reader /\ Outside.pc # "asleep"
<1>1. Outside.pc = "out"
  BY DEF Outside
<1>2. Outside \in Reader
  <2>1. 0 \in Nat
    BY SMT
  <2> QED  BY <2>1 DEF Outside, Reader
<1> QED  BY <1>1, <1>2

(* It sleeps, or gives up.                                                 *)
LEMMA WaitTyped ==
  ASSUME rd \in [Readers -> Reader], NEW p \in Readers, read_wait(p)
  PROVE  rd' \in [Readers -> Reader]
<1>0. rd[p] \in Reader
  OBVIOUS
<1>1. PICK late_kill \in BOOLEAN :
         rd' = [rd EXCEPT ![p] = IF @.killed THEN Outside
                                 ELSE [@ EXCEPT !.pc = "asleep", !.killed = late_kill]]
  BY DEF read_wait
<1>2. [rd[p] EXCEPT !.pc = "asleep", !.killed = late_kill] \in Reader
  BY <1>0 DEF Reader
<1>3. PICK x \in Reader : rd' = [rd EXCEPT ![p] = x]
  BY <1>0, <1>1, <1>2, OutsideTyped
<1> QED  BY <1>3, ReaderMoves

(* It reads a character and goes on, or leaves.                            *)
LEMMA ReadTyped ==
  ASSUME rd \in [Readers -> Reader], NEW p \in Readers, read_char(p)
  PROVE  /\ rd' \in [Readers -> Reader]
         /\ \A q \in Readers : rd'[q].pc = "asleep" => rd[q].pc = "asleep"
<1>0. rd[p] \in Reader /\ rd[p].n > 0
  BY DEF read_char
<1>1. CASE rd' = [rd EXCEPT ![p] = Outside]
  <2>1. rd' \in [Readers -> Reader] /\ rd'[p] = Outside /\ \A q \in Readers : q # p => rd'[q] = rd[q]
    BY <1>1, OutsideTyped, ReaderMoves
  <2> QED  BY <2>1, OutsideTyped
<1>2. CASE rd' = [rd EXCEPT ![p].n = @ - 1]
  <2>1. rd[p].n - 1 \in Nat
    <3>1. rd[p].n \in Nat
      BY <1>0 DEF Reader
    <3> QED  BY SMT, <1>0, <3>1
  <2>2. PICK x \in Reader : x = [rd[p] EXCEPT !.n = rd[p].n - 1] /\ x.pc = rd[p].pc
    <3>1. [rd[p] EXCEPT !.n = rd[p].n - 1] \in Reader /\ [rd[p] EXCEPT !.n = rd[p].n - 1].pc = rd[p].pc
      BY <1>0, <2>1 DEF Reader
    <3> QED  BY <3>1
  <2>3. rd' = [rd EXCEPT ![p] = x]
    BY <1>2, <2>2
  <2>4. rd' \in [Readers -> Reader] /\ rd'[p] = x /\ \A q \in Readers : q # p => rd'[q] = rd[q]
    BY <2>3, ReaderMoves
  <2> QED  BY <2>2, <2>4
<1> QED  BY <1>1, <1>2 DEF read_char

(* A C('D') at the end of a read that has read something stays.            *)
LEMMA ReadMoves ==
  ASSUME cons \in ConsRing, NEW p, read_char(p)
  PROVE  cons' = cons \/ cons' = [cons EXCEPT !.r = add(@, 1)]
<1>1. PICK kept \in BOOLEAN : cons' = [cons EXCEPT !.r = IF kept THEN @ ELSE add(@, 1)]
  BY DEF read_char
<1>2. CASE kept
  <2>1. cons' = [cons EXCEPT !.r = cons.r]
    BY <1>1, <1>2
  <2> QED  BY <2>1 DEF ConsRing
<1>3. CASE ~kept
  BY <1>1, <1>3
<1> QED  BY <1>2, <1>3

(* kill() wakes.                                                           *)
LEMMA KillTyped ==
  ASSUME rd \in [Readers -> Reader], NEW p \in Readers, read_kill(p)
  PROVE  rd' \in [Readers -> Reader] /\ \A q \in Readers : rd'[q].pc = "asleep" => rd[q].pc = "asleep"
<1>0. rd[p] \in Reader
  OBVIOUS
<1>1. PICK y : y = IF rd[p].pc = "asleep" THEN "woken" ELSE rd[p].pc
  OBVIOUS
<1>2. y \in {"out", "loop", "asleep", "woken"} /\ (y = "asleep" => rd[p].pc = "asleep")
  <2>1. rd[p].pc \in {"out", "loop", "asleep", "woken"}
    BY <1>0 DEF Reader
  <2> QED  BY <1>1, <2>1
<1>3. PICK x \in Reader : x = [rd[p] EXCEPT !.killed = TRUE, !.pc = y] /\ x.pc = y
  <2>1. [rd[p] EXCEPT !.killed = TRUE, !.pc = y] \in Reader /\ [rd[p] EXCEPT !.killed = TRUE, !.pc = y].pc = y
    BY <1>0, <1>2 DEF Reader
  <2> QED  BY <2>1
<1>4. rd' = [rd EXCEPT ![p] = x]
  BY ZenonT(30), <1>0, <1>1, <1>3 DEF read_kill, Reader
<1>5. rd' \in [Readers -> Reader] /\ rd'[p] = x /\ \A q \in Readers : q # p => rd'[q] = rd[q]
  BY <1>4, ReaderMoves
<1> QED  BY <1>2, <1>3, <1>5

(* A reader's step.                                                        *)
LEMMA ReadKeeps ==
  ASSUME ConsInv, NEW p \in Readers,
         read_enter(p) \/ read_wait(p) \/ read_char(p) \/ read_end(p) \/ read_kill(p)
  PROVE  ConsInv'
<1>0. cons \in ConsRing /\ rd \in [Readers -> Reader] /\ ConsBounded /\ LineOpen /\ FullGiven /\ Asleep
  BY DEF ConsInv, ConsTypes
<1>1. CASE read_enter(p)
  <2>1. cons' = cons
    BY <1>1 DEF read_enter
  <2>2. rd' \in [Readers -> Reader] /\ rd'[p].pc # "asleep" /\ \A q \in Readers : q # p => rd'[q] = rd[q]
    BY <1>0, <1>1, EnterTyped
  <2>3. Asleep'
    BY <1>0, <2>1, <2>2 DEF Asleep
  <2> QED  BY <2>1, <2>2, <2>3, RingStays DEF ConsInv, ConsTypes
<1>2. CASE read_wait(p)
  <2>1. cons' = cons /\ cons.r = cons.w
    BY <1>2 DEF read_wait
  <2>2. rd' \in [Readers -> Reader]
    BY <1>0, <1>2, WaitTyped
  <2>3. Asleep'
    BY <2>1 DEF Asleep
  <2> QED  BY <2>1, <2>2, <2>3, RingStays DEF ConsInv, ConsTypes
<1>3. CASE read_char(p)
  <2>1. rd' \in [Readers -> Reader] /\ \A q \in Readers : rd'[q].pc = "asleep" => rd[q].pc = "asleep"
    BY <1>0, <1>3, ReadTyped
  <2>2. Asleep'
    BY <1>0, <1>3, <2>1 DEF Asleep, read_char
  <2>3. CASE cons' = cons
    BY <2>1, <2>2, <2>3, RingStays DEF ConsInv, ConsTypes
  <2>4. CASE cons' = [cons EXCEPT !.r = add(@, 1)]
    <3>1. /\ cons' \in ConsRing /\ cons'.buf = cons.buf /\ cons'.w = cons.w
          /\ given \in Nat \ {0} /\ given' = given - 1 /\ typed' = typed
      BY <1>0, <1>3, <2>4, CharRead DEF read_char
    <3>2. typed \in Nat /\ INPUT_BUF_SIZE \in Nat
      BY <1>0, PartLengths, ConsConstants
    <3>3. ConsBounded' /\ FullGiven'
      BY SMT, <1>0, <3>1, <3>2 DEF ConsBounded, FullGiven
    <3>4. LineOpen'
      BY <1>0, <3>1 DEF LineOpen
    <3> QED  BY <2>1, <2>2, <3>1, <3>3, <3>4 DEF ConsInv, ConsTypes
  <2>5. cons' = cons \/ cons' = [cons EXCEPT !.r = add(@, 1)]
    BY <1>0, <1>3, ReadMoves
  <2> QED  BY <2>3, <2>4, <2>5
<1>4. CASE read_end(p)
  <2>1. cons' = cons /\ rd' = [rd EXCEPT ![p] = Outside]
    BY <1>4 DEF read_end
  <2>2. rd' \in [Readers -> Reader] /\ rd'[p] = Outside /\ \A q \in Readers : q # p => rd'[q] = rd[q]
    BY <1>0, <2>1, OutsideTyped, ReaderMoves
  <2>3. Asleep'
    BY <1>0, <2>1, <2>2, OutsideTyped DEF Asleep
  <2> QED  BY <2>1, <2>2, <2>3, RingStays DEF ConsInv, ConsTypes
<1>5. CASE read_kill(p)
  <2>1. cons' = cons
    BY <1>5 DEF read_kill
  <2>2. rd' \in [Readers -> Reader] /\ \A q \in Readers : rd'[q].pc = "asleep" => rd[q].pc = "asleep"
    BY <1>0, <1>5, KillTyped
  <2>3. Asleep'
    BY <1>0, <2>1, <2>2 DEF Asleep
  <2> QED  BY <2>1, <2>2, <2>3, RingStays DEF ConsInv, ConsTypes
<1> QED  BY <1>1, <1>2, <1>3, <1>4, <1>5

(* The invariant holds before anything is typed.                           *)
LEMMA ConsInitially == ConsInit => ConsInv
<1> SUFFICES ASSUME ConsInit PROVE ConsInv
  OBVIOUS
<1>1. 0 \in 0..ConsUint - 1
  BY SMT, ConsConstants
<1>2. [i \in 0..INPUT_BUF_SIZE - 1 |-> NL] \in Ring(Typed, INPUT_BUF_SIZE)
  BY DEF Ring, Typed
<1>3. cons \in ConsRing
  BY <1>1, <1>2 DEF ConsInit, ConsRing
<1>4. rd \in [Readers -> Reader] /\ \A p \in Readers : rd[p].pc # "asleep"
  BY OutsideTyped DEF ConsInit
<1>5. cons.r = cons.w /\ cons.w = cons.e
  BY DEF ConsInit
<1>6. given = 0 /\ typed = 0
  BY <1>3, <1>5, PartLengths
<1>7. ConsBounded /\ FullGiven
  BY SMT, <1>6, ConsConstants DEF ConsBounded, FullGiven
<1>8. LineOpen
  BY SMT, <1>6 DEF LineOpen
<1> QED  BY <1>3, <1>4, <1>7, <1>8 DEF ConsInv, ConsTypes, Asleep

(* Every step keeps it.                                                    *)
LEMMA ConsStep == ConsInv /\ [ConsNext]_consvars => ConsInv'
<1> SUFFICES ASSUME ConsInv, [ConsNext]_consvars PROVE ConsInv'
  OBVIOUS
<1>1. CASE \E c \in Typed : intr_char(c)
  BY <1>1, CharKeeps
<1>2. CASE intr_erase \/ intr_kill_line
  BY <1>2, EraseKeeps
<1>3. CASE \E p \in Readers : read_enter(p) \/ read_wait(p) \/ read_char(p) \/ read_end(p) \/ read_kill(p)
  BY <1>3, ReadKeeps
<1>4. CASE UNCHANGED consvars
  <2>1. cons' = cons /\ rd' = rd
    BY <1>4 DEF consvars
  <2> QED  BY <2>1, RingStays DEF ConsInv, ConsTypes, Asleep
<1> QED  BY <1>1, <1>2, <1>3, <1>4 DEF ConsNext, Typed

(* With any number of readers and a ring of any size, whose indices wrap   *)
(* anywhere, a reader sleeps only while there is nothing to read, and a    *)
(* full ring can be read.                                                  *)
THEOREM ReaderAwakeCorrect == ConsSpec => []ReaderAwake
<1>1. ConsInv => ReaderAwake
  <2> SUFFICES ASSUME ConsInv PROVE ReaderAwake
    OBVIOUS
  <2>1. cons \in ConsRing /\ ConsBounded /\ FullGiven /\ Asleep
    BY DEF ConsInv, ConsTypes
  <2>2. sub(cons.e, cons.r) = given + typed
    BY <2>1, ConsWhole
  <2>3. sub(cons.e, cons.r) = INPUT_BUF_SIZE => cons.w = cons.e
    BY <2>1, <2>2, PartLengths DEF FullGiven
  <2> QED  BY <2>1, <2>3 DEF ReaderAwake, Asleep
<1> QED  BY <1>1, ConsInitially, ConsStep, PTL DEF ConsSpec

-----------------------------------------------------------------------------
(* The refinement.                                                         *)
ready == ring(cons.r, cons.w)
line == ring(cons.w, cons.e)

(* Its texts are the two parts of the ring ...                             *)
LEMMA TextsAre ==
  cons \in ConsRing => /\ ready = Run(cons.buf, INPUT_BUF_SIZE, cons.r, given)
                       /\ line = Run(cons.buf, INPUT_BUF_SIZE, cons.w, typed)
<1> SUFFICES ASSUME cons \in ConsRing
             PROVE  /\ ready = Run(cons.buf, INPUT_BUF_SIZE, cons.r, given)
                    /\ line = Run(cons.buf, INPUT_BUF_SIZE, cons.w, typed)
  OBVIOUS
<1>1. /\ RingAt(ConsUint, INPUT_BUF_SIZE, cons.r, cons.w, given)
      /\ RingAt(ConsUint, INPUT_BUF_SIZE, cons.w, cons.e, typed)
  BY ConsParts
<1>2. given \in 0..ConsUint - 1 /\ typed \in 0..ConsUint - 1
  BY <1>1, RingTells
<1>3. Wrapped(ConsUint, INPUT_BUF_SIZE, cons.buf, cons.r, given, ready)
  BY <1>1, <1>2 DEF RingAt, Wrapped, ready, ring, add, given
<1>4. Wrapped(ConsUint, INPUT_BUF_SIZE, cons.buf, cons.w, typed, line)
  BY <1>1, <1>2 DEF RingAt, Wrapped, line, ring, add, typed
<1> QED  BY <1>3, <1>4, RunCounters

(* ... of these lengths.                                                   *)
LEMMA TextLengths ==
  ASSUME cons \in ConsRing
  PROVE  /\ ready \in Seq(Typed) /\ Len(ready) = given /\ (given # 0 <=> ready # << >>)
         /\ line \in Seq(Typed) /\ Len(line) = typed /\ (typed # 0 <=> line # << >>)
<1>1. given \in Nat /\ typed \in Nat
  BY PartLengths
<1>2. cons.buf \in Ring(Typed, INPUT_BUF_SIZE) /\ cons.r \in Nat /\ cons.w \in Nat /\ INPUT_BUF_SIZE \in Nat \ {0}
  BY ConsFields, ConsConstants
<1>3. ready = Run(cons.buf, INPUT_BUF_SIZE, cons.r, given) /\ line = Run(cons.buf, INPUT_BUF_SIZE, cons.w, typed)
  BY TextsAre
<1>4. ready \in Seq(Typed) /\ line \in Seq(Typed)
  BY <1>1, <1>2, <1>3, RunSeq
<1>5. Len(ready) = given
  BY SMTT(30), <1>1, <1>3, RunLen
<1>6. Len(line) = typed
  BY SMT, <1>1, <1>3, RunLen
<1>7. given # 0 <=> ready # << >>
  BY SMT, <1>1, <1>4, <1>5
<1>8. typed # 0 <=> line # << >>
  BY SMT, <1>1, <1>4, <1>6
<1> QED  BY <1>4, <1>5, <1>6, <1>7, <1>8

(* The same after a step.                                                  *)
LEMMA TextsAfter ==
  ASSUME cons' \in ConsRing
  PROVE  /\ ready' = Run(cons'.buf, INPUT_BUF_SIZE, cons'.r, given')
         /\ line' = Run(cons'.buf, INPUT_BUF_SIZE, cons'.w, typed')
<1>1. (cons \in ConsRing => /\ ready = Run(cons.buf, INPUT_BUF_SIZE, cons.r, given)
                            /\ line = Run(cons.buf, INPUT_BUF_SIZE, cons.w, typed))'
  BY TextsAre, PTL
<1> QED  BY <1>1

(* A stored character is typed: at the end of the line, which may be       *)
(* handed over.                                                            *)
LEMMA CharTypes ==
  ASSUME ConsInv, NEW c \in Typed, intr_char(c)
  PROVE  /\ Len(ready) + Len(line) < INPUT_BUF_SIZE
         /\ IF c \in {NL, EOF} \/ Len(ready) + Len(line) + 1 = INPUT_BUF_SIZE
            THEN ready' = ready \o Append(line, c) /\ line' = << >>
            ELSE line' = Append(line, c) /\ ready' = ready
<1>0. cons \in ConsRing /\ ConsBounded
  BY DEF ConsInv, ConsTypes
<1>1. /\ cons' \in ConsRing /\ cons'.r = cons.r /\ given + typed < INPUT_BUF_SIZE
      /\ Stored(Typed, INPUT_BUF_SIZE, cons.r, given + typed, cons.buf, c, cons'.buf)
      /\ Stored(Typed, INPUT_BUF_SIZE, cons.w, typed, cons.buf, c, cons'.buf)
      /\ IF c \in {NL, EOF} \/ given + typed + 1 = INPUT_BUF_SIZE
         THEN given' = given + typed + 1 /\ typed' = 0
         ELSE given' = given /\ typed' = typed + 1 /\ cons'.w = cons.w
  BY <1>0, CharStored
<1>2. given \in Nat /\ typed \in Nat
  BY <1>0, PartLengths
<1>3. /\ Len(ready) = given /\ Len(line) = typed /\ ready \in Seq(Typed) /\ line \in Seq(Typed)
      /\ ready = Run(cons.buf, INPUT_BUF_SIZE, cons.r, given)
      /\ line = Run(cons.buf, INPUT_BUF_SIZE, cons.w, typed)
  BY <1>0, TextLengths, TextsAre
<1>4. /\ ready' = Run(cons'.buf, INPUT_BUF_SIZE, cons.r, given')
      /\ line' = Run(cons'.buf, INPUT_BUF_SIZE, cons'.w, typed')
  BY <1>1, TextsAfter
<1>5. CASE c \in {NL, EOF} \/ given + typed + 1 = INPUT_BUF_SIZE
  <2>1. given' = given + typed + 1 /\ typed' = 0
    BY <1>1, <1>5
  <2>2. line' = << >>
    BY <1>4, <2>1, RunEmpty
  <2>3. Joined(Typed, ConsUint, INPUT_BUF_SIZE, cons.buf, cons.r, cons.w, given, typed)
    BY <1>0, <1>2, ConsParts, ConsFields DEF Joined
  <2>4. Run(cons.buf, INPUT_BUF_SIZE, cons.r, given + typed) = ready \o line
    <3>1. Run(cons.buf, INPUT_BUF_SIZE, cons.r, given + typed)
            = Run(cons.buf, INPUT_BUF_SIZE, cons.r, given) \o Run(cons.buf, INPUT_BUF_SIZE, cons.w, typed)
      BY ONLY SMT, <2>3, RunConcat
    <3> QED  BY <1>3, <3>1
  <2>5. Run(cons'.buf, INPUT_BUF_SIZE, cons.r, given + typed + 1) = Append(ready \o line, c)
    <3>1. PICK s : s = given + typed
      OBVIOUS
    <3>2. Stored(Typed, INPUT_BUF_SIZE, cons.r, s, cons.buf, c, cons'.buf)
      BY <1>1, <3>1
    <3>3. Run(cons'.buf, INPUT_BUF_SIZE, cons.r, s + 1) = Append(Run(cons.buf, INPUT_BUF_SIZE, cons.r, s), c)
      BY SMT, <3>2, RunAppend
    <3> QED  BY <2>4, <3>1, <3>3
  <2>6. Append(ready \o line, c) = ready \o Append(line, c)
    <3>1. ready \in Seq(Typed) /\ line \in Seq(Typed) /\ c \in Typed
      BY <1>3
    <3> QED  BY ONLY SMTT(30), <3>1
  <2>7. ready' = ready \o Append(line, c)
    BY <1>4, <2>1, <2>5, <2>6
  <2> QED  BY <1>1, <1>3, <1>5, <2>2, <2>7
<1>6. CASE ~(c \in {NL, EOF} \/ given + typed + 1 = INPUT_BUF_SIZE)
  <2>1. given' = given /\ typed' = typed + 1 /\ cons'.w = cons.w
    BY <1>1, <1>6
  <2>2. line' = Append(line, c)
    <3>1. Run(cons'.buf, INPUT_BUF_SIZE, cons.w, typed + 1) = Append(line, c)
      BY SMT, <1>1, <1>3, RunAppend
    <3> QED  BY <1>4, <2>1, <3>1
  <2>3. ready' = ready
    <3>1. given <= given + typed
      BY SMTT(30), <1>2
    <3>2. Run(cons'.buf, INPUT_BUF_SIZE, cons.r, given) = Run(cons.buf, INPUT_BUF_SIZE, cons.r, given)
      BY SMTT(30), <1>1, <1>2, <3>1, RunBefore
    <3> QED  BY <1>3, <1>4, <2>1, <3>2
  <2> QED  BY <1>1, <1>3, <1>6, <2>2, <2>3
<1> QED  BY <1>5, <1>6

(* Erasing takes the last character of the line, or all of it.             *)
LEMMA EraseTypes ==
  ASSUME ConsInv, intr_erase \/ intr_kill_line
  PROVE  /\ line # << >> /\ ready' = ready
         /\ line' = SubSeq(line, 1, Len(line) - 1) \/ line' = << >>
<1>0. cons \in ConsRing
  BY DEF ConsInv, ConsTypes
<1>1. PICK n \in Nat : /\ n > 0 /\ n <= typed /\ cons' = [cons EXCEPT !.e = sub(@, n)]
                       /\ (intr_erase /\ n = 1) \/ (intr_kill_line /\ n = typed)
  BY EraseKeeps
<1>2. /\ cons' \in ConsRing /\ cons'.buf = cons.buf /\ cons'.r = cons.r /\ cons'.w = cons.w
      /\ given' = given /\ typed' = typed - n
  BY <1>0, <1>1, CharsErased
<1>3. typed \in Nat
  BY <1>0, PartLengths
<1>4. /\ Len(line) = typed /\ (typed # 0 <=> line # << >>)
      /\ ready = Run(cons.buf, INPUT_BUF_SIZE, cons.r, given)
      /\ line = Run(cons.buf, INPUT_BUF_SIZE, cons.w, typed)
  BY <1>0, TextLengths, TextsAre
<1>5. ready' = ready /\ line' = Run(cons.buf, INPUT_BUF_SIZE, cons.w, typed - n)
  BY <1>2, <1>4, TextsAfter
<1>6. typed # 0 /\ typed > 0
  BY SMT, <1>1, <1>3
<1>7. CASE n = 1
  <2>1. Entries(Typed, INPUT_BUF_SIZE, cons.buf, cons.w, typed)
    BY <1>0, <1>3, ConsFields, ConsConstants DEF Entries
  <2>2. Run(cons.buf, INPUT_BUF_SIZE, cons.w, typed - 1) = SubSeq(line, 1, typed - 1)
    BY SMTT(30), <1>4, <1>6, <2>1, RunPrefix
  <2> QED  BY <1>4, <1>5, <1>6, <1>7, <2>2
<1>8. CASE n = typed
  <2>1. typed - n = 0
    BY SMT, <1>3, <1>8
  <2> QED  BY <1>4, <1>5, <1>6, <2>1, RunEmpty
<1> QED  BY <1>1, <1>7, <1>8

(* Reading takes the first character handed over.                          *)
LEMMA ReadTakes ==
  ASSUME ConsInv, NEW p, read_char(p), cons' = [cons EXCEPT !.r = add(@, 1)]
  PROVE  ready # << >> /\ ready' = Tail(ready) /\ line' = line
<1>0. cons \in ConsRing /\ cons.r # cons.w
  BY DEF ConsInv, ConsTypes, read_char
<1>1. /\ cons' \in ConsRing /\ cons'.buf = cons.buf /\ cons'.r = (cons.r + 1) % ConsUint
      /\ cons'.w = cons.w /\ cons'.e = cons.e
      /\ given \in Nat \ {0} /\ given' = given - 1 /\ typed' = typed
  BY <1>0, CharRead
<1>2. /\ ready = Run(cons.buf, INPUT_BUF_SIZE, cons.r, given)
      /\ line = Run(cons.buf, INPUT_BUF_SIZE, cons.w, typed)
  BY <1>0, TextsAre
<1>3. line' = line /\ ready' = Run(cons.buf, INPUT_BUF_SIZE, (cons.r + 1) % ConsUint, given - 1)
  BY <1>1, <1>2, TextsAfter
<1>4. FromFront(Typed, ConsUint, INPUT_BUF_SIZE, cons.buf, cons.r, given, (cons.r + 1) % ConsUint)
  BY <1>0, <1>1, ConsFields, ConsConstants DEF FromFront
<1>5. /\ Run(cons.buf, INPUT_BUF_SIZE, cons.r, given) # << >>
      /\ Run(cons.buf, INPUT_BUF_SIZE, (cons.r + 1) % ConsUint, given - 1)
           = Tail(Run(cons.buf, INPUT_BUF_SIZE, cons.r, given))
  BY SMT, <1>4, RunTail
<1> QED  BY <1>2, <1>3, <1>5

(* The console is the line discipline, with any number of readers and a    *)
(* ring of any size, whose indices wrap anywhere.                          *)
THEOREM ConsoleRefinesLines == ConsSpec => ConsoleIsLineDiscipline
<1>1. ConsInit => Lines!Init
  <2> SUFFICES ASSUME ConsInit PROVE Lines!Init
    OBVIOUS
  <2>1. cons \in ConsRing /\ cons.r = cons.w /\ cons.w = cons.e
    BY ConsInitially DEF ConsInv, ConsTypes, ConsInit
  <2>2. ready = << >> /\ line = << >>
    BY <2>1, PartLengths, TextLengths
  <2> QED  BY <2>2 DEF Lines!Init, ready, line
<1>2. ConsInv /\ [ConsNext]_consvars => [Lines!Type \/ Lines!Erase \/ Lines!Kill \/ Lines!Read]_(Lines!vars)
  <2> SUFFICES ASSUME ConsInv, [ConsNext]_consvars
               PROVE  [Lines!Type \/ Lines!Erase \/ Lines!Kill \/ Lines!Read]_(Lines!vars)
    OBVIOUS
  <2>1. ASSUME NEW c \in Typed, intr_char(c) PROVE Lines!Type
    BY <2>1, CharTypes DEF Lines!Type, ready, line, Typed
  <2>2. ASSUME intr_erase \/ intr_kill_line PROVE Lines!Erase \/ Lines!Kill
    BY <2>2, EraseTypes DEF Lines!Erase, Lines!Kill, ready, line
  <2>3. CASE cons' = cons
    BY <2>3 DEF Lines!vars, ring
  <2>4. ASSUME NEW p, read_char(p) PROVE cons' = cons \/ Lines!Read
    <3>1. cons' = cons \/ cons' = [cons EXCEPT !.r = add(@, 1)]
      BY <2>4, ReadMoves DEF ConsInv, ConsTypes
    <3> QED  BY <2>4, <3>1, ReadTakes DEF Lines!Read, ready, line
  <2>5. ASSUME NEW p, read_enter(p) \/ read_wait(p) \/ read_end(p) \/ read_kill(p) PROVE cons' = cons
    BY <2>5 DEF read_enter, read_wait, read_end, read_kill
  <2>6. CASE UNCHANGED consvars
    BY <2>3, <2>6 DEF consvars
  <2> QED  BY <2>1, <2>2, <2>3, <2>4, <2>5, <2>6 DEF ConsNext, Typed
<1> QED  BY <1>1, <1>2, ConsInitially, ConsStep, PTL DEF ConsSpec, ConsoleIsLineDiscipline, Lines!Spec
=============================================================================
