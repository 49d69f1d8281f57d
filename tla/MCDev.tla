------------------------------- MODULE MCDev --------------------------------
(***************************************************************************)
(* The console's output and the clock.  They share no state: a behaviour   *)
(* is one of the one or of the other, as part says, and the rest stays as  *)
(* it was initially.                                                       *)
(***************************************************************************)
EXTENDS Uart, Clock

CONSTANTS w1, w2, s1, s2

VARIABLE part

InitDev == /\ part \in {"uart", "clock"}
           /\ UartInit /\ ClockInit
           /\ part = "uart" => ticks = 0
NextDev == \/ part = "uart" /\ UartNext /\ UNCHANGED <<part, clockvars>>
           \/ part = "clock" /\ ClockNext /\ UNCHANGED <<part, uartvars>>

\* A process in the kernel runs on, the handler runs once the interrupt is
\* there, and the device sends what it was given.
UartFairness ==
  /\ \A p \in Writers : WF_uartvars(part = "uart" /\ (uartputc_store(p) \/ uartputc_wait(p) \/ uartstart(p)))
  /\ WF_uartvars(part = "uart" /\ printf_send)
  /\ WF_uartvars(part = "uart" /\ Handler)
  /\ SF_uartvars(part = "uart" /\ uartintr_tx)
  /\ SF_uartvars(part = "uart" /\ echo_check)
  /\ WF_uartvars(part = "uart" /\ transmit)

\* Timer interrupts keep coming and get tickslock, and a process in the kernel
\* is scheduled.
ClockFairness ==
  /\ SF_clockvars(part = "clock" /\ clockintr)
  /\ \A p \in Sleepers : /\ SF_clockvars(part = "clock" /\ sl[p].pc = "woken" /\ sys_sleep(p))
                         /\ WF_clockvars(part = "clock" /\ (sleep_test(p) \/ sleep_block(p)))

Spec == InitDev /\ [][NextDev]_<<part, uartvars, clockvars>> /\ UartFairness /\ ClockFairness
=============================================================================
