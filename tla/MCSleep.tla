------------------------------ MODULE MCSleep -------------------------------
(***************************************************************************)
(* Whoever sleeps, and what wakes them: the process table on two CPUs; the *)
(* console's input and output; the clock; and the log, with crashes.  They *)
(* share no state, so a behaviour is one of the part that part names, and  *)
(* the variables of the others stay as they were initially.                *)
(***************************************************************************)
EXTENDS Proc, Console, Uart, Clock, Log, TLC

CONSTANTS r1, r2, w1, w2, s1, s2

VARIABLE part

InitSleep ==
  /\ part \in {"proc", "console", "uart", "clock", "log"}
  /\ Init /\ ConsInit
  /\ UartInit /\ (part # "uart" => sent = "x")
  /\ ClockInit /\ (part # "clock" => ticks = 0)
  /\ LogInit /\ (part # "log" => disk = [b \in Blocks |-> CHOOSE v \in Values : TRUE])

NextSleep ==
  \/ part = "proc" /\ Next /\ UNCHANGED <<part, consvars, uartvars, clockvars, logvars>>
  \/ part = "console" /\ ConsNext /\ UNCHANGED <<part, vars, uartvars, clockvars, logvars>>
  \/ part = "uart" /\ UartNext /\ UNCHANGED <<part, vars, consvars, clockvars, logvars>>
  \/ part = "clock" /\ ClockNext /\ UNCHANGED <<part, vars, consvars, uartvars, logvars>>
  \/ part = "log" /\ LogNext /\ UNCHANGED <<part, vars, consvars, uartvars, clockvars>>

SpecSleep == InitSleep /\ [][NextSleep]_<<part, vars, consvars, uartvars, clockvars, logvars>>

CpuSymmetry == Permutations(CPUs)
=============================================================================
