----------------------------- MODULE MCSpinlock -----------------------------
(* What a CPU does below the processes.  Two CPUs, each a thread and an     *)
(* interrupt handler, and two locks; and two harts that take traps from two *)
(* threads.  The two share no state, so a behaviour is one of either, as    *)
(* part says.                                                               *)
EXTENDS Spinlock, Trap, TLC

CONSTANTS h1, h2, t1, t2

VARIABLE part

InitCpu == part \in {"spinlock", "trap"} /\ Init /\ TrapInit
NextCpu == \/ part = "spinlock" /\ Next /\ UNCHANGED <<part, trapvars>>
           \/ part = "trap" /\ TrapNext /\ UNCHANGED <<part, vars>>
SpecCpu == InitCpu /\ [][NextCpu]_<<part, vars, trapvars>>

CpuSymmetry == Permutations(CPUs)
=============================================================================
